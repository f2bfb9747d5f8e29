--------------------------- MODULE SGMLStream_proofs ---------------------------
(***************************************************************************)
(* For every set of characters, of entities and every depth of nesting:    *)
(* the calls SGML.c makes are a structured stream, the target and the      *)
(* parser agree on the open elements, start_element is told the attributes *)
(* of its own tag, and literal text comes out whole; and what the search   *)
(* of an attribute list finds is the attribute of that name.               *)
(*                                                                         *)
(* The invariant the proofs share says how the calls still to be made      *)
(* relate the elements the target knows of to those on the parser's stack, *)
(* in which content each state of the parser can be, and what the slots of *)
(* the attributes hold while a tag is being read.                          *)
(***************************************************************************)
EXTENDS SGMLStream, SequenceTheorems, WellFoundedInduction, TLAPS

-----------------------------------------------------------------------------
(* What the search of HTMLDTD.tla finds in the attribute lists.  Lookup is *)
(* a recursive function: the lemmas show that one satisfying its equation  *)
(* exists, by running the bisection for as many rounds as a list of seven  *)
(* names can need, and that whatever it finds compares equal to the name.  *)
Bounds(table) == (0 .. Len(table)) \X (0 .. Len(table))

(* One probe of the bisection, which leaves the rest to `found'. *)
Search(table, name, found, bounds) ==
  LET low  == bounds[1]
      high == bounds[2]
      i    == low + (high - low) \div 2
      diff == strcasecomp(table[i + 1], name)
  IN  IF high <= low THEN INVALID
      ELSE IF diff = 0 THEN i
      ELSE IF diff < 0 THEN found[<< i + 1, high >>]
      ELSE found[<< low, i >>]

Round(table, name, found) ==
  [ bounds \in Bounds(table) |-> Search(table, name, found, bounds) ]

Shorter(table, n) == { b \in Bounds(table) : b[2] - b[1] <= n }
Agree(table, n, f, g) == \A b \in Shorter(table, n) : f[b] = g[b]

(* Each half of an interval the bisection leaves is less than half as long. *)
LEMMA Halves ==
  ASSUME NEW low \in Nat, NEW high \in Nat, NEW n \in Nat, low < high,
         high - low <= 2 * n + 1
  PROVE  LET i == low + (high - low) \div 2
         IN  /\ i \in Nat /\ low <= i /\ i < high
             /\ i - low <= n /\ high - (i + 1) <= n
OBVIOUS

(* Two searches that agree on short intervals agree, a round later, on     *)
(* intervals twice as long.                                                *)
LEMMA Rounds ==
  ASSUME NEW table, Len(table) \in Nat, NEW name, NEW n \in Nat, NEW f, NEW g,
         NEW m \in Nat, m <= 2 * n + 1,
         Agree(table, n, f, g)
  PROVE  Agree(table, m, Round(table, name, f), Round(table, name, g))
<1> SUFFICES ASSUME NEW low \in 0 .. Len(table), NEW high \in 0 .. Len(table),
                    high - low <= m
             PROVE  Search(table, name, f, << low, high >>) =
                      Search(table, name, g, << low, high >>)
  BY DEF Agree, Shorter, Bounds, Round
<1>1. CASE high <= low
  BY <1>1 DEF Search
<1> DEFINE i == low + (high - low) \div 2
<1>2. CASE ~ (high <= low)
  <2>1. i \in Nat /\ low <= i /\ i < high /\ i - low <= n /\ high - (i + 1) <= n
    BY <1>2, Halves
  <2>2. /\ << i + 1, high >> \in Shorter(table, n)
        /\ << low, i >> \in Shorter(table, n)
    <3> HIDE DEF i
    <3>1. QED
      BY <2>1 DEF Shorter, Bounds
  <2>3. /\ f[<< i + 1, high >>] = g[<< i + 1, high >>]
        /\ f[<< low, i >>] = g[<< low, i >>]
    BY <2>2 DEF Agree
  <2>4. QED
    BY <1>2, <2>3, Zenon DEF Search
<1>3. QED
  BY <1>1, <1>2

(* Four rounds search a table of seven names completely. *)
LEMMA SearchExists ==
  ASSUME NEW table, NEW name, Len(table) \in Nat, Len(table) <= 7
  PROVE  \E f : f = Round(table, name, f)
<1> DEFINE f0 == [ b \in Bounds(table) |-> INVALID ]
           f1 == Round(table, name, f0)
           f2 == Round(table, name, f1)
           f3 == Round(table, name, f2)
           f4 == Round(table, name, f3)
<1>1. Agree(table, 0, f0, f1)
  BY DEF Agree, Shorter, Round, Search, Bounds
<1>2. f1 = Round(table, name, f0) /\ f2 = Round(table, name, f1)
  OBVIOUS
<1>3. f3 = Round(table, name, f2) /\ f4 = Round(table, name, f3)
  OBVIOUS
<1> HIDE DEF f0, f1, f2, f3, f4
<1>5. Agree(table, 1, f1, f2)
  BY <1>1, <1>2, Rounds
<1>6. Agree(table, 3, f2, f3)
  BY <1>2, <1>3, <1>5, Rounds
<1>7. Agree(table, 7, f3, f4)
  BY <1>3, <1>6, Rounds
<1>8. \A b \in Bounds(table) : b \in Shorter(table, 7)
  BY DEF Shorter, Bounds
<1>9. f3 = f4
  <2>1. \A b \in Bounds(table) : f3[b] = f4[b]
    BY <1>7, <1>8 DEF Agree
  <2>2. /\ f3 = [ b \in Bounds(table) |-> f3[b] ]
        /\ f4 = [ b \in Bounds(table) |-> f4[b] ]
    BY <1>3 DEF Round
  <2>3. QED
    BY <2>1, <2>2
<1>10. QED
  BY <1>3, <1>9

(* The search gives the place of a name that compares equal, or INVALID. *)
LEMMA FoundComparesEqual ==
  ASSUME NEW table \in Seq(Names), NEW name \in Names,
         Len(table) \in Nat, Len(table) <= 7
  PROVE  LET i == Lookup(table, name)
         IN  /\ i \in -1 .. Len(table) - 1
             /\ i # INVALID => strcasecomp(table[i + 1], name) = 0
<1> DEFINE s == CHOOSE f : f = Round(table, name, f)
<1>1. s = Round(table, name, s)
  BY SearchExists
<1>3. Lookup(table, name) = s[<< 0, Len(table) >>]
  BY Zenon DEF Lookup, Search, Round, Bounds
<1> HIDE DEF s
<1> DEFINE Right(b) ==
             /\ s[b] \in -1 .. Len(table) - 1
             /\ s[b] # INVALID => strcasecomp(table[s[b] + 1], name) = 0
<1>4. ASSUME NEW n \in Nat, \A b \in Shorter(table, n) : Right(b)
      PROVE  \A b \in Shorter(table, 2 * n + 1) : Right(b)
  <2> SUFFICES ASSUME NEW low \in 0 .. Len(table), NEW high \in 0 .. Len(table),
                    high - low <= 2 * n + 1
             PROVE  Right(<< low, high >>)
    BY DEF Shorter, Bounds
  <2>1. s[<< low, high >>] = Search(table, name, s, << low, high >>)
    BY <1>1 DEF Round, Bounds
  <2>2. CASE high <= low
    BY <2>1, <2>2 DEF Search, INVALID
  <2> DEFINE i == low + (high - low) \div 2
  <2>3. CASE ~ (high <= low)
    <3>1. /\ i \in Nat /\ low <= i /\ i < high
          /\ i - low <= n /\ high - (i + 1) <= n
      BY <2>3, Halves
    <3>2. /\ << i + 1, high >> \in Shorter(table, n)
          /\ << low, i >> \in Shorter(table, n)
      <4> HIDE DEF i
      <4>1. QED
        BY <3>1 DEF Shorter, Bounds
    <3>3. Right(<< i + 1, high >>) /\ Right(<< low, i >>)
      BY <1>4, <3>2
    <3>4. s[<< low, high >>] =
            IF strcasecomp(table[i + 1], name) = 0 THEN i
            ELSE IF strcasecomp(table[i + 1], name) < 0
                 THEN s[<< i + 1, high >>]
                 ELSE s[<< low, i >>]
      <4> HIDE DEF Right
      <4>1. QED
        BY <2>1, <2>3, Zenon DEF Search
    <3>5. CASE strcasecomp(table[i + 1], name) = 0
      <4>1. s[<< low, high >>] = i
        BY <3>4, <3>5
      <4> HIDE DEF i
      <4>2. QED
        BY <4>1, <3>1, <3>5
    <3>6. CASE strcasecomp(table[i + 1], name) # 0
      <4>1. \/ s[<< low, high >>] = s[<< i + 1, high >>]
            \/ s[<< low, high >>] = s[<< low, i >>]
        BY <3>4, <3>6
      <4> HIDE DEF i
      <4>2. QED
        BY <4>1, <3>3
    <3>7. QED
      BY <3>5, <3>6
  <2>4. QED
    BY <2>2, <2>3
<1>5. \A b \in Shorter(table, 0) : Right(b)
  BY <1>1 DEF Shorter, Round, Search, Bounds, INVALID
<1>6. \A b \in Shorter(table, 7) : Right(b)
  <2> HIDE DEF Right
  <2>1. \A b \in Shorter(table, 2 * 0 + 1) : Right(b)
    BY <1>4, <1>5
  <2>2. \A b \in Shorter(table, 2 * 1 + 1) : Right(b)
    BY <1>4, <2>1
  <2>3. \A b \in Shorter(table, 2 * 3 + 1) : Right(b)
    BY <1>4, <2>2
  <2>4. QED
    BY <2>3
<1>7. << 0, Len(table) >> \in Shorter(table, 7)
  BY DEF Shorter, Bounds
<1>8. QED
  BY <1>3, <1>6, <1>7

(* Names that compare equal are the same name. *)
LEMMA SameRank ==
  ASSUME NEW a \in Names, NEW b \in Names, strcasecomp(a, b) = 0
  PROVE  a = b
<1> DEFINE rank(x) == CHOOSE i \in DOMAIN Alphabetical : Alphabetical[i] = x
<1>1. \A x \in Names : rank(x) \in DOMAIN Alphabetical /\ Alphabetical[rank(x)] = x
  BY Zenon DEF Names
<1>2. DOMAIN Alphabetical \subseteq Int
  BY DEF Alphabetical
<1>3. rank(a) - rank(b) = 0
  BY Zenon DEF strcasecomp
<1> HIDE DEF rank
<1>4. rank(a) = rank(b)
  BY <1>1, <1>2, <1>3
<1>5. QED
  BY <1>1, <1>4

(* The attribute lists are lists of known names, none longer than Slots. *)
LEMMA AttributeLists ==
  ASSUME NEW t
  PROVE  attributes(t) \in Seq(Names) /\ Len(attributes(t)) <= 7
<1>1. /\ Alphabetical[25] = "HREF" /\ Alphabetical[37] = "NAME"
      /\ Alphabetical[43] = "REL" /\ Alphabetical[44] = "REV"
      /\ Alphabetical[48] = "TITLE" /\ Alphabetical[50] = "TYPE"
      /\ Alphabetical[53] = "URN" /\ Alphabetical[46] = "SRC"
      /\ Alphabetical[30] = "ISMAP" /\ Alphabetical[9] = "COMPACT"
      /\ Alphabetical[36] = "N"
      /\ 1 .. 55 = DOMAIN Alphabetical
  BY DEF Alphabetical
<1>2. { "HREF", "NAME", "REL", "REV", "TITLE", "TYPE", "URN", "SRC",
        "ISMAP", "COMPACT", "N" } \subseteq Names
  BY <1>1 DEF Names
<1>3. QED
  BY <1>2 DEF attributes, no_attr, a_attr, img_attr, list_attr,
              glossary_attr, nextid_attr

(***************************************************************************)
(* The number handle_attribute_name finds for a name is the place of that  *)
(* very name in the tag's attribute list, or INVALID: no name is taken for *)
(* another, and no number is outside the list.                             *)
(***************************************************************************)
THEOREM NumberedAttributeIsTheNamed ==
  ASSUME NEW t \in Elements, NEW a \in Names
  PROVE  LET i == AttributeNumber[t][a]
         IN  /\ i \in -1 .. Len(attributes(t)) - 1
             /\ i # INVALID => attributes(t)[i + 1] = a
<1> DEFINE l == attributes(t)
           i == Lookup(l, a)
<1>1. l \in Seq(Names) /\ Len(l) <= 7
  BY AttributeLists
<1>2. AttributeNumber[t][a] = i
  BY DEF AttributeNumber
<1> HIDE DEF l
<1>3. /\ i \in -1 .. Len(l) - 1
      /\ i # INVALID => strcasecomp(l[i + 1], a) = 0
  BY <1>1, FoundComparesEqual
<1> HIDE DEF i
<1>4. i # INVALID => l[i + 1] = a
  BY <1>1, <1>3, SameRank DEF INVALID
<1>5. QED
  BY <1>2, <1>3, <1>4 DEF l

-----------------------------------------------------------------------------
(* The parser. *)
TagStates    == { "S_tag_gap", "S_attr", "S_attr_gap", "S_equals", "S_value",
                  "S_squoted", "S_dquoted" }
MarkupStates == TagStates \cup { "S_tag", "S_end", "S_junk_tag" }
EntityStates == { "S_ero", "S_entity", "S_cro" }
References   == { "SGML_MIXED", "SGML_RCDATA" }
Characters   == Input \cup { "other", "chr", "<", "&" }

(* Literal elements are only ever innermost. *)
LiteralIsInnermost ==
  \A k \in 2 .. Len(element_stack) : contents(element_stack[k]) # "SGML_LITERAL"

(* Markup is read outside literal elements, a possible end tag inside one, *)
(* and an entity where the content type admits references.                 *)
StateFitsContent ==
  /\ state \in MarkupStates => Innermost # "SGML_LITERAL"
  /\ state \in EntityStates => Innermost \in References
  /\ state = "S_literal" => Innermost = "SGML_LITERAL"

(* The slots the parser has for a tag hold what the tag gave. *)
SlotsHold(tag, pres, val, giv) ==
  /\ DOMAIN giv \subseteq Attributes(tag)
  /\ \A a \in Attributes(tag) :
       LET i == AttributeNumber[tag][a]
       IN  /\ (i # INVALID /\ pres[i]) <=> a \in DOMAIN giv
           /\ a \in DOMAIN giv => val[i] = giv[a]

TagIsRead ==
  state \in TagStates =>
    /\ current_tag \in KnownTags
    /\ SlotsHold(current_tag, present, value, given)
    /\ given = [ a \in DOMAIN given |-> given[a] ]
    /\ current_attribute_number # INVALID =>
         \E a \in DOMAIN given :
           AttributeNumber[current_tag][a] = current_attribute_number

(* Nothing is queued. *)
Quiet ==
  /\ calls = << >>
  /\ state # "none" => open = element_stack /\ live
  /\ state = "none" => open = << >> /\ ~ live

(* What may be queued, and how it leads from the elements the target knows *)
(* of to those on the parser's stack.                                      *)
TextQueued ==
  /\ calls \in Seq([ op : { "put_character" }, c : Characters ])
  /\ open = element_stack

Queued(ops) ==
  Len(calls) = 1 /\ calls = << calls[1] >> /\ calls[1].op \in ops

EntityQueued ==
  Queued({ "put_entity" }) /\ open = element_stack /\ Innermost \in References

OpenContent == IF open = << >> THEN "SGML_MIXED" ELSE contents(open[1])

StartQueued ==
  /\ Queued({ "start_element" })
  /\ OpenContent # "SGML_LITERAL"
  /\ LET tag == calls[1].tag
     IN  /\ tag \in KnownTags
         /\ DOMAIN calls[1].attrs \subseteq Attributes(tag)
         /\ element_stack = IF contents(tag) = "SGML_EMPTY" THEN open
                            ELSE << tag >> \o open
  /\ calls[1].attrs = given

EndsQueued ==
  /\ calls \in Seq([ op : { "end_element" }, tag : Elements ])
  /\ Len(open) = Len(calls) + Len(element_stack)
  /\ \A k \in 1 .. Len(calls) : calls[k].tag = open[k]
  /\ \A k \in 1 .. Len(element_stack) : element_stack[k] = open[Len(calls) + k]
  /\ Innermost # "SGML_LITERAL"

Between == state \in { "S_text", "S_junk_tag" } /\ live

QueueFits ==
  \/ Quiet
  \/ Between /\ (TextQueued \/ EntityQueued \/ StartQueued \/ EndsQueued)
  \/ Queued({ "free", "abort" }) /\ state = "none" /\ live

(* The characters queued, held back and passed on are those read. *)
Pending == [ i \in DOMAIN calls |-> calls[i].c ]

LiteralFits ==
  /\ read \in Seq(Characters) /\ shown \in Seq(Characters)
  /\ Literal => \/ StartQueued /\ read = << >>
                \/ TextQueued /\ (shown \o Pending) \o HeldBack = read

IInv ==
  /\ TypeOK /\ LiteralIsInnermost /\ StateFitsContent /\ TagIsRead
  /\ live \in BOOLEAN /\ QueueFits /\ LiteralFits

-----------------------------------------------------------------------------
(* Every set of naturals that is not empty has a least element. *)
LEMMA Least ==
  ASSUME NEW T \in SUBSET Nat, T # {}
  PROVE  \E x \in T : \A y \in T : x <= y
<1> DEFINE R == OpToRel(<, Nat)
<1>1. IsWellFoundedOn(R, Nat)
  BY NatLessThanWellFounded, Zenon
<1>2. \A x, y \in Nat : x < y => <<x, y>> \in R
  BY DEF OpToRel
<1> HIDE DEF R
<1>3. PICK x \in T : \A y \in T : ~ (<<y, x>> \in R)
  BY <1>1, WFMin
<1>4. ASSUME NEW y \in T
      PROVE  x <= y
  <2>1. ~ (y < x)
    BY <1>2, <1>3
  <2>2. QED
    BY <2>1
<1>5. QED
  BY <1>4

LEMMA HeadTail ==
  ASSUME NEW S, NEW s \in Seq(S), s # << >>
  PROVE  /\ Head(s) = s[1] /\ Head(s) \in S /\ Tail(s) \in Seq(S)
         /\ Len(s) \in Nat /\ Len(s) >= 1 /\ Len(Tail(s)) = Len(s) - 1
         /\ \A i \in 1 .. Len(s) - 1 : Tail(s)[i] = s[i + 1]
OBVIOUS

LEMMA One ==
  ASSUME NEW x
  PROVE  /\ Len(<< x >>) = 1 /\ << x >>[1] = x /\ Head(<< x >>) = x
         /\ Tail(<< x >>) = << >> /\ << x >> # << >>
OBVIOUS

LEMMA Prepended ==
  ASSUME NEW S, NEW x \in S, NEW s \in Seq(S)
  PROVE  /\ << x >> \o s \in Seq(S) /\ Len(<< x >> \o s) = Len(s) + 1
         /\ (<< x >> \o s)[1] = x /\ << x >> \o s # << >>
         /\ \A i \in 1 .. Len(s) : (<< x >> \o s)[i + 1] = s[i]
OBVIOUS

LEMMA MoveOne ==
  ASSUME NEW S, NEW s \in Seq(S), NEW t \in Seq(S), t # << >>
  PROVE  Append(s, Head(t)) \o Tail(t) = s \o t
OBVIOUS

LEMMA AppendLast ==
  ASSUME NEW S, NEW s \in Seq(S), NEW t \in Seq(S), NEW x \in S
  PROVE  Append(s \o t, x) = s \o Append(t, x)
OBVIOUS

LEMMA NoneAdded ==
  ASSUME NEW S, NEW s \in Seq(S)
  PROVE  s \o << >> = s /\ << >> \o s = s
OBVIOUS

(* What popping n elements leaves. *)
LEMMA Popped ==
  ASSUME NEW S, NEW s \in Seq(S), NEW n \in 0 .. Len(s)
  PROVE  LET t == SubSeq(s, n + 1, Len(s))
         IN  /\ t \in Seq(S) /\ Len(t) = Len(s) - n
             /\ \A i \in 1 .. Len(s) - n : t[i] = s[n + i]
OBVIOUS

LEMMA NumberIsSlot ==
  ASSUME NEW t \in Elements, NEW a \in Names
  PROVE  /\ AttributeNumber[t][a] \in Slots \cup { INVALID }
         /\ AttributeNumber[t][a] # INVALID =>
              /\ AttributeNumber[t][a] < Len(attributes(t))
              /\ attributes(t)[AttributeNumber[t][a] + 1] = a
              /\ a \in Attributes(t)
<1> DEFINE i == AttributeNumber[t][a]
<1>1. /\ i \in -1 .. Len(attributes(t)) - 1
      /\ i # INVALID => attributes(t)[i + 1] = a
  BY NumberedAttributeIsTheNamed
<1>2. attributes(t) \in Seq(Names) /\ Len(attributes(t)) <= 7
  BY AttributeLists
<1> HIDE DEF i
<1>3. i \in Slots \cup { INVALID }
  BY <1>1, <1>2 DEF Slots, INVALID
<1>4. i # INVALID => i < Len(attributes(t)) /\ a \in Attributes(t)
  BY <1>1, <1>2 DEF Attributes, INVALID
<1>5. QED
  BY <1>1, <1>3, <1>4 DEF i

(* Everything queued is gone, or was never there. *)
LEMMA QuietWhenEmpty ==
  ASSUME IInv, calls = << >>
  PROVE  Quiet
<1>1. ~ Queued({ "put_entity" }) /\ ~ Queued({ "start_element" })
      /\ ~ Queued({ "free", "abort" })
  BY DEF Queued
<1>2. CASE Between /\ EndsQueued
  <2>1. open \in Seq(Elements) /\ element_stack \in Seq(Elements)
    BY DEF IInv, TypeOK
  <2>2. Len(open) = Len(element_stack)
    BY <1>2, <2>1 DEF EndsQueued
  <2>3. \A k \in 1 .. Len(element_stack) : element_stack[k] = open[k]
    BY <1>2, <2>1 DEF EndsQueued
  <2>4. open = element_stack
    BY <2>1, <2>2, <2>3, SeqEqual
  <2>5. QED
    BY <1>2, <2>4 DEF Quiet, Between
<1>3. CASE Between /\ TextQueued
  BY <1>3 DEF Quiet, Between, TextQueued
<1>4. QED
  BY <1>1, <1>2, <1>3
     DEF IInv, QueueFits, EntityQueued, StartQueued

StackTyped ==
  /\ element_stack \in Seq(Elements) /\ Len(element_stack) <= MaxDepth
  /\ LiteralIsInnermost

(* start_element queues one call, which starts what goes on the stack and  *)
(* is told what the tag gave.                                              *)
LEMMA StartEffect ==
  ASSUME IInv, Quiet, state # "none", Innermost # "SGML_LITERAL",
         NEW tag \in KnownTags, NEW pres, NEW val,
         start_element(tag, pres, val), UNCHANGED << open, live >>,
         SlotsHold(tag, pres, val, given'),
         given' = [ a \in DOMAIN given' |-> given'[a] ]
  PROVE  StartQueued' /\ StackTyped' /\ live'
<1>1. /\ element_stack \in Seq(Elements) /\ Len(element_stack) <= MaxDepth
      /\ open = element_stack /\ live /\ LiteralIsInnermost
  BY DEF IInv, TypeOK, Quiet
<1>2. tag \in Elements
  BY DEF KnownTags
<1> DEFINE named == { a \in Attributes(tag) :
                        LET i == AttributeNumber[tag][a]
                        IN  i # INVALID /\ pres[i] }
           attrs == [ a \in named |-> val[AttributeNumber[tag][a]] ]
           started == [ op |-> "start_element", tag |-> tag, attrs |-> attrs ]
<1>3. calls' = << started >>
  BY DEF start_element
<1>4. attrs = given'
  <2>1. named = DOMAIN given'
    BY DEF SlotsHold
  <2>2. \A a \in named : val[AttributeNumber[tag][a]] = given'[a]
    BY <2>1 DEF SlotsHold
  <2> HIDE DEF named
  <2>3. QED
    BY <2>1, <2>2
<1> HIDE DEF attrs
<1>5. Queued({ "start_element" })' /\ calls'[1] = started
  BY <1>3 DEF Queued
<1>6. IF contents(tag) = "SGML_EMPTY"
      THEN element_stack' = element_stack
      ELSE /\ Len(element_stack) < MaxDepth
           /\ element_stack' = << tag >> \o element_stack
  BY DEF start_element
<1>7. StackTyped'
  <2>1. CASE element_stack' = element_stack
    BY <1>1, <2>1 DEF StackTyped, LiteralIsInnermost
  <2>2. CASE /\ Len(element_stack) < MaxDepth
             /\ element_stack' = << tag >> \o element_stack
    <3>1. /\ element_stack' \in Seq(Elements)
          /\ Len(element_stack') = Len(element_stack) + 1
          /\ \A i \in 1 .. Len(element_stack) :
               element_stack'[i + 1] = element_stack[i]
      BY <1>1, <1>2, <2>2, Prepended
    <3>2. Len(element_stack') <= MaxDepth
      BY <1>1, <2>2, <3>1, SGMLAssumption
    <3>3. \A i \in 1 .. Len(element_stack) :
            contents(element_stack[i]) # "SGML_LITERAL"
      BY <1>1 DEF LiteralIsInnermost, Innermost
    <3>4. ASSUME NEW k \in 2 .. Len(element_stack')
          PROVE  contents(element_stack'[k]) # "SGML_LITERAL"
      <4>1. k - 1 \in 1 .. Len(element_stack)
        BY <1>1, <3>1
      <4>2. element_stack'[k] = element_stack[k - 1]
        BY <3>1, <4>1
      <4>3. QED
        BY <3>3, <4>1, <4>2
    <3>5. QED
      BY <3>1, <3>2, <3>4 DEF StackTyped, LiteralIsInnermost
  <2>3. QED
    BY <1>6, <2>1, <2>2
<1>8. OpenContent' # "SGML_LITERAL"
  BY <1>1 DEF OpenContent, Innermost
<1>9. /\ DOMAIN started.attrs \subseteq Attributes(tag)
      /\ started.tag = tag /\ started.attrs = given'
  BY <1>4 DEF SlotsHold
<1>10. element_stack' = IF contents(tag) = "SGML_EMPTY" THEN open'
                        ELSE << tag >> \o open'
  BY <1>1, <1>6
<1> HIDE DEF started
<1>11. StartQueued'
  BY <1>5, <1>8, <1>9, <1>10 DEF StartQueued
<1>12. QED
  BY <1>1, <1>7, <1>11

LEMMA PoppedByIsLength ==
  ASSUME element_stack \in Seq(Elements), NEW tag
  PROVE  PoppedBy(tag) \in 0 .. Len(element_stack)
<1>1. CASE contents(tag) = "SGML_EMPTY" \/ element_stack = << >>
  BY <1>1 DEF PoppedBy
<1>2. CASE /\ ~ (contents(tag) = "SGML_EMPTY" \/ element_stack = << >>)
           /\ tag \notin Range(element_stack)
  BY <1>2 DEF PoppedBy
<1>3. CASE /\ ~ (contents(tag) = "SGML_EMPTY" \/ element_stack = << >>)
           /\ tag \in Range(element_stack)
  <2> DEFINE P(k) == /\ element_stack[k] = tag
                     /\ \A j \in 1 .. k - 1 : element_stack[j] # tag
  <2>1. PICK k \in DOMAIN element_stack : P(k)
    <3> DEFINE T == { n \in DOMAIN element_stack : element_stack[n] = tag }
    <3>1. T # {}
      BY <1>3 DEF Range
    <3>2. PICK k \in T : \A n \in T : k <= n
      <4>1. T \subseteq Nat
        OBVIOUS
      <4> HIDE DEF T
      <4>2. QED
        BY <3>1, <4>1, Least
    <3>3. \A j \in 1 .. k - 1 : j \in DOMAIN element_stack /\ ~ (k <= j)
      OBVIOUS
    <3>4. P(k)
      BY <3>2, <3>3
    <3>5. QED
      BY <3>4
  <2>2. QED
    BY <1>3, <2>1 DEF PoppedBy
<1>4. QED
  BY <1>1, <1>2, <1>3

(* end_element queues the ends of what it pops. *)
LEMMA EndEffect ==
  ASSUME IInv, Quiet, state # "none", NEW tag,
         end_element(tag), UNCHANGED << open, live >>,
         \/ Innermost # "SGML_LITERAL"
         \/ /\ element_stack # << >> /\ tag = element_stack[1]
            /\ contents(tag) = "SGML_LITERAL"
  PROVE  EndsQueued' /\ StackTyped' /\ live'
<1>1. /\ element_stack \in Seq(Elements) /\ Len(element_stack) <= MaxDepth
      /\ open = element_stack /\ live /\ LiteralIsInnermost
  BY DEF IInv, TypeOK, Quiet
<1>2. /\ element_stack \in Seq(Elements) /\ Len(element_stack) <= MaxDepth
      /\ open = element_stack /\ live /\ LiteralIsInnermost
      /\ Len(element_stack) \in Nat /\ MaxDepth \in Nat
  BY <1>1, SGMLAssumption
<1> DEFINE n == PoppedBy(tag)
<1>3. n \in 0 .. Len(element_stack)
  BY <1>2, PoppedByIsLength
<1>4. /\ element_stack' = SubSeq(element_stack, n + 1, Len(element_stack))
      /\ calls' = [ k \in 1 .. n |->
                      [ op |-> "end_element", tag |-> element_stack[k] ] ]
  BY DEF end_element
<1>5. Innermost = "SGML_LITERAL" => n >= 1
  <2> SUFFICES ASSUME Innermost = "SGML_LITERAL"
               PROVE  n # 0
    BY <1>3
  <2>1. /\ element_stack # << >> /\ tag = element_stack[1]
        /\ contents(tag) = "SGML_LITERAL"
    OBVIOUS
  <2>2. 1 \in DOMAIN element_stack /\ tag \in Range(element_stack)
    BY <1>2, <2>1 DEF Range
  <2> DEFINE P(k) == /\ element_stack[k] = tag
                     /\ \A j \in 1 .. k - 1 : element_stack[j] # tag
  <2>3. P(1)
    BY <2>1
  <2>4. n = CHOOSE k \in DOMAIN element_stack : P(k)
    BY <2>1, <2>2 DEF PoppedBy
  <2> HIDE DEF P, n
  <2>5. n \in DOMAIN element_stack
    BY <2>2, <2>3, <2>4, Zenon
  <2>6. QED
    BY <1>2, <2>5
<1> HIDE DEF n
<1>6. /\ element_stack' \in Seq(Elements)
      /\ Len(element_stack') = Len(element_stack) - n
      /\ \A i \in 1 .. Len(element_stack) - n :
           element_stack'[i] = element_stack[n + i]
  BY <1>2, <1>3, <1>4, Popped
<1>7. /\ Len(calls') = n
      /\ calls' \in Seq([ op : { "end_element" }, tag : Elements ])
      /\ \A k \in 1 .. n : calls'[k].tag = element_stack[k]
  BY <1>2, <1>3, <1>4
<1>8. StackTyped'
  <2>1. \A k \in 2 .. Len(element_stack') :
          contents(element_stack'[k]) # "SGML_LITERAL"
    <3> SUFFICES ASSUME NEW k \in 2 .. Len(element_stack')
                 PROVE  contents(element_stack'[k]) # "SGML_LITERAL"
      OBVIOUS
    <3>1. n + k \in 2 .. Len(element_stack) /\ k \in 1 .. Len(element_stack) - n
      BY <1>2, <1>3, <1>6
    <3>2. QED
      BY <1>2, <1>6, <3>1 DEF LiteralIsInnermost
  <2>2. Len(element_stack') <= MaxDepth
    BY <1>2, <1>3, <1>6
  <2>3. QED
    BY <1>6, <2>1, <2>2 DEF StackTyped, LiteralIsInnermost
<1>9. Innermost' # "SGML_LITERAL"
  <2>1. CASE element_stack' = << >>
    BY <2>1 DEF Innermost
  <2>2. CASE element_stack' # << >>
    <3>1. /\ 1 \in 1 .. Len(element_stack) - n
          /\ n + 1 \in 1 .. Len(element_stack) /\ element_stack # << >>
      BY <1>2, <1>3, <1>6, <2>2
    <3>2. element_stack'[1] = element_stack[n + 1]
      BY <1>6, <3>1
    <3>3. CASE n = 0
      BY <1>5, <2>2, <3>1, <3>2, <3>3 DEF Innermost
    <3>4. CASE n # 0
      <4>1. n + 1 \in 2 .. Len(element_stack)
        BY <1>3, <3>1, <3>4
      <4>2. contents(element_stack[n + 1]) # "SGML_LITERAL"
        BY <1>2, <4>1 DEF LiteralIsInnermost
      <4>3. QED
        BY <2>2, <3>2, <4>2 DEF Innermost
    <3>5. QED
      BY <3>3, <3>4
  <2>3. QED
    BY <2>1, <2>2
<1>10. EndsQueued'
  BY <1>2, <1>3, <1>6, <1>7, <1>9 DEF EndsQueued
<1>11. QED
  BY <1>2, <1>8, <1>10

(* Text is queued a character at a time. *)
LEMMA TextEffect ==
  ASSUME IInv, Quiet, state # "none", NEW s \in Seq(Characters),
         calls' = Text(s), UNCHANGED << element_stack, open, live >>
  PROVE  TextQueued' /\ StackTyped' /\ live' /\ Pending' = s
<1>1. calls' \in Seq([ op : { "put_character" }, c : Characters ])
  <2>1. /\ Len(s) \in Nat /\ DOMAIN s = 1 .. Len(s)
        /\ \A i \in 1 .. Len(s) : s[i] \in Characters
    OBVIOUS
  <2>2. calls' = [ i \in 1 .. Len(s) |->
                     [ op |-> "put_character", c |-> s[i] ] ]
    BY <2>1 DEF Text, put_character
  <2>3. \A i \in 1 .. Len(s) :
          [ op |-> "put_character", c |-> s[i] ]
            \in [ op : { "put_character" }, c : Characters ]
    BY <2>1
  <2>4. QED
    BY <2>1, <2>2, <2>3
<1>2. DOMAIN calls' = DOMAIN s /\ \A i \in DOMAIN s : calls'[i].c = s[i]
  BY DEF Text, put_character
<1>3. Pending' = s
  BY <1>2 DEF Pending
<1>4. QED
  BY <1>1, <1>3 DEF IInv, TypeOK, Quiet, TextQueued, StackTyped,
                    LiteralIsInnermost

LEMMA SilentEffect ==
  ASSUME IInv, Quiet, state # "none",
         NoCall, UNCHANGED << open, live >>
  PROVE  TextQueued' /\ StackTyped' /\ live' /\ Pending' = << >>
         /\ Innermost' = Innermost /\ calls' = << >>
<1>1. calls' = << >> /\ element_stack' = element_stack /\ open' = open
  BY DEF Quiet, NoCall
<1>2. TextQueued' /\ live'
  BY <1>1 DEF Quiet, TextQueued
<1>3. StackTyped'
  BY <1>1 DEF IInv, TypeOK, StackTyped, LiteralIsInnermost
<1>4. Pending' = << >> /\ Innermost' = Innermost
  BY <1>1 DEF Pending, Innermost
<1>5. QED
  BY <1>1, <1>2, <1>3, <1>4

(* What of TypeOK is not about the stack. *)
TagTyped ==
  /\ current_tag \in Elements \cup { NULL }
  /\ current_attribute_number \in Slots \cup { INVALID }
  /\ present \in [ Slots -> BOOLEAN ]
  /\ value \in [ Slots -> Input \cup { "other", "", NULL } ]

Scanned ==
  /\ state \in States \ { "none" }
  /\ string \in Seq(Input \cup { "other" })
  /\ TagTyped

LEMMA ParseFacts ==
  ASSUME IInv, NEW c \in Input, Parse(c)
  PROVE  /\ calls = << >> /\ Quiet /\ UNCHANGED << open, live >>
         /\ read' \in Seq(Characters) /\ shown' \in Seq(Characters)
         /\ open' \in Seq(Elements)
         /\ string \in Seq(Input \cup { "other" }) /\ TagTyped
         /\ (~ Literal => read' = << >>)
<1>1. calls = << >> /\ UNCHANGED << open, live >>
  BY DEF Parse, SGML_character
<1>2. Quiet
  BY <1>1, QuietWhenEmpty
<1>3. /\ read \in Seq(Characters) /\ shown \in Seq(Characters)
      /\ c \in Characters
  BY DEF IInv, LiteralFits, Characters
<1>4. /\ << c >> \in Seq(Characters) /\ << >> \in Seq(Characters)
      /\ Append(read, c) \in Seq(Characters)
  BY <1>3
<1>5. /\ read' \in { << >>, << c >>, Append(read, c) }
      /\ shown' \in { << >>, shown }
      /\ (~ Literal => read' = << >>)
  <2>1. shown' \in { << >>, shown }
    BY DEF Parse
  <2>2. CASE ~ Literal
    BY <2>1, <2>2 DEF Parse
  <2>3. CASE Literal /\ state = "S_text"
    BY <2>1, <2>3 DEF Parse
  <2>4. CASE Literal /\ state # "S_text"
    BY <2>1, <2>4 DEF Parse
  <2>5. QED
    BY <2>2, <2>3, <2>4
<1>6. /\ open \in Seq(Elements) /\ string \in Seq(Input \cup { "other" })
      /\ TagTyped
  BY DEF IInv, TypeOK, TagTyped
<1>7. QED
  BY <1>1, <1>2, <1>3, <1>4, <1>5, <1>6

(* The parts of a step put together. *)
LEMMA Assemble ==
  ASSUME Scanned', StackTyped', open' \in Seq(Elements), live' = TRUE,
         StateFitsContent', TagIsRead', LiteralFits',
         \/ calls' = << >> /\ TextQueued'
         \/ /\ state' \in { "S_text", "S_junk_tag" }
            /\ TextQueued' \/ EntityQueued' \/ StartQueued' \/ EndsQueued'
  PROVE  IInv'
<1>1. TypeOK' /\ LiteralIsInnermost'
  BY DEF Scanned, TagTyped, StackTyped, TypeOK
<1>2. CASE calls' = << >> /\ TextQueued'
  <2>1. Quiet'
    BY <1>2 DEF Quiet, TextQueued, Scanned
  <2>2. QED
    BY <1>1, <2>1 DEF IInv, QueueFits
<1>3. CASE /\ state' \in { "S_text", "S_junk_tag" }
           /\ TextQueued' \/ EntityQueued' \/ StartQueued' \/ EndsQueued'
  <2>1. QueueFits'
    BY <1>3 DEF QueueFits, Between
  <2>2. QED
    BY <1>1, <2>1 DEF IInv
<1>4. QED
  BY <1>2, <1>3

(* Outside literal text only the start of an element leads into it. *)
LEMMA LiteralEntered ==
  ASSUME IInv, NEW c \in Input, Parse(c),
         state \notin { "S_text", "S_literal" },
         StartQueued' \/ Innermost' # "SGML_LITERAL"
  PROVE  LiteralFits'
BY ParseFacts DEF Literal, LiteralFits

LEMMA SilentStep ==
  ASSUME IInv, NEW c \in Input, Parse(c), NoCall, Scanned', TagIsRead',
         state \notin { "S_text", "S_literal", "none" }, state' # "S_literal",
         Innermost # "SGML_LITERAL",
         state' \in EntityStates => Innermost \in References
  PROVE  IInv'
<1>1. /\ TextQueued' /\ StackTyped' /\ live' /\ calls' = << >>
      /\ Innermost' = Innermost
  BY ParseFacts, SilentEffect
<1>2. StateFitsContent'
  BY <1>1 DEF StateFitsContent
<1>3. LiteralFits'
  BY <1>1, LiteralEntered
<1>4. live' = TRUE
  BY <1>1, ParseFacts DEF IInv
<1>5. QED
  BY <1>1, <1>2, <1>3, <1>4, ParseFacts, Assemble

LEMMA TextStep ==
  ASSUME IInv, NEW c \in Input, Parse(c), NEW s \in Seq(Characters),
         calls' = Text(s), UNCHANGED element_stack, Scanned', state' = "S_text",
         state \in EntityStates
  PROVE  IInv'
<1>1. /\ TextQueued' /\ StackTyped' /\ live'
  BY ParseFacts, TextEffect DEF EntityStates
<1>2. Innermost' = Innermost /\ Innermost \in References
  BY DEF Innermost, IInv, StateFitsContent
<1>3. LiteralFits'
  BY <1>2, LiteralEntered DEF EntityStates, References
<1>4. StateFitsContent' /\ TagIsRead'
  BY DEF StateFitsContent, TagIsRead, MarkupStates, TagStates, EntityStates
<1>5. live' = TRUE
  BY <1>1, ParseFacts DEF IInv
<1>6. QED
  BY <1>1, <1>3, <1>4, <1>5, ParseFacts, Assemble

LEMMA StartStep ==
  ASSUME IInv, NEW c \in Input, Parse(c), state \in MarkupStates,
         Scanned', state' = "S_text",
         NEW tag \in KnownTags, NEW pres, NEW val,
         start_element(tag, pres, val),
         SlotsHold(tag, pres, val, given'),
         given' = [ a \in DOMAIN given' |-> given'[a] ]
  PROVE  IInv'
<1>1. Innermost # "SGML_LITERAL" /\ state \notin { "S_text", "S_literal", "none" }
  BY DEF IInv, StateFitsContent, MarkupStates, TagStates
<1>2. StartQueued' /\ StackTyped' /\ live'
  BY <1>1, ParseFacts, StartEffect
<1>3. LiteralFits'
  BY <1>1, <1>2, LiteralEntered
<1>4. StateFitsContent' /\ TagIsRead'
  BY DEF StateFitsContent, TagIsRead, MarkupStates, TagStates, EntityStates
<1>5. live' = TRUE
  BY <1>2, ParseFacts DEF IInv
<1>6. QED
  BY <1>2, <1>3, <1>4, <1>5, ParseFacts, Assemble

LEMMA EndStep ==
  ASSUME IInv, NEW c \in Input, Parse(c), state = "S_end",
         Scanned', state' \in { "S_text", "S_junk_tag" },
         NEW tag, end_element(tag)
  PROVE  IInv'
<1>1. Innermost # "SGML_LITERAL"
  BY DEF IInv, StateFitsContent, MarkupStates
<1>2. EndsQueued' /\ StackTyped' /\ live'
  BY <1>1, ParseFacts, EndEffect
<1>3. Innermost' # "SGML_LITERAL"
  BY <1>2 DEF EndsQueued
<1>4. LiteralFits'
  BY <1>3, LiteralEntered
<1>5. StateFitsContent' /\ TagIsRead'
  BY <1>3 DEF StateFitsContent, TagIsRead, MarkupStates, TagStates,
              EntityStates
<1>6. live' = TRUE
  BY <1>2, ParseFacts DEF IInv
<1>7. QED
  BY <1>2, <1>4, <1>5, <1>6, ParseFacts, Assemble

-----------------------------------------------------------------------------
(* The states of the parser, one by one. *)
LEMMA TextKeepsIInv ==
  ASSUME IInv, NEW c \in Input, Parse(c), S_text(c)
  PROVE  IInv'
<1>1. state = "S_text" /\ TagTyped' /\ c \in Characters
  BY ParseFacts DEF S_text, KeepTag, TagTyped, Characters
<1>2. shown' = << >>
  BY <1>1 DEF Parse
<1>3. ASSUME NoCall, string' = << >>,
             \/ state' = "S_ero" /\ Innermost \in References
             \/ state' = "S_literal" /\ Innermost = "SGML_LITERAL" /\ c = "<"
             \/ state' = "S_tag" /\ Innermost # "SGML_LITERAL"
      PROVE  IInv'
  <2>1. Scanned'
    BY <1>1, <1>3 DEF Scanned, States
  <2>2. /\ TextQueued' /\ StackTyped' /\ live' = TRUE /\ calls' = << >>
        /\ Innermost' = Innermost /\ Pending' = << >>
    BY <1>1, <1>3, ParseFacts, SilentEffect DEF IInv
  <2>3. StateFitsContent' /\ TagIsRead'
    BY <1>3, <2>2 DEF StateFitsContent, TagIsRead, MarkupStates, TagStates,
                      EntityStates
  <2>4. LiteralFits'
    <3>1. CASE state' \in { "S_ero", "S_tag" }
      BY <3>1, ParseFacts DEF LiteralFits, Literal
    <3>2. CASE state' = "S_literal"
      <4>1. Literal /\ read' = << "<" >>
        BY <1>1, <1>3, <3>2 DEF Literal, Parse
      <4>2. HeldBack' = << "<" >>
        BY <1>3, <3>2, NoneAdded DEF HeldBack
      <4>3. (shown' \o Pending') \o HeldBack' = read'
        BY <1>2, <2>2, <4>1, <4>2
      <4>4. QED
        BY <2>2, <4>3, ParseFacts DEF LiteralFits
    <3>3. QED
      BY <1>3, <3>1, <3>2
  <2>5. QED
    BY <2>1, <2>2, <2>3, <2>4, ParseFacts, Assemble
<1>4. ASSUME calls' = Text(<< c >>), UNCHANGED << state, string, element_stack >>
      PROVE  IInv'
  <2>1. Scanned'
    BY <1>1, <1>4, ParseFacts DEF Scanned, States
  <2>2. << c >> \in Seq(Characters)
    BY <1>1
  <2>3. TextQueued' /\ StackTyped' /\ live' = TRUE /\ Pending' = << c >>
    BY <1>1, <1>4, <2>2, ParseFacts, TextEffect DEF IInv
  <2>4. StateFitsContent' /\ TagIsRead'
    BY <1>1, <1>4 DEF StateFitsContent, TagIsRead, MarkupStates, TagStates,
                      EntityStates
  <2>5. LiteralFits'
    <3>1. Literal' => Literal
      BY <1>1, <1>4 DEF Literal, Innermost
    <3>2. ASSUME Literal
          PROVE  (shown' \o Pending') \o HeldBack' = read'
      <4>1. read' = << c >>
        BY <1>1, <3>2 DEF Parse
      <4>2. HeldBack' = << >>
        BY <1>1, <1>4 DEF HeldBack
      <4>3. QED
        BY <1>2, <2>2, <2>3, <4>1, <4>2
    <3>3. QED
      BY <2>3, <3>1, <3>2, ParseFacts DEF LiteralFits
  <2>6. QED
    BY <1>1, <1>4, <2>1, <2>3, <2>4, <2>5, ParseFacts, Assemble
<1>5. QED
  BY <1>3, <1>4 DEF S_text, References

LEMMA LiteralKeepsIInv ==
  ASSUME IInv, NEW c \in Input, Parse(c), S_literal(c)
  PROVE  IInv'
<1>1. /\ state = "S_literal" /\ Innermost = "SGML_LITERAL"
      /\ c \in Characters /\ string \in Seq(Characters)
  BY ParseFacts DEF S_literal, IInv, StateFitsContent, Characters
<1>2. /\ element_stack # << >> /\ contents(element_stack[1]) = "SGML_LITERAL"
  BY <1>1 DEF Innermost
<1>3. Literal /\ read' = Append(read, c) /\ shown' = shown
  BY <1>1 DEF Literal, Parse
<1> DEFINE s == Append(string, c)
<1>4. /\ s \in Seq(Characters) /\ << "<" >> \o s \in Seq(Characters)
      /\ read \in Seq(Characters) /\ shown \in Seq(Characters)
      /\ << "<" >> \in Seq(Characters)
  BY <1>1 DEF IInv, LiteralFits, Characters
<1>5. shown \o (<< "<" >> \o s) = read'
  <2>1. calls = << >> /\ calls # << calls[1] >>
    BY ParseFacts
  <2>2. Pending = << >>
    BY <2>1 DEF Pending
  <2>3. (shown \o Pending) \o HeldBack = read
    BY <1>3, <2>1 DEF IInv, LiteralFits, StartQueued, Queued
  <2>4. shown \o (<< "<" >> \o string) = read
    BY <1>1, <1>4, <2>2, <2>3, NoneAdded DEF HeldBack
  <2>5. Append(<< "<" >> \o string, c) = << "<" >> \o s
    BY <1>1, <1>4, AppendLast
  <2>6. << "<" >> \o string \in Seq(Characters)
    BY <1>1, <1>4
  <2> DEFINE held == << "<" >> \o string
  <2>7. /\ held \in Seq(Characters) /\ shown \o held = read
        /\ Append(held, c) = << "<" >> \o s
    BY <2>4, <2>5, <2>6
  <2> HIDE DEF held, s
  <2>8. /\ shown \in Seq(Characters) /\ held \in Seq(Characters)
        /\ c \in Characters
    BY <1>1, <1>4, <2>7
  <2>9. Append(shown \o held, c) = shown \o Append(held, c)
    BY <2>8
  <2>10. QED
    BY <1>3, <2>7, <2>9
<1>6. TagTyped' /\ s \in Seq(Input \cup { "other" })
  <2>1. /\ UNCHANGED << current_tag, present, value >>
        /\ current_attribute_number' \in { current_attribute_number, INVALID }
    BY DEF S_literal
  <2>2. TagTyped'
    BY <2>1, ParseFacts DEF TagTyped
  <2>3. QED
    BY <2>2, ParseFacts
<1>7. ASSUME NoCall, string' = s, state' = state
      PROVE  IInv'
  <2>1. Scanned'
    BY <1>1, <1>6, <1>7 DEF Scanned, States
  <2>2. /\ TextQueued' /\ StackTyped' /\ live' = TRUE /\ calls' = << >>
        /\ Innermost' = Innermost /\ Pending' = << >>
    BY <1>1, <1>7, ParseFacts, SilentEffect DEF IInv
  <2>3. StateFitsContent' /\ TagIsRead'
    BY <1>1, <1>7, <2>2 DEF StateFitsContent, TagIsRead, MarkupStates,
                            TagStates, EntityStates
  <2>4. HeldBack' = << "<" >> \o s
    BY <1>1, <1>7 DEF HeldBack
  <2>5. (shown' \o Pending') \o HeldBack' = read'
    BY <1>3, <1>4, <1>5, <2>2, <2>4, NoneAdded
  <2>6. LiteralFits'
    BY <2>2, <2>5, ParseFacts DEF LiteralFits
  <2>7. QED
    BY <2>1, <2>2, <2>3, <2>6, ParseFacts, Assemble
<1>8. ASSUME end_element(element_stack[1]), string' = << >>, state' = "S_text"
      PROVE  IInv'
  <2>1. Scanned'
    BY <1>6, <1>8 DEF Scanned, States
  <2>2. EndsQueued' /\ StackTyped' /\ live' = TRUE
    BY <1>1, <1>2, <1>8, ParseFacts, EndEffect DEF IInv
  <2>3. Innermost' # "SGML_LITERAL"
    BY <2>2 DEF EndsQueued
  <2>4. LiteralFits' /\ StateFitsContent' /\ TagIsRead'
    BY <1>8, <2>3, ParseFacts
       DEF LiteralFits, Literal, StateFitsContent, TagIsRead, MarkupStates,
           TagStates, EntityStates
  <2>5. QED
    BY <1>8, <2>1, <2>2, <2>4, ParseFacts, Assemble
<1>9. ASSUME calls' = Recovered(s), string' = Longer, state' = "S_text",
             UNCHANGED element_stack
      PROVE  IInv'
  <2>1. Scanned'
    BY <1>6, <1>9 DEF Scanned, States, Longer
  <2>2. /\ TextQueued' /\ StackTyped' /\ live' = TRUE
        /\ Pending' = << "<" >> \o s
    BY <1>1, <1>4, <1>9, ParseFacts, TextEffect DEF Recovered, IInv
  <2>3. StateFitsContent' /\ TagIsRead'
    BY <1>9 DEF StateFitsContent, TagIsRead, MarkupStates, TagStates,
                EntityStates
  <2>4. HeldBack' = << >>
    BY <1>9 DEF HeldBack
  <2>5. (shown' \o Pending') \o HeldBack' = read'
    <3>1. read' \in Seq(Characters)
      BY ParseFacts
    <3>2. shown' \o Pending' = read'
      BY <1>3, <1>5, <2>2
    <3>3. QED
      BY <2>4, <3>1, <3>2, NoneAdded
  <2>6. LiteralFits'
    BY <2>2, <2>5, ParseFacts DEF LiteralFits
  <2>7. QED
    BY <1>9, <2>1, <2>2, <2>3, <2>6, ParseFacts, Assemble
<1>10. QED
  BY <1>7, <1>8, <1>9 DEF S_literal

LEMMA PutcTyped ==
  ASSUME NEW s \in Seq(Input \cup { "other" }), NEW c \in Input
  PROVE  Putc(s, c) \in Seq(Input \cup { "other" })
<1>1. /\ << c >> \in Seq(Input \cup { "other" })
      /\ << "other" >> \in Seq(Input \cup { "other" })
  OBVIOUS
<1>2. QED
  BY <1>1 DEF Putc, Longer

LEMMA WordTyped ==
  ASSUME NEW s \in Seq(Input \cup { "other" })
  PROVE  Word(s) \in Input \cup { "other", "" }
<1>1. s # << >> => s[1] \in Input \cup { "other" }
  OBVIOUS
<1>2. QED
  BY <1>1 DEF Word

LEMMA EntityKeepsIInv ==
  ASSUME IInv, NEW c \in Input, Parse(c), S_entity(c)
  PROVE  IInv'
<1>1. /\ state \in EntityStates /\ Innermost \in References /\ TagTyped'
      /\ UNCHANGED element_stack
  BY ParseFacts
     DEF S_entity, EntityStates, IInv, StateFitsContent, KeepTag, TagTyped
<1>2. state \notin { "S_text", "S_literal", "none" } /\ Innermost # "SGML_LITERAL"
  BY <1>1 DEF EntityStates, References
<1>3. CASE isalnum(c)
  <2>1. state' = "S_entity" /\ string' = Putc(string, c) /\ NoCall
    BY <1>1, <1>3 DEF S_entity, NoCall
  <2>2. Scanned' /\ TagIsRead'
    BY <1>1, <2>1, ParseFacts, PutcTyped
       DEF Scanned, States, TagIsRead, TagStates
  <2>3. QED
    BY <1>1, <1>2, <2>1, <2>2, SilentStep
<1>4. CASE ~ isalnum(c)
  <2>1. state' = "S_text" /\ handle_entity(string, c) /\ string' = string
    BY <1>4 DEF S_entity
  <2>2. Scanned'
    BY <1>1, <2>1, ParseFacts DEF Scanned, States
  <2>3. CASE Word(string) \in Entities
    <3>1. calls' = << [ op |-> "put_entity", entity |-> Word(string) ] >>
      BY <2>1, <2>3 DEF handle_entity
    <3>2. Queued({ "put_entity" })'
      BY <3>1 DEF Queued
    <3>3. /\ open = element_stack /\ live = TRUE /\ open' = open /\ live' = live
          /\ Innermost' = Innermost /\ StackTyped'
      BY <1>1, <1>2, ParseFacts
         DEF IInv, TypeOK, Quiet, Innermost, StackTyped, LiteralIsInnermost
    <3>4. EntityQueued'
      BY <1>1, <3>2, <3>3 DEF EntityQueued
    <3>5. StateFitsContent' /\ TagIsRead'
      BY <2>1 DEF StateFitsContent, TagIsRead, MarkupStates, TagStates,
                  EntityStates
    <3>6. LiteralFits'
      BY <1>2, <3>3, LiteralEntered
    <3>7. QED
      BY <2>1, <2>2, <3>3, <3>4, <3>5, <3>6, ParseFacts, Assemble
  <2>4. CASE Word(string) \notin Entities
    <3> DEFINE s == << "&" >> \o string \o << c >>
    <3>1. calls' = Text(s)
      BY <2>1, <2>4 DEF handle_entity
    <3>2. s \in Seq(Characters)
      <4>1. string \in Seq(Characters) /\ c \in Characters /\ "&" \in Characters
        BY ParseFacts DEF Characters
      <4>2. QED
        BY <4>1
    <3> HIDE DEF s
    <3>3. QED
      BY <1>1, <2>1, <2>2, <3>1, <3>2, TextStep
  <2>5. QED
    BY <2>3, <2>4
<1>5. QED
  BY <1>3, <1>4

LEMMA ReferenceKeepsIInv ==
  ASSUME IInv, NEW c \in Input, Parse(c), S_ero(c) \/ S_cro(c)
  PROVE  IInv'
<1>1. /\ state \in EntityStates /\ Innermost \in References /\ TagTyped'
      /\ UNCHANGED element_stack
  BY ParseFacts
     DEF S_ero, S_cro, EntityStates, IInv, StateFitsContent, KeepTag, NoCall,
         TagTyped
<1>2. state \notin { "S_text", "S_literal", "none" } /\ Innermost # "SGML_LITERAL"
  BY <1>1 DEF EntityStates, References
<1>3. ASSUME NoCall, state' = "S_cro", string' \in { string, Putc(string, c) }
      PROVE  IInv'
  <2>1. Scanned' /\ TagIsRead'
    BY <1>1, <1>3, ParseFacts, PutcTyped
       DEF Scanned, States, TagIsRead, TagStates
  <2>2. QED
    BY <1>1, <1>2, <1>3, <2>1, SilentStep
<1>4. ASSUME state' = "S_text", string' = string,
             calls' \in { << >>, Text(<< "chr" >>) }
      PROVE  IInv'
  <2>1. Scanned' /\ TagIsRead'
    BY <1>1, <1>4, ParseFacts DEF Scanned, States, TagIsRead, TagStates
  <2>2. CASE calls' = << >>
    BY <1>1, <1>2, <1>4, <2>1, <2>2, ParseFacts, SilentStep
       DEF NoCall, EntityStates
  <2>3. CASE calls' = Text(<< "chr" >>)
    <3>1. << "chr" >> \in Seq(Characters)
      BY DEF Characters
    <3>2. QED
      BY <1>1, <1>4, <2>1, <2>3, <3>1, TextStep
  <2>4. QED
    BY <1>4, <2>2, <2>3
<1>5. CASE S_ero(c)
  BY <1>3, <1>5 DEF S_ero
<1>6. CASE S_cro(c)
  <2>1. CASE isalnum(c)
    BY <1>1, <1>3, <1>6, <2>1 DEF S_cro, NoCall
  <2>2. CASE ~ isalnum(c)
    BY <1>4, <1>6, <2>2 DEF S_cro
  <2>3. QED
    BY <2>1, <2>2
<1>7. QED
  BY <1>5, <1>6

-----------------------------------------------------------------------------
(* The slots of a tag whose name has just been read: none is taken. *)
LEMMA NothingGiven ==
  ASSUME NEW tag \in KnownTags, NEW pres \in [ Slots -> BOOLEAN ], NEW val
  PROVE  LET cleared == [ i \in Slots |-> pres[i] /\ i >= Len(attributes(tag)) ]
         IN  /\ SlotsHold(tag, cleared, val, NoAttributes)
             /\ cleared \in [ Slots -> BOOLEAN ]
             /\ NoAttributes = [ a \in DOMAIN NoAttributes |-> NoAttributes[a] ]
<1> DEFINE cleared == [ i \in Slots |-> pres[i] /\ i >= Len(attributes(tag)) ]
<1>1. DOMAIN NoAttributes = {}
      /\ NoAttributes = [ a \in DOMAIN NoAttributes |-> NoAttributes[a] ]
  BY DEF NoAttributes
<1>2. ASSUME NEW a \in Attributes(tag), AttributeNumber[tag][a] # INVALID
      PROVE  ~ cleared[AttributeNumber[tag][a]]
  <2>1. tag \in Elements /\ a \in Names
    BY AttributeLists DEF KnownTags, Attributes
  <2>2. /\ AttributeNumber[tag][a] \in Slots
        /\ AttributeNumber[tag][a] < Len(attributes(tag))
    BY <1>2, <2>1, NumberIsSlot
  <2>3. Len(attributes(tag)) \in Nat
    BY AttributeLists
  <2>4. ~ (AttributeNumber[tag][a] >= Len(attributes(tag)))
    BY <2>2, <2>3 DEF Slots
  <2>5. QED
    BY <2>2, <2>4
<1>3. cleared \in [ Slots -> BOOLEAN ]
  OBVIOUS
<1> HIDE DEF cleared
<1>4. SlotsHold(tag, cleared, val, NoAttributes)
  BY <1>1, <1>2 DEF SlotsHold
<1>5. QED
  BY <1>1, <1>3, <1>4 DEF cleared

(* A name takes its own slot and no other. *)
LEMMA NameHolds ==
  ASSUME NEW tag \in KnownTags, current_tag = tag, TagTyped,
         SlotsHold(tag, present, value, given),
         given = [ a \in DOMAIN given |-> given[a] ],
         NEW name, handle_attribute_name(name)
  PROVE  /\ SlotsHold(tag, present', value', given')
         /\ given' = [ a \in DOMAIN given' |-> given'[a] ]
         /\ current_attribute_number' \in Slots \cup { INVALID }
         /\ present' \in [ Slots -> BOOLEAN ]
         /\ value' \in [ Slots -> Input \cup { "other", "", NULL } ]
         /\ current_attribute_number' # INVALID =>
              \E a \in DOMAIN given' :
                AttributeNumber[tag][a] = current_attribute_number'
<1> DEFINE i == IF name \in Names THEN AttributeNumber[tag][name] ELSE INVALID
<1>1. tag \in Elements
  BY DEF KnownTags
<1>2. /\ i \in Slots \cup { INVALID }
      /\ i # INVALID => /\ name \in Names /\ name \in Attributes(tag)
                        /\ i = AttributeNumber[tag][name]
  BY <1>1, NumberIsSlot
<1>3. current_attribute_number' = i
  BY DEF handle_attribute_name
<1>4. CASE i = INVALID
  <2>1. UNCHANGED << present, value, given >>
    BY <1>4 DEF handle_attribute_name
  <2>2. QED
    BY <1>3, <1>4, <2>1 DEF TagTyped
<1>5. CASE i # INVALID
  <2>1. /\ present' = [ present EXCEPT ![i] = TRUE ]
        /\ value'   = [ value EXCEPT ![i] = NULL ]
        /\ given'   = WithoutValue(name)
    BY <1>5 DEF handle_attribute_name
  <2>2. /\ DOMAIN given' = DOMAIN given \cup { name }
        /\ \A a \in DOMAIN given' :
             given'[a] = IF a = name THEN NULL ELSE given[a]
        /\ given' = [ a \in DOMAIN given' |-> given'[a] ]
    BY <2>1 DEF WithoutValue
  <2>3. \A a \in Attributes(tag) :
          a # name /\ AttributeNumber[tag][a] # INVALID
            => AttributeNumber[tag][a] # i
    <3> SUFFICES ASSUME NEW a \in Attributes(tag), AttributeNumber[tag][a] = i
                 PROVE  a = name
      OBVIOUS
    <3>1. a \in Names
      BY AttributeLists DEF Attributes
    <3>2. /\ attributes(tag)[i + 1] = a
          /\ attributes(tag)[i + 1] = name
      BY <1>1, <1>2, <1>5, <3>1, NumberIsSlot
    <3>3. QED
      BY <3>2
  <2> HIDE DEF i
  <2>4. i \in Slots
    BY <1>2, <1>5
  <2>5. /\ present' \in [ Slots -> BOOLEAN ]
        /\ value' \in [ Slots -> Input \cup { "other", "", NULL } ]
        /\ present'[i] /\ value'[i] = NULL
        /\ \A j \in Slots \ { i } :
             present'[j] = present[j] /\ value'[j] = value[j]
    BY <2>1, <2>4 DEF TagTyped
  <2>6. \A a \in Attributes(tag) :
          AttributeNumber[tag][a] \in Slots \cup { INVALID }
    BY <1>1, NumberIsSlot, AttributeLists DEF Attributes
  <2>7. SlotsHold(tag, present', value', given')
    <3>1. DOMAIN given' \subseteq Attributes(tag)
      BY <1>2, <1>5, <2>2 DEF SlotsHold
    <3>2. ASSUME NEW a \in Attributes(tag), AttributeNumber[tag][a] # INVALID
          PROVE  /\ present'[AttributeNumber[tag][a]] <=> a \in DOMAIN given'
                 /\ a \in DOMAIN given'
                      => value'[AttributeNumber[tag][a]] = given'[a]
      <4>1. CASE a = name
        BY <1>2, <1>5, <2>2, <2>5, <4>1
      <4>2. CASE a # name
        <5>1. AttributeNumber[tag][a] \in Slots \ { i }
          BY <2>3, <2>6, <3>2, <4>2
        <5>2. QED
          BY <2>2, <2>5, <3>2, <4>2, <5>1 DEF SlotsHold
      <4>3. QED
        BY <4>1, <4>2
    <3>3. ASSUME NEW a \in Attributes(tag), AttributeNumber[tag][a] = INVALID
          PROVE  a \notin DOMAIN given'
      BY <1>2, <1>5, <2>2, <3>3 DEF SlotsHold
    <3>4. QED
      BY <3>1, <3>2, <3>3 DEF SlotsHold
  <2>8. QED
    BY <1>2, <1>3, <1>5, <2>2, <2>4, <2>5, <2>7
<1>6. QED
  BY <1>4, <1>5

(* A value goes to the attribute it was given for. *)
LEMMA ValueHolds ==
  ASSUME NEW tag \in KnownTags, current_tag = tag, TagTyped,
         SlotsHold(tag, present, value, given),
         given = [ a \in DOMAIN given |-> given[a] ],
         current_attribute_number # INVALID =>
           \E a \in DOMAIN given :
             AttributeNumber[tag][a] = current_attribute_number,
         NEW s \in Seq(Input \cup { "other" }), handle_attribute_value(s)
  PROVE  /\ SlotsHold(tag, present, value', given')
         /\ given' = [ a \in DOMAIN given' |-> given'[a] ]
         /\ current_attribute_number' = INVALID
         /\ value' \in [ Slots -> Input \cup { "other", "", NULL } ]
<1> DEFINE i == current_attribute_number
           w == Word(s)
<1>1. current_attribute_number' = INVALID
  BY DEF handle_attribute_value
<1>2. CASE i = INVALID
  <2>1. UNCHANGED << value, given >>
    BY <1>2 DEF handle_attribute_value
  <2>2. QED
    BY <1>1, <2>1 DEF TagTyped
<1>3. CASE i # INVALID
  <2>1. PICK name \in DOMAIN given : AttributeNumber[tag][name] = i
    BY <1>3
  <2>2. tag \in Elements /\ name \in Attributes(tag)
    BY DEF KnownTags, SlotsHold
  <2>3. \A a \in Attributes(tag) : a \in Names
    BY AttributeLists DEF Attributes
  <2>4. \A a \in Attributes(tag) :
          /\ AttributeNumber[tag][a] \in Slots \cup { INVALID }
          /\ AttributeNumber[tag][a] = i => attributes(tag)[i + 1] = a
    BY <1>3, <2>2, <2>3, NumberIsSlot
  <2>5. /\ value' = [ value EXCEPT ![i] = w ]
        /\ given' = [ given EXCEPT ![name] = w ]
    BY <1>3, <2>1, <2>2, <2>4 DEF handle_attribute_value
  <2>6. w \in Input \cup { "other", "", NULL } /\ i \in Slots
    <3>1. i \in Slots
      BY <1>3 DEF TagTyped
    <3>2. w \in Input \cup { "other", "" }
      <4> HIDE DEF w
      <4>1. QED
        BY WordTyped DEF w
    <3>3. QED
      BY <3>1, <3>2
  <2> HIDE DEF w, i
  <2>7. /\ value' \in [ Slots -> Input \cup { "other", "", NULL } ]
        /\ value'[i] = w /\ \A j \in Slots \ { i } : value'[j] = value[j]
    BY <2>5, <2>6 DEF TagTyped
  <2>8. /\ DOMAIN given' = DOMAIN given /\ given'[name] = w
        /\ \A a \in DOMAIN given \ { name } : given'[a] = given[a]
        /\ given' = [ a \in DOMAIN given' |-> given'[a] ]
    BY <2>5
  <2>9. ASSUME NEW a \in Attributes(tag), a \in DOMAIN given'
        PROVE  value'[AttributeNumber[tag][a]] = given'[a]
    <3>1. CASE a = name
      BY <2>1, <2>7, <2>8, <3>1
    <3>2. CASE a # name
      <4>1. AttributeNumber[tag][a] # i
        BY <2>1, <2>2, <2>4, <3>2
      <4>2. AttributeNumber[tag][a] # INVALID
        BY <2>8, <2>9 DEF SlotsHold
      <4>3. AttributeNumber[tag][a] \in Slots \ { i }
        BY <2>4, <4>1, <4>2
      <4>4. QED
        BY <2>7, <2>8, <2>9, <3>2, <4>3 DEF SlotsHold
    <3>3. QED
      BY <3>1, <3>2
  <2>10. SlotsHold(tag, present, value', given')
    BY <2>8, <2>9 DEF SlotsHold
  <2>11. QED
    BY <1>1, <2>7, <2>8, <2>10
<1>4. QED
  BY <1>2, <1>3

LEMMA Emptied ==
  ASSUME string' = << >>
  PROVE  string' \in Seq(Input \cup { "other" })
<1>1. << >> \in Seq(Input \cup { "other" })
  OBVIOUS
<1>2. QED
  BY <1>1

(* What is known while a tag is being read. *)
LEMMA TagFacts ==
  ASSUME IInv, state \in TagStates
  PROVE  /\ current_tag \in KnownTags
         /\ SlotsHold(current_tag, present, value, given)
         /\ given = [ a \in DOMAIN given |-> given[a] ]
         /\ current_attribute_number # INVALID =>
              \E a \in DOMAIN given :
                AttributeNumber[current_tag][a] = current_attribute_number
         /\ Innermost # "SGML_LITERAL"
         /\ state \in MarkupStates
         /\ state \notin { "S_text", "S_literal", "none" }
BY DEF IInv, TagIsRead, StateFitsContent, MarkupStates, TagStates

(* A step inside the tag that leaves what it gave alone. *)
LEMMA InsideTag ==
  ASSUME IInv, NEW c \in Input, Parse(c), state \in TagStates, KeepTag, NoCall,
         state' \in TagStates,
         string' \in { string, Putc(string, c) }
  PROVE  IInv'
<1>1. Scanned'
  BY ParseFacts, PutcTyped DEF Scanned, TagTyped, KeepTag, States, TagStates
<1>2. TagIsRead'
  BY TagFacts DEF TagIsRead, KeepTag
<1>3. QED
  BY <1>1, <1>2, TagFacts, SilentStep DEF TagStates, EntityStates

LEMMA CompleteKeepsIInv ==
  ASSUME IInv, NEW c \in Input, Parse(c), state \in TagStates, KeepTag,
         Complete(present, value), string' = string
  PROVE  IInv'
<1>1. Scanned'
  BY ParseFacts DEF Scanned, TagTyped, KeepTag, States, Complete
<1>2. /\ given' = given /\ state' = "S_text"
      /\ start_element(current_tag, present, value)
  BY DEF Complete, KeepTag
<1>3. QED
  BY <1>1, <1>2, TagFacts, StartStep

LEMMA GapKeepsIInv ==
  ASSUME IInv, NEW c \in Input, Parse(c), S_gap(c) \/ S_equals(c)
  PROVE  IInv'
<1>1. state \in TagStates /\ KeepTag
  BY DEF S_gap, S_equals, TagStates
<1>2. \/ Complete(present, value) /\ string' = string
      \/ /\ NoCall /\ state' \in TagStates
         /\ string' \in { string, Putc(string, c) }
  BY <1>1 DEF S_gap, S_equals, TagStates
<1>3. QED
  BY <1>1, <1>2, InsideTag, CompleteKeepsIInv

LEMMA AttrKeepsIInv ==
  ASSUME IInv, NEW c \in Input, Parse(c), S_attr(c)
  PROVE  IInv'
<1>1. state \in TagStates /\ state = "S_attr"
  BY DEF S_attr, TagStates
<1>2. CASE HT_WHITE(c) \/ c \in { ">", "=" }
  <2>1. /\ handle_attribute_name(Word(string))
        /\ string' = << >> /\ current_tag' = current_tag
        /\ \/ start_element(current_tag, present', value') /\ state' = "S_text"
           \/ state' \in { "S_equals", "S_attr_gap" } /\ NoCall
    BY <1>2 DEF S_attr
  <2>2. /\ SlotsHold(current_tag, present', value', given')
        /\ given' = [ a \in DOMAIN given' |-> given'[a] ]
        /\ current_attribute_number' \in Slots \cup { INVALID }
        /\ present' \in [ Slots -> BOOLEAN ]
        /\ value' \in [ Slots -> Input \cup { "other", "", NULL } ]
        /\ current_attribute_number' # INVALID =>
             \E a \in DOMAIN given' :
               AttributeNumber[current_tag][a] = current_attribute_number'
    BY <1>1, <2>1, TagFacts, ParseFacts, NameHolds
  <2>3. Scanned'
    BY <2>1, <2>2, ParseFacts, Emptied DEF Scanned, TagTyped, States
  <2>4. CASE start_element(current_tag, present', value') /\ state' = "S_text"
    BY <1>1, <2>2, <2>3, <2>4, TagFacts, StartStep
  <2>5. CASE state' \in { "S_equals", "S_attr_gap" } /\ NoCall
    <3>1. TagIsRead'
      BY <1>1, <2>1, <2>2, TagFacts DEF TagIsRead
    <3>2. QED
      BY <1>1, <2>3, <2>5, <3>1, TagFacts, SilentStep DEF EntityStates
  <2>6. QED
    BY <2>1, <2>4, <2>5
<1>3. CASE ~ (HT_WHITE(c) \/ c \in { ">", "=" })
  BY <1>1, <1>3, InsideTag DEF S_attr
<1>4. QED
  BY <1>2, <1>3

(* The end of a value, quoted or not. *)
LEMMA ValueEndKeepsIInv ==
  ASSUME IInv, NEW c \in Input, Parse(c), state \in TagStates,
         handle_attribute_value(string), string' = << >>,
         UNCHANGED << current_tag, present >>,
         \/ start_element(current_tag, present, value') /\ state' = "S_text"
         \/ state' = "S_tag_gap" /\ NoCall
  PROVE  IInv'
<1>1. /\ SlotsHold(current_tag, present, value', given')
      /\ given' = [ a \in DOMAIN given' |-> given'[a] ]
      /\ current_attribute_number' = INVALID
      /\ value' \in [ Slots -> Input \cup { "other", "", NULL } ]
  BY TagFacts, ParseFacts, ValueHolds
<1>2. Scanned'
  BY <1>1, ParseFacts, Emptied DEF Scanned, TagTyped, States
<1>3. CASE start_element(current_tag, present, value') /\ state' = "S_text"
  BY <1>1, <1>2, <1>3, TagFacts, StartStep
<1>4. CASE state' = "S_tag_gap" /\ NoCall
  <2>1. TagIsRead'
    BY <1>1, <1>4, TagFacts DEF TagIsRead
  <2>2. QED
    BY <1>2, <1>4, <2>1, TagFacts, SilentStep DEF EntityStates
<1>5. QED
  BY <1>3, <1>4

LEMMA ValueKeepsIInv ==
  ASSUME IInv, NEW c \in Input, Parse(c), S_value(c) \/ S_quoted(c)
  PROVE  IInv'
<1>1. state \in TagStates
  BY DEF S_value, S_quoted, TagStates
<1>2. \/ /\ handle_attribute_value(string) /\ string' = << >>
         /\ UNCHANGED << current_tag, present >>
         /\ \/ start_element(current_tag, present, value') /\ state' = "S_text"
            \/ state' = "S_tag_gap" /\ NoCall
      \/ KeepTag /\ NoCall /\ state' = state /\ string' = Putc(string, c)
  BY DEF S_value, S_quoted
<1>3. QED
  BY <1>1, <1>2, InsideTag, ValueEndKeepsIInv

LEMMA TagKeepsIInv ==
  ASSUME IInv, NEW c \in Input, Parse(c), S_tag(c)
  PROVE  IInv'
<1>1. /\ state \in MarkupStates /\ state \notin { "S_text", "S_literal", "none" }
      /\ Innermost # "SGML_LITERAL"
  BY DEF S_tag, MarkupStates, IInv, StateFitsContent
<1>2. ASSUME KeepTag, NoCall, string' \in { string, Putc(string, c) },
             state' \in { "S_tag", "S_end", "S_text", "S_junk_tag" }
      PROVE  IInv'
  <2>1. Scanned' /\ TagIsRead'
    BY <1>2, ParseFacts, PutcTyped
       DEF Scanned, TagTyped, KeepTag, States, TagIsRead, TagStates
  <2>2. QED
    BY <1>1, <1>2, <2>1, SilentStep DEF EntityStates
<1> DEFINE tag == Word(string)
           cleared == [ i \in Slots |->
                          present[i] /\ i >= Len(attributes(tag)) ]
<1>3. ASSUME find_tag(string), current_tag' = tag, present' = cleared,
             \/ start_element(tag, cleared, value) /\ state' = "S_text"
             \/ state' = "S_tag_gap" /\ NoCall,
             string' = << >>, current_attribute_number' = INVALID,
             given' = NoAttributes, value' = value
      PROVE  IInv'
  <2>1. tag \in KnownTags /\ tag \in Elements
    BY <1>3 DEF find_tag, KnownTags
  <2>2. present \in [ Slots -> BOOLEAN ]
    BY ParseFacts DEF TagTyped
  <2> HIDE DEF tag
  <2>3. /\ SlotsHold(tag, cleared, value, NoAttributes)
        /\ cleared \in [ Slots -> BOOLEAN ]
        /\ NoAttributes = [ a \in DOMAIN NoAttributes |-> NoAttributes[a] ]
    BY <2>1, <2>2, NothingGiven
  <2> HIDE DEF cleared
  <2>4. Scanned'
    BY <1>3, <2>1, <2>3, ParseFacts, Emptied DEF Scanned, TagTyped, States
  <2>5. CASE start_element(tag, cleared, value) /\ state' = "S_text"
    BY <1>1, <1>3, <2>1, <2>3, <2>4, <2>5, StartStep
  <2>6. CASE state' = "S_tag_gap" /\ NoCall
    <3>1. TagIsRead'
      BY <1>3, <2>1, <2>3, <2>6 DEF TagIsRead
    <3>2. QED
      BY <1>1, <2>4, <2>6, <3>1, SilentStep DEF EntityStates
  <2>7. QED
    BY <1>3, <2>5, <2>6
<1>4. QED
  BY <1>2, <1>3 DEF S_tag

LEMMA EndKeepsIInv ==
  ASSUME IInv, NEW c \in Input, Parse(c), S_end(c)
  PROVE  IInv'
<1>1. /\ state = "S_end" /\ state \notin { "S_text", "S_literal", "none" }
      /\ Innermost # "SGML_LITERAL"
  BY DEF S_end, MarkupStates, IInv, StateFitsContent
<1>2. CASE isalnum(c)
  <2>1. /\ string' = Putc(string, c) /\ state' = state /\ NoCall /\ KeepTag
    BY <1>2 DEF S_end
  <2>2. Scanned' /\ TagIsRead'
    BY <1>1, <2>1, ParseFacts, PutcTyped
       DEF Scanned, TagTyped, KeepTag, States, TagIsRead, TagStates
  <2>3. QED
    BY <1>1, <2>1, <2>2, SilentStep DEF EntityStates
<1>3. CASE ~ isalnum(c)
  <2> DEFINE t == IF string = << >> THEN element_stack[1] ELSE Word(string)
  <2>1. /\ string' = << >> /\ current_attribute_number' = INVALID
        /\ UNCHANGED << present, value >>
        /\ state' \in { "crashed", "S_text", "S_junk_tag" }
    BY <1>3 DEF S_end
  <2>2. \/ NoCall /\ current_tag' = current_tag
        \/ /\ state' \in { "S_text", "S_junk_tag" }
           /\ ~ (string = << >> /\ element_stack = << >>)
           /\ string = << >> \/ find_tag(string)
           /\ current_tag' = t /\ end_element(t)
    BY <1>3 DEF S_end
  <2>3. CASE NoCall /\ current_tag' = current_tag
    <3>1. Scanned' /\ TagIsRead'
      BY <2>1, <2>3, ParseFacts, Emptied
         DEF Scanned, TagTyped, States, TagIsRead, TagStates
    <3>2. QED
      BY <1>1, <2>1, <2>3, <3>1, SilentStep DEF EntityStates
  <2>4. CASE /\ state' \in { "S_text", "S_junk_tag" }
             /\ ~ (string = << >> /\ element_stack = << >>)
             /\ string = << >> \/ find_tag(string)
             /\ current_tag' = t /\ end_element(t)
    <3>1. t \in Elements
      <4>1. CASE string = << >>
        <5>1. element_stack \in Seq(Elements)
          BY DEF IInv, TypeOK
        <5>2. QED
          BY <2>4, <4>1, <5>1
      <4>2. CASE string # << >>
        BY <2>4, <4>2 DEF find_tag, KnownTags
      <4>3. QED
        BY <4>1, <4>2
    <3> HIDE DEF t
    <3>2. Scanned'
      BY <2>1, <2>4, <3>1, ParseFacts, Emptied DEF Scanned, TagTyped, States
    <3>3. QED
      BY <1>1, <2>4, <3>2, EndStep
  <2>5. QED
    BY <2>2, <2>3, <2>4
<1>4. QED
  BY <1>2, <1>3

LEMMA JunkKeepsIInv ==
  ASSUME IInv, NEW c \in Input, Parse(c), S_junk_tag(c)
  PROVE  IInv'
<1>1. /\ state \notin { "S_text", "S_literal", "none" }
      /\ Innermost # "SGML_LITERAL" /\ NoCall
      /\ state' \in { "S_text", "S_junk_tag" }
  BY DEF S_junk_tag, MarkupStates, IInv, StateFitsContent
<1>2. Scanned' /\ TagIsRead'
  BY <1>1, ParseFacts
     DEF S_junk_tag, Scanned, TagTyped, KeepTag, States, TagIsRead, TagStates
<1>3. QED
  BY <1>1, <1>2, SilentStep DEF EntityStates

LEMMA ParseKeepsIInv ==
  ASSUME IInv, NEW c \in Input, Parse(c)
  PROVE  IInv'
<1>1. \/ S_text(c)  \/ S_literal(c) \/ S_ero(c)  \/ S_entity(c) \/ S_cro(c)
      \/ S_tag(c)   \/ S_gap(c)     \/ S_attr(c) \/ S_equals(c) \/ S_value(c)
      \/ S_quoted(c) \/ S_end(c)    \/ S_junk_tag(c)
  BY DEF Parse, SGML_character
<1>2. QED
  BY <1>1, TextKeepsIInv, LiteralKeepsIInv, EntityKeepsIInv,
     ReferenceKeepsIInv, TagKeepsIInv, GapKeepsIInv, AttrKeepsIInv,
     ValueKeepsIInv, EndKeepsIInv, JunkKeepsIInv

-----------------------------------------------------------------------------
(* The stream ends and begins again. *)
LEMMA EndDocumentKeepsIInv ==
  ASSUME IInv, EndDocument
  PROVE  IInv'
<1>1. /\ calls = << >> /\ state \notin { "none", "crashed" } /\ state' = "none"
      /\ calls' \in { << [ op |-> "free" ] >>, << [ op |-> "abort" ] >> }
      /\ UNCHANGED << string, element_stack, open, live, shown >>
      /\ KeepTag /\ read' = << >>
  BY DEF EndDocument, SGML_free, SGML_abort
<1>2. Quiet
  BY <1>1, QuietWhenEmpty
<1>3. TypeOK' /\ LiteralIsInnermost'
  BY <1>1 DEF IInv, TypeOK, States, KeepTag, LiteralIsInnermost
<1>4. StateFitsContent' /\ TagIsRead'
  BY <1>1 DEF StateFitsContent, TagIsRead, MarkupStates, TagStates,
              EntityStates
<1>5. Queued({ "free", "abort" })' /\ live' = TRUE
  BY <1>1, <1>2 DEF Queued, Quiet, IInv
<1>6. QueueFits'
  BY <1>1, <1>5 DEF QueueFits
<1>7. LiteralFits'
  <2>1. << >> \in Seq(Characters) /\ shown \in Seq(Characters)
    BY DEF IInv, LiteralFits
  <2>2. QED
    BY <1>1, <2>1 DEF LiteralFits, Literal
<1>8. QED
  BY <1>3, <1>4, <1>5, <1>6, <1>7 DEF IInv

LEMMA NewDocumentKeepsIInv ==
  ASSUME IInv, NewDocument
  PROVE  IInv'
<1>1. /\ calls = << >> /\ state = "none" /\ state' = "S_text"
      /\ string' = << >> /\ element_stack' = << >> /\ current_tag' = NULL
      /\ current_attribute_number' = INVALID /\ present' \in Uninitialized
      /\ value' = [ i \in Slots |-> NULL ]
      /\ UNCHANGED << calls, open, read, shown >> /\ live' = TRUE
  BY DEF NewDocument, SGML_new
<1>2. Quiet /\ open = << >>
  BY <1>1, QuietWhenEmpty DEF Quiet
<1>3. TagTyped'
  BY <1>1 DEF TagTyped, Uninitialized
<1>4. Scanned'
  BY <1>1, <1>3, Emptied DEF Scanned, States
<1>5. StackTyped' /\ open' \in Seq(Elements)
  <2>1. << >> \in Seq(Elements) /\ Len(<< >>) = 0
    OBVIOUS
  <2>2. open' \in Seq(Elements) /\ element_stack' \in Seq(Elements)
    BY <1>1, <1>2, <2>1
  <2>3. Len(element_stack') <= MaxDepth
    BY <1>1, SGMLAssumption
  <2>4. LiteralIsInnermost'
    BY <1>1 DEF LiteralIsInnermost
  <2>5. QED
    BY <2>2, <2>3, <2>4 DEF StackTyped
<1>6. Innermost' = "SGML_MIXED"
  BY <1>1 DEF Innermost
<1>7. StateFitsContent' /\ TagIsRead'
  BY <1>1 DEF StateFitsContent, TagIsRead, MarkupStates, TagStates,
              EntityStates
<1>8. LiteralFits'
  BY <1>1, <1>6 DEF IInv, LiteralFits, Literal
<1>9. calls' = << >> /\ TextQueued'
  BY <1>1, <1>2 DEF TextQueued
<1>10. QED
  BY <1>1, <1>4, <1>5, <1>7, <1>8, <1>9, Assemble

LEMMA InitHasIInv == StreamInit => IInv
<1> SUFFICES ASSUME StreamInit
             PROVE  IInv
  OBVIOUS
<1>1. /\ state = "S_text" /\ string = << >> /\ element_stack = << >>
      /\ current_tag = NULL /\ current_attribute_number = INVALID
      /\ present \in Uninitialized /\ value = [ i \in Slots |-> NULL ]
      /\ calls = << >> /\ open = << >> /\ live = TRUE
      /\ read = << >> /\ shown = << >>
  BY DEF StreamInit, Init
<1>2. << >> \in Seq(Input \cup { "other" }) /\ << >> \in Seq(Elements)
      /\ << >> \in Seq(Characters)
  OBVIOUS
<1>3. Len(element_stack) <= MaxDepth
  BY <1>1, SGMLAssumption
<1>4. TypeOK
  BY <1>1, <1>2, <1>3 DEF TypeOK, States, Uninitialized
<1>5. LiteralIsInnermost /\ Innermost = "SGML_MIXED" /\ Quiet
  BY <1>1 DEF LiteralIsInnermost, Innermost, Quiet
<1>6. StateFitsContent /\ TagIsRead
  BY <1>1 DEF StateFitsContent, TagIsRead, MarkupStates, TagStates,
              EntityStates
<1>7. LiteralFits
  BY <1>1, <1>2, <1>5 DEF LiteralFits, Literal
<1>8. QED
  BY <1>1, <1>4, <1>5, <1>6, <1>7 DEF IInv, QueueFits

-----------------------------------------------------------------------------
(* The target receives the calls. *)
LEMMA ReceiveFacts ==
  ASSUME IInv, Receive
  PROVE  /\ calls # << >> /\ call' = Head(calls) /\ calls' = Tail(calls)
         /\ UNCHANGED << parserVars, read >>
         /\ Innermost' = Innermost /\ Literal' = Literal /\ HeldBack' = HeldBack
         /\ StateFitsContent' /\ TagIsRead' /\ LiteralIsInnermost'
         /\ ~ Quiet
<1>1. /\ calls # << >> /\ call' = Head(calls) /\ calls' = Tail(calls)
      /\ UNCHANGED << parserVars, read >>
  BY DEF Receive
<1>2. /\ Innermost' = Innermost /\ Literal' = Literal /\ HeldBack' = HeldBack
      /\ StateFitsContent' /\ TagIsRead' /\ LiteralIsInnermost'
  BY <1>1 DEF parserVars, Innermost, Literal, HeldBack, StateFitsContent,
              TagIsRead, LiteralIsInnermost, IInv
<1>3. QED
  BY <1>1, <1>2 DEF Quiet

(* A single call leaves the queue empty. *)
LEMMA LastReceived ==
  ASSUME IInv, Receive, NEW ops, Queued(ops),
         open' \in Seq(Elements), live' \in BOOLEAN,
         state # "none" => open' = element_stack /\ live',
         state = "none" => open' = << >> /\ ~ live',
         Literal => read = << >> /\ shown' = << >> /\ state = "S_text",
         shown' \in Seq(Characters)
  PROVE  IInv'
<1>1. calls = << calls[1] >>
  BY DEF Queued
<1>2. calls' = << >>
  BY <1>1, ReceiveFacts
<1>3. TypeOK'
  BY ReceiveFacts DEF parserVars, IInv, TypeOK
<1>4. Quiet'
  BY <1>2, ReceiveFacts DEF Quiet, parserVars
<1>5. LiteralFits'
  <2>1. read' \in Seq(Characters)
    BY ReceiveFacts DEF IInv, LiteralFits
  <2>2. ASSUME Literal
        PROVE  TextQueued' /\ (shown' \o Pending') \o HeldBack' = read'
    <3>1. state = "S_text" /\ state' = state /\ element_stack' = element_stack
      BY <2>2, ReceiveFacts DEF parserVars
    <3>2. TextQueued'
      BY <1>2, <3>1 DEF TextQueued
    <3>3. Pending' = << >> /\ HeldBack' = << >>
      BY <1>2, <3>1 DEF Pending, HeldBack
    <3>4. QED
      BY <2>2, <3>2, <3>3, ReceiveFacts
  <2>3. QED
    BY <2>1, <2>2, ReceiveFacts DEF LiteralFits
<1>6. QED
  BY <1>3, <1>4, <1>5, ReceiveFacts DEF IInv, QueueFits

LEMMA ReceiveText ==
  ASSUME IInv, Receive, Between, TextQueued
  PROVE  /\ call'.op = "put_character" /\ open' = open /\ live' = live
         /\ IInv'
<1> DEFINE Put == [ op : { "put_character" }, c : Characters ]
<1>1. /\ calls \in Seq(Put) /\ calls # << >>
      /\ \A p \in Put : p.op = "put_character" /\ p.c \in Characters
  BY ReceiveFacts DEF TextQueued
<1> HIDE DEF Put
<1>2. /\ Head(calls) = calls[1] /\ calls[1] \in Put /\ Tail(calls) \in Seq(Put)
      /\ Len(calls) \in Nat \ { 0 } /\ DOMAIN calls = 1 .. Len(calls)
      /\ \A i \in 1 .. Len(calls) : calls[i] \in Put
  BY <1>1
<1>3. /\ Head(calls) = calls[1] /\ calls[1].op = "put_character"
      /\ calls[1].c \in Characters
      /\ Tail(calls) \in Seq([ op : { "put_character" }, c : Characters ])
  BY <1>1, <1>2 DEF Put
<1>4. call' = calls[1] /\ call'.op = "put_character"
  BY <1>3, ReceiveFacts
<1>5. open' = open
  BY <1>4 DEF Receive
<1>6. live' = live /\ live = TRUE
  BY <1>4 DEF Receive, IInv, Between
<1>7. TypeOK'
  BY <1>5, ReceiveFacts DEF IInv, TypeOK, parserVars
<1>8. TextQueued' /\ Between' /\ QueueFits'
  BY <1>3, <1>5, <1>6, ReceiveFacts
     DEF TextQueued, Between, QueueFits, parserVars
<1>9. /\ shown \in Seq(Characters) /\ read \in Seq(Characters)
      /\ << >> \in Seq(Characters)
  BY DEF IInv, LiteralFits
<1>10. CASE ~ Literal
  <2>1. shown' = << >>
    BY <1>10 DEF Receive
  <2>2. LiteralFits'
    BY <1>9, <1>10, <2>1, ReceiveFacts DEF LiteralFits
  <2>3. QED
    BY <1>4, <1>5, <1>6, <1>7, <1>8, <2>2, ReceiveFacts DEF IInv
<1>11. CASE Literal
  <2>1. shown' = Append(shown, calls[1].c)
    BY <1>4, <1>11 DEF Receive
  <2>2. (shown \o Pending) \o HeldBack = read
    BY <1>3, <1>11 DEF IInv, LiteralFits, StartQueued, Queued
  <2>3. /\ Pending \in Seq(Characters) /\ Pending # << >>
        /\ Head(Pending) = calls[1].c /\ Tail(Pending) = Pending'
    <3>1. /\ Len(calls) \in Nat \ { 0 } /\ DOMAIN calls = 1 .. Len(calls)
          /\ \A i \in 1 .. Len(calls) : calls[i].c \in Characters
      BY <1>1, <1>2
    <3>2. Pending = [ i \in 1 .. Len(calls) |-> calls[i].c ]
      BY <3>1 DEF Pending
    <3>3. /\ Pending \in Seq(Characters) /\ Len(Pending) = Len(calls)
          /\ Pending # << >> /\ Head(Pending) = calls[1].c
      BY <3>1, <3>2
    <3>4. /\ Len(Tail(calls)) = Len(calls) - 1
          /\ \A i \in 1 .. Len(calls) - 1 : Tail(calls)[i] = calls[i + 1]
          /\ DOMAIN Tail(calls) = 1 .. Len(calls) - 1
      BY <3>1, ReceiveFacts DEF TextQueued
    <3>5. Pending' = [ i \in 1 .. Len(calls) - 1 |-> calls[i + 1].c ]
      BY <3>4, ReceiveFacts DEF Pending
    <3>6. Tail(Pending) = [ i \in 1 .. Len(calls) - 1 |-> calls[i + 1].c ]
      BY <3>1, <3>2
    <3>7. QED
      BY <3>3, <3>5, <3>6
  <2> DEFINE p == Pending
             t == Pending'
  <2>4. /\ p \in Seq(Characters) /\ p # << >> /\ Tail(p) = t
        /\ Head(p) = calls[1].c
    BY <2>3
  <2>5. shown \o p \in Seq(Characters)
    BY <1>9, <2>3
  <2>6. shown' \o t = shown \o p
    <3> HIDE DEF p, t
    <3>1. Append(shown, Head(p)) \o Tail(p) = shown \o p
      <4>1. shown \in Seq(Characters) /\ p \in Seq(Characters) /\ p # << >>
        BY <1>9, <2>4
      <4>2. QED
        BY <4>1
    <3>2. QED
      BY <2>1, <2>4, <3>1
  <2>7. shown' \in Seq(Characters)
    BY <1>3, <1>9, <2>1
  <2>8. LiteralFits'
    BY <1>8, <1>9, <2>2, <2>6, <2>7, ReceiveFacts DEF LiteralFits
  <2>9. QED
    BY <1>4, <1>5, <1>6, <1>7, <1>8, <2>8, ReceiveFacts DEF IInv
<1>12. QED
  BY <1>10, <1>11

LEMMA ReceiveEntity ==
  ASSUME IInv, Receive, Between, EntityQueued
  PROVE  /\ call'.op = "put_entity" /\ open' = open /\ live' = live
         /\ OpenContent \in References /\ IInv'
<1>1. call' = calls[1] /\ call'.op = "put_entity"
  BY ReceiveFacts DEF EntityQueued, Queued
<1>2. open' = open
  BY <1>1 DEF Receive
<1>3. live' = live /\ live = TRUE
  BY <1>1 DEF Receive, IInv, Between
<1>4. open = element_stack /\ Innermost \in References /\ ~ Literal
  BY DEF EntityQueued, Literal, References
<1>5. shown' = << >> /\ << >> \in Seq(Characters)
  BY <1>4 DEF Receive
<1>6. open \in Seq(Elements) /\ state # "none" /\ Queued({ "put_entity" })
  BY DEF IInv, TypeOK, Between, EntityQueued
<1>7. IInv'
  BY <1>2, <1>3, <1>4, <1>5, <1>6, LastReceived
<1>8. QED
  BY <1>1, <1>2, <1>3, <1>4, <1>7 DEF OpenContent, Innermost

LEMMA ReceiveStart ==
  ASSUME IInv, Receive, Between, StartQueued
  PROVE  /\ call'.op = "start_element" /\ live' = live
         /\ OpenContent # "SGML_LITERAL" /\ call'.tag \in KnownTags
         /\ DOMAIN call'.attrs \subseteq Attributes(call'.tag)
         /\ open' = IF contents(call'.tag) = "SGML_EMPTY" THEN open
                    ELSE << call'.tag >> \o open
         /\ IInv'
<1>1. call' = calls[1] /\ call'.op = "start_element"
  BY ReceiveFacts DEF StartQueued, Queued
<1>2. open' = IF contents(call'.tag) = "SGML_EMPTY" THEN open
              ELSE << call'.tag >> \o open
  BY <1>1 DEF Receive
<1>3. live' = live /\ live = TRUE
  BY <1>1 DEF Receive, IInv, Between
<1>4. /\ OpenContent # "SGML_LITERAL" /\ call'.tag \in KnownTags
      /\ DOMAIN call'.attrs \subseteq Attributes(call'.tag)
      /\ open' = element_stack
  BY <1>1, <1>2 DEF StartQueued
<1>5. shown' = << >> /\ << >> \in Seq(Characters)
  BY <1>1 DEF Receive
<1>6. /\ element_stack \in Seq(Elements) /\ state # "none"
      /\ Queued({ "start_element" })
  BY DEF IInv, TypeOK, Between, StartQueued
<1>7. Literal => read = << >> /\ state = "S_text"
  <2>1. ~ TextQueued
    <3> SUFFICES ASSUME TextQueued
                 PROVE  FALSE
      OBVIOUS
    <3>1. /\ 1 \in DOMAIN calls /\ calls[1].op = "start_element"
      BY DEF StartQueued, Queued
    <3> DEFINE Put == [ op : { "put_character" }, c : Characters ]
    <3>2. calls \in Seq(Put) /\ \A p \in Put : p.op = "put_character"
      BY DEF TextQueued
    <3> HIDE DEF Put
    <3>3. calls[1] \in Put
      BY <3>1, <3>2
    <3>4. QED
      BY <3>1, <3>2, <3>3
  <2>2. QED
    BY <2>1 DEF IInv, LiteralFits, Literal, Between
<1>8. IInv'
  BY <1>3, <1>4, <1>5, <1>6, <1>7, LastReceived
<1>9. QED
  BY <1>1, <1>2, <1>3, <1>4, <1>8

LEMMA ReceiveEnd ==
  ASSUME IInv, Receive, Between, EndsQueued
  PROVE  /\ call'.op = "end_element" /\ live' = live
         /\ open # << >> /\ call'.tag = open[1] /\ open' = Tail(open)
         /\ IInv'
<1> DEFINE Put == [ op : { "end_element" }, tag : Elements ]
<1>1. calls \in Seq(Put) /\ \A p \in Put : p.op = "end_element"
  BY DEF EndsQueued
<1> HIDE DEF Put
<1>2. /\ calls # << >> /\ Len(calls) \in Nat /\ Len(calls) >= 1
      /\ call' = calls[1] /\ calls[1] \in Put
      /\ calls' \in Seq(Put) /\ Len(calls') = Len(calls) - 1
      /\ \A i \in 1 .. Len(calls) - 1 : calls'[i] = calls[i + 1]
  <2>1. calls # << >> /\ call' = Head(calls) /\ calls' = Tail(calls)
    BY ReceiveFacts
  <2>2. QED
    BY <1>1, <2>1, HeadTail
<1>3. call'.op = "end_element" /\ live' = live /\ live = TRUE
  BY <1>1, <1>2 DEF Receive, IInv, Between
<1>4. /\ open \in Seq(Elements) /\ element_stack \in Seq(Elements)
      /\ element_stack' = element_stack /\ state' = state
      /\ Len(element_stack) \in Nat
  <2>1. element_stack' = element_stack /\ state' = state
    BY ReceiveFacts DEF parserVars
  <2>2. open \in Seq(Elements) /\ element_stack \in Seq(Elements)
    BY DEF IInv, TypeOK
  <2>3. Len(element_stack) \in Nat
    BY <2>2
  <2>4. QED
    BY <2>1, <2>2, <2>3
<1>5. /\ Len(open) = Len(calls) + Len(element_stack)
      /\ \A k \in 1 .. Len(calls) : calls[k].tag = open[k]
      /\ \A k \in 1 .. Len(element_stack) :
           element_stack[k] = open[Len(calls) + k]
      /\ Innermost # "SGML_LITERAL"
  BY DEF EndsQueued
<1>6. open' = Tail(open)
  BY <1>3 DEF Receive
<1>7. open # << >> /\ call'.tag = open[1]
  BY <1>2, <1>4, <1>5
<1>8. /\ open' \in Seq(Elements) /\ Len(open') = Len(open) - 1
      /\ \A i \in 1 .. Len(open) - 1 : open'[i] = open[i + 1]
  BY <1>4, <1>6, <1>7
<1>9. EndsQueued'
  <2>1. Len(open') = Len(calls') + Len(element_stack')
    BY <1>2, <1>4, <1>5, <1>8
  <2>2. ASSUME NEW k \in 1 .. Len(calls')
        PROVE  calls'[k].tag = open'[k]
    <3>1. /\ k \in 1 .. Len(calls) - 1 /\ k \in 1 .. Len(open) - 1
          /\ k + 1 \in 1 .. Len(calls)
      BY <1>2, <1>4, <1>5
    <3>2. QED
      BY <1>2, <1>5, <1>8, <3>1
  <2>3. ASSUME NEW k \in 1 .. Len(element_stack')
        PROVE  element_stack'[k] = open'[Len(calls') + k]
    <3>1. /\ k \in 1 .. Len(element_stack)
          /\ Len(calls') + k \in 1 .. Len(open) - 1
          /\ (Len(calls') + k) + 1 = Len(calls) + k
      BY <1>2, <1>4, <1>5
    <3>2. open'[Len(calls') + k] = open[Len(calls) + k]
      BY <1>8, <3>1
    <3>3. QED
      BY <1>4, <1>5, <3>1, <3>2
  <2>4. QED
    BY <1>2, <1>5, <2>1, <2>2, <2>3, ReceiveFacts DEF EndsQueued, Put
<1>10. TypeOK'
  BY <1>8, ReceiveFacts DEF IInv, TypeOK, parserVars
<1>11. QueueFits'
  BY <1>3, <1>4, <1>9 DEF QueueFits, Between
<1>12. LiteralFits'
  <2>1. ~ Literal
    BY <1>5 DEF Literal
  <2>2. shown' = << >> /\ << >> \in Seq(Characters)
    BY <2>1 DEF Receive
  <2>3. QED
    BY <2>1, <2>2, ReceiveFacts DEF LiteralFits, IInv
<1>13. QED
  BY <1>3, <1>6, <1>7, <1>10, <1>11, <1>12, ReceiveFacts DEF IInv

LEMMA ReceiveClose ==
  ASSUME IInv, Receive, Queued({ "free", "abort" }), state = "none", live
  PROVE  /\ call'.op \in { "free", "abort" } /\ open' = << >> /\ live' = FALSE
         /\ IInv'
<1>1. call' = calls[1] /\ call'.op \in { "free", "abort" }
  BY ReceiveFacts DEF Queued
<1>2. open' = << >> /\ live' = FALSE
  BY <1>1 DEF Receive
<1>3. ~ Literal
  BY DEF Literal
<1>4. shown' = << >> /\ << >> \in Seq(Characters)
  BY <1>3 DEF Receive
<1>5. << >> \in Seq(Elements)
  OBVIOUS
<1>6. IInv'
  BY <1>2, <1>3, <1>4, <1>5, LastReceived
<1>7. QED
  BY <1>1, <1>2, <1>6

LEMMA StepKeepsIInv == IInv /\ [Next]_vars => IInv'
<1> SUFFICES ASSUME IInv, [Next]_vars
             PROVE  IInv'
  OBVIOUS
<1>1. CASE Receive
  BY <1>1, ReceiveText, ReceiveEntity, ReceiveStart, ReceiveEnd,
     ReceiveClose, ReceiveFacts DEF IInv, QueueFits
<1>2. ASSUME NEW c \in Input, Parse(c)
      PROVE  IInv'
  BY <1>2, ParseKeepsIInv
<1>3. CASE EndDocument
  BY <1>3, EndDocumentKeepsIInv
<1>4. CASE NewDocument
  BY <1>4, NewDocumentKeepsIInv
<1>5. CASE UNCHANGED vars
  BY <1>5 DEF vars, parserVars, IInv, TypeOK, LiteralIsInnermost,
       StateFitsContent, Innermost, TagIsRead, QueueFits, Quiet, Between,
       TextQueued, EntityQueued, StartQueued, OpenContent, EndsQueued, Queued,
       LiteralFits, Literal, Pending, HeldBack
<1>6. QED
  BY <1>1, <1>2, <1>3, <1>4, <1>5 DEF Next

LEMMA Invariant == Spec => []IInv
BY InitHasIInv, StepKeepsIInv, PTL DEF Spec

(***************************************************************************)
(* The parser's variables stay in their ranges: the word buffer and the    *)
(* slots of the attributes hold characters, the stack holds elements of    *)
(* the DTD and is no deeper than documents nest (the states and fields of  *)
(* struct _HTStream in SGML.c).                                            *)
(***************************************************************************)
THEOREM StreamTypeOK == Spec => []TypeOK
<1>1. IInv => TypeOK
  BY DEF IInv
<1>2. QED
  BY <1>1, Invariant, PTL

(***************************************************************************)
(* Whenever SGML_character has returned, the elements the target was told  *)
(* are open are those on the parser's stack: no end_element is forgotten   *)
(* when end tags are missing, crossed or invented.                         *)
(***************************************************************************)
THEOREM TargetAlwaysAgrees == Spec => []TargetAgreesWithStack
<1>1. IInv => TargetAgreesWithStack
  BY QuietWhenEmpty DEF Quiet, TargetAgreesWithStack
<1>2. QED
  BY <1>1, Invariant, PTL

(***************************************************************************)
(* start_element is told the attributes and the values of its own tag, for *)
(* every tag and whatever earlier tags left in the slots they share: the   *)
(* arrays `present' and `value' of SGML.c are cleared by name, not wiped.  *)
(***************************************************************************)
THEOREM AttributesAlwaysOfThisTag == Spec => []AttributesAreOfThisTag
<1>1. ASSUME IInv
      PROVE  AttributesAreOfThisTag
  <2>1. ASSUME NEW i \in DOMAIN calls, calls[i].op = "start_element"
        PROVE  calls[i].attrs = given
    <3>1. ASSUME NEW Put, calls \in Seq(Put)
          PROVE  \E p \in Put : p.op = "start_element"
      BY <2>1, <3>1
    <3>2. ~ TextQueued /\ ~ EndsQueued
      <4> DEFINE Put == [ op : { "put_character" }, c : Characters ]
                 End == [ op : { "end_element" }, tag : Elements ]
      <4>1. \A p \in Put \cup End : p.op # "start_element"
        OBVIOUS
      <4>2. ~ (calls \in Seq(Put)) /\ ~ (calls \in Seq(End))
        <5> HIDE DEF Put, End
        <5>1. QED
          BY <3>1, <4>1
      <4>3. QED
        BY <4>2 DEF TextQueued, EndsQueued
    <3>3. ASSUME NEW ops, Queued(ops)
          PROVE  i = 1 /\ "start_element" \in ops
      BY <2>1, <3>3 DEF Queued
    <3>4. ~ Queued({ "put_entity" }) /\ ~ Queued({ "free", "abort" })
      BY <3>3
    <3>5. calls # << >>
      BY <2>1
    <3>6. StartQueued
      BY <1>1, <3>2, <3>4, <3>5 DEF IInv, QueueFits, Quiet, EntityQueued
    <3>7. i = 1
      BY <3>3, <3>6 DEF StartQueued
    <3>8. QED
      BY <3>6, <3>7 DEF StartQueued
  <2>2. QED
    BY <2>1 DEF AttributesAreOfThisTag
<1>2. QED
  BY <1>1, Invariant, PTL

(***************************************************************************)
(* Inside LISTING, XMP and PLAINTEXT nothing is lost, added or reordered:  *)
(* SGML.c reads ahead for the end tag there and gives back whatever turns  *)
(* out not to be it, the '<' and the '/' included.                         *)
(***************************************************************************)
THEOREM LiteralTextIsAlwaysWhole == Spec => []LiteralTextIsWhole
<1>1. ASSUME IInv, Literal, calls = << >>
      PROVE  shown \o HeldBack = read
  <2>1. ~ StartQueued
    BY <1>1 DEF StartQueued, Queued
  <2>2. (shown \o Pending) \o HeldBack = read
    BY <1>1, <2>1 DEF IInv, LiteralFits
  <2>3. Pending = << >>
    BY <1>1 DEF Pending
  <2>4. shown \in Seq(Characters)
    BY <1>1 DEF IInv, LiteralFits
  <2>5. shown \o << >> = shown
    BY <2>4, NoneAdded
  <2>6. QED
    BY <2>2, <2>3, <2>5
<1>2. IInv => LiteralTextIsWhole
  BY <1>1 DEF LiteralTextIsWhole
<1>3. QED
  BY <1>2, Invariant, PTL

-----------------------------------------------------------------------------
(* The protocol of HTStructured.tla is stated over a DTD of its own, which *)
(* is the same one.                                                        *)
LEMMA SameElements ==
  /\ Protocol!KnownTags = KnownTags /\ Protocol!Innermost = OpenContent
  /\ \A t : Protocol!contents(t) = contents(t)
  /\ \A t : Protocol!Attributes(t) = Attributes(t)
<1>1. \A t : Protocol!contents(t) = contents(t)
  BY DEF Protocol!contents, contents, Protocol!EmptyElements, EmptyElements,
         Protocol!LiteralElements, LiteralElements,
         Protocol!CDataElements, CDataElements
<1>2. \A t : Protocol!attributes(t) = attributes(t)
  BY DEF Protocol!attributes, attributes, Protocol!a_attr, a_attr,
         Protocol!img_attr, img_attr, Protocol!list_attr, list_attr,
         Protocol!glossary_attr, glossary_attr, Protocol!nextid_attr,
         nextid_attr, Protocol!no_attr, no_attr
<1>3. Protocol!Innermost = OpenContent
  BY <1>1 DEF Protocol!Innermost, OpenContent
<1>4. \A t : Protocol!Attributes(t) = Attributes(t)
  BY <1>2 DEF Protocol!Attributes, Attributes
<1>5. Protocol!KnownTags = KnownTags
  BY Zenon
     DEF Protocol!KnownTags, KnownTags, Protocol!Elements, Elements,
         Protocol!tags, tags, Protocol!Lookup, Lookup, Protocol!Names, Names,
         Protocol!Alphabetical, Alphabetical, Protocol!strcasecomp,
         strcasecomp, Protocol!INVALID, INVALID
<1>6. QED
  BY <1>1, <1>3, <1>4, <1>5

LEMMA InitProtocol == StreamInit => Protocol!Init
BY DEF StreamInit, Protocol!Init, Protocol!Returned

(* The calls made while a word of literal or of other text is passed on,   *)
(* elements start and end, and the stream is closed are those the protocol *)
(* has at that point.                                                      *)
LEMMA ReceiveIsACall ==
  ASSUME IInv, Receive
  PROVE  Protocol!Make(call')
<1>1. QueueFits /\ ~ Quiet
  BY ReceiveFacts DEF IInv
<1>2. CASE Between /\ TextQueued
  <2>1. call'.op = "put_character" /\ open' = open /\ live' = live
    BY <1>2, ReceiveText
  <2>2. live = TRUE
    BY <1>2 DEF Between, IInv
  <2>3. QED
    BY <2>1, <2>2 DEF Protocol!Make, Protocol!PutCharacter
<1>3. CASE Between /\ EntityQueued
  <2>1. /\ call'.op = "put_entity" /\ open' = open /\ live' = live
        /\ OpenContent \in References
    BY <1>3, ReceiveEntity
  <2>2. live = TRUE
    BY <1>3 DEF Between, IInv
  <2>3. QED
    BY <2>1, <2>2, SameElements
       DEF Protocol!Make, Protocol!PutEntity, References
<1>4. CASE Between /\ StartQueued
  <2>1. live = TRUE
    BY <1>4 DEF Between, IInv
  <2>2. Protocol!StartElement(call')
    BY <1>4, <2>1, ReceiveStart, SameElements DEF Protocol!StartElement
  <2>3. QED
    BY <2>2 DEF Protocol!Make
<1>5. CASE Between /\ EndsQueued
  <2>1. live = TRUE
    BY <1>5 DEF Between, IInv
  <2>2. Protocol!EndElement(call')
    BY <1>5, <2>1, ReceiveEnd DEF Protocol!EndElement
  <2>3. QED
    BY <2>2 DEF Protocol!Make
<1>6. CASE Queued({ "free", "abort" }) /\ state = "none" /\ live
  <2>1. Protocol!Close(call')
    BY <1>6, ReceiveClose DEF Protocol!Close
  <2>2. QED
    BY <2>1 DEF Protocol!Make
<1>7. QED
  BY <1>1, <1>2, <1>3, <1>4, <1>5, <1>6 DEF QueueFits

LEMMA NewDocumentIsACall ==
  ASSUME IInv, NewDocument
  PROVE  Protocol!Make(call')
<1>1. /\ calls = << >> /\ state = "none" /\ live' = TRUE /\ open' = open
      /\ call' = [ op |-> "new" ]
  BY DEF NewDocument, SGML_new
<1>2. ~ live
  BY <1>1, QuietWhenEmpty DEF Quiet
<1>3. Protocol!New(call')
  BY <1>1, <1>2 DEF Protocol!New
<1>4. QED
  BY <1>3 DEF Protocol!Make

(* A character that is parsed, or the end of the document, only queues     *)
(* calls: the one in progress has returned.                                *)
LEMMA ParseReturns ==
  ASSUME (\E c \in Input : Parse(c)) \/ EndDocument
  PROVE  Protocol!Make(call')
<1>1. call' = [ op |-> "return" ] /\ UNCHANGED << open, live >>
  BY DEF Parse, EndDocument
<1>2. QED
  BY <1>1 DEF Protocol!Make, Protocol!Returned

(***************************************************************************)
(* SGML.c implements the structured stream of SGML.h.  Whatever characters *)
(* it is fed, only the innermost element is ended, no element starts and   *)
(* no entity is expanded in literal text, start_element only has tags and  *)
(* attributes of the DTD, and nothing follows free or abort: what HTML.c   *)
(* relies on ("the parser produces good nesting").                         *)
(***************************************************************************)
THEOREM StreamImplementsProtocol == Spec => KeepsToTheProtocol
<1>1. IInv /\ [Next]_vars => [Protocol!Make(call')]_(Protocol!structuredVars)
  <2> SUFFICES ASSUME IInv, [Next]_vars
               PROVE  [Protocol!Make(call')]_(Protocol!structuredVars)
    OBVIOUS
  <2>1. CASE Receive
    BY <2>1, ReceiveIsACall
  <2>2. CASE NewDocument
    BY <2>2, NewDocumentIsACall
  <2>3. CASE (\E c \in Input : Parse(c)) \/ EndDocument
    BY <2>3, ParseReturns
  <2>4. CASE UNCHANGED vars
    BY <2>4 DEF vars, Protocol!structuredVars
  <2>5. QED
    BY <2>1, <2>2, <2>3, <2>4 DEF Next
<1>2. QED
  BY <1>1, InitProtocol, Invariant, PTL
     DEF Spec, KeepsToTheProtocol, Protocol!Spec

=============================================================================
