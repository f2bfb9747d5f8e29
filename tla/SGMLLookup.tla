------------------------------ MODULE SGMLLookup ------------------------------
(***************************************************************************)
(* The bisection SGML.c uses to look a name up in a table of the DTD.  The *)
(* same loop is written three times: find_tag for elements,                *)
(* handle_attribute_name for attributes and handle_entity for entities.    *)
(*                                                                         *)
(* A name is represented by its rank in the order in which the comparison  *)
(* function (strcasecomp or strcmp) puts names, so that `diff' is a        *)
(* subtraction.  C index i of a table is position i + 1 of the sequence.   *)
(***************************************************************************)
EXTENDS Integers, Sequences

CONSTANTS
  Tables,      \* the tables that are searched, as sequences of ranks
  Keys         \* the ranks of the names looked up, known to a table or not

ASSUME LookupAssumption == Tables \subseteq Seq(Nat) /\ Keys \subseteq Nat

VARIABLES
  table, key,  \* what the search in progress looks in, and for
  low, high,   \* the bounds of the bisection
  answer,      \* "searching", "unknown" or "known"
  found        \* the C index returned when the name is known

vars == << table, key, low, high, answer, found >>

Start(t, k) ==
  /\ table = t /\ key = k
  /\ low = 0 /\ high = Len(t)
  /\ answer = "searching" /\ found = 0

Init == \E t \in Tables, k \in Keys : Start(t, k)

Midpoint == low + (high - low) \div 2
diff     == table[Midpoint + 1] - key

(* Three slips in the round below. *)
ProbeSkipsBelow ==      \* high = i - 1, as if high were in the bounds
  /\ answer = "searching" /\ high > low /\ diff # 0
  /\ low'  = IF diff < 0 THEN Midpoint + 1 ELSE low
  /\ high' = IF diff < 0 THEN high ELSE Midpoint - 1
  /\ UNCHANGED << table, key, answer, found >>

ProbeStays ==           \* low = i
  /\ answer = "searching" /\ high > low /\ diff # 0
  /\ low'  = IF diff < 0 THEN Midpoint ELSE low
  /\ high' = IF diff < 0 THEN high ELSE Midpoint
  /\ UNCHANGED << table, key, answer, found >>

ProbeReturnsBound ==    \* the upper bound is returned, not the index
  /\ answer = "searching" /\ high > low /\ diff = 0
  /\ answer' = "known" /\ found' = high
  /\ UNCHANGED << table, key, low, high >>

(* One round of the loop: a hit returns, a miss narrows the bounds. *)
Probe ==
  /\ answer = "searching" /\ high > low
  /\ \/ /\ diff = 0
        /\ answer' = "known" /\ found' = Midpoint
        /\ UNCHANGED << low, high >>
     \/ /\ diff < 0
        /\ low' = Midpoint + 1
        /\ UNCHANGED << high, answer, found >>
     \/ /\ diff > 0
        /\ high' = Midpoint
        /\ UNCHANGED << low, answer, found >>
  /\ UNCHANGED << table, key >>

(* The bounds have met: the name is reported unknown. *)
GiveUp ==
  /\ answer = "searching" /\ ~ (high > low)
  /\ answer' = "unknown"
  /\ UNCHANGED << table, key, low, high, found >>

Next == Probe \/ GiveUp

(* A search is a loop inside one call: once begun it runs to its end. *)
Spec == Init /\ [][Next]_vars /\ WF_vars(Next)

-----------------------------------------------------------------------------
TypeOK ==
  /\ table \in Tables /\ key \in Keys
  /\ low \in 0 .. Len(table) /\ high \in 0 .. Len(table)
  /\ low <= high
  /\ answer \in { "searching", "unknown", "known" } /\ found \in Nat

InOrder(t) == \A i, j \in DOMAIN t : i < j => t[i] < t[j]
Holds(t, k) == \E i \in DOMAIN t : t[i] = k

(***************************************************************************)
(* A table that is in order, as SGML.h demands of every table of a DTD, is *)
(* searched exactly: a name it holds is never reported unknown.            *)
(***************************************************************************)
KnownNamesAreFound ==
  InOrder(table) /\ answer = "unknown" => ~ Holds(table, key)

(* Entry i comes after all that are before it, and after none behind it. *)
InPlace(t, i) == \A j \in DOMAIN t \ { i } : j < i <=> t[j] < t[i]

(***************************************************************************)
(* Entries out of order hide themselves and what they are out of order     *)
(* with, and nothing else: a name that stands where it should among all    *)
(* the others is found, however these are ordered among themselves.        *)
(***************************************************************************)
EntriesInPlaceAreFound ==
  answer = "unknown" =>
    \A i \in DOMAIN table : table[i] = key => ~ InPlace(table, i)

(* In a table in any order, what a search returns is the name looked for: *)
(* an element or attribute is never mistaken for another.                 *)
FoundNameIsTheKey ==
  answer = "known" => found < Len(table) /\ table[found + 1] = key

(* Every lookup ends, whatever the order of the table: the bounds close in. *)
EveryLookupEnds == answer = "searching" ~> answer # "searching"

=============================================================================
