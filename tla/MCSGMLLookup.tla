----------------------------- MODULE MCSGMLLookup -----------------------------
(***************************************************************************)
(* SGMLLookup on the tables of HTMLDTD.c, and on every small table.        *)
(***************************************************************************)
EXTENDS SGMLLookup, HTMLDTD, FiniteSetsExt

(* Ranks are even, so that an odd number is the rank of an unknown name. *)
Rank(name) == 2 * CHOOSE i \in DOMAIN Alphabetical : Alphabetical[i] = name
Ranks(names) == [ i \in DOMAIN names |-> Rank(names[i]) ]

ElementTable    == { Ranks(tags) }
AttributeTables == { Ranks(attributes(t)) : t \in Elements }

(* Every table, in order or not, of at most MaxLen names out of MaxRank. *)
CONSTANTS MaxLen, MaxRank
SmallTables == UNION { [ 1 .. n -> 1 .. MaxRank ] : n \in 0 .. MaxLen }

MCTables == SmallTables \cup ElementTable \cup AttributeTables
MCKeys   == 0 .. Max({ 2 * Len(Alphabetical), MaxRank }) + 1

=============================================================================
