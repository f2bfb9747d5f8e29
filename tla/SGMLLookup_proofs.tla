--------------------------- MODULE SGMLLookup_proofs ---------------------------
(***************************************************************************)
(* The bisection of SGML.c is right for every table in order and sound for *)
(* every table, whatever its length.                                       *)
(***************************************************************************)
EXTENDS SGMLLookup, TLAPS

(* Type correctness of the search: the bounds stay inside the table and do *)
(* not cross.                                                              *)
THEOREM LookupTypeOK == Spec => []TypeOK
<1> USE LookupAssumption
<1>1. Init => TypeOK
  BY DEF Init, Start, TypeOK
<1>2. TypeOK /\ [Next]_vars => TypeOK'
  <2> SUFFICES ASSUME TypeOK, [Next]_vars PROVE TypeOK'
    OBVIOUS
  <2>0. Len(table) \in Nat
    BY DEF TypeOK
  <2>1. CASE Probe
    <3>1. high > low => Midpoint \in low .. high - 1
      BY <2>0 DEF TypeOK, Midpoint
    <3>2. QED
      BY <2>0, <2>1, <3>1 DEF Probe, TypeOK
  <2>2. CASE GiveUp
    BY <2>2 DEF GiveUp, TypeOK
  <2>3. CASE UNCHANGED vars
    BY <2>3 DEF vars, TypeOK
  <2>4. QED
    BY <2>1, <2>2, <2>3 DEF Next
<1>3. QED
  BY <1>1, <1>2, PTL DEF Spec

-----------------------------------------------------------------------------
(* While it goes on, an entry that is in place and has the name looked for *)
(* is between the bounds; this is why meeting bounds mean there is none.   *)
KeyIsBetweenBounds ==
  \A i \in DOMAIN table :
    table[i] = key /\ InPlace(table, i) => low < i /\ i <= high

Inv ==
  /\ KeyIsBetweenBounds
  /\ EntriesInPlaceAreFound
  /\ FoundNameIsTheKey

LEMMA InitInv == Init => Inv
BY LookupAssumption
   DEF Init, Start, Inv, KeyIsBetweenBounds, EntriesInPlaceAreFound,
       FoundNameIsTheKey

(* A probe that misses discards only entries on the wrong side of the key. *)
LEMMA ProbeInv == TypeOK /\ Inv /\ Probe => Inv'
<1> SUFFICES ASSUME TypeOK, Inv, Probe PROVE Inv'
  OBVIOUS
<1> USE LookupAssumption
<1>1. /\ table \in Seq(Nat) /\ key \in Nat
      /\ DOMAIN table = 1 .. Len(table) /\ Len(table) \in Nat
  BY DEF TypeOK
<1>2. Midpoint \in low .. high - 1 /\ Midpoint + 1 \in DOMAIN table
  BY <1>1 DEF TypeOK, Probe, Midpoint
<1>3. table[Midpoint + 1] \in Nat /\ diff = table[Midpoint + 1] - key
  BY <1>1, <1>2 DEF diff
<1>4. CASE diff = 0
  <2>1. table[Midpoint + 1] = key
    BY <1>1, <1>3, <1>4
  <2>2. answer' = "known" /\ found' = Midpoint
        /\ UNCHANGED << low, high, table, key >>
    BY <1>3, <1>4 DEF Probe
  <2>3. QED
    BY <1>1, <1>2, <2>1, <2>2
       DEF Inv, KeyIsBetweenBounds, EntriesInPlaceAreFound, FoundNameIsTheKey
<1>5. CASE diff < 0
  <2>1. low' = Midpoint + 1 /\ UNCHANGED << high, answer, found, table, key >>
    BY <1>1, <1>3, <1>5 DEF Probe
  <2>2. ASSUME NEW i \in DOMAIN table, table[i] = key, InPlace(table, i)
        PROVE  i > Midpoint + 1
    <3>1. Midpoint + 1 \in Nat /\ i \in Nat
      BY <1>1, <1>2
    <3>2. table[Midpoint + 1] < key /\ i # Midpoint + 1
      BY <1>1, <1>3, <1>5, <2>2
    <3>3. Midpoint + 1 < i
      BY <1>2, <2>2, <3>2 DEF InPlace
    <3>4. QED
      BY <3>1, <3>3
  <2>3. KeyIsBetweenBounds'
    BY <1>1, <1>2, <2>1, <2>2 DEF Inv, KeyIsBetweenBounds, TypeOK, InPlace
  <2>4. QED
    BY <2>1, <2>3 DEF Inv, EntriesInPlaceAreFound, FoundNameIsTheKey, Probe
<1>6. CASE diff > 0
  <2>1. high' = Midpoint /\ UNCHANGED << low, answer, found, table, key >>
    BY <1>1, <1>3, <1>6 DEF Probe
  <2>2. ASSUME NEW i \in DOMAIN table, table[i] = key, InPlace(table, i)
        PROVE  i <= Midpoint
    <3>1. Midpoint + 1 \in Nat /\ i \in Nat
      BY <1>1, <1>2
    <3>2. ~ (table[Midpoint + 1] < key) /\ i # Midpoint + 1
      BY <1>1, <1>3, <1>6, <2>2
    <3>3. ~ (Midpoint + 1 < i)
      BY <1>2, <2>2, <3>2 DEF InPlace
    <3>4. QED
      BY <1>2, <3>1, <3>2, <3>3 DEF TypeOK
  <2>3. KeyIsBetweenBounds'
    BY <1>1, <1>2, <2>1, <2>2 DEF Inv, KeyIsBetweenBounds, TypeOK, InPlace
  <2>4. QED
    BY <2>1, <2>3 DEF Inv, EntriesInPlaceAreFound, FoundNameIsTheKey, Probe
<1>7. QED
  BY <1>4, <1>5, <1>6 DEF Probe

LEMMA GiveUpInv == TypeOK /\ Inv /\ GiveUp => Inv'
BY LookupAssumption
   DEF TypeOK, Inv, GiveUp, KeyIsBetweenBounds, EntriesInPlaceAreFound,
       FoundNameIsTheKey

LEMMA LookupInv == Spec => []Inv
<1>1. Inv /\ UNCHANGED vars => Inv'
  BY DEF vars, Inv, KeyIsBetweenBounds, EntriesInPlaceAreFound, FoundNameIsTheKey,
         InPlace
<1>2. QED
  BY InitInv, ProbeInv, GiveUpInv, LookupTypeOK, <1>1, PTL DEF Spec, Next

(* In a table of any length, a name that stands where it should among all  *)
(* the others is never reported unknown, in whatever order these are: an   *)
(* element out of its place hides itself and what it is out of order with. *)
THEOREM EntriesInPlaceAreAlwaysFound == Spec => []EntriesInPlaceAreFound
BY LookupInv, PTL DEF Inv

(* In a table of any length that is in order, a name the table holds is    *)
(* never reported unknown: find_tag and its siblings are exact there.      *)
THEOREM KnownNamesAreAlwaysFound == Spec => []KnownNamesAreFound
<1>1. TypeOK /\ Inv => KnownNamesAreFound
  <2> SUFFICES ASSUME TypeOK, Inv, InOrder(table), answer = "unknown",
                      NEW i \in DOMAIN table, table[i] = key
               PROVE  FALSE
    BY DEF KnownNamesAreFound, Holds
  <2>1. table \in Seq(Nat) /\ DOMAIN table \subseteq Nat
    BY LookupAssumption DEF TypeOK
  <2>2. ASSUME NEW j \in DOMAIN table \ { i }
        PROVE  j < i <=> table[j] < table[i]
    <3>1. i \in Nat /\ j \in Nat /\ table[i] \in Nat /\ table[j] \in Nat
      BY <2>1
    <3>2. j < i \/ i < j
      BY <2>2, <3>1
    <3>3. QED
      BY <3>1, <3>2 DEF InOrder
  <2>3. QED
    BY <2>2 DEF Inv, EntriesInPlaceAreFound, InPlace
<1>2. QED
  BY LookupInv, LookupTypeOK, <1>1, PTL

(* Whatever the order of the table, what the search returns is the entry   *)
(* looked for: no element or attribute is taken for another.               *)
THEOREM FoundNameIsAlwaysTheKey == Spec => []FoundNameIsTheKey
BY LookupInv, PTL DEF Inv

=============================================================================
