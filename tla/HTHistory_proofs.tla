--------------------------- MODULE HTHistory_proofs ----------------------------
(***************************************************************************)
(* For any documents, however long the history and however many the links: *)
(* the list of HTHistory.c implements the trail of Browsing.               *)
(*                                                                         *)
(* The list is the trail read from its other end, and so are the lists of  *)
(* links.  The lemmas tell what the operations on a list do to it when it  *)
(* is read that way; the invariant tells that a document's links are       *)
(* numbered from the end of their list and that the history holds anchors. *)
(***************************************************************************)
EXTENDS HTHistory, SequenceTheorems, TLAPS

(* The history by itself; in Client it is one of the parts. *)
HistorySpec == HistoryInit /\ [][HistoryNext]_browsing

AnchorSet == [ parent : Documents, child : Nat ]

LEMMA OldestFirstType ==
  ASSUME NEW S, NEW list \in Seq(S)
  PROVE  /\ OldestFirst(list) \in Seq(S)
         /\ Len(OldestFirst(list)) = Len(list)
         /\ \A i \in 1 .. Len(list) : OldestFirst(list)[i] = list[Len(list) + 1 - i]
<1>1. Len(list) \in Nat /\ DOMAIN list = 1 .. Len(list)
  BY LenProperties
<1>2. \A i \in 1 .. Len(list) : list[Len(list) + 1 - i] \in S
  BY <1>1, ElementOfSeq
<1>3. OldestFirst(list) \in [ 1 .. Len(list) -> S ]
  BY <1>1, <1>2 DEF OldestFirst
<1>4. OldestFirst(list) \in Seq(S)
  BY <1>1, <1>3, SeqDef
<1>5. DOMAIN OldestFirst(list) = 1 .. Len(OldestFirst(list)) /\ Len(OldestFirst(list)) \in Nat
  BY <1>4, LenProperties
<1>6. Len(OldestFirst(list)) = Len(list)
  BY <1>1, <1>3, <1>5
<1>7. QED
  BY <1>1, <1>4, <1>6 DEF OldestFirst

LEMMA OldestFirstOfAdded ==
  ASSUME NEW S, NEW list \in Seq(S), NEW e \in S
  PROVE  /\ HTList_addObject(list, e) \in Seq(S)
         /\ Len(HTList_addObject(list, e)) = Len(list) + 1
         /\ OldestFirst(HTList_addObject(list, e)) = Append(OldestFirst(list), e)
<1> DEFINE longer   == HTList_addObject(list, e)
           appended == Append(OldestFirst(list), e)
<1>1. Len(list) \in Nat
  BY LenProperties
<1>2. /\ longer \in Seq(S) /\ Len(longer) = Len(list) + 1
      /\ \A i \in 1 .. Len(list) + 1 : longer[i] = IF i = 1 THEN e ELSE list[i - 1]
  BY DEF HTList_addObject
<1>3. /\ appended \in Seq(S)
      /\ Len(appended) = Len(list) + 1
      /\ \A i \in 1 .. Len(list) + 1 :
           appended[i] = IF i = Len(list) + 1 THEN e ELSE list[Len(list) + 1 - i]
  BY OldestFirstType
<1> HIDE DEF longer, appended
<1>4. /\ OldestFirst(longer) \in Seq(S) /\ Len(OldestFirst(longer)) = Len(list) + 1
      /\ \A i \in 1 .. Len(list) + 1 : OldestFirst(longer)[i] = longer[Len(list) + 1 + 1 - i]
  BY <1>2, OldestFirstType
<1>5. ASSUME NEW i \in 1 .. Len(list) + 1
      PROVE  OldestFirst(longer)[i] = appended[i]
  <2>1. Len(list) + 1 + 1 - i \in 1 .. Len(list) + 1
    BY <1>1
  <2>2. OldestFirst(longer)[i] = IF Len(list) + 1 + 1 - i = 1 THEN e
                                 ELSE list[Len(list) + 1 + 1 - i - 1]
    BY <1>2, <1>4, <2>1
  <2>3. Len(list) + 1 + 1 - i - 1 = Len(list) + 1 - i /\
        (Len(list) + 1 + 1 - i = 1 <=> i = Len(list) + 1)
    BY <1>1
  <2>4. QED
    BY <1>3, <2>2, <2>3
<1>6. OldestFirst(longer) = appended
  BY <1>2, <1>3, <1>4, <1>5, SeqEqual
<1>7. QED
  BY <1>2, <1>6 DEF longer, appended

LEMMA OldestFirstOfRemoved ==
  ASSUME NEW S, NEW list \in Seq(S)
  PROVE  /\ HTList_removeLastObject(list) \in Seq(S)
         /\ Len(HTList_removeLastObject(list)) = IF list = << >> THEN 0 ELSE Len(list) - 1
         /\ OldestFirst(HTList_removeLastObject(list)) = Trail!But(OldestFirst(list), 1)
<1> DEFINE shorter == HTList_removeLastObject(list)
           t == OldestFirst(list)
<1>1. t \in Seq(S) /\ Len(t) = Len(list) /\ Len(list) \in Nat
  BY OldestFirstType
<1>2. CASE list = << >>
  <2>1. shorter = << >> /\ shorter \in Seq(S) /\ Len(shorter) = 0
    BY <1>2 DEF HTList_removeLastObject
  <2>2. OldestFirst(shorter) \in Seq(S) /\ Len(OldestFirst(shorter)) = 0
    BY <2>1, OldestFirstType
  <2>3. OldestFirst(shorter) = << >>
    BY <2>2, EmptySeq
  <2>4. SubSeq(t, 1, Len(t) - 1) = << >>
    BY <1>1, <1>2, SubSeqEmpty
  <2>5. QED
    BY <1>2, <2>1, <2>3, <2>4 DEF Trail!But
<1>3. CASE list # << >>
  <2>1. /\ shorter \in Seq(S) /\ Len(shorter) = Len(list) - 1 /\ Len(list) > 0
        /\ \A i \in 1 .. Len(list) - 1 : shorter[i] = list[i + 1]
    BY <1>1, <1>3, EmptySeq DEF HTList_removeLastObject
  <2> HIDE DEF shorter
  <2>2. /\ OldestFirst(shorter) \in Seq(S) /\ Len(OldestFirst(shorter)) = Len(list) - 1
        /\ \A i \in 1 .. Len(list) - 1 : OldestFirst(shorter)[i] = shorter[Len(list) - 1 + 1 - i]
    BY <2>1, OldestFirstType
  <2>3. \A i \in 1 .. Len(list) : t[i] = list[Len(list) + 1 - i]
    BY OldestFirstType
  <2> HIDE DEF t
  <2>4. \A i \in 1 .. Len(t) - 1 : t[i] \in S
    BY <1>1
  <2>5. /\ SubSeq(t, 1, Len(t) - 1) \in Seq(S)
        /\ Len(SubSeq(t, 1, Len(t) - 1)) = Len(list) - 1
        /\ \A i \in 1 .. Len(list) - 1 : SubSeq(t, 1, Len(t) - 1)[i] = t[i]
    BY <1>1, <2>1, <2>4, SubSeqProperties
  <2>6. \A i \in 1 .. Len(list) - 1 : OldestFirst(shorter)[i] = SubSeq(t, 1, Len(t) - 1)[i]
    BY <1>1, <2>1, <2>2, <2>3, <2>5
  <2>7. OldestFirst(shorter) = SubSeq(t, 1, Len(t) - 1)
    BY <2>2, <2>5, <2>6, SeqEqual
  <2>8. QED
    BY <1>3, <2>1, <2>7 DEF Trail!But, shorter, t
<1>4. QED
  BY <1>2, <1>3

LEMMA ReadOldestFirst ==
  ASSUME NEW S, NEW list \in Seq(S)
  PROVE  /\ \A n \in Int : HTList_objectAt(list, Len(list) - n) =
                IF n \in 1 .. Len(list) THEN OldestFirst(list)[n] ELSE NULL
         /\ HTList_lastObject(list) = Trail!Latest(OldestFirst(list))
<1>1. Len(list) \in Nat /\ DOMAIN list = 1 .. Len(list)
  BY LenProperties
<1>2. /\ OldestFirst(list) \in Seq(S) /\ Len(OldestFirst(list)) = Len(list)
      /\ \A i \in 1 .. Len(list) : OldestFirst(list)[i] = list[Len(list) + 1 - i]
  BY OldestFirstType
<1>3. ASSUME NEW n \in Int
      PROVE  HTList_objectAt(list, Len(list) - n) =
               IF n \in 1 .. Len(list) THEN OldestFirst(list)[n] ELSE NULL
  <2>1. Len(list) - n + 1 = Len(list) + 1 - n
    BY <1>1
  <2>2. Len(list) + 1 - n \in 1 .. Len(list) <=> n \in 1 .. Len(list)
    BY <1>1
  <2>3. QED
    BY <1>1, <1>2, <2>1, <2>2 DEF HTList_objectAt
<1>4. HTList_lastObject(list) = HTList_objectAt(list, Len(list) - Len(list))
  BY <1>1 DEF HTList_lastObject
<1>5. HTList_lastObject(list) =
        IF Len(list) \in 1 .. Len(list) THEN OldestFirst(list)[Len(list)] ELSE NULL
  BY <1>1, <1>3, <1>4
<1>6. OldestFirst(list) = << >> <=> Len(list) = 0
  BY <1>1, <1>2, EmptySeq
<1>7. HTList_lastObject(list) = Trail!Latest(OldestFirst(list))
  BY <1>1, <1>2, <1>5, <1>6 DEF Trail!Latest
<1>8. QED
  BY <1>3, <1>7

-----------------------------------------------------------------------------
(* Links are numbered from the end of their document's list. *)
LinkSet(ch) == { a \in AnchorSet : a.child \in 1 .. Len(ch[a.parent]) }

Numbered(ch, ml) ==
  /\ ch \in [ Documents -> Seq(AnchorSet) ]
  /\ \A d \in Documents : \A i \in 1 .. Len(ch[d]) :
       ch[d][i] = Anchor(d, Len(ch[d]) + 1 - i)
  /\ ml = [ a \in LinkSet(ch) |-> ml[a] ]

Inv ==
  /\ Numbered(children, mainLink)
  /\ history \in Seq(Anchors)
  /\ \A a \in DOMAIN mainLink : mainLink[a] \in Anchors \cup { NULL }

(* The links in the order of the text, as the refinement maps them. *)
LinksOf(ch, ml) ==
  [ d \in Documents |-> [ i \in DOMAIN ch[d] |-> ml[OldestFirst(ch[d])[i]] ] ]

LEMMA KidsInOrder ==
  ASSUME NEW ch, NEW ml, Numbered(ch, ml), NEW d \in Documents
  PROVE  /\ ch[d] \in Seq(AnchorSet) /\ Len(ch[d]) \in Nat
         /\ DOMAIN ch[d] = 1 .. Len(ch[d])
         /\ \A i \in 1 .. Len(ch[d]) : OldestFirst(ch[d])[i] = Anchor(d, i)
<1>1. ch[d] \in Seq(AnchorSet)
  BY DEF Numbered
<1>2. Len(ch[d]) \in Nat /\ DOMAIN ch[d] = 1 .. Len(ch[d])
  BY <1>1, LenProperties
<1>3. ASSUME NEW i \in 1 .. Len(ch[d])
      PROVE  OldestFirst(ch[d])[i] = Anchor(d, i)
  <2>1. OldestFirst(ch[d])[i] = ch[d][Len(ch[d]) + 1 - i]
    BY <1>1, OldestFirstType
  <2>2. /\ Len(ch[d]) + 1 - i \in 1 .. Len(ch[d])
        /\ Len(ch[d]) + 1 - (Len(ch[d]) + 1 - i) = i
    BY <1>2
  <2>3. ch[d][Len(ch[d]) + 1 - i] = Anchor(d, Len(ch[d]) + 1 - (Len(ch[d]) + 1 - i))
    BY <2>2 DEF Numbered
  <2>4. QED
    BY <2>1, <2>2, <2>3
<1>4. QED
  BY <1>1, <1>2, <1>3

LEMMA LinksInOrder ==
  ASSUME NEW ch, NEW ml, Numbered(ch, ml)
  PROVE  LinksOf(ch, ml) =
           [ d \in Documents |-> [ i \in 1 .. Len(ch[d]) |-> ml[Anchor(d, i)] ] ]
BY KidsInOrder DEF LinksOf

(* Both specifications mean the same by an anchor. *)
LEMMA SameAnchors ==
  ASSUME Numbered(children, mainLink)
  PROVE  /\ Trail!Anchors = Anchors
         /\ Anchors \subseteq AnchorSet /\ NULL \notin Anchors
         /\ DOMAIN mainLink = LinkSet(children)
         /\ \A a \in Anchors : a.child = 0 \/ a \in LinkSet(children)
<1>1. \A d \in Documents : Len(children[d]) \in Nat
  BY LenProperties DEF Numbered
<1>2. DOMAIN mainLink = LinkSet(children)
  BY DEF Numbered
<1>3. Anchors \subseteq AnchorSet
  BY <1>2 DEF Anchors, Anchor, AnchorSet, LinkSet
<1>4. NULL \notin Anchors
  BY <1>3, HistoryAssumption DEF AnchorSet
<1>5. \A a \in Anchors : a.child = 0 \/ a \in LinkSet(children)
  BY <1>2 DEF Anchors, Anchor
<1>6. \A d \in Documents : DOMAIN LinksOf(children, mainLink)[d] = 1 .. Len(children[d])
  BY LinksInOrder
<1>7. LinkSet(children) =
        UNION { { Anchor(d, n) : n \in 1 .. Len(children[d]) } : d \in Documents }
  <2>1. ASSUME NEW a \in LinkSet(children)
        PROVE  \E d \in Documents : \E n \in 1 .. Len(children[d]) : a = Anchor(d, n)
    BY DEF LinkSet, AnchorSet, Anchor
  <2>2. ASSUME NEW d \in Documents, NEW n \in 1 .. Len(children[d])
        PROVE  Anchor(d, n) \in LinkSet(children)
    BY <1>1 DEF LinkSet, AnchorSet, Anchor
  <2>3. QED
    BY <2>1, <2>2
<1>8. Trail!Anchors = Anchors
  BY <1>2, <1>6, <1>7 DEF Trail!Anchors, Trail!Anchor, Anchors, Anchor, LinksOf
<1>9. QED
  BY <1>2, <1>3, <1>4, <1>5, <1>8

-----------------------------------------------------------------------------
LEMMA InitiallyInv ==
  ASSUME HistoryInit
  PROVE  Inv /\ Trail!Init
<1>1. \A d \in Documents : children[d] = << >> /\ Len(children[d]) = 0
  BY DEF HistoryInit
<1>2. children \in [ Documents -> Seq(AnchorSet) ]
  BY DEF HistoryInit
<1>3. LinkSet(children) = { }
  BY <1>1 DEF LinkSet, AnchorSet
<1>4. mainLink = [ a \in LinkSet(children) |-> mainLink[a] ] /\ DOMAIN mainLink = { }
  BY <1>3 DEF HistoryInit
<1>5. Numbered(children, mainLink)
  BY <1>1, <1>2, <1>4 DEF Numbered
<1>6. history \in Seq(Anchors)
  BY DEF HistoryInit
<1>7. Inv
  BY <1>4, <1>5, <1>6 DEF Inv
<1>8. OldestFirst(history) = << >>
  BY OldestFirstType, EmptySeq, <1>6 DEF HistoryInit
<1>9. LinksOf(children, mainLink) = [ d \in Documents |-> << >> ]
  <2>1. ASSUME NEW d \in Documents
        PROVE  [ i \in 1 .. Len(children[d]) |-> mainLink[Anchor(d, i)] ] = << >>
    BY <1>1
  <2>2. QED
    BY <1>5, <2>1, LinksInOrder
<1>10. QED
  BY <1>7, <1>8, <1>9 DEF Trail!Init, HistoryInit, LinksOf, Answer, Trail!Answer

(* Most calls leave the documents alone. *)
LEMMA SameDocuments ==
  ASSUME Inv, UNCHANGED << children, mainLink >>, history' \in Seq(Anchors)
  PROVE  /\ Inv'
         /\ LinksOf(children, mainLink)' = LinksOf(children, mainLink)
<1>1. Anchors' = Anchors
  BY DEF Anchors
<1>2. QED
  BY <1>1 DEF Inv, LinksOf

LEMMA RecordStep ==
  ASSUME Inv, NEW destination \in Anchors, HTHistory_record(destination)
  PROVE  Inv' /\ Trail!Visit
<1>1. /\ history' \in Seq(Anchors)
      /\ OldestFirst(history') = Append(OldestFirst(history), destination)
  BY OldestFirstOfAdded DEF HTHistory_record, Inv
<1>2. Inv' /\ LinksOf(children, mainLink)' = LinksOf(children, mainLink)
  BY <1>1, SameDocuments DEF HTHistory_record
<1>3. destination \in Trail!Anchors
  BY SameAnchors DEF Inv
<1>4. QED
  BY <1>1, <1>2, <1>3 DEF Trail!Visit, HTHistory_record, LinksOf

LEMMA LeaveStep ==
  ASSUME Inv, NEW anchor \in Anchors, HTHistory_leavingFrom(anchor)
  PROVE  Inv' /\ Trail!Leave
<1> DEFINE shorter == HTList_removeLastObject(history)
<1>1. history \in Seq(Anchors) /\ shorter \in Seq(Anchors)
  BY OldestFirstOfRemoved DEF Inv
<1>2. OldestFirst(shorter) = Trail!But(OldestFirst(history), 1)
  BY <1>1, OldestFirstOfRemoved
<1> HIDE DEF shorter
<1>3. history' = HTList_addObject(shorter, anchor)
  BY DEF HTHistory_leavingFrom, shorter
<1>4. /\ history' \in Seq(Anchors)
      /\ OldestFirst(history') = Append(Trail!But(OldestFirst(history), 1), anchor)
  BY <1>1, <1>2, <1>3, OldestFirstOfAdded
<1>5. Inv' /\ LinksOf(children, mainLink)' = LinksOf(children, mainLink)
  BY <1>4, SameDocuments DEF HTHistory_leavingFrom
<1>6. anchor \in Trail!Anchors
  BY SameAnchors DEF Inv
<1>7. HTList_lastObject(history) = Trail!Latest(OldestFirst(history))
  BY <1>1, ReadOldestFirst
<1>8. /\ OldestFirst(history) # << >>
      /\ anchor.parent = Trail!Latest(OldestFirst(history)).parent
  BY <1>7 DEF HTHistory_leavingFrom, Trail!Latest
<1>9. QED
  BY <1>4, <1>5, <1>6, <1>8 DEF Trail!Leave, HTHistory_leavingFrom, LinksOf

LEMMA BackStep ==
  ASSUME Inv, HTHistory_backtrack
  PROVE  Inv' /\ Trail!Back
<1> DEFINE t == OldestFirst(history)
<1>1. history \in Seq(Anchors) /\ NULL \notin Anchors
  BY SameAnchors DEF Inv
<1>2. Len(history) \in Nat /\ t \in Seq(Anchors) /\ Len(t) = Len(history)
  BY <1>1, OldestFirstType
<1> HIDE DEF t
<1>3. HTHistory_canBacktrack <=> Len(t) > 1
  <2>1. DOMAIN history = 1 .. Len(history)
    BY <1>1, LenProperties
  <2>2. HTList_objectAt(history, 1) = IF 2 \in DOMAIN history THEN history[2] ELSE NULL
    BY DEF HTList_objectAt
  <2>3. 2 \in DOMAIN history => history[2] # NULL
    BY <1>1, <2>1, ElementOfSeq
  <2>4. QED
    BY <1>2, <2>1, <2>2, <2>3 DEF HTHistory_canBacktrack
<1>4. /\ history' \in Seq(Anchors)
      /\ OldestFirst(history') = IF Len(t) > 1 THEN Trail!But(t, 1) ELSE t
  BY <1>1, <1>3, OldestFirstOfRemoved DEF HTHistory_backtrack, t
<1>5. HTList_lastObject(history') = Trail!Latest(OldestFirst(history'))
  BY <1>4, ReadOldestFirst
<1>6. Inv' /\ LinksOf(children, mainLink)' = LinksOf(children, mainLink)
  BY <1>4, SameDocuments DEF HTHistory_backtrack
<1>7. QED
  BY <1>4, <1>5, <1>6 DEF Trail!Back, HTHistory_backtrack, LinksOf, t, Answer, Trail!Answer

LEMMA RecallStep ==
  ASSUME Inv, NEW number \in Numbers, HTHistory_recall(number)
  PROVE  Inv' /\ Trail!Return(number)
<1> DEFINE t == OldestFirst(history)
           place == HTHistory_read(number)
<1>1. history \in Seq(Anchors) /\ NULL \notin Anchors
  BY SameAnchors DEF Inv
<1>2. Len(history) \in Nat /\ t \in Seq(Anchors) /\ Len(t) = Len(history)
  BY <1>1, OldestFirstType
<1>3. DOMAIN t = 1 .. Len(history)
  BY <1>2, LenProperties
<1>4. number \in Int
  BY HistoryAssumption DEF Numbers
<1>5. place = IF number \in DOMAIN t THEN t[number] ELSE NULL
  BY <1>1, <1>3, <1>4, ReadOldestFirst DEF HTHistory_read, HTList_count
<1>6. HTList_lastObject(history) = Trail!Latest(t)
  BY <1>1, ReadOldestFirst
<1> HIDE DEF t, place
<1>7. place # NULL => place \in Anchors
  BY <1>2, <1>3, <1>5, ElementOfSeq
<1>8. history' = IF place \in { NULL, Trail!Latest(t) } THEN history
                 ELSE HTList_addObject(history, place)
  BY <1>6 DEF HTHistory_recall, place
<1>9. /\ history' \in Seq(Anchors)
      /\ OldestFirst(history') =
           IF place \in { NULL, Trail!Latest(t) } THEN t ELSE Append(t, place)
  BY <1>1, <1>7, <1>8, OldestFirstOfAdded DEF t
<1>10. Inv' /\ LinksOf(children, mainLink)' = LinksOf(children, mainLink)
  BY <1>9, SameDocuments DEF HTHistory_recall
<1>11. returned' = Answer("return", number, place)
  BY DEF HTHistory_recall, place
<1>12. QED
  BY <1>5, <1>9, <1>10, <1>11 DEF Trail!Return, LinksOf, t, Answer, Trail!Answer

(* A new link gets the next number, and all others keep theirs. *)
LEMMA LinkStep ==
  ASSUME Inv, AddLink
  PROVE  Inv' /\ Trail!Link
<1>1. PICK d \in Documents, dest \in Anchors \cup { NULL } :
        LET child == Anchor(d, Len(children[d]) + 1)
        IN  /\ children' = [ children EXCEPT ![d] = HTList_addObject(@, child) ]
            /\ mainLink' = [ a \in DOMAIN mainLink \cup { child } |->
                               IF a = child THEN dest ELSE mainLink[a] ]
  BY DEF AddLink, HTList_count
<1> DEFINE n     == Len(children[d])
           child == Anchor(d, n + 1)
<1>2. /\ children \in [ Documents -> Seq(AnchorSet) ] /\ n \in Nat
      /\ \A e \in Documents : Len(children[e]) \in Nat
  BY LenProperties DEF Inv, Numbered
<1>3. child \in AnchorSet /\ child.parent = d /\ child.child = n + 1
  BY <1>2 DEF AnchorSet, Anchor
<1>4. /\ DOMAIN mainLink = LinkSet(children) /\ Anchors \subseteq AnchorSet
      /\ Trail!Anchors = Anchors
  BY SameAnchors DEF Inv
<1>5. child \notin DOMAIN mainLink
  BY <1>2, <1>3, <1>4 DEF LinkSet
<1>6. /\ children'[d] \in Seq(AnchorSet) /\ Len(children'[d]) = n + 1
      /\ \A i \in 1 .. n + 1 :
           children'[d][i] = IF i = 1 THEN child ELSE children[d][i - 1]
  BY <1>1, <1>2, <1>3 DEF HTList_addObject
<1> HIDE DEF n, child
<1>7. \A e \in Documents \ { d } : children'[e] = children[e]
  BY <1>1
<1>8. children' \in [ Documents -> Seq(AnchorSet) ]
  BY <1>1, <1>2, <1>6, <1>7 DEF n
<1>9. LinkSet(children') = LinkSet(children) \cup { child }
  <2>1. ASSUME NEW a \in AnchorSet, a.parent # d
        PROVE  a \in LinkSet(children') <=> a \in LinkSet(children)
    BY <1>7, <2>1 DEF LinkSet, AnchorSet
  <2>2. ASSUME NEW a \in AnchorSet, a.parent = d
        PROVE  a \in LinkSet(children') <=> a \in LinkSet(children) \/ a.child = n + 1
    BY <1>2, <1>6, <2>2 DEF LinkSet, AnchorSet, n
  <2>3. \A a \in AnchorSet : a = child <=> a.parent = d /\ a.child = n + 1
    BY <1>2, <1>3 DEF AnchorSet
  <2>4. LinkSet(children) \subseteq AnchorSet /\ LinkSet(children') \subseteq AnchorSet
    BY DEF LinkSet
  <2>5. child \notin LinkSet(children)
    BY <1>4, <1>5
  <2>6. QED
    BY <1>3, <2>1, <2>2, <2>3, <2>4, <2>5
<1>10. mainLink' = [ a \in LinkSet(children) \cup { child } |->
                       IF a = child THEN dest ELSE mainLink[a] ]
  BY <1>1, <1>4 DEF child, n
<1>11. Numbered(children', mainLink')
  <2>1. ASSUME NEW i \in 1 .. Len(children'[d])
        PROVE  children'[d][i] = Anchor(d, Len(children'[d]) + 1 - i)
    <3>1. CASE i = 1
      BY <1>2, <1>6, <3>1 DEF child
    <3>2. CASE i # 1
      <4>1. i - 1 \in 1 .. n /\ n + 1 - (i - 1) = n + 1 + 1 - i /\ i \in 1 .. n + 1
        BY <1>2, <1>6, <3>2
      <4>2. children[d][i - 1] = Anchor(d, n + 1 - (i - 1))
        BY <4>1 DEF Inv, Numbered, n
      <4>3. QED
        BY <1>6, <3>2, <4>1, <4>2
    <3>3. QED
      BY <3>1, <3>2
  <2>2. ASSUME NEW e \in Documents \ { d }, NEW i \in 1 .. Len(children'[e])
        PROVE  children'[e][i] = Anchor(e, Len(children'[e]) + 1 - i)
    BY <1>7 DEF Inv, Numbered
  <2>3. QED
    BY <1>8, <1>9, <1>10, <2>1, <2>2 DEF Numbered
<1>12. Anchors' = Anchors \cup { child }
  BY <1>4, <1>10 DEF Anchors
<1>13. UNCHANGED << history, returned >>
  BY DEF AddLink
<1>14. history' \in Seq(Anchors')
  BY <1>12, <1>13, SeqMonotonic DEF Inv
<1>15. \A a \in DOMAIN mainLink' : mainLink'[a] \in Anchors' \cup { NULL }
  BY <1>4, <1>10, <1>12 DEF Inv
<1>16. Inv'
  BY <1>11, <1>14, <1>15 DEF Inv
<1>17. LinksOf(children', mainLink') =
         [ LinksOf(children, mainLink) EXCEPT ![d] = Append(@, dest) ]
  <2>1. /\ LinksOf(children, mainLink) =
              [ e \in Documents |-> [ i \in 1 .. Len(children[e]) |-> mainLink[Anchor(e, i)] ] ]
        /\ LinksOf(children', mainLink') =
              [ e \in Documents |-> [ i \in 1 .. Len(children'[e]) |-> mainLink'[Anchor(e, i)] ] ]
    BY <1>11, LinksInOrder DEF Inv
  <2>2. ASSUME NEW e \in Documents, NEW i \in 1 .. Len(children[e])
        PROVE  mainLink'[Anchor(e, i)] = mainLink[Anchor(e, i)]
    <3>1. Anchor(e, i) \in LinkSet(children)
      BY <1>2 DEF Anchor, LinkSet, AnchorSet
    <3>2. Anchor(e, i) # child
      BY <1>4, <1>5, <3>1
    <3>3. QED
      BY <1>10, <3>1, <3>2
  <2>3. mainLink'[child] = dest
    BY <1>10
  <2>4. ASSUME NEW e \in Documents \ { d }
        PROVE  LinksOf(children', mainLink')[e] = LinksOf(children, mainLink)[e]
    BY <1>7, <2>1, <2>2
  <2> DEFINE old == LinksOf(children, mainLink)[d]
             new == LinksOf(children', mainLink')[d]
  <2>5. /\ old \in Seq(Anchors \cup { NULL }) /\ Len(old) = n
        /\ \A i \in 1 .. n : old[i] = mainLink[Anchor(d, i)]
    <3>1. old = [ i \in 1 .. n |-> mainLink[Anchor(d, i)] ]
      BY <2>1 DEF n
    <3>2. ASSUME NEW i \in 1 .. n
          PROVE  mainLink[Anchor(d, i)] \in Anchors \cup { NULL }
      <4>1. Anchor(d, i) \in LinkSet(children)
        BY <1>2 DEF Anchor, LinkSet, AnchorSet, n
      <4>2. QED
        BY <1>4, <4>1 DEF Inv
    <3> HIDE DEF old
    <3>3. old \in [ 1 .. n -> Anchors \cup { NULL } ]
      BY <3>1, <3>2
    <3>4. old \in Seq(Anchors \cup { NULL })
      BY <1>2, <3>3, SeqDef
    <3>5. DOMAIN old = 1 .. Len(old) /\ Len(old) \in Nat
      BY <3>4, LenProperties
    <3>6. QED
      BY <1>2, <3>1, <3>3, <3>4, <3>5
  <2>6. new = [ i \in 1 .. n + 1 |-> mainLink'[Anchor(d, i)] ]
    BY <1>6, <2>1
  <2> HIDE DEF old, new
  <2>7. new = Append(old, dest)
    <3> DEFINE longer == Append(old, dest)
    <3>1. /\ longer \in Seq(Anchors \cup { NULL }) /\ Len(longer) = n + 1
          /\ \A i \in 1 .. n + 1 :
               longer[i] = IF i = n + 1 THEN dest ELSE old[i]
      BY <1>2, <2>5
    <3> HIDE DEF longer
    <3>2. DOMAIN longer = 1 .. n + 1
      BY <3>1, LenProperties
    <3>3. longer = [ i \in 1 .. n + 1 |-> longer[i] ]
      BY <3>1, <3>2, LenProperties
    <3>4. ASSUME NEW i \in 1 .. n + 1
          PROVE  longer[i] = mainLink'[Anchor(d, i)]
      <4>1. CASE i = n + 1
        BY <2>3, <3>1, <4>1 DEF child
      <4>2. CASE i # n + 1
        <5>1. i \in 1 .. n
          BY <1>2, <4>2
        <5>2. mainLink'[Anchor(d, i)] = mainLink[Anchor(d, i)]
          BY <2>2, <5>1 DEF n
        <5>3. QED
          BY <2>5, <3>1, <4>2, <5>1, <5>2
      <4>3. QED
        BY <4>1, <4>2
    <3>5. QED
      BY <2>6, <3>3, <3>4 DEF longer
  <2>8. QED
    BY <2>4, <2>7 DEF LinksOf, old, new
<1>18. QED
  BY <1>4, <1>13, <1>16, <1>17 DEF Trail!Link, LinksOf

LEMMA AllButTwo ==
  ASSUME NEW S, NEW t \in Seq(S), Len(t) > 1, NEW a \in S, NEW b \in S
  PROVE  Append(Append(Trail!But(Trail!But(t, 1), 1), a), b) = Trail!But(t, 2) \o << a, b >>
<1>1. Len(t) \in Nat
  BY LenProperties
<1>2. \A i \in 1 .. Len(t) : t[i] \in S
  BY ElementOfSeq
<1> DEFINE one == SubSeq(t, 1, Len(t) - 1)
           two == SubSeq(t, 1, Len(t) - 2)
<1>3. /\ one \in Seq(S) /\ Len(one) = Len(t) - 1
      /\ \A i \in 1 .. Len(t) - 1 : one[i] = t[i]
  BY <1>1, <1>2, SubSeqProperties
<1>4. /\ two \in Seq(S) /\ Len(two) = Len(t) - 2
      /\ \A i \in 1 .. Len(t) - 2 : two[i] = t[i]
  <2> DEFINE k == Len(t) - 2
  <2>1. k \in Nat /\ k <= Len(t)
    BY <1>1
  <2> HIDE DEF k
  <2>2. \A i \in 1 .. k : t[i] \in S
    BY <1>1, <1>2, <2>1
  <2>3. /\ SubSeq(t, 1, k) \in Seq(S) /\ Len(SubSeq(t, 1, k)) = k
        /\ \A i \in 1 .. k : SubSeq(t, 1, k)[i] = t[i]
    BY <2>1, <2>2, SubSeqProperties
  <2>4. QED
    BY <2>3 DEF k
<1> HIDE DEF one, two
<1>5. SubSeq(one, 1, Len(one) - 1) = two
  <2> DEFINE less == SubSeq(one, 1, Len(one) - 1)
  <2>1. \A i \in 1 .. Len(one) - 1 : one[i] \in S
    BY <1>1, <1>2, <1>3
  <2>2. /\ less \in Seq(S) /\ Len(less) = Len(t) - 2
        /\ \A i \in 1 .. Len(t) - 2 : less[i] = one[i]
    BY <1>1, <1>3, <2>1, SubSeqProperties
  <2> HIDE DEF less
  <2>3. \A i \in 1 .. Len(less) : less[i] = two[i]
    BY <1>1, <1>3, <1>4, <2>2
  <2>4. less = two
    BY <1>4, <2>2, <2>3, SeqEqual
  <2>5. QED
    BY <2>4 DEF less
<1>6. Append(Append(two, a), b) = two \o << a, b >>
  BY <1>4
<1>7. QED
  BY <1>5, <1>6 DEF Trail!But, one, two

(* The position of a link in its list, counted from the latest, and its    *)
(* number always add up to the length of the list.                         *)
LEMMA NextOneByNumber ==
  ASSUME Numbered(children, mainLink), NEW last \in LinkSet(children), NEW offset \in Int
  PROVE  NextOne(last, offset) =
           IF last.child + offset \in 1 .. Len(children[last.parent])
           THEN Anchor(last.parent, last.child + offset) ELSE NULL
<1> DEFINE d    == last.parent
           kids == children[d]
           n    == Len(kids)
           c    == last.child
<1>1. d \in Documents /\ c \in 1 .. n /\ last = Anchor(d, c)
  BY DEF LinkSet, AnchorSet, Anchor
<1>2. /\ kids \in Seq(AnchorSet) /\ n \in Nat /\ DOMAIN kids = 1 .. n
      /\ \A i \in 1 .. n : OldestFirst(kids)[i] = Anchor(d, i)
  BY <1>1, KidsInOrder
<1>3. \A i \in 1 .. n : kids[i] = Anchor(d, n + 1 - i)
  BY <1>1 DEF Numbered
<1> HIDE DEF d, kids, n, c
<1>4. { i \in DOMAIN kids : kids[i] = last } = { n + 1 - c }
  <2>1. ASSUME NEW i \in 1 .. n
        PROVE  kids[i] = last <=> n + 1 - i = c
    <3>1. kids[i] = Anchor(d, n + 1 - i) /\ last = Anchor(d, c)
      BY <1>1, <1>3
    <3>2. \A x, y : Anchor(d, x) = Anchor(d, y) <=> x = y
      BY DEF Anchor
    <3>3. QED
      BY <3>1, <3>2
  <2>2. \A i \in 1 .. n : n + 1 - i = c <=> i = n + 1 - c
    BY <1>1, <1>2
  <2>3. n + 1 - c \in 1 .. n
    BY <1>1, <1>2
  <2>4. QED
    BY <1>2, <2>1, <2>2, <2>3
<1>5. n + 1 - c \in Int
  BY <1>1, <1>2
<1>6. Min({ n + 1 - c }) = n + 1 - c
  BY <1>5 DEF Min
<1>7. HTList_indexOf(kids, last) = n + 1 - c - 1
  <2> DEFINE found == { i \in DOMAIN kids : kids[i] = last }
             k     == n + 1 - c
  <2>1. found = { k } /\ Min({ k }) = k
    BY <1>4, <1>6
  <2>2. HTList_indexOf(kids, last) = IF found = { } THEN -1 ELSE Min(found) - 1
    BY Zenon DEF HTList_indexOf
  <2> HIDE DEF found, k
  <2>3. HTList_indexOf(kids, last) = k - 1
    BY <2>1, <2>2
  <2>4. QED
    BY <1>1, <1>2, <2>3 DEF k
<1>8. HTList_indexOf(kids, last) - offset = n - (c + offset)
  BY <1>1, <1>2, <1>7
<1>9. c + offset \in Int
  BY <1>1, <1>2
<1>10. HTList_objectAt(kids, n - (c + offset)) =
         IF c + offset \in 1 .. n THEN OldestFirst(kids)[c + offset] ELSE NULL
  BY <1>2, <1>9, ReadOldestFirst DEF n
<1>11. QED
  BY <1>2, <1>8, <1>10 DEF NextOne, d, kids, n, c

LEMMA MoveStep ==
  ASSUME Inv, NEW offset \in Offsets, HTHistory_moveBy(offset)
  PROVE  Inv' /\ Trail!Sideways(offset)
<1> DEFINE t       == OldestFirst(history)
           one     == HTList_removeLastObject(history)
           last    == HTList_objectAt(history, 1)
           nextOne == IF last # NULL /\ IsChild(last) THEN NextOne(last, offset) ELSE NULL
           to      == IF nextOne = NULL THEN NULL ELSE mainLink[nextOne]
           rest    == HTList_removeLastObject(one)
           links   == LinksOf(children, mainLink)
<1>1. /\ history' = IF to = NULL THEN history
                    ELSE HTList_addObject(HTList_addObject(rest, nextOne), to)
      /\ returned' = Answer("sideways", offset, to)
      /\ UNCHANGED << children, mainLink >>
  BY DEF HTHistory_moveBy
<1>2. /\ history \in Seq(Anchors) /\ NULL \notin Anchors /\ Anchors \subseteq AnchorSet
      /\ DOMAIN mainLink = LinkSet(children)
      /\ \A a \in Anchors : a.child = 0 \/ a \in LinkSet(children)
  BY SameAnchors DEF Inv
<1>3. Len(history) \in Nat /\ t \in Seq(Anchors) /\ Len(t) = Len(history)
  BY <1>2, OldestFirstType
<1>4. /\ one \in Seq(Anchors) /\ OldestFirst(one) = Trail!But(t, 1)
      /\ rest \in Seq(Anchors) /\ OldestFirst(rest) = Trail!But(Trail!But(t, 1), 1)
  BY <1>2, OldestFirstOfRemoved
<1>5. last = IF Len(t) > 1 THEN history[2] ELSE NULL
  <2>1. DOMAIN history = 1 .. Len(history)
    BY <1>2, LenProperties
  <2>2. QED
    BY <1>3, <2>1 DEF HTList_objectAt
<1>6. last = Trail!Latest(Trail!But(t, 1))
  <2>1. HTList_lastObject(one) = Trail!Latest(Trail!But(t, 1))
    BY <1>4, ReadOldestFirst
  <2>2. DOMAIN history = 1 .. Len(history)
    BY <1>2, LenProperties
  <2>3. DOMAIN one = 1 .. Len(one) /\ Len(one) = IF history = << >> THEN 0 ELSE Len(history) - 1
    BY <1>2, <1>4, LenProperties, OldestFirstOfRemoved
  <2>4. history = << >> <=> Len(history) = 0
    BY <1>2, <1>3, EmptySeq
  <2>5. Len(history) > 1 => one[1] = history[2]
    BY <1>2, <1>3, <2>4 DEF HTList_removeLastObject
  <2> HIDE DEF one, last, t
  <2>6. HTList_lastObject(one) = IF 1 \in DOMAIN one THEN one[1] ELSE NULL
    BY DEF HTList_lastObject, HTList_objectAt
  <2>7. QED
    BY <1>3, <1>5, <2>1, <2>3, <2>4, <2>5, <2>6
<1>7. Len(t) > 1 => last \in Anchors
  BY <1>2, <1>3, <1>5, ElementOfSeq
<1>8. last # NULL <=> Len(t) > 1
  BY <1>2, <1>5, <1>7
<1> DEFINE other == last.child + offset
           there == /\ Len(t) > 1 /\ last.child > 0
                    /\ other \in DOMAIN links[last.parent]
<1> HIDE DEF one, rest, last, t, links
<1>9. /\ nextOne = IF there THEN Anchor(last.parent, other) ELSE NULL
      /\ to = IF there THEN links[last.parent][other] ELSE NULL
      /\ nextOne # NULL => nextOne \in Anchors
      /\ to \in Anchors \cup { NULL }
  <2>1. CASE Len(t) > 1 /\ last.child # 0
    <3>1. last \in LinkSet(children) /\ last.child \in Nat /\ last.parent \in Documents
      BY <1>2, <1>7, <2>1 DEF LinkSet, AnchorSet
    <3>2. offset \in Int
      BY HistoryAssumption
    <3>3. nextOne = IF other \in 1 .. Len(children[last.parent])
                    THEN Anchor(last.parent, other) ELSE NULL
      BY <1>8, <2>1, <3>1, <3>2, NextOneByNumber DEF Inv, IsChild
    <3>4. links[last.parent] =
            [ i \in 1 .. Len(children[last.parent]) |-> mainLink[Anchor(last.parent, i)] ]
      <4>1. links = [ d \in Documents |->
                       [ i \in 1 .. Len(children[d]) |-> mainLink[Anchor(d, i)] ] ]
        BY LinksInOrder DEF Inv, links
      <4>2. QED
        BY <3>1, <4>1
    <3>5. there <=> other \in 1 .. Len(children[last.parent])
      BY <2>1, <3>1, <3>4
    <3>6. Len(children[last.parent]) \in Nat
      BY <3>1, KidsInOrder DEF Inv
    <3>7. there => Anchor(last.parent, other) \in LinkSet(children)
      BY <3>1, <3>5, <3>6 DEF LinkSet, AnchorSet, Anchor
    <3>8. LinkSet(children) \subseteq Anchors
      BY <1>2 DEF Anchors
    <3>9. to = IF there THEN links[last.parent][other] ELSE NULL
      BY <1>2, <3>3, <3>4, <3>5, <3>7, <3>8
    <3>10. there => links[last.parent][other] \in Anchors \cup { NULL }
      BY <1>2, <3>4, <3>5, <3>7 DEF Inv
    <3> HIDE DEF there, other
    <3>11. QED
      BY <3>3, <3>5, <3>7, <3>8, <3>9, <3>10
  <2>2. CASE ~ (Len(t) > 1 /\ last.child # 0)
    <3>1. nextOne = NULL
      BY <1>8, <2>2 DEF IsChild
    <3>2. ~ there
      BY <2>2
    <3>3. QED
      BY <3>1, <3>2
  <2>3. QED
    BY <2>1, <2>2
<1> HIDE DEF nextOne, to
<1>10. to # NULL => nextOne # NULL /\ Len(t) > 1
  BY <1>9 DEF to
<1>11. /\ history' \in Seq(Anchors)
       /\ OldestFirst(history') =
            IF to = NULL THEN t ELSE Trail!But(t, 2) \o << Anchor(last.parent, other), to >>
  <2>1. CASE to = NULL
    BY <1>1, <1>2, <2>1 DEF t
  <2>2. CASE to # NULL
    <3>1. nextOne \in Anchors /\ to \in Anchors /\ nextOne = Anchor(last.parent, other)
      BY <1>9, <1>10, <2>2
    <3> DEFINE added == HTList_addObject(rest, nextOne)
    <3>2. /\ added \in Seq(Anchors)
          /\ OldestFirst(added) = Append(Trail!But(Trail!But(t, 1), 1), nextOne)
      BY <1>4, <3>1, OldestFirstOfAdded
    <3> HIDE DEF added
    <3>3. history' = HTList_addObject(added, to)
      BY <1>1, <2>2 DEF added
    <3>4. /\ history' \in Seq(Anchors)
          /\ OldestFirst(history') = Append(Append(Trail!But(Trail!But(t, 1), 1), nextOne), to)
      BY <3>1, <3>2, <3>3, OldestFirstOfAdded
    <3>5. OldestFirst(history') = Trail!But(t, 2) \o << nextOne, to >>
      BY <1>3, <1>10, <2>2, <3>1, <3>4, AllButTwo
    <3>6. QED
      BY <2>2, <3>1, <3>4, <3>5
  <2>3. QED
    BY <2>1, <2>2
<1>12. Inv' /\ LinksOf(children, mainLink)' = LinksOf(children, mainLink)
  BY <1>1, <1>11, SameDocuments
<1>13. /\ UNCHANGED LinksOf(children, mainLink)
       /\ returned' = Answer("sideways", offset, IF there THEN links[last.parent][other] ELSE NULL)
       /\ OldestFirst(history)' =
            IF (IF there THEN links[last.parent][other] ELSE NULL) = NULL THEN t
            ELSE Trail!But(t, 2) \o
                   << Anchor(last.parent, other),
                      IF there THEN links[last.parent][other] ELSE NULL >>
  BY <1>1, <1>9, <1>11, <1>12
<1>14. Trail!Sideways(offset)
  BY <1>6, <1>13
     DEF Trail!Sideways, Trail!Anchor, Anchor, LinksOf, links, t, Answer, Trail!Answer,
         there, other
<1>15. QED
  BY <1>12, <1>14

-----------------------------------------------------------------------------
LEMMA Step ==
  ASSUME Inv, [HistoryNext]_browsing
  PROVE  Inv' /\ [Trail!Next]_<< OldestFirst(history), LinksOf(children, mainLink), returned >>
<1>1. CASE AddLink
  BY <1>1, LinkStep DEF Trail!Next
<1>2. CASE HTHistory_backtrack
  BY <1>2, BackStep DEF Trail!Next
<1>3. CASE \E anchor \in Anchors : HTHistory_record(anchor)
  BY <1>3, RecordStep DEF Trail!Next
<1>4. CASE \E anchor \in Anchors : HTHistory_leavingFrom(anchor)
  BY <1>4, LeaveStep DEF Trail!Next
<1>5. CASE \E number \in Numbers : HTHistory_recall(number)
  BY <1>5, RecallStep DEF Trail!Next
<1>6. CASE \E offset \in Offsets : HTHistory_moveBy(offset)
  BY <1>6, MoveStep DEF Trail!Next
<1>7. CASE UNCHANGED browsing
  BY <1>7 DEF Inv, Anchors, LinksOf, browsing
<1>8. QED
  BY <1>1, <1>2, <1>3, <1>4, <1>5, <1>6, <1>7 DEF HistoryNext

(* HTHistory.c: whatever documents there are and whichever calls of the    *)
(* history and of HTAnchor follow one another, the list implements the     *)
(* trail of Browsing: it is gone back along, returned in and gone sideways *)
(* from as a user would expect, though everything is counted from the      *)
(* other end.                                                              *)
THEOREM HistoryImplementsTrail == HistorySpec => HistoryIsATrail
<1>1. HistoryInit => Inv /\ Trail!Init
  BY InitiallyInv
<1>2. Inv /\ [HistoryNext]_browsing => Inv'
  BY Step
<1>3. Inv /\ [HistoryNext]_browsing =>
        [Trail!Next]_<< OldestFirst(history), LinksOf(children, mainLink), returned >>
  BY Step
<1>4. QED
  BY <1>1, <1>2, <1>3, PTL DEF HistorySpec, HistoryIsATrail, Trail!Spec, LinksOf

=============================================================================
