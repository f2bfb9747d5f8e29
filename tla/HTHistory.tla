------------------------------- MODULE HTHistory -------------------------------
(***************************************************************************)
(* The history of a client (HTHistory.c): a list of the anchors visited,   *)
(* the latest first.  The documents' links are lists of the same kind      *)
(* (HTAnchor.c): a new child comes before the older ones, so that its      *)
(* position in the list changes whenever another one is added.             *)
(***************************************************************************)
EXTENDS HTList, FiniteSets

CONSTANTS
  Documents,
  Offsets,      \* the distances that moveBy is called with
  MaxHistory,   \* anchors in the history
  MaxLinks      \* links of all documents

(* An object is a pointer, no object is none that points to an anchor.     *)
ASSUME HistoryAssumption ==
  /\ NULL \notin [ parent : Documents, child : Nat ]
  /\ Offsets \subseteq Int /\ MaxHistory \in Nat

VARIABLES
  history,   \* the list of anchors
  children,  \* of each document, the list of its links
  mainLink,  \* of each link, the anchor it leads to
  returned   \* the last call for an anchor, and the anchor returned

browsing == << history, children, mainLink, returned >>

Anchor(document, child) == [ parent |-> document, child |-> child ]
Answer(call, number, anchor) == [ call |-> call, number |-> number, anchor |-> anchor ]
IsChild(anchor) == anchor.child # 0

Anchors == { Anchor(d, 0) : d \in Documents } \cup DOMAIN mainLink

HistoryInit ==
  /\ history = << >> /\ returned = Answer("none", 0, NULL)
  /\ children = [ d \in Documents |-> << >> ]
  /\ mainLink = << >>

(* HTAnchor: a new link, which leads somewhere or not. *)
AddLink ==
  /\ \E d \in Documents, dest \in Anchors \cup { NULL } :
       LET child == Anchor(d, HTList_count(children[d]) + 1)
       IN  /\ Cardinality(DOMAIN mainLink) < MaxLinks
           /\ children' = [ children EXCEPT ![d] = HTList_addObject(@, child) ]
           /\ mainLink' = [ a \in DOMAIN mainLink \cup { child } |->
                              IF a = child THEN dest ELSE mainLink[a] ]
  /\ UNCHANGED << history, returned >>

HTHistory_record(destination) ==
  /\ HTList_count(history) < MaxHistory
  /\ history' = HTList_addObject(history, destination)
  /\ UNCHANGED << children, mainLink, returned >>

HTHistory_canBacktrack == HTList_objectAt(history, 1) # NULL

HTHistory_backtrack ==
  /\ history' = IF HTHistory_canBacktrack THEN HTList_removeLastObject(history)
                ELSE history
  /\ returned' = Answer("back", 0, HTList_lastObject(history'))
  /\ UNCHANGED << children, mainLink >>

NextOne_older(last, offset) ==
  LET kids == children[last.parent]
  IN  HTList_objectAt(kids, HTList_indexOf(kids, last) + offset)

(* The link that many places from the one taken to get here. *)
NextOne(last, offset) ==
  LET kids == children[last.parent]
  IN  HTList_objectAt(kids, HTList_indexOf(kids, last) - offset)

HTHistory_moveBy(offset) ==
  LET last    == HTList_objectAt(history, 1)
      nextOne == IF last # NULL /\ IsChild(last) THEN NextOne(last, offset) ELSE NULL
      to      == IF nextOne = NULL THEN NULL ELSE mainLink[nextOne]
      rest    == HTList_removeLastObject(HTList_removeLastObject(history))
  IN  /\ history' = IF to = NULL THEN history
                    ELSE HTList_addObject(HTList_addObject(rest, nextOne), to)
      /\ returned' = Answer("sideways", offset, to)
      /\ UNCHANGED << children, mainLink >>

HTHistory_read(number) == HTList_objectAt(history, HTList_count(history) - number)

HTHistory_recall(number) ==
  LET destination == HTHistory_read(number)
      again == destination \notin { NULL, HTList_lastObject(history) }
  IN  /\ again => HTList_count(history) < MaxHistory
      /\ history' = IF again THEN HTList_addObject(history, destination) ELSE history
      /\ returned' = Answer("return", number, destination)
      /\ UNCHANGED << children, mainLink >>

(* Of an anchor of the document that is left: no client leaves from none.  *)
HTHistory_leavingFrom(anchor) ==
  /\ HTList_lastObject(history) # NULL
  /\ HTList_lastObject(history).parent = anchor.parent
  /\ history' = HTList_addObject(HTList_removeLastObject(history), anchor)
  /\ UNCHANGED << children, mainLink, returned >>

Numbers == 0 .. MaxHistory + 1

HistoryNext ==
  \/ AddLink \/ HTHistory_backtrack
  \/ \E anchor \in Anchors : HTHistory_record(anchor) \/ HTHistory_leavingFrom(anchor)
  \/ \E number \in Numbers : HTHistory_recall(number)
  \/ \E offset \in Offsets : HTHistory_moveBy(offset)

----------------------------------------------------------------------------

(* The trail is the history from its other end, and so are the links. *)
OldestFirst(list) == [ i \in DOMAIN list |-> list[Len(list) + 1 - i] ]

Trail == INSTANCE Browsing WITH
  trail <- OldestFirst(history),
  links <- [ d \in Documents |->
               [ i \in DOMAIN children[d] |-> mainLink[OldestFirst(children[d])[i]] ] ],
  shown <- returned

(* HTHistory: the list of anchors is a trail that one goes back along,     *)
(* returns to the places of and goes sideways from, whatever the order of  *)
(* the calls and of the links that documents get meanwhile.                *)
HistoryIsATrail == Trail!Spec

=============================================================================
