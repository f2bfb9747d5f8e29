-------------------------------- MODULE Browsing --------------------------------
(***************************************************************************)
(* What browsing promises: a trail of the anchors visited, the first one   *)
(* first.  One goes back along it, returns to any of its places, which     *)
(* makes it longer, and, where a link led to the last place, takes another *)
(* link of the same document instead.  Documents get links all the time.   *)
(***************************************************************************)
EXTENDS Integers, Sequences

CONSTANTS
  Documents,
  Offsets,     \* how far one goes sideways
  Numbers,     \* the places one asks for
  NULL         \* no anchor

VARIABLES
  trail,   \* the anchors visited
  links,   \* of each document, where its links lead, the first one first
  shown    \* the last call that an anchor was shown for, and the anchor

Anchor(document, link) == [ parent |-> document, child |-> link ]

Anchors == { Anchor(d, 0) : d \in Documents } \cup
           UNION { { Anchor(d, n) : n \in DOMAIN links[d] } : d \in Documents }

Answer(call, number, anchor) == [ call |-> call, number |-> number, anchor |-> anchor ]

Latest(t) == IF t = << >> THEN NULL ELSE t[Len(t)]
But(t, n) == SubSeq(t, 1, Len(t) - n)

Init ==
  /\ trail = << >> /\ shown = Answer("none", 0, NULL)
  /\ links = [ d \in Documents |-> << >> ]

Link ==
  /\ \E d \in Documents, to \in Anchors \cup { NULL } :
       links' = [ links EXCEPT ![d] = Append(@, to) ]
  /\ UNCHANGED << trail, shown >>

Visit ==
  /\ \E a \in Anchors : trail' = Append(trail, a)
  /\ UNCHANGED << links, shown >>

(* Leaving a document by a link, one has been at that link. *)
Leave ==
  /\ trail # << >>
  /\ \E a \in Anchors :
       a.parent = Latest(trail).parent /\ trail' = Append(But(trail, 1), a)
  /\ UNCHANGED << links, shown >>

(* One never goes back from the first place. *)
Back ==
  /\ trail' = IF Len(trail) > 1 THEN But(trail, 1) ELSE trail
  /\ shown' = Answer("back", 0, Latest(trail'))
  /\ UNCHANGED links

Return(n) ==
  LET place == IF n \in DOMAIN trail THEN trail[n] ELSE NULL
  IN  /\ shown' = Answer("return", n, place)
      /\ trail' = IF place \in { NULL, Latest(trail) } THEN trail ELSE Append(trail, place)
      /\ UNCHANGED links

(* The place before the last is a link: the one that many links further is *)
(* taken for it, if it is there and leads somewhere.                       *)
Sideways(offset) ==
  LET before == Latest(But(trail, 1))
      other  == before.child + offset
      there  == /\ Len(trail) > 1 /\ before.child > 0
                /\ other \in DOMAIN links[before.parent]
      to     == IF there THEN links[before.parent][other] ELSE NULL
  IN  /\ shown' = Answer("sideways", offset, to)
      /\ trail' = IF to = NULL THEN trail
                  ELSE But(trail, 2) \o << Anchor(before.parent, other), to >>
      /\ UNCHANGED links

Next ==
  \/ Link \/ Visit \/ Leave \/ Back
  \/ \E n \in Numbers : Return(n)
  \/ \E offset \in Offsets : Sideways(offset)

Spec == Init /\ [][Next]_<< trail, links, shown >>

=============================================================================
