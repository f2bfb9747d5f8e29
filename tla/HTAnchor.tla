------------------------------- MODULE HTAnchor -------------------------------
(***************************************************************************)
(* HTAnchor.c: the graph of documents (parent anchors, known by address)   *)
(* and the places in them that links start from or lead to (child          *)
(* anchors), with the deletion that collects what no link leads to.        *)
(*                                                                         *)
(* A pointer is a position of `heap', 0 the null pointer; no position is   *)
(* ever used twice, so that a pointer to freed memory is recognised.  The  *)
(* calls HTAnchor_delete and deleteLinks make on each other run one        *)
(* segment of code at a time on a stack of activations; the program ends   *)
(* when it uses freed memory or that stack is exhausted.                   *)
(***************************************************************************)
EXTENDS Integers, SequencesExt, Bags

CONSTANTS
  Addresses,    \* addresses of documents
  Tags,         \* names of places in a document, "" for none
  hash,         \* the hash table's entry for an address
  upper,        \* what is left of a name when case is ignored
  MaxAnchors,   \* bound: anchors ever made
  MaxLinks,     \* bound: links that exist
  MaxCalls      \* bound: activations the C stack has room for

ASSUME AnchorAssumption ==
  /\ "" \in Tags /\ Addresses \cap Tags = {}
  /\ hash \in [ Addresses -> Nat ]
  /\ Addresses \cup Tags \subseteq DOMAIN upper
  /\ { MaxAnchors, MaxLinks, MaxCalls } \subseteq Nat

VARIABLES
  heap,         \* the anchors ever made
  adult_table,  \* per hash value the parents, newest first
  calls,        \* activations of deletion routines, innermost first
  status,       \* "running", or what ended the program
  made,         \* history: the links made and not deleted since, as a bag of
                \* pairs of a source and a destination's parent
  orderly       \* history: what the deletion under way found was in order

vars == << heap, adult_table, calls, status, made, orderly >>

Null == 0
equivalent(s, t) == upper[s] = upper[t]

Anchor(parent, name) ==
  [ parent |-> parent, name |-> name,     \* the address, or a child's tag
    mainLink |-> Null, links |-> << >>,   \* destinations, newest first
    children |-> << >>, sources |-> << >>,
    document |-> FALSE, freed |-> FALSE ]

Init ==
  /\ heap = << >> /\ made = EmptyBag
  /\ adult_table = [ h \in Range(hash) |-> << >> ]
  /\ calls = << >> /\ status = "running" /\ orderly = TRUE

Live    == { a \in DOMAIN heap : ~ heap[a].freed }
Adults  == { a \in DOMAIN heap : heap[a].parent = a }
Parents == Live \cap Adults

Quiet == calls = << >> /\ status = "running"

Sum(f) == FoldFunction(+, 0, f)

(* How often a link is in a bag of links.                                  *)
Copies(bag, a, p) == IF << a, p >> \in DOMAIN bag THEN bag[<< a, p >>] ELSE 0

Destinations(h, a) ==
  IF h[a].mainLink = Null THEN << >> ELSE << h[a].mainLink >> \o h[a].links

(***************************************************************************)
(* No link is left from an earlier deletion; and of the documents that are *)
(* not loaded none refers to itself on any path, and none that refers to   *)
(* others is referred to more than once.                                   *)
(***************************************************************************)
Orderly ==
  LET linked(p, q) == Sum([ a \in { a \in Live : heap[a].parent = p }
                              |-> Copies(made, a, q) ])
      unloaded     == { p \in Parents : ~ heap[p].document }
  IN  /\ \A a \in Live :
           Len(Destinations(heap, a)) =
             Sum([ p \in Parents |-> Copies(made, a, p) ])
      /\ \E rank \in [ unloaded -> 1 .. Len(heap) ] :
           \A p, q \in unloaded : linked(p, q) > 0 => rank[p] > rank[q]
      /\ \A q \in unloaded :
           Sum([ p \in unloaded |-> linked(p, q) ]) > 1
             => \A p \in Parents : linked(q, p) = 0

-----------------------------------------------------------------------------
(* Finding anchors.  A search that comes to a freed anchor ends the        *)
(* program; a name not found makes a new anchor.                           *)
Stale(h, p)     == h[p].freed
Same(h, p, adr) == equivalent(h[p].name, adr)

(* Slip: only the newest anchor of the hash table's entry is looked at. *)
BucketNewest(adr) ==
  LET all == adult_table[hash[adr]]
  IN  IF all = << >> THEN all ELSE << Head(all) >>
Bucket(adr) == adult_table[hash[adr]]

(* Where in the list the search may stop, and the anchor where it does.    *)
Stops(adr) == { i \in DOMAIN Bucket(adr) :
                  Stale(heap, Bucket(adr)[i]) \/ Same(heap, Bucket(adr)[i], adr) }
Stop(adr)  == Bucket(adr)[Min(Stops(adr))]

MeetsStale(adr) == Stops(adr) # {} /\ Stale(heap, Stop(adr))

(* Slip: a new parent is not made its own parent. *)
findParent_orphan(h, adr) ==
  IF Stops(adr) # {} THEN [ heap |-> h, anchor |-> Stop(adr) ]
  ELSE [ heap |-> Append(h, Anchor(Null, adr)), anchor |-> Len(h) + 1 ]

findParent(h, adr) ==
  IF Stops(adr) # {} THEN [ heap |-> h, anchor |-> Stop(adr) ]
  ELSE [ heap |-> Append(h, Anchor(Len(h) + 1, adr)), anchor |-> Len(h) + 1 ]

(* An unnamed child is always new. *)
findChild(h, p, tag) ==
  LET kids  == h[p].children
      named == { i \in DOMAIN kids :
                   h[kids[i]].name # "" /\ equivalent(h[kids[i]].name, tag) }
      new   == Len(h) + 1
  IN  IF tag # "" /\ named # {} THEN [ heap |-> h, anchor |-> kids[Min(named)] ]
      ELSE [ heap |-> [ Append(h, Anchor(p, tag))
                          EXCEPT ![p].children = << new >> \o @ ],
             anchor |-> new ]

findAddress(h, adr, tag) ==
  LET parent == findParent(h, adr)
  IN  IF tag = "" THEN parent ELSE findChild(parent.heap, parent.anchor, tag)

(* A new parent also enters the table. *)
Enter(h, adr) ==
  adult_table' =
    IF Stops(adr) = {}
    THEN [ adult_table EXCEPT ![hash[adr]] = << Len(h) + 1 >> \o @ ]
    ELSE adult_table

(* HTAnchor_link: the first link of an anchor is its main link.  Slip: a   *)
(* destination only hears of the main link.                                *)
link_main_only(h, a, dest) ==
  IF h[a].mainLink = Null
  THEN [ h EXCEPT ![a].mainLink = dest,
                  ![h[dest].parent].sources = << a >> \o @ ]
  ELSE [ h EXCEPT ![a].links = << dest >> \o @ ]

link(h, a, dest) ==
  [ IF h[a].mainLink = Null THEN [ h EXCEPT ![a].mainLink = dest ]
    ELSE [ h EXCEPT ![a].links = << dest >> \o @ ]
      EXCEPT ![h[dest].parent].sources = << a >> \o @ ]

NumLinks == Sum([ a \in Live |-> Len(Destinations(heap, a)) ])

-----------------------------------------------------------------------------
(* The operations of the application and of the parser.  They are given    *)
(* anchors that exist.                                                     *)
Ends(how) ==
  /\ status' = how
  /\ UNCHANGED << heap, adult_table, calls, made, orderly >>

HTAnchor_findAddress(adr, tag) ==
  /\ Quiet
  /\ IF MeetsStale(adr) THEN Ends("use after free")
     ELSE /\ heap' = findAddress(heap, adr, tag).heap
          /\ Len(heap') <= MaxAnchors
          /\ Enter(heap, adr)
          /\ UNCHANGED << calls, status, made, orderly >>

(* An anchor element of a document: the place, and what it refers to. *)
HTAnchor_findChildAndLink(p, tag, adr, dtag) ==
  LET child == findChild(heap, p, tag)
      dest  == findAddress(child.heap, adr, dtag)
  IN  /\ Quiet /\ p \in Parents
      /\ NumLinks < MaxLinks
      /\ IF MeetsStale(adr) THEN Ends("use after free")
         ELSE /\ heap' = link(dest.heap, child.anchor, dest.anchor)
              /\ Len(heap') <= MaxAnchors
              /\ Enter(child.heap, adr)
              /\ made' = made (+) SetToBag({ << child.anchor,
                                                dest.heap[dest.anchor].parent >> })
              /\ UNCHANGED << calls, status, orderly >>

(* A link from a document itself, which only the application makes.        *)
HTAnchor_link(a, dest) ==
  /\ Quiet /\ a \in Parents /\ dest \in Live
  /\ NumLinks < MaxLinks
  /\ heap' = link(heap, a, dest)
  /\ made' = made (+) SetToBag({ << a, heap[dest].parent >> })
  /\ UNCHANGED << adult_table, calls, status, orderly >>

HTAnchor_findChild(p, tag) ==
  /\ Quiet /\ p \in Parents
  /\ heap' = findChild(heap, p, tag).heap
  /\ Len(heap') <= MaxAnchors
  /\ UNCHANGED << adult_table, calls, status, made, orderly >>

HTAnchor_setDocument(p, doc) ==
  /\ Quiet /\ p \in Parents
  /\ heap' = [ heap EXCEPT ![p].document = doc ]
  /\ UNCHANGED << adult_table, calls, status, made, orderly >>

(* Slip: the child stays in its old place as well. *)
HTAnchor_makeLastChild_too(a) ==
  /\ Quiet /\ a \in Live \ Adults
  /\ heap' = [ heap EXCEPT ![heap[a].parent].children = << a >> \o @ ]
  /\ UNCHANGED << adult_table, calls, status, made, orderly >>

HTAnchor_makeLastChild(a) ==
  /\ Quiet /\ a \in Live \ Adults
  /\ heap' = [ heap EXCEPT ![heap[a].parent].children =
                 << a >> \o RemoveFirst(@, a) ]
  /\ UNCHANGED << adult_table, calls, status, made, orderly >>

(* An extra link and the main link change places. *)
HTAnchor_makeMainLink(a, i) ==
  /\ Quiet /\ a \in Live /\ i \in DOMAIN heap[a].links
  /\ heap' = [ heap EXCEPT ![a].mainLink = heap[a].links[i],
                           ![a].links = << heap[a].mainLink >> \o RemoveAt(@, i) ]
  /\ UNCHANGED << adult_table, calls, status, made, orderly >>

Activation(at, a) == [ at |-> at, me |-> a, child |-> Null ]

HTAnchor_delete(p) ==
  /\ Quiet /\ p \in Parents
  /\ calls' = << Activation("delete", p) >> /\ orderly' = Orderly
  /\ UNCHANGED << heap, adult_table, status, made >>

-----------------------------------------------------------------------------
(* The segments of the deletion routines. *)
top == Head(calls)
me  == top.me

At(place) ==
  /\ calls # << >> /\ status = "running" /\ top.at = place
  /\ UNCHANGED << adult_table, orderly >>

Continue(at) == << [ top EXCEPT !.at = at ] >> \o Tail(calls)
Call(at, a, rest) ==
  IF Len(rest) < MaxCalls
  THEN calls' = << Activation(at, a) >> \o rest /\ UNCHANGED status
  ELSE calls' = calls /\ status' = "stack overflow"
Go(at)  == calls' = Continue(at) /\ UNCHANGED status
Return  == calls' = Tail(calls) /\ UNCHANGED status
UseAfterFree == Ends("use after free")

DeleteStarts ==
  /\ At("delete")
  /\ IF heap[me].document THEN Return ELSE Call("deleteLinks", me, Continue("sources"))
  /\ UNCHANGED << heap, made >>

(* With incoming links only the children's outgoing links go.  Slip: the   *)
(* links are not looked at.                                                *)
Unreferenced_always(a) == TRUE
Unreferenced(a) == heap[a].sources = << >>

DeleteLooksAtSources ==
  /\ At("sources")
  /\ IF heap[me].freed THEN UseAfterFree
     ELSE /\ Go(IF Unreferenced(me) THEN "children" ELSE "kids")
          /\ UNCHANGED << heap, made >>

(* The next child of the list, after the one whose links went last.  That  *)
(* one's list node is read, unless a nested deletion has freed it.         *)
DeleteKidsLinks ==
  /\ At("kids")
  /\ LET kids == heap[me].children
         last == top.child
         i    == IF last = Null THEN 1
                 ELSE SelectInSeq(kids, LAMBDA c : c = last) + 1
     IN  IF last # Null /\ ~ Contains(kids, last) THEN UseAfterFree
         ELSE /\ IF i > Len(kids) THEN Return
                 ELSE Call("deleteLinks", kids[i],
                           << [ top EXCEPT !.child = kids[i] ] >> \o Tail(calls))
              /\ UNCHANGED << heap, made >>

DeleteChildren ==
  /\ At("children")
  /\ LET kids == heap[me].children
     IN  IF heap[me].freed THEN UseAfterFree
         ELSE IF kids = << >>
         THEN Return /\ heap' = [ heap EXCEPT ![me].freed = TRUE ] /\ UNCHANGED made
         ELSE /\ Call("deleteLinks", kids[1],
                      << [ top EXCEPT !.at = "child", !.child = kids[1] ] >>
                        \o Tail(calls))
              /\ heap' = [ heap EXCEPT ![me].children = Tail(@) ]
              /\ UNCHANGED made

DeleteChild ==
  /\ At("child")
  /\ Go("children")
  /\ heap' = [ heap EXCEPT ![top.child].freed = TRUE ]
  /\ UNCHANGED made

(* One link of deleteLinks: the destination forgets me, and is deleted if  *)
(* its document is not loaded.                                             *)
DeleteLink(h, dest, at) ==
  IF h[dest].freed \/ h[h[dest].parent].freed
  THEN status' = "use after free" /\ UNCHANGED << heap, calls >>
  ELSE /\ heap' = [ h EXCEPT ![h[dest].parent].sources = RemoveFirst(@, me) ]
       /\ IF h[h[dest].parent].document THEN Go(at)
          ELSE Call("delete", h[dest].parent, Continue(at))

DeleteMainLink ==
  /\ At("deleteLinks")
  /\ made' = [ l \in { l \in DOMAIN made : l[1] # me } |-> made[l] ]
  /\ IF heap[me].mainLink = Null THEN Go("links") /\ UNCHANGED heap
     ELSE DeleteLink(heap, heap[me].mainLink, "links")

DeleteExtraLinks ==
  /\ At("links")
  /\ UNCHANGED made
  /\ IF heap[me].freed THEN UseAfterFree
     ELSE IF heap[me].links = << >> THEN Return /\ UNCHANGED heap
     ELSE DeleteLink([ heap EXCEPT ![me].links = Tail(@) ],
                     Head(heap[me].links), "links")

Delete == \/ DeleteStarts   \/ DeleteLooksAtSources \/ DeleteKidsLinks
          \/ DeleteChildren \/ DeleteChild
          \/ DeleteMainLink \/ DeleteExtraLinks

Next ==
  \/ \E adr \in Addresses, tag \in Tags : HTAnchor_findAddress(adr, tag)
  \/ \E p \in DOMAIN heap :
       \/ \E tag \in Tags : HTAnchor_findChild(p, tag)
       \/ \E tag \in Tags, adr \in Addresses, dtag \in Tags :
            HTAnchor_findChildAndLink(p, tag, adr, dtag)
       \/ \E doc \in BOOLEAN : HTAnchor_setDocument(p, doc)
       \/ HTAnchor_makeLastChild(p)
       \/ \E i \in 1 .. MaxLinks : HTAnchor_makeMainLink(p, i)
       \/ HTAnchor_delete(p)
       \/ \E dest \in DOMAIN heap : HTAnchor_link(p, dest)
  \/ Delete

Spec == Init /\ [][Next]_vars

-----------------------------------------------------------------------------
Pointer == 0 .. MaxAnchors

TypeOK ==
  /\ Len(heap) <= MaxAnchors
  /\ \A a \in DOMAIN heap :
       /\ heap[a].parent \in Adults
       /\ heap[a].mainLink \in DOMAIN heap \cup { Null }
       /\ Range(heap[a].links) \cup Range(heap[a].sources)
            \subseteq DOMAIN heap
       /\ a \in Adults => heap[a].name \in Addresses
       /\ a \notin Adults => heap[a].name \in Tags
  /\ status \in { "running", "use after free", "stack overflow" }
  /\ calls \in Seq([ at : { "delete", "sources", "kids", "children", "child",
                            "deleteLinks", "links" },
                     me : DOMAIN heap, child : DOMAIN heap \cup { Null } ])
  /\ Len(calls) <= MaxCalls + 1

(***************************************************************************)
(* The sources of a document are exactly the links made to it or to a      *)
(* place in it that have not been deleted since, each as often as it was   *)
(* made, and a document that was freed has none: what the collection goes  *)
(* by is right although links are counted per anchor, kept in two places   *)
(* and swapped between them, and the main link stays set when deleted.     *)
(***************************************************************************)
SourcesAreTheLinksMade ==
  Quiet =>
    \A p \in Adults :
      LET known == IF heap[p].freed THEN << >> ELSE heap[p].sources
      IN  \A a \in DOMAIN heap :
            Copies(made, a, p) = Cardinality({ i \in DOMAIN known : known[i] = a })

(* Every place of a document that exists is in its parent's list once, and *)
(* nothing else is; a freed document has left no place behind.             *)
ChildrenHaveTheirParent ==
  Quiet =>
    \A p \in Adults :
      LET family == { a \in Live \ Adults : heap[a].parent = p }
      IN  IF heap[p].freed THEN family = {}
          ELSE /\ Range(heap[p].children) = family
               /\ IsInjective(heap[p].children)

(* A document has one anchor, however it is asked for.                     *)
OneAnchorPerAddress ==
  \A p, q \in Parents : heap[p].name = heap[q].name => p = q

(***************************************************************************)
(* Deletion ends, and uses no anchor it has freed, if it finds documents   *)
(* that are not loaded hang together as trees.                             *)
(***************************************************************************)
OrderlyDeletionIsSafe ==
  calls # << >> /\ orderly => status = "running"

(***************************************************************************)
(* HTAnchor.c of deletion: "All outgoing links from parent and children    *)
(* are deleted, and this anchor is removed from the sources list of all    *)
(* its targets."  So a link that is still there leads somewhere.           *)
(***************************************************************************)
LinksLeadToAnchors ==
  Quiet =>
    \A a \in Live : \A d \in Range(Destinations(heap, a)) : d \in Live

=============================================================================
