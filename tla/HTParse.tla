-------------------------------- MODULE HTParse --------------------------------
(***************************************************************************)
(* Addresses: taking them apart, completing one from another, shortening   *)
(* one against another (HTParse.c).  An address is a sequence of its       *)
(* delimiters and of the words between them.                               *)
(*                                                                         *)
(* A part keeps its punctuation, "http:", "//host", "/path", "#anchor", so *)
(* that an empty one is not the same as none, which is << >>.              *)
(***************************************************************************)
EXTENDS Integers, SequencesExt, FiniteSetsExt

CONSTANTS
  References,   \* what links and users refer to documents by
  Start,        \* the address to begin with
  MaxAddress    \* the length up to which addresses are followed

VARIABLES here,   \* the address of the document shown
          there   \* that of the one before it

names == << here, there >>

(* The first and last place of a word, and what is up to or from a place.  *)
Places(name, words) == { i \in DOMAIN name : name[i] \in words }
First(name, words)  == Min(Places(name, words) \cup { Len(name) + 1 })
Upto(name, i)       == SubSeq(name, 1, Min({ i, Len(name) }))
Onward(name, i)      == SubSeq(name, i, Len(name))
Starts(name, start) == Upto(name, Len(start)) = start

(* scan.  The access is all before the first of the colons that come       *)
(* before any slash, what it is the access of begins after the last.  The  *)
(* anchor goes from one # to the next; where an access but no host is      *)
(* given it is none and belongs to the rest.                               *)
ScanPath(access, cut, anchor) ==
  LET hosted == Starts(cut, << "/", "/" >>)
      root   == IF hosted THEN 2 + First(Onward(cut, 3), { "/" }) ELSE 1
      stray  == access # << >> /\ ~ hosted
      tail   == Onward(cut, root) \o (IF stray /\ cut # << >> THEN anchor ELSE << >>)
      rooted == hosted \/ Starts(cut, << "/" >>)
  IN  [ access   |-> access,
        host     |-> IF hosted THEN Upto(cut, root - 1) ELSE << >>,
        absolute |-> IF rooted THEN tail ELSE << >>,
        relative |-> IF rooted THEN << >> ELSE tail,
        anchor   |-> IF stray THEN << >> ELSE anchor ]

ScanAnchor(access, rest) ==
  LET hash   == First(rest, { "#" })
      marked == Onward(rest, hash)
  IN  ScanPath(access, Upto(rest, hash - 1),
               IF marked = << >> THEN << >>
               ELSE Upto(marked, First(Tail(marked), { "#" })))

scan(name) ==
  LET colons == { i \in Places(name, { ":" }) : i < First(name, { "/", "#" }) }
  IN  IF colons = {} THEN ScanAnchor(<< >>, name)
      ELSE ScanAnchor(Upto(name, Min(colons)), Onward(name, Max(colons) + 1))

(* A default port is left out, and a dot at the end of the host's name     *)
(* with whatever port comes after it.                                      *)
DefaultPort == [ http |-> << ":", "80" >>, gopher |-> << ":", "70" >> ]
CleanHost(access, host) ==
  LET colon == First(host, { ":" })
      port  == Onward(host, colon)
      known == access # << >> /\ Head(access) \in DOMAIN DefaultPort
      bare  == Upto(host, colon - 1)
      kept  == IF known /\ port = DefaultPort[Head(access)] THEN bare ELSE host
  IN  IF bare # << >> /\ Last(bare) = "." THEN Front(bare) ELSE kept

(* HTSimplify, from the place p on.  Behind a "/." that was taken out the  *)
(* next slash is passed over.                                              *)
Ends(name, i) == i > Len(name) \/ name[i] = "/"
Without(name, i, j) == Upto(name, i - 1) \o Onward(name, j + 1)

RECURSIVE SimplifyFrom(_, _)
SimplifyFrom(name, p) ==
  LET up(i) == i < Len(name) /\ name[i] = "/" /\ name[i + 1] = ".." /\ Ends(name, i + 2)
      same  == p < Len(name) /\ name[p + 1] = "." /\ Ends(name, p + 2)
      slash == Places(Upto(name, p - 1), { "/" })
      q     == Max(slash)
  IN  IF p > Len(name) THEN name
      ELSE IF name[p] # "/" THEN SimplifyFrom(name, p + 1)
      ELSE IF up(p)
      THEN IF slash = {} \/ (up(q) /\ q + 2 <= Len(name)) \/ (q > 2 /\ name[q - 1] = "/")
           THEN SimplifyFrom(name, p + 1)
           ELSE IF Without(name, q, p + 1) = << >> THEN << "/" >>
           ELSE SimplifyFrom(Without(name, q, p + 1), q)
      ELSE IF same THEN SimplifyFrom(Without(name, p, p + 1), p + 1)
      ELSE SimplifyFrom(name, p + 1)

HTSimplify(filename) == SimplifyFrom(filename, 3)

Below_beside(begin, absolute, relative) == HTSimplify(begin \o absolute \o relative)

(* The path of `given' below that of `related': the file name is replaced, *)
(* which ends before a search if there is one.                             *)
Below(begin, absolute, relative) ==
  LET result == begin \o absolute
      search == First(result, { "?" })
      slash  == Max(Places(Upto(result, search - 1), { "/" }))
  IN  HTSimplify(Upto(result, slash) \o relative)

(* HTParse, for all parts or all but the anchor: those given, and for      *)
(* others the related ones, if what comes before them is the same.         *)
Or(a, b)     == IF a # << >> THEN a ELSE b
Differ(a, b) == a # << >> /\ b # << >> /\ a # b

(* The path: all of the one that is given, or the related one with its     *)
(* name replaced, or what there is.                                        *)
WithPath(begin, given, absolute, relative) ==
  CASE given.absolute # << >> -> begin \o given.absolute
    [] given.absolute = << >> /\ absolute # << >> ->
         IF given.relative = << >> THEN begin \o absolute
         ELSE Below(begin, absolute, given.relative)
    [] given.absolute = << >> /\ absolute = << >> ->
         begin \o Or(Or(given.relative, relative), << "/" >>)

Complete(given, related, access, host, withAnchor) ==
  LET path   == WithPath(access \o CleanHost(access, host), given,
                         related.absolute, related.relative)
  IN  IF withAnchor THEN path \o Or(given.anchor, related.anchor) ELSE path

(* What is inherited from a document of another access, or another host. *)
Nothing == ScanPath(<< >>, << >>, << >>)
Inherited(given, related) ==
  IF Differ(given.access, related.access) THEN Nothing
  ELSE IF Differ(given.host, related.host) THEN [ Nothing EXCEPT !.host = related.host ]
  ELSE related

Parse(given, related, withAnchor) ==
  Complete(given, Inherited(given, related), Or(given.access, related.access),
           Or(given.host, Inherited(given, related).host), withAnchor)

HTParse(aName, relatedName, withAnchor) ==
  Parse(scan(aName), scan(relatedName), withAnchor)

(* HTRelative: aName as referred to from relatedName, by what they share   *)
(* at their beginnings; `rest' is the rest of relatedName.                 *)
Shared(aName, relatedName) ==
  LET differ == { i \in DOMAIN aName : i > Len(relatedName) \/ aName[i] # relatedName[i] }
  IN  Upto(aName, Min(differ \cup { Len(aName) + 1 }) - 1)

Relative(aName, shared, rest) ==
  LET slashes == Places(shared, { "/" })
      colons  == Places(shared, { ":" })
      levels  == Cardinality(Places(Upto(rest, First(rest, { "#" }) - 1), { "/" }))
  IN  CASE colons = {} -> aName
        [] colons # {} /\ Cardinality(slashes) < 3 -> Onward(aName, Max(colons) + 1)
        [] colons # {} /\ Cardinality(slashes) = 3 -> Onward(aName, Max(slashes))
        [] colons # {} /\ Cardinality(slashes) > 3 ->
             [ i \in 1 .. 2 * levels |-> IF i % 2 = 1 THEN ".." ELSE "/" ]
               \o Onward(aName, Max(slashes) + 1)

HTRelative(aName, relatedName) ==
  LET shared == Shared(aName, relatedName)
  IN  Relative(aName, shared, Onward(relatedName, Len(shared) + 1))

----------------------------------------------------------------------------

NamesInit == here = Start /\ there = << >>

(* HTLoadRelative: a reference is completed and its document shown. *)
Follow ==
  \E reference \in References :
    LET address == HTParse(reference, here, FALSE)
    IN  /\ Len(address) <= MaxAddress
        /\ here' = address /\ there' = here

(* A fully qualified name, simplified and with a search, if any, that has  *)
(* no slash; and what HTRelative is not up to even then.                   *)
HostName(name) == Upto(scan(name).host, 3)
Regular(name) ==
  LET it     == scan(name)
      search == Onward(name, First(name, { "?" }))
  IN  /\ it.access # << >> /\ it.absolute # << >>
      /\ Places(name, { ".", ".." }) = {}
      /\ Len(it.host) = 3 \/ (Len(it.host) = 5 /\ it.host[4] = ":")
      /\ Places(search, { "/" }) = {}

DiffersInPort(a, b) == HostName(a) = HostName(b) /\ scan(a).host # scan(b).host
Directory(name) == Upto(name, Max(Places(name, { "/" })))

(* HTParse.c: the name that HTRelative makes of an address, parsed again   *)
(* relative to the same document, is that address, wherever the two are in *)
(* their trees, on their hosts and by whatever access; but for documents   *)
(* of two ports of a host, and the directory that the document is in.      *)
RelativeNamesLeadBack ==
  ( /\ there # << >> /\ Regular(here) /\ Regular(there)
    /\ ~ DiffersInPort(here, there)
    /\ here # Directory(there) \/ here = there )
  => HTParse(HTRelative(here, there), there, TRUE) = here

=============================================================================
