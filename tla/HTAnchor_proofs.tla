---------------------------- MODULE HTAnchor_proofs -------------------------
(***************************************************************************)
(* The graph of anchors, for every set of addresses, tags and hash, and    *)
(* every bound on anchors and activations: pointers lead to anchors, a     *)
(* document's sources are the links made to it, its children are those     *)
(* that exist, and no address has two documents.                           *)
(*                                                                         *)
(* None of these is inductive alone.  The invariant the proofs share adds  *)
(* what holds in the middle of a deletion: a place that has left its       *)
(* parent's list but is not yet freed is named by exactly one activation,  *)
(* the links an anchor still has bound the times its destinations have     *)
(* heard of it while those links are deleted, and every document is in the *)
(* table under its address, the freed ones too.  After a use of freed      *)
(* memory only what the pointers lead to is still claimed.                 *)
(***************************************************************************)
EXTENDS HTAnchor, FiniteSetTheorems, WellFoundedInduction, TLAPS

Record == [ parent : Nat, name : Addresses \cup Tags, mainLink : Nat,
            links : Seq(Nat), children : Seq(Nat), sources : Seq(Nat),
            document : BOOLEAN, freed : BOOLEAN ]

Adult(h, a) == a \in DOMAIN h /\ h[a].parent = a

(* Pointers lead to anchors, and a parent is its own parent. *)
HeapFits(h) ==
  /\ h \in Seq(Record)
  /\ \A a \in DOMAIN h :
       /\ Adult(h, h[a].parent)
       /\ h[a].mainLink \in DOMAIN h \cup { Null }
       /\ h[a].mainLink = Null => h[a].links = << >>
       /\ \A i \in DOMAIN h[a].links    : h[a].links[i] \in DOMAIN h
       /\ \A i \in DOMAIN h[a].sources  : h[a].sources[i] \in DOMAIN h
       /\ \A i \in DOMAIN h[a].children : h[a].children[i] \in DOMAIN h
       /\ Adult(h, a) => h[a].name \in Addresses
       /\ ~ Adult(h, a) => h[a].name \in Tags

(* Every document ever made is in the table under its address, freed or not, *)
(* and no address has two.                                                   *)
TableFits(h, table) ==
  /\ table \in [ Range(hash) -> Seq(Nat) ]
  /\ \A n \in Range(hash) : \A i \in DOMAIN table[n] : Adult(h, table[n][i])
  /\ \A p \in DOMAIN h : Adult(h, p) =>
       \E i \in DOMAIN table[hash[h[p].name]] : table[hash[h[p].name]][i] = p
  /\ \A p, q \in DOMAIN h :
       Adult(h, p) /\ Adult(h, q) /\ h[p].name = h[q].name => p = q

(* The children of a document are those that exist, but for those that have *)
(* left the list and wait for their links to be deleted.                    *)
IsChild(h, a, p) == h[a].parent = p /\ a # p /\ ~ h[a].freed

FamilyFits(h, leaving) ==
  \A p \in DOMAIN h : Adult(h, p) =>
    /\ IsInjective(h[p].children)
    /\ \A a \in DOMAIN h :
         (\E i \in DOMAIN h[p].children : h[p].children[i] = a)
           <=> IsChild(h, a, p) /\ a \notin leaving
    /\ h[p].freed => h[p].children = << >>

(* How often something of a set is in a list. *)
Hits(s, T) == Cardinality({ i \in DOMAIN s : s[i] \in T })

Heard(h, p, a)   == Hits(h[p].sources, { a })
Places(h, p)     == { d \in DOMAIN h : h[d].parent = p }
MainTo(h, a, p)  == IF h[a].mainLink \in Places(h, p) THEN 1 ELSE 0
LinksTo(h, a, p) == Hits(h[a].links, Places(h, p))

(* A document has heard of every link made to it; while the links of an    *)
(* anchor are being deleted, of no more than are left.  The main link of   *)
(* an anchor may be one that was deleted long ago.                         *)
SourcesFit(h, bag, deleting) ==
  \A p \in DOMAIN h : Adult(h, p) =>
    /\ h[p].freed => h[p].sources = << >>
    /\ \A a \in DOMAIN h :
         /\ Heard(h, p, a) <= MainTo(h, a, p) + LinksTo(h, a, p)
         /\ a \in deleting =>
              Copies(bag, a, p) = 0 /\ Heard(h, p, a) <= LinksTo(h, a, p)
         /\ a \notin deleting => Copies(bag, a, p) = Heard(h, p, a)

BagFits(h, bag) ==
  /\ bag \in [ DOMAIN bag -> Nat ]
  /\ DOMAIN bag \subseteq (DOMAIN h) \X (DOMAIN h)

(* The activations of the deletion routines. *)
Leaving(c)  == { c[k].child : k \in { k \in DOMAIN c : c[k].at = "child" } }
Deleting(c) == { c[k].me : k \in { k \in DOMAIN c : c[k].at = "links" } }

OfDelete == { "delete", "sources", "kids", "children", "child" }
OfLinks  == { "deleteLinks", "links" }

ActivationFits(h, x) ==
  /\ x \in [ at : OfDelete \cup OfLinks, me : Nat, child : Nat ]
  /\ x.me \in DOMAIN h /\ x.child \in DOMAIN h \cup { Null }
  /\ x.at \in OfDelete => Adult(h, x.me)
  /\ x.at = "child" => x.child \in DOMAIN h /\ IsChild(h, x.child, x.me)
  /\ x.at \in { "children", "child" } => h[x.me].sources = << >>

CallsFit(h, c) ==
  /\ \A k \in DOMAIN c : ActivationFits(h, c[k])
  /\ \A j, k \in DOMAIN c :
       c[j].at = "child" /\ c[k].at = "child" /\ c[j].child = c[k].child
         => j = k

Running ==
  /\ CallsFit(heap, calls)
  /\ FamilyFits(heap, Leaving(calls))
  /\ SourcesFit(heap, made, Deleting(calls))

IInv ==
  /\ TypeOK /\ HeapFits(heap) /\ TableFits(heap, adult_table)
  /\ BagFits(heap, made)
  /\ status = "running" => Running

-----------------------------------------------------------------------------
(* Every set of naturals that is not empty has a least element. *)
LEMMA Least ==
  ASSUME NEW T \in SUBSET Nat, T # {}
  PROVE  Min(T) \in T /\ \A y \in T : Min(T) <= y
<1> DEFINE R == OpToRel(<, Nat)
<1>1. IsWellFoundedOn(R, Nat)
  BY NatLessThanWellFounded, Zenon
<1>2. \A x, y \in Nat : x < y => <<x, y>> \in R
  BY DEF OpToRel
<1> HIDE DEF R
<1>3. PICK x \in T : \A y \in T : ~ (<<y, x>> \in R)
  BY <1>1, WFMin
<1>4. ASSUME NEW y \in T
      PROVE  x <= y
  <2>1. ~ (y < x)
    BY <1>2, <1>3
  <2>2. QED
    BY <2>1
<1>5. \E z \in T : \A y \in T : z <= y
  BY <1>4
<1>6. QED
  BY <1>5, Zenon DEF Min

(* r is s without its i-th element. *)
Without(s, i, r) ==
  /\ Len(r) = Len(s) - 1
  /\ \A j \in 1 .. i - 1 : r[j] = s[j]
  /\ \A j \in i .. Len(s) - 1 : r[j] = s[j + 1]

LEMMA HitsOfNothing == \A T : Hits(<< >>, T) = 0
BY FS_EmptySet DEF Hits

LEMMA HitsFinite ==
  ASSUME NEW S, NEW s \in Seq(S), NEW T
  PROVE  /\ IsFiniteSet({ i \in DOMAIN s : s[i] \in T })
         /\ Hits(s, T) \in Nat
         /\ Hits(s, T) = 0 <=> \A i \in DOMAIN s : s[i] \notin T
<1> DEFINE I == { i \in DOMAIN s : s[i] \in T }
<1>1. IsFiniteSet(DOMAIN s)
  <2>1. DOMAIN s = 1 .. Len(s) /\ Len(s) \in Nat
    OBVIOUS
  <2>2. QED
    BY <2>1, FS_Interval
<1>2. IsFiniteSet(I)
  BY <1>1, FS_Subset
<1>3. Cardinality(I) \in Nat /\ (Cardinality(I) = 0 <=> I = {})
  BY <1>2, FS_CardinalityType, FS_EmptySet
<1>4. QED
  BY <1>2, <1>3 DEF Hits

LEMMA HitsWithout ==
  ASSUME NEW S, NEW s \in Seq(S), NEW r \in Seq(S), NEW i \in 1 .. Len(s),
         Without(s, i, r), NEW T
  PROVE  Hits(s, T) = Hits(r, T) + IF s[i] \in T THEN 1 ELSE 0
<1> DEFINE I == { j \in DOMAIN s : s[j] \in T }
           J == { j \in DOMAIN r : r[j] \in T }
           f == [ j \in J |-> IF j < i THEN j ELSE j + 1 ]
<1>1. /\ DOMAIN s = 1 .. Len(s) /\ DOMAIN r = 1 .. Len(s) - 1
      /\ Len(s) \in Nat /\ i \in 1 .. Len(s)
  BY DEF Without
<1>2. ASSUME NEW j \in J
      PROVE  f[j] \in I \ { i }
  <2>1. CASE j < i
    BY <1>1, <2>1 DEF Without
  <2>2. CASE ~ (j < i)
    <3>1. j \in i .. Len(s) - 1 /\ j + 1 \in 1 .. Len(s) /\ j + 1 # i
      BY <1>1, <2>2
    <3>2. QED
      BY <1>1, <2>2, <3>1 DEF Without
  <2>3. QED
    BY <2>1, <2>2
<1>3. ASSUME NEW k \in I \ { i }
      PROVE  \E j \in J : f[j] = k
  <2>1. CASE k < i
    <3>1. k \in 1 .. i - 1 /\ k \in DOMAIN r /\ k < i
      BY <1>1, <2>1
    <3>2. k \in J
      BY <3>1 DEF Without
    <3>3. QED
      BY <3>1, <3>2
  <2>2. CASE ~ (k < i)
    <3>1. /\ k - 1 \in i .. Len(s) - 1 /\ k - 1 \in DOMAIN r
          /\ ~ (k - 1 < i) /\ (k - 1) + 1 = k
      BY <1>1, <2>2
    <3>2. k - 1 \in J
      BY <3>1 DEF Without
    <3>3. QED
      BY <3>1, <3>2
  <2>3. QED
    BY <2>1, <2>2
<1>4. \A j, k \in J : f[j] = f[k] => j = k
  BY <1>1
<1>5. f \in Bijection(J, I \ { i })
  <2>1. f \in [ J -> I \ { i } ]
    BY <1>2
  <2>2. QED
    BY <2>1, <1>3, <1>4 DEF Bijection, Injection, Surjection, IsInjective
<1>6. IsFiniteSet(J) /\ IsFiniteSet(I)
  BY HitsFinite
<1>7. Cardinality(J) = Cardinality(I \ { i })
  BY <1>5, <1>6, FS_Bijection DEF ExistsBijection
<1>8. Cardinality(I) \in Nat
  BY <1>6, FS_CardinalityType
<1>9. Cardinality(I \ { i }) = IF i \in I THEN Cardinality(I) - 1
                               ELSE Cardinality(I)
  BY <1>6, FS_RemoveElement
<1>10. i \in I <=> s[i] \in T
  BY <1>1
<1>11. QED
  BY <1>7, <1>8, <1>9, <1>10 DEF Hits

LEMMA Pushed ==
  ASSUME NEW S, NEW s \in Seq(S), NEW x \in S
  PROVE  /\ << x >> \o s \in Seq(S) /\ Len(<< x >> \o s) = Len(s) + 1
         /\ (<< x >> \o s)[1] = x
         /\ \A i \in 1 .. Len(s) : (<< x >> \o s)[i + 1] = s[i]
         /\ Without(<< x >> \o s, 1, s)
BY DEF Without

LEMMA HeadTail ==
  ASSUME NEW S, NEW s \in Seq(S), s # << >>
  PROVE  /\ Head(s) = s[1] /\ Head(s) \in S /\ Tail(s) \in Seq(S)
         /\ Len(s) \in Nat /\ Len(s) >= 1 /\ Len(Tail(s)) = Len(s) - 1
         /\ \A i \in 1 .. Len(s) - 1 : Tail(s)[i] = s[i + 1]
         /\ Without(s, 1, Tail(s))
BY DEF Without

LEMMA Joined ==
  ASSUME NEW S, NEW a \in Seq(S), NEW b \in Seq(S)
  PROVE  /\ a \o b \in Seq(S) /\ Len(a \o b) = Len(a) + Len(b)
         /\ \A j \in 1 .. Len(a) : (a \o b)[j] = a[j]
         /\ \A j \in 1 .. Len(b) : (a \o b)[Len(a) + j] = b[j]
OBVIOUS

LEMMA RemovedAt ==
  ASSUME NEW S, NEW s \in Seq(S), NEW i \in 1 .. Len(s)
  PROVE  RemoveAt(s, i) \in Seq(S) /\ Without(s, i, RemoveAt(s, i))
<1>1. Len(s) \in Nat /\ i \in Nat /\ 1 <= i /\ i <= Len(s)
  OBVIOUS
<1>2. /\ SubSeq(s, 1, i - 1) \in Seq(S) /\ Len(SubSeq(s, 1, i - 1)) = i - 1
      /\ \A j \in 1 .. i - 1 : SubSeq(s, 1, i - 1)[j] = s[j]
  BY <1>1
<1>3. /\ SubSeq(s, i + 1, Len(s)) \in Seq(S)
      /\ Len(SubSeq(s, i + 1, Len(s))) = Len(s) - i
      /\ \A j \in 1 .. Len(s) - i : SubSeq(s, i + 1, Len(s))[j] = s[j + i]
  BY <1>1
<1> DEFINE a == SubSeq(s, 1, i - 1)
           b == SubSeq(s, i + 1, Len(s))
<1>4. RemoveAt(s, i) = a \o b
  BY DEF RemoveAt
<1> HIDE DEF a, b
<1>5. /\ a \o b \in Seq(S) /\ Len(a \o b) = Len(s) - 1
      /\ \A j \in 1 .. i - 1 : (a \o b)[j] = a[j]
      /\ \A j \in i .. Len(s) - 1 : (a \o b)[j] = b[j - (i - 1)]
  <2>1. /\ a \in Seq(S) /\ b \in Seq(S)
        /\ Len(a) = i - 1 /\ Len(b) = Len(s) - i
    BY <1>2, <1>3 DEF a, b
  <2>2. ASSUME NEW j \in i .. Len(s) - 1
        PROVE  (a \o b)[j] = b[j - (i - 1)]
    <3>1. j - (i - 1) \in 1 .. Len(b) /\ Len(a) + (j - (i - 1)) = j
      BY <1>1, <2>1
    <3>2. \A k \in 1 .. Len(b) : (a \o b)[Len(a) + k] = b[k]
      BY <2>1, Joined
    <3>3. QED
      BY <3>1, <3>2
  <2>3. Len(a \o b) = Len(s) - 1
    BY <1>1, <2>1, Joined
  <2>4. a \o b \in Seq(S) /\ \A j \in 1 .. Len(a) : (a \o b)[j] = a[j]
    BY <2>1, Joined
  <2>5. 1 .. i - 1 = 1 .. Len(a)
    BY <2>1
  <2>6. QED
    BY <2>2, <2>3, <2>4, <2>5
<1>6. ASSUME NEW j \in i .. Len(s) - 1
      PROVE  (a \o b)[j] = s[j + 1]
  <2>1. j - (i - 1) \in 1 .. Len(s) - i /\ (j - (i - 1)) + i = j + 1
    BY <1>1
  <2>2. b[j - (i - 1)] = s[j + 1]
    BY <1>3, <2>1 DEF b
  <2>3. QED
    BY <1>5, <2>2
<1>7. QED
  BY <1>2, <1>4, <1>5, <1>6 DEF Without, a

LEMMA RemovedFirst ==
  ASSUME NEW S, NEW s \in Seq(S), NEW x
  PROVE  /\ RemoveFirst(s, x) \in Seq(S)
         /\ \/ /\ \A i \in DOMAIN s : s[i] # x
               /\ RemoveFirst(s, x) = s
            \/ \E i \in 1 .. Len(s) :
                 s[i] = x /\ Without(s, i, RemoveFirst(s, x))
<1>1. CASE \A i \in 1 .. Len(s) : s[i] # x
  <2>1. RemoveFirst(s, x) = s
    BY <1>1 DEF RemoveFirst
  <2>2. QED
    BY <1>1, <2>1
<1>2. CASE \E i \in 1 .. Len(s) : s[i] = x
  <2> DEFINE I == { i \in 1 .. Len(s) : s[i] = x }
  <2>1. I # {} /\ I \in SUBSET Nat
    BY <1>2
  <2>2. SelectInSeq(s, LAMBDA v : v = x) = Min(I)
    BY <2>1 DEF SelectInSeq
  <2>3. Min(I) \in I
    BY <2>1, Least
  <2>4. RemoveFirst(s, x) = RemoveAt(s, Min(I))
    BY <1>2, <2>2 DEF RemoveFirst
  <2> HIDE DEF I
  <2>5. Min(I) \in 1 .. Len(s) /\ s[Min(I)] = x
    BY <2>3 DEF I
  <2>6. QED
    BY <2>4, <2>5, RemovedAt
<1>3. QED
  BY <1>1, <1>2

(* The counts after an element is added, or one is taken away. *)
LEMMA HitsPushed ==
  ASSUME NEW S, NEW s \in Seq(S), NEW x \in S, NEW T
  PROVE  Hits(<< x >> \o s, T) = Hits(s, T) + IF x \in T THEN 1 ELSE 0
<1> DEFINE r == << x >> \o s
<1>1. r \in Seq(S) /\ 1 \in 1 .. Len(r) /\ r[1] = x /\ Without(r, 1, s)
  BY Pushed
<1> HIDE DEF r
<1>2. Hits(r, T) = Hits(s, T) + IF r[1] \in T THEN 1 ELSE 0
  BY <1>1, HitsWithout
<1>3. Hits(r, T) = Hits(s, T) + IF x \in T THEN 1 ELSE 0
  BY <1>1, <1>2
<1>4. QED
  BY <1>3, Zenon DEF r

LEMMA HitsOfTail ==
  ASSUME NEW S, NEW s \in Seq(S), s # << >>, NEW T
  PROVE  Hits(s, T) = Hits(Tail(s), T) + IF Head(s) \in T THEN 1 ELSE 0
<1> DEFINE r == Tail(s)
<1>1. /\ 1 \in 1 .. Len(s) /\ r \in Seq(S) /\ Without(s, 1, r)
      /\ Head(s) = s[1]
  BY HeadTail
<1> HIDE DEF r
<1>2. Hits(s, T) = Hits(r, T) + IF s[1] \in T THEN 1 ELSE 0
  BY <1>1, HitsWithout
<1>3. QED
  BY <1>1, <1>2, Zenon DEF r

(* Taking away the first occurrence of x, if there is one. *)
LEMMA HitsRemovedFirst ==
  ASSUME NEW S, NEW s \in Seq(S), NEW x
  PROVE  /\ \A y : y # x => Hits(RemoveFirst(s, x), { y }) = Hits(s, { y })
         /\ Hits(RemoveFirst(s, x), { x })
              = IF Hits(s, { x }) = 0 THEN 0 ELSE Hits(s, { x }) - 1
<1> DEFINE r == RemoveFirst(s, x)
<1>1. r \in Seq(S)
  BY RemovedFirst
<1>2. CASE (\A i \in DOMAIN s : s[i] # x) /\ r = s
  <2>1. Hits(s, { x }) = 0
    BY <1>2, HitsFinite
  <2>2. QED
    BY <1>2, <2>1
<1>3. ASSUME NEW i \in 1 .. Len(s), s[i] = x, Without(s, i, r)
      PROVE  /\ \A y : y # x => Hits(r, { y }) = Hits(s, { y })
             /\ Hits(s, { x }) = Hits(r, { x }) + 1
  <2> HIDE DEF r
  <2>1. \A T : Hits(s, T) = Hits(r, T) + IF x \in T THEN 1 ELSE 0
    BY <1>1, <1>3, HitsWithout
  <2>2. \A T : Hits(r, T) \in Nat
    BY <1>1, HitsFinite
  <2>3. ASSUME NEW y, y # x
        PROVE  Hits(r, { y }) = Hits(s, { y })
    BY <2>1, <2>2, <2>3
  <2>4. QED
    BY <2>1, <2>3
<1>4. CASE \E i \in 1 .. Len(s) : s[i] = x /\ Without(s, i, r)
  <2>1. /\ \A y : y # x => Hits(r, { y }) = Hits(s, { y })
        /\ Hits(s, { x }) = Hits(r, { x }) + 1
    BY <1>3, <1>4
  <2>2. Hits(r, { x }) \in Nat
    BY <1>1, HitsFinite
  <2> HIDE DEF r
  <2>3. Hits(r, { x }) = IF Hits(s, { x }) = 0 THEN 0 ELSE Hits(s, { x }) - 1
    BY <2>1, <2>2
  <2>4. QED
    BY <2>1, <2>3, Zenon DEF r
<1>5. QED
  BY <1>2, <1>4, RemovedFirst

-----------------------------------------------------------------------------
(* What a step leaves alone on a heap that neither grows nor shrinks. *)
SameAnchors(h, g) ==
  /\ DOMAIN g = DOMAIN h
  /\ \A a \in DOMAIN h : g[a].parent = h[a].parent /\ g[a].name = h[a].name

SameFamily(h, g) ==
  /\ SameAnchors(h, g)
  /\ \A a \in DOMAIN h :
       g[a].children = h[a].children /\ g[a].freed = h[a].freed

SameLinks(h, g) ==
  /\ SameAnchors(h, g)
  /\ \A a \in DOMAIN h :
       /\ g[a].mainLink = h[a].mainLink /\ g[a].links = h[a].links
       /\ g[a].sources = h[a].sources

(* g is h with one more anchor, which has no links. *)
Grown(h, g, x) ==
  /\ x = Len(h) + 1 /\ DOMAIN g = DOMAIN h \cup { x }
  /\ \A a \in DOMAIN h :
       /\ g[a].parent = h[a].parent /\ g[a].name = h[a].name
       /\ g[a].mainLink = h[a].mainLink /\ g[a].links = h[a].links
       /\ g[a].sources = h[a].sources /\ g[a].freed = h[a].freed
  /\ g[x].mainLink = Null /\ g[x].links = << >> /\ g[x].sources = << >>
  /\ g[x].children = << >> /\ g[x].freed = FALSE

LEMMA AnchorNumbers ==
  ASSUME NEW h \in Seq(Record)
  PROVE  /\ DOMAIN h = 1 .. Len(h) /\ Len(h) \in Nat /\ DOMAIN h \subseteq Nat
         /\ Null \notin DOMAIN h
         /\ \A a \in DOMAIN h : h[a] \in Record
BY DEF Null

LEMMA Fields ==
  ASSUME NEW h, h \in Seq(Record), NEW a \in DOMAIN h
  PROVE  /\ h[a].parent \in Nat /\ h[a].name \in Addresses \cup Tags
         /\ h[a].mainLink \in Nat /\ h[a].links \in Seq(Nat)
         /\ h[a].children \in Seq(Nat) /\ h[a].sources \in Seq(Nat)
         /\ h[a].document \in BOOLEAN /\ h[a].freed \in BOOLEAN
<1>1. h[a] \in Record
  BY AnchorNumbers
<1>2. QED
  BY <1>1 DEF Record

LEMMA SameAdults ==
  ASSUME NEW h, NEW g, SameAnchors(h, g)
  PROVE  /\ \A a : Adult(g, a) <=> Adult(h, a)
         /\ \A p : Places(g, p) = Places(h, p)
BY DEF SameAnchors, Adult, Places

LEMMA TableKept ==
  ASSUME NEW h, NEW g, NEW table, SameAnchors(h, g), TableFits(h, table)
  PROVE  TableFits(g, table)
BY SameAdults DEF TableFits, SameAnchors

LEMMA FamilyKept ==
  ASSUME NEW h, NEW g, NEW leaving, SameFamily(h, g), FamilyFits(h, leaving)
  PROVE  FamilyFits(g, leaving)
<1>1. SameAnchors(h, g)
  BY DEF SameFamily
<1>2. \A a : Adult(g, a) <=> Adult(h, a)
  BY <1>1, SameAdults
<1>3. \A p : \A a \in DOMAIN h : IsChild(g, a, p) <=> IsChild(h, a, p)
  BY DEF SameFamily, SameAnchors, IsChild
<1>4. QED
  BY <1>1, <1>2, <1>3 DEF FamilyFits, SameFamily, SameAnchors

LEMMA CountsKept ==
  ASSUME NEW h, NEW g, SameLinks(h, g), NEW a \in DOMAIN h, NEW p
  PROVE  /\ MainTo(g, a, p) = MainTo(h, a, p)
         /\ LinksTo(g, a, p) = LinksTo(h, a, p)
         /\ p \in DOMAIN h => Heard(g, p, a) = Heard(h, p, a)
BY SameAdults DEF SameLinks, MainTo, LinksTo, Heard

LEMMA SourcesKept ==
  ASSUME NEW h, NEW g, NEW bag, NEW deleting, SameLinks(h, g),
         \A a \in DOMAIN h : Adult(h, a) /\ g[a].freed /\ ~ h[a].freed
                               => h[a].sources = << >>,
         SourcesFit(h, bag, deleting)
  PROVE  SourcesFit(g, bag, deleting)
<1>1. SameAnchors(h, g) /\ DOMAIN g = DOMAIN h
  BY DEF SameLinks, SameAnchors
<1>2. \A a : Adult(g, a) <=> Adult(h, a)
  BY <1>1, SameAdults
<1>3. ASSUME NEW p \in DOMAIN h, Adult(h, p)
      PROVE  g[p].freed => g[p].sources = << >>
  BY <1>3 DEF SourcesFit, SameLinks
<1>4. ASSUME NEW p \in DOMAIN h, Adult(h, p), NEW a \in DOMAIN h
      PROVE  /\ Heard(g, p, a) <= MainTo(g, a, p) + LinksTo(g, a, p)
             /\ a \in deleting =>
                  Copies(bag, a, p) = 0 /\ Heard(g, p, a) <= LinksTo(g, a, p)
             /\ a \notin deleting => Copies(bag, a, p) = Heard(g, p, a)
  BY <1>4, CountsKept DEF SourcesFit
<1>5. QED
  BY <1>1, <1>2, <1>3, <1>4 DEF SourcesFit

-----------------------------------------------------------------------------
(* One more anchor. *)
LEMMA AnchorIsRecord ==
  ASSUME NEW p \in Nat, NEW name \in Addresses \cup Tags
  PROVE  /\ Anchor(p, name) \in Record
         /\ Anchor(p, name).parent = p /\ Anchor(p, name).name = name
         /\ Anchor(p, name).mainLink = Null /\ Anchor(p, name).links = << >>
         /\ Anchor(p, name).children = << >> /\ Anchor(p, name).sources = << >>
         /\ Anchor(p, name).freed = FALSE
<1>1. << >> \in Seq(Nat) /\ Null \in Nat
  BY DEF Null
<1>2. QED
  BY <1>1 DEF Anchor, Record

LEMMA Appended ==
  ASSUME NEW S, NEW s \in Seq(S), NEW x \in S
  PROVE  /\ Append(s, x) \in Seq(S) /\ Len(s) \in Nat
         /\ DOMAIN Append(s, x) = DOMAIN s \cup { Len(s) + 1 }
         /\ \A i \in DOMAIN s : Append(s, x)[i] = s[i]
         /\ Append(s, x)[Len(s) + 1] = x
OBVIOUS

LEMMA GrownHeapFits ==
  ASSUME NEW h, NEW g, NEW x, HeapFits(h), g \in Seq(Record), Grown(h, g, x),
         Adult(g, g[x].parent),
         Adult(g, x) => g[x].name \in Addresses,
         ~ Adult(g, x) => g[x].name \in Tags,
         \A a \in DOMAIN h : \A i \in DOMAIN g[a].children :
           g[a].children[i] \in DOMAIN g
  PROVE  HeapFits(g)
<1>1. ASSUME NEW a \in DOMAIN h
      PROVE  /\ Adult(g, g[a].parent)
             /\ g[a].mainLink \in DOMAIN g \cup { Null }
             /\ g[a].mainLink = Null => g[a].links = << >>
             /\ \A i \in DOMAIN g[a].links    : g[a].links[i] \in DOMAIN g
             /\ \A i \in DOMAIN g[a].sources  : g[a].sources[i] \in DOMAIN g
             /\ Adult(g, a) => g[a].name \in Addresses
             /\ ~ Adult(g, a) => g[a].name \in Tags
  <2>1. /\ g[a].parent = h[a].parent /\ g[a].name = h[a].name
        /\ g[a].mainLink = h[a].mainLink /\ g[a].links = h[a].links
        /\ g[a].sources = h[a].sources /\ DOMAIN h \subseteq DOMAIN g
    BY DEF Grown
  <2>2. \A b \in DOMAIN h : Adult(g, b) <=> Adult(h, b)
    BY DEF Grown, Adult
  <2>3. Adult(h, h[a].parent) /\ h[a].parent \in DOMAIN h
    BY DEF HeapFits, Adult
  <2>4. /\ Adult(h, a) => h[a].name \in Addresses
        /\ ~ Adult(h, a) => h[a].name \in Tags
        /\ h[a].mainLink = Null => h[a].links = << >>
    BY DEF HeapFits
  <2>5. /\ h[a].mainLink \in DOMAIN h \cup { Null }
        /\ \A i \in DOMAIN h[a].links    : h[a].links[i] \in DOMAIN h
        /\ \A i \in DOMAIN h[a].sources  : h[a].sources[i] \in DOMAIN h
    BY DEF HeapFits
  <2>6. QED
    BY <2>1, <2>2, <2>3, <2>4, <2>5
<1>2. DOMAIN << >> = {}
  OBVIOUS
<1>3. /\ g[x].mainLink \in DOMAIN g \cup { Null }
      /\ g[x].mainLink = Null => g[x].links = << >>
      /\ \A i \in DOMAIN g[x].links    : g[x].links[i] \in DOMAIN g
      /\ \A i \in DOMAIN g[x].sources  : g[x].sources[i] \in DOMAIN g
      /\ \A i \in DOMAIN g[x].children : g[x].children[i] \in DOMAIN g
  BY <1>2 DEF Grown
<1>4. ASSUME NEW a \in DOMAIN g
      PROVE  a = x \/ a \in DOMAIN h
  BY DEF Grown
<1>5. QED
  <2>1. ASSUME NEW a \in DOMAIN g
        PROVE  /\ Adult(g, g[a].parent)
               /\ g[a].mainLink \in DOMAIN g \cup { Null }
               /\ g[a].mainLink = Null => g[a].links = << >>
               /\ \A i \in DOMAIN g[a].links    : g[a].links[i] \in DOMAIN g
               /\ \A i \in DOMAIN g[a].sources  : g[a].sources[i] \in DOMAIN g
               /\ \A i \in DOMAIN g[a].children : g[a].children[i] \in DOMAIN g
               /\ Adult(g, a) => g[a].name \in Addresses
               /\ ~ Adult(g, a) => g[a].name \in Tags
    <3>1. CASE a = x
      BY <1>3, <3>1
    <3>2. CASE a \in DOMAIN h
      BY <1>1, <3>2
    <3>3. QED
      BY <1>4, <3>1, <3>2
  <2>2. QED
    BY <2>1 DEF HeapFits

LEMMA GrownBagFits ==
  ASSUME NEW h, NEW g, NEW x, NEW bag, Grown(h, g, x), BagFits(h, bag)
  PROVE  BagFits(g, bag)
BY DEF Grown, BagFits

LEMMA GrownSourcesFit ==
  ASSUME NEW h, NEW g, NEW x, NEW bag, HeapFits(h), Grown(h, g, x),
         BagFits(h, bag), SourcesFit(h, bag, {})
  PROVE  SourcesFit(g, bag, {})
<1>1. x \notin DOMAIN h /\ x # Null /\ Null \notin DOMAIN h
  BY AnchorNumbers DEF HeapFits, Grown, Null
<1>2. ASSUME NEW a \in DOMAIN h, NEW p
      PROVE  /\ MainTo(g, a, p) = MainTo(h, a, p)
             /\ LinksTo(g, a, p) = LinksTo(h, a, p)
  <2>1. \A d \in DOMAIN h : d \in Places(g, p) <=> d \in Places(h, p)
    BY DEF Places, Grown
  <2>2. h[a].mainLink \in DOMAIN h \/ h[a].mainLink = Null
    BY DEF HeapFits
  <2>3. Null \notin Places(g, p) /\ Null \notin Places(h, p)
    BY <1>1 DEF Places, Grown
  <2>4. MainTo(g, a, p) = MainTo(h, a, p)
    BY <2>1, <2>2, <2>3 DEF MainTo, Grown
  <2>5. \A i \in DOMAIN h[a].links : h[a].links[i] \in DOMAIN h
    BY DEF HeapFits
  <2>6. LinksTo(g, a, p) = LinksTo(h, a, p)
    BY <2>1, <2>5 DEF LinksTo, Hits, Grown
  <2>7. QED
    BY <2>4, <2>6
<1>3. ASSUME NEW p \in DOMAIN h, NEW a
      PROVE  Heard(g, p, a) = Heard(h, p, a)
  BY DEF Heard, Grown
<1>4. ASSUME NEW p \in DOMAIN h
      PROVE  Heard(h, p, x) = 0
  <2>1. h[p].sources \in Seq(Nat)
    BY Fields DEF HeapFits
  <2>2. \A i \in DOMAIN h[p].sources : h[p].sources[i] \notin { x }
    BY <1>1 DEF HeapFits
  <2>3. QED
    BY <2>1, <2>2, HitsFinite DEF Heard
<1>5. \A p : MainTo(g, x, p) + LinksTo(g, x, p) = 0
  BY <1>1, HitsOfNothing DEF MainTo, LinksTo, Grown, Places
<1>6. \A a : Heard(g, x, a) = 0
  BY HitsOfNothing DEF Heard, Grown
<1>7. \A a : Copies(bag, a, x) = 0 /\ Copies(bag, x, a) = 0
  BY <1>1 DEF Copies, BagFits
<1>8. ASSUME NEW a \in DOMAIN g
      PROVE  0 <= MainTo(g, a, x) + LinksTo(g, a, x)
  <2>1. g[a].links \in Seq(Nat)
    <3>1. CASE a \in DOMAIN h
      BY <3>1, Fields DEF Grown, HeapFits
    <3>2. CASE a = x
      <4>1. g[a].links = << >>
        BY <3>2 DEF Grown
      <4>2. QED
        BY <4>1
    <3>3. QED
      BY <3>1, <3>2 DEF Grown
  <2>2. LinksTo(g, a, x) \in Nat
    BY <2>1, HitsFinite DEF LinksTo
  <2>3. QED
    BY <2>2 DEF MainTo
<1>9. \A p \in DOMAIN h : Adult(g, p) <=> Adult(h, p)
  BY DEF Grown, Adult
<1>10. ASSUME NEW p \in DOMAIN g, Adult(g, p), NEW a \in DOMAIN g
       PROVE  /\ Heard(g, p, a) <= MainTo(g, a, p) + LinksTo(g, a, p)
              /\ Copies(bag, a, p) = Heard(g, p, a)
  <2>1. CASE p = x
    BY <2>1, <1>6, <1>7, <1>8
  <2>2. CASE p \in DOMAIN h /\ a = x
    BY <2>2, <1>3, <1>4, <1>5, <1>7
  <2>3. CASE p \in DOMAIN h /\ a \in DOMAIN h
    BY <2>3, <1>2, <1>3, <1>9, <1>10 DEF SourcesFit
  <2>4. QED
    BY <2>1, <2>2, <2>3 DEF Grown
<1>11. ASSUME NEW p \in DOMAIN g, Adult(g, p)
       PROVE  g[p].freed => g[p].sources = << >>
  BY <1>9, <1>11 DEF Grown, SourcesFit
<1>12. QED
  BY <1>10, <1>11 DEF SourcesFit

(* The graph between two operations. *)
Good(h, table, bag) ==
  /\ HeapFits(h) /\ TableFits(h, table) /\ BagFits(h, bag)
  /\ FamilyFits(h, {}) /\ SourcesFit(h, bag, {})

LEMMA NewParent ==
  ASSUME NEW h, NEW table, NEW bag, Good(h, table, bag), NEW adr \in Addresses,
         \A p \in DOMAIN h : Adult(h, p) => h[p].name # adr
  PROVE  LET x == Len(h) + 1
             g == Append(h, Anchor(x, adr))
         IN  /\ Good(g, [ table EXCEPT ![hash[adr]] = << x >> \o @ ], bag)
             /\ g \in Seq(Record) /\ Grown(h, g, x)
             /\ Adult(g, x) /\ ~ g[x].freed
             /\ \A a \in DOMAIN h : g[a] = h[a]
<1> DEFINE x == Len(h) + 1
           new == Anchor(x, adr)
           g == Append(h, new)
           u == [ table EXCEPT ![hash[adr]] = << x >> \o @ ]
<1>1. /\ HeapFits(h) /\ TableFits(h, table) /\ BagFits(h, bag)
      /\ FamilyFits(h, {}) /\ SourcesFit(h, bag, {})
      /\ h \in Seq(Record)
  BY DEF Good, HeapFits
<1>2. x \in Nat /\ x \notin DOMAIN h
  BY <1>1, AnchorNumbers
<1> HIDE DEF x
<1>3. /\ new \in Record /\ new.parent = x /\ new.name = adr
      /\ new.mainLink = Null /\ new.links = << >> /\ new.children = << >>
      /\ new.sources = << >> /\ new.freed = FALSE
  <2>1. adr \in Addresses \cup Tags
    OBVIOUS
  <2>2. QED
    BY <1>2, <2>1, AnchorIsRecord, Zenon
<1> HIDE DEF new
<1>4. /\ g \in Seq(Record) /\ DOMAIN g = DOMAIN h \cup { x }
      /\ \A a \in DOMAIN h : g[a] = h[a]
      /\ g[x] = new
  BY <1>1, <1>3, Appended DEF x
<1> HIDE DEF g
<1>5. Grown(h, g, x)
  BY <1>3, <1>4 DEF Grown, x
<1>6. Adult(g, x) /\ g[x].name \in Addresses
  BY <1>3, <1>4 DEF Adult
<1>7. \A a \in DOMAIN h : Adult(g, a) <=> Adult(h, a)
  BY <1>4 DEF Adult
<1>8. HeapFits(g)
  <2>1. \A a \in DOMAIN h : \A i \in DOMAIN g[a].children :
          g[a].children[i] \in DOMAIN g
    BY <1>1, <1>4 DEF HeapFits
  <2>2. Adult(g, g[x].parent)
    BY <1>3, <1>4, <1>6
  <2>3. QED
    BY <1>1, <1>4, <1>5, <1>6, <2>1, <2>2, GrownHeapFits
<1>9. BagFits(g, bag) /\ SourcesFit(g, bag, {})
  BY <1>1, <1>5, GrownBagFits, GrownSourcesFit
<1>10. FamilyFits(g, {})
  <2>1. ASSUME NEW p \in DOMAIN h, Adult(h, p)
        PROVE  ~ IsChild(g, x, p) /\ \A i \in DOMAIN h[p].children : h[p].children[i] # x
    BY <1>1, <1>2, <1>3, <1>4, <2>1 DEF IsChild, HeapFits
  <2>2. ASSUME NEW p \in DOMAIN h, NEW a \in DOMAIN h
        PROVE  IsChild(g, a, p) <=> IsChild(h, a, p)
    BY <1>4 DEF IsChild
  <2>3. ASSUME NEW a \in DOMAIN h
        PROVE  ~ IsChild(g, a, x)
    <3>1. h[a].parent \in DOMAIN h
      BY <1>1 DEF HeapFits, Adult
    <3>2. QED
      BY <1>2, <1>4, <3>1 DEF IsChild
  <2>4. ~ IsChild(g, x, x)
    BY DEF IsChild
  <2>5. g[x].children = << >> /\ DOMAIN << >> = {}
    BY <1>3, <1>4
  <2>6. ASSUME NEW p \in DOMAIN h, Adult(g, p)
        PROVE  /\ IsInjective(g[p].children)
               /\ \A a \in DOMAIN g :
                    (\E i \in DOMAIN g[p].children : g[p].children[i] = a)
                      <=> IsChild(g, a, p) /\ a \notin {}
               /\ g[p].freed => g[p].children = << >>
    <3>1. Adult(h, p) /\ g[p] = h[p]
      BY <1>4, <1>7, <2>6
    <3>2. QED
      BY <1>1, <1>4, <2>1, <2>2, <3>1 DEF FamilyFits
  <2>7. /\ IsInjective(g[x].children)
        /\ \A a \in DOMAIN g :
             (\E i \in DOMAIN g[x].children : g[x].children[i] = a)
               <=> IsChild(g, a, x) /\ a \notin {}
    BY <1>4, <2>3, <2>4, <2>5 DEF IsInjective
  <2>8. QED
    BY <1>4, <2>5, <2>6, <2>7 DEF FamilyFits
<1>11. TableFits(g, u)
  <2>1. /\ table \in [ Range(hash) -> Seq(Nat) ] /\ hash[adr] \in Range(hash)
        /\ \A p \in DOMAIN h : Adult(h, p) => hash[h[p].name] \in Range(hash)
    BY <1>1, AnchorAssumption DEF TableFits, HeapFits, Range
  <2> DEFINE old == table[hash[adr]]
             now == << x >> \o old
  <2>2. old \in Seq(Nat)
    BY <2>1
  <2>3. /\ now \in Seq(Nat) /\ now[1] = x /\ Len(now) = Len(old) + 1
        /\ \A i \in 1 .. Len(old) : now[i + 1] = old[i]
    BY <1>2, <2>2, Pushed
  <2>4. /\ DOMAIN now = 1 .. Len(old) + 1 /\ DOMAIN old = 1 .. Len(old)
        /\ Len(old) \in Nat
    BY <2>2, <2>3
  <2>5. /\ u \in [ Range(hash) -> Seq(Nat) ] /\ u[hash[adr]] = now
        /\ \A n \in Range(hash) : n # hash[adr] => u[n] = table[n]
    BY <2>1, <2>3
  <2> HIDE DEF u, now, old
  <2>6. ASSUME NEW i \in DOMAIN now
        PROVE  i = 1 \/ (i - 1 \in DOMAIN old /\ now[i] = old[i - 1])
    BY <2>3, <2>4
  <2>7. ASSUME NEW i \in DOMAIN old
        PROVE  i + 1 \in DOMAIN now /\ now[i + 1] = old[i]
    BY <2>3, <2>4
  <2>8. \A n \in Range(hash) : \A i \in DOMAIN table[n] : Adult(g, table[n][i])
    BY <1>1, <1>4, <1>7 DEF TableFits, Adult
  <2>9. \A i \in DOMAIN now : Adult(g, now[i])
    BY <1>6, <2>1, <2>3, <2>6, <2>8 DEF old
  <2>10. ASSUME NEW p \in DOMAIN h, Adult(h, p)
         PROVE  \E i \in DOMAIN u[hash[h[p].name]] : u[hash[h[p].name]][i] = p
    <3>1. PICK i \in DOMAIN table[hash[h[p].name]] :
            table[hash[h[p].name]][i] = p
      BY <1>1, <2>10 DEF TableFits
    <3>2. CASE hash[h[p].name] = hash[adr]
      <4>1. i \in DOMAIN old /\ old[i] = p
        BY <3>1, <3>2 DEF old
      <4>2. i + 1 \in DOMAIN now /\ now[i + 1] = p
        BY <4>1, <2>7
      <4>3. QED
        BY <3>2, <4>2, <2>5
    <3>3. CASE hash[h[p].name] # hash[adr]
      BY <2>1, <2>5, <2>10, <3>1, <3>3
    <3>4. QED
      BY <3>2, <3>3
  <2>11. 1 \in DOMAIN now /\ now[1] = x /\ g[x].name = adr
    BY <1>3, <1>4, <2>3, <2>4
  <2>12. ASSUME NEW p \in DOMAIN g, Adult(g, p)
         PROVE  \E i \in DOMAIN u[hash[g[p].name]] : u[hash[g[p].name]][i] = p
    <3>1. CASE p = x
      BY <2>5, <2>11, <3>1
    <3>2. CASE p \in DOMAIN h
      BY <1>4, <1>7, <2>10, <2>12, <3>2
    <3>3. QED
      BY <1>4, <3>1, <3>2
  <2>13. ASSUME NEW p \in DOMAIN g, NEW q \in DOMAIN g, Adult(g, p),
                Adult(g, q), g[p].name = g[q].name
         PROVE  p = q
    <3>1. CASE p \in DOMAIN h /\ q \in DOMAIN h
      BY <1>1, <1>4, <1>7, <2>13, <3>1 DEF TableFits
    <3>2. CASE p = x /\ q \in DOMAIN h
      BY <1>4, <1>7, <2>11, <2>13, <3>2
    <3>3. CASE q = x /\ p \in DOMAIN h
      BY <1>4, <1>7, <2>11, <2>13, <3>3
    <3>4. QED
      BY <1>4, <3>1, <3>2, <3>3
  <2>14. \A n \in Range(hash) : \A i \in DOMAIN u[n] : Adult(g, u[n][i])
    BY <2>5, <2>8, <2>9
  <2>15. QED
    BY <2>5, <2>12, <2>13, <2>14 DEF TableFits
<1>12. /\ Good(g, u, bag) /\ g \in Seq(Record) /\ Grown(h, g, x)
       /\ Adult(g, x) /\ ~ g[x].freed /\ \A a \in DOMAIN h : g[a] = h[a]
  BY <1>3, <1>4, <1>5, <1>6, <1>8, <1>9, <1>10, <1>11 DEF Good
<1>13. QED
  BY <1>12 DEF x, g, u, new

LEMMA NewChild ==
  ASSUME NEW h, NEW table, NEW bag, Good(h, table, bag), NEW p, Adult(h, p),
         ~ h[p].freed, NEW tag \in Tags
  PROVE  LET x == Len(h) + 1
             g == [ Append(h, Anchor(p, tag))
                      EXCEPT ![p].children = << x >> \o @ ]
         IN  /\ Good(g, table, bag) /\ g \in Seq(Record) /\ Grown(h, g, x)
             /\ x \in DOMAIN g /\ g[x].parent = p /\ ~ g[x].freed
             /\ \A a \in DOMAIN h : Adult(g, a) <=> Adult(h, a)
<1> DEFINE x == Len(h) + 1
           new == Anchor(p, tag)
           f == Append(h, new)
           kids == << x >> \o h[p].children
           g == [ f EXCEPT ![p].children = << x >> \o @ ]
<1>1. /\ HeapFits(h) /\ TableFits(h, table) /\ BagFits(h, bag)
      /\ FamilyFits(h, {}) /\ SourcesFit(h, bag, {})
      /\ h \in Seq(Record) /\ p \in DOMAIN h
  BY DEF Good, HeapFits, Adult
<1>2. x \in Nat /\ x \notin DOMAIN h /\ p \in Nat /\ p # x
  BY <1>1, AnchorNumbers
<1> HIDE DEF x
<1>3. /\ new \in Record /\ new.parent = p /\ new.name = tag
      /\ new.mainLink = Null /\ new.links = << >> /\ new.children = << >>
      /\ new.sources = << >> /\ new.freed = FALSE
  <2>1. tag \in Addresses \cup Tags
    OBVIOUS
  <2>2. QED
    BY <1>2, <2>1, AnchorIsRecord, Zenon
<1> HIDE DEF new
<1>4. /\ f \in Seq(Record) /\ DOMAIN f = DOMAIN h \cup { x }
      /\ \A a \in DOMAIN h : f[a] = h[a]
      /\ f[x] = new
  BY <1>1, <1>3, Appended DEF x
<1>5. h[p].children \in Seq(Nat)
  BY <1>1, Fields
<1> HIDE DEF f
<1>6. /\ kids \in Seq(Nat) /\ kids[1] = x /\ Len(kids) = Len(h[p].children) + 1
      /\ \A i \in 1 .. Len(h[p].children) : kids[i + 1] = h[p].children[i]
  BY <1>2, <1>5, Pushed
<1>7. /\ DOMAIN kids = 1 .. Len(h[p].children) + 1
      /\ DOMAIN h[p].children = 1 .. Len(h[p].children)
      /\ Len(h[p].children) \in Nat
  BY <1>5, <1>6
<1>8. /\ f[p] = h[p] /\ h[p] \in Record
      /\ g = [ f EXCEPT ![p] = [ h[p] EXCEPT !.children = kids ] ]
  BY <1>1, <1>4, AnchorNumbers
<1> HIDE DEF kids, g
<1>9. /\ g \in Seq(Record) /\ DOMAIN g = DOMAIN h \cup { x } /\ g[x] = new
      /\ \A a \in DOMAIN h : a # p => g[a] = h[a]
      /\ g[p] = [ h[p] EXCEPT !.children = kids ]
  <2>1. [ h[p] EXCEPT !.children = kids ] \in Record
    BY <1>6, <1>8 DEF Record
  <2>2. QED
    BY <1>1, <1>2, <1>4, <1>8, <2>1
<1>10. /\ \A a \in DOMAIN h :
            /\ g[a].parent = h[a].parent /\ g[a].name = h[a].name
            /\ g[a].mainLink = h[a].mainLink /\ g[a].links = h[a].links
            /\ g[a].sources = h[a].sources /\ g[a].freed = h[a].freed
            /\ a # p => g[a].children = h[a].children
       /\ g[p].children = kids
  <2>1. /\ g[p].parent = h[p].parent /\ g[p].name = h[p].name
        /\ g[p].mainLink = h[p].mainLink /\ g[p].links = h[p].links
        /\ g[p].sources = h[p].sources /\ g[p].freed = h[p].freed
        /\ g[p].children = kids
    <3> DEFINE was == h[p]
    <3>1. was \in Record /\ g[p] = [ was EXCEPT !.children = kids ]
      BY <1>8, <1>9
    <3> HIDE DEF was
    <3>2. /\ g[p].parent = was.parent /\ g[p].name = was.name
          /\ g[p].mainLink = was.mainLink /\ g[p].links = was.links
          /\ g[p].sources = was.sources /\ g[p].freed = was.freed
          /\ g[p].children = kids
      BY <3>1 DEF Record
    <3>3. QED
      BY <3>2 DEF was
  <2>2. QED
    BY <1>9, <2>1
<1>11. Grown(h, g, x)
  BY <1>3, <1>9, <1>10 DEF Grown, x
<1>12. \A a \in DOMAIN h : Adult(g, a) <=> Adult(h, a)
  BY <1>9, <1>10 DEF Adult
<1>13. ~ Adult(g, x) /\ Adult(g, p)
  BY <1>1, <1>2, <1>3, <1>9, <1>12 DEF Adult
<1>14. ASSUME NEW i \in DOMAIN kids
       PROVE  i = 1 \/ (i - 1 \in DOMAIN h[p].children /\ kids[i] = h[p].children[i - 1])
  BY <1>6, <1>7
<1>15. ASSUME NEW i \in DOMAIN h[p].children
       PROVE  i + 1 \in DOMAIN kids /\ kids[i + 1] = h[p].children[i]
  BY <1>6, <1>7
<1>16. HeapFits(g)
  <2>1. ASSUME NEW a \in DOMAIN h, NEW i \in DOMAIN g[a].children
        PROVE  g[a].children[i] \in DOMAIN g
    <3>1. CASE a = p
      <4>1. g[a].children = kids /\ i \in DOMAIN kids
        BY <1>10, <2>1, <3>1
      <4>2. \A j \in DOMAIN h[p].children : h[p].children[j] \in DOMAIN h
        BY <1>1 DEF HeapFits
      <4>3. kids[i] = x \/ kids[i] \in DOMAIN h
        BY <1>6, <1>14, <4>1, <4>2
      <4>4. QED
        BY <1>9, <4>1, <4>3
    <3>2. CASE a # p
      <4>1. g[a].children = h[a].children
        BY <1>10, <3>2
      <4>2. QED
        BY <1>1, <1>9, <2>1, <4>1 DEF HeapFits
    <3>3. QED
      BY <3>1, <3>2
  <2>2. g[x].parent = p /\ g[x].name \in Tags
    BY <1>3, <1>9
  <2>3. QED
    BY <1>1, <1>9, <1>11, <1>13, <2>1, <2>2, GrownHeapFits
<1>17. BagFits(g, bag) /\ SourcesFit(g, bag, {})
  BY <1>1, <1>11, GrownBagFits, GrownSourcesFit
<1>18. TableFits(g, table)
  <2>1. ASSUME NEW q, Adult(g, q)
        PROVE  q \in DOMAIN h /\ Adult(h, q) /\ g[q].name = h[q].name
    BY <1>9, <1>10, <1>12, <1>13, <2>1 DEF Adult
  <2>2. \A n \in Range(hash) : \A i \in DOMAIN table[n] : Adult(g, table[n][i])
    BY <1>1, <1>12 DEF TableFits, Adult
  <2>3. QED
    BY <1>1, <2>1, <2>2 DEF TableFits
<1>19. FamilyFits(g, {})
  <2>1. ASSUME NEW q \in DOMAIN h, NEW a \in DOMAIN h
        PROVE  IsChild(g, a, q) <=> IsChild(h, a, q)
    BY <1>10 DEF IsChild
  <2>2. \A q : IsChild(g, x, q) <=> q = p
    BY <1>2, <1>3, <1>9 DEF IsChild
  <2>3. ASSUME NEW q \in DOMAIN h, NEW i \in DOMAIN h[q].children
        PROVE  h[q].children[i] \in DOMAIN h /\ h[q].children[i] # x
    BY <1>1, <1>2 DEF HeapFits
  <2>4. ASSUME NEW q \in DOMAIN h, Adult(h, q), q # p
        PROVE  /\ IsInjective(g[q].children)
               /\ \A a \in DOMAIN g :
                    (\E i \in DOMAIN g[q].children : g[q].children[i] = a)
                      <=> IsChild(g, a, q) /\ a \notin {}
               /\ g[q].freed => g[q].children = << >>
    <3>1. g[q].children = h[q].children /\ g[q].freed = h[q].freed
      BY <1>10, <2>4
    <3>2. QED
      BY <1>1, <1>9, <2>1, <2>2, <2>3, <2>4, <3>1 DEF FamilyFits
  <2>5. IsInjective(kids)
    <3>1. IsInjective(h[p].children)
      BY <1>1 DEF FamilyFits
    <3>2. \A i \in DOMAIN kids : i # 1 => kids[i] # x
      BY <1>1, <1>14, <2>3
    <3>3. ASSUME NEW i \in DOMAIN kids, NEW j \in DOMAIN kids,
                 kids[i] = kids[j], i # 1, j # 1
          PROVE  i = j
      <4>1. /\ i - 1 \in DOMAIN h[p].children /\ j - 1 \in DOMAIN h[p].children
            /\ h[p].children[i - 1] = h[p].children[j - 1]
        BY <1>14, <3>3
      <4>2. i - 1 = j - 1
        BY <3>1, <4>1 DEF IsInjective
      <4>3. QED
        BY <1>7, <4>2
    <3>4. QED
      BY <1>6, <3>2, <3>3 DEF IsInjective
  <2>6. ASSUME NEW a \in DOMAIN g
        PROVE  (\E i \in DOMAIN kids : kids[i] = a) <=> IsChild(g, a, p)
    <3>1. CASE a = x
      BY <1>6, <1>7, <2>2, <3>1
    <3>2. CASE a \in DOMAIN h
      <4>1. a # x
        BY <1>2, <3>2
      <4>2. (\E i \in DOMAIN h[p].children : h[p].children[i] = a)
              <=> IsChild(g, a, p)
        BY <1>1, <2>1, <3>2 DEF FamilyFits
      <4>3. (\E i \in DOMAIN kids : kids[i] = a)
              <=> \E i \in DOMAIN h[p].children : h[p].children[i] = a
        BY <1>6, <1>14, <1>15, <4>1
      <4>4. QED
        BY <4>2, <4>3
    <3>3. QED
      BY <1>9, <3>1, <3>2
  <2>7. ~ g[p].freed /\ g[p].children = kids
    BY <1>1, <1>10
  <2>8. ASSUME NEW q \in DOMAIN g, Adult(g, q)
        PROVE  q \in DOMAIN h /\ Adult(h, q)
    BY <1>9, <1>12, <1>13, <2>8
  <2>9. QED
    BY <2>4, <2>5, <2>6, <2>7, <2>8 DEF FamilyFits
<1>20. /\ Good(g, table, bag) /\ g \in Seq(Record) /\ Grown(h, g, x)
       /\ x \in DOMAIN g /\ g[x].parent = p /\ ~ g[x].freed
       /\ \A a \in DOMAIN h : Adult(g, a) <=> Adult(h, a)
  BY <1>3, <1>9, <1>11, <1>12, <1>16, <1>17, <1>18, <1>19 DEF Good
<1>21. QED
  BY <1>20 DEF x, g, f, new

-----------------------------------------------------------------------------
(* The anchors after one field of one of them has changed. *)
LEMMA Replaced ==
  ASSUME NEW S, NEW s \in Seq(S), NEW i \in DOMAIN s, NEW x \in S,
         NEW t, t = [ s EXCEPT ![i] = x ]
  PROVE  /\ t \in Seq(S) /\ DOMAIN t = DOMAIN s /\ t[i] = x
         /\ \A j \in DOMAIN s : j # i => t[j] = s[j]
OBVIOUS

(* g is h after an assignment to one field. *)
MainLinkSet(h, a, v, g)  == g = [ h EXCEPT ![a].mainLink = v ]
LinksSet(h, a, v, g)     == g = [ h EXCEPT ![a].links = v ]
ChildrenSet(h, a, v, g)  == g = [ h EXCEPT ![a].children = v ]
SourcesSet(h, a, v, g)   == g = [ h EXCEPT ![a].sources = v ]
DocumentSet(h, a, v, g)  == g = [ h EXCEPT ![a].document = v ]
FreedSet(h, a, g)        == g = [ h EXCEPT ![a].freed = TRUE ]

LEMMA SetMainLink ==
  ASSUME NEW h \in Seq(Record), NEW a \in DOMAIN h, NEW v \in Nat,
         NEW g, MainLinkSet(h, a, v, g)
  PROVE  /\ g \in Seq(Record) /\ DOMAIN g = DOMAIN h /\ g[a].mainLink = v
         /\ \A b \in DOMAIN h :
              /\ g[b].parent = h[b].parent /\ g[b].name = h[b].name
              /\ g[b].links = h[b].links /\ g[b].children = h[b].children
              /\ g[b].sources = h[b].sources /\ g[b].document = h[b].document
              /\ g[b].freed = h[b].freed
              /\ b # a => g[b].mainLink = h[b].mainLink
<1> DEFINE was == h[a]
           now == [ was EXCEPT !.mainLink = v ]
<1>1. was \in Record /\ g = [ h EXCEPT ![a] = now ]
  BY AnchorNumbers DEF MainLinkSet
<1> HIDE DEF was
<1>2. /\ now \in Record /\ now.mainLink = v
      /\ now.parent = was.parent /\ now.name = was.name
      /\ now.links = was.links /\ now.children = was.children
      /\ now.sources = was.sources /\ now.document = was.document
      /\ now.freed = was.freed
  BY <1>1 DEF Record
<1> HIDE DEF now
<1>3. /\ g \in Seq(Record) /\ DOMAIN g = DOMAIN h /\ g[a] = now
      /\ \A b \in DOMAIN h : b # a => g[b] = h[b]
  BY <1>1, <1>2, Replaced
<1>4. QED
  BY <1>2, <1>3 DEF was

LEMMA SetLinks ==
  ASSUME NEW h \in Seq(Record), NEW a \in DOMAIN h, NEW v \in Seq(Nat),
         NEW g, LinksSet(h, a, v, g)
  PROVE  /\ g \in Seq(Record) /\ DOMAIN g = DOMAIN h /\ g[a].links = v
         /\ \A b \in DOMAIN h :
              /\ g[b].parent = h[b].parent /\ g[b].name = h[b].name
              /\ g[b].mainLink = h[b].mainLink /\ g[b].children = h[b].children
              /\ g[b].sources = h[b].sources /\ g[b].document = h[b].document
              /\ g[b].freed = h[b].freed
              /\ b # a => g[b].links = h[b].links
<1> DEFINE was == h[a]
           now == [ was EXCEPT !.links = v ]
<1>1. was \in Record /\ g = [ h EXCEPT ![a] = now ]
  BY AnchorNumbers DEF LinksSet
<1> HIDE DEF was
<1>2. /\ now \in Record /\ now.links = v
      /\ now.parent = was.parent /\ now.name = was.name
      /\ now.mainLink = was.mainLink /\ now.children = was.children
      /\ now.sources = was.sources /\ now.document = was.document
      /\ now.freed = was.freed
  BY <1>1 DEF Record
<1> HIDE DEF now
<1>3. /\ g \in Seq(Record) /\ DOMAIN g = DOMAIN h /\ g[a] = now
      /\ \A b \in DOMAIN h : b # a => g[b] = h[b]
  BY <1>1, <1>2, Replaced
<1>4. QED
  BY <1>2, <1>3 DEF was

LEMMA SetChildren ==
  ASSUME NEW h \in Seq(Record), NEW a \in DOMAIN h, NEW v \in Seq(Nat),
         NEW g, ChildrenSet(h, a, v, g)
  PROVE  /\ g \in Seq(Record) /\ DOMAIN g = DOMAIN h /\ g[a].children = v
         /\ \A b \in DOMAIN h :
              /\ g[b].parent = h[b].parent /\ g[b].name = h[b].name
              /\ g[b].mainLink = h[b].mainLink /\ g[b].links = h[b].links
              /\ g[b].sources = h[b].sources /\ g[b].document = h[b].document
              /\ g[b].freed = h[b].freed
              /\ b # a => g[b].children = h[b].children
<1> DEFINE was == h[a]
           now == [ was EXCEPT !.children = v ]
<1>1. was \in Record /\ g = [ h EXCEPT ![a] = now ]
  BY AnchorNumbers DEF ChildrenSet
<1> HIDE DEF was
<1>2. /\ now \in Record /\ now.children = v
      /\ now.parent = was.parent /\ now.name = was.name
      /\ now.mainLink = was.mainLink /\ now.links = was.links
      /\ now.sources = was.sources /\ now.document = was.document
      /\ now.freed = was.freed
  BY <1>1 DEF Record
<1> HIDE DEF now
<1>3. /\ g \in Seq(Record) /\ DOMAIN g = DOMAIN h /\ g[a] = now
      /\ \A b \in DOMAIN h : b # a => g[b] = h[b]
  BY <1>1, <1>2, Replaced
<1>4. QED
  BY <1>2, <1>3 DEF was

LEMMA SetSources ==
  ASSUME NEW h \in Seq(Record), NEW a \in DOMAIN h, NEW v \in Seq(Nat),
         NEW g, SourcesSet(h, a, v, g)
  PROVE  /\ g \in Seq(Record) /\ DOMAIN g = DOMAIN h /\ g[a].sources = v
         /\ \A b \in DOMAIN h :
              /\ g[b].parent = h[b].parent /\ g[b].name = h[b].name
              /\ g[b].mainLink = h[b].mainLink /\ g[b].links = h[b].links
              /\ g[b].children = h[b].children /\ g[b].document = h[b].document
              /\ g[b].freed = h[b].freed
              /\ b # a => g[b].sources = h[b].sources
<1> DEFINE was == h[a]
           now == [ was EXCEPT !.sources = v ]
<1>1. was \in Record /\ g = [ h EXCEPT ![a] = now ]
  BY AnchorNumbers DEF SourcesSet
<1> HIDE DEF was
<1>2. /\ now \in Record /\ now.sources = v
      /\ now.parent = was.parent /\ now.name = was.name
      /\ now.mainLink = was.mainLink /\ now.links = was.links
      /\ now.children = was.children /\ now.document = was.document
      /\ now.freed = was.freed
  BY <1>1 DEF Record
<1> HIDE DEF now
<1>3. /\ g \in Seq(Record) /\ DOMAIN g = DOMAIN h /\ g[a] = now
      /\ \A b \in DOMAIN h : b # a => g[b] = h[b]
  BY <1>1, <1>2, Replaced
<1>4. QED
  BY <1>2, <1>3 DEF was

LEMMA SetDocument ==
  ASSUME NEW h \in Seq(Record), NEW a \in DOMAIN h, NEW v \in BOOLEAN,
         NEW g, DocumentSet(h, a, v, g)
  PROVE  /\ g \in Seq(Record) /\ DOMAIN g = DOMAIN h /\ g[a].document = v
         /\ \A b \in DOMAIN h :
              /\ g[b].parent = h[b].parent /\ g[b].name = h[b].name
              /\ g[b].mainLink = h[b].mainLink /\ g[b].links = h[b].links
              /\ g[b].children = h[b].children /\ g[b].sources = h[b].sources
              /\ g[b].freed = h[b].freed
              /\ b # a => g[b].document = h[b].document
<1> DEFINE was == h[a]
           now == [ was EXCEPT !.document = v ]
<1>1. was \in Record /\ g = [ h EXCEPT ![a] = now ]
  BY AnchorNumbers DEF DocumentSet
<1> HIDE DEF was
<1>2. /\ now \in Record /\ now.document = v
      /\ now.parent = was.parent /\ now.name = was.name
      /\ now.mainLink = was.mainLink /\ now.links = was.links
      /\ now.children = was.children /\ now.sources = was.sources
      /\ now.freed = was.freed
  BY <1>1 DEF Record
<1> HIDE DEF now
<1>3. /\ g \in Seq(Record) /\ DOMAIN g = DOMAIN h /\ g[a] = now
      /\ \A b \in DOMAIN h : b # a => g[b] = h[b]
  BY <1>1, <1>2, Replaced
<1>4. QED
  BY <1>2, <1>3 DEF was

LEMMA SetFreed ==
  ASSUME NEW h \in Seq(Record), NEW a \in DOMAIN h, NEW g,
         FreedSet(h, a, g)
  PROVE  /\ g \in Seq(Record) /\ DOMAIN g = DOMAIN h /\ g[a].freed
         /\ \A b \in DOMAIN h :
              /\ g[b].parent = h[b].parent /\ g[b].name = h[b].name
              /\ g[b].mainLink = h[b].mainLink /\ g[b].links = h[b].links
              /\ g[b].children = h[b].children /\ g[b].sources = h[b].sources
              /\ g[b].document = h[b].document
              /\ b # a => g[b].freed = h[b].freed
<1> DEFINE was == h[a]
           now == [ was EXCEPT !.freed = TRUE ]
<1>1. was \in Record /\ g = [ h EXCEPT ![a] = now ]
  BY AnchorNumbers DEF FreedSet
<1> HIDE DEF was
<1>2. /\ now \in Record /\ now.freed = TRUE
      /\ now.parent = was.parent /\ now.name = was.name
      /\ now.mainLink = was.mainLink /\ now.links = was.links
      /\ now.children = was.children /\ now.sources = was.sources
      /\ now.document = was.document
  BY <1>1 DEF Record
<1> HIDE DEF now
<1>3. /\ g \in Seq(Record) /\ DOMAIN g = DOMAIN h /\ g[a] = now
      /\ \A b \in DOMAIN h : b # a => g[b] = h[b]
  BY <1>1, <1>2, Replaced
<1>4. QED
  BY <1>2, <1>3 DEF was

-----------------------------------------------------------------------------
(* HTAnchor_link. *)
LEMMA CopiesAdded ==
  ASSUME NEW h, NEW bag, BagFits(h, bag), NEW a \in DOMAIN h, NEW p \in DOMAIN h
  PROVE  LET more == bag (+) SetToBag({ << a, p >> })
         IN  /\ BagFits(h, more)
             /\ \A b, q : Copies(more, b, q) = Copies(bag, b, q)
                            + IF b = a /\ q = p THEN 1 ELSE 0
<1> DEFINE new == SetToBag({ << a, p >> })
           more == bag (+) new
           D == (DOMAIN h) \X (DOMAIN h)
<1>1. DOMAIN new = { << a, p >> } /\ new[<< a, p >>] = 1
  BY DEF SetToBag
<1> HIDE DEF new
<1>2. /\ DOMAIN more = DOMAIN bag \cup { << a, p >> }
      /\ \A l \in DOMAIN bag : l # << a, p >> => more[l] = bag[l] + 0
      /\ more[<< a, p >>] =
           (IF << a, p >> \in DOMAIN bag THEN bag[<< a, p >>] ELSE 0) + 1
      /\ more = [ l \in DOMAIN more |-> more[l] ]
  BY <1>1 DEF (+)
<1> HIDE DEF more
<1>3. DOMAIN bag \subseteq D /\ \A l \in DOMAIN bag : bag[l] \in Nat
  BY DEF BagFits
<1>4. << a, p >> \in D
  OBVIOUS
<1> HIDE DEF D
<1>5. \A l \in DOMAIN more : more[l] \in Nat
  BY <1>2, <1>3
<1>6. more \in [ DOMAIN more -> Nat ]
  BY <1>2, <1>5
<1>7. DOMAIN more \subseteq D
  BY <1>2, <1>3, <1>4
<1>8. BagFits(h, more)
  BY <1>6, <1>7 DEF BagFits, D
<1>9. ASSUME NEW b, NEW q
      PROVE  Copies(more, b, q) = Copies(bag, b, q)
               + IF b = a /\ q = p THEN 1 ELSE 0
  <2>1. CASE b = a /\ q = p
    BY <1>2, <2>1 DEF Copies
  <2>2. CASE ~ (b = a /\ q = p)
    <3>1. << b, q >> # << a, p >>
      BY <2>2
    <3>2. << b, q >> \in DOMAIN more <=> << b, q >> \in DOMAIN bag
      BY <1>2, <3>1
    <3>3. CASE << b, q >> \in DOMAIN bag
      BY <1>2, <1>3, <2>2, <3>1, <3>2, <3>3 DEF Copies
    <3>4. CASE << b, q >> \notin DOMAIN bag
      BY <2>2, <3>2, <3>4 DEF Copies
    <3>5. QED
      BY <3>3, <3>4
  <2>3. QED
    BY <2>1, <2>2
<1>10. QED
  BY <1>8, <1>9 DEF more, new

LEMMA CountsAreNatural ==
  ASSUME NEW h, HeapFits(h), NEW a \in DOMAIN h, NEW p
  PROVE  /\ MainTo(h, a, p) \in 0 .. 1 /\ LinksTo(h, a, p) \in Nat
         /\ p \in DOMAIN h => \A b : Heard(h, p, b) \in Nat
<1>1. h \in Seq(Record)
  BY DEF HeapFits
<1>2. h[a].links \in Seq(Nat) /\ (p \in DOMAIN h => h[p].sources \in Seq(Nat))
  BY <1>1, Fields
<1>3. MainTo(h, a, p) \in 0 .. 1
  BY DEF MainTo
<1>4. LinksTo(h, a, p) \in Nat
  BY <1>2, HitsFinite DEF LinksTo
<1>5. ASSUME p \in DOMAIN h, NEW b
      PROVE  Heard(h, p, b) \in Nat
  BY <1>2, <1>5, HitsFinite DEF Heard
<1>6. QED
  BY <1>3, <1>4, <1>5

LEMMA Linked ==
  ASSUME NEW h, NEW table, NEW bag, Good(h, table, bag), NEW a \in DOMAIN h,
         NEW dest \in DOMAIN h, ~ h[h[dest].parent].freed
  PROVE  LET g == link(h, a, dest)
             more == bag (+) SetToBag({ << a, h[dest].parent >> })
         IN  Good(g, table, more) /\ DOMAIN g = DOMAIN h /\ g \in Seq(Record)
<1> DEFINE p == h[dest].parent
           f == IF h[a].mainLink = Null THEN [ h EXCEPT ![a].mainLink = dest ]
                ELSE [ h EXCEPT ![a].links = << dest >> \o @ ]
           v == << a >> \o f[p].sources
           g == [ f EXCEPT ![p].sources = v ]
           more == bag (+) SetToBag({ << a, p >> })
<1>1. /\ HeapFits(h) /\ TableFits(h, table) /\ BagFits(h, bag)
      /\ FamilyFits(h, {}) /\ SourcesFit(h, bag, {}) /\ h \in Seq(Record)
  BY DEF Good, HeapFits
<1>2. link(h, a, dest) = g
  BY DEF link
<1>3. p \in DOMAIN h /\ Adult(h, p) /\ ~ h[p].freed /\ p \in Nat
  BY <1>1, AnchorNumbers DEF HeapFits, Adult
<1>4. dest \in Nat /\ a \in Nat /\ dest # Null /\ Null \notin DOMAIN h
  BY <1>1, AnchorNumbers
<1>5. h[a].links \in Seq(Nat) /\ h[p].sources \in Seq(Nat)
  BY <1>1, <1>3, Fields
<1> DEFINE w == << dest >> \o h[a].links
<1>6. w \in Seq(Nat)
  BY <1>4, <1>5, Pushed
<1>7. /\ f \in Seq(Record) /\ DOMAIN f = DOMAIN h
      /\ \A b \in DOMAIN h :
           /\ f[b].parent = h[b].parent /\ f[b].name = h[b].name
           /\ f[b].children = h[b].children /\ f[b].freed = h[b].freed
           /\ f[b].sources = h[b].sources
           /\ b # a => f[b].mainLink = h[b].mainLink /\ f[b].links = h[b].links
      /\ \/ /\ h[a].mainLink = Null
            /\ f[a].mainLink = dest /\ f[a].links = h[a].links
         \/ /\ h[a].mainLink # Null
            /\ f[a].mainLink = h[a].mainLink /\ f[a].links = w
  <2>1. CASE h[a].mainLink = Null
    <3>1. MainLinkSet(h, a, dest, f)
      BY <2>1 DEF MainLinkSet
    <3> HIDE DEF f
    <3>2. /\ f \in Seq(Record) /\ DOMAIN f = DOMAIN h /\ f[a].mainLink = dest
          /\ \A b \in DOMAIN h :
               /\ f[b].parent = h[b].parent /\ f[b].name = h[b].name
               /\ f[b].links = h[b].links /\ f[b].children = h[b].children
               /\ f[b].sources = h[b].sources /\ f[b].document = h[b].document
               /\ f[b].freed = h[b].freed
               /\ b # a => f[b].mainLink = h[b].mainLink
      BY <1>1, <1>4, <3>1, SetMainLink
    <3>3. QED
      BY <2>1, <3>2
  <2>2. CASE h[a].mainLink # Null
    <3>1. LinksSet(h, a, w, f)
      BY <2>2 DEF LinksSet
    <3> HIDE DEF f, w
    <3>2. /\ f \in Seq(Record) /\ DOMAIN f = DOMAIN h /\ f[a].links = w
          /\ \A b \in DOMAIN h :
               /\ f[b].parent = h[b].parent /\ f[b].name = h[b].name
               /\ f[b].mainLink = h[b].mainLink /\ f[b].children = h[b].children
               /\ f[b].sources = h[b].sources /\ f[b].document = h[b].document
               /\ f[b].freed = h[b].freed
               /\ b # a => f[b].links = h[b].links
      BY <1>1, <1>6, <3>1, SetLinks
    <3>3. QED
      BY <2>2, <3>2
  <2>3. QED
    BY <2>1, <2>2
<1> HIDE DEF p, f
<1>8. v \in Seq(Nat) /\ v = << a >> \o h[p].sources
  BY <1>3, <1>4, <1>5, <1>7, Pushed
<1> HIDE DEF v, g
<1>9. /\ g \in Seq(Record) /\ DOMAIN g = DOMAIN h /\ g[p].sources = v
      /\ \A b \in DOMAIN h :
           /\ g[b].parent = h[b].parent /\ g[b].name = h[b].name
           /\ g[b].children = h[b].children /\ g[b].freed = h[b].freed
           /\ g[b].mainLink = f[b].mainLink /\ g[b].links = f[b].links
           /\ b # p => g[b].sources = h[b].sources
  <2>1. SourcesSet(f, p, v, g)
    BY DEF SourcesSet, g
  <2>2. p \in DOMAIN f /\ f \in Seq(Record) /\ v \in Seq(Nat)
    BY <1>3, <1>7, <1>8
  <2>3. /\ g \in Seq(Record) /\ DOMAIN g = DOMAIN f /\ g[p].sources = v
        /\ \A b \in DOMAIN f :
             /\ g[b].parent = f[b].parent /\ g[b].name = f[b].name
             /\ g[b].mainLink = f[b].mainLink /\ g[b].links = f[b].links
             /\ g[b].children = f[b].children /\ g[b].document = f[b].document
             /\ g[b].freed = f[b].freed
             /\ b # p => g[b].sources = f[b].sources
    BY <2>1, <2>2, SetSources
  <2>4. QED
    BY <1>7, <2>3
<1>10. SameFamily(h, g) /\ SameAnchors(h, g)
  BY <1>9 DEF SameFamily, SameAnchors
<1>11. TableFits(g, table) /\ FamilyFits(g, {})
  BY <1>1, <1>10, TableKept, FamilyKept
<1>12. BagFits(h, more) /\ \A b, q : Copies(more, b, q) = Copies(bag, b, q)
                                       + IF b = a /\ q = p THEN 1 ELSE 0
  BY <1>1, <1>3, CopiesAdded
<1> HIDE DEF more
<1>13. BagFits(g, more)
  BY <1>9, <1>12 DEF BagFits
<1>14. /\ \A b : Adult(g, b) <=> Adult(h, b)
       /\ \A q : Places(g, q) = Places(h, q)
       /\ \A q : dest \in Places(h, q) <=> q = p
       /\ \A q : Null \notin Places(h, q)
  BY <1>4, <1>10, SameAdults DEF Places, p
<1>15. /\ \A T : Hits(w, T) = Hits(h[a].links, T) + IF dest \in T THEN 1 ELSE 0
       /\ \A T : Hits(v, T) = Hits(h[p].sources, T) + IF a \in T THEN 1 ELSE 0
  BY <1>4, <1>5, <1>8, HitsPushed
<1>16. \A i \in DOMAIN w : w[i] \in DOMAIN h
  <2>1. \A i \in DOMAIN h[a].links : h[a].links[i] \in DOMAIN h
    BY <1>1 DEF HeapFits
  <2>2. QED
    BY <1>5, <2>1
<1>17. \A i \in DOMAIN v : v[i] \in DOMAIN h
  <2>1. \A i \in DOMAIN h[p].sources : h[p].sources[i] \in DOMAIN h
    BY <1>1, <1>3 DEF HeapFits
  <2>2. QED
    BY <1>5, <1>8, <2>1
<1> HIDE DEF w
<1>18. HeapFits(g)
  <2>1. ASSUME NEW b \in DOMAIN h
        PROVE  /\ g[b].mainLink \in DOMAIN h \cup { Null }
               /\ g[b].mainLink = Null => g[b].links = << >>
               /\ \A i \in DOMAIN g[b].links : g[b].links[i] \in DOMAIN h
    <3>1. /\ h[b].mainLink \in DOMAIN h \cup { Null }
          /\ h[b].mainLink = Null => h[b].links = << >>
          /\ \A i \in DOMAIN h[b].links : h[b].links[i] \in DOMAIN h
      BY <1>1 DEF HeapFits
    <3>2. CASE b = a
      BY <1>4, <1>7, <1>9, <1>16, <3>1, <3>2
    <3>3. CASE b # a
      BY <1>7, <1>9, <3>1, <3>3
    <3>4. QED
      BY <3>2, <3>3
  <2>2. ASSUME NEW b \in DOMAIN h
        PROVE  \A i \in DOMAIN g[b].sources : g[b].sources[i] \in DOMAIN h
    <3>1. \A i \in DOMAIN h[b].sources : h[b].sources[i] \in DOMAIN h
      BY <1>1 DEF HeapFits
    <3>2. QED
      BY <1>9, <1>17, <3>1
  <2>3. ASSUME NEW b \in DOMAIN h
        PROVE  /\ Adult(g, g[b].parent)
               /\ \A i \in DOMAIN g[b].children : g[b].children[i] \in DOMAIN h
               /\ Adult(g, b) => g[b].name \in Addresses
               /\ ~ Adult(g, b) => g[b].name \in Tags
    BY <1>1, <1>9, <1>14 DEF HeapFits
  <2>4. QED
    BY <1>9, <2>1, <2>2, <2>3 DEF HeapFits
<1>19. SourcesFit(g, more, {})
  <2>1. ASSUME NEW q \in DOMAIN h, NEW b \in DOMAIN h
        PROVE  Heard(g, q, b) = Heard(h, q, b)
                                  + IF b = a /\ q = p THEN 1 ELSE 0
    <3>1. CASE q = p
      <4>1. Hits(v, { b }) = Hits(h[p].sources, { b })
                               + IF a \in { b } THEN 1 ELSE 0
        BY <1>15
      <4>2. QED
        BY <1>9, <3>1, <4>1 DEF Heard
    <3>2. CASE q # p
      <4>1. Heard(g, q, b) = Heard(h, q, b) /\ Heard(h, q, b) \in Nat
        BY <1>1, <1>9, <3>2, CountsAreNatural DEF Heard
      <4>2. QED
        BY <3>2, <4>1
    <3>3. QED
      BY <3>1, <3>2
  <2>2. ASSUME NEW q \in DOMAIN h, NEW b \in DOMAIN h
        PROVE  MainTo(g, b, q) + LinksTo(g, b, q)
                 = MainTo(h, b, q) + LinksTo(h, b, q)
                     + IF b = a /\ q = p THEN 1 ELSE 0
    <3>1. MainTo(h, b, q) \in 0 .. 1 /\ LinksTo(h, b, q) \in Nat
      BY <1>1, CountsAreNatural
    <3>2. CASE b # a
      <4>1. /\ MainTo(g, b, q) = MainTo(h, b, q)
            /\ LinksTo(g, b, q) = LinksTo(h, b, q)
        BY <1>7, <1>9, <1>14, <3>2 DEF MainTo, LinksTo
      <4>2. QED
        BY <3>1, <3>2, <4>1
    <3>3. CASE b = a /\ h[a].mainLink = Null
      <4>1. g[a].mainLink = dest /\ g[a].links = h[a].links
        BY <1>7, <1>9, <3>3
      <4>2. LinksTo(g, a, q) = LinksTo(h, a, q)
        BY <1>14, <4>1 DEF LinksTo
      <4>3. /\ MainTo(h, a, q) = 0
            /\ MainTo(g, a, q) = IF q = p THEN 1 ELSE 0
        BY <1>14, <3>3, <4>1 DEF MainTo
      <4>4. QED
        BY <3>1, <3>3, <4>2, <4>3
    <3>4. CASE b = a /\ h[a].mainLink # Null
      <4>1. g[a].mainLink = h[a].mainLink /\ g[a].links = w
        BY <1>7, <1>9, <3>4
      <4>2. MainTo(g, a, q) = MainTo(h, a, q)
        BY <1>14, <4>1 DEF MainTo
      <4>3. LinksTo(g, a, q) = LinksTo(h, a, q)
                                 + IF dest \in Places(h, q) THEN 1 ELSE 0
        BY <1>14, <1>15, <4>1 DEF LinksTo
      <4>4. QED
        BY <1>14, <3>1, <3>4, <4>2, <4>3
    <3>5. QED
      BY <3>2, <3>3, <3>4
  <2>3. ASSUME NEW q \in DOMAIN h, Adult(h, q)
        PROVE  /\ g[q].freed => g[q].sources = << >>
               /\ \A b \in DOMAIN h :
                    /\ Heard(g, q, b) <= MainTo(g, b, q) + LinksTo(g, b, q)
                    /\ Copies(more, b, q) = Heard(g, q, b)
    <3>1. g[q].freed => g[q].sources = << >>
      BY <1>1, <1>3, <1>9, <2>3 DEF SourcesFit
    <3>2. ASSUME NEW b \in DOMAIN h
          PROVE  /\ Heard(g, q, b) <= MainTo(g, b, q) + LinksTo(g, b, q)
                 /\ Copies(more, b, q) = Heard(g, q, b)
      <4>1. /\ Heard(h, q, b) <= MainTo(h, b, q) + LinksTo(h, b, q)
            /\ Copies(bag, b, q) = Heard(h, q, b)
        BY <1>1, <2>3 DEF SourcesFit
      <4>2. /\ Heard(h, q, b) \in Nat /\ MainTo(h, b, q) \in Nat
            /\ LinksTo(h, b, q) \in Nat
        <5>1. MainTo(h, b, q) \in 0 .. 1 /\ LinksTo(h, b, q) \in Nat
          BY <1>1, CountsAreNatural
        <5>2. Heard(h, q, b) \in Nat
          BY <1>1, CountsAreNatural, Zenon
        <5>3. QED
          BY <5>1, <5>2
      <4>3. QED
        BY <1>12, <2>1, <2>2, <4>1, <4>2
    <3>3. QED
      BY <3>1, <3>2
  <2>4. QED
    BY <1>9, <1>14, <2>3 DEF SourcesFit
<1>20. Good(g, table, more) /\ DOMAIN g = DOMAIN h /\ g \in Seq(Record)
  BY <1>9, <1>11, <1>13, <1>18, <1>19 DEF Good
<1>21. QED
  BY <1>2, <1>20 DEF p, more

-----------------------------------------------------------------------------
(* Finding anchors. *)
Extends(h, g) ==
  /\ DOMAIN h \subseteq DOMAIN g
  /\ \A a \in DOMAIN h :
       /\ g[a].parent = h[a].parent /\ g[a].name = h[a].name
       /\ g[a].freed = h[a].freed

LEMMA Stopping ==
  ASSUME NEW adr \in Addresses, HeapFits(heap), TableFits(heap, adult_table)
  PROVE  /\ Stops(adr) # {} =>
              /\ Adult(heap, Stop(adr))
              /\ Stale(heap, Stop(adr)) \/ Same(heap, Stop(adr), adr)
         /\ Stops(adr) = {} =>
              \A p \in DOMAIN heap : Adult(heap, p) => heap[p].name # adr
<1>1. /\ adult_table \in [ Range(hash) -> Seq(Nat) ]
      /\ hash[adr] \in Range(hash)
      /\ Bucket(adr) = adult_table[hash[adr]]
  BY AnchorAssumption DEF TableFits, Range, Bucket
<1>2. DOMAIN Bucket(adr) \subseteq Nat
  BY <1>1
<1>3. Stops(adr) \in SUBSET Nat
  BY <1>2 DEF Stops
<1>4. ASSUME Stops(adr) # {}
      PROVE  /\ Adult(heap, Stop(adr))
             /\ Stale(heap, Stop(adr)) \/ Same(heap, Stop(adr), adr)
  <2>1. Min(Stops(adr)) \in Stops(adr)
    BY <1>3, <1>4, Least
  <2>2. /\ Min(Stops(adr)) \in DOMAIN Bucket(adr)
        /\ Stale(heap, Stop(adr)) \/ Same(heap, Stop(adr), adr)
    BY <2>1, Zenon DEF Stops, Stop
  <2>3. Adult(heap, Bucket(adr)[Min(Stops(adr))])
    BY <1>1, <2>2 DEF TableFits
  <2>4. QED
    BY <2>2, <2>3 DEF Stop
<1>5. ASSUME Stops(adr) = {}, NEW p \in DOMAIN heap, Adult(heap, p)
      PROVE  heap[p].name # adr
  <2>1. SUFFICES ASSUME heap[p].name = adr
                 PROVE  FALSE
    OBVIOUS
  <2>2. PICK i \in DOMAIN Bucket(adr) : Bucket(adr)[i] = p
    BY <1>1, <1>5, <2>1 DEF TableFits
  <2>3. Same(heap, Bucket(adr)[i], adr)
    BY <2>1, <2>2 DEF Same, equivalent
  <2>4. i \in Stops(adr)
    BY <2>3 DEF Stops
  <2>5. QED
    BY <1>5, <2>4
<1>6. QED
  BY <1>4, <1>5

(* The table after a search for a parent in h. *)
Entered(h, adr) ==
  IF Stops(adr) = {}
  THEN [ adult_table EXCEPT ![hash[adr]] = << Len(h) + 1 >> \o @ ]
  ELSE adult_table

LEMMA ParentFound ==
  ASSUME NEW h, NEW bag, NEW adr \in Addresses, Good(h, adult_table, bag),
         HeapFits(heap), TableFits(heap, adult_table), ~ MeetsStale(adr),
         Extends(heap, h), \A a : Adult(h, a) => Adult(heap, a)
  PROVE  LET r == findParent(h, adr)
         IN  /\ Good(r.heap, Entered(h, adr), bag) /\ Extends(h, r.heap)
             /\ Adult(r.heap, r.anchor) /\ ~ r.heap[r.anchor].freed
<1>1. CASE Stops(adr) # {}
  <2>1. /\ findParent(h, adr).heap = h /\ findParent(h, adr).anchor = Stop(adr)
        /\ Entered(h, adr) = adult_table
    BY <1>1 DEF findParent, Entered
  <2>2. Adult(heap, Stop(adr)) /\ ~ heap[Stop(adr)].freed
    BY <1>1, Stopping DEF MeetsStale, Stale
  <2>3. Adult(h, Stop(adr)) /\ ~ h[Stop(adr)].freed
    BY <2>2 DEF Extends, Adult
  <2>4. QED
    BY <2>1, <2>3 DEF Extends
<1>2. CASE Stops(adr) = {}
  <2> DEFINE x == Len(h) + 1
             g == Append(h, Anchor(x, adr))
  <2>1. /\ findParent(h, adr).heap = g /\ findParent(h, adr).anchor = x
        /\ Entered(h, adr) = [ adult_table EXCEPT ![hash[adr]] = << x >> \o @ ]
    BY <1>2 DEF findParent, Entered
  <2>2. ASSUME NEW p \in DOMAIN h, Adult(h, p)
        PROVE  h[p].name # adr
    <3>1. Adult(heap, p) /\ p \in DOMAIN heap
      BY <2>2 DEF Adult
    <3>2. heap[p].name # adr /\ h[p].name = heap[p].name
      BY <1>2, <3>1, Stopping DEF Extends
    <3>3. QED
      BY <3>2
  <2>3. /\ Good(g, [ adult_table EXCEPT ![hash[adr]] = << x >> \o @ ], bag)
        /\ g \in Seq(Record) /\ Grown(h, g, x)
        /\ Adult(g, x) /\ ~ g[x].freed
        /\ \A a \in DOMAIN h : g[a] = h[a]
    BY <2>2, NewParent
  <2> HIDE DEF g, x
  <2>4. Extends(h, g)
    BY <2>3 DEF Extends, Grown
  <2>5. QED
    BY <2>1, <2>3, <2>4
<1>3. QED
  BY <1>1, <1>2

LEMMA ChildFound ==
  ASSUME NEW h, NEW table, NEW bag, Good(h, table, bag), NEW p, Adult(h, p),
         ~ h[p].freed, NEW tag \in Tags
  PROVE  LET r == findChild(h, p, tag)
         IN  /\ Good(r.heap, table, bag) /\ Extends(h, r.heap)
             /\ r.anchor \in DOMAIN r.heap /\ r.heap[r.anchor].parent = p
             /\ \A a : Adult(r.heap, a) <=> Adult(h, a)
<1> DEFINE kids == h[p].children
           named == { i \in DOMAIN kids :
                        h[kids[i]].name # "" /\ equivalent(h[kids[i]].name, tag) }
           x == Len(h) + 1
           g == [ Append(h, Anchor(p, tag)) EXCEPT ![p].children = << x >> \o @ ]
           r == findChild(h, p, tag)
<1>1. p \in DOMAIN h /\ HeapFits(h) /\ FamilyFits(h, {}) /\ h \in Seq(Record)
  BY DEF Good, Adult, HeapFits
<1>2. CASE tag # "" /\ named # {}
  <2>1. r.heap = h /\ r.anchor = kids[Min(named)]
    BY <1>2 DEF findChild
  <2>2. kids \in Seq(Nat)
    BY <1>1, Fields
  <2>3. named \in SUBSET Nat
    <3> HIDE DEF kids
    <3>1. DOMAIN kids \subseteq Nat
      BY <2>2
    <3>2. named \subseteq DOMAIN kids
      OBVIOUS
    <3> HIDE DEF named
    <3>3. QED
      BY <3>1, <3>2
  <2>4. Min(named) \in DOMAIN kids
    <3>1. Min(named) \in named
      BY <1>2, <2>3, Least
    <3>2. QED
      BY <3>1
  <2>5. kids[Min(named)] \in DOMAIN h
    BY <1>1, <2>4 DEF HeapFits
  <2>6. IsChild(h, kids[Min(named)], p)
    BY <1>1, <2>4, <2>5 DEF FamilyFits
  <2> HIDE DEF kids, named, r
  <2>7. QED
    BY <2>1, <2>5, <2>6 DEF Extends, IsChild, r
<1>3. CASE ~ (tag # "" /\ named # {})
  <2>1. r.heap = g /\ r.anchor = x
    BY <1>3 DEF findChild
  <2>2. /\ Good(g, table, bag) /\ g \in Seq(Record) /\ Grown(h, g, x)
        /\ x \in DOMAIN g /\ g[x].parent = p /\ ~ g[x].freed
        /\ \A a \in DOMAIN h : Adult(g, a) <=> Adult(h, a)
    BY NewChild
  <2>3. ~ Adult(g, x) /\ \A a : a \in DOMAIN g => a \in DOMAIN h \/ a = x
    BY <1>1, <2>2, AnchorNumbers DEF Grown, Adult
  <2> HIDE DEF g, x, r
  <2>4. Extends(h, g)
    BY <2>2 DEF Extends, Grown
  <2>5. \A a : Adult(g, a) <=> Adult(h, a)
    BY <2>2, <2>3 DEF Adult
  <2>6. QED
    BY <2>1, <2>2, <2>4, <2>5 DEF r
<1>4. QED
  BY <1>2, <1>3

-----------------------------------------------------------------------------
(* The operations of the application and of the parser. *)
LEMMA Settled ==
  ASSUME IInv, Quiet
  PROVE  Good(heap, adult_table, made)
<1>1. Leaving(<< >>) = {} /\ Deleting(<< >>) = {}
  BY DEF Leaving, Deleting
<1>2. QED
  BY <1>1 DEF IInv, Quiet, Running, Good

LEMMA HeapTyped ==
  ASSUME NEW h, HeapFits(h)
  PROVE  \A a \in DOMAIN h :
           /\ Adult(h, h[a].parent)
           /\ h[a].mainLink \in DOMAIN h \cup { Null }
           /\ Range(h[a].links) \cup Range(h[a].sources) \subseteq DOMAIN h
           /\ Adult(h, a) => h[a].name \in Addresses
           /\ ~ Adult(h, a) => h[a].name \in Tags
BY DEF HeapFits, Range

LEMMA Typed ==
  ASSUME HeapFits(heap'), Len(heap') <= MaxAnchors,
         status' \in { "running", "use after free", "stack overflow" },
         calls' \in Seq([ at : OfDelete \cup OfLinks, me : DOMAIN heap',
                          child : DOMAIN heap' \cup { Null } ]),
         Len(calls') <= MaxCalls + 1
  PROVE  TypeOK'
<1>1. OfDelete \cup OfLinks = { "delete", "sources", "kids", "children", "child",
                                "deleteLinks", "links" }
  BY DEF OfDelete, OfLinks
<1>2. Adults' = { a \in DOMAIN heap' : Adult(heap', a) }
  BY DEF Adults, Adult
<1>3. ASSUME NEW a \in DOMAIN heap'
      PROVE  /\ heap'[a].parent \in Adults'
             /\ heap'[a].mainLink \in DOMAIN heap' \cup { Null }
             /\ Range(heap'[a].links) \cup Range(heap'[a].sources)
                  \subseteq DOMAIN heap'
             /\ a \in Adults' => heap'[a].name \in Addresses
             /\ a \notin Adults' => heap'[a].name \in Tags
  <2>1. /\ Adult(heap', heap'[a].parent)
        /\ heap'[a].mainLink \in DOMAIN heap' \cup { Null }
        /\ Range(heap'[a].links) \cup Range(heap'[a].sources)
             \subseteq DOMAIN heap'
        /\ Adult(heap', a) => heap'[a].name \in Addresses
        /\ ~ Adult(heap', a) => heap'[a].name \in Tags
    BY HeapTyped
  <2>2. heap'[a].parent \in DOMAIN heap'
    BY <2>1 DEF Adult
  <2>3. QED
    BY <1>2, <2>1, <2>2
<1>4. QED
  BY <1>1, <1>3 DEF TypeOK

LEMMA QuietStep ==
  ASSUME IInv, Quiet, Good(heap, adult_table, made)', (Len(heap) <= MaxAnchors)',
         UNCHANGED << calls, status >>
  PROVE  IInv'
<1>1. calls' = << >> /\ status' = "running" /\ MaxCalls \in Nat
  BY AnchorAssumption DEF Quiet
<1>2. Leaving(calls)' = {} /\ Deleting(calls)' = {}
  BY <1>1 DEF Leaving, Deleting
<1>3. CallsFit(heap, calls)'
  BY <1>1 DEF CallsFit
<1>4. HeapFits(heap)' /\ TableFits(heap, adult_table)' /\ BagFits(heap, made)'
  BY DEF Good
<1>5. Running'
  BY <1>2, <1>3 DEF Running, Good
<1>6. /\ (Len(calls) <= MaxCalls + 1)'
      /\ (calls \in Seq([ at : OfDelete \cup OfLinks, me : DOMAIN heap,
                          child : DOMAIN heap \cup { Null } ]))'
  BY <1>1
<1>7. TypeOK'
  BY <1>1, <1>4, <1>6, Typed
<1>8. QED
  BY <1>4, <1>5, <1>7 DEF IInv

LEMMA Ended ==
  ASSUME IInv, NEW how \in { "use after free", "stack overflow" }, Ends(how)
  PROVE  IInv'
<1>1. /\ UNCHANGED << heap, adult_table, calls, made >> /\ status' = how
      /\ HeapFits(heap) /\ TableFits(heap, adult_table) /\ BagFits(heap, made)
      /\ TypeOK
  BY DEF Ends, IInv
<1>2. HeapFits(heap)' /\ TableFits(heap, adult_table)' /\ BagFits(heap, made)'
  BY <1>1
<1>3. TypeOK'
  BY <1>1 DEF TypeOK, Adults
<1>4. QED
  BY <1>1, <1>2, <1>3 DEF IInv

LEMMA AddressFound ==
  ASSUME NEW h, NEW bag, NEW adr \in Addresses, NEW tag \in Tags,
         Good(h, adult_table, bag), HeapFits(heap), TableFits(heap, adult_table),
         ~ MeetsStale(adr), Extends(heap, h), \A a : Adult(h, a) => Adult(heap, a)
  PROVE  LET r == findAddress(h, adr, tag)
         IN  /\ Good(r.heap, Entered(h, adr), bag) /\ Extends(h, r.heap)
             /\ r.anchor \in DOMAIN r.heap
             /\ ~ r.heap[r.heap[r.anchor].parent].freed
<1> DEFINE u == findParent(h, adr)
           r == findAddress(h, adr, tag)
<1>1. /\ Good(u.heap, Entered(h, adr), bag) /\ Extends(h, u.heap)
      /\ Adult(u.heap, u.anchor) /\ ~ u.heap[u.anchor].freed
  BY ParentFound
<1>2. CASE tag = ""
  <2>1. r = u
    BY <1>2 DEF findAddress
  <2> HIDE DEF r, u
  <2>2. QED
    BY <1>1, <2>1 DEF Adult, r
<1>3. CASE tag # ""
  <2>1. r = findChild(u.heap, u.anchor, tag)
    BY <1>3 DEF findAddress
  <2> HIDE DEF r, u
  <2>2. /\ Good(r.heap, Entered(h, adr), bag) /\ Extends(u.heap, r.heap)
        /\ r.anchor \in DOMAIN r.heap /\ r.heap[r.anchor].parent = u.anchor
    BY <1>1, <2>1, ChildFound
  <2>3. ~ r.heap[u.anchor].freed
    BY <1>1, <2>2 DEF Extends, Adult
  <2>4. Extends(h, r.heap)
    BY <1>1, <2>2 DEF Extends
  <2>5. QED
    BY <2>2, <2>3, <2>4 DEF r
<1>4. QED
  BY <1>2, <1>3

LEMMA FindAddressKeeps ==
  ASSUME IInv, NEW adr \in Addresses, NEW tag \in Tags,
         HTAnchor_findAddress(adr, tag)
  PROVE  IInv'
<1>1. Quiet
  BY DEF HTAnchor_findAddress
<1>2. CASE MeetsStale(adr)
  BY <1>2, Ended DEF HTAnchor_findAddress
<1>3. CASE ~ MeetsStale(adr)
  <2>1. /\ heap' = findAddress(heap, adr, tag).heap /\ Len(heap') <= MaxAnchors
        /\ Enter(heap, adr) /\ UNCHANGED << calls, status, made >>
    BY <1>3 DEF HTAnchor_findAddress
  <2>2. adult_table' = Entered(heap, adr)
    BY <2>1 DEF Enter, Entered
  <2>3. Good(heap, adult_table, made) /\ HeapFits(heap)
        /\ TableFits(heap, adult_table) /\ Extends(heap, heap)
    BY <1>1, Settled DEF Good, Extends
  <2>4. Good(heap', adult_table', made)
    BY <1>3, <2>1, <2>2, <2>3, AddressFound
  <2>5. QED
    BY <1>1, <2>1, <2>4, QuietStep
<1>4. QED
  BY <1>2, <1>3

LEMMA ParentsAreAdult ==
  ASSUME NEW p \in Parents
  PROVE  Adult(heap, p) /\ ~ heap[p].freed
BY DEF Parents, Live, Adults, Adult

LEMMA FindChildKeeps ==
  ASSUME IInv, NEW p, NEW tag \in Tags, HTAnchor_findChild(p, tag)
  PROVE  IInv'
<1>1. /\ Quiet /\ p \in Parents /\ heap' = findChild(heap, p, tag).heap
      /\ Len(heap') <= MaxAnchors
      /\ UNCHANGED << adult_table, calls, status, made >>
  BY DEF HTAnchor_findChild
<1>2. Good(heap, adult_table, made) /\ Adult(heap, p) /\ ~ heap[p].freed
  BY <1>1, Settled, ParentsAreAdult
<1>3. Good(heap', adult_table, made)
  BY <1>1, <1>2, ChildFound
<1>4. QED
  BY <1>1, <1>3, QuietStep

LEMMA SameLength ==
  ASSUME NEW h \in Seq(Record), NEW g \in Seq(Record), DOMAIN g = DOMAIN h
  PROVE  Len(g) = Len(h)
OBVIOUS

LEMMA LinkKeeps ==
  ASSUME IInv, NEW a, NEW dest, HTAnchor_link(a, dest)
  PROVE  IInv'
<1>1. /\ Quiet /\ a \in Parents /\ dest \in Live
      /\ heap' = link(heap, a, dest)
      /\ made' = made (+) SetToBag({ << a, heap[dest].parent >> })
      /\ UNCHANGED << adult_table, calls, status >>
  BY DEF HTAnchor_link
<1>2. /\ Good(heap, adult_table, made) /\ HeapFits(heap) /\ FamilyFits(heap, {})
      /\ heap \in Seq(Record) /\ Len(heap) <= MaxAnchors
  BY <1>1, Settled DEF Good, HeapFits, IInv, TypeOK
<1>3. a \in DOMAIN heap /\ dest \in DOMAIN heap /\ ~ heap[dest].freed
  BY <1>1 DEF Parents, Live
<1>4. ~ heap[heap[dest].parent].freed
  <2> DEFINE p == heap[dest].parent
  <2>1. CASE p = dest
    BY <1>3, <2>1
  <2>2. CASE p # dest
    <3>1. IsChild(heap, dest, p) /\ Adult(heap, p)
      BY <1>2, <1>3, <2>2 DEF IsChild, HeapFits
    <3>2. \E i \in DOMAIN heap[p].children : heap[p].children[i] = dest
      BY <1>2, <1>3, <3>1 DEF FamilyFits, Adult
    <3>3. heap[p].children # << >>
      BY <3>2
    <3>4. QED
      BY <1>2, <3>1, <3>3 DEF FamilyFits, Adult
  <2>3. QED
    BY <2>1, <2>2
<1>5. /\ Good(heap', adult_table, made') /\ heap' \in Seq(Record)
      /\ DOMAIN heap' = DOMAIN heap
  BY <1>1, <1>2, <1>3, <1>4, Linked
<1>6. Len(heap') <= MaxAnchors
  BY <1>2, <1>5, SameLength
<1>7. QED
  BY <1>1, <1>5, <1>6, QuietStep

LEMMA FindChildAndLinkKeeps ==
  ASSUME IInv, NEW p, NEW tag \in Tags, NEW adr \in Addresses, NEW dtag \in Tags,
         HTAnchor_findChildAndLink(p, tag, adr, dtag)
  PROVE  IInv'
<1> DEFINE child == findChild(heap, p, tag)
           dest == findAddress(child.heap, adr, dtag)
<1>1. Quiet /\ p \in Parents
  BY DEF HTAnchor_findChildAndLink
<1>2. CASE MeetsStale(adr)
  BY <1>2, Ended DEF HTAnchor_findChildAndLink
<1>3. CASE ~ MeetsStale(adr)
  <2>1. /\ heap' = link(dest.heap, child.anchor, dest.anchor)
        /\ Len(heap') <= MaxAnchors /\ Enter(child.heap, adr)
        /\ made' = made (+) SetToBag({ << child.anchor,
                                          dest.heap[dest.anchor].parent >> })
        /\ UNCHANGED << calls, status >>
    BY <1>3 DEF HTAnchor_findChildAndLink
  <2>2. /\ Good(heap, adult_table, made) /\ HeapFits(heap)
        /\ TableFits(heap, adult_table) /\ Adult(heap, p) /\ ~ heap[p].freed
    BY <1>1, Settled, ParentsAreAdult DEF Good
  <2>3. /\ Good(child.heap, adult_table, made) /\ Extends(heap, child.heap)
        /\ child.anchor \in DOMAIN child.heap
        /\ \A a : Adult(child.heap, a) => Adult(heap, a)
    BY <2>2, ChildFound
  <2> HIDE DEF child
  <2>4. adult_table' = Entered(child.heap, adr)
    BY <2>1 DEF Enter, Entered
  <2>5. /\ Good(dest.heap, adult_table', made) /\ Extends(child.heap, dest.heap)
        /\ dest.anchor \in DOMAIN dest.heap
        /\ ~ dest.heap[dest.heap[dest.anchor].parent].freed
    BY <1>3, <2>2, <2>3, <2>4, AddressFound
  <2>6. child.anchor \in DOMAIN dest.heap
    BY <2>3, <2>5 DEF Extends
  <2> HIDE DEF dest
  <2>7. Good(heap', adult_table', made')
    BY <2>1, <2>5, <2>6, Linked
  <2>8. QED
    BY <1>1, <2>1, <2>7, QuietStep
<1>4. QED
  BY <1>2, <1>3

-----------------------------------------------------------------------------
(* A list that has lost one element. *)
LEMMA ElementsWithout ==
  ASSUME NEW S, NEW s \in Seq(S), NEW r \in Seq(S), NEW i \in 1 .. Len(s),
         Without(s, i, r)
  PROVE  /\ \A j \in DOMAIN r : \E k \in DOMAIN s : k # i /\ s[k] = r[j]
         /\ \A k \in DOMAIN s : k # i => \E j \in DOMAIN r : r[j] = s[k]
         /\ IsInjective(s) =>
              IsInjective(r) /\ \A j \in DOMAIN r : r[j] # s[i]
<1>1. /\ Len(s) \in Nat /\ Len(r) = Len(s) - 1 /\ DOMAIN s = 1 .. Len(s)
      /\ DOMAIN r = 1 .. Len(s) - 1 /\ i \in 1 .. Len(s)
      /\ \A j \in 1 .. i - 1 : r[j] = s[j]
      /\ \A j \in i .. Len(s) - 1 : r[j] = s[j + 1]
  BY DEF Without
<1> DEFINE to(j) == IF j < i THEN j ELSE j + 1
<1>2. ASSUME NEW j \in DOMAIN r
      PROVE  to(j) \in DOMAIN s /\ to(j) # i /\ s[to(j)] = r[j]
  BY <1>1
<1>3. ASSUME NEW k \in DOMAIN s, k # i
      PROVE  \E j \in DOMAIN r : r[j] = s[k]
  <2>1. CASE k < i
    <3>1. k \in DOMAIN r /\ r[k] = s[k]
      BY <1>1, <2>1
    <3>2. QED
      BY <3>1
  <2>2. CASE k > i
    <3>1. k - 1 \in DOMAIN r /\ r[k - 1] = s[(k - 1) + 1] /\ (k - 1) + 1 = k
      BY <1>1, <2>2
    <3>2. QED
      BY <3>1
  <2>3. QED
    BY <1>1, <1>3, <2>1, <2>2
<1>4. ASSUME IsInjective(s), NEW j \in DOMAIN r, NEW k \in DOMAIN r, r[j] = r[k]
      PROVE  j = k
  <2>1. to(j) = to(k)
    <3>1. to(j) \in DOMAIN s /\ to(k) \in DOMAIN s /\ s[to(j)] = s[to(k)]
      BY <1>2, <1>4
    <3> HIDE DEF to
    <3>2. QED
      BY <1>4, <3>1 DEF IsInjective
  <2>2. QED
    BY <1>1, <2>1
<1>5. ASSUME IsInjective(s), NEW j \in DOMAIN r
      PROVE  r[j] # s[i]
  <2>1. to(j) \in DOMAIN s /\ i \in DOMAIN s /\ to(j) # i /\ s[to(j)] = r[j]
    BY <1>1, <1>2
  <2> HIDE DEF to
  <2>2. QED
    BY <1>5, <2>1 DEF IsInjective
<1>6. ASSUME NEW j \in DOMAIN r
      PROVE  \E k \in DOMAIN s : k # i /\ s[k] = r[j]
  BY <1>2
<1> HIDE DEF to
<1>7. QED
  BY <1>3, <1>4, <1>5, <1>6 DEF IsInjective

LEMMA HeapKept ==
  ASSUME NEW h, NEW g, HeapFits(h), g \in Seq(Record), SameAnchors(h, g),
         \A a \in DOMAIN h :
           /\ g[a].mainLink \in DOMAIN h \cup { Null }
           /\ g[a].mainLink = Null => g[a].links = << >>
           /\ \A i \in DOMAIN g[a].links    : g[a].links[i] \in DOMAIN h
           /\ \A i \in DOMAIN g[a].sources  : g[a].sources[i] \in DOMAIN h
           /\ \A i \in DOMAIN g[a].children : g[a].children[i] \in DOMAIN h
  PROVE  HeapFits(g)
<1>1. ASSUME NEW a \in DOMAIN h
      PROVE  /\ Adult(g, g[a].parent)
             /\ Adult(g, a) => g[a].name \in Addresses
             /\ ~ Adult(g, a) => g[a].name \in Tags
  <2>1. g[a].parent = h[a].parent /\ g[a].name = h[a].name
    BY DEF SameAnchors
  <2>2. /\ Adult(h, h[a].parent) /\ (Adult(h, a) => h[a].name \in Addresses)
        /\ (~ Adult(h, a) => h[a].name \in Tags)
    BY DEF HeapFits
  <2>3. QED
    BY <2>1, <2>2, SameAdults
<1>2. DOMAIN g = DOMAIN h
  BY DEF SameAnchors
<1>3. QED
  BY <1>1, <1>2 DEF HeapFits

LEMMA HeapOfSameLinks ==
  ASSUME NEW h, NEW g, HeapFits(h), g \in Seq(Record), SameLinks(h, g),
         \A a \in DOMAIN h : \A i \in DOMAIN g[a].children :
           g[a].children[i] \in DOMAIN h
  PROVE  HeapFits(g)
<1>1. SameAnchors(h, g)
  BY DEF SameLinks
<1>2. ASSUME NEW a \in DOMAIN h
      PROVE  /\ g[a].mainLink \in DOMAIN h \cup { Null }
             /\ g[a].mainLink = Null => g[a].links = << >>
             /\ \A i \in DOMAIN g[a].links    : g[a].links[i] \in DOMAIN h
             /\ \A i \in DOMAIN g[a].sources  : g[a].sources[i] \in DOMAIN h
  BY DEF HeapFits, SameLinks
<1>3. QED
  BY <1>1, <1>2, HeapKept

LEMMA SetDocumentKeeps ==
  ASSUME IInv, NEW p, NEW doc \in BOOLEAN, HTAnchor_setDocument(p, doc)
  PROVE  IInv'
<1>1. /\ Quiet /\ p \in Parents /\ DocumentSet(heap, p, doc, heap')
      /\ UNCHANGED << adult_table, calls, status, made >>
  BY DEF HTAnchor_setDocument, DocumentSet
<1>2. /\ HeapFits(heap) /\ TableFits(heap, adult_table) /\ BagFits(heap, made)
      /\ FamilyFits(heap, {}) /\ SourcesFit(heap, made, {})
      /\ heap \in Seq(Record) /\ p \in DOMAIN heap
  BY <1>1, Settled, ParentsAreAdult DEF Good, HeapFits, Adult
<1>3. /\ heap' \in Seq(Record) /\ DOMAIN heap' = DOMAIN heap
      /\ SameFamily(heap, heap') /\ SameLinks(heap, heap')
  <2>1. /\ heap' \in Seq(Record) /\ DOMAIN heap' = DOMAIN heap
        /\ \A b \in DOMAIN heap :
             /\ heap'[b].parent = heap[b].parent /\ heap'[b].name = heap[b].name
             /\ heap'[b].mainLink = heap[b].mainLink
             /\ heap'[b].links = heap[b].links
             /\ heap'[b].children = heap[b].children
             /\ heap'[b].sources = heap[b].sources
             /\ heap'[b].freed = heap[b].freed
    BY <1>1, <1>2, SetDocument
  <2>2. QED
    BY <2>1 DEF SameFamily, SameLinks, SameAnchors
<1>4. HeapFits(heap')
  BY <1>2, <1>3, HeapOfSameLinks DEF SameFamily, HeapFits
<1>5. TableFits(heap', adult_table) /\ FamilyFits(heap', {})
  BY <1>2, <1>3, TableKept, FamilyKept DEF SameFamily
<1>6. SourcesFit(heap', made, {})
  BY <1>2, <1>3, SourcesKept DEF SameFamily
<1>7. BagFits(heap', made)
  BY <1>2, <1>3 DEF BagFits
<1>8. Len(heap') <= MaxAnchors
  BY <1>2, <1>3, SameLength DEF IInv, TypeOK
<1>9. QED
  BY <1>1, <1>4, <1>5, <1>6, <1>7, <1>8, QuietStep DEF Good

LEMMA MakeLastChildKeeps ==
  ASSUME IInv, NEW a, HTAnchor_makeLastChild(a)
  PROVE  IInv'
<1> DEFINE p == heap[a].parent
           kids == heap[p].children
           r == RemoveFirst(kids, a)
           now == << a >> \o r
<1>1. /\ Quiet /\ a \in Live \ Adults
      /\ ChildrenSet(heap, p, now, heap')
      /\ UNCHANGED << adult_table, calls, status, made >>
  BY DEF HTAnchor_makeLastChild, ChildrenSet
<1>2. /\ HeapFits(heap) /\ TableFits(heap, adult_table) /\ BagFits(heap, made)
      /\ FamilyFits(heap, {}) /\ SourcesFit(heap, made, {})
      /\ heap \in Seq(Record) /\ a \in DOMAIN heap
  BY <1>1, Settled DEF Good, HeapFits, Live
<1>3. Adult(heap, p) /\ p \in DOMAIN heap /\ IsChild(heap, a, p) /\ a \in Nat
  BY <1>1, <1>2, AnchorNumbers DEF HeapFits, Adult, IsChild, Live, Adults
<1>4. kids \in Seq(Nat)
  BY <1>2, <1>3, Fields
<1>5. /\ IsInjective(kids)
      /\ \A c \in DOMAIN heap :
           (\E i \in DOMAIN kids : kids[i] = c) <=> IsChild(heap, c, p)
      /\ heap[p].freed => kids = << >>
  BY <1>2, <1>3 DEF FamilyFits
<1>6. \A i \in DOMAIN kids : kids[i] \in DOMAIN heap
  BY <1>2, <1>3 DEF HeapFits
<1> HIDE DEF p, kids
<1>7. r \in Seq(Nat)
  BY <1>4, RemovedFirst
<1>8. PICK i \in 1 .. Len(kids) : kids[i] = a /\ Without(kids, i, r)
  BY <1>2, <1>3, <1>4, <1>5, RemovedFirst
<1> HIDE DEF r
<1>9. /\ \A j \in DOMAIN r : \E k \in DOMAIN kids : kids[k] = r[j]
      /\ \A k \in DOMAIN kids : k # i => \E j \in DOMAIN r : r[j] = kids[k]
      /\ IsInjective(r) /\ \A j \in DOMAIN r : r[j] # a
  BY <1>4, <1>5, <1>7, <1>8, ElementsWithout
<1>10. /\ now \in Seq(Nat) /\ Len(now) = Len(r) + 1 /\ now[1] = a
       /\ \A j \in 1 .. Len(r) : now[j + 1] = r[j]
  BY <1>3, <1>7, Pushed
<1> HIDE DEF now
<1>11. /\ DOMAIN now = 1 .. Len(r) + 1
       /\ DOMAIN r = 1 .. Len(r) /\ Len(r) \in Nat
       /\ 1 \in DOMAIN now
  BY <1>7, <1>10
<1>12. ASSUME NEW j \in DOMAIN now
       PROVE  j = 1 \/ (j - 1 \in DOMAIN r /\ now[j] = r[j - 1])
  BY <1>10, <1>11
<1>13. ASSUME NEW j \in DOMAIN r
       PROVE  j + 1 \in DOMAIN now /\ now[j + 1] = r[j]
  BY <1>10, <1>11
<1>14. IsInjective(now)
  <2>1. ASSUME NEW j \in DOMAIN now, NEW k \in DOMAIN now, now[j] = now[k],
               j # 1, k # 1
        PROVE  j = k
    <3>1. j - 1 \in DOMAIN r /\ k - 1 \in DOMAIN r /\ r[j - 1] = r[k - 1]
      BY <1>12, <2>1
    <3>2. j - 1 = k - 1
      BY <1>9, <3>1 DEF IsInjective
    <3>3. QED
      BY <1>11, <3>2
  <2>2. ASSUME NEW j \in DOMAIN now, j # 1
        PROVE  now[j] # a
    BY <1>9, <1>12, <2>2
  <2>3. QED
    BY <1>10, <2>1, <2>2 DEF IsInjective
<1>15. ASSUME NEW c
       PROVE  (\E j \in DOMAIN now : now[j] = c) <=> \E k \in DOMAIN kids : kids[k] = c
  <2>1. ASSUME NEW j \in DOMAIN now, now[j] = c
        PROVE  \E k \in DOMAIN kids : kids[k] = c
    <3>1. CASE j = 1
      BY <1>8, <1>10, <2>1, <3>1, <1>4
    <3>2. CASE j # 1
      BY <1>9, <1>12, <2>1, <3>2
    <3>3. QED
      BY <3>1, <3>2
  <2>2. ASSUME NEW k \in DOMAIN kids, kids[k] = c
        PROVE  \E j \in DOMAIN now : now[j] = c
    <3>1. CASE k = i
      BY <1>8, <1>10, <1>11, <2>2, <3>1
    <3>2. CASE k # i
      BY <1>9, <1>13, <2>2, <3>2
    <3>3. QED
      BY <3>1, <3>2
  <2>3. QED
    BY <2>1, <2>2
<1>16. /\ heap' \in Seq(Record) /\ DOMAIN heap' = DOMAIN heap
       /\ heap'[p].children = now
       /\ \A b \in DOMAIN heap :
            /\ heap'[b].parent = heap[b].parent /\ heap'[b].name = heap[b].name
            /\ heap'[b].mainLink = heap[b].mainLink
            /\ heap'[b].links = heap[b].links
            /\ heap'[b].sources = heap[b].sources
            /\ heap'[b].freed = heap[b].freed
            /\ b # p => heap'[b].children = heap[b].children
  BY <1>1, <1>2, <1>3, <1>10, SetChildren
<1>17. SameLinks(heap, heap') /\ SameAnchors(heap, heap')
  BY <1>16 DEF SameLinks, SameAnchors
<1>18. HeapFits(heap')
  <2>1. ASSUME NEW b \in DOMAIN heap, NEW j \in DOMAIN heap'[b].children
        PROVE  heap'[b].children[j] \in DOMAIN heap
    <3>1. CASE b = p
      <4>1. heap'[b].children = now /\ j \in DOMAIN now
        BY <1>16, <2>1, <3>1
      <4>2. PICK k \in DOMAIN kids : kids[k] = now[j]
        BY <1>15, <4>1
      <4>3. QED
        BY <1>6, <4>1, <4>2
    <3>2. CASE b # p
      <4>1. heap'[b].children = heap[b].children
        BY <1>16, <3>2
      <4>2. QED
        BY <1>2, <2>1, <4>1 DEF HeapFits
    <3>3. QED
      BY <3>1, <3>2
  <2>2. QED
    BY <1>2, <1>16, <1>17, <2>1, HeapOfSameLinks
<1>19. FamilyFits(heap', {})
  <2>1. ASSUME NEW b \in DOMAIN heap, NEW c \in DOMAIN heap
        PROVE  IsChild(heap', c, b) <=> IsChild(heap, c, b)
    BY <1>16 DEF IsChild
  <2>2. ASSUME NEW b \in DOMAIN heap, Adult(heap, b), b # p
        PROVE  /\ IsInjective(heap'[b].children)
               /\ \A c \in DOMAIN heap :
                    (\E j \in DOMAIN heap'[b].children : heap'[b].children[j] = c)
                      <=> IsChild(heap', c, b) /\ c \notin {}
               /\ heap'[b].freed => heap'[b].children = << >>
    <3>1. heap'[b].children = heap[b].children /\ heap'[b].freed = heap[b].freed
      BY <1>16, <2>2
    <3>2. QED
      BY <1>2, <2>1, <2>2, <3>1 DEF FamilyFits
  <2>3. /\ \A c \in DOMAIN heap :
             (\E j \in DOMAIN now : now[j] = c) <=> IsChild(heap', c, p)
        /\ ~ heap'[p].freed
    <3>1. ASSUME NEW c \in DOMAIN heap
          PROVE  (\E j \in DOMAIN now : now[j] = c) <=> IsChild(heap', c, p)
      BY <1>3, <1>5, <1>15, <2>1
    <3>2. \E k \in DOMAIN kids : kids[k] = a
      BY <1>2, <1>3, <1>5
    <3>3. kids # << >>
      BY <3>2
    <3>4. QED
      BY <1>3, <1>5, <1>16, <3>1, <3>3
  <2>4. QED
    BY <1>14, <1>16, <1>17, <2>2, <2>3, SameAdults DEF FamilyFits, Adult
<1>20. TableFits(heap', adult_table) /\ BagFits(heap', made)
  BY <1>2, <1>16, <1>17, TableKept DEF BagFits
<1>21. SourcesFit(heap', made, {})
  BY <1>2, <1>16, <1>17, SourcesKept
<1>22. Len(heap') <= MaxAnchors
  BY <1>2, <1>16, SameLength DEF IInv, TypeOK
<1>23. QED
  BY <1>1, <1>18, <1>19, <1>20, <1>21, <1>22, QuietStep DEF Good

LEMMA MakeMainLinkKeeps ==
  ASSUME IInv, NEW a, NEW i, HTAnchor_makeMainLink(a, i)
  PROVE  IInv'
<1> DEFINE m == heap[a].mainLink
           links == heap[a].links
           d == links[i]
           r == RemoveAt(links, i)
           now == << m >> \o r
           f == [ heap EXCEPT ![a].mainLink = d ]
<1>1. /\ Quiet /\ a \in DOMAIN heap /\ i \in DOMAIN links
      /\ heap' = [ heap EXCEPT ![a].mainLink = d,
                               ![a].links = << m >> \o RemoveAt(@, i) ]
      /\ UNCHANGED << adult_table, calls, status, made >>
  BY DEF HTAnchor_makeMainLink, Live
<1>2. /\ HeapFits(heap) /\ TableFits(heap, adult_table) /\ BagFits(heap, made)
      /\ FamilyFits(heap, {}) /\ SourcesFit(heap, made, {})
      /\ heap \in Seq(Record) /\ Null \notin DOMAIN heap
  BY <1>1, Settled, AnchorNumbers DEF Good, HeapFits
<1>3. links \in Seq(Nat) /\ m \in Nat
  BY <1>1, <1>2, Fields
<1>4. /\ m \in DOMAIN heap \cup { Null } /\ (m = Null => links = << >>)
      /\ \A j \in DOMAIN links : links[j] \in DOMAIN heap
  BY <1>1, <1>2 DEF HeapFits
<1>5. links # << >> /\ i \in 1 .. Len(links)
  <2> HIDE DEF links
  <2>1. QED
    BY <1>1, <1>3
<1>6. /\ m \in DOMAIN heap /\ m # Null
      /\ d \in DOMAIN heap /\ d # Null /\ d \in Nat
  <2>1. m # Null /\ d \in DOMAIN heap
    BY <1>1, <1>4, <1>5
  <2>2. QED
    BY <1>2, <1>4, <2>1, AnchorNumbers
<1>7. MainLinkSet(heap, a, d, f)
  BY DEF MainLinkSet
<1>8. /\ f \in Seq(Record) /\ DOMAIN f = DOMAIN heap /\ f[a].mainLink = d
      /\ \A b \in DOMAIN heap :
           /\ f[b].parent = heap[b].parent /\ f[b].name = heap[b].name
           /\ f[b].links = heap[b].links /\ f[b].children = heap[b].children
           /\ f[b].sources = heap[b].sources
           /\ f[b].document = heap[b].document /\ f[b].freed = heap[b].freed
           /\ b # a => f[b].mainLink = heap[b].mainLink
  <2> HIDE DEF f, d
  <2>1. QED
    BY <1>1, <1>2, <1>6, <1>7, SetMainLink
<1>9. LinksSet(f, a, now, heap')
  <2>1. f[a].links = links
    BY <1>1, <1>8
  <2>2. heap' = [ f EXCEPT ![a].links = << m >> \o RemoveAt(@, i) ]
    BY <1>1
  <2> HIDE DEF f, m, links
  <2>3. QED
    BY <2>1, <2>2 DEF LinksSet
<1> HIDE DEF f, m, links, d
<1>10. r \in Seq(Nat) /\ Without(links, i, r)
  BY <1>3, <1>5, RemovedAt
<1> HIDE DEF r
<1>11. now \in Seq(Nat)
  BY <1>3, <1>10, Pushed
<1>12. ASSUME NEW j \in DOMAIN now
       PROVE  now[j] \in DOMAIN heap
  <2>1. /\ Len(now) = Len(r) + 1 /\ now[1] = m
        /\ \A k \in 1 .. Len(r) : now[k + 1] = r[k]
    BY <1>3, <1>10, Pushed
  <2>2. \A k \in DOMAIN r : r[k] \in DOMAIN heap
    <3>1. \A k \in DOMAIN r : \E l \in DOMAIN links : links[l] = r[k]
      BY <1>3, <1>5, <1>10, ElementsWithout
    <3>2. QED
      BY <1>4, <3>1
  <2> HIDE DEF now
  <2>3. j = 1 \/ (j - 1 \in DOMAIN r /\ now[j] = r[j - 1])
    <3>1. /\ DOMAIN now = 1 .. Len(r) + 1 /\ DOMAIN r = 1 .. Len(r)
          /\ Len(r) \in Nat
      BY <1>10, <1>11, <2>1
    <3>2. QED
      BY <1>12, <2>1, <3>1
  <2>4. QED
    BY <1>6, <2>1, <2>2, <2>3
<1>13. ASSUME NEW T
       PROVE  Hits(now, T) + (IF d \in T THEN 1 ELSE 0)
                = Hits(links, T) + IF m \in T THEN 1 ELSE 0
  <2>1. Hits(now, T) = Hits(r, T) + IF m \in T THEN 1 ELSE 0
    BY <1>3, <1>10, HitsPushed
  <2>2. Hits(links, T) = Hits(r, T) + IF d \in T THEN 1 ELSE 0
    BY <1>3, <1>5, <1>10, HitsWithout DEF d
  <2>3. Hits(r, T) \in Nat
    BY <1>10, HitsFinite
  <2>4. QED
    BY <2>1, <2>2, <2>3
<1> HIDE DEF now
<1>14. /\ heap' \in Seq(Record) /\ DOMAIN heap' = DOMAIN heap
       /\ heap'[a].links = now /\ heap'[a].mainLink = d
       /\ \A b \in DOMAIN heap :
            /\ heap'[b].parent = heap[b].parent /\ heap'[b].name = heap[b].name
            /\ heap'[b].children = heap[b].children
            /\ heap'[b].sources = heap[b].sources
            /\ heap'[b].freed = heap[b].freed
            /\ b # a => heap'[b].mainLink = heap[b].mainLink
                          /\ heap'[b].links = heap[b].links
  <2>1. a \in DOMAIN f /\ f \in Seq(Record)
    BY <1>1, <1>8
  <2>2. /\ heap' \in Seq(Record) /\ DOMAIN heap' = DOMAIN f
        /\ heap'[a].links = now
        /\ \A b \in DOMAIN f :
             /\ heap'[b].parent = f[b].parent /\ heap'[b].name = f[b].name
             /\ heap'[b].mainLink = f[b].mainLink
             /\ heap'[b].children = f[b].children
             /\ heap'[b].sources = f[b].sources
             /\ heap'[b].document = f[b].document
             /\ heap'[b].freed = f[b].freed
             /\ b # a => heap'[b].links = f[b].links
    <3>1. now \in Seq(Nat) /\ LinksSet(f, a, now, heap')
      BY <1>9, <1>11
    <3>2. QED
      BY <2>1, <3>1, SetLinks
  <2>3. ASSUME NEW b \in DOMAIN heap
        PROVE  /\ heap'[b].parent = heap[b].parent
               /\ heap'[b].name = heap[b].name
               /\ heap'[b].children = heap[b].children
               /\ heap'[b].sources = heap[b].sources
               /\ heap'[b].freed = heap[b].freed
               /\ b # a => heap'[b].mainLink = heap[b].mainLink
                             /\ heap'[b].links = heap[b].links
    <3>1. b \in DOMAIN f
      BY <1>8
    <3>2. QED
      BY <1>8, <2>2, <3>1
  <2>4. heap'[a].mainLink = d
    BY <1>8, <2>1, <2>2
  <2>5. QED
    BY <1>8, <2>2, <2>3, <2>4
<1>15. SameFamily(heap, heap') /\ SameAnchors(heap, heap')
  BY <1>14 DEF SameFamily, SameAnchors
<1>16. HeapFits(heap')
  <2>1. ASSUME NEW b \in DOMAIN heap
        PROVE  /\ heap'[b].mainLink \in DOMAIN heap \cup { Null }
               /\ heap'[b].mainLink = Null => heap'[b].links = << >>
               /\ \A j \in DOMAIN heap'[b].links : heap'[b].links[j] \in DOMAIN heap
    <3>1. CASE b = a
      BY <1>6, <1>12, <1>14, <3>1
    <3>2. CASE b # a
      <4>1. /\ heap'[b].mainLink = heap[b].mainLink
            /\ heap'[b].links = heap[b].links
        BY <1>14, <3>2
      <4>2. QED
        BY <1>2, <2>1, <4>1 DEF HeapFits
    <3>3. QED
      BY <3>1, <3>2
  <2>2. ASSUME NEW b \in DOMAIN heap
        PROVE  /\ \A j \in DOMAIN heap'[b].sources :
                    heap'[b].sources[j] \in DOMAIN heap
               /\ \A j \in DOMAIN heap'[b].children :
                    heap'[b].children[j] \in DOMAIN heap
    BY <1>2, <1>14 DEF HeapFits
  <2>3. QED
    BY <1>2, <1>14, <1>15, <2>1, <2>2, HeapKept
<1>17. /\ TableFits(heap', adult_table) /\ BagFits(heap', made)
       /\ FamilyFits(heap', {})
  BY <1>2, <1>14, <1>15, TableKept, FamilyKept DEF BagFits
<1>18. SourcesFit(heap', made, {})
  <2>1. /\ \A b : Adult(heap', b) <=> Adult(heap, b)
        /\ \A q : Places(heap', q) = Places(heap, q)
    BY <1>15, SameAdults
  <2>2. ASSUME NEW q, NEW b \in DOMAIN heap
        PROVE  MainTo(heap', b, q) + LinksTo(heap', b, q)
                 = MainTo(heap, b, q) + LinksTo(heap, b, q)
    <3>1. CASE b = a
      <4>1. /\ LinksTo(heap', a, q) = Hits(now, Places(heap, q))
            /\ LinksTo(heap, a, q) = Hits(links, Places(heap, q))
            /\ MainTo(heap', a, q) = IF d \in Places(heap, q) THEN 1 ELSE 0
            /\ MainTo(heap, a, q) = IF m \in Places(heap, q) THEN 1 ELSE 0
        BY <1>14, <2>1 DEF LinksTo, MainTo, links, m
      <4>2. /\ Hits(now, Places(heap, q)) \in Nat
            /\ Hits(links, Places(heap, q)) \in Nat
        BY <1>3, <1>11, HitsFinite
      <4>3. QED
        BY <1>13, <3>1, <4>1, <4>2
    <3>2. CASE b # a
      <4>1. /\ heap'[b].mainLink = heap[b].mainLink
            /\ heap'[b].links = heap[b].links
        BY <1>14, <3>2
      <4>2. QED
        BY <2>1, <4>1 DEF LinksTo, MainTo
    <3>3. QED
      BY <3>1, <3>2
  <2>3. ASSUME NEW q \in DOMAIN heap
        PROVE  /\ heap'[q].freed = heap[q].freed
               /\ heap'[q].sources = heap[q].sources
               /\ \A b : Heard(heap', q, b) = Heard(heap, q, b)
    BY <1>14 DEF Heard
  <2>4. ASSUME NEW q \in DOMAIN heap, Adult(heap, q)
        PROVE  /\ heap'[q].freed => heap'[q].sources = << >>
               /\ \A b \in DOMAIN heap :
                    /\ Heard(heap', q, b)
                         <= MainTo(heap', b, q) + LinksTo(heap', b, q)
                    /\ Copies(made, b, q) = Heard(heap', q, b)
    BY <1>2, <2>2, <2>3, <2>4 DEF SourcesFit
  <2>5. QED
    BY <1>14, <2>1, <2>4 DEF SourcesFit
<1>19. Len(heap') <= MaxAnchors
  BY <1>2, <1>14, SameLength DEF IInv, TypeOK
<1>20. QED
  BY <1>1, <1>16, <1>17, <1>18, <1>19, QuietStep DEF Good

-----------------------------------------------------------------------------
(* The stack of activations. *)
Activations == [ at : OfDelete \cup OfLinks, me : Nat, child : Nat ]
Pending(x)  == IF x.at = "child" THEN { x.child } ELSE {}
Ending(x)   == IF x.at = "links" THEN { x.me } ELSE {}

LEMMA Innermost ==
  ASSUME NEW r \in Seq(Activations), NEW x \in Activations
  PROVE  /\ << x >> \o r \in Seq(Activations)
         /\ Len(<< x >> \o r) = Len(r) + 1
         /\ Leaving(<< x >> \o r) = Leaving(r) \cup Pending(x)
         /\ Deleting(<< x >> \o r) = Deleting(r) \cup Ending(x)
         /\ \A h : CallsFit(h, << x >> \o r)
                     <=> /\ ActivationFits(h, x) /\ CallsFit(h, r)
                         /\ x.at = "child" => x.child \notin Leaving(r)
<1> DEFINE c == << x >> \o r
<1>1. /\ c \in Seq(Activations) /\ Len(c) = Len(r) + 1 /\ c[1] = x
      /\ \A i \in 1 .. Len(r) : c[i + 1] = r[i]
  BY Pushed
<1> HIDE DEF c
<1>2. DOMAIN c = 1 .. Len(r) + 1 /\ DOMAIN r = 1 .. Len(r) /\ Len(r) \in Nat
  BY <1>1
<1>3. ASSUME NEW k \in DOMAIN c
      PROVE  (k = 1 /\ c[k] = x) \/ (k - 1 \in DOMAIN r /\ c[k] = r[k - 1])
  BY <1>1, <1>2
<1>4. ASSUME NEW k \in DOMAIN r
      PROVE  k + 1 \in DOMAIN c /\ c[k + 1] = r[k]
  BY <1>1, <1>2
<1>5. 1 \in DOMAIN c
  BY <1>2
<1>6. Leaving(c) = Leaving(r) \cup Pending(x)
  <2>1. ASSUME NEW k \in DOMAIN c, c[k].at = "child"
        PROVE  c[k].child \in Leaving(r) \cup Pending(x)
    BY <1>3, <2>1 DEF Leaving, Pending
  <2>2. ASSUME NEW k \in DOMAIN r, r[k].at = "child"
        PROVE  r[k].child \in Leaving(c)
    BY <1>4, <2>2 DEF Leaving
  <2>3. Pending(x) \subseteq Leaving(c)
    BY <1>1, <1>5 DEF Leaving, Pending
  <2>4. Leaving(r) \subseteq Leaving(c)
    BY <2>2 DEF Leaving
  <2>5. Leaving(c) \subseteq Leaving(r) \cup Pending(x)
    BY <2>1 DEF Leaving
  <2>6. QED
    BY <2>3, <2>4, <2>5
<1>7. Deleting(c) = Deleting(r) \cup Ending(x)
  <2>1. ASSUME NEW k \in DOMAIN c, c[k].at = "links"
        PROVE  c[k].me \in Deleting(r) \cup Ending(x)
    BY <1>3, <2>1 DEF Deleting, Ending
  <2>2. ASSUME NEW k \in DOMAIN r, r[k].at = "links"
        PROVE  r[k].me \in Deleting(c)
    BY <1>4, <2>2 DEF Deleting
  <2>3. Ending(x) \subseteq Deleting(c)
    BY <1>1, <1>5 DEF Deleting, Ending
  <2>4. Deleting(r) \subseteq Deleting(c)
    BY <2>2 DEF Deleting
  <2>5. Deleting(c) \subseteq Deleting(r) \cup Ending(x)
    BY <2>1 DEF Deleting
  <2>6. QED
    BY <2>3, <2>4, <2>5
<1>8. ASSUME NEW h
      PROVE  CallsFit(h, c) <=> /\ ActivationFits(h, x) /\ CallsFit(h, r)
                                /\ x.at = "child" => x.child \notin Leaving(r)
  <2>1. ASSUME CallsFit(h, c)
        PROVE  /\ ActivationFits(h, x) /\ CallsFit(h, r)
               /\ x.at = "child" => x.child \notin Leaving(r)
    <3>1. ActivationFits(h, x)
      BY <1>1, <1>5, <2>1 DEF CallsFit
    <3>2. \A k \in DOMAIN r : ActivationFits(h, r[k])
      BY <1>4, <2>1 DEF CallsFit
    <3>3. ASSUME NEW j \in DOMAIN r, NEW k \in DOMAIN r,
                 r[j].at = "child", r[k].at = "child", r[j].child = r[k].child
          PROVE  j = k
      <4>1. j + 1 = k + 1
        BY <1>4, <2>1, <3>3 DEF CallsFit
      <4>2. QED
        BY <1>2, <4>1
    <3>4. ASSUME NEW k \in DOMAIN r, x.at = "child", r[k].at = "child"
          PROVE  x.child # r[k].child
      <4>1. x.child = r[k].child => 1 = k + 1
        BY <1>1, <1>4, <1>5, <2>1, <3>4 DEF CallsFit
      <4>2. QED
        BY <1>2, <4>1
    <3>5. QED
      BY <3>1, <3>2, <3>3, <3>4 DEF CallsFit, Leaving
  <2>2. ASSUME ActivationFits(h, x), CallsFit(h, r),
               x.at = "child" => x.child \notin Leaving(r)
        PROVE  CallsFit(h, c)
    <3>1. \A k \in DOMAIN c : ActivationFits(h, c[k])
      BY <1>3, <2>2 DEF CallsFit
    <3>2. ASSUME NEW k \in DOMAIN r, x.at = "child", r[k].at = "child"
          PROVE  x.child # r[k].child
      BY <2>2, <3>2 DEF Leaving
    <3>3. ASSUME NEW j \in DOMAIN r, NEW k \in DOMAIN r,
                 r[j].at = "child", r[k].at = "child", r[j].child = r[k].child
          PROVE  j = k
      BY <2>2, <3>3 DEF CallsFit
    <3>4. ASSUME NEW j \in DOMAIN c, NEW k \in DOMAIN c,
                 c[j].at = "child", c[k].at = "child", c[j].child = c[k].child
          PROVE  j = k
      <4>1. CASE j = 1 /\ c[j] = x
        BY <1>3, <3>2, <3>4, <4>1
      <4>2. CASE k = 1 /\ c[k] = x
        BY <1>3, <3>2, <3>4, <4>2
      <4>3. CASE /\ j - 1 \in DOMAIN r /\ c[j] = r[j - 1]
                 /\ k - 1 \in DOMAIN r /\ c[k] = r[k - 1]
        <5>1. j - 1 = k - 1
          BY <3>3, <3>4, <4>3
        <5>2. QED
          BY <1>2, <5>1
      <4>4. QED
        BY <1>3, <4>1, <4>2, <4>3
    <3>5. QED
      BY <3>1, <3>4 DEF CallsFit
  <2>3. QED
    BY <2>1, <2>2
<1>9. QED
  BY <1>1, <1>6, <1>7, <1>8 DEF c

LEMMA CallsKept ==
  ASSUME NEW h, NEW g, NEW c, CallsFit(h, c), SameAnchors(h, g),
         \A a \in Leaving(c) : g[a].freed = h[a].freed,
         \A p \in DOMAIN h : h[p].sources = << >> => g[p].sources = << >>
  PROVE  CallsFit(g, c)
<1>1. ASSUME NEW k \in DOMAIN c
      PROVE  ActivationFits(g, c[k])
  <2>1. ActivationFits(h, c[k])
    BY DEF CallsFit
  <2>2. c[k].at = "child" => g[c[k].child].freed = h[c[k].child].freed
    BY DEF Leaving
  <2>3. \A a : Adult(g, a) <=> Adult(h, a)
    BY SameAdults
  <2>4. c[k].at = "child" =>
          c[k].child \in DOMAIN g /\ IsChild(g, c[k].child, c[k].me)
    BY <2>1, <2>2 DEF ActivationFits, IsChild, SameAnchors
  <2>5. QED
    BY <2>1, <2>3, <2>4 DEF ActivationFits, SameAnchors
<1>2. QED
  BY <1>1 DEF CallsFit

LEMMA Proceeds ==
  ASSUME HeapFits(heap'), Len(heap') <= MaxAnchors,
         TableFits(heap', adult_table'), BagFits(heap', made'),
         status' = "running", calls' \in Seq(Activations),
         Len(calls') <= MaxCalls + 1, CallsFit(heap', calls'),
         FamilyFits(heap', Leaving(calls')),
         SourcesFit(heap', made', Deleting(calls'))
  PROVE  IInv'
<1>1. calls' \in Seq([ at : OfDelete \cup OfLinks, me : DOMAIN heap',
                       child : DOMAIN heap' \cup { Null } ])
  <2> DEFINE S == [ at : OfDelete \cup OfLinks, me : DOMAIN heap',
                    child : DOMAIN heap' \cup { Null } ]
  <2>1. ASSUME NEW k \in DOMAIN calls'
        PROVE  calls'[k] \in S
    <3>1. ActivationFits(heap', calls'[k])
      BY DEF CallsFit
    <3>2. QED
      BY <3>1 DEF ActivationFits
  <2> HIDE DEF S
  <2>2. calls' \in Seq(S)
    BY <2>1
  <2>3. QED
    BY <2>2 DEF S
<1>2. TypeOK'
  BY <1>1, Typed
<1>3. Running'
  BY DEF Running
<1>4. QED
  BY <1>2, <1>3 DEF IInv

LEMMA Halts ==
  ASSUME IInv, HeapFits(heap'), Len(heap') <= MaxAnchors, DOMAIN heap' = DOMAIN heap,
         TableFits(heap', adult_table'), BagFits(heap', made'),
         status' \in { "use after free", "stack overflow" }, calls' = calls
  PROVE  IInv'
<1>1. /\ calls' \in Seq([ at : OfDelete \cup OfLinks, me : DOMAIN heap',
                          child : DOMAIN heap' \cup { Null } ])
      /\ Len(calls') <= MaxCalls + 1
  <2>1. OfDelete \cup OfLinks = { "delete", "sources", "kids", "children", "child",
                                  "deleteLinks", "links" }
    BY DEF OfDelete, OfLinks
  <2>2. QED
    BY <2>1 DEF IInv, TypeOK
<1>2. TypeOK'
  BY <1>1, Typed
<1>3. QED
  BY <1>2 DEF IInv

(* The innermost activation x, and the others. *)
AtWork(x, r) ==
  /\ x \in Activations /\ r \in Seq(Activations)
  /\ calls = << x >> \o r /\ Len(r) <= MaxCalls
  /\ ActivationFits(heap, x) /\ CallsFit(heap, r)
  /\ x.at = "child" => x.child \notin Leaving(r)
  /\ FamilyFits(heap, Leaving(r) \cup Pending(x))
  /\ SourcesFit(heap, made, Deleting(r) \cup Ending(x))

LEMMA Bounds == MaxAnchors \in Nat /\ MaxLinks \in Nat /\ MaxCalls \in Nat
BY AnchorAssumption

LEMMA Deeper ==
  ASSUME IInv, calls # << >>, status = "running"
  PROVE  AtWork(top, Tail(calls)) /\ Head(calls) = top
<1>1. calls \in Seq(Activations) /\ Len(calls) <= MaxCalls + 1
  <2>1. /\ OfDelete \cup OfLinks = { "delete", "sources", "kids", "children",
                                     "child", "deleteLinks", "links" }
        /\ calls \in Seq([ at : { "delete", "sources", "kids", "children", "child",
                                  "deleteLinks", "links" },
                           me : DOMAIN heap, child : DOMAIN heap \cup { Null } ])
        /\ Len(calls) <= MaxCalls + 1
    BY DEF OfDelete, OfLinks, IInv, TypeOK
  <2>2. DOMAIN heap \subseteq Nat
    BY AnchorNumbers DEF IInv, HeapFits
  <2> DEFINE S == [ at : { "delete", "sources", "kids", "children", "child",
                           "deleteLinks", "links" },
                    me : DOMAIN heap, child : DOMAIN heap \cup { Null } ]
  <2>3. S \subseteq Activations
    BY <2>1, <2>2 DEF Activations, Null
  <2>4. calls \in Seq(S)
    BY <2>1
  <2> HIDE DEF S
  <2>5. QED
    BY <2>1, <2>3, <2>4
<1>2. /\ Head(calls) \in Activations /\ Tail(calls) \in Seq(Activations)
      /\ Len(Tail(calls)) = Len(calls) - 1 /\ Len(calls) \in Nat
  BY <1>1, HeadTail
<1>3. calls = << Head(calls) >> \o Tail(calls)
  BY <1>1
<1>4. Len(Tail(calls)) <= MaxCalls
  BY <1>1, <1>2, Bounds
<1>5. /\ CallsFit(heap, calls) /\ FamilyFits(heap, Leaving(calls))
      /\ SourcesFit(heap, made, Deleting(calls))
  BY DEF IInv, Running
<1> DEFINE x == Head(calls)
           r == Tail(calls)
<1>6. x \in Activations /\ r \in Seq(Activations)
  BY <1>2
<1> HIDE DEF x, r
<1>7. calls = << x >> \o r
  BY <1>3 DEF x, r
<1>8. /\ Leaving(calls) = Leaving(r) \cup Pending(x)
      /\ Deleting(calls) = Deleting(r) \cup Ending(x)
      /\ CallsFit(heap, calls)
           <=> /\ ActivationFits(heap, x) /\ CallsFit(heap, r)
               /\ x.at = "child" => x.child \notin Leaving(r)
  BY <1>6, <1>7, Innermost
<1>9. AtWork(x, r)
  BY <1>4, <1>5, <1>6, <1>7, <1>8 DEF AtWork, r
<1>10. QED
  BY <1>9 DEF x, r, top

(* What becomes of the stack when a segment ends. *)
Stacked(g, leaving, deleting) ==
  /\ calls' \in Seq(Activations) /\ Len(calls') <= MaxCalls + 1
  /\ CallsFit(g, calls')
  /\ Leaving(calls') = leaving /\ Deleting(calls') = deleting

LEMMA WentOn ==
  ASSUME NEW g, NEW y \in Activations, NEW r \in Seq(Activations),
         Len(r) <= MaxCalls, ActivationFits(g, y), CallsFit(g, r),
         y.at = "child" => y.child \notin Leaving(r), calls' = << y >> \o r
  PROVE  Stacked(g, Leaving(r) \cup Pending(y), Deleting(r) \cup Ending(y))
<1>1. /\ calls' \in Seq(Activations) /\ Len(calls') = Len(r) + 1
      /\ Leaving(calls') = Leaving(r) \cup Pending(y)
      /\ Deleting(calls') = Deleting(r) \cup Ending(y)
      /\ CallsFit(g, calls')
  BY Innermost
<1>2. Len(r) + 1 <= MaxCalls + 1
  BY Bounds
<1>3. QED
  BY <1>1, <1>2 DEF Stacked

LEMMA Returned ==
  ASSUME NEW g, NEW r \in Seq(Activations), Len(r) <= MaxCalls, CallsFit(g, r),
         calls' = r
  PROVE  Stacked(g, Leaving(r), Deleting(r))
<1>1. Len(r) <= MaxCalls + 1
  BY Bounds
<1>2. QED
  BY <1>1 DEF Stacked

LEMMA Called ==
  ASSUME NEW g, NEW y \in Activations, NEW r \in Seq(Activations),
         ActivationFits(g, y), CallsFit(g, r),
         y.at = "child" => y.child \notin Leaving(r),
         NEW at \in { "delete", "deleteLinks" }, NEW a \in DOMAIN g, a \in Nat,
         at = "delete" => Adult(g, a), Call(at, a, << y >> \o r)
  PROVE  \/ status' = "stack overflow" /\ calls' = calls
         \/ /\ status' = status
            /\ Stacked(g, Leaving(r) \cup Pending(y), Deleting(r) \cup Ending(y))
<1> DEFINE c == << y >> \o r
           x == Activation(at, a)
<1>1. /\ c \in Seq(Activations)
      /\ Leaving(c) = Leaving(r) \cup Pending(y)
      /\ Deleting(c) = Deleting(r) \cup Ending(y)
      /\ CallsFit(g, c)
  BY Innermost
<1>2. x \in Activations /\ x.at = at /\ x.me = a /\ x.child = Null
  BY DEF Activations, Activation, OfDelete, OfLinks, Null
<1>3. /\ \/ status' = "stack overflow" /\ calls' = calls
         \/ status' = status /\ Len(c) < MaxCalls /\ calls' = << x >> \o c
  BY DEF Call
<1> HIDE DEF c, x
<1>4. ActivationFits(g, x)
  BY <1>2 DEF ActivationFits, Activations, OfDelete
<1>5. Pending(x) = {} /\ Ending(x) = {} /\ x.at # "child"
  BY <1>2 DEF Pending, Ending
<1>6. CASE status' = status /\ Len(c) < MaxCalls /\ calls' = << x >> \o c
  <2>1. Len(c) <= MaxCalls
    BY <1>1, <1>6, Bounds
  <2>2. Stacked(g, Leaving(c) \cup Pending(x), Deleting(c) \cup Ending(x))
    BY <1>1, <1>2, <1>4, <1>5, <1>6, <2>1, WentOn
  <2>3. QED
    BY <1>1, <1>5, <1>6, <2>2
<1>7. QED
  BY <1>3, <1>6

LEMMA DeleteCallKeeps ==
  ASSUME IInv, NEW p, HTAnchor_delete(p)
  PROVE  IInv'
<1> DEFINE x == Activation("delete", p)
<1>1. /\ Quiet /\ p \in Parents /\ calls' = << x >>
      /\ UNCHANGED << heap, adult_table, status, made >>
  BY DEF HTAnchor_delete
<1>2. /\ HeapFits(heap) /\ TableFits(heap, adult_table) /\ BagFits(heap, made)
      /\ FamilyFits(heap, {}) /\ SourcesFit(heap, made, {})
      /\ Adult(heap, p) /\ p \in DOMAIN heap /\ p \in Nat
  BY <1>1, Settled, ParentsAreAdult, AnchorNumbers DEF Good, HeapFits, Adult
<1>3. x \in Activations /\ x.at = "delete" /\ x.me = p /\ x.child = Null
  BY <1>2 DEF Activations, Activation, OfDelete, OfLinks, Null
<1> HIDE DEF x
<1>4. ActivationFits(heap, x)
  BY <1>2, <1>3 DEF ActivationFits, Activations, OfDelete
<1>5. Pending(x) = {} /\ Ending(x) = {} /\ x.at # "child"
  BY <1>3 DEF Pending, Ending
<1> DEFINE r == << >>
<1>6. /\ r \in Seq(Activations) /\ Len(r) <= MaxCalls /\ CallsFit(heap, r)
      /\ Leaving(r) = {} /\ Deleting(r) = {} /\ calls' = << x >> \o r
  <2>1. r \in Seq(Activations) /\ Len(r) <= MaxCalls
    BY Bounds
  <2>2. CallsFit(heap, r) /\ Leaving(r) = {} /\ Deleting(r) = {}
    BY DEF CallsFit, Leaving, Deleting
  <2>3. << x >> = << x >> \o << >>
    OBVIOUS
  <2>4. QED
    BY <1>1, <2>1, <2>2, <2>3
<1> HIDE DEF r
<1>7. Stacked(heap, Leaving(r) \cup Pending(x), Deleting(r) \cup Ending(x))
  BY <1>3, <1>4, <1>5, <1>6, WentOn
<1>8. Stacked(heap, {}, {})
  BY <1>5, <1>6, <1>7
<1>9. Len(heap) <= MaxAnchors /\ status' = "running"
  BY <1>1 DEF IInv, TypeOK, Quiet
<1>10. QED
  BY <1>1, <1>2, <1>8, <1>9, Proceeds DEF Stacked

-----------------------------------------------------------------------------
(* The segments of the deletion routines. *)
LEMMA GraphSettled ==
  ASSUME NEW leaving, NEW deleting, IInv, UNCHANGED << heap, adult_table, made >>,
         status' = "running", Stacked(heap, leaving, deleting),
         FamilyFits(heap, leaving), SourcesFit(heap, made, deleting)
  PROVE  IInv'
<1>1. /\ HeapFits(heap) /\ TableFits(heap, adult_table) /\ BagFits(heap, made)
      /\ Len(heap) <= MaxAnchors
  BY DEF IInv, TypeOK
<1>2. QED
  BY <1>1, Proceeds DEF Stacked

LEMMA Overflowed ==
  ASSUME IInv, UNCHANGED << heap, adult_table, made, calls >>,
         status' = "stack overflow"
  PROVE  IInv'
<1>1. /\ HeapFits(heap) /\ TableFits(heap, adult_table) /\ BagFits(heap, made)
      /\ Len(heap) <= MaxAnchors
  BY DEF IInv, TypeOK
<1>2. QED
  BY <1>1, Halts

LEMMA StartsKeeps ==
  ASSUME IInv, DeleteStarts
  PROVE  IInv'
<1> DEFINE x == top
           r == Tail(calls)
           y == [ x EXCEPT !.at = "sources" ]
<1>1. /\ calls # << >> /\ status = "running" /\ x.at = "delete"
      /\ UNCHANGED << heap, adult_table, made >>
      /\ \/ calls' = r /\ UNCHANGED status
         \/ Call("deleteLinks", x.me, << y >> \o r)
  BY DEF DeleteStarts, At, Return, Continue, me
<1>2. AtWork(x, r)
  BY <1>1, Deeper
<1> HIDE DEF x, r
<1>3. /\ x \in Activations /\ r \in Seq(Activations) /\ Len(r) <= MaxCalls
      /\ ActivationFits(heap, x) /\ CallsFit(heap, r)
      /\ FamilyFits(heap, Leaving(r)) /\ SourcesFit(heap, made, Deleting(r))
  BY <1>1, <1>2 DEF AtWork, Pending, Ending
<1>4. x.me \in DOMAIN heap /\ x.me \in Nat
  BY <1>3 DEF ActivationFits, Activations
<1>5. y \in Activations /\ y.at = "sources" /\ y.me = x.me /\ y.child = x.child
  BY <1>3 DEF Activations, OfDelete
<1> HIDE DEF y
<1>6. ActivationFits(heap, y)
  BY <1>1, <1>3, <1>5 DEF ActivationFits, Activations, OfDelete
<1>7. Pending(y) = {} /\ Ending(y) = {} /\ y.at # "child"
  BY <1>5 DEF Pending, Ending
<1>8. CASE calls' = r /\ UNCHANGED status
  BY <1>1, <1>3, <1>8, Returned, GraphSettled
<1>9. CASE Call("deleteLinks", x.me, << y >> \o r)
  <2>1. \/ status' = "stack overflow" /\ calls' = calls
        \/ /\ status' = status
           /\ Stacked(heap, Leaving(r) \cup Pending(y), Deleting(r) \cup Ending(y))
    BY <1>3, <1>4, <1>5, <1>6, <1>7, <1>9, Called
  <2>2. CASE status' = "stack overflow" /\ calls' = calls
    BY <1>1, <2>2, Overflowed
  <2>3. CASE /\ status' = status
             /\ Stacked(heap, Leaving(r) \cup Pending(y), Deleting(r) \cup Ending(y))
    <3>1. Stacked(heap, Leaving(r), Deleting(r)) /\ status' = "running"
      BY <1>1, <1>7, <2>3
    <3>2. QED
      BY <1>1, <1>3, <3>1, GraphSettled
  <2>4. QED
    BY <2>1, <2>2, <2>3
<1>10. QED
  BY <1>1, <1>8, <1>9

LEMMA LooksAtSourcesKeeps ==
  ASSUME IInv, DeleteLooksAtSources
  PROVE  IInv'
<1>1. CASE heap[me].freed
  BY <1>1, Ended DEF DeleteLooksAtSources, UseAfterFree
<1>2. CASE ~ heap[me].freed
  <2> DEFINE x == top
             r == Tail(calls)
             at == IF Unreferenced(me) THEN "children" ELSE "kids"
             y == [ x EXCEPT !.at = at ]
  <2>1. /\ calls # << >> /\ status = "running" /\ x.at = "sources"
        /\ UNCHANGED << heap, adult_table, made, status >>
        /\ calls' = << y >> \o r
        /\ at \in { "children", "kids" }
        /\ at = "children" => heap[x.me].sources = << >>
    BY <1>2 DEF DeleteLooksAtSources, At, Go, Continue, me, Unreferenced
  <2>2. AtWork(x, r)
    BY <2>1, Deeper
  <2> HIDE DEF x, r, at
  <2>3. /\ x \in Activations /\ r \in Seq(Activations) /\ Len(r) <= MaxCalls
        /\ ActivationFits(heap, x) /\ CallsFit(heap, r)
        /\ FamilyFits(heap, Leaving(r)) /\ SourcesFit(heap, made, Deleting(r))
    BY <2>1, <2>2 DEF AtWork, Pending, Ending
  <2>4. y \in Activations /\ y.at = at /\ y.me = x.me /\ y.child = x.child
    BY <2>1, <2>3 DEF Activations, OfDelete
  <2> HIDE DEF y
  <2>5. ActivationFits(heap, y)
    BY <2>1, <2>3, <2>4 DEF ActivationFits, Activations, OfDelete
  <2>6. Pending(y) = {} /\ Ending(y) = {} /\ y.at # "child"
    BY <2>1, <2>4 DEF Pending, Ending
  <2>7. Stacked(heap, Leaving(r) \cup Pending(y), Deleting(r) \cup Ending(y))
    BY <2>1, <2>3, <2>4, <2>5, <2>6, WentOn
  <2>8. Stacked(heap, Leaving(r), Deleting(r)) /\ status' = "running"
    BY <2>1, <2>6, <2>7
  <2>9. QED
    BY <2>1, <2>3, <2>8, GraphSettled
<1>3. QED
  BY <1>1, <1>2

LEMMA KidsLinksKeeps ==
  ASSUME IInv, DeleteKidsLinks
  PROVE  IInv'
<1> DEFINE kids == heap[me].children
           last == top.child
           i == IF last = Null THEN 1
                ELSE SelectInSeq(kids, LAMBDA c : c = last) + 1
<1>1. CASE last # Null /\ ~ Contains(kids, last)
  BY <1>1, Ended DEF DeleteKidsLinks, UseAfterFree
<1>2. CASE ~ (last # Null /\ ~ Contains(kids, last))
  <2> DEFINE x == top
             r == Tail(calls)
             y == [ x EXCEPT !.child = kids[i] ]
  <2>1. /\ calls # << >> /\ status = "running" /\ x.at = "kids"
        /\ UNCHANGED << heap, adult_table, made >>
        /\ \/ calls' = r /\ UNCHANGED status
           \/ ~ (i > Len(kids)) /\ Call("deleteLinks", kids[i], << y >> \o r)
    BY <1>2 DEF DeleteKidsLinks, At, Return
  <2>2. AtWork(x, r)
    BY <2>1, Deeper
  <2>3. x.me = me
    BY DEF me
  <2> HIDE DEF x, r, i
  <2>4. /\ x \in Activations /\ r \in Seq(Activations) /\ Len(r) <= MaxCalls
        /\ ActivationFits(heap, x) /\ CallsFit(heap, r)
        /\ FamilyFits(heap, Leaving(r)) /\ SourcesFit(heap, made, Deleting(r))
    BY <2>1, <2>2 DEF AtWork, Pending, Ending
  <2>5. CASE calls' = r /\ UNCHANGED status
    BY <2>1, <2>4, <2>5, Returned, GraphSettled
  <2>6. CASE ~ (i > Len(kids)) /\ Call("deleteLinks", kids[i], << y >> \o r)
    <3>1. me \in DOMAIN heap /\ HeapFits(heap) /\ heap \in Seq(Record)
      BY <2>3, <2>4 DEF ActivationFits, IInv, HeapFits
    <3>2. kids \in Seq(Nat)
      BY <3>1, Fields
    <3>3. i \in Nat /\ i >= 1
      <4> HIDE DEF kids, last
      <4> DEFINE I == { n \in 1 .. Len(kids) : kids[n] = last }
      <4>1. SelectInSeq(kids, LAMBDA c : c = last) = IF I # {} THEN Min(I) ELSE 0
        BY Zenon DEF SelectInSeq
      <4>2. I \in SUBSET Nat
        OBVIOUS
      <4>3. I # {} => Min(I) \in I
        <5> HIDE DEF I
        <5>1. QED
          BY <4>2, Least
      <4> HIDE DEF I
      <4>4. SelectInSeq(kids, LAMBDA c : c = last) \in Nat
        BY <4>1, <4>2, <4>3
      <4>5. QED
        BY <4>4 DEF i
    <3>4. i \in DOMAIN kids
      <4> HIDE DEF kids
      <4>1. QED
        BY <2>6, <3>2, <3>3
    <3> DEFINE k == kids[i]
    <3>5. k \in DOMAIN heap /\ k \in Nat
      BY <3>1, <3>4, AnchorNumbers DEF HeapFits
    <3> HIDE DEF k
    <3>6. y \in Activations /\ y.at = "kids" /\ y.me = x.me /\ y.child = k
      BY <2>1, <2>4, <3>5 DEF Activations, OfDelete, k
    <3>7. Call("deleteLinks", k, << y >> \o r)
      BY <2>6 DEF k
    <3> HIDE DEF y
    <3>8. ActivationFits(heap, y)
      BY <2>1, <2>4, <3>5, <3>6 DEF ActivationFits, Activations, OfDelete
    <3>9. Pending(y) = {} /\ Ending(y) = {} /\ y.at # "child"
      BY <3>6 DEF Pending, Ending
    <3>10. \/ status' = "stack overflow" /\ calls' = calls
           \/ /\ status' = status
              /\ Stacked(heap, Leaving(r) \cup Pending(y), Deleting(r) \cup Ending(y))
      BY <2>4, <3>5, <3>6, <3>7, <3>8, <3>9, Called
    <3>11. CASE status' = "stack overflow" /\ calls' = calls
      BY <2>1, <3>11, Overflowed
    <3>12. CASE /\ status' = status
                /\ Stacked(heap, Leaving(r) \cup Pending(y), Deleting(r) \cup Ending(y))
      <4>1. Stacked(heap, Leaving(r), Deleting(r)) /\ status' = "running"
        BY <2>1, <3>9, <3>12
      <4>2. QED
        BY <2>1, <2>4, <4>1, GraphSettled
    <3>13. QED
      BY <3>10, <3>11, <3>12
  <2>7. QED
    BY <2>1, <2>5, <2>6
<1>3. QED
  BY <1>1, <1>2

LEMMA ChildrenFreedKeeps ==
  ASSUME IInv, DeleteChildren, ~ heap[me].freed, heap[me].children = << >>
  PROVE  IInv'
<1> DEFINE x == top
           r == Tail(calls)
           p == x.me
<1>1. /\ calls # << >> /\ status = "running" /\ x.at = "children"
      /\ UNCHANGED << adult_table, made, status >> /\ calls' = r
      /\ FreedSet(heap, p, heap') /\ heap[p].children = << >>
  BY DEF DeleteChildren, At, Return, me, FreedSet
<1>2. AtWork(x, r)
  BY <1>1, Deeper
<1> HIDE DEF x, r
<1>3. /\ x \in Activations /\ r \in Seq(Activations) /\ Len(r) <= MaxCalls
      /\ ActivationFits(heap, x) /\ CallsFit(heap, r)
      /\ FamilyFits(heap, Leaving(r)) /\ SourcesFit(heap, made, Deleting(r))
  BY <1>1, <1>2 DEF AtWork, Pending, Ending
<1>4. Adult(heap, p) /\ p \in DOMAIN heap /\ heap[p].sources = << >>
  BY <1>1, <1>3 DEF ActivationFits, OfDelete
<1> HIDE DEF p
<1>5. /\ HeapFits(heap) /\ TableFits(heap, adult_table) /\ BagFits(heap, made)
      /\ heap \in Seq(Record) /\ Len(heap) <= MaxAnchors
  BY DEF IInv, TypeOK, HeapFits
<1>6. /\ heap' \in Seq(Record) /\ DOMAIN heap' = DOMAIN heap
      /\ heap'[p].freed
      /\ \A b \in DOMAIN heap :
           /\ heap'[b].parent = heap[b].parent /\ heap'[b].name = heap[b].name
           /\ heap'[b].mainLink = heap[b].mainLink
           /\ heap'[b].links = heap[b].links
           /\ heap'[b].children = heap[b].children
           /\ heap'[b].sources = heap[b].sources
           /\ heap'[b].document = heap[b].document
           /\ b # p => heap'[b].freed = heap[b].freed
  BY <1>1, <1>4, <1>5, SetFreed
<1>7. SameLinks(heap, heap') /\ SameAnchors(heap, heap')
  BY <1>6 DEF SameLinks, SameAnchors
<1>8. HeapFits(heap')
  <2>1. \A b \in DOMAIN heap : \A i \in DOMAIN heap'[b].children :
          heap'[b].children[i] \in DOMAIN heap
    BY <1>5, <1>6 DEF HeapFits
  <2>2. QED
    BY <1>5, <1>6, <1>7, <2>1, HeapOfSameLinks
<1>9. TableFits(heap', adult_table') /\ BagFits(heap', made')
  BY <1>1, <1>5, <1>6, <1>7, TableKept DEF BagFits
<1>10. FamilyFits(heap', Leaving(r))
  <2>1. ASSUME NEW a \in DOMAIN heap, NEW q \in DOMAIN heap
        PROVE  IsChild(heap', a, q) <=> IsChild(heap, a, q)
    BY <1>4, <1>6 DEF IsChild, Adult
  <2>2. ASSUME NEW q \in DOMAIN heap, Adult(heap, q)
        PROVE  /\ IsInjective(heap'[q].children)
               /\ \A a \in DOMAIN heap :
                    (\E i \in DOMAIN heap'[q].children : heap'[q].children[i] = a)
                      <=> IsChild(heap', a, q) /\ a \notin Leaving(r)
               /\ heap'[q].freed => heap'[q].children = << >>
    <3>1. heap'[q].children = heap[q].children
      BY <1>6
    <3>2. heap'[q].freed => heap'[q].children = << >>
      BY <1>1, <1>3, <1>6, <2>2, <3>1 DEF FamilyFits
    <3>3. QED
      BY <1>3, <2>1, <2>2, <3>1, <3>2 DEF FamilyFits
  <2>3. QED
    BY <1>6, <1>7, <2>2, SameAdults DEF FamilyFits, Adult
<1>11. SourcesFit(heap', made, Deleting(r))
  <2>1. \A a \in DOMAIN heap :
          Adult(heap, a) /\ heap'[a].freed /\ ~ heap[a].freed
            => heap[a].sources = << >>
    BY <1>4, <1>6
  <2>2. QED
    BY <1>3, <1>7, <2>1, SourcesKept
<1>12. CallsFit(heap', r)
  <2>1. ASSUME NEW a \in Leaving(r)
        PROVE  heap'[a].freed = heap[a].freed
    <3>1. PICK k \in DOMAIN r : r[k].at = "child" /\ a = r[k].child
      BY DEF Leaving
    <3>2. a \in DOMAIN heap /\ IsChild(heap, a, r[k].me)
      BY <1>3, <3>1 DEF CallsFit, ActivationFits
    <3>3. a # p
      BY <1>4, <3>2 DEF IsChild, Adult
    <3>4. QED
      BY <1>6, <3>2, <3>3
  <2>2. QED
    BY <1>3, <1>6, <1>7, <2>1, CallsKept
<1>13. Stacked(heap', Leaving(r), Deleting(r))
  BY <1>1, <1>3, <1>12, Returned
<1>14. Len(heap') <= MaxAnchors
  BY <1>5, <1>6, SameLength
<1>15. QED
  BY <1>1, <1>8, <1>9, <1>10, <1>11, <1>13, <1>14, Proceeds DEF Stacked

LEMMA ChildLeavesKeeps ==
  ASSUME IInv, DeleteChildren, ~ heap[me].freed, heap[me].children # << >>
  PROVE  IInv'
<1> DEFINE x == top
           r == Tail(calls)
           p == x.me
           kids == heap[p].children
           rest == Tail(kids)
           k == kids[1]
           y == [ x EXCEPT !.at = "child", !.child = k ]
<1>1. /\ calls # << >> /\ status = "running" /\ x.at = "children"
      /\ UNCHANGED << adult_table, made >>
      /\ Call("deleteLinks", k, << y >> \o r)
      /\ ChildrenSet(heap, p, rest, heap') /\ kids # << >> /\ ~ heap[p].freed
  BY DEF DeleteChildren, At, me, ChildrenSet
<1>2. AtWork(x, r)
  BY <1>1, Deeper
<1> HIDE DEF x, r
<1>3. /\ x \in Activations /\ r \in Seq(Activations) /\ Len(r) <= MaxCalls
      /\ ActivationFits(heap, x) /\ CallsFit(heap, r)
      /\ FamilyFits(heap, Leaving(r)) /\ SourcesFit(heap, made, Deleting(r))
  BY <1>1, <1>2 DEF AtWork, Pending, Ending
<1>4. Adult(heap, p) /\ p \in DOMAIN heap /\ heap[p].sources = << >>
  BY <1>1, <1>3 DEF ActivationFits, OfDelete
<1>5. /\ HeapFits(heap) /\ TableFits(heap, adult_table) /\ BagFits(heap, made)
      /\ heap \in Seq(Record) /\ Len(heap) <= MaxAnchors
  BY DEF IInv, TypeOK, HeapFits
<1>6. kids \in Seq(Nat) /\ \A i \in DOMAIN kids : kids[i] \in DOMAIN heap
  BY <1>4, <1>5, Fields DEF HeapFits
<1>7. /\ IsInjective(kids)
      /\ \A a \in DOMAIN heap :
           (\E i \in DOMAIN kids : kids[i] = a)
             <=> IsChild(heap, a, p) /\ a \notin Leaving(r)
  BY <1>3, <1>4 DEF FamilyFits
<1>8. p = x.me
  OBVIOUS
<1> HIDE DEF p, kids
<1>9. /\ rest \in Seq(Nat) /\ Without(kids, 1, rest)
      /\ 1 \in DOMAIN kids /\ 1 \in 1 .. Len(kids)
  BY <1>1, <1>6, HeadTail
<1>10. /\ k \in DOMAIN heap /\ k \in Nat /\ IsChild(heap, k, p)
       /\ k \notin Leaving(r)
  BY <1>5, <1>6, <1>7, <1>9, AnchorNumbers
<1> HIDE DEF rest
<1>11. /\ \A j \in DOMAIN rest : \E l \in DOMAIN kids : kids[l] = rest[j]
       /\ \A l \in DOMAIN kids : l # 1 => \E j \in DOMAIN rest : rest[j] = kids[l]
       /\ IsInjective(rest) /\ \A j \in DOMAIN rest : rest[j] # k
  BY <1>6, <1>7, <1>9, ElementsWithout
<1>12. ASSUME NEW a
       PROVE  (\E j \in DOMAIN rest : rest[j] = a)
                <=> (\E l \in DOMAIN kids : kids[l] = a) /\ a # k
  BY <1>11
<1> HIDE DEF k
<1>13. /\ heap' \in Seq(Record) /\ DOMAIN heap' = DOMAIN heap
       /\ heap'[p].children = rest
       /\ \A b \in DOMAIN heap :
            /\ heap'[b].parent = heap[b].parent /\ heap'[b].name = heap[b].name
            /\ heap'[b].mainLink = heap[b].mainLink
            /\ heap'[b].links = heap[b].links
            /\ heap'[b].sources = heap[b].sources
            /\ heap'[b].document = heap[b].document
            /\ heap'[b].freed = heap[b].freed
            /\ b # p => heap'[b].children = heap[b].children
  BY <1>1, <1>4, <1>5, <1>9, SetChildren
<1>14. SameLinks(heap, heap') /\ SameAnchors(heap, heap')
  BY <1>13 DEF SameLinks, SameAnchors
<1>15. HeapFits(heap')
  <2>1. ASSUME NEW b \in DOMAIN heap, NEW i \in DOMAIN heap'[b].children
        PROVE  heap'[b].children[i] \in DOMAIN heap
    <3>1. CASE b = p
      <4>1. heap'[b].children = rest /\ i \in DOMAIN rest
        BY <1>13, <2>1, <3>1
      <4>2. QED
        BY <1>6, <1>11, <4>1
    <3>2. CASE b # p
      <4>1. heap'[b].children = heap[b].children
        BY <1>13, <3>2
      <4>2. QED
        BY <1>5, <2>1, <4>1 DEF HeapFits
    <3>3. QED
      BY <3>1, <3>2
  <2>2. QED
    BY <1>5, <1>13, <1>14, <2>1, HeapOfSameLinks
<1>16. TableFits(heap', adult_table') /\ BagFits(heap', made')
  BY <1>1, <1>5, <1>13, <1>14, TableKept DEF BagFits
<1>17. FamilyFits(heap', Leaving(r) \cup { k })
  <2>1. ASSUME NEW a \in DOMAIN heap, NEW q \in DOMAIN heap
        PROVE  /\ IsChild(heap', a, q) <=> IsChild(heap, a, q)
               /\ q # p => ~ IsChild(heap, k, q)
    BY <1>10, <1>13 DEF IsChild
  <2>2. ASSUME NEW q \in DOMAIN heap, Adult(heap, q), q # p
        PROVE  /\ IsInjective(heap'[q].children)
               /\ \A a \in DOMAIN heap :
                    (\E i \in DOMAIN heap'[q].children : heap'[q].children[i] = a)
                      <=> IsChild(heap', a, q) /\ a \notin Leaving(r) \cup { k }
               /\ heap'[q].freed => heap'[q].children = << >>
    <3>1. heap'[q].children = heap[q].children /\ heap'[q].freed = heap[q].freed
      BY <1>13, <2>2
    <3>2. \A a \in DOMAIN heap : IsChild(heap, a, q) => a # k
      BY <2>1, <2>2
    <3>3. QED
      BY <1>3, <2>1, <2>2, <3>1, <3>2 DEF FamilyFits
  <2>3. ASSUME NEW a \in DOMAIN heap
        PROVE  (\E i \in DOMAIN rest : rest[i] = a)
                  <=> IsChild(heap', a, p) /\ a \notin Leaving(r) \cup { k }
    BY <1>4, <1>7, <1>12, <2>1
  <2>4. ~ heap'[p].freed
    BY <1>1, <1>4, <1>13
  <2>5. QED
    BY <1>11, <1>13, <1>14, <2>2, <2>3, <2>4, SameAdults DEF FamilyFits, Adult
<1>18. SourcesFit(heap', made', Deleting(r))
  BY <1>1, <1>3, <1>13, <1>14, SourcesKept
<1>19. CallsFit(heap', r)
  <2>1. Leaving(r) \subseteq DOMAIN heap
    BY <1>3 DEF CallsFit, ActivationFits, Leaving
  <2>2. QED
    BY <1>3, <1>13, <1>14, <2>1, CallsKept
<1>20. y \in Activations /\ y.at = "child" /\ y.me = p /\ y.child = k
  BY <1>3, <1>8, <1>10 DEF Activations, OfDelete
<1>21. Call("deleteLinks", k, << y >> \o r)
  BY <1>1
<1> HIDE DEF y
<1>22. ActivationFits(heap', y)
  <2>1. Adult(heap', p) /\ p \in DOMAIN heap' /\ IsChild(heap', k, p)
    BY <1>4, <1>10, <1>13 DEF Adult, IsChild
  <2>2. heap'[p].sources = << >>
    BY <1>4, <1>13
  <2>3. y \in [ at : OfDelete \cup OfLinks, me : Nat, child : Nat ]
    BY <1>20 DEF Activations
  <2>4. QED
    BY <1>10, <1>13, <1>20, <2>1, <2>2, <2>3 DEF ActivationFits
<1>23. Pending(y) = { k } /\ Ending(y) = {}
  BY <1>20 DEF Pending, Ending
<1>24. Len(heap') <= MaxAnchors
  BY <1>5, <1>13, SameLength
<1>25. \/ status' = "stack overflow" /\ calls' = calls
       \/ /\ status' = status
          /\ Stacked(heap', Leaving(r) \cup Pending(y), Deleting(r) \cup Ending(y))
  <2>1. k \in DOMAIN heap' /\ (y.at = "child" => y.child \notin Leaving(r))
    BY <1>10, <1>13, <1>20
  <2>2. QED
    BY <1>3, <1>10, <1>19, <1>20, <1>21, <1>22, <2>1, Called
<1>26. CASE status' = "stack overflow" /\ calls' = calls
  BY <1>13, <1>15, <1>16, <1>24, <1>26, Halts
<1>27. CASE /\ status' = status
            /\ Stacked(heap', Leaving(r) \cup Pending(y), Deleting(r) \cup Ending(y))
  <2>1. /\ Stacked(heap', Leaving(r) \cup { k }, Deleting(r))
        /\ status' = "running"
    BY <1>1, <1>23, <1>27
  <2>2. QED
    BY <1>15, <1>16, <1>17, <1>18, <1>24, <2>1, Proceeds DEF Stacked
<1>28. QED
  BY <1>25, <1>26, <1>27

LEMMA ChildrenKeeps ==
  ASSUME IInv, DeleteChildren
  PROVE  IInv'
<1>1. CASE heap[me].freed
  BY <1>1, Ended DEF DeleteChildren, UseAfterFree
<1>2. CASE ~ heap[me].freed
  BY <1>2, ChildrenFreedKeeps, ChildLeavesKeeps
<1>3. QED
  BY <1>1, <1>2

LEMMA ChildKeeps ==
  ASSUME IInv, DeleteChild
  PROVE  IInv'
<1> DEFINE x == top
           r == Tail(calls)
           k == x.child
           y == [ x EXCEPT !.at = "children" ]
<1>1. /\ calls # << >> /\ status = "running" /\ x.at = "child"
      /\ UNCHANGED << adult_table, made, status >> /\ calls' = << y >> \o r
      /\ FreedSet(heap, k, heap')
  BY DEF DeleteChild, At, Go, Continue, FreedSet
<1>2. AtWork(x, r)
  BY <1>1, Deeper
<1>3. /\ x \in Activations /\ r \in Seq(Activations) /\ Len(r) <= MaxCalls
      /\ ActivationFits(heap, x) /\ CallsFit(heap, r) /\ k \notin Leaving(r)
      /\ FamilyFits(heap, Leaving(r) \cup { k })
      /\ SourcesFit(heap, made, Deleting(r))
  BY <1>1, <1>2 DEF AtWork, Pending, Ending
<1> HIDE DEF x, r
<1>4. /\ k \in DOMAIN heap /\ IsChild(heap, k, x.me)
      /\ Adult(heap, x.me) /\ heap[x.me].sources = << >> /\ x.me \in DOMAIN heap
  BY <1>1, <1>3 DEF ActivationFits, OfDelete
<1>5. y \in Activations /\ y.at = "children" /\ y.me = x.me /\ y.child = k
  BY <1>3 DEF Activations, OfDelete
<1> HIDE DEF k, y
<1>6. /\ HeapFits(heap) /\ TableFits(heap, adult_table) /\ BagFits(heap, made)
      /\ heap \in Seq(Record) /\ Len(heap) <= MaxAnchors
  BY DEF IInv, TypeOK, HeapFits
<1>7. /\ heap' \in Seq(Record) /\ DOMAIN heap' = DOMAIN heap
      /\ heap'[k].freed
      /\ \A b \in DOMAIN heap :
           /\ heap'[b].parent = heap[b].parent /\ heap'[b].name = heap[b].name
           /\ heap'[b].mainLink = heap[b].mainLink
           /\ heap'[b].links = heap[b].links
           /\ heap'[b].children = heap[b].children
           /\ heap'[b].sources = heap[b].sources
           /\ heap'[b].document = heap[b].document
           /\ b # k => heap'[b].freed = heap[b].freed
  BY <1>1, <1>4, <1>6, SetFreed
<1>8. SameLinks(heap, heap') /\ SameAnchors(heap, heap')
  BY <1>7 DEF SameLinks, SameAnchors
<1>9. HeapFits(heap')
  <2>1. \A b \in DOMAIN heap : \A i \in DOMAIN heap'[b].children :
          heap'[b].children[i] \in DOMAIN heap
    BY <1>6, <1>7 DEF HeapFits
  <2>2. QED
    BY <1>6, <1>7, <1>8, <2>1, HeapOfSameLinks
<1>10. TableFits(heap', adult_table') /\ BagFits(heap', made')
  BY <1>1, <1>6, <1>7, <1>8, TableKept DEF BagFits
<1>11. ~ Adult(heap, k)
  BY <1>4 DEF IsChild, Adult
<1>12. FamilyFits(heap', Leaving(r))
  <2>1. ASSUME NEW a \in DOMAIN heap, NEW q \in DOMAIN heap
        PROVE  IsChild(heap', a, q) <=> IsChild(heap, a, q) /\ a # k
    BY <1>7 DEF IsChild
  <2>2. ASSUME NEW q \in DOMAIN heap, Adult(heap, q)
        PROVE  /\ IsInjective(heap'[q].children)
               /\ \A a \in DOMAIN heap :
                    (\E i \in DOMAIN heap'[q].children : heap'[q].children[i] = a)
                      <=> IsChild(heap', a, q) /\ a \notin Leaving(r)
               /\ heap'[q].freed => heap'[q].children = << >>
    <3>1. heap'[q].children = heap[q].children /\ heap'[q].freed = heap[q].freed
      BY <1>7, <1>11, <2>2
    <3>2. QED
      BY <1>3, <2>1, <2>2, <3>1 DEF FamilyFits
  <2>3. QED
    BY <1>7, <1>8, <2>2, SameAdults DEF FamilyFits, Adult
<1>13. SourcesFit(heap', made, Deleting(r))
  <2>1. \A a \in DOMAIN heap :
          Adult(heap, a) /\ heap'[a].freed /\ ~ heap[a].freed
            => heap[a].sources = << >>
    BY <1>7, <1>11
  <2>2. QED
    BY <1>3, <1>8, <2>1, SourcesKept
<1>14. CallsFit(heap', r)
  <2>1. Leaving(r) \subseteq DOMAIN heap
    BY <1>3 DEF CallsFit, ActivationFits, Leaving
  <2>2. QED
    BY <1>3, <1>7, <1>8, <2>1, CallsKept
<1>15. ActivationFits(heap', y)
  <2>1. Adult(heap', x.me) /\ heap'[x.me].sources = << >>
    BY <1>4, <1>7, <1>8, SameAdults
  <2>2. y \in [ at : OfDelete \cup OfLinks, me : Nat, child : Nat ]
    BY <1>5 DEF Activations
  <2>3. QED
    BY <1>4, <1>5, <1>7, <2>1, <2>2 DEF ActivationFits
<1>16. Pending(y) = {} /\ Ending(y) = {} /\ y.at # "child"
  BY <1>5 DEF Pending, Ending
<1>17. Stacked(heap', Leaving(r) \cup Pending(y), Deleting(r) \cup Ending(y))
  BY <1>1, <1>3, <1>5, <1>14, <1>15, <1>16, WentOn
<1>18. Stacked(heap', Leaving(r), Deleting(r)) /\ status' = "running"
  BY <1>1, <1>16, <1>17
<1>19. Len(heap') <= MaxAnchors
  BY <1>6, <1>7, SameLength
<1>20. QED
  BY <1>1, <1>9, <1>10, <1>12, <1>13, <1>18, <1>19, Proceeds DEF Stacked

(* g is f after its document q has forgotten one link from m. *)
Forgets(f, q, m, g) ==
  /\ HeapFits(g) /\ g \in Seq(Record) /\ SameFamily(f, g)
  /\ \A p \in DOMAIN f : f[p].sources = << >> => g[p].sources = << >>
  /\ \A a \in DOMAIN f : \A p : /\ MainTo(g, a, p) = MainTo(f, a, p)
                                /\ LinksTo(g, a, p) = LinksTo(f, a, p)
  /\ \A a : \A p \in DOMAIN f : p # q \/ a # m => Heard(g, p, a) = Heard(f, p, a)
  /\ Heard(g, q, m) = IF Heard(f, q, m) = 0 THEN 0 ELSE Heard(f, q, m) - 1

LEMMA Forgotten ==
  ASSUME NEW f, NEW g, NEW m, HeapFits(f), NEW q \in DOMAIN f,
         SourcesSet(f, q, RemoveFirst(f[q].sources, m), g)
  PROVE  Forgets(f, q, m, g)
<1> DEFINE s == f[q].sources
           v == RemoveFirst(s, m)
<1>1. f \in Seq(Record) /\ s \in Seq(Nat) /\ SourcesSet(f, q, v, g)
  BY Fields DEF HeapFits
<1>2. \A i \in DOMAIN s : s[i] \in DOMAIN f
  BY DEF HeapFits
<1>3. /\ \A y : y # m => Hits(v, { y }) = Hits(s, { y })
      /\ Hits(v, { m }) = IF Hits(s, { m }) = 0 THEN 0 ELSE Hits(s, { m }) - 1
      /\ v \in Seq(Nat)
      /\ \/ v = s
         \/ \E i \in 1 .. Len(s) : s[i] = m /\ Without(s, i, v)
  <2> HIDE DEF s
  <2>1. QED
    BY <1>1, HitsRemovedFirst, RemovedFirst
<1> HIDE DEF v
<1>4. /\ g \in Seq(Record) /\ DOMAIN g = DOMAIN f /\ g[q].sources = v
      /\ \A b \in DOMAIN f :
           /\ g[b].parent = f[b].parent /\ g[b].name = f[b].name
           /\ g[b].mainLink = f[b].mainLink /\ g[b].links = f[b].links
           /\ g[b].children = f[b].children /\ g[b].document = f[b].document
           /\ g[b].freed = f[b].freed
           /\ b # q => g[b].sources = f[b].sources
  BY <1>1, <1>3, SetSources
<1>5. SameFamily(f, g) /\ SameAnchors(f, g)
  BY <1>4 DEF SameFamily, SameAnchors
<1>6. s = f[q].sources
  OBVIOUS
<1> HIDE DEF s
<1>7. /\ \A i \in DOMAIN v : v[i] \in DOMAIN f
      /\ s = << >> => v = << >>
  <2>1. CASE v = s
    BY <1>2, <2>1
  <2>2. CASE \E i \in 1 .. Len(s) : s[i] = m /\ Without(s, i, v)
    <3>1. PICK i \in 1 .. Len(s) : Without(s, i, v)
      BY <2>2
    <3>2. \A j \in DOMAIN v : \E k \in DOMAIN s : s[k] = v[j]
      BY <1>1, <1>3, <3>1, ElementsWithout
    <3>3. s # << >>
      BY <1>1, <3>1
    <3>4. QED
      BY <1>2, <3>2, <3>3
  <2>3. QED
    BY <1>3, <2>1, <2>2
<1>8. HeapFits(g)
  <2>1. ASSUME NEW a \in DOMAIN f
        PROVE  /\ g[a].mainLink \in DOMAIN f \cup { Null }
               /\ g[a].mainLink = Null => g[a].links = << >>
               /\ \A i \in DOMAIN g[a].links    : g[a].links[i] \in DOMAIN f
               /\ \A i \in DOMAIN g[a].children : g[a].children[i] \in DOMAIN f
    BY <1>4 DEF HeapFits
  <2>2. ASSUME NEW a \in DOMAIN f, NEW i \in DOMAIN g[a].sources
        PROVE  g[a].sources[i] \in DOMAIN f
    <3>1. CASE a = q
      BY <1>4, <1>7, <2>2, <3>1
    <3>2. CASE a # q
      <4>1. g[a].sources = f[a].sources
        BY <1>4, <3>2
      <4>2. QED
        BY <2>2, <4>1 DEF HeapFits
    <3>3. QED
      BY <3>1, <3>2
  <2>3. QED
    BY <1>4, <1>5, <2>1, <2>2, HeapKept
<1>9. \A p \in DOMAIN f : f[p].sources = << >> => g[p].sources = << >>
  BY <1>4, <1>6, <1>7
<1>10. ASSUME NEW a \in DOMAIN f, NEW p
       PROVE  /\ MainTo(g, a, p) = MainTo(f, a, p)
              /\ LinksTo(g, a, p) = LinksTo(f, a, p)
  <2>1. Places(g, p) = Places(f, p)
    BY <1>5, SameAdults
  <2>2. g[a].mainLink = f[a].mainLink /\ g[a].links = f[a].links
    BY <1>4
  <2>3. QED
    BY <2>1, <2>2 DEF MainTo, LinksTo
<1>11. ASSUME NEW a, NEW p \in DOMAIN f, p # q \/ a # m
       PROVE  Heard(g, p, a) = Heard(f, p, a)
  <2>1. CASE p = q
    BY <1>3, <1>4, <1>6, <1>11, <2>1 DEF Heard
  <2>2. CASE p # q
    BY <1>4, <2>2 DEF Heard
  <2>3. QED
    BY <2>1, <2>2
<1>12. Heard(g, q, m) = IF Heard(f, q, m) = 0 THEN 0 ELSE Heard(f, q, m) - 1
  BY <1>3, <1>4, <1>6 DEF Heard
<1>13. QED
  BY <1>4, <1>5, <1>8, <1>9, <1>10, <1>11, <1>12 DEF Forgets

TakenOut(bag, m, less) ==
  less = [ l \in { l \in DOMAIN bag : l[1] # m } |-> bag[l] ]

LEMMA CopiesTakenOut ==
  ASSUME NEW h, NEW bag, BagFits(h, bag), NEW m, NEW less, TakenOut(bag, m, less)
  PROVE  /\ BagFits(h, less)
         /\ \A p : Copies(less, m, p) = 0
         /\ \A a, p : a # m => Copies(less, a, p) = Copies(bag, a, p)
<1> DEFINE D == { l \in DOMAIN bag : l[1] # m }
<1>1. DOMAIN less = D /\ \A l \in D : less[l] = bag[l]
  BY DEF TakenOut
<1>2. \A a, p : << a, p >> \in D <=> << a, p >> \in DOMAIN bag /\ a # m
  OBVIOUS
<1>3. /\ less \in [ DOMAIN less -> Nat ]
      /\ DOMAIN less \subseteq (DOMAIN h) \X (DOMAIN h)
  BY DEF BagFits, TakenOut
<1> HIDE DEF D
<1>4. \A a, p : << a, p >> \in DOMAIN less <=> << a, p >> \in DOMAIN bag /\ a # m
  BY <1>1, <1>2
<1>5. \A p : Copies(less, m, p) = 0
  BY <1>4 DEF Copies
<1>6. ASSUME NEW a, NEW p, a # m
      PROVE  Copies(less, a, p) = Copies(bag, a, p)
  BY <1>1, <1>4, <1>6 DEF Copies
<1>7. BagFits(h, less)
  BY <1>3 DEF BagFits
<1>8. QED
  BY <1>5, <1>6, <1>7

(* One link of the anchor m is taken out of what its destination has heard. *)
LEMMA LinkDeleted ==
  ASSUME IInv, status = "running", UNCHANGED adult_table, BagFits(heap, made'),
         NEW f, NEW y \in Activations, NEW r \in Seq(Activations), Len(r) <= MaxCalls,
         HeapFits(f), SameFamily(heap, f), CallsFit(f, r),
         y.at = "links", y.me = me, ActivationFits(f, y),
         FamilyFits(f, Leaving(r)), NEW d \in DOMAIN f, Continue("links") = << y >> \o r,
         DeleteLink(f, d, "links"),
         ASSUME NEW g, Forgets(f, f[d].parent, me, g)
         PROVE  SourcesFit(g, made', Deleting(r) \cup { me })
  PROVE  IInv'
<1> DEFINE q == f[d].parent
<1>1. /\ HeapFits(heap) /\ TableFits(heap, adult_table)
      /\ Len(heap) <= MaxAnchors /\ heap \in Seq(Record)
      /\ DOMAIN f = DOMAIN heap
  BY DEF IInv, TypeOK, HeapFits, SameFamily, SameAnchors
<1>2. q \in DOMAIN f /\ Adult(f, q) /\ q \in Nat
  BY AnchorNumbers DEF HeapFits, Adult
<1>3. CASE f[d].freed \/ f[q].freed
  <2>1. status' = "use after free" /\ UNCHANGED << heap, calls >>
    BY <1>3 DEF DeleteLink
  <2>2. QED
    BY <1>1, <2>1, Halts
<1>4. CASE ~ (f[d].freed \/ f[q].freed)
  <2>1. /\ SourcesSet(f, q, RemoveFirst(f[q].sources, me), heap')
        /\ \/ calls' = << y >> \o r /\ UNCHANGED status
           \/ Call("delete", q, << y >> \o r)
    BY <1>4 DEF DeleteLink, SourcesSet, Go
  <2>2. Forgets(f, q, me, heap')
    <3> HIDE DEF q
    <3>1. QED
      BY <1>2, <2>1, Forgotten
  <2>3. SourcesFit(heap', made', Deleting(r) \cup { me })
    BY <2>2
  <2> HIDE DEF q
  <2>4. /\ SameAnchors(f, heap') /\ SameAnchors(heap, heap')
        /\ DOMAIN heap' = DOMAIN heap
    BY <2>2 DEF Forgets, SameFamily, SameAnchors
  <2>5. /\ TableFits(heap', adult_table') /\ BagFits(heap', made')
        /\ FamilyFits(heap', Leaving(r))
    BY <1>1, <2>2, <2>4, TableKept, FamilyKept DEF BagFits, Forgets
  <2>6. Len(heap') <= MaxAnchors
    BY <1>1, <2>2, <2>4, SameLength DEF Forgets
  <2>7. CallsFit(heap', r)
    <3>1. Leaving(r) \subseteq DOMAIN f
      BY DEF CallsFit, ActivationFits, Leaving
    <3>2. \A a \in Leaving(r) : heap'[a].freed = f[a].freed
      BY <2>2, <3>1 DEF SameFamily, Forgets
    <3>3. QED
      BY <2>2, <2>4, <3>2, CallsKept DEF Forgets
  <2>8. ActivationFits(heap', y)
    <3>1. /\ y \in [ at : OfDelete \cup OfLinks, me : Nat, child : Nat ]
          /\ y.me \in DOMAIN heap' /\ y.child \in DOMAIN heap' \cup { Null }
      BY <2>4 DEF ActivationFits, SameAnchors
    <3>2. QED
      BY <3>1 DEF ActivationFits, OfDelete
  <2>9. Pending(y) = {} /\ Ending(y) = { me } /\ y.at # "child"
    BY DEF Pending, Ending
  <2>10. CASE calls' = << y >> \o r /\ UNCHANGED status
    <3>1. Stacked(heap', Leaving(r) \cup Pending(y), Deleting(r) \cup Ending(y))
      BY <2>7, <2>8, <2>9, <2>10, WentOn
    <3>2. /\ Stacked(heap', Leaving(r), Deleting(r) \cup { me })
          /\ status' = "running"
      BY <2>9, <2>10, <3>1
    <3>3. QED
      BY <2>2, <2>3, <2>5, <2>6, <3>2, Proceeds DEF Stacked, Forgets
  <2>11. CASE Call("delete", q, << y >> \o r)
    <3>1. q \in DOMAIN heap' /\ Adult(heap', q)
      BY <1>2, <2>4, SameAdults DEF SameAnchors
    <3>2. \/ status' = "stack overflow" /\ calls' = calls
          \/ /\ status' = status
             /\ Stacked(heap', Leaving(r) \cup Pending(y), Deleting(r) \cup Ending(y))
      BY <1>2, <2>7, <2>8, <2>9, <2>11, <3>1, Called
    <3>3. CASE status' = "stack overflow" /\ calls' = calls
      BY <2>2, <2>4, <2>5, <2>6, <3>3, Halts DEF Forgets
    <3>4. CASE /\ status' = status
               /\ Stacked(heap', Leaving(r) \cup Pending(y), Deleting(r) \cup Ending(y))
      <4>1. /\ Stacked(heap', Leaving(r), Deleting(r) \cup { me })
            /\ status' = "running"
        BY <2>9, <3>4
      <4>2. QED
        BY <2>2, <2>3, <2>5, <2>6, <4>1, Proceeds DEF Stacked, Forgets
    <3>5. QED
      BY <3>2, <3>3, <3>4
  <2>12. QED
    BY <2>1, <2>10, <2>11
<1>5. QED
  BY <1>3, <1>4

LEMMA MainLinkKeeps ==
  ASSUME IInv, DeleteMainLink
  PROVE  IInv'
<1> DEFINE x == top
           r == Tail(calls)
           m == x.me
           y == [ x EXCEPT !.at = "links" ]
<1>1. /\ calls # << >> /\ status = "running" /\ x.at = "deleteLinks"
      /\ UNCHANGED adult_table /\ m = me /\ Continue("links") = << y >> \o r
      /\ made' = [ l \in { l \in DOMAIN made : l[1] # m } |-> made[l] ]
      /\ IF heap[m].mainLink = Null
         THEN calls' = << y >> \o r /\ UNCHANGED << status, heap >>
         ELSE DeleteLink(heap, heap[m].mainLink, "links")
  BY DEF DeleteMainLink, At, Go, Continue, me
<1>2. AtWork(x, r)
  BY <1>1, Deeper
<1> HIDE DEF x, r
<1>3. /\ x \in Activations /\ r \in Seq(Activations) /\ Len(r) <= MaxCalls
      /\ ActivationFits(heap, x) /\ CallsFit(heap, r)
      /\ FamilyFits(heap, Leaving(r)) /\ SourcesFit(heap, made, Deleting(r))
  BY <1>1, <1>2 DEF AtWork, Pending, Ending
<1>4. /\ HeapFits(heap) /\ TableFits(heap, adult_table) /\ BagFits(heap, made)
      /\ Len(heap) <= MaxAnchors /\ Null \notin DOMAIN heap
      /\ SameFamily(heap, heap)
  <2>1. SameFamily(heap, heap)
    BY DEF SameFamily, SameAnchors
  <2>2. HeapFits(heap) /\ heap \in Seq(Record)
    BY DEF IInv, HeapFits
  <2>3. Null \notin DOMAIN heap
    BY <2>2, AnchorNumbers
  <2>4. QED
    BY <2>1, <2>2, <2>3 DEF IInv, TypeOK
<1>5. y \in Activations /\ y.at = "links" /\ y.me = m /\ y.child = x.child
  BY <1>3 DEF Activations, OfLinks
<1>6. m \in DOMAIN heap
  BY <1>3 DEF ActivationFits
<1> HIDE DEF y, m
<1>7. ActivationFits(heap, y)
  BY <1>3, <1>5 DEF ActivationFits, Activations, OfDelete, m
<1>8. /\ BagFits(heap, made') /\ \A p : Copies(made', m, p) = 0
      /\ \A a, p : a # m => Copies(made', a, p) = Copies(made, a, p)
  <2>1. TakenOut(made, m, made')
    BY <1>1 DEF TakenOut
  <2>2. QED
    BY <1>4, <2>1, CopiesTakenOut
<1>9. Pending(y) = {} /\ Ending(y) = { m } /\ y.at # "child"
  BY <1>5 DEF Pending, Ending
<1>10. ASSUME NEW p \in DOMAIN heap, Adult(heap, p)
       PROVE  /\ heap[p].freed => heap[p].sources = << >>
              /\ \A a \in DOMAIN heap :
                   /\ Heard(heap, p, a) <= MainTo(heap, a, p) + LinksTo(heap, a, p)
                   /\ a \in Deleting(r) => Copies(made, a, p) = 0
                                            /\ Heard(heap, p, a) <= LinksTo(heap, a, p)
                   /\ a \notin Deleting(r) => Copies(made, a, p) = Heard(heap, p, a)
  BY <1>3, <1>10 DEF SourcesFit
<1>11. ASSUME NEW p \in DOMAIN heap, NEW a \in DOMAIN heap
       PROVE  /\ Heard(heap, p, a) \in Nat /\ LinksTo(heap, a, p) \in Nat
              /\ MainTo(heap, a, p) \in 0 .. 1
  <2>1. /\ MainTo(heap, a, p) \in 0 .. 1 /\ LinksTo(heap, a, p) \in Nat
    BY <1>4, CountsAreNatural
  <2>2. Heard(heap, p, a) \in Nat
    BY <1>4, CountsAreNatural, Zenon
  <2>3. QED
    BY <2>1, <2>2
<1>12. CASE heap[m].mainLink = Null
  <2>1. calls' = << y >> \o r /\ UNCHANGED << status, heap >>
    BY <1>1, <1>12
  <2>2. \A p : MainTo(heap, m, p) = 0
    BY <1>4, <1>12 DEF MainTo, Places
  <2>3. SourcesFit(heap, made', Deleting(r) \cup { m })
    <3>1. ASSUME NEW p \in DOMAIN heap, Adult(heap, p), NEW a \in DOMAIN heap
          PROVE  /\ Heard(heap, p, a) <= MainTo(heap, a, p) + LinksTo(heap, a, p)
                 /\ a \in Deleting(r) \cup { m } =>
                      Copies(made', a, p) = 0 /\ Heard(heap, p, a) <= LinksTo(heap, a, p)
                 /\ a \notin Deleting(r) \cup { m } =>
                      Copies(made', a, p) = Heard(heap, p, a)
      <4>1. /\ Heard(heap, p, a) <= MainTo(heap, a, p) + LinksTo(heap, a, p)
            /\ a \in Deleting(r) => Copies(made, a, p) = 0
                                     /\ Heard(heap, p, a) <= LinksTo(heap, a, p)
            /\ a \notin Deleting(r) => Copies(made, a, p) = Heard(heap, p, a)
        BY <1>10, <3>1
      <4>2. CASE a = m
        <5>1. Copies(made', a, p) = 0 /\ MainTo(heap, a, p) = 0
          BY <1>8, <2>2, <4>2
        <5>2. Heard(heap, p, a) <= LinksTo(heap, a, p)
          BY <1>11, <4>1, <5>1
        <5>3. QED
          BY <4>1, <4>2, <5>1, <5>2
      <4>3. CASE a # m
        <5>1. Copies(made', a, p) = Copies(made, a, p)
          BY <1>8, <4>3
        <5>2. QED
          BY <4>1, <4>3, <5>1
      <4>4. QED
        BY <4>2, <4>3
    <3>2. QED
      BY <1>10, <3>1 DEF SourcesFit
  <2>4. Stacked(heap, Leaving(r) \cup Pending(y), Deleting(r) \cup Ending(y))
    BY <1>3, <1>5, <1>7, <1>9, <2>1, WentOn
  <2>5. /\ Stacked(heap', Leaving(r), Deleting(r) \cup { m })
        /\ status' = "running"
    BY <1>1, <1>9, <2>1, <2>4
  <2>6. QED
    BY <1>1, <1>3, <1>4, <1>8, <2>1, <2>3, <2>5, Proceeds DEF Stacked
<1>13. CASE heap[m].mainLink # Null
  <2> DEFINE d == heap[m].mainLink
             q == heap[d].parent
  <2>1. d \in DOMAIN heap /\ DeleteLink(heap, d, "links")
    BY <1>1, <1>4, <1>6, <1>13 DEF HeapFits
  <2> HIDE DEF d
  <2>2. q \in DOMAIN heap /\ Adult(heap, q)
    BY <1>4, <2>1 DEF HeapFits, Adult
  <2>3. \A p : MainTo(heap, m, p) = IF p = q THEN 1 ELSE 0
    BY <2>1 DEF MainTo, Places, d
  <2> HIDE DEF q
  <2>4. ASSUME NEW g, Forgets(heap, q, m, g)
        PROVE  SourcesFit(g, made', Deleting(r) \cup { m })
    <3>1. /\ SameFamily(heap, g) /\ SameAnchors(heap, g)
          /\ \A p \in DOMAIN heap : heap[p].sources = << >> => g[p].sources = << >>
          /\ \A a \in DOMAIN heap : \A p :
               MainTo(g, a, p) = MainTo(heap, a, p) /\ LinksTo(g, a, p) = LinksTo(heap, a, p)
          /\ \A a : \A p \in DOMAIN heap :
               p # q \/ a # m => Heard(g, p, a) = Heard(heap, p, a)
          /\ Heard(g, q, m) = IF Heard(heap, q, m) = 0 THEN 0 ELSE Heard(heap, q, m) - 1
      BY <2>4 DEF Forgets, SameFamily
    <3>2. ASSUME NEW p \in DOMAIN heap, Adult(heap, p), NEW a \in DOMAIN heap
          PROVE  /\ Heard(g, p, a) <= MainTo(g, a, p) + LinksTo(g, a, p)
                 /\ a \in Deleting(r) \cup { m } =>
                      Copies(made', a, p) = 0 /\ Heard(g, p, a) <= LinksTo(g, a, p)
                 /\ a \notin Deleting(r) \cup { m } =>
                      Copies(made', a, p) = Heard(g, p, a)
      <4>1. /\ Heard(heap, p, a) <= MainTo(heap, a, p) + LinksTo(heap, a, p)
            /\ a \in Deleting(r) => Copies(made, a, p) = 0
                                     /\ Heard(heap, p, a) <= LinksTo(heap, a, p)
            /\ a \notin Deleting(r) => Copies(made, a, p) = Heard(heap, p, a)
        BY <1>10, <3>2
      <4>2. /\ MainTo(g, a, p) = MainTo(heap, a, p)
            /\ LinksTo(g, a, p) = LinksTo(heap, a, p)
        BY <3>1
      <4>3. CASE a = m
        <5>1. Copies(made', a, p) = 0
          BY <1>8, <4>3
        <5>2. Heard(g, p, a) <= LinksTo(heap, a, p)
          <6>1. CASE p = q
            <7>1. /\ MainTo(heap, a, p) = 1
                  /\ Heard(g, p, a) = IF Heard(heap, p, a) = 0 THEN 0
                                      ELSE Heard(heap, p, a) - 1
              BY <2>3, <3>1, <4>3, <6>1
            <7>2. QED
              BY <1>11, <4>1, <7>1
          <6>2. CASE p # q
            <7>1. MainTo(heap, a, p) = 0 /\ Heard(g, p, a) = Heard(heap, p, a)
              BY <2>3, <3>1, <4>3, <6>2
            <7>2. QED
              BY <1>11, <4>1, <7>1
          <6>3. QED
            BY <6>1, <6>2
        <5>3. Heard(g, p, a) <= MainTo(heap, a, p) + LinksTo(heap, a, p)
          <6>1. Heard(g, p, a) \in Int
            BY <1>11, <2>3, <3>1, <4>3
          <6>2. QED
            BY <1>11, <5>2, <6>1
        <5>4. QED
          BY <4>2, <4>3, <5>1, <5>2, <5>3
      <4>4. CASE a # m
        <5>1. /\ Copies(made', a, p) = Copies(made, a, p)
              /\ Heard(g, p, a) = Heard(heap, p, a)
          BY <1>8, <3>1, <4>4
        <5>2. QED
          BY <4>1, <4>2, <4>4, <5>1
      <4>5. QED
        BY <4>3, <4>4
    <3>3. ASSUME NEW p \in DOMAIN heap, Adult(heap, p)
          PROVE  g[p].freed => g[p].sources = << >>
      BY <1>10, <3>1, <3>3 DEF SameFamily
    <3>4. QED
      BY <3>1, <3>2, <3>3, SameAdults DEF SourcesFit, SameAnchors
  <2>5. \A g : Forgets(heap, heap[d].parent, me, g)
                 => SourcesFit(g, made', Deleting(r) \cup { me })
    BY <1>1, <2>4 DEF q
  <2>6. y.me = me
    BY <1>1, <1>5
  <2>7. QED
    BY <1>1, <1>3, <1>4, <1>5, <1>7, <1>8, <2>1, <2>5, <2>6, LinkDeleted
<1>14. QED
  BY <1>12, <1>13

LEMMA ExtraLinksKeeps ==
  ASSUME IInv, DeleteExtraLinks
  PROVE  IInv'
<1> DEFINE x == top
           r == Tail(calls)
           m == x.me
           links == heap[m].links
           rest == Tail(links)
           d == Head(links)
           y == [ x EXCEPT !.at = "links" ]
           f == [ heap EXCEPT ![m].links = rest ]
<1>1. CASE heap[me].freed
  <2>1. UseAfterFree
    BY <1>1 DEF DeleteExtraLinks
  <2>2. QED
    BY <2>1, Ended DEF UseAfterFree
<1>2. CASE ~ heap[me].freed
  <2>1. /\ calls # << >> /\ status = "running" /\ x.at = "links"
        /\ UNCHANGED << adult_table, made >> /\ m = me
        /\ Continue("links") = << y >> \o r
        /\ IF links = << >> THEN calls' = r /\ UNCHANGED << status, heap >>
           ELSE DeleteLink(f, d, "links")
    BY <1>2 DEF DeleteExtraLinks, At, Return, Continue, me
  <2>2. AtWork(x, r)
    BY <2>1, Deeper
  <2> HIDE DEF x, r
  <2>3. /\ x \in Activations /\ r \in Seq(Activations) /\ Len(r) <= MaxCalls
        /\ ActivationFits(heap, x) /\ CallsFit(heap, r)
        /\ FamilyFits(heap, Leaving(r))
        /\ SourcesFit(heap, made, Deleting(r) \cup { m })
    BY <2>1, <2>2 DEF AtWork, Pending, Ending
  <2>4. /\ HeapFits(heap) /\ TableFits(heap, adult_table) /\ BagFits(heap, made)
        /\ Len(heap) <= MaxAnchors /\ heap \in Seq(Record)
    BY DEF IInv, TypeOK, HeapFits
  <2>5. m \in DOMAIN heap
    BY <2>3 DEF ActivationFits
  <2>6. links \in Seq(Nat) /\ \A i \in DOMAIN links : links[i] \in DOMAIN heap
    BY <2>4, <2>5, Fields DEF HeapFits
  <2>7. y \in Activations /\ y.at = "links" /\ y.me = m /\ y.child = x.child
    BY <2>3 DEF Activations, OfLinks
  <2> HIDE DEF y, m
  <2>8. ASSUME NEW p \in DOMAIN heap, Adult(heap, p)
        PROVE  /\ heap[p].freed => heap[p].sources = << >>
               /\ \A a \in DOMAIN heap :
                    /\ Heard(heap, p, a) <= MainTo(heap, a, p) + LinksTo(heap, a, p)
                    /\ a \in Deleting(r) \cup { m } =>
                         Copies(made, a, p) = 0 /\ Heard(heap, p, a) <= LinksTo(heap, a, p)
                    /\ a \notin Deleting(r) \cup { m } =>
                         Copies(made, a, p) = Heard(heap, p, a)
    BY <2>3, <2>8 DEF SourcesFit
  <2>9. ASSUME NEW p \in DOMAIN heap, NEW a \in DOMAIN heap
        PROVE  /\ Heard(heap, p, a) \in Nat /\ LinksTo(heap, a, p) \in Nat
               /\ MainTo(heap, a, p) \in 0 .. 1
    <3>1. /\ MainTo(heap, a, p) \in 0 .. 1 /\ LinksTo(heap, a, p) \in Nat
      BY <2>4, CountsAreNatural
    <3>2. Heard(heap, p, a) \in Nat
      BY <2>4, CountsAreNatural, Zenon
    <3>3. QED
      BY <3>1, <3>2
  <2>10. CASE links = << >>
    <3>1. calls' = r /\ UNCHANGED << status, heap >>
      BY <2>1, <2>10
    <3>2. SourcesFit(heap, made, Deleting(r))
      <4>1. ASSUME NEW p \in DOMAIN heap, Adult(heap, p), NEW a \in DOMAIN heap
            PROVE  /\ a \in Deleting(r) =>
                        Copies(made, a, p) = 0 /\ Heard(heap, p, a) <= LinksTo(heap, a, p)
                   /\ a \notin Deleting(r) => Copies(made, a, p) = Heard(heap, p, a)
        <5>1. CASE a = m
          <6>1. LinksTo(heap, a, p) = 0
            BY <2>10, <5>1, HitsOfNothing DEF LinksTo
          <6>2. /\ Copies(made, a, p) = 0
                /\ Heard(heap, p, a) <= LinksTo(heap, a, p)
            BY <2>8, <4>1, <5>1
          <6>3. Heard(heap, p, a) = 0
            BY <2>9, <6>1, <6>2
          <6>4. QED
            BY <6>2, <6>3
        <5>2. CASE a # m
          BY <2>8, <4>1, <5>2
        <5>3. QED
          BY <5>1, <5>2
      <4>2. QED
        BY <2>8, <4>1 DEF SourcesFit
    <3>3. Stacked(heap, Leaving(r), Deleting(r))
      BY <2>3, <3>1, Returned
    <3>4. status' = "running"
      BY <2>1, <3>1
    <3>5. QED
      BY <2>1, <2>3, <3>1, <3>2, <3>3, <3>4, GraphSettled
  <2>11. CASE links # << >>
    <3>1. DeleteLink(f, d, "links")
      BY <2>1, <2>11
    <3>2. /\ rest \in Seq(Nat) /\ Without(links, 1, rest) /\ d = links[1]
          /\ 1 \in DOMAIN links /\ 1 \in 1 .. Len(links)
      <4> HIDE DEF links
      <4>1. QED
        BY <2>6, <2>11, HeadTail
    <3>3. LinksSet(heap, m, rest, f)
      BY DEF LinksSet
    <3>4. d \in DOMAIN heap
      BY <2>6, <3>2
    <3>5. \A T : Hits(links, T) = Hits(rest, T) + IF d \in T THEN 1 ELSE 0
      <4> HIDE DEF links
      <4>1. QED
        BY <2>6, <2>11, HitsOfTail
    <3>6. \A j \in DOMAIN rest : rest[j] \in DOMAIN heap
      <4>1. \A j \in DOMAIN rest : \E k \in DOMAIN links : links[k] = rest[j]
        <5> HIDE DEF links, rest
        <5>1. QED
          BY <2>6, <3>2, ElementsWithout
      <4>2. QED
        BY <2>6, <4>1
    <3>7. links = heap[m].links
      OBVIOUS
    <3> HIDE DEF links, rest, d, f
    <3>8. /\ f \in Seq(Record) /\ DOMAIN f = DOMAIN heap /\ f[m].links = rest
          /\ \A b \in DOMAIN heap :
               /\ f[b].parent = heap[b].parent /\ f[b].name = heap[b].name
               /\ f[b].mainLink = heap[b].mainLink
               /\ f[b].children = heap[b].children
               /\ f[b].sources = heap[b].sources
               /\ f[b].document = heap[b].document
               /\ f[b].freed = heap[b].freed
               /\ b # m => f[b].links = heap[b].links
      BY <2>4, <2>5, <3>2, <3>3, SetLinks
    <3>9. SameFamily(heap, f) /\ SameAnchors(heap, f)
      BY <3>8 DEF SameFamily, SameAnchors
    <3>10. HeapFits(f)
      <4>1. ASSUME NEW b \in DOMAIN heap
            PROVE  /\ f[b].mainLink \in DOMAIN heap \cup { Null }
                   /\ f[b].mainLink = Null => f[b].links = << >>
                   /\ \A i \in DOMAIN f[b].links    : f[b].links[i] \in DOMAIN heap
        <5>1. CASE b = m
          BY <2>4, <2>11, <3>6, <3>7, <3>8, <5>1 DEF HeapFits
        <5>2. CASE b # m
          <6>1. f[b].links = heap[b].links /\ f[b].mainLink = heap[b].mainLink
            BY <3>8, <5>2
          <6>2. QED
            BY <2>4, <4>1, <6>1 DEF HeapFits
        <5>3. QED
          BY <5>1, <5>2
      <4>2. ASSUME NEW b \in DOMAIN heap
            PROVE  /\ \A i \in DOMAIN f[b].sources  : f[b].sources[i] \in DOMAIN heap
                   /\ \A i \in DOMAIN f[b].children : f[b].children[i] \in DOMAIN heap
        BY <2>4, <3>8 DEF HeapFits
      <4>3. QED
        BY <2>4, <3>8, <3>9, <4>1, <4>2, HeapKept
    <3>11. FamilyFits(f, Leaving(r))
      BY <2>3, <3>9, FamilyKept
    <3>12. CallsFit(f, r)
      <4>1. Leaving(r) \subseteq DOMAIN heap
        BY <2>3 DEF CallsFit, ActivationFits, Leaving
      <4>2. QED
        BY <2>3, <3>8, <3>9, <4>1, CallsKept
    <3>13. ActivationFits(f, y)
      <4>1. /\ y \in [ at : OfDelete \cup OfLinks, me : Nat, child : Nat ]
            /\ y.me \in DOMAIN f /\ y.child \in DOMAIN f \cup { Null }
        BY <2>3, <2>5, <2>7, <3>8 DEF ActivationFits, Activations
      <4>2. QED
        BY <2>7, <4>1 DEF ActivationFits, OfDelete
    <3> DEFINE q == f[d].parent
    <3>14. q \in DOMAIN heap /\ Adult(heap, q) /\ heap[d].parent = q
      BY <2>4, <3>4, <3>8 DEF HeapFits, Adult
    <3>15. ASSUME NEW p
           PROVE  LinksTo(heap, m, p) = LinksTo(f, m, p) + IF p = q THEN 1 ELSE 0
      <4>1. /\ LinksTo(heap, m, p) = Hits(links, Places(heap, p))
            /\ LinksTo(f, m, p) = Hits(rest, Places(heap, p))
        BY <3>7, <3>8, <3>9, SameAdults DEF LinksTo
      <4>2. d \in Places(heap, p) <=> p = q
        BY <3>4, <3>14 DEF Places
      <4>3. QED
        BY <3>5, <4>1, <4>2
    <3>16. ASSUME NEW p, NEW a \in DOMAIN heap
           PROVE  /\ MainTo(f, a, p) = MainTo(heap, a, p)
                  /\ a # m => LinksTo(f, a, p) = LinksTo(heap, a, p)
      BY <3>8, <3>9, SameAdults DEF LinksTo, MainTo
    <3>17. ASSUME NEW p \in DOMAIN heap, NEW a
           PROVE  Heard(f, p, a) = Heard(heap, p, a)
      BY <3>8 DEF Heard
    <3> HIDE DEF q
    <3>18. ASSUME NEW g, Forgets(f, q, m, g)
           PROVE  SourcesFit(g, made', Deleting(r) \cup { m })
      <4>1. /\ SameFamily(f, g) /\ SameAnchors(f, g)
            /\ \A p \in DOMAIN f : f[p].sources = << >> => g[p].sources = << >>
            /\ \A a \in DOMAIN f : \A p :
                 MainTo(g, a, p) = MainTo(f, a, p) /\ LinksTo(g, a, p) = LinksTo(f, a, p)
            /\ \A a : \A p \in DOMAIN f :
                 p # q \/ a # m => Heard(g, p, a) = Heard(f, p, a)
            /\ Heard(g, q, m) = IF Heard(f, q, m) = 0 THEN 0 ELSE Heard(f, q, m) - 1
        BY <3>18 DEF Forgets, SameFamily
      <4>2. ASSUME NEW p \in DOMAIN heap, Adult(heap, p), NEW a \in DOMAIN heap
            PROVE  /\ Heard(g, p, a) <= MainTo(g, a, p) + LinksTo(g, a, p)
                   /\ a \in Deleting(r) \cup { m } =>
                        Copies(made', a, p) = 0 /\ Heard(g, p, a) <= LinksTo(g, a, p)
                   /\ a \notin Deleting(r) \cup { m } =>
                        Copies(made', a, p) = Heard(g, p, a)
        <5>1. /\ Heard(heap, p, a) <= MainTo(heap, a, p) + LinksTo(heap, a, p)
              /\ a \in Deleting(r) \cup { m } =>
                   Copies(made, a, p) = 0 /\ Heard(heap, p, a) <= LinksTo(heap, a, p)
              /\ a \notin Deleting(r) \cup { m } =>
                   Copies(made, a, p) = Heard(heap, p, a)
          BY <2>8, <4>2
        <5>2. /\ MainTo(g, a, p) = MainTo(heap, a, p)
              /\ LinksTo(g, a, p) = LinksTo(f, a, p)
          BY <3>8, <3>16, <4>1
        <5>3. Copies(made', a, p) = Copies(made, a, p)
          BY <2>1
        <5>4. CASE a = m
          <6>1. /\ Copies(made, a, p) = 0
                /\ Heard(heap, p, a) <= LinksTo(heap, a, p)
            BY <5>1, <5>4
          <6>2. Heard(g, p, a) <= LinksTo(f, a, p) /\ Heard(g, p, a) \in Int
                  /\ LinksTo(f, a, p) \in Int
            <7>1. LinksTo(f, a, p) \in Nat
              BY <2>5, <3>8, <3>10, <5>4, CountsAreNatural
            <7>2. Heard(heap, p, a) \in Nat
              BY <2>9
            <7>3. CASE p = q
              <8>1. /\ LinksTo(heap, a, p) = LinksTo(f, a, p) + 1
                    /\ Heard(g, p, a) = IF Heard(heap, p, a) = 0 THEN 0
                                        ELSE Heard(heap, p, a) - 1
                BY <3>15, <3>17, <4>1, <5>4, <7>3
              <8>2. QED
                BY <6>1, <7>1, <7>2, <8>1
            <7>4. CASE p # q
              <8>1. /\ LinksTo(heap, a, p) = LinksTo(f, a, p) + 0
                    /\ Heard(g, p, a) = Heard(heap, p, a)
                BY <3>8, <3>15, <3>17, <4>1, <5>4, <7>4
              <8>2. QED
                BY <6>1, <7>1, <7>2, <8>1
            <7>5. QED
              BY <7>3, <7>4
          <6>3. Heard(g, p, a) <= MainTo(g, a, p) + LinksTo(g, a, p)
            BY <2>9, <5>2, <6>2
          <6>4. QED
            BY <5>2, <5>3, <5>4, <6>1, <6>2, <6>3
        <5>5. CASE a # m
          <6>1. /\ Heard(g, p, a) = Heard(heap, p, a)
                /\ LinksTo(g, a, p) = LinksTo(heap, a, p)
            BY <3>8, <3>16, <3>17, <4>1, <5>2, <5>5
          <6>2. QED
            BY <5>1, <5>2, <5>3, <5>5, <6>1
        <5>6. QED
          BY <5>4, <5>5
      <4>3. ASSUME NEW p \in DOMAIN heap, Adult(heap, p)
            PROVE  g[p].freed => g[p].sources = << >>
        <5>1. g[p].freed = heap[p].freed
          BY <3>8, <4>1 DEF SameFamily
        <5>2. heap[p].sources = << >> => g[p].sources = << >>
          BY <3>8, <4>1
        <5>3. QED
          BY <2>8, <4>3, <5>1, <5>2
      <4>4. DOMAIN g = DOMAIN heap /\ \A a : Adult(g, a) <=> Adult(heap, a)
        BY <3>8, <3>9, <4>1, SameAdults DEF SameAnchors
      <4>5. QED
        BY <4>2, <4>3, <4>4 DEF SourcesFit
    <3>19. \A g : Forgets(f, f[d].parent, me, g)
                    => SourcesFit(g, made', Deleting(r) \cup { me })
      BY <2>1, <3>18 DEF q
    <3>20. y.me = me /\ d \in DOMAIN f /\ BagFits(heap, made')
      BY <2>1, <2>4, <2>7, <3>4, <3>8
    <3>21. QED
      BY <2>1, <2>3, <2>7, <3>1, <3>9, <3>10, <3>11, <3>12, <3>13, <3>19,
         <3>20,
         LinkDeleted
  <2>12. QED
    BY <2>10, <2>11
<1>3. QED
  BY <1>1, <1>2

-----------------------------------------------------------------------------
(* The invariant, and what it says. *)
LEMMA StartsSettled == Init => IInv
<1> SUFFICES ASSUME Init PROVE IInv
  OBVIOUS
<1>1. /\ heap = << >> /\ made = EmptyBag /\ calls = << >> /\ status = "running"
      /\ adult_table = [ h \in Range(hash) |-> << >> ]
  BY DEF Init
<1>2. DOMAIN heap = {} /\ Len(heap) = 0 /\ heap \in Seq(Record)
  BY <1>1
<1>3. TypeOK
  BY <1>1, <1>2, Bounds DEF TypeOK
<1>4. HeapFits(heap)
  BY <1>2 DEF HeapFits
<1>5. TableFits(heap, adult_table)
  BY <1>1, <1>2 DEF TableFits
<1>6. BagFits(heap, made)
  BY <1>1 DEF BagFits, EmptyBag, SetToBag
<1>7. Running
  BY <1>1, <1>2 DEF Running, CallsFit, FamilyFits, SourcesFit
<1>8. QED
  BY <1>3, <1>4, <1>5, <1>6, <1>7 DEF IInv

LEMMA StepsKeep == IInv /\ [Next]_vars => IInv'
<1> SUFFICES ASSUME IInv, [Next]_vars PROVE IInv'
  OBVIOUS
<1>1. CASE UNCHANGED vars
  BY <1>1 DEF vars, IInv, TypeOK, Adults, Running
<1>2. ASSUME NEW adr \in Addresses, NEW tag \in Tags, HTAnchor_findAddress(adr, tag)
      PROVE  IInv'
  BY <1>2, FindAddressKeeps
<1>3. ASSUME NEW p, NEW tag \in Tags, HTAnchor_findChild(p, tag)
      PROVE  IInv'
  BY <1>3, FindChildKeeps
<1>4. ASSUME NEW p, NEW tag \in Tags, NEW adr \in Addresses, NEW dtag \in Tags,
             HTAnchor_findChildAndLink(p, tag, adr, dtag)
      PROVE  IInv'
  BY <1>4, FindChildAndLinkKeeps
<1>5. ASSUME NEW p, NEW doc \in BOOLEAN, HTAnchor_setDocument(p, doc)
      PROVE  IInv'
  BY <1>5, SetDocumentKeeps
<1>6. ASSUME NEW p, HTAnchor_makeLastChild(p)
      PROVE  IInv'
  BY <1>6, MakeLastChildKeeps
<1>7. ASSUME NEW p, NEW i, HTAnchor_makeMainLink(p, i)
      PROVE  IInv'
  BY <1>7, MakeMainLinkKeeps
<1>8. ASSUME NEW p, HTAnchor_delete(p)
      PROVE  IInv'
  BY <1>8, DeleteCallKeeps
<1>9. ASSUME NEW p, NEW dest, HTAnchor_link(p, dest)
      PROVE  IInv'
  BY <1>9, LinkKeeps
<1>10. CASE Delete
  BY <1>10, StartsKeeps, LooksAtSourcesKeeps, KidsLinksKeeps, ChildrenKeeps,
     ChildKeeps, MainLinkKeeps, ExtraLinksKeeps DEF Delete
<1>11. QED
  BY <1>1, <1>2, <1>3, <1>4, <1>5, <1>6, <1>7, <1>8, <1>9, <1>10 DEF Next

LEMMA Invariant == Spec => []IInv
  BY StartsSettled, StepsKeep, PTL DEF Spec

(***************************************************************************)
(* HTAnchor.c's graph: whatever is found, linked, reordered and deleted,   *)
(* and at every step of a deletion, even one that uses freed memory, every *)
(* pointer of every anchor leads to an anchor that was made, a parent is   *)
(* its own parent, and only parents have addresses.                        *)
(***************************************************************************)
THEOREM AnchorsTyped == Spec => []TypeOK
<1>1. IInv => TypeOK
  BY DEF IInv
<1>2. QED
  BY <1>1, Invariant, PTL

(***************************************************************************)
(* HTAnchor_link and deleteLinks: between two calls, a document's sources  *)
(* are exactly the links made to it or to a place in it and not deleted    *)
(* since, each as often as it was made, and those of a freed document are  *)
(* none: the collection may go by them.                                    *)
(***************************************************************************)
THEOREM SourcesAlwaysTheLinksMade == Spec => []SourcesAreTheLinksMade
<1>1. IInv => SourcesAreTheLinksMade
  <2> SUFFICES ASSUME IInv, Quiet, NEW p \in Adults, NEW a \in DOMAIN heap
               PROVE  LET known == IF heap[p].freed THEN << >> ELSE heap[p].sources
                      IN  Copies(made, a, p) =
                            Cardinality({ i \in DOMAIN known : known[i] = a })
    BY DEF SourcesAreTheLinksMade
  <2>1. SourcesFit(heap, made, {}) /\ Adult(heap, p) /\ p \in DOMAIN heap
    BY Settled DEF Good, Adults, Adult
  <2>2. /\ Copies(made, a, p) = Hits(heap[p].sources, { a })
        /\ heap[p].freed => heap[p].sources = << >>
    BY <2>1 DEF SourcesFit, Heard
  <2> DEFINE known == IF heap[p].freed THEN << >> ELSE heap[p].sources
  <2>3. known = heap[p].sources
    BY <2>2
  <2> HIDE DEF known
  <2>4. Hits(known, { a }) = Cardinality({ i \in DOMAIN known : known[i] = a })
    BY DEF Hits
  <2>5. QED
    BY <2>2, <2>3, <2>4 DEF known
<1>2. QED
  BY <1>1, Invariant, PTL

(***************************************************************************)
(* HTAnchor_findChild, HTAnchor_makeLastChild and HTAnchor_delete: between *)
(* two calls, the list of a document's children holds each of its places   *)
(* that exists once and nothing else, in whatever order, and a freed       *)
(* document has left no place behind.                                      *)
(***************************************************************************)
THEOREM ChildrenAlwaysHaveTheirParent == Spec => []ChildrenHaveTheirParent
<1>1. IInv => ChildrenHaveTheirParent
  <2> SUFFICES ASSUME IInv, Quiet, NEW p \in Adults
               PROVE  LET family == { a \in Live \ Adults : heap[a].parent = p }
                      IN  IF heap[p].freed THEN family = {}
                          ELSE /\ Range(heap[p].children) = family
                               /\ IsInjective(heap[p].children)
    BY DEF ChildrenHaveTheirParent
  <2>1. /\ FamilyFits(heap, {}) /\ HeapFits(heap) /\ Adult(heap, p)
        /\ p \in DOMAIN heap
    BY Settled DEF Good, Adults, Adult
  <2> DEFINE family == { a \in Live \ Adults : heap[a].parent = p }
             kids == heap[p].children
  <2>2. family = { a \in DOMAIN heap : IsChild(heap, a, p) }
    BY <2>1 DEF Live, Adults, IsChild, Adult
  <2>3. /\ IsInjective(kids)
        /\ \A a \in DOMAIN heap :
             (\E i \in DOMAIN kids : kids[i] = a) <=> IsChild(heap, a, p)
        /\ heap[p].freed => kids = << >>
        /\ \A i \in DOMAIN kids : kids[i] \in DOMAIN heap
    BY <2>1 DEF FamilyFits, HeapFits
  <2> HIDE DEF family, kids
  <2>4. Range(kids) = family
    BY <2>2, <2>3 DEF Range
  <2>5. heap[p].freed => family = {}
    BY <2>2, <2>3
  <2>6. QED
    BY <2>3, <2>4, <2>5 DEF family, kids
<1>2. QED
  BY <1>1, Invariant, PTL

(***************************************************************************)
(* HTAnchor_findAddress: no two documents that exist ever have the same    *)
(* address, since every search that finds none has looked at each document *)
(* of that address, even when the table holds freed ones.                  *)
(***************************************************************************)
THEOREM AlwaysOneAnchorPerAddress == Spec => []OneAnchorPerAddress
<1>1. IInv => OneAnchorPerAddress
  <2>1. ASSUME IInv, NEW p \in Parents, NEW q \in Parents, heap[p].name = heap[q].name
        PROVE  p = q
    <3>1. /\ Adult(heap, p) /\ Adult(heap, q)
          /\ p \in DOMAIN heap /\ q \in DOMAIN heap
      BY ParentsAreAdult DEF Adult
    <3>2. TableFits(heap, adult_table)
      BY <2>1 DEF IInv
    <3>3. QED
      BY <2>1, <3>1, <3>2 DEF TableFits
  <2>2. QED
    BY <2>1 DEF OneAnchorPerAddress
<1>2. QED
  BY <1>1, Invariant, PTL
====
