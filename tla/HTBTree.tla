-------------------------------- MODULE HTBTree --------------------------------
(***************************************************************************)
(* The balanced tree that sorts the names of a directory (HTBTree.c).      *)
(* Elements are numbered as they are added; `None' is the null pointer.    *)
(*                                                                         *)
(* The operators below go from the table of elements before to the one     *)
(* after.  They recurse where the code loops.                              *)
(***************************************************************************)
EXTENDS Integers, Sequences, FiniteSets

CONSTANTS Keys,      \* what the user's comparison tells apart
          MaxElements

VARIABLES elements,  \* the elements of the tree, by number
          top        \* the tree's pointer to the first of them

tree == << elements, top >>

None  == 0
Crash == -1   \* top, once a null pointer has been followed

NewElement(key, up) ==
  [ object |-> key, up |-> up, left |-> None, left_depth |-> 0,
    right |-> None, right_depth |-> 0 ]

MAXIMUM(a, b) == IF a > b THEN a ELSE b
Depth(t, e) == 1 + MAXIMUM(t[e].left_depth, t[e].right_depth)

----------------------------------------------------------------------------

(* The future father of an object: an equal one counts as before it.       *)
RECURSIVE Father(_, _, _)
Father(t, e, key) ==
  LET child == IF key < t[e].object THEN t[e].left ELSE t[e].right
  IN  IF child = None THEN e ELSE Father(t, child, key)

Hang(t, father, new) ==
  IF t[new].object < t[father].object
  THEN [ t EXCEPT ![father].left = new ]
  ELSE [ t EXCEPT ![father].right = new ]

(* Depths are changed upwards until one is as it was: first those above an *)
(* element that was added, then those above one that will take its         *)
(* father's place.                                                         *)
Deepen(t, father, isLeft, depth) ==
  IF isLeft THEN [ t EXCEPT ![father].left_depth = depth ]
  ELSE [ t EXCEPT ![father].right_depth = depth ]

DepthOn(t, father, isLeft) ==
  IF isLeft THEN t[father].left_depth ELSE t[father].right_depth

RECURSIVE AboveAdded(_, _, _)
AboveAdded(t, father, son) ==
  LET isLeft == t[father].left = son
      depth  == Depth(t, son)
      deeper == Deepen(t, father, isLeft, depth)
  IN  IF depth = DepthOn(t, father, isLeft) \/ t[father].up = None THEN deeper
      ELSE AboveAdded(deeper, t[father].up, father)

(* A left son that comes up is looked for by its father, its ancestors     *)
(* by themselves, so that from the second on the right depth is changed.   *)
RECURSIVE AboveLeft(_, _, _)
AboveLeft(t, father, son) ==
  LET isLeft == t[father].left = t[son].up
      depth  == Depth(t, son)
      deeper == Deepen(t, father, isLeft, depth)
  IN  IF depth = DepthOn(t, father, isLeft) \/ t[father].up = None THEN deeper
      ELSE AboveLeft(deeper, t[father].up, father)

(* For a right son every ancestor gets the depth of the son itself. *)
RECURSIVE AboveRight(_, _, _, _)
AboveRight(t, father, e, son) ==
  LET isLeft == t[father].left = e
      depth  == Depth(t, son)
      deeper == Deepen(t, father, isLeft, depth)
  IN  IF depth = DepthOn(t, father, isLeft) \/ t[father].up = None THEN deeper
      ELSE AboveRight(deeper, t[father].up, e, son)

(* `son' takes the place of `e' under its father, if it has one. *)
Replace(t, e, son) ==
  LET up == t[e].up
      placed == IF up = None THEN t
                ELSE IF t[up].left = e THEN [ t EXCEPT ![up].left = son ]
                ELSE [ t EXCEPT ![up].right = son ]
  IN  [ placed EXCEPT ![son].up = up, ![e].up = son ]

Adopt_not(t, e, grandson) == t
Adopt(t, e, grandson) == IF grandson = None THEN t ELSE [ t EXCEPT ![grandson].up = e ]

RotateRight(t, e) ==
  LET son  == t[e].left
      t1   == [ t EXCEPT ![e].left_depth = t[son].right_depth ]
      t2   == [ t1 EXCEPT ![son].right_depth = Depth(t1, e) ]
      t3   == IF t[e].up = None THEN t2 ELSE AboveLeft(t2, t[e].up, son)
      t4   == [ Replace(t3, e, son) EXCEPT ![e].left = t[son].right, ![son].right = e ]
  IN  Adopt(t4, e, t[son].right)

RotateLeft(t, e) ==
  LET son  == t[e].right
      t1   == [ t EXCEPT ![e].right_depth = t[son].left_depth ]
      t2   == [ t1 EXCEPT ![son].left_depth = Depth(t1, e) ]
      t3   == IF t[e].up = None THEN t2 ELSE AboveRight(t2, t[e].up, e, son)
      t4   == [ Replace(t3, e, son) EXCEPT ![e].right = t[son].left, ![son].left = e ]
  IN  Adopt(t4, e, t[son].left)

(* The first element upwards that leans by two or more is turned, once: it *)
(* is not looked whether there is a son to turn it about.                  *)
RECURSIVE Leaning(_, _)
Leaning(t, e) ==
  IF e = None \/ t[e].left_depth - t[e].right_depth \notin -1 .. 1 THEN e
  ELSE Leaning(t, t[e].up)

Balance(t, e) ==
  IF t[e].left_depth > t[e].right_depth THEN RotateRight(t, e) ELSE RotateLeft(t, e)

HasSon(t, e) ==
  (IF t[e].left_depth > t[e].right_depth THEN t[e].left ELSE t[e].right) # None

RECURSIVE TopFrom(_, _)
TopFrom(t, e) == IF t[e].up = None THEN e ELSE TopFrom(t, t[e].up)

HTBTree_add(key) ==
  LET new == Len(elements) + 1
  IN  IF top = None
      THEN elements' = << NewElement(key, None) >> /\ top' = new
      ELSE LET father == Father(elements, top, key)
               hung   == Hang(Append(elements, NewElement(key, father)), father, new)
               deeper == AboveAdded(hung, father, new)
               e      == Leaning(deeper, father)
           IN  IF e # None /\ ~ HasSon(deeper, e)
               THEN elements' = deeper /\ top' = Crash
               ELSE /\ elements' = IF e = None THEN deeper ELSE Balance(deeper, e)
                    /\ top' = TopFrom(elements', father)

----------------------------------------------------------------------------

RECURSIVE Leftmost(_)
Leftmost(e) == IF elements[e].left = None THEN e ELSE Leftmost(elements[e].left)

(* Out of the right subtrees, to the first element that e is left of.      *)
RECURSIVE AfterSubtree(_)
AfterSubtree(e) ==
  LET up == elements[e].up
  IN  IF up # None /\ elements[up].right = e THEN AfterSubtree(up) ELSE up

HTBTree_next(e) ==
  IF e = None THEN (IF top = None THEN None ELSE Leftmost(top))
  ELSE IF elements[e].right # None THEN Leftmost(elements[e].right)
  ELSE AfterSubtree(e)

RECURSIVE ListFrom(_, _)
ListFrom(e, fuel) ==
  IF e = None \/ fuel = 0 THEN << >> ELSE << e >> \o ListFrom(HTBTree_next(e), fuel - 1)

Listed == ListFrom(HTBTree_next(None), Len(elements) + 1)

TreeInit == elements = << >> /\ top = None
TreeNext ==
  /\ top # Crash /\ Len(elements) < MaxElements
  /\ \E key \in Keys : HTBTree_add(key)

(* HTBTree: going through the tree from its leftmost element one meets     *)
(* every object that was added once, in the order of the comparison, and   *)
(* equal ones in the order they were added.                                *)
TreeIsInOrder ==
  /\ top # Crash
  /\ { Listed[i] : i \in DOMAIN Listed } = DOMAIN elements
  /\ Len(Listed) = Len(elements)
  /\ \A i \in 1 .. Len(Listed) - 1 :
       LET a == Listed[i]
           b == Listed[i + 1]
       IN  \/ elements[a].object < elements[b].object
           \/ elements[a].object = elements[b].object /\ a < b

=============================================================================
