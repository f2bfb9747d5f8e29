--------------------------------- MODULE HTList ---------------------------------
(***************************************************************************)
(* Lists (HTList.c): the latest object first, as the nodes are linked.  A  *)
(* list that was never made behaves like an empty one, to which nothing    *)
(* can be added.  Positions count from 0, the latest object.               *)
(***************************************************************************)
EXTENDS Integers, Sequences, FiniteSetsExt

CONSTANT NULL   \* no object

HTList_addObject(me, newObject) == << newObject >> \o me

HTList_removeLastObject(me) == IF me = << >> THEN << >> ELSE Tail(me)

HTList_count(me) == Len(me)

HTList_indexOf(me, object) ==
  LET found == { i \in DOMAIN me : me[i] = object }
  IN  IF found = {} THEN -1 ELSE Min(found) - 1

HTList_objectAt(me, position) ==
  IF position + 1 \in DOMAIN me THEN me[position + 1] ELSE NULL

HTList_lastObject(me) == HTList_objectAt(me, 0)

=============================================================================
