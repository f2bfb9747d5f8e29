------------------------------- MODULE MCHTBTree -------------------------------
(***************************************************************************)
(* Ten different names, the first six of them in an order that leaves a    *)
(* depth behind which no subtree has.                                      *)
(***************************************************************************)
EXTENDS HTBTree

CONSTANT Before   \* the names that come first, in their order

MCBefore == << 1, 8, 7, 6, 5, 3 >>

Used == { elements[i].object : i \in DOMAIN elements }

Next ==
  /\ top # Crash /\ Len(elements) < MaxElements
  /\ \E key \in Keys \ Used :
       /\ Len(elements) < Len(Before) => key = Before[Len(elements) + 1]
       /\ HTBTree_add(key)

Spec == TreeInit /\ [][Next]_tree

=============================================================================
