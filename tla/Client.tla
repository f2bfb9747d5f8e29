--------------------------------- MODULE Client ---------------------------------
(***************************************************************************)
(* What a client of the library calls beside the loading of documents: it  *)
(* sets up streams, sorts names in a tree, keeps a history, makes names    *)
(* relative and translates them by rules.  These parts share no state, so  *)
(* each behaviour is that of one of them.                                  *)
(***************************************************************************)
EXTENDS Streams, HTBTree, HTHistory, HTParse, HTRules

VARIABLE part

Parts == { "streams", "tree", "history", "names", "rules" }

vars == << part, streamsVars, tree, browsing, names, rulesVars >>

Init ==
  /\ part \in Parts
  /\ StreamsInit /\ TreeInit /\ HistoryInit /\ NamesInit /\ RulesInit

Streaming  == part = "streams" /\ StreamsNext
              /\ UNCHANGED << part, tree, browsing, names, rulesVars >>
Sorting    == part = "tree" /\ TreeNext
              /\ UNCHANGED << part, streamsVars, browsing, names, rulesVars >>
Remembering == part = "history" /\ HistoryNext
              /\ UNCHANGED << part, streamsVars, tree, names, rulesVars >>
Naming     == part = "names" /\ Follow
              /\ UNCHANGED << part, streamsVars, tree, browsing, rulesVars >>
Translating == part = "rules" /\ RulesNext
              /\ UNCHANGED << part, streamsVars, tree, browsing, names >>

Next == Streaming \/ Sorting \/ Remembering \/ Naming \/ Translating

Spec == Init /\ [][Next]_vars

=============================================================================
