-------------------------------- MODULE MCClient --------------------------------
(***************************************************************************)
(* Small inputs for the client's parts.  Every kind of reference is among  *)
(* the ones followed: to a file beside, below and above the document, to   *)
(* a directory and the root, to another host or port, by another access,   *)
(* with a search, with an anchor.  Every kind of rule is among the lines.  *)
(***************************************************************************)
EXTENDS Client

MCOffsets == { -1, 1 }

MCStart == << "http", ":", "/", "/", "h", "/", "a" >>

MCReferences ==
  { << "b" >>, << "a", "/" >>, << "a", "/", "b" >>, << "..", "/", "b" >>,
    << "/", "a", "/", "b" >>, << "/", "/", "k", "/", "a" >>,
    << "#", "z" >>, << "b", "?", "a" >>, << "http", ":", "a", "/", "b" >>,
    << "ftp", ":", "/", "/", "h", "/", "a", "/", "b" >>,
    << "http", ":", "/", "/", "h", ".", ":", "80", "/", "b" >>,
    << "/", "/", "h", ":", "81", "/", "a" >>, << "b", "/" >>,
    << "b", "?", "a", "/", "b" >>, << "..", "/", "..", "/", "a" >> }

Patterns == { << "a", "*" >>, << "*" >>, << "a", "b" >>, << "*", "b" >>, << "b", "*", "b" >> }
Equivs   == { << "b", "*" >>, << "a" >>, << "b", "*", "a" >> }

MCLines ==
  { << >>, << "map" >>, << "other", << "a" >> >> } \cup
  { << op, p >> : op \in { "map", "pass", "fail" }, p \in Patterns } \cup
  { << op, p, e >> : op \in { "map", "pass" }, p \in Patterns, e \in Equivs }

MCRequired ==
  { << "a" >>, << "b" >>, << "a", "b" >>, << "b", "b" >>, << "a", "a", "b" >> }

=============================================================================
