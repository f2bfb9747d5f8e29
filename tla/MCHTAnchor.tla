------------------------------ MODULE MCHTAnchor ------------------------------
(* Documents that all share one entry of the hash table; "n" and "N" name  *)
(* the same place.                                                         *)
EXTENDS HTAnchor

MCHash   == [ adr \in Addresses |-> 0 ]
MCUpper  == [ s \in Addresses \cup { "", "n", "N" } |->
                IF s = "n" THEN "N" ELSE s ]
Renaming == Permutations(Addresses)

=============================================================================
