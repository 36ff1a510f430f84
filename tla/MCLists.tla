------------------------------ MODULE MCLists ------------------------------
(* Lists on small instances, and the mutants of its definitions. *)
EXTENDS Lists

AllSites ==
    {[screen |-> "admin", max |-> 2, room |-> 2, writes |-> 2, acts |-> 2],
     [screen |-> "admin", max |-> 2, room |-> 2, writes |-> 0, acts |-> 3],
     [screen |-> "api", max |-> 3, room |-> 5, writes |-> 2, acts |-> 0],
     [screen |-> "api", max |-> 1, room |-> 6, writes |-> 1, acts |-> 0],
     [screen |-> "relations", max |-> 2, room |-> 5, writes |-> 2, acts |-> 0],
     [screen |-> "relations", max |-> 1, room |-> 4, writes |-> 3, acts |-> 0]}
=============================================================================
