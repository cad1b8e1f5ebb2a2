------------------------------ MODULE MCTopUp ------------------------------
(* Three requests about one order: all on one node, or one of them on      *)
(* another node (the other placements are renamings of these two).         *)
EXTENDS TopUp
CONSTANTS h1, h2, h3, n1, n2
OneOrTwoNodes == {[h \in Handlers |-> n1], [h \in Handlers |-> IF h = h3 THEN n2 ELSE n1]}
============================================================================
