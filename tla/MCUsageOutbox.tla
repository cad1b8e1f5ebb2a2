--------------------------- MODULE MCUsageOutbox ---------------------------
(* Two request ids; the client repeats the first one.                      *)
EXTENDS UsageOutbox
CONSTANTS c1, c2, c3

MCRequestOf == [c \in Calls |-> IF c = c3 THEN 2 ELSE 1]
============================================================================
