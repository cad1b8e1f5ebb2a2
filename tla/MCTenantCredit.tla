--------------------------- MODULE MCTenantCredit ---------------------------
(* Two or three relay requests; in some runs two of them share a key.      *)
EXTENDS TenantCredit
CONSTANTS s1, s2, s3

OwnKeys == [s \in Sessions |-> s]
SharedKey == [s \in Sessions |-> IF s = s2 THEN s1 ELSE s]

============================================================================
