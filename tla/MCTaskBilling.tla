--------------------------- MODULE MCTaskBilling ---------------------------
(* One or two tasks, one or two nodes, one user request at a time.         *)
EXTENDS TaskBilling
CONSTANTS t1, t2, n1, n2, f1
============================================================================
