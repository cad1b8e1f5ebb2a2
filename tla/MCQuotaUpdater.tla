--------------------------- MODULE MCQuotaUpdater ---------------------------
(* Two processes, a few changes of amount 1 and reads that refill.         *)
EXTENDS QuotaUpdater
CONSTANTS n1, n2
=============================================================================
