------------------------------- MODULE Totals -------------------------------
(***************************************************************************)
(* Sums of amounts kept per session or per billing period, as the columns  *)
(* of a credit account hold them.  TotalTheorems proves what the proofs    *)
(* need to know about them.                                                *)
(***************************************************************************)
EXTENDS Integers, FiniteSetsExt

\* The sum of f[x] for all x in S.
Total(f, S) == MapThenSumSet(LAMBDA x : f[x], S)
=============================================================================
