------------------------- MODULE MCBillingStatement -------------------------
(* An operator, and an administrator, work on two billing periods.  A      *)
(* second operator adds only drafts that overwrite each other.             *)
EXTENDS BillingStatement, TLC
CONSTANTS p1, p2, o1
MCAdjustments == -1..1
Symmetry == Permutations(Periods)
============================================================================
