-------------------------- MODULE MCBillingSession --------------------------
(* Two concurrent sessions of one user; they are interchangeable.          *)
EXTENDS BillingSession, TLC
CONSTANTS s1, s2
Symmetry == Permutations({s1, s2})
============================================================================
