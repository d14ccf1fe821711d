----------------------------- MODULE MCCommerceBridge -----------------------------
(* Two callers on two records and two keys.  Symmetry is sound: every property is a *)
(* safety property, and only the model values of these sets are permuted.          *)
EXTENDS CommerceBridge, TLC

CONSTANTS c1, c2, r1, r2, k1, k2, z, t, i1, i2

Perms == Permutations({c1, c2}) \cup Permutations({r1, r2}) \cup Permutations({k1, k2})
         \cup Permutations({z, t}) \cup Permutations({i1, i2})
MCTargets == {"AUTHORIZED", "CAPTURED", "CANCELLED", "UNKNOWN", "ACCEPTED", "EXCEPTION"}
================================================================================
