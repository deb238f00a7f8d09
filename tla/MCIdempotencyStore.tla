------------------------- MODULE MCIdempotencyStore -------------------------
(* The store with three request ids and room for two.                      *)
EXTENDS IdempotencyStore, TLC

CONSTANTS r1, r2, r3

MCSymmetry == Permutations({r1, r2, r3})
=============================================================================
