-------------------------- MODULE MCSellerCheckout --------------------------
(***************************************************************************)
(* Three people, two runs of completeCart and two sets of coordinates.     *)
(***************************************************************************)
EXTENDS SellerCheckout, TLC
CONSTANTS p1, p2, p3, k1, k2

Interchangeable == Permutations(People) \cup Permutations(Checkouts)
=============================================================================
