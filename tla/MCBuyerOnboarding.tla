------------------------- MODULE MCBuyerOnboarding -------------------------
(***************************************************************************)
(* One customer; the first application has the documents.                  *)
(***************************************************************************)
EXTENDS BuyerOnboarding, TLC
CONSTANTS a1, a2, d1, d2, q1, q2, q3, q4, registration
MCApplicationOf == [e \in Evidence |-> IF e = d1 THEN a1 ELSE a2]
MCTypeOf == [e \in Evidence |-> registration]
Interchangeable == Permutations(Requests)
=============================================================================
