----------------------------- MODULE MCBuyerContext -----------------------------
(* The invitations of one organisation, and resolutions beside the requests   *)
(* that make and unmake a membership, on small instances.                     *)
EXTENDS BuyerContext, TLC

CONSTANTS r1, r2, r3, r4

Ask(a, b, c, d) == r1 :> a @@ r2 :> b @@ r3 :> c @@ r4 :> d

\* Up to two invites of one address with the requests that overlap them, and
\* one failure.
Overlapping ==
  [ask |-> Ask({"invite"}, {"invite", "resend"}, {"resend", "accept"}, {"accept", "revoke"}),
   faults |-> 1, edits |-> 0, resolve |-> {}]

\* One membership, accepted or revoked while it is resolved, and two
\* changes of the organisation, the membership, its roles or the age of its link.
Resolving ==
  [ask |-> Ask({"invite"}, {"accept"}, {"accept", "revoke"}, {}),
   faults |-> 0, edits |-> 2, resolve |-> Resolutions]

BothHistories == {Overlapping, Resolving}

\* Keys are only compared.
Symmetry == Permutations(Keys)
================================================================================
