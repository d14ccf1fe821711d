------------------------- MODULE MCBuyerActivation -------------------------
(***************************************************************************)
(* Approvals of one organisation that name two ERP partners.               *)
(***************************************************************************)
EXTENDS BuyerActivation
CONSTANTS approval, renewal, partner, successor, h1, h2, s1
MCPartnerOf == [e \in ErpEvents |-> IF e = approval THEN partner ELSE successor]
=============================================================================
