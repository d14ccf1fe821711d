------------------------- MODULE MCCommercialLifecycle -------------------------
(* Two commands on one request for quotation and its offers.                   *)
EXTENDS CommercialLifecycle
================================================================================
