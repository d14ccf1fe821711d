------------------------- MODULE IdempotentCommand -------------------------
(***************************************************************************)
(* What the spend command log promises its callers: an idempotency key     *)
(* stands for at most one applied request.  The request takes effect when  *)
(* it is recorded, and both are final.                                     *)
(***************************************************************************)
CONSTANTS Keys, Requests, KeyOf, NoRequest

VARIABLES
    record,   \* the request applied under each key
    effects   \* the requests that took effect

Init == record = [k \in Keys |-> NoRequest] /\ effects = {}

Apply(req) == /\ record[KeyOf[req]] = NoRequest
              /\ record' = [record EXCEPT ![KeyOf[req]] = req]
              /\ effects' = effects \cup {req}

Next == \E req \in Requests : Apply(req)

Spec == Init /\ [][Next]_<<record, effects>>
=============================================================================
