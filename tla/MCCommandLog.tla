---------------------------- MODULE MCCommandLog ----------------------------
(***************************************************************************)
(* One key shared by a commit, the same commit composed with a mutation,   *)
(* and retries of both; a second key runs beside it.                       *)
(***************************************************************************)
EXTENDS CommandLog
CONSTANTS plain, composed, other, t1, t2, t3, t4, k1, k2
MCRetryComposed == [a \in Attempts |->
    IF a = t4 THEN other ELSE IF a = t1 THEN plain ELSE composed]
MCKeyOf == [r \in Requests |-> IF r = other THEN k2 ELSE k1]
=============================================================================
