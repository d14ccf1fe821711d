-------------------------- MODULE MCOutboxDispatch --------------------------
(***************************************************************************)
(* Two dispatchers over one or two events; the runs differ in the batch    *)
(* size, the attempts an event gets and how long a call may last.          *)
(***************************************************************************)
EXTENDS OutboxDispatch
CONSTANTS e1, e2, d1, d2
=============================================================================
