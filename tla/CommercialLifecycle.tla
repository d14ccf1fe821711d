--------------------------- MODULE CommercialLifecycle ---------------------------
(***************************************************************************)
(* Requests for quotation and the offers that answer them, as commands     *)
(* change them.  A command runs in one database transaction: it locks its  *)
(* idempotency key, then the request's row, then the offer's; it obtains   *)
(* authority for the action, checks it against the buyer's relationship    *)
(* and membership (locked against change until the end), changes the rows  *)
(* under the guard trigger, checks the authority once more, records its    *)
(* receipt and commits.  What it writes is seen when it commits.           *)
(*                                                                         *)
(* The rows of relationship and membership are those BuyerContext reads;   *)
(* here only their status and revision matter.                             *)
(*                                                                         *)
(* An operator Mutant... is a wrong form of the definition after it, of    *)
(* the kind a code change could bring; no action uses it.  Each property   *)
(* below fails when one of them takes the definition's place.              *)
(***************************************************************************)
EXTENDS Naturals, FiniteSets

CONSTANTS
  Commands,    \* the commands of this history
  Rfqs,        \* the requests for quotation that may come to exist
  Offers,      \* the offers each of them may come to have
  Keys,        \* the idempotency keys
  None,        \* no offer, no key
  MaxLife,     \* how long a grant may last (a minute)
  MaxNow,      \* bound: the last instant
  MaxEdits,    \* bound: changes of the authority rows
  MaxAborts    \* bound: transactions cut short

ASSUME LifecycleAssumption ==
  /\ None \notin Offers \cup Keys \cup Rfqs
  /\ Offers # {}
  /\ {MaxLife, MaxNow, MaxEdits, MaxAborts} \subseteq Nat

VARIABLES
  rfq,        \* each request for quotation with its offers
  receipt,    \* what was recorded under each key
  authority,  \* status and revision of the relationship and of the membership
  tx,         \* the transaction of each command
  now, edits, aborts

vars == <<rfq, receipt, authority, tx, now, edits, aborts>>

BuyerActions == {"RFQ_CREATE", "RFQ_SUBMIT", "RFQ_WITHDRAW", "QUOTATION_REJECT"}
SystemActions == {"RFQ_EXPIRE", "QUOTATION_EXPIRE"}
SellerActions == {"RFQ_REVIEW", "RFQ_DECLINE", "RFQ_CLOSE", "QUOTATION_ISSUE",
                  "QUOTATION_WITHDRAW"}
Actions == BuyerActions \cup SystemActions \cup SellerActions

Target ==
  [RFQ_SUBMIT |-> "SUBMITTED", RFQ_REVIEW |-> "UNDER_REVIEW", RFQ_DECLINE |-> "DECLINED",
   RFQ_WITHDRAW |-> "WITHDRAWN", RFQ_EXPIRE |-> "EXPIRED", RFQ_CLOSE |-> "CLOSED",
   QUOTATION_ISSUE |-> "QUOTED", QUOTATION_REJECT |-> "REJECTED",
   QUOTATION_WITHDRAW |-> "WITHDRAWN", QUOTATION_EXPIRE |-> "EXPIRED"]

Follows(status) ==
  CASE status = "DRAFT" -> {"SUBMITTED", "WITHDRAWN"}
    [] status = "SUBMITTED" -> {"UNDER_REVIEW", "DECLINED", "WITHDRAWN", "EXPIRED"}
    [] status = "UNDER_REVIEW" -> {"QUOTED", "DECLINED", "WITHDRAWN", "EXPIRED"}
    [] status = "QUOTED" -> {"UNDER_REVIEW", "CLOSED", "WITHDRAWN", "EXPIRED"}
    [] OTHER -> {}

NoOffer == [status |-> "none", version |-> 0, until |-> 0]
Unborn == [status |-> "none", version |-> 0, offer |-> [q \in Offers |-> NoOffer]]

\* Histories before the first of these commands: the receipts of the commands
\* that led there are under keys nobody sends again.
Earlier ==
  {Unborn} \cup
  {[status |-> s[1], version |-> s[2], offer |-> [q \in Offers |-> NoOffer]] :
     s \in {<<"DRAFT", 1>>, <<"UNDER_REVIEW", 3>>}} \cup
  {[status |-> "QUOTED", version |-> 4,
    offer |-> [q \in Offers |->
      IF q = one THEN [status |-> "ISSUED", version |-> 1, until |-> 1] ELSE NoOffer]] :
     one \in {CHOOSE q \in Offers : TRUE}}

Idle ==
  [at |-> "idle", action |-> "none", key |-> None, f |-> None, q |-> None, v |-> 0,
   grant |-> [relationship |-> 0, membership |-> 0, expires |-> 0],
   stamp |-> 0, next |-> Unborn]

Init ==
  /\ rfq \in [Rfqs -> Earlier]
  /\ receipt = [k \in Keys |-> None]
  /\ authority = [relationship |-> [status |-> "ACTIVE", revision |-> 1],
                  membership |-> [status |-> "ACTIVE", revision |-> 1]]
  /\ tx = [c \in Commands |-> Idle]
  /\ now = 0 /\ edits = 0 /\ aborts = 0

--------------------------------------------------------------------------------
(* Locks, held from the step that takes them to the end of the transaction. *)

HasKey(c) == tx[c].at \notin {"idle", "begun", "ended"}
HasRequest(c) == tx[c].action # "RFQ_CREATE"
                 /\ tx[c].at \in {"parent", "locked", "granted", "cleared", "applied", "rechecked"}
MutantHasOffer(c) ==   \* the offer is locked before its request
  /\ tx[c].q # None /\ tx[c].action # "QUOTATION_ISSUE"
  /\ tx[c].at \in {"keyed", "parent", "locked", "granted", "cleared", "applied", "rechecked"}
HasOffer(c) == tx[c].q # None /\ tx[c].action # "QUOTATION_ISSUE"
               /\ tx[c].at \in {"locked", "granted", "cleared", "applied", "rechecked"}
MutantShares(c) == FALSE   \* the authority rows are read without a lock
Shares(c) == tx[c].at \in {"cleared", "applied", "rechecked"}

Others(c) == Commands \ {c}
KeyFree(c) == \A o \in Others(c) : HasKey(o) => tx[o].key # tx[c].key
MutantRequestFree(c) == TRUE   \* the row of the request is not locked
RequestFree(c) == \A o \in Others(c) : HasRequest(o) => tx[o].f # tx[c].f
OfferFree(c, f, q) ==
  \A o \in Others(c) : HasOffer(o) => <<tx[o].f, tx[o].q>> # <<f, q>>

Go(c, new) == tx' = [tx EXCEPT ![c] = new]

\* Committed or rolled back.
End(c) == Go(c, [Idle EXCEPT !.at = "ended"])
Quiet == UNCHANGED <<rfq, receipt, authority, now, edits, aborts>>

--------------------------------------------------------------------------------
(* The steps of a command.                                                 *)

\* A caller has read the row now, or before its last change (bound: not earlier).
Expected(row) == {row.version - 1, row.version} \cap (Nat \ {0})

\* A command arrives: which offer it concerns, which version it expects.  A
\* create and an issue draw the identifier of the row they insert.
Arrive(c) ==
  /\ tx[c].at = "idle"
  /\ \E action \in Actions, k \in Keys, f \in Rfqs :
       LET new == [Idle EXCEPT !.at = "begun", !.action = action, !.key = k, !.f = f] IN
       \/ /\ action = "RFQ_CREATE"
          /\ rfq[f].version = 0 /\ \A o \in Others(c) : tx[o].f # f
          /\ Go(c, new)
       \/ /\ action \in {"RFQ_SUBMIT", "RFQ_REVIEW", "RFQ_DECLINE", "RFQ_WITHDRAW",
                         "RFQ_EXPIRE", "RFQ_CLOSE"}
          /\ \E v \in Expected(rfq[f]) : Go(c, [new EXCEPT !.v = v])
       \/ /\ action = "QUOTATION_ISSUE"
          /\ \E v \in Expected(rfq[f]), q \in Offers :
               /\ rfq[f].offer[q].version = 0
               /\ \A o \in Others(c) : <<tx[o].f, tx[o].q>> # <<f, q>>
               /\ Go(c, [new EXCEPT !.v = v, !.q = q])
       \/ /\ action \in {"QUOTATION_REJECT", "QUOTATION_WITHDRAW", "QUOTATION_EXPIRE"}
          /\ \E q \in Offers : \E v \in Expected(rfq[f].offer[q]) :
               Go(c, [new EXCEPT !.v = v, !.q = q])
  /\ Quiet

\* What the digest of a command covers; the drawn identifier is not part of it.
Digest(t) ==
  <<t.action, t.v, IF t.action = "RFQ_CREATE" THEN None ELSE t.f,
    IF t.action = "QUOTATION_ISSUE" THEN None ELSE t.q>>

\* The advisory lock on the key, then the receipt recorded under it.
LockKey(c) ==
  /\ tx[c].at = "begun" /\ KeyFree(c)
  /\ IF receipt[tx[c].key] # None /\ receipt[tx[c].key].digest # Digest(tx[c])
     THEN End(c)
     ELSE Go(c, [tx[c] EXCEPT !.at = IF tx[c].action = "RFQ_CREATE" THEN "locked" ELSE "keyed"])
  /\ Quiet

\* The request for quotation is locked before the offer, on every path.
LockRequest(c) ==
  /\ tx[c].at = "keyed" /\ RequestFree(c)
  /\ Go(c, [tx[c] EXCEPT !.at = "parent"])
  /\ Quiet

LockRow(c) ==
  /\ tx[c].at = "parent"
  /\ tx[c].q # None => OfferFree(c, tx[c].f, tx[c].q)
  /\ Go(c, [tx[c] EXCEPT !.at = "locked"])
  /\ Quiet

\* The authority port answers with the revisions it has evaluated, which may
\* no longer be the current ones, and an expiry.
Authorize(c) ==
  /\ tx[c].at = "locked"
  /\ \/ \E a \in 1..authority.relationship.revision, b \in 1..authority.membership.revision,
          e \in now + 1 .. now + MaxLife :
          Go(c, [tx[c] EXCEPT !.at = "granted",
                   !.grant = [relationship |-> a, membership |-> b, expires |-> e]])
     \/ End(c)
  /\ Quiet

Current(row, revision) == row.status = "ACTIVE" /\ row.revision = revision

Authorized(t) ==
  /\ t.grant.expires > now
  /\ Current(authority.relationship, t.grant.relationship)
  /\ t.action \in BuyerActions => Current(authority.membership, t.grant.membership)

\* The first check takes the share locks; a replay is checked too, and answers
\* the recorded response.  Then the clock of the database is read, once, for all
\* the code decides.
Clear(c) ==
  /\ tx[c].at = "granted"
  /\ IF Authorized(tx[c]) /\ receipt[tx[c].key] = None
     THEN Go(c, [tx[c] EXCEPT !.at = "cleared", !.stamp = now])
     ELSE End(c)
  /\ Quiet

--------------------------------------------------------------------------------
(* What the command writes, and what the guard trigger lets through.       *)

Open(r) == {q \in Offers : r.offer[q].status = "ISSUED"}

\* The code and the trigger agree on an ended offer by the clock each reads.
EndsOffer(t, o, status) ==
  /\ o.status = "ISSUED"
  /\ (status = "EXPIRED") = (t.stamp >= o.until)
  /\ (status = "EXPIRED") = (now >= o.until)

Ended(o, status) == [o EXCEPT !.status = status, !.version = @ + 1]

\* An open offer closed with its request for quotation.
ClosedWith(t, o) ==
  Ended(o, IF t.stamp >= o.until THEN "EXPIRED" ELSE "WITHDRAWN")

MutantMoves(r, status, offers) ==   \* offers left open are not looked at
  /\ status \in Follows(r.status)
  /\ status = "QUOTED" => \E q \in Offers : offers[q].status = "ISSUED"
\* The trigger's rule for the request's row once the offers are written.
Moves(r, status, offers) ==
  /\ status \in Follows(r.status)
  /\ status = "QUOTED" => \E q \in Offers : offers[q].status = "ISSUED"
  /\ status \in {"UNDER_REVIEW", "CLOSED", "WITHDRAWN", "EXPIRED"} =>
       \A q \in Offers : offers[q].status # "ISSUED"

Moved(r, status, offers) == [status |-> status, version |-> r.version + 1, offer |-> offers]

\* The states the command may leave, none if it is refused.
Results(t) ==
  LET r == rfq[t.f]
      o == r.offer[t.q]
      status == Target[t.action]
  IN CASE t.action = "RFQ_CREATE" -> {[Unborn EXCEPT !.status = "DRAFT", !.version = 1]}
       [] t.action \in {"RFQ_SUBMIT", "RFQ_REVIEW", "RFQ_DECLINE", "RFQ_CLOSE"} ->
            {n \in {Moved(r, status, r.offer)} : t.v = r.version /\ Moves(r, status, r.offer)}
       [] t.action \in {"RFQ_WITHDRAW", "RFQ_EXPIRE"} ->
            LET offers == [q \in Offers |-> IF q \in Open(r) THEN ClosedWith(t, r.offer[q])
                                            ELSE r.offer[q]]
            IN {n \in {Moved(r, status, offers)} :
                  /\ t.v = r.version /\ Moves(r, status, offers)
                  /\ \A q \in Open(r) : EndsOffer(t, r.offer[q], offers[q].status)}
       [] t.action = "QUOTATION_ISSUE" ->
            {n \in {Moved(r, status, [r.offer EXCEPT ![t.q] =
                      [status |-> "ISSUED", version |-> 1, until |-> u]]) : u \in now + 1 .. MaxNow + 1} :
               t.v = r.version /\ r.status = "UNDER_REVIEW" /\ Open(r) = {}}
       [] OTHER ->
            {n \in {[r EXCEPT !.offer[t.q] = Ended(o, status)]} :
               t.v = o.version /\ EndsOffer(t, o, status)}

\* Withdrawing or expiring a request also waits for its offers' rows.
Apply(c) ==
  /\ tx[c].at = "cleared"
  /\ tx[c].action \in {"RFQ_WITHDRAW", "RFQ_EXPIRE"} =>
       \A q \in Open(rfq[tx[c].f]) : OfferFree(c, tx[c].f, q)
  /\ \/ \E n \in Results(tx[c]) :
          Go(c, [tx[c] EXCEPT !.at = "applied", !.next = n])
     \/ Results(tx[c]) = {} /\ End(c)
  /\ Quiet

\* The second check, after all the statements that may have waited.
Recheck(c) ==
  /\ tx[c].at = "applied"
  /\ IF Authorized(tx[c]) THEN Go(c, [tx[c] EXCEPT !.at = "rechecked"]) ELSE End(c)
  /\ Quiet

\* The receipt and the commit.
Commit(c) ==
  /\ tx[c].at = "rechecked"
  /\ End(c)
  /\ rfq' = [rfq EXCEPT ![tx[c].f] = tx[c].next]
  /\ receipt' = [receipt EXCEPT ![tx[c].key] =
       [digest |-> Digest(tx[c]), f |-> tx[c].f, q |-> tx[c].q,
        version |-> IF tx[c].q = None THEN tx[c].next.version
                    ELSE tx[c].next.offer[tx[c].q].version]]
  /\ UNCHANGED <<authority, now, edits, aborts>>

\* The connection is lost, a lock or a statement times out.
Abort(c) ==
  /\ tx[c].at \notin {"idle", "ended"} /\ aborts < MaxAborts /\ aborts' = aborts + 1
  /\ End(c)
  /\ UNCHANGED <<rfq, receipt, authority, now, edits>>

--------------------------------------------------------------------------------
(* Outside the commands.                                                   *)

\* A relationship or membership is changed and its revision counted; the
\* share locks of a transaction keep the change waiting.
Edit(row) ==
  /\ edits < MaxEdits /\ edits' = edits + 1
  /\ \A c \in Commands :
       Shares(c) => row = "membership" /\ tx[c].action \notin BuyerActions
  /\ \E status \in {"ACTIVE", "SUSPENDED"} :
       authority' = [authority EXCEPT ![row] = [status |-> status, revision |-> @.revision + 1]]
  /\ UNCHANGED <<rfq, receipt, tx, now, aborts>>

Tick ==
  /\ now < MaxNow /\ now' = now + 1
  /\ UNCHANGED <<rfq, receipt, authority, tx, edits, aborts>>

Continue(c) ==
  \/ LockKey(c) \/ LockRequest(c) \/ LockRow(c) \/ Authorize(c) \/ Clear(c)
  \/ Apply(c) \/ Recheck(c) \/ Commit(c)

Next ==
  \/ \E c \in Commands : Arrive(c) \/ Continue(c) \/ Abort(c)
  \/ \E row \in {"relationship", "membership"} : Edit(row)
  \/ Tick

\* A caller goes on with its command; a lock is granted once it is free.
Fairness == \A c \in Commands : WF_vars(Continue(c))

Spec == Init /\ [][Next]_vars /\ Fairness

--------------------------------------------------------------------------------
(* Properties.                                                             *)

\* An offer is open only while its request stands QUOTED, a request has at most
\* one open offer, and a QUOTED request has had an offer: whichever commands of
\* buyer, seller and clock cross, no offer is left open behind a request that
\* was withdrawn, declined, closed or taken back into review.
OffersStandWithTheirRequest ==
  \A f \in Rfqs :
    /\ Cardinality(Open(rfq[f])) <= 1
    /\ Open(rfq[f]) # {} => rfq[f].status = "QUOTED"
    /\ rfq[f].status \in {"QUOTED", "CLOSED"} => \E q \in Offers : rfq[f].offer[q].version > 0

\* Two keys never record the same change: of the commands that expected one
\* version of a row, one is applied and the others are refused.
OneCommandPerVersion ==
  \A k, l \in Keys :
    /\ receipt[k] # None /\ receipt[l] # None
    /\ <<receipt[k].f, receipt[k].q, receipt[k].version>>
         = <<receipt[l].f, receipt[l].q, receipt[l].version>>
    => k = l

\* Nothing is changed under an authority that was withdrawn meanwhile: when a
\* command commits, the revisions it was granted on are the current ones.
CommitsUnderCurrentAuthority ==
  [][\A c \in Commands : tx[c].at = "rechecked" /\ rfq' # rfq /\ tx'[c].at = "ended" =>
       /\ Current(authority.relationship, tx[c].grant.relationship)
       /\ tx[c].action \in BuyerActions =>
            Current(authority.membership, tx[c].grant.membership)]_vars

\* No two commands wait for each other's locks: every command comes to its end
\* without a timeout.
EveryCommandEnds == \A c \in Commands : tx[c].at = "begun" ~> tx[c].at = "ended"
================================================================================
