--------------------------- MODULE BuyerActivation ---------------------------
(***************************************************************************)
(* How the ERP activates a buyer organisation: the inbound ERP event route *)
(* (api/events/inbound/erp/route.ts) and the staff route that changes an   *)
(* organisation's status (api/admin/b2b/organisations/[id]/status).        *)
(*                                                                         *)
(* The event route works on three modules that share no transaction: the   *)
(* organisation, its commercial profile projections, and the receipts and  *)
(* outbox.  Each of its awaited calls is a step here; a failed call starts *)
(* the compensations of the catch block.  Events are delivered at least    *)
(* once and in any order, to several handlers at a time.                   *)
(***************************************************************************)
EXTENDS FiniteSets, Naturals

CONSTANTS
    ErpEvents,   \* commercial profile events of one organisation
    Approved,    \* those with credit_status APPROVED
    PartnerOf,   \* the ERP business partner each event names
    Handlers,    \* requests served at the same time
    Staff,       \* operators at the status route
    NoPartner,
    MaxFailures, \* bound: calls of a handler that fail
    MaxSwallowed \* bound: compensations that fail, which nobody hears of

ASSUME ActivationAssumption ==
    /\ Approved \subseteq ErpEvents /\ ErpEvents # {}
    /\ MaxFailures \in Nat /\ MaxSwallowed \in Nat
    /\ \A e \in ErpEvents : PartnerOf[e] # NoPartner

VARIABLES
    org,         \* b2b_organisation: status, erp_business_partner_id
    projection,  \* events with a commercial profile projection
    receipt,     \* events with a consumer receipt
    announced,   \* events whose activation was announced in the outbox
    handler,     \* the request of each handler
    operator,    \* the request of each operator
    governor,    \* history: "staff" once staff have changed the status, "erp" before
    failures, swallowed

counters == <<failures, swallowed>>
vars == <<org, projection, receipt, announced, handler, operator, governor, failures, swallowed>>
Stores == <<org, projection, receipt, announced>>

OrgStatus == {"PENDING", "ACTIVE", "SUSPENDED", "CLOSED"}
Partners == {PartnerOf[e] : e \in ErpEvents} \cup {NoPartner}
Organisation == [status : OrgStatus, partner : Partners]
Stage == {"idle", "new", "read", "projected", "updated", "receipted",
          "undoReceipt", "undoStatus", "undoProjection"}
Request == [at : Stage, event : ErpEvents, seen : Organisation, activated : BOOLEAN,
            receipted : BOOLEAN]
Change == [at : {"idle", "read"}, to : OrgStatus]

TypeOK ==
    /\ org \in Organisation
    /\ projection \subseteq ErpEvents /\ receipt \subseteq ErpEvents /\ announced \subseteq ErpEvents
    /\ handler \in [Handlers -> Request] /\ operator \in [Staff -> Change]
    /\ governor \in {"erp", "staff"} /\ failures \in 0..MaxFailures /\ swallowed \in 0..MaxSwallowed

NewOrganisation == [status |-> "PENDING", partner |-> NoPartner]
NoRequest == [at |-> "idle", event |-> CHOOSE e \in ErpEvents : TRUE, seen |-> NewOrganisation,
              activated |-> FALSE, receipted |-> FALSE]

\* An organisation admitted by an application decision and linked to its canonical identity.
Init ==
    /\ org = NewOrganisation
    /\ projection = {} /\ receipt = {} /\ announced = {}
    /\ handler = [h \in Handlers |-> NoRequest]
    /\ operator = [s \in Staff |-> [at |-> "idle", to |-> "PENDING"]]
    /\ governor = "erp" /\ failures = 0 /\ swallowed = 0

----------------------------------------------------------------------------
At(h, stage) == handler[h].at = stage
Goto(h, stage) == handler' = [handler EXCEPT ![h].at = stage]
Reply(h) == handler' = [handler EXCEPT ![h] = NoRequest]
Event(h) == handler[h].event

\* A delivery; one whose receipt exists is answered ALREADY_PROCESSED.
Receive(h, e) ==
    /\ At(h, "idle") /\ e \notin receipt
    /\ handler' = [handler EXCEPT ![h] = [NoRequest EXCEPT !.at = "new", !.event = e]]
    /\ UNCHANGED <<Stores, operator, governor, counters>>

\* retrieveB2BOrganisation: what is read here is what every later step goes by.
RetrieveOrganisation(h) ==
    /\ At(h, "new")
    /\ IF org.status = "CLOSED" THEN Reply(h)
       ELSE handler' = [handler EXCEPT ![h].at = "read", ![h].seen = org]
    /\ UNCHANGED <<Stores, operator, governor, counters>>

MutantCreateProjection(h) ==   \* no unique index on the source event
    /\ At(h, "read")
    /\ projection' = projection \cup {Event(h)} /\ Goto(h, "projected")
    /\ UNCHANGED <<org, receipt, announced, operator, governor, counters>>
\* The unique index on source_event_id turns a concurrent duplicate away, before the try.
CreateProjection(h) ==
    /\ At(h, "read")
    /\ IF Event(h) \in projection THEN Reply(h) /\ UNCHANGED projection
       ELSE projection' = projection \cup {Event(h)} /\ Goto(h, "projected")
    /\ UNCHANGED <<org, receipt, announced, operator, governor, counters>>

Activates(h) == Event(h) \in Approved /\ handler[h].seen.status = "PENDING"
Partner(h) == PartnerOf[Event(h)]

\* updateB2BOrganisations writes only the named columns, whatever the row says by now.
UpdateOrganisation(h) ==
    /\ At(h, "projected")
    /\ org' = IF Activates(h) THEN [status |-> "ACTIVE", partner |-> Partner(h)]
              ELSE [org EXCEPT !.partner = IF handler[h].seen.partner = Partner(h) THEN @
                                           ELSE Partner(h)]
    /\ handler' = [handler EXCEPT ![h].at = "updated", ![h].activated = Activates(h)]
    /\ UNCHANGED <<projection, receipt, announced, operator, governor, counters>>

\* The unique index on consumer and event turns a duplicate receipt into a failure.
CreateReceipt(h) ==
    /\ At(h, "updated")
    /\ IF Event(h) \in receipt THEN Goto(h, "undoReceipt") /\ UNCHANGED receipt
       ELSE /\ receipt' = receipt \cup {Event(h)}
            /\ handler' = [handler EXCEPT ![h].at = "receipted", ![h].receipted = TRUE]
    /\ UNCHANGED <<org, projection, announced, operator, governor, counters>>

Announce(h) ==
    /\ At(h, "receipted")
    /\ announced' = announced \cup (IF handler[h].activated THEN {Event(h)} ELSE {})
    /\ Reply(h)
    /\ UNCHANGED <<org, projection, receipt, operator, governor, counters>>

\* A call fails: before the try the request just ends, inside it the catch block runs.
Fail(h) ==
    /\ failures < MaxFailures /\ failures' = failures + 1
    /\ \/ (At(h, "new") \/ At(h, "read")) /\ Reply(h)
       \/ /\ At(h, "projected") \/ At(h, "updated")
             \/ (At(h, "receipted") /\ handler[h].activated)
          /\ Goto(h, "undoReceipt")
    /\ UNCHANGED <<Stores, operator, governor, swallowed>>

\* A compensation fails: its error is swallowed and the next one runs.
Swallow(h) ==
    /\ swallowed < MaxSwallowed /\ swallowed' = swallowed + 1
    /\ \/ At(h, "undoReceipt") /\ handler[h].receipted /\ Goto(h, "undoStatus")
       \/ At(h, "undoStatus") /\ handler[h].activated /\ Goto(h, "undoProjection")
       \/ At(h, "undoProjection") /\ Reply(h)
    /\ UNCHANGED <<Stores, operator, governor, failures>>

MutantUndoReceipt(h) ==   \* the receipt is kept
    /\ At(h, "undoReceipt") /\ Goto(h, "undoStatus")
    /\ UNCHANGED <<Stores, operator, governor, counters>>
UndoReceipt(h) ==
    /\ At(h, "undoReceipt")
    /\ receipt' = IF handler[h].receipted THEN receipt \ {Event(h)} ELSE receipt
    /\ Goto(h, "undoStatus")
    /\ UNCHANGED <<org, projection, announced, operator, governor, counters>>

MutantUndoStatus(h) ==   \* the activation stands
    /\ At(h, "undoStatus") /\ Goto(h, "undoProjection")
    /\ UNCHANGED <<Stores, operator, governor, counters>>
\* Only an activation is restored, to PENDING and the partner read at the start.
UndoStatus(h) ==
    /\ At(h, "undoStatus")
    /\ org' = IF handler[h].activated
              THEN [status |-> "PENDING", partner |-> handler[h].seen.partner] ELSE org
    /\ Goto(h, "undoProjection")
    /\ UNCHANGED <<projection, receipt, announced, operator, governor, counters>>

MutantUndoProjection(h) ==   \* the projection is left behind
    /\ At(h, "undoProjection") /\ Reply(h)
    /\ UNCHANGED <<Stores, operator, governor, counters>>
UndoProjection(h) ==
    /\ At(h, "undoProjection")
    /\ projection' = projection \ {Event(h)} /\ Reply(h)
    /\ UNCHANGED <<org, receipt, announced, operator, governor, counters>>

Allowed == [PENDING |-> {"CLOSED"}, ACTIVE |-> {"SUSPENDED", "CLOSED"},
            SUSPENDED |-> {"ACTIVE", "CLOSED"}, CLOSED |-> {}]

\* The status route reads the row, checks the transition, and writes in another call.
CheckTransition(s, status) ==
    /\ operator[s].at = "idle" /\ status \in Allowed[org.status]
    /\ operator' = [operator EXCEPT ![s] = [at |-> "read", to |-> status]]
    /\ UNCHANGED <<Stores, handler, governor, counters>>
WriteStatus(s) ==
    /\ operator[s].at = "read"
    /\ org' = [org EXCEPT !.status = operator[s].to]
    /\ operator' = [operator EXCEPT ![s].at = "idle"]
    /\ governor' = "staff"
    /\ UNCHANGED <<projection, receipt, announced, handler, counters>>

Handle(h) == \/ RetrieveOrganisation(h) \/ CreateProjection(h) \/ UpdateOrganisation(h)
             \/ CreateReceipt(h) \/ Announce(h)
             \/ UndoReceipt(h) \/ UndoStatus(h) \/ UndoProjection(h)

Next == \/ \E h \in Handlers : Fail(h) \/ Swallow(h) \/ Handle(h) \/ \E e \in ErpEvents : Receive(h, e)
        \/ \E s \in Staff : WriteStatus(s) \/ \E status \in OrgStatus : CheckTransition(s, status)

\* A handler runs to its end, and the ERP delivers an event again until it is accepted.
Spec == /\ Init /\ [][Next]_vars
        /\ \A h \in Handlers : WF_vars(Handle(h))
        /\ \A e \in ErpEvents : SF_vars(\E h \in Handlers : Receive(h, e))

----------------------------------------------------------------------------
(***************************************************************************)
(* Properties.                                                             *)
(***************************************************************************)
Quiet == \A h \in Handlers : At(h, "idle")

\* ADR-0029: "Activation has explicit ERP evidence".  Whatever handlers overlap, fail and
\* undo, an organisation that staff never touched is active only with the projection of
\* an approval, as long as the compensations themselves succeed.
ActiveHasEvidence ==
    org.status = "ACTIVE" /\ governor = "erp" /\ swallowed = 0 => projection \cap Approved # {}

\* Whatever overlaps and fails, compensations included, an activation that was announced is
\* never undone in the records that prove it.
AnnouncedStands == announced \subseteq projection \cap receipt \cap Approved

\* Once no request is running, an event has left everything or nothing behind: its
\* projection, its receipt, and nothing announced that was undone.  Holds while the
\* compensations themselves succeed.
AllOrNothing ==
    Quiet /\ swallowed = 0 => projection = receipt /\ announced \subseteq receipt \cap Approved

\* Every event is processed in the end, though duplicates collide with it and its own
\* attempts fail and are undone, unless a compensation fails or staff close the organisation.
EventuallyProcessed ==
    \A e \in ErpEvents : <>[](e \in receipt) \/ <>(swallowed > 0) \/ <>(org.status = "CLOSED")

\* Only staff lift a suspension, or a request that read the organisation while it was still
\* PENDING: an approval that arrives for a suspended organisation leaves it suspended.
Lifted == org.status = "SUSPENDED" /\ org'.status # "SUSPENDED"
LiftedByStaff == \E s \in Staff : operator[s].at = "read" /\ operator'[s].at = "idle"
LiftedByEarlierRead ==
    \E h \in Handlers : handler[h].seen.status = "PENDING" /\ handler'[h] # handler[h]
SuspensionHolds == [][Lifted => LiftedByStaff \/ LiftedByEarlierRead]_vars

=============================================================================
