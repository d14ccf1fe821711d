--------------------------- MODULE BuyerOnboarding ---------------------------
(***************************************************************************)
(* How a buyer is admitted: the application (store/b2b/organisations/apply *)
(* and applications/[id]/evidence) and the three staff routes under        *)
(* admin/b2b/applications/[id]: review, evidence/[evidenceId]/decision and *)
(* decision.                                                               *)
(*                                                                         *)
(* A staff request reads the application, perhaps its KYB evidence, and    *)
(* then makes its writes one awaited call after another, in no transaction *)
(* and with no lock: Plan lists them.  What excludes a concurrent request  *)
(* is a unique index or nothing.  When a call fails the rows created so    *)
(* far are deleted again, the last one first.                              *)
(*                                                                         *)
(* A request whose idempotency key is on record is answered from it and    *)
(* changes nothing, so a request here is one execution past that look-up.  *)
(***************************************************************************)
EXTENDS FiniteSets, Naturals, Sequences

CONSTANTS
    Applications,   \* applications of one customer
    Registered,     \* those that name the company's registration number
    Evidence,       \* KYB documents
    ApplicationOf, TypeOf,
    Required,       \* REQUIRED_BUYER_KYB_EVIDENCE
    Requests,       \* executions of the staff routes
    MaxFaults,      \* bound: calls that fail
    MaxSwallowed,   \* bound: compensations that fail, which nobody hears of
    MaxDeaths       \* bound: executions that die half way

ASSUME OnboardingAssumption ==
    /\ Registered \subseteq Applications /\ Evidence # {}
    /\ ApplicationOf \in [Evidence -> Applications]
    /\ MaxFaults \in Nat /\ MaxSwallowed \in Nat /\ MaxDeaths \in Nat

VARIABLES
    application, \* status and revision of each
    evidence,    \* status of each document; "checked" while its creation is pending
    expired,     \* documents past their expires_at
    request,     \* the progress of each execution
    rows,        \* the live rows each execution created
    withdrawn,   \* history: documents whose verification was taken back
    faults, swallowed, deaths

bounds == <<faults, swallowed, deaths>>
vars == <<application, evidence, expired, request, rows, withdrawn, bounds>>

Open == {"DRAFT", "SUBMITTED", "INFORMATION_REQUIRED", "UNDER_REVIEW"}
Final == {"APPROVED", "REJECTED"}
MutantTransitions ==   \* a rejection may be reconsidered
    [s \in Open \cup Final \cup {"ABSENT", "WITHDRAWN"} |->
        CASE s = "SUBMITTED" -> {"INFORMATION_REQUIRED", "UNDER_REVIEW"}
          [] s = "UNDER_REVIEW" -> {"INFORMATION_REQUIRED", "APPROVED", "REJECTED"}
          [] s = "REJECTED" -> {"UNDER_REVIEW"} [] OTHER -> {}]
Transitions == [ABSENT |-> {},
                DRAFT |-> {"SUBMITTED", "WITHDRAWN"},
                SUBMITTED |-> {"INFORMATION_REQUIRED", "UNDER_REVIEW", "WITHDRAWN"},
                INFORMATION_REQUIRED |-> {"SUBMITTED", "WITHDRAWN"},
                UNDER_REVIEW |-> {"INFORMATION_REQUIRED", "APPROVED", "REJECTED"},
                APPROVED |-> {}, REJECTED |-> {}, WITHDRAWN |-> {}]

MutantPlan(r) ==   \* the application is updated before the decision's rows are created
    CASE r.kind = "review" -> <<"reviewAction", "write">>
      [] r.kind = "evidence" -> <<"evidenceDecision", "write", "evidenceEvent">>
      [] r.kind = "admission" /\ r.to = "REJECTED" -> <<"write", "decision", "decisionEvent">>
      [] r.kind = "admission" /\ r.to = "APPROVED" ->
            <<"write", "organisation", "membership", "role", "decision",
              "decisionEvent", "registeredEvent", "membershipEvent">>
\* The awaited calls of a request in order: the rows it creates, and "write", which
\* updates the application or, for a decision on evidence, the document.
Plan(r) ==
    CASE r.kind = "review" -> <<"reviewAction", "write">>
      [] r.kind = "evidence" -> <<"evidenceDecision", "write", "evidenceEvent">>
      [] r.kind = "admission" /\ r.to = "REJECTED" -> <<"decision", "decisionEvent", "write">>
      [] r.kind = "admission" /\ r.to = "APPROVED" ->
            <<"organisation", "membership", "role", "decision",
              "decisionEvent", "registeredEvent", "membershipEvent", "write">>
RowKinds == {"reviewAction", "evidenceDecision", "evidenceEvent", "organisation", "membership",
             "role", "decision", "decisionEvent", "registeredEvent", "membershipEvent"}
RowsOf(r) == {Plan(r)[i] : i \in DOMAIN Plan(r)} \ {"write"}

Outcomes == [review |-> {"INFORMATION_REQUIRED", "UNDER_REVIEW"},
             evidence |-> {"VERIFIED", "REJECTED"}, admission |-> Final]
\* n: calls of the plan that have succeeded; revision: what the request read.
Request == [at : {"new", "read", "run", "undo", "done"}, n : 0..8, kind : DOMAIN Outcomes,
            to : UNION {Outcomes[k] : k \in DOMAIN Outcomes}, app : Applications,
            doc : Evidence, revision : Nat]
NoRequest == [at |-> "new", n |-> 0, kind |-> "review", to |-> "UNDER_REVIEW",
              app |-> CHOOSE a \in Applications : TRUE, doc |-> CHOOSE e \in Evidence : TRUE,
              revision |-> 0]

TypeOK ==
    /\ application \in [Applications -> [status : DOMAIN Transitions, revision : Nat]]
    /\ evidence \in [Evidence -> {"ABSENT", "checked", "PENDING", "VERIFIED", "REJECTED"}]
    /\ expired \subseteq Evidence /\ withdrawn \subseteq Evidence
    /\ request \in [Requests -> Request] /\ rows \in [Requests -> SUBSET RowKinds]
    /\ faults \in 0..MaxFaults /\ swallowed \in 0..MaxSwallowed /\ deaths \in 0..MaxDeaths

Init ==
    /\ application = [a \in Applications |-> [status |-> "ABSENT", revision |-> 0]]
    /\ evidence = [e \in Evidence |-> "ABSENT"]
    /\ expired = {} /\ withdrawn = {}
    /\ request = [q \in Requests |-> NoRequest] /\ rows = [q \in Requests |-> {}]
    /\ faults = 0 /\ swallowed = 0 /\ deaths = 0

----------------------------------------------------------------------------
(***************************************************************************)
(* The applicant, and time.                                                *)
(***************************************************************************)
OtherOpen(a) == \E b \in Applications \ {a} : application[b].status \in Open

\* The route looks for an open application; IDX_b2b_buyer_application_open settles a race.
Apply(a) ==
    /\ application[a].status = "ABSENT" /\ ~OtherOpen(a)
    /\ application' = [application EXCEPT ![a] = [status |-> "SUBMITTED", revision |-> 1]]
    /\ UNCHANGED <<evidence, expired, request, rows, withdrawn, bounds>>

\* The status is read, and the document created in a later call whatever it is by then.
CheckAccepting(e) ==
    /\ evidence[e] = "ABSENT"
    /\ application[ApplicationOf[e]].status \in {"SUBMITTED", "INFORMATION_REQUIRED"}
    /\ evidence' = [evidence EXCEPT ![e] = "checked"]
    /\ UNCHANGED <<application, expired, request, rows, withdrawn, bounds>>
Attach(e) ==
    /\ evidence[e] = "checked"
    /\ evidence' = [evidence EXCEPT ![e] = "PENDING"]
    /\ UNCHANGED <<application, expired, request, rows, withdrawn, bounds>>

Expire(e) ==
    /\ evidence[e] \notin {"ABSENT", "checked"} /\ e \notin expired
    /\ expired' = expired \cup {e}
    /\ UNCHANGED <<application, evidence, request, rows, withdrawn, bounds>>

----------------------------------------------------------------------------
(***************************************************************************)
(* Staff requests.                                                         *)
(***************************************************************************)
At(q, stage) == request[q].at = stage
Step(q) == Plan(request[q])[request[q].n + 1]
Dropped == [NoRequest EXCEPT !.at = "done"]   \* a request that leaves no trace

Begin(q, kind, a, to, e) ==
    /\ At(q, "new")
    /\ request' = [request EXCEPT ![q] = [at |-> "read", n |-> 0, kind |-> kind, to |-> to,
                       app |-> a, doc |-> e, revision |-> application[a].revision]]
    /\ UNCHANGED <<application, evidence, expired, rows, withdrawn, bounds>>

\* Each route reads the application once.  Its revision must be the one the caller
\* expects, and one that expects another is refused without a trace.
ReadForReview(q, a, to) ==
    /\ to \in Outcomes.review \cap Transitions[application[a].status]
    /\ Begin(q, "review", a, to, NoRequest.doc)
ReadForAdmission(q, a, to) ==
    /\ application[a].status = "UNDER_REVIEW"
    /\ to \in Outcomes.admission \cap Transitions[application[a].status]
    /\ Begin(q, "admission", a, to, NoRequest.doc)
ReadForEvidence(q, e, to) ==
    /\ application[ApplicationOf[e]].status
           \in {"SUBMITTED", "INFORMATION_REQUIRED", "UNDER_REVIEW"}
    /\ to \in Outcomes.evidence
    /\ Begin(q, "evidence", ApplicationOf[e], to, e)

\* assertVerifiedBuyerKybPackage
Package(a) ==
    \A type \in Required : \E e \in Evidence \ expired :
        ApplicationOf[e] = a /\ TypeOf[e] = type /\ evidence[e] = "VERIFIED"

MutantAcceptable(r) == r.kind = "evidence" => evidence[r.doc] = "PENDING"   \* no package
\* The second read: the document, or the package behind a review or an approval.
Acceptable(r) ==
    IF r.kind = "evidence"
    THEN evidence[r.doc] = "PENDING" /\ (r.to = "VERIFIED" => r.doc \notin expired)
    ELSE r.to \in {"UNDER_REVIEW", "APPROVED"} => Package(r.app)

\* An approval may still be refused: the applicant has no canonical Principal, or the
\* Control Plane does not verify the organisation.
Check(q) ==
    /\ At(q, "read")
    /\ \/ Acceptable(request[q]) /\ request' = [request EXCEPT ![q].at = "run"]
       \/ /\ ~Acceptable(request[q]) \/ request[q].to = "APPROVED"
          /\ request' = [request EXCEPT ![q] = Dropped]
    /\ UNCHANGED <<application, evidence, expired, rows, withdrawn, bounds>>

Holding(row, q) == {p \in Requests \ {q} : row \in rows[p]}
MutantNoEvidenceIndex(q) ==   \* decisions on one document do not exclude each other
    \/ Step(q) = "reviewAction"
       /\ \E p \in Holding("reviewAction", q) :
             request[p].app = request[q].app /\ request[p].revision = request[q].revision
    \/ Step(q) = "decision"
       /\ \E p \in Holding("decision", q) : request[p].app = request[q].app
\* The unique indexes on live rows, and the one on open applications.
Collides(q) ==
    LET r == request[q] IN
    CASE Step(q) = "reviewAction" ->
            \E p \in Holding("reviewAction", q) :
                request[p].app = r.app /\ request[p].revision = r.revision
      [] Step(q) = "evidenceDecision" ->
            \E p \in Holding("evidenceDecision", q) : request[p].doc = r.doc
      [] Step(q) = "organisation" ->
            r.app \in Registered
            /\ \E p \in Holding("organisation", q) : request[p].app \in Registered
      [] Step(q) = "decision" ->
            \E p \in Holding("decision", q) : request[p].app = r.app
      [] Step(q) = "write" ->
            /\ r.kind = "review" /\ OtherOpen(r.app)
            /\ application[r.app].status \notin Open
      [] OTHER -> FALSE

Advance(q) ==
    request' = [request EXCEPT ![q].n = @ + 1,
                               ![q].at = IF request[q].n + 1 = Len(Plan(request[q]))
                                         THEN "done" ELSE "run"]
CreateRow(q) ==
    /\ At(q, "run") /\ Step(q) # "write" /\ ~Collides(q)
    /\ rows' = [rows EXCEPT ![q] = @ \cup {Step(q)}]
    /\ Advance(q)
    /\ UNCHANGED <<application, evidence, expired, withdrawn, bounds>>

\* The update names the row by its id alone, and the revision read at the start plus one.
Write(q) ==
    /\ At(q, "run") /\ Step(q) = "write" /\ ~Collides(q)
    /\ LET r == request[q] IN
       IF r.kind = "evidence"
       THEN evidence' = [evidence EXCEPT ![r.doc] = r.to] /\ UNCHANGED application
       ELSE /\ application' = [application EXCEPT
                   ![r.app] = [status |-> r.to, revision |-> r.revision + 1]]
            /\ UNCHANGED evidence
    /\ Advance(q)
    /\ UNCHANGED <<expired, rows, withdrawn, bounds>>

\* The call in progress fails without effect, by a unique index or by a fault.
BackOut(q) ==
    /\ At(q, "run")
    /\ request' = [request EXCEPT ![q] = IF @.n = 0 THEN Dropped ELSE [@ EXCEPT !.at = "undo"]]
    /\ UNCHANGED <<application, evidence, expired, rows, withdrawn>>
Collide(q) == At(q, "run") /\ Collides(q) /\ BackOut(q) /\ UNCHANGED bounds
Fail(q) == faults < MaxFaults /\ faults' = faults + 1 /\ BackOut(q)
           /\ UNCHANGED <<swallowed, deaths>>

Retreat(q) ==
    request' = [request EXCEPT ![q].n = @ - 1,
                               ![q].at = IF request[q].n = 1 THEN "done" ELSE "undo"]
\* Foreign keys cascade from an organisation to its membership and from that to its role.
DeletedWith(row) == CASE row = "organisation" -> {"organisation", "membership", "role"}
                      [] row = "membership" -> {"membership", "role"}
                      [] OTHER -> {row}
\* The latest call is compensated: its row deleted, or the document PENDING again.
Undo(q) ==
    /\ At(q, "undo")
    /\ LET call == Plan(request[q])[request[q].n] IN
       IF call = "write"
       THEN /\ evidence' = [evidence EXCEPT ![request[q].doc] = "PENDING"]
            /\ withdrawn' = withdrawn \cup {request[q].doc} /\ UNCHANGED rows
       ELSE rows' = [rows EXCEPT ![q] = @ \ DeletedWith(call)] /\ UNCHANGED <<evidence, withdrawn>>
    /\ Retreat(q)
    /\ UNCHANGED <<application, expired, bounds>>

\* A compensation fails; the ones left run all the same.
Swallow(q) ==
    /\ At(q, "undo") /\ swallowed < MaxSwallowed /\ swallowed' = swallowed + 1
    /\ Retreat(q)
    /\ UNCHANGED <<application, evidence, expired, rows, withdrawn, faults, deaths>>
Die(q) ==
    /\ At(q, "run") \/ At(q, "undo")
    /\ deaths < MaxDeaths /\ deaths' = deaths + 1
    /\ request' = [request EXCEPT ![q].at = "done"]
    /\ UNCHANGED <<application, evidence, expired, rows, withdrawn, faults, swallowed>>

Next ==
    \/ \E a \in Applications : Apply(a)
    \/ \E e \in Evidence : CheckAccepting(e) \/ Attach(e) \/ Expire(e)
    \/ \E q \in Requests :
          \/ \E a \in Applications, to \in Outcomes.review \cup Outcomes.admission :
                ReadForReview(q, a, to) \/ ReadForAdmission(q, a, to)
          \/ \E e \in Evidence, to \in Outcomes.evidence : ReadForEvidence(q, e, to)
          \/ Check(q) \/ CreateRow(q) \/ Write(q) \/ Collide(q) \/ Fail(q)
          \/ Undo(q) \/ Swallow(q) \/ Die(q)

Spec == Init /\ [][Next]_vars

----------------------------------------------------------------------------
(***************************************************************************)
(* Properties.                                                             *)
(***************************************************************************)
Quiet == \A q \in Requests : At(q, "new") \/ At(q, "done")
Intact == swallowed = 0 /\ deaths = 0

\* gate-zb04: "Application, decision, organisation and membership writes are atomic or
\* compensating."  Once no request is running, whatever overlapped, collided and failed,
\* each has left all its rows or none, a document has its verdict exactly when the decision
\* stands, and no application has produced two organisations.  Holds while compensations
\* succeed and executions do not die.
AllOrNothing ==
    Quiet /\ Intact =>
        /\ \A q \in Requests : rows[q] \in {{}, RowsOf(request[q])}
        /\ \A e \in Evidence, verdict \in {"VERIFIED", "REJECTED"} :
              evidence[e] = verdict <=>
                  \E q \in Requests : "evidenceDecision" \in rows[q]
                      /\ request[q].doc = e /\ request[q].to = verdict
        /\ \A p, q \in Requests :
              "organisation" \in rows[p] \cap rows[q] /\ request[p].app = request[q].app => p = q

\* An application that reads APPROVED or REJECTED has everything that decision creates:
\* not even a lost compensation or a death leaves the status without its records.
FinalIsBacked ==
    \A a \in Applications : application[a].status \in Final =>
        \E q \in Requests :
            /\ request[q].kind = "admission" /\ request[q].app = a
            /\ request[q].to = application[a].status /\ rows[q] = RowsOf(request[q])

\* ADR-0030: the package is "required before UNDER_REVIEW or APPROVED".  Documents may expire
\* later; otherwise an application is without only because a verification was taken back.
\* Executions may die; with a compensation lost a second decision can take a document over.
PackageHolds ==
    \A a \in Applications : application[a].status \in {"UNDER_REVIEW", "APPROVED"} =>
        swallowed > 0 \/ \A type \in Required : \E e \in Evidence :
            /\ ApplicationOf[e] = a /\ TypeOf[e] = type
            /\ evidence[e] = "VERIFIED" \/ e \in withdrawn

\* Reviews and decisions each write the revision they read plus one, unconditionally, and yet
\* the revision a reviewer is asked to repeat never falls back to one already seen.
RevisionNeverFalls ==
    [][\A a \in Applications : application'[a].revision >= application[a].revision]_vars

\* A decided application is only reopened by a review that read it before the decision did
\* its write, at the very revision the decision was taken on.
Reopened(a) == application[a].status \in Final /\ application'[a].status # application[a].status
ReadAlongside(q, a) ==
    /\ request[q].kind = "review" /\ request[q].app = a
    /\ request[q].revision + 1 = application[a].revision
OnlyAStaleReviewReopens ==
    [][\A a \in Applications : Reopened(a) =>
          \E q \in Requests : ReadAlongside(q, a) /\ request'[q] # request[q]]_vars

=============================================================================
