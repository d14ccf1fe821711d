------------------------------ MODULE BuyerContext ------------------------------
(***************************************************************************)
(* The resolution of a buyer's authority: Trade verifies the caller and    *)
(* the human token, asks the Control Plane who and where they are, then    *)
(* reads the relationship, the membership and its roles, asks the Control  *)
(* Plane once more, reads relationship and membership again, and answers a *)
(* short-lived execution context.  Every read is a call of its own; the    *)
(* rows it reads are those of BuyerMembership, whose requests run on, and  *)
(* operators edit them besides.  Time is an instant 0..MaxNow.             *)
(*                                                                         *)
(* An operator Mutant... is a wrong form of the definition after it, of    *)
(* the kind a code change could bring; no action uses it.  Each property   *)
(* below fails when one of them takes the definition's place.              *)
(***************************************************************************)
EXTENDS BuyerMembership

CONSTANTS
  Resolutions,  \* the resolutions of a history
  Lifetime,     \* CONTEXT_LIFETIME_MS
  MaxNow        \* bound: the last instant

ASSUME ContextAssumption ==
  /\ Lifetime \in Nat \ {0} /\ MaxNow \in Nat

VARIABLES
  now,          \* the clock
  resolution    \* the local state of each resolution

contextVars == <<now, resolution>>

NoResolution ==
  [at |-> "new", who |-> None, until |-> 0, started |-> 0, relation |-> 0,
   m |-> None, revision |-> 0, roles |-> {}, whole |-> FALSE, attested |-> 0,
   again |-> {}, expires |-> 0]

\* A history also says which resolutions take place in it.
ContextInit ==
  /\ \E h \in Histories :
       /\ Begins(h)
       /\ resolution = [x \in Resolutions |->
            IF x \in h.resolve THEN NoResolution ELSE [NoResolution EXCEPT !.at = "refused"]]
  /\ now = 0

Reads(x, new) ==
  /\ resolution' = [resolution EXCEPT ![x] = new]
  /\ UNCHANGED <<vars, now>>

Refused(x) == Reads(x, [resolution[x] EXCEPT !.at = "refused"])

--------------------------------------------------------------------------------
(* The steps of one resolution, in the order of the code.                  *)

Begin(x) ==
  /\ resolution[x].at = "new"
  /\ \E c \in Customers :
       Reads(x, [NoResolution EXCEPT !.at = "asked", !.who = c, !.started = now,
                                     !.until = now + Lifetime])

Least(S) == CHOOSE e \in S : \A f \in S : e <= f

\* A piece of evidence is verified and states until when it holds, or is refused;
\* `until` is the least of what the list of expiries has so far.
Verified(x, from, to, ends) ==
  /\ resolution[x].at = from
  /\ \/ \E e \in ends : Reads(x, [resolution[x] EXCEPT !.at = to, !.until = Least({@, e})])
     \/ Refused(x)

\* The evidence accepted now expires later.
Later == now + 1 .. MaxNow + 1

\* The caller's own token and the buyer's, signed with a key the issuer publishes,
\* for Trade and for one client.
VerifyCaller(x) == Verified(x, "asked", "called", Later)
VerifyToken(x) == Verified(x, "called", "known", Later)

\* The assurance is judged at the instant the resolution began, and may set no end.
Assure(x) ==
  \/ Verified(x, "known", "assured", resolution[x].started .. MaxNow + 1)
  \/ /\ resolution[x].at = "known"
     /\ Reads(x, [resolution[x] EXCEPT !.at = "assured"])

\* The Control Plane says who the buyer is, and which estate the caller speaks for.
ResolvePrincipal(x) == Verified(x, "assured", "named", Later)
BindEstate(x) == Verified(x, "named", "proved", Later)

\* The relationship selected by the request.
Related == organisation.status = "ACTIVE"

ReadOrganisation(x) ==
  /\ resolution[x].at = "proved"
  /\ IF Related
     THEN Reads(x, [resolution[x] EXCEPT !.at = "related", !.relation = organisation.revision])
     ELSE Refused(x)

\* The rows of the Principal, of which there must be exactly one.
RowsOf(c) == {m \in Requests : member[m].customer = c}
Usable(m) == member[m].status = "ACTIVE" /\ InEffect(member[m])

ReadMembership(x) ==
  /\ resolution[x].at = "related"
  /\ IF \E m \in Requests : RowsOf(resolution[x].who) = {m} /\ Usable(m)
     THEN \E m \in RowsOf(resolution[x].who) :
            Reads(x, [resolution[x] EXCEPT !.at = "member", !.m = m,
                                           !.revision = member[m].revision])
     ELSE Refused(x)

\* What the context will state was true of the rows when the roles were read
\* (kept for the properties; the code does not know it here).
Together(res) ==
  /\ Related /\ organisation.revision = res.relation
  /\ Usable(res.m) /\ member[res.m].revision = res.revision

ReadRoles(x) ==
  /\ resolution[x].at = "member"
  /\ LET res == resolution[x]
         roles == member[res.m].roles
     IN IF roles # {}
        THEN Reads(x, [res EXCEPT !.at = "roled", !.roles = roles, !.whole = Together(res)])
        ELSE Refused(x)

\* The Control Plane attests the organisation for the seller's tenant.
Attest(x) ==
  /\ resolution[x].at = "roled"
  /\ \/ \E e \in now .. MaxNow + 1 :
          Reads(x, [resolution[x] EXCEPT !.at = "attested", !.attested = e])
     \/ Refused(x)

\* The two rows are read again, at once and in either order.
ReadOrganisationAgain(x) ==
  /\ resolution[x].at = "attested" /\ "organisation" \notin resolution[x].again
  /\ IF Related /\ organisation.revision = resolution[x].relation
     THEN Reads(x, [resolution[x] EXCEPT !.again = @ \cup {"organisation"}])
     ELSE Refused(x)

MutantReadMembershipAgain(x) ==   \* the revision is not compared
  /\ resolution[x].at = "attested" /\ "member" \notin resolution[x].again
  /\ IF RowsOf(resolution[x].who) # {} /\ member[resolution[x].m].status = "ACTIVE"
     THEN Reads(x, [resolution[x] EXCEPT !.again = @ \cup {"member"}])
     ELSE Refused(x)
ReadMembershipAgain(x) ==
  /\ resolution[x].at = "attested" /\ "member" \notin resolution[x].again
  /\ LET m == resolution[x].m IN
     IF /\ RowsOf(resolution[x].who) = {m}
        /\ member[m].revision = resolution[x].revision
        /\ member[m].status = "ACTIVE"
     THEN Reads(x, [resolution[x] EXCEPT !.again = @ \cup {"member"}])
     ELSE Refused(x)

MutantExpiries(res) ==   \* the evidence that came last is left out
  {res.until}
Expiries(res) ==
  {res.until, res.attested}

Issue(x) ==
  /\ resolution[x].at = "attested" /\ resolution[x].again = {"organisation", "member"}
  /\ LET earliest == Least(Expiries(resolution[x])) IN
     IF earliest > now
     THEN Reads(x, [resolution[x] EXCEPT !.at = "issued", !.expires = earliest])
     ELSE Refused(x)

Resolve(x) ==
  \/ Begin(x) \/ VerifyCaller(x) \/ VerifyToken(x) \/ Assure(x) \/ ResolvePrincipal(x)
  \/ BindEstate(x) \/ ReadOrganisation(x) \/ ReadMembership(x) \/ ReadRoles(x)
  \/ Attest(x) \/ ReadOrganisationAgain(x) \/ ReadMembershipAgain(x) \/ Issue(x)

--------------------------------------------------------------------------------
(* What operators and time do besides.                                     *)

\* A role row is inserted or deleted; its trigger counts it on the membership.
EditRole(m) ==
  /\ Exists(m) /\ edits > 0 /\ edits' = edits - 1
  /\ \E role \in Roles :
       SetRoles(m, IF role \in member[m].roles THEN member[m].roles \ {role}
                   ELSE member[m].roles \cup {role})
  /\ UNCHANGED <<organisation, delivery, mailed, lapsed, request, faults, contextVars>>

\* A membership is suspended or taken up again.
EditStatus(m) ==
  /\ member[m].status \in {"ACTIVE", "SUSPENDED"} /\ edits > 0 /\ edits' = edits - 1
  /\ Update(m, [member[m] EXCEPT !.status = IF @ = "ACTIVE" THEN "SUSPENDED" ELSE "ACTIVE"])
  /\ UNCHANGED <<organisation, delivery, mailed, lapsed, request, faults, contextVars>>

\* Instants matter to the resolutions under way only.
Tick ==
  /\ now < MaxNow /\ now' = now + 1
  /\ \E x \in Resolutions : resolution[x].at \notin {"issued", "refused"}
  /\ UNCHANGED <<vars, resolution>>

ContextNext ==
  \/ MembershipNext /\ UNCHANGED contextVars
  \/ \E x \in Resolutions : Resolve(x)
  \/ \E m \in Requests : EditRole(m) \/ EditStatus(m)
  \/ Tick

ContextSpec == ContextInit /\ [][ContextNext]_<<vars, contextVars>>

--------------------------------------------------------------------------------
(* Properties.                                                             *)

Issued(x) == resolution[x].at = "issued"

\* A context is never stitched together from different moments: although each
\* of its facts was read by another call, there was an instant at which the
\* relationship was ACTIVE, the membership in force and the roles those stated.
IssuedFromOneMoment == \A x \in Resolutions : Issued(x) => resolution[x].whole

\* Whoever still finds the revisions a context names finds the authority it
\* stated: no change of status, interval, holder or roles leaves them standing.
RevisionsVouch ==
  \A x \in Resolutions : Issued(x) =>
    LET res == resolution[x] IN
    /\ organisation.revision = res.relation => Related
    /\ member[res.m].revision = res.revision =>
         Usable(res.m) /\ member[res.m].customer = res.who /\ member[res.m].roles = res.roles

\* No context outlives any evidence it rests on, also when that evidence
\* expired while the later calls were awaited.
NeverOutlivesItsEvidence ==
  [][\A x \in Resolutions : ~Issued(x) /\ Issued(x)' =>
       LET res == resolution[x] IN
       /\ now < res.attested /\ resolution'[x].expires <= res.attested
       /\ now < res.until /\ resolution'[x].expires <= res.until
    ]_<<vars, contextVars>>
================================================================================
