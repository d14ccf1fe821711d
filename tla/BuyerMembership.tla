---------------------------- MODULE BuyerMembership ----------------------------
(***************************************************************************)
(* The members of one buyer organisation and the invitations that make     *)
(* them: an administrator invites an e-mail address, resends the link or   *)
(* revokes the invitation, and the customer who owns the address accepts   *)
(* it.  Each request is a sequence of separate database calls without a    *)
(* transaction, undone by compensations, so requests interleave between    *)
(* any two calls, any call may fail and the process may end anywhere.      *)
(*                                                                         *)
(* A membership carries the name of the invite request that inserts it,    *)
(* and a link (the token whose hash the row keeps, with the expiry written *)
(* with it) the name of the request that draws it: both are drawn at       *)
(* random and never again.  A customer stands for the address as well.     *)
(* Triggers of the database count the authority-relevant changes of a row  *)
(* in its revision; BuyerContext builds on them.                           *)
(*                                                                         *)
(* An operator Mutant... is a wrong form of the definition after it, of    *)
(* the kind a code change could bring; no action uses it.  Each property   *)
(* below fails when one of them takes the definition's place.              *)
(***************************************************************************)
EXTENDS Naturals, FiniteSets

CONSTANTS
  Requests,    \* the requests of a history
  Histories,   \* bound: what each request may ask for, and how many calls may
               \* fail and how many changes be made outside the requests
  Customers,   \* the customers, each with an e-mail address of its own
  Roles,       \* the roles of a membership
  InviteRoles, \* those an invitation may offer
  Keys,        \* the idempotency keys the callers send
  None         \* the absent link, customer or instant

ASSUME MembershipAssumption ==
  /\ None \notin Requests \cup Customers
  /\ InviteRoles \subseteq Roles
  /\ \A h \in Histories :
       /\ h.ask \in [Requests -> SUBSET {"invite", "resend", "accept", "revoke"}]
       /\ h.faults \in Nat /\ h.edits \in Nat

VARIABLES
  organisation,  \* its status and relationship revision
  member,        \* the membership rows, with the roles assigned to each
  delivery,      \* the rows that record each attempt to deliver a link
  mailed,        \* the links the provider has sent
  lapsed,        \* the links past their 48 hours
  request,       \* the requests and the local state of each
  faults,        \* failures that may still happen
  edits          \* outside changes that may still happen

vars == <<organisation, member, delivery, mailed, lapsed, request, faults, edits>>

Status == {"none", "INVITED", "ACTIVE", "SUSPENDED", "REVOKED"}
Links == Requests \cup {None}

NoMember ==
  [status |-> "none", email |-> None, customer |-> None, link |-> None,
   from |-> None, until |-> None, roles |-> {}, revision |-> 0]

NoRequest ==
  [may |-> {}, kind |-> "none", at |-> "none", m |-> None, who |-> None, key |-> None,
   role |-> None, was |-> None, nr |-> 0]

Begins(h) ==
  /\ organisation = [status |-> "ACTIVE", revision |-> 1]
  /\ member = [m \in Requests |-> NoMember]
  /\ delivery = {}
  /\ mailed = {}
  /\ lapsed = {}
  /\ request = [r \in Requests |-> [NoRequest EXCEPT !.may = h.ask[r]]]
  /\ faults = h.faults
  /\ edits = h.edits

Init == \E h \in Histories : Begins(h)

--------------------------------------------------------------------------------
(* The rows and the triggers on them.                                      *)

Exists(m) == member[m].status # "none"

\* What the revision trigger of the membership row compares.
Authority(row) == <<row.status, row.customer, row.from, row.until>>

\* An update of the row as the trigger lets it through.
Triggered(old, new) ==
  [new EXCEPT !.revision =
     IF Authority(new) # Authority(old) THEN old.revision + 1 ELSE old.revision]

\* An update by id; a row that is gone makes the call fail.
Update(m, new) == member' = [member EXCEPT ![m] = Triggered(@, new)]

MutantSetRoles(m, roles) ==   \* no trigger on the role rows
  member' = [member EXCEPT ![m].roles = roles]
\* Inserting or deleting a role row counts as a change of its membership.
SetRoles(m, roles) ==
  member' = [member EXCEPT ![m].roles = roles,
                           ![m].revision = IF Exists(m) THEN @ + 1 ELSE @]

InEffect(row) == row.from # None /\ row.until = None

Rows(m) == {d \in delivery : d.m = m}
LastAttempt(m) ==
  IF Rows(m) = {} THEN 0
  ELSE CHOOSE n \in {d.nr : d \in Rows(m)} : \A d \in Rows(m) : d.nr <= n

--------------------------------------------------------------------------------
(* The life of a request.                                                  *)

Is(r, kind, at) == request[r].kind = kind /\ request[r].at = at
Goto(r, at) == request' = [request EXCEPT ![r].at = at]
Over(r) == request[r].at \in {"none", "answered", "replayed", "refused", "failed", "gone"}

\* A call of the request fails; nothing it was to write is written.
Fault == faults > 0 /\ faults' = faults - 1
NoFault == UNCHANGED faults

\* The request arrives with its parameters; one refused for its form, its key,
\* its credentials or because the caller is no administrator changes nothing
\* and does not count as arriving.
Arrive(r) ==
  /\ \E kind \in request[r].may :
       \/ /\ kind = "invite"
          /\ \E c \in Customers, k \in Keys, role \in InviteRoles :
               request' = [request EXCEPT ![r] =
                 [NoRequest EXCEPT !.kind = kind, !.at = "asked", !.m = r,
                                   !.who = c, !.key = k, !.role = role]]
       \/ /\ kind = "resend"
          /\ \E m \in Requests, k \in Keys :
               /\ Exists(m)
               /\ request' = [request EXCEPT ![r] =
                    [NoRequest EXCEPT !.kind = kind, !.at = "asked", !.m = m, !.key = k]]
       \/ /\ kind = "revoke"
          /\ \E m \in Requests :
               /\ Exists(m)
               /\ request' = [request EXCEPT ![r] =
                    [NoRequest EXCEPT !.kind = kind, !.at = "asked", !.m = m]]
       \/ /\ kind = "accept"
          /\ \E l \in mailed, c \in Customers :
               request' = [request EXCEPT ![r] =
                 [NoRequest EXCEPT !.kind = kind, !.at = "asked", !.who = c, !.was = l]]
  /\ UNCHANGED <<organisation, member, delivery, mailed, lapsed, faults, edits>>

\* The process that serves the request ends.
Crash(r) ==
  /\ ~Over(r)
  /\ Fault
  /\ Goto(r, "gone")
  /\ UNCHANGED <<organisation, member, delivery, mailed, lapsed, edits>>

--------------------------------------------------------------------------------
(* POST organisations/[id]/members.                                        *)

InviteOrganisation(r) ==
  /\ Is(r, "invite", "asked")
  /\ Goto(r, IF organisation.status = "ACTIVE" THEN "admitted" ELSE "refused")
  /\ UNCHANGED <<organisation, member, delivery, mailed, lapsed, faults, edits>>

\* The membership an earlier invite left under this key.
Invited(key) == {m \in Requests : Exists(m) /\ request[m].key = key}

InviteReplay(r) ==
  /\ Is(r, "invite", "admitted")
  /\ LET earlier == Invited(request[r].key)
         same(m) == request[m].who = request[r].who /\ request[m].role = request[r].role
     IN Goto(r, IF earlier = {} THEN "fresh"
                ELSE IF \E m \in earlier : same(m) THEN "replayed" ELSE "refused")
  /\ UNCHANGED <<organisation, member, delivery, mailed, lapsed, faults, edits>>

InviteExisting(r) ==
  /\ Is(r, "invite", "fresh")
  /\ Goto(r, IF \E m \in Requests : Exists(m) /\ member[m].email = request[r].who
             THEN "refused" ELSE "clear")
  /\ UNCHANGED <<organisation, member, delivery, mailed, lapsed, faults, edits>>

\* The unique index on the idempotency key refuses a second row.
InviteCreate(r) ==
  /\ Is(r, "invite", "clear")
  /\ \/ /\ Invited(request[r].key) = {}
        /\ member' = [member EXCEPT ![r] =
             [NoMember EXCEPT !.status = "INVITED", !.email = request[r].who,
                              !.link = r, !.revision = 1]]
        /\ Goto(r, "created")
        /\ NoFault
     \/ /\ IF Invited(request[r].key) = {} THEN Fault ELSE NoFault
        /\ Goto(r, "failed")
        /\ UNCHANGED member
  /\ UNCHANGED <<organisation, delivery, mailed, lapsed, edits>>

InviteRole(r) ==
  /\ Is(r, "invite", "created")
  /\ \/ /\ SetRoles(r, {request[r].role}) /\ Goto(r, "assigned") /\ NoFault
     \/ /\ Fault /\ Goto(r, "dropMember") /\ UNCHANGED member
  /\ UNCHANGED <<organisation, delivery, mailed, lapsed, edits>>

\* The row of the first attempt, PENDING; one row per membership and number.
InviteRecord(r) ==
  /\ Is(r, "invite", "assigned")
  /\ LET taken == \E d \in Rows(r) : d.nr = 1 IN
     \/ /\ ~taken
        /\ delivery' = delivery \cup {[m |-> r, nr |-> 1, by |-> r, status |-> "PENDING"]}
        /\ Goto(r, "recorded")
        /\ NoFault
     \/ /\ IF taken THEN NoFault ELSE Fault
        /\ Goto(r, "dropRole")
        /\ UNCHANGED delivery
  /\ UNCHANGED <<organisation, member, mailed, lapsed, edits>>

\* The compensations; one that fails leaves the rest undone.
DropRole(r) ==
  /\ Is(r, "invite", "dropRole")
  /\ \/ SetRoles(r, {}) /\ Goto(r, "dropMember") /\ NoFault
     \/ Fault /\ Goto(r, "failed") /\ UNCHANGED member
  /\ UNCHANGED <<organisation, delivery, mailed, lapsed, edits>>

DropMember(r) ==
  /\ Is(r, "invite", "dropMember")
  /\ \/ member' = [member EXCEPT ![r] = NoMember] /\ NoFault
     \/ Fault /\ UNCHANGED member
  /\ Goto(r, "failed")
  /\ UNCHANGED <<organisation, delivery, mailed, lapsed, edits>>

--------------------------------------------------------------------------------
(* POST .../members/[membershipId]/resend.                                 *)

ResendFind(r) ==
  /\ Is(r, "resend", "asked")
  /\ request' = IF member[request[r].m].status = "INVITED"
                THEN [request EXCEPT ![r].at = "found", ![r].was = member[request[r].m].link]
                ELSE [request EXCEPT ![r].at = "refused"]
  /\ UNCHANGED <<organisation, member, delivery, mailed, lapsed, faults, edits>>

MutantResent(key) == {}   \* resends keep no key
\* The rows a resend recorded under this key.
Resent(key) == {d \in delivery : request[d.by].kind = "resend" /\ request[d.by].key = key}

ResendReplay(r) ==
  /\ Is(r, "resend", "found")
  /\ Goto(r, IF Resent(request[r].key) = {} THEN "fresh"
             ELSE IF \E d \in Resent(request[r].key) : d.m = request[r].m
                  THEN "replayed" ELSE "refused")
  /\ UNCHANGED <<organisation, member, delivery, mailed, lapsed, faults, edits>>

ResendNumber(r) ==
  /\ Is(r, "resend", "fresh")
  /\ request' = [request EXCEPT ![r].at = "numbered", ![r].nr = LastAttempt(request[r].m) + 1]
  /\ UNCHANGED <<organisation, member, delivery, mailed, lapsed, faults, edits>>

\* The new link replaces the old one before the attempt is recorded.
ResendRotate(r) ==
  /\ Is(r, "resend", "numbered")
  /\ LET m == request[r].m IN
     \/ /\ Exists(m)
        /\ Update(m, [member[m] EXCEPT !.link = r])
        /\ Goto(r, "rotated")
        /\ NoFault
     \/ /\ IF Exists(m) THEN Fault ELSE NoFault
        /\ Goto(r, "failed")
        /\ UNCHANGED member
  /\ UNCHANGED <<organisation, delivery, mailed, lapsed, edits>>

\* Outside the try block: a failure here undoes nothing.
ResendRecord(r) ==
  /\ Is(r, "resend", "rotated")
  /\ LET taken == \/ \E d \in Rows(request[r].m) : d.nr = request[r].nr
                  \/ Resent(request[r].key) # {}
     IN \/ /\ ~taken
           /\ delivery' = delivery \cup
                {[m |-> request[r].m, nr |-> request[r].nr, by |-> r, status |-> "PENDING"]}
           /\ Goto(r, "recorded")
           /\ NoFault
        \/ /\ IF taken THEN NoFault ELSE Fault
           /\ Goto(r, "failed")
           /\ UNCHANGED delivery
  /\ UNCHANGED <<organisation, member, mailed, lapsed, edits>>

\* The provider is asked to send the link; an error may follow a sent mail.
Notify(r) ==
  /\ request[r].at = "recorded"
  /\ \/ mailed' = mailed \cup {r} /\ Goto(r, "sent") /\ NoFault
     \/ /\ Fault
        /\ mailed' \in {mailed, mailed \cup {r}}
        /\ Goto(r, IF request[r].kind = "resend" THEN "restoring" ELSE "marking")
  /\ UNCHANGED <<organisation, member, delivery, lapsed, edits>>

Mark(r, status) ==
  delivery' = {IF d.by = r THEN [d EXCEPT !.status = status] ELSE d : d \in delivery}

MarkQueued(r) ==
  /\ request[r].at = "sent"
  /\ \/ Mark(r, "QUEUED") /\ Goto(r, "answered") /\ NoFault
     \/ /\ Fault
        /\ Goto(r, IF request[r].kind = "resend" THEN "restoring" ELSE "marking")
        /\ UNCHANGED delivery
  /\ UNCHANGED <<organisation, member, mailed, lapsed, edits>>

MutantResendRestore(r) ==   \* the whole invitation is put back, as it was read
  /\ Is(r, "resend", "restoring")
  /\ LET m == request[r].m IN
     \/ /\ Exists(m)
        /\ Update(m, [member[m] EXCEPT !.link = request[r].was, !.status = "INVITED"])
        /\ NoFault
     \/ (IF Exists(m) THEN Fault ELSE NoFault) /\ UNCHANGED member
  /\ Goto(r, "marking")
  /\ UNCHANGED <<organisation, delivery, mailed, lapsed, edits>>
\* The link the request read at its start is put back; errors are swallowed.
ResendRestore(r) ==
  /\ Is(r, "resend", "restoring")
  /\ LET m == request[r].m IN
     \/ /\ Exists(m)
        /\ Update(m, [member[m] EXCEPT !.link = request[r].was])
        /\ NoFault
     \/ (IF Exists(m) THEN Fault ELSE NoFault) /\ UNCHANGED member
  /\ Goto(r, "marking")
  /\ UNCHANGED <<organisation, delivery, mailed, lapsed, edits>>

MarkFailed(r) ==
  /\ request[r].at = "marking"
  /\ \/ Mark(r, "FAILED") /\ NoFault
     \/ Fault /\ UNCHANGED delivery
  /\ Goto(r, "failed")
  /\ UNCHANGED <<organisation, member, mailed, lapsed, edits>>

--------------------------------------------------------------------------------
(* POST invitations/accept.                                                *)

AcceptFind(r) ==
  /\ Is(r, "accept", "asked")
  /\ LET found == {m \in Requests :
           member[m].status = "INVITED" /\ member[m].link = request[r].was}
     IN request' =
          IF \E m \in found : member[m].email = request[r].who /\ request[r].was \notin lapsed
          THEN [request EXCEPT ![r].at = "found", ![r].m = CHOOSE m \in found : TRUE]
          ELSE [request EXCEPT ![r].at = "refused"]
  /\ UNCHANGED <<organisation, member, delivery, mailed, lapsed, faults, edits>>

\* Another membership of this customer stands in the way.
AcceptOnce(r) ==
  /\ Is(r, "accept", "found")
  /\ Goto(r, IF \E m \in Requests \ {request[r].m} :
                  /\ member[m].customer = request[r].who
                  /\ member[m].status \in {"ACTIVE", "INVITED"}
             THEN "refused" ELSE "sole")
  /\ UNCHANGED <<organisation, member, delivery, mailed, lapsed, faults, edits>>

AcceptOrganisation(r) ==
  /\ Is(r, "accept", "sole")
  /\ Goto(r, IF organisation.status = "ACTIVE" THEN "open" ELSE "refused")
  /\ UNCHANGED <<organisation, member, delivery, mailed, lapsed, faults, edits>>

MutantSeated(c, m) == FALSE   \* no unique index
\* The unique index on organisation and customer.
Seated(c, m) == \E n \in Requests \ {m} : member[n].customer = c

\* The update goes by the id alone; effective_until is not among its columns.
AcceptWrite(r) ==
  /\ Is(r, "accept", "open")
  /\ LET m == request[r].m
         can == Exists(m) /\ ~Seated(request[r].who, m)
     IN \/ /\ can
           /\ Update(m, [member[m] EXCEPT !.customer = request[r].who, !.status = "ACTIVE",
                                          !.link = None, !.from = r])
           /\ Goto(r, "answered")
           /\ NoFault
        \/ /\ IF can THEN Fault ELSE NoFault
           /\ Goto(r, "failed")
           /\ UNCHANGED member
  /\ UNCHANGED <<organisation, delivery, mailed, lapsed, edits>>

--------------------------------------------------------------------------------
(* POST .../members/[membershipId]/revoke.                                 *)

RevokeFind(r) ==
  /\ Is(r, "revoke", "asked")
  /\ Goto(r, IF member[request[r].m].status = "INVITED" THEN "found" ELSE "refused")
  /\ UNCHANGED <<organisation, member, delivery, mailed, lapsed, faults, edits>>

RevokeWrite(r) ==
  /\ Is(r, "revoke", "found")
  /\ LET m == request[r].m IN
     \/ /\ Exists(m)
        /\ Update(m, [member[m] EXCEPT !.status = "REVOKED", !.link = None, !.until = r])
        /\ Goto(r, "answered")
        /\ NoFault
     \/ /\ IF Exists(m) THEN Fault ELSE NoFault
        /\ Goto(r, "failed")
        /\ UNCHANGED member
  /\ UNCHANGED <<organisation, delivery, mailed, lapsed, edits>>

--------------------------------------------------------------------------------
(* What happens outside these requests.                                    *)

\* The 48 hours of a link pass.
Lapse(l) ==
  /\ l \in mailed \ lapsed
  /\ edits > 0 /\ edits' = edits - 1
  /\ lapsed' = lapsed \cup {l}
  /\ UNCHANGED <<organisation, member, delivery, mailed, request, faults>>

\* The organisation's status is changed (BuyerActivation models the route);
\* the trigger of its row counts the change.
OrganisationStatus ==
  /\ edits > 0 /\ edits' = edits - 1
  /\ organisation' =
       [status |-> IF organisation.status = "ACTIVE" THEN "SUSPENDED" ELSE "ACTIVE",
        revision |-> organisation.revision + 1]
  /\ UNCHANGED <<member, delivery, mailed, lapsed, request, faults>>

Step(r) ==
  \/ Arrive(r) \/ Crash(r)
  \/ InviteOrganisation(r) \/ InviteReplay(r) \/ InviteExisting(r) \/ InviteCreate(r)
  \/ InviteRole(r) \/ InviteRecord(r) \/ DropRole(r) \/ DropMember(r)
  \/ ResendFind(r) \/ ResendReplay(r) \/ ResendNumber(r) \/ ResendRotate(r)
  \/ ResendRecord(r) \/ ResendRestore(r)
  \/ Notify(r) \/ MarkQueued(r) \/ MarkFailed(r)
  \/ AcceptFind(r) \/ AcceptOnce(r) \/ AcceptOrganisation(r) \/ AcceptWrite(r)
  \/ RevokeFind(r) \/ RevokeWrite(r)

MembershipNext ==
  \/ \E r \in Requests : Step(r)
  \/ \E l \in Requests : Lapse(l)
  \/ OrganisationStatus

Spec == Init /\ [][MembershipNext]_vars

--------------------------------------------------------------------------------
(* Properties.                                                             *)

\* A customer never holds two memberships of the organisation, however many
\* invitations to the same address were issued by overlapping requests and
\* accepted at once: the duplicate check of accept reads too early to see it.
OneSeatEach ==
  \A m, n \in Requests :
    member[m].customer # None /\ member[m].customer = member[n].customer => m = n

\* A revocation holds against everything but an acceptance that had found the
\* invitation before it.  No acceptance finds a revoked invitation, whatever link a
\* resend still under way writes or puts back.  Its effective interval stays closed,
\* so no buyer context is resolved from it.  Its status leaves REVOKED only with the
\* row itself, or when an acceptance past its reads writes ACTIVE by the id alone
\* (accept/route.ts:85); that admits the customer to the member routes, which test
\* the status and not the interval (members/route.ts:31-38, 53).
OnlyAnOvertakenAcceptReinstates ==
  [][\A m \in Requests : member[m].until # None =>
       /\ ~InEffect(member'[m])
       /\ \A r \in Requests :
            Is(r, "accept", "asked") /\ Is(r, "accept", "found")' => request'[r].m # m
       /\ member[m].status = "REVOKED" /\ member'[m].status \notin {"REVOKED", "none"} =>
            \E r \in Requests : /\ Is(r, "accept", "open") /\ Is(r, "accept", "answered")'
                                /\ request[r].m = m
    ]_vars

\* A caller that repeats a request under its key, at once or after an answer
\* that never reached it, does not send a second link.
OneMailPerKey ==
  \A r, s \in mailed :
    request[r].kind = request[s].kind /\ request[r].key = request[s].key => r = s
================================================================================
