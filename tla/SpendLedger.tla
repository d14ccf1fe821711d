---------------------------- MODULE SpendLedger ----------------------------
(***************************************************************************)
(* The B2B spend ledger: budget policies, spend reservations, the holds a  *)
(* reservation keeps against each budget period, and the balance of every  *)
(* budget period (spend-reservation-commands.ts and the PL/pgSQL guards of *)
(* Migration20261022150000 and Migration20261022180000).                   *)
(*                                                                         *)
(* One action per command.  A command is one PostgreSQL transaction that   *)
(* locks its reservation FOR UPDATE, its policies FOR SHARE and the        *)
(* balances it moves, and holds those locks until COMMIT, so a command     *)
(* that is applied is one atomic step.  What is NOT atomic is its clock:   *)
(* now() is fixed when the transaction starts and the transaction may then *)
(* wait for its locks, so every command runs with a clock t that may lag   *)
(* behind the database clock by up to MaxDelay.  A refused command rolls   *)
(* back and records nothing: it is a stuttering step.                      *)
(*                                                                         *)
(* One organisation, tenant, Market and currency: rows of another one      *)
(* never meet (the WHERE clauses of every statement select on all four).   *)
(*                                                                         *)
(* An operator Mutant... is a wrong form of the definition after it, of    *)
(* the kind a code change could bring; no action uses it.  Each property   *)
(* below fails when one of them takes the definition's place.              *)
(***************************************************************************)
EXTENDS Integers, FiniteSets

CONSTANTS
    Policies,       \* ids of budget policies
    Reservations,   \* ids of reservations; each is derived from the key of its SUBMIT or RESUBMIT
    Members,        \* memberships
    Purchases,      \* stable purchase references
    Agreements,     \* agreement references
    NoAgreement,    \* the null agreement reference
    NoReservation,  \* the null supersedes_reservation_id
    Scope,          \* Scope[p] of each policy: immutable
    Binding,        \* Binding[p]: the membership or agreement of the policy, immutable
    Amounts,        \* amounts a purchase may have, in minor units
    Limits,         \* limits a policy may be given
    Windows,        \* effective intervals a policy may be given
    Zones,          \* time zones
    MonthStart,     \* MonthStart[z, t]: date_trunc('month', t) in zone z
    MaxClock,       \* bound: the clock stops here
    MaxDelay,       \* bound on how far the clock of a transaction lags (lock and statement timeouts)
    MaxHold,        \* MAX_RESERVATION_HOLD_MS
    HoldLengths,    \* lengths of the holds that submissions ask for
    MaxRevision,    \* bound on policy revisions
    MaxHoldRevision,\* bound on rollovers of one reservation
    MaxVersion      \* bound on the versions of a purchase

Instants == 0..MaxClock
Never == MaxClock + 1      \* an effective_until of null, or beyond the bound

ASSUME ClockAssumption ==
    /\ MaxClock \in Nat \ {0} /\ MaxDelay \in Nat /\ MaxHold \in Nat
    /\ MaxRevision \in Nat /\ MaxHoldRevision \in Nat /\ MaxVersion \in Nat
    /\ MonthStart \in [Zones \X Instants -> Instants]
ASSUME HoldAssumption == HoldLengths \subseteq Int
ASSUME MoneyAssumption == Amounts \subseteq Nat \ {0} /\ Limits \subseteq Nat \ {0}
ASSUME ScopeAssumption ==
    /\ Scope \in [Policies -> {"MEMBERSHIP", "AGREEMENT", "ORGANISATION"}]
    /\ Members # {} /\ Purchases # {} /\ Zones # {}
    /\ NoAgreement \notin Agreements /\ NoReservation \notin Reservations
    /\ \A w \in Windows : /\ w.from \in Instants /\ w.until \in 1..Never
                          /\ w.from < w.until

VARIABLES
    now,          \* the database clock
    policy,       \* b2b_spend_budget_policy
    reservation,  \* b2b_spend_reservation
    hold,         \* b2b_spend_reservation_hold, by reservation, policy and period start
    balance,      \* b2b_spend_budget_balance, by policy and period start
    members       \* the memberships that are ACTIVE and in effect

vars == <<now, policy, reservation, hold, balance, members>>

Statuses == {"ACTIVE", "COMMITTED", "RELEASED", "EXPIRED"}
Terminal == Statuses \ {"ACTIVE"}

Policy == [status : {"NONE", "ACTIVE", "SUSPENDED", "RETIRED"}, revision : Nat,
           limit : Nat, from : Instants, until : 0..Never, zone : Zones]
Reservation == [status : Statuses \cup {"NONE"}, member : Members, purchase : Purchases,
                agreement : Agreements \cup {NoAgreement}, version : Nat, amount : Nat,
                expires : Nat, holdRevision : Nat, since : Nat,
                supersedes : Reservations \cup {NoReservation}]
\* A row that was never inserted reads as a row of zeros (the trigger inserts
\* that row before it uses it), with a revision no policy has.
Hold == [revision : Nat, reserved : Int, committed : Int]
Balance == [reserved : Int, committed : Int]
NoHold == [revision |-> 0, reserved |-> 0, committed |-> 0]
NoPolicy == [status |-> "NONE", revision |-> 0, limit |-> 0, from |-> 0, until |-> 0,
             zone |-> CHOOSE z \in Zones : TRUE]
NoRow == [status |-> "NONE", member |-> CHOOSE m \in Members : TRUE,
          purchase |-> CHOOSE u \in Purchases : TRUE, agreement |-> NoAgreement,
          version |-> 0, amount |-> 0, expires |-> 0, holdRevision |-> 0, since |-> 0,
          supersedes |-> NoReservation]
NoBalance == [reserved |-> 0, committed |-> 0]

TypeOK ==
    /\ now \in Instants
    /\ policy \in [Policies -> Policy]
    /\ reservation \in [Reservations -> Reservation]
    /\ hold \in [Reservations -> [Policies -> [Instants -> Hold]]]
    /\ balance \in [Policies -> [Instants -> Balance]]
    /\ members \subseteq Members

----------------------------------------------------------------------------
(***************************************************************************)
(* Budget policies.                                                        *)
(***************************************************************************)

\* The WHERE clause of applicablePolicies: the budget binds this purchase.
Covers(p, row) ==
    \/ Scope[p] = "MEMBERSHIP" /\ Binding[p] = row.member
    \/ Scope[p] = "AGREEMENT" /\ Binding[p] = row.agreement
    \/ Scope[p] = "ORGANISATION"

InEffect(p, t) == /\ policy[p].status = "ACTIVE"
                  /\ policy[p].from <= t /\ t < policy[p].until

\* period_starts_at: the calendar month in the zone of the policy, or the
\* start of the agreement term.
PeriodStart(p, t) == IF Scope[p] = "AGREEMENT" THEN policy[p].from
                     ELSE MonthStart[policy[p].zone, t]

Applicable(row, t) == {p \in Policies : Covers(p, row) /\ InEffect(p, t)}
OfScope(P, scope) == {p \in P : Scope[p] = scope}

\* applicablePolicies refuses unless exactly one MEMBERSHIP budget and at most
\* one of each other scope applies.
Configured(P) ==
    /\ \E p \in P : OfScope(P, "MEMBERSHIP") = {p}
    /\ \A scope \in {"AGREEMENT", "ORGANISATION"} :
          \A p, q \in OfScope(P, scope) : p = q

\* IDX_b2b_spend_budget_policy_active: one ACTIVE policy per scope binding.
ActiveElsewhere(p) ==
    \E o \in Policies \ {p} : /\ policy[o].status = "ACTIVE"
                              /\ Scope[o] = Scope[p] /\ Binding[o] = Binding[p]

CreatePolicy(p, limit, window, zone) ==
    /\ policy[p].status = "NONE" /\ ~ActiveElsewhere(p)
    /\ policy' = [policy EXCEPT ![p] =
            [status |-> "ACTIVE", revision |-> 1, limit |-> limit,
             from |-> window.from, until |-> window.until, zone |-> zone]]
    /\ UNCHANGED <<now, reservation, hold, balance, members>>

\* b2b_spend_budget_policy_guard: RETIRED is terminal, and every change of
\* status, time zone, limit or interval advances the revision.
NextRevision(p) == policy[p].revision + 1
RevisePolicy(p, status, limit, window, zone) ==
    /\ policy[p].status \in {"ACTIVE", "SUSPENDED"}
    /\ status = "ACTIVE" => ~ActiveElsewhere(p)
    /\ policy[p].revision < MaxRevision
    /\ LET new == [status |-> status, revision |-> NextRevision(p),
                   limit |-> limit, from |-> window.from, until |-> window.until,
                   zone |-> zone]
       IN /\ [new EXCEPT !.revision = policy[p].revision] # policy[p]
          /\ policy' = [policy EXCEPT ![p] = new]
    /\ UNCHANGED <<now, reservation, hold, balance, members>>

----------------------------------------------------------------------------
(***************************************************************************)
(* The ledger.  A command releases whole holds of one reservation and then *)
(* reserves amounts for one reservation, budget by budget; the trigger     *)
(* moves the hold and the balance of the period together.                  *)
(***************************************************************************)

\* A hold that still authorises commitment: this revision, this period.
IsCurrent(r, p, q, t) == /\ q = PeriodStart(p, t)
                         /\ hold[r][p][q].revision = policy[p].revision
CurrentlyReserved(r, p, t) ==
    IF hold[r][p][PeriodStart(p, t)].revision = policy[p].revision
    THEN hold[r][p][PeriodStart(p, t)].reserved ELSE 0

\* What the RELEASE entries of the holds in R of reservation r return.
Returned(r, R, p, q) == IF <<p, q>> \in R THEN hold[r][p][q].reserved ELSE 0

\* What the RESERVE entries at time t take, given the amount per budget.
Taken(need, p, q, t) == IF q = PeriodStart(p, t) THEN need[p] ELSE 0

MutantRoom(p, q) == policy[p].limit - balance[p][q].reserved

\* The capacity left in a budget period: limit - committed - reserved.
Room(p, q) == policy[p].limit - balance[p][q].committed - balance[p][q].reserved

\* The RESERVE branch of the trigger, after the releases of the same command.
CanReserve(old, R, r, need, t) ==
    \A p \in {x \in Policies : need[x] > 0} :
        LET q == PeriodStart(p, t)
            back == Returned(old, R, p, q)
            mine == IF r = old THEN back ELSE 0
        IN /\ InEffect(p, t)
           /\ \/ hold[r][p][q].revision = policy[p].revision
              \/ hold[r][p][q].reserved - mine = 0 /\ hold[r][p][q].committed = 0
           /\ need[p] <= Room(p, q) + back

\* The CHECK on the balance row: a release never takes it below zero.
CanRelease(old, R) ==
    \A p \in Policies, q \in Instants :
        Returned(old, R, p, q) <= balance[p][q].reserved

MutantPostBalance(old, R, need, t) ==   \* a release forgets the balance
    balance' = [p \in Policies |-> [q \in Instants |->
        [reserved |-> balance[p][q].reserved + Taken(need, p, q, t),
         committed |-> balance[p][q].committed]]]

PostBalance(old, R, need, t) ==
    balance' = [p \in Policies |-> [q \in Instants |->
        [reserved |-> balance[p][q].reserved - Returned(old, R, p, q) + Taken(need, p, q, t),
         committed |-> balance[p][q].committed]]]

MutantHoldUnstamped(s, old, R, r, need, t, p, q) ==   \* a reserve keeps the old revision
    LET h == hold[s][p][q]
        out == IF s = old THEN Returned(old, R, p, q) ELSE 0
        in == IF s = r THEN Taken(need, p, q, t) ELSE 0
    IN [revision |-> h.revision, reserved |-> h.reserved - out + in,
        committed |-> h.committed]

HoldAfter(s, old, R, r, need, t, p, q) ==
    LET h == hold[s][p][q]
        out == IF s = old THEN Returned(old, R, p, q) ELSE 0
        in == IF s = r THEN Taken(need, p, q, t) ELSE 0
    IN [revision |-> IF in > 0 THEN policy[p].revision ELSE h.revision,
        reserved |-> h.reserved - out + in,
        committed |-> h.committed]

\* inPolicyOrder: the releases of R from old, then the reservations for r.
PostEntries(old, R, r, need, t) ==
    /\ CanRelease(old, R) /\ CanReserve(old, R, r, need, t)
    /\ PostBalance(old, R, need, t)
    /\ hold' = [s \in Reservations |-> [p \in Policies |-> [q \in Instants |->
                    HoldAfter(s, old, R, r, need, t, p, q)]]]

MutantAllHolds(r) == {}

AllHolds(r) == {pq \in Policies \X Instants : hold[r][pq[1]][pq[2]].reserved # 0}
Nothing == [p \in Policies |-> 0]

----------------------------------------------------------------------------
(***************************************************************************)
(* The commands.  t is the clock of the transaction.                       *)
(***************************************************************************)

Recent == {t \in Instants : now - MaxDelay <= t /\ t <= now}

\* A command names a reservation it learnt of from the result of an earlier one
\* (since: when the reservation became visible), so it starts after that, and
\* locks the row while it is ACTIVE.
LockActive(r, t) == reservation[r].status = "ACTIVE" /\ reservation[r].since <= t

\* insertReservation: the member is usable, the id is new, the hold is at most
\* MaxHold long, and the purchase has no other ACTIVE reservation
\* (IDX_b2b_spend_reservation_active_purchase, in which old is closed already).
CanInsert(r, row, old, t) ==
    /\ reservation[r].status = "NONE"
    /\ row.member \in members
    /\ t < row.expires /\ row.expires <= t + MaxHold
    /\ \A s \in Reservations \ {old} :
          ~(reservation[s].status = "ACTIVE" /\ reservation[s].purchase = row.purchase)

NewRow(m, u, a, v, amount, expires, old) ==
    [status |-> "ACTIVE", member |-> m, purchase |-> u, agreement |-> a,
     version |-> v, amount |-> amount, expires |-> expires,
     holdRevision |-> 1, since |-> now, supersedes |-> old]

\* The full amount against every budget that applies now.
FullAmount(P, amount) == [p \in Policies |-> IF p \in P THEN amount ELSE 0]

Submit(r, m, u, a, v, amount, expires, t) ==
    LET row == NewRow(m, u, a, v, amount, expires, NoReservation)
        P == Applicable(row, t)
    IN /\ CanInsert(r, row, NoReservation, t)
       /\ Configured(P)
       /\ PostEntries(r, {}, r, FullAmount(P, amount), t)
       /\ reservation' = [reservation EXCEPT ![r] = row]
       /\ UNCHANGED <<now, policy, members>>

MutantSupersedable(old, v, t) ==   \* a version that was superseded may be again
    /\ reservation[old].status \in {"ACTIVE", "RELEASED"}
    /\ reservation[old].since <= t /\ v > reservation[old].version
\* Only the standing version is superseded, and by a later one.
Supersedable(old, v, t) == LockActive(old, t) /\ v > reservation[old].version

\* A later version of the same purchase, membership and agreement.  Only its
\* submitter may supersede it: the submitter is the member here.
Resubmit(r, old, v, amount, expires, t) ==
    LET o == reservation[old]
        row == NewRow(o.member, o.purchase, o.agreement, v, amount, expires, old)
        P == Applicable(row, t)
    IN /\ Supersedable(old, v, t)
       /\ CanInsert(r, row, old, t)
       /\ Configured(P)
       /\ PostEntries(old, AllHolds(old), r, FullAmount(P, amount), t)
       /\ reservation' = [reservation EXCEPT ![old].status = "RELEASED", ![r] = row]
       /\ UNCHANGED <<now, policy, members>>

LockUnexpired(r, t) == LockActive(r, t) /\ t < reservation[r].expires

\* Every budget that applies now holds the full amount in its current period at
\* its current revision, and no other budget or period holds anything.
HeldInFull(r, P, t) == \A p \in P : CurrentlyReserved(r, p, t) = reservation[r].amount
NoStaleHold(r, P, t) == \A pq \in AllHolds(r) : pq[1] \in P /\ IsCurrent(r, pq[1], pq[2], t)

FullyHeld(r, t) ==
    LET P == Applicable(reservation[r], t)
    IN Configured(P) /\ HeldInFull(r, P, t) /\ NoStaleHold(r, P, t)

\* commitCapacity: the command names the hold revision its approval is bound to.
Commit(r, holdRevision, t) ==
    LET P == Applicable(reservation[r], t)
        Spent(p, q) == IF p \in P /\ q = PeriodStart(p, t) THEN reservation[r].amount ELSE 0
    IN /\ LockUnexpired(r, t)
       /\ reservation[r].holdRevision = holdRevision
       /\ FullyHeld(r, t)
       /\ \A p \in P : reservation[r].amount <= balance[p][PeriodStart(p, t)].reserved
       /\ balance' = [p \in Policies |-> [q \in Instants |->
              [reserved |-> balance[p][q].reserved - Spent(p, q),
               committed |-> balance[p][q].committed + Spent(p, q)]]]
       /\ hold' = [hold EXCEPT ![r] = [p \in Policies |-> [q \in Instants |->
              [revision |-> hold[r][p][q].revision,
               reserved |-> hold[r][p][q].reserved - Spent(p, q),
               committed |-> hold[r][p][q].committed + Spent(p, q)]]]]
       /\ reservation' = [reservation EXCEPT ![r].status = "COMMITTED"]
       /\ UNCHANGED <<now, policy, members>>

\* Release and expiry return every hold and close the reservation.
Close(r, status, t) ==
    /\ PostEntries(r, AllHolds(r), r, Nothing, t)
    /\ reservation' = [reservation EXCEPT ![r].status = status]
    /\ UNCHANGED <<now, policy, members>>

Release(r, t) == LockActive(r, t) /\ Close(r, "RELEASED", t)

Expire(r, t) == /\ LockActive(r, t)
                /\ t >= reservation[r].expires
                /\ Close(r, "EXPIRED", t)

\* Holds of a past period, a superseded revision or a budget that no longer applies.
StaleHolds(r, P, t) ==
    {pq \in AllHolds(r) : ~(pq[1] \in P /\ IsCurrent(r, pq[1], pq[2], t))}
Moved(row) == [row EXCEPT !.holdRevision = @ + 1]

\* What each budget that applies now is missing.
Shortfall(r, P, t) ==
    [p \in Policies |->
        IF p \in P /\ reservation[r].amount > CurrentlyReserved(r, p, t)
        THEN reservation[r].amount - CurrentlyReserved(r, p, t) ELSE 0]

\* Release every stale hold and reacquire the full amount, or nothing at all.  A
\* rollover that moves nothing changes nothing.
Rollover(r, t) ==
    LET P == Applicable(reservation[r], t)
        R == StaleHolds(r, P, t)
        need == Shortfall(r, P, t)
    IN /\ LockUnexpired(r, t)
       /\ Configured(P)
       /\ R # {} \/ \E p \in P : need[p] > 0
       /\ reservation[r].holdRevision < MaxHoldRevision
       /\ PostEntries(r, R, r, need, t)
       /\ reservation' = [reservation EXCEPT ![r] = Moved(@)]
       /\ UNCHANGED <<now, policy, members>>

----------------------------------------------------------------------------
\* The world around the ledger: time passes, memberships are suspended and
\* reinstated, and policies are administered.
Tick == /\ now < MaxClock
        /\ now' = now + 1
        /\ UNCHANGED <<policy, reservation, hold, balance, members>>

ChangeMember(m) == /\ members' = IF m \in members THEN members \ {m} ELSE members \cup {m}
                   /\ UNCHANGED <<now, policy, reservation, hold, balance>>

Init ==
    /\ now = 1
    /\ policy = [p \in Policies |-> NoPolicy]
    /\ reservation = [r \in Reservations |-> NoRow]
    /\ hold = [r \in Reservations |-> [p \in Policies |-> [q \in Instants |-> NoHold]]]
    /\ balance = [p \in Policies |-> [q \in Instants |-> NoBalance]]
    /\ members = Members

SubmitSome == \E r \in Reservations, m \in Members, u \in Purchases,
                 a \in Agreements \cup {NoAgreement}, v \in 1..MaxVersion,
                 amount \in Amounts, length \in HoldLengths, t \in Recent :
                    Submit(r, m, u, a, v, amount, t + length, t)
ResubmitSome == \E r, old \in Reservations, v \in 1..MaxVersion,
                   amount \in Amounts, length \in HoldLengths, t \in Recent :
                    Resubmit(r, old, v, amount, t + length, t)
CommitSome == \E r \in Reservations, n \in 1..MaxHoldRevision, t \in Recent : Commit(r, n, t)
ReleaseSome == \E r \in Reservations, t \in Recent : Release(r, t)
ExpireSome == \E r \in Reservations, t \in Recent : Expire(r, t)
RolloverSome == \E r \in Reservations, t \in Recent : Rollover(r, t)
PolicyChange == \E p \in Policies, limit \in Limits, w \in Windows, z \in Zones :
                   \/ CreatePolicy(p, limit, w, z)
                   \/ \E status \in {"ACTIVE", "SUSPENDED", "RETIRED"} :
                          RevisePolicy(p, status, limit, w, z)

Next == \/ SubmitSome \/ ResubmitSome \/ CommitSome \/ ReleaseSome
        \/ ExpireSome \/ RolloverSome \/ PolicyChange
        \/ Tick \/ \E m \in Members : ChangeMember(m)

Spec == Init /\ [][Next]_vars

----------------------------------------------------------------------------
(***************************************************************************)
(* Properties.                                                             *)
(***************************************************************************)

\* No command leaves a budget period over the limit it was checked against:
\* while any hold on a period was taken or committed at the present revision of
\* the policy, everything committed and reserved in that period fits the present
\* limit (the capacity test of b2b_spend_ledger_entry_apply, kept by commits,
\* rollovers, resubmissions and policy revisions together).
CapacityHonoured ==
    \A r \in Reservations, p \in Policies, q \in Instants :
        /\ hold[r][p][q].revision = policy[p].revision
        /\ hold[r][p][q].reserved > 0 \/ hold[r][p][q].committed > 0
        => balance[p][q].committed + balance[p][q].reserved <= policy[p].limit

\* h holds, in any budget, nothing or the full amount of row in one period.
AllOrNothing(h, row) ==
    \A p \in Policies, q \in Instants :
        /\ h[p][q].reserved # 0 => row.status = "ACTIVE" /\ h[p][q].reserved = row.amount
        /\ h[p][q].committed # 0 => row.status = "COMMITTED" /\ h[p][q].committed = row.amount
        /\ h[p][q].reserved # 0 \/ h[p][q].committed # 0 =>
              \A other \in Instants \ {q} :
                 h[p][other].reserved = 0 /\ h[p][other].committed = 0

\* All or nothing, once per budget: an ACTIVE reservation holds, in any budget,
\* nothing or its full amount in exactly one period and has committed nothing; a
\* COMMITTED one has committed its full amount in at most one period of a
\* budget; a RELEASED or EXPIRED one keeps no capacity (no leak after close,
\* resubmit, rollover in any order).
HoldsMatchStatus == \A r \in Reservations : AllOrNothing(hold[r], reservation[r])

\* The minor units that each reservation has under f, one by one: there are as
\* many of them as the sum of f, whose values are naturals (HoldsMatchStatus).
Units(f) == UNION {{r} \X (1..f[r]) : r \in Reservations}
ReservedOn(p, q) == [r \in Reservations |-> hold[r][p][q].reserved]
CommittedOn(p, q) == [r \in Reservations |-> hold[r][p][q].committed]

\* Conservation: the balance of every budget period is the sum of the holds of the
\* reservations on it, reserved and committed apart, whatever order submissions,
\* rollovers across months and policy revisions, commits and closes ran in.
BalanceIsSumOfHolds ==
    \A p \in Policies, q \in Instants :
        /\ balance[p][q].reserved = Cardinality(Units(ReservedOn(p, q)))
        /\ balance[p][q].committed = Cardinality(Units(CommittedOn(p, q)))

\* Versions of one purchase form a chain: a reservation is superseded at most
\* once, only by a later version of the same purchase of the same member, and a
\* superseded version has returned its holds and can never be committed (resubmit
\* racing commit, release, expiry or another resubmit of the same reservation).
ChainIsLinear ==
    \A r \in Reservations :
        LET old == reservation[r].supersedes IN
        old # NoReservation =>
            /\ reservation[old].status = "RELEASED"
            /\ reservation[old].purchase = reservation[r].purchase
            /\ reservation[old].member = reservation[r].member
            /\ reservation[old].version < reservation[r].version
            /\ \A s \in Reservations \ {r} : reservation[s].supersedes # old

\* A reservation whose hold was just taken or moved (submit, resubmit, rollover)
\* satisfies at that clock everything commit will ask of its holds: a purchase is
\* never left holding capacity that no commit can use.
TakenHoldsAreUsable ==
    [][\A r \in Reservations :
         /\ reservation'[r].status = "ACTIVE"
         /\ reservation'[r].holdRevision # reservation[r].holdRevision
         => \E t \in Recent : FullyHeld(r, t)']_vars

=============================================================================
