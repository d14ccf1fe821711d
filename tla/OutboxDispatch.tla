--------------------------- MODULE OutboxDispatch ---------------------------
(***************************************************************************)
(* The transactional outbox and its dispatchers: TransactionalOutbox,      *)
(* AtLeastOnceOutboxDispatcher (outbox.ts:88-150) over                     *)
(* EventOutboxRecordAdapter (outbox-record-adapter.ts).                    *)
(*                                                                         *)
(* Several processes call dispatchDue at once.  A call reads the clock     *)
(* once, lists due rows, then claims, publishes and marks them one after   *)
(* the other.  Times are kept relative to the present, so that the clock   *)
(* never runs out: wait and lease are how far next_attempt_at and          *)
(* lease_expires_at lie in the future (never below -MaxAge), and the age   *)
(* of a call is how far its `now` lies in the past.                        *)
(*                                                                         *)
(* An operator Mutant... is a wrong form of the definition after it, of    *)
(* the kind a code change could bring; no action uses it.  Each property   *)
(* below fails when one of them takes the definition's place.              *)
(***************************************************************************)
EXTENDS Integers, FiniteSets

CONSTANTS
    Events,        \* durable events, one per idempotency key
    Dispatchers,   \* processes that call dispatchDue
    Limit,         \* batch size of a call
    MaxAttempts, InitialDelay, MaxDelay, Lease,   \* RetryPolicy
    MaxAge,        \* bound: the longest a call of dispatchDue runs
    MaxFaults      \* bound: calls that die or lose the database half way

ASSUME OutboxAssumption ==
    /\ Limit \in Nat \ {0} /\ MaxAttempts \in Nat \ {0} /\ InitialDelay \in Nat
    /\ MaxDelay \in Nat /\ Lease \in Nat \ {0} /\ MaxAge \in Nat \ {0}
    /\ MaxFaults \in Nat /\ IsFiniteSet(Events) /\ Events # {}

VARIABLES
    row,       \* event_outbox
    call,      \* the dispatchDue call of each dispatcher
    claims,    \* history: claims of each event, counted up to MaxAttempts
    accepted,  \* history: the events the broker accepted
    late,      \* history: the dispatchers a call of which has outlived the lease it takes
    faults

outboxVars == <<row, call, claims, accepted, late, faults>>

Lower(a, b) == IF a < b THEN a ELSE b
NoLease == -MaxAge - 1
Statuses == {"ABSENT", "PENDING", "PUBLISHING", "PUBLISHED", "RETRY", "DEAD_LETTER"}
Settled == {"PUBLISHED", "DEAD_LETTER"}

Row == [status : Statuses, attempts : Nat, wait : Int, lease : Int]
\* batch: the candidates not yet tried, with the attempt count each was listed with.
IsCall(c) ==
    /\ c \in [at : {"idle", "listed", "publishing", "published", "failed"}, age : 0..MaxAge,
              batch : {c.batch}, event : Events, attempt : Nat]
    /\ DOMAIN c.batch \subseteq Events /\ c.batch \in [DOMAIN c.batch -> Nat]

OutboxTypeOK ==
    /\ row \in [Events -> Row]
    /\ \A e \in Events : row[e].wait >= -MaxAge /\ row[e].lease >= NoLease
    /\ DOMAIN call = Dispatchers /\ \A d \in Dispatchers : IsCall(call[d])
    /\ claims \in [Events -> 0..MaxAttempts] /\ accepted \subseteq Events
    /\ late \subseteq Dispatchers /\ faults \in 0..MaxFaults

NoRow == [status |-> "ABSENT", attempts |-> 0, wait |-> 0, lease |-> NoLease]
NoBatch == [e \in {} |-> 0]
Idle == [at |-> "idle", age |-> 0, batch |-> NoBatch,
         event |-> CHOOSE e \in Events : TRUE, attempt |-> 0]

OutboxInit ==
    /\ row = [e \in Events |-> NoRow]
    /\ call = [d \in Dispatchers |-> Idle]
    /\ claims = [e \in Events |-> 0] /\ accepted = {}
    /\ late = {} /\ faults = 0

----------------------------------------------------------------------------
MutantDue(e, age) ==   \* the lease of a claimed row is not looked at
    \/ row[e].status \in {"PENDING", "RETRY"} /\ row[e].wait <= -age
    \/ row[e].status = "PUBLISHING"
MutantNoTakeover(e, age) ==   \* a claimed row waits for its claimer for ever
    row[e].status \in {"PENDING", "RETRY"} /\ row[e].wait <= -age
\* A row is due for a call whose `now` lies age ticks back.
Due(e, age) ==
    \/ row[e].status \in {"PENDING", "RETRY"} /\ row[e].wait <= -age
    \/ row[e].status = "PUBLISHING" /\ row[e].lease <= -age

Present == {e \in Events : row[e].status # "ABSENT"}
Subsets(S, n) == {T \in SUBSET S : Cardinality(T) = Lower(n, Cardinality(S))}
\* listDue reads 2 * limit rows of the table, whichever they are, and filters those.
Pages == Subsets(Present, 2 * Limit)
DueIn(page) == {e \in page : Due(e, 0)}

\* The mutation's transaction commits with its outbox row; a replay finds the row.
Enqueue(e) ==
    /\ row[e].status = "ABSENT"
    /\ row' = [row EXCEPT ![e].status = "PENDING"]
    /\ UNCHANGED <<call, claims, accepted, late, faults>>

ListDue(d) ==
    /\ call[d].at = "idle"
    /\ \E page \in Pages : \E due \in Subsets(DueIn(page), Limit) \ {{}} :
        call' = [call EXCEPT ![d].at = "listed", ![d].age = 0,
                             ![d].batch = [e \in due |-> row[e].attempts]]
    /\ UNCHANGED <<row, claims, accepted, late, faults>>

\* Go on with the rest of the batch, or return.
Rest(d, batch) ==
    call' = [call EXCEPT ![d] = IF DOMAIN batch = {} THEN Idle
                                ELSE [@ EXCEPT !.at = "listed", !.batch = batch]]
Without(batch, e) == [x \in DOMAIN batch \ {e} |-> batch[x]]

Attempt(d, e) == call[d].batch[e] + 1

\* claim: under the row's lock, a row that is still due is leased from the call's `now`.
Claim(d, e) ==
    /\ call[d].at = "listed" /\ e \in DOMAIN call[d].batch
    /\ IF Due(e, call[d].age)
       THEN /\ row' = [row EXCEPT ![e].status = "PUBLISHING", ![e].attempts = Attempt(d, e),
                                  ![e].lease = Lease - call[d].age]
            /\ call' = [call EXCEPT ![d].at = "publishing", ![d].event = e,
                                    ![d].attempt = Attempt(d, e),
                                    ![d].batch = Without(@, e)]
            /\ claims' = [claims EXCEPT ![e] = Lower(@ + 1, MaxAttempts)]
       ELSE Rest(d, Without(call[d].batch, e)) /\ UNCHANGED <<row, claims>>
    /\ UNCHANGED <<accepted, late, faults>>

\* The broker accepts or not; when publish throws, it may have accepted all the same.
Publish(d) ==
    /\ call[d].at = "publishing"
    /\ \E result \in {"published", "failed"} :
        /\ call' = [call EXCEPT ![d].at = result]
        /\ accepted' \in {accepted \cup {call[d].event}}
                         \cup (IF result = "failed" THEN {accepted} ELSE {})
    /\ UNCHANGED <<row, claims, late, faults>>

\* The bare update of the marks: nothing of the row is looked at.
Mark(d, status, wait) ==
    /\ row' = [row EXCEPT ![call[d].event] =
                  [@ EXCEPT !.status = status, !.wait = wait, !.lease = NoLease]]
    /\ Rest(d, call[d].batch)
    /\ UNCHANGED <<claims, accepted, late, faults>>

MarkPublished(d) == /\ call[d].at = "published"
                    /\ Mark(d, "PUBLISHED", row[call[d].event].wait)

\* markPublished throws inside the try: the catch block treats it as a failure to publish.
MarkPublishedFails(d) ==
    /\ call[d].at = "published"
    /\ call' = [call EXCEPT ![d].at = "failed"]
    /\ UNCHANGED <<row, claims, accepted, late, faults>>

Delay(attempt) == Lower(InitialDelay * 2 ^ (attempt - 1), MaxDelay)
MutantExhausted(d) == call[d].attempt + 1 >= MaxAttempts   \* one attempt too few
Exhausted(d) == call[d].attempt >= MaxAttempts

MarkFailed(d) ==
    /\ call[d].at = "failed"
    /\ IF Exhausted(d) THEN Mark(d, "DEAD_LETTER", row[call[d].event].wait)
       ELSE Mark(d, "RETRY", Delay(call[d].attempt) - call[d].age)

\* The process dies, or claim or a mark in the catch block throws: the call is over,
\* whatever it had claimed keeps its lease.
Abandon(d) ==
    /\ call[d].at # "idle" /\ faults < MaxFaults
    /\ call' = [call EXCEPT ![d] = Idle]
    /\ faults' = faults + 1
    /\ UNCHANGED <<row, claims, accepted, late>>

Sooner(t) == IF t = -MaxAge THEN t ELSE t - 1
Tick ==
    /\ \A d \in Dispatchers : call[d].at # "idle" => call[d].age < MaxAge
    /\ row' = [e \in Events |-> IF row[e].status = "ABSENT" THEN row[e] ELSE
                  [row[e] EXCEPT !.wait = Sooner(@),
                                 !.lease = IF @ = NoLease THEN @ ELSE Sooner(@)]]
    /\ call' = [d \in Dispatchers |->
                  IF call[d].at = "idle" THEN call[d] ELSE [call[d] EXCEPT !.age = @ + 1]]
    /\ late' = late \cup {d \in Dispatchers : call'[d].age >= Lease}
    /\ UNCHANGED <<claims, accepted, faults>>

Deliver(d) == \/ \E e \in Events : Claim(d, e)
              \/ Publish(d) \/ MarkPublished(d) \/ MarkPublishedFails(d) \/ MarkFailed(d)

OutboxNext ==
    \/ Tick
    \/ \E e \in Events : Enqueue(e)
    \/ \E d \in Dispatchers : ListDue(d) \/ Deliver(d) \/ Abandon(d)

\* Time passes, a call runs to its end, and the operators keep calling dispatchDue.  A
\* call is sure to find something only when every page it may read has a due row.
Fairness ==
    /\ WF_outboxVars(Tick)
    /\ \A d \in Dispatchers :
        /\ WF_outboxVars(ListDue(d) /\ \A page \in Pages : DueIn(page) # {})
        /\ WF_outboxVars(Deliver(d))

OutboxSpec == OutboxInit /\ [][OutboxNext]_outboxVars /\ Fairness

----------------------------------------------------------------------------
(***************************************************************************)
(* Properties.                                                             *)
(***************************************************************************)
Handling(d, e) == call[d].at \in {"publishing", "published", "failed"} /\ call[d].event = e

\* No event is marked delivered that the broker never took, however calls overlap.
PublishedWasAccepted == \A e \in Events : row[e].status = "PUBLISHED" => e \in accepted

\* No event is given up on before its attempts were really made: counts read before a
\* claim and written after it never make an event look more tried than it was.
NeverGivenUpEarly ==
    \A e \in Events : row[e].status = "DEAD_LETTER" => claims[e] = MaxAttempts

\* The lease keeps dispatchers apart: while no call has outlived the lease it takes, no two
\* of them handle one event at the same time.
Apart ==
    \A d, other \in Dispatchers, e \in Events :
        Handling(d, e) /\ Handling(other, e) => d = other
LeaseExcludes == late = {} => Apart

\* While no call has outlived its lease, a delivered or dead-lettered event stays so.
Stays == \A e \in Events : row[e].status \in Settled => row'[e].status = row[e].status
SettledStays == [][late = {} => Stays]_outboxVars

\* Every enqueued event is delivered or dead-lettered in the end, for good.
EverySettles == \A e \in Events : row[e].status = "PENDING" ~> [](row[e].status \in Settled)
=============================================================================
