# baobab-trade in TLA+

TLA+ models of the parts of baobab-trade whose correctness depends on what
happens at the same time, in the wrong order, or half way: the B2B spend ledger and its
command log, the event outbox, the admission of a buyer by staff and its activation by the
ERP, memberships and the resolution of a buyer's authority, the decision on a buyer's
operation, quotations and agreements, the payment and fulfilment bridges, the seller binding
of a cart with its checkout, and the order commit fences. TLC checks each model on a small
instance; TLAPS proves the most important properties for every value of the constants.

## 1. The system

baobab-trade is a MedusaJS commerce engine with Baobab's own modules around it:
B2B buying, outgoing and incoming events, bridges to payments, fulfilment,
inventory and tax, and the "Trade-A" governance of orders. Remote authorities
(Control Plane, IAM, ERP) are called over HTTP. State lives in PostgreSQL, in
three styles that decide how each part can fail:

1. **One SQL transaction with row or advisory locks** and PL/pgSQL guards (spend
   ledger, order fences, classification, seller bindings). Hazards: clocks fixed at
   the start of a transaction, READ COMMITTED snapshots per statement, COMMITs
   whose acknowledgement is lost.
2. **Several module-service calls with compensations** (ERP route, admission
   decision, invitations). There is no transaction: each call is visible at once,
   and a catch block undoes what was done.
3. **A distributed lock around read, check, write** (payment and fulfilment
   bridges, outbox rows). Hazards: a crash between two writes, a lock or lease
   that ends before its holder.

| Component | State | Operations | Talks to | What makes it correct | Module |
|---|---|---|---|---|---|
| Spend ledger (`baobab/b2b/spend-reservation-commands.ts`, migrations 20261022150000, …180000) | policies, reservations, holds, balances | submit, resubmit, commit, release, expire, rollover; policy create and revise | command log | no period over its limit; balance = sum of holds; a hold counts once or not at all; a held purchase can be committed | `SpendLedger` |
| Command transaction and log (same file, `run`) | `b2b_spend_command`, advisory locks | one attempt of a command, plain or composed with a mutation | ledger, composed mutation | a key takes effect once; success is true | `CommandLog`, `IdempotentCommand` |
| Outbox (`baobab/events/outbox*.ts`) | `event_outbox` | enqueue, list due, claim, publish, mark | broker, every saga below | lease excludes; delivered means accepted; every event settles | `OutboxDispatch` |
| ERP intake (`api/events/inbound/erp/route.ts`) and status route | organisation, projections, receipts, outbox rows | handle an event, compensate; change a status | ERP, outbox, staff | activation has evidence and is announced for good; all or nothing; staff decisions stand | `BuyerActivation` |
| Order fences (`legal-seller-checkout` migrations 20261016120000, …140000, 20261021090000, 20261022210000, 20261023120000; `baobab/orders/{commitment-attribution, order-authority-enforcement, native-commitment-classification}.ts`) | attributions, receipts, commitments, classifications, observations, gate, posture; Medusa's carts and orders | attribute, record receipt, classify, insert or finalise an order, complete the cart, compensate, switch the gate | Control Plane, Medusa's completeCart saga | a receipt authorises one order of its own record; the verdict is of the mode the order commits under; a retry is admitted; nothing is guessed | `OrderCommitFence` |
| Trade-A entry points, route guard | none | classify a request | fences | every entry point asks for its receipt | not modelled |
| Seller binding and checkout (`baobab/orders/{postgres-governed-binding-persistence, authenticated-binding-intake, native-cart-legal-seller}.ts`, `legal-seller-checkout` migrations 20261013150000, 20261014090000) | binding, decisions, checkout authorizations; Medusa's cart; advisory and row locks | propose, approve, activate, revoke; record an authorization; complete and reopen the cart | Control Plane, Medusa's completeCart saga | three people decide; one authorization per completion; nothing completes under a binding that was withdrawn | `SellerCheckout` |
| Applications, evidence, admission (`api/store/b2b/organisations/apply`, `api/{store,admin}/b2b/applications/…`, `baobab/b2b/{onboarding-policy, kyb-evidence}.ts`) | application, documents, review actions, decisions, organisation, membership, outbox rows | apply, attach a document, review, decide on a document, decide on admission, compensate | outbox, Control Plane | a request leaves all or nothing; decided means admitted; decisions stand; no review without its documents | `BuyerOnboarding` |
| Memberships and invitations (`api/store/b2b/{organisations/[id]/members, invitations}/…`, migrations 20260907144500, …20261022090000) | memberships, roles, tokens, delivery rows, revisions | invite, resend, accept, revoke, compensate | mail, buyer authority | one seat per customer; one mail per key; a revocation holds against everything that comes after it | `BuyerMembership` |
| Buyer authority (`baobab/b2b/buyer-authority.ts`, `baobab/auth`, `baobab/control-plane`) | none of its own; reads memberships, organisation, roles | resolve a context | IAM, Control Plane, memberships | the context was true at one moment and ends with its evidence | `BuyerContext` |
| Operation policy (`baobab/b2b/buyer-operation-policy*.ts`) | a snapshot of seven sources | decide an operation | ledger, memberships | monotone: nothing lost makes an operation allowed; within every budget | `BuyerOperationPolicy` |
| Commercial lifecycle (`baobab/b2b/{commercial-lifecycle, postgres-commercial-lifecycle}.ts`, migration 20261029130000) | requests, quotations, command rows, locks | twelve commands of buyers, sellers and the system | memberships, agreements | offers agree with their request; a version is consumed once; no commit on withdrawn authority | `CommercialLifecycle` |
| Payment and fulfilment bridges (`baobab/payments`, `baobab/fulfilment`) | records, transition rows, allocations; locks | create, allocate, transition | providers | a key creates one record; no update is lost; done means moved | `CommerceBridge` |
| Inventory bridge, store credit | references and requests by key | create | ERP, Medusa | a key applies once | not modelled |
| Tax, ERP projections, assortment, readiness, markets, catalogue, search | records and configuration | pure calculation, one-shot projection | ERP, vendors | determinism, idempotent bootstrap | not modelled, see §8 |
| Health, logging, scripts | none of their own | I/O | – | – | environment of the models |

`PROJECT.json` lists all components with their files, and 40 hazards with the line at
which each bites and the properties that cover it.

## 2. The models and the code

Conventions: a module's header names its files; operators keep the source's names
where TLA+ allows; a refused command changes nothing and is a stuttering step;
`map` in `PROJECT.json` gives the lines of every definition. Operators named
`Mutant…` are wrong forms of the definition that follows them; substituting one
makes the property they are listed with fail, which shows that the run could see
such a fault.

### SpendLedger
One action per command: `Submit`, `Resubmit`, `Commit`, `Release`, `Expire`,
`Rollover`, `CreatePolicy`, `RevisePolicy`, plus `Tick` and `ChangeMember`. A
command holds its row locks until COMMIT and is atomic, but its clock is not: `now()`
is the start of the transaction, so each command runs at some `t` in `Recent`, up
to `MaxDelay` in the past, and not before the reservation it names was visible.
`PostEntries` is the releases and reservations of one command through the ledger
trigger. Amounts are small naturals in one currency, organisation and Market (every
statement selects on all four). `MonthStart` is a constant function: `date_trunc` in a
time zone. Left out: digests, the submitter's identity (the member stands for it) and
refusal codes.

### CommandLog and IdempotentCommand
`run` statement by statement: `Begin`, `TakeLock`, `Prior`, `Execute`, `Mutate`,
`Record`, `Commit`, `Answer`, and the failures `NoConnection`, `Abort`,
`AcknowledgementLost` (COMMIT is durable, the client sees an error) and `Crash`.
What the command does to the ledger is one effect here; `SpendLedger` says what it
is. `IdempotentCommand` is the promise to callers: one request per key, final;
`KeepsPromise` states that the log implements it, with `effects` mapped to the requests of the
attempts that took effect.

### OutboxDispatch
Each dispatcher runs `dispatchDue`: `ListDue`, then `Claim`, `Publish`, `Mark…` per
event, `Abandon` when it dies. Times are relative to the present, so the clock needs
no bound; a call's `age` is how far its `now` lies back. `Pages` keeps what
`listDue` really reads: any `2 * limit` rows of the table. `claims`, `accepted`
and `late` are history.

### BuyerActivation
Every awaited call of the route is an action: `RetrieveOrganisation`,
`CreateProjection`, `UpdateOrganisation`, `CreateReceipt`, `Announce`, then `UndoReceipt`,
`UndoStatus`, `UndoProjection` in the catch block. `Fail` is a call that fails without
effect, `Swallow` a compensation that fails unheard. Staff read and write in two
steps. A handler is assumed not to die half way: ADR-0029 leaves that to a
reconciliation that is not in the repository.

### BuyerOnboarding
The applicant applies (`Apply`) and attaches documents (`CheckAccepting`, `Attach`: the
status is read in one call, the row created in another). A staff request of any of the
three routes is one record: `ReadForReview`, `ReadForEvidence` or `ReadForAdmission`, then
`Check` (the document, or the package of verified documents), then the calls of its `Plan`
one by one: `CreateRow` or `Write`. `Collides` gathers the unique indexes, `Fail` is any
other failure; both lead to `Undo` of the calls made, the last one first, where a
compensation may be lost (`Swallow`) and an execution may end half way (`Die`). Rows
belong to the request that made them (`rows`), with the foreign keys' cascade
(`DeletedWith`). `Write` sets the status and the revision *read* plus one, whatever is there by
then, as the code does. A failing call is taken to have no effect. `INFORMATION_REQUIRED` has no way out: the
table has transitions for which there is no route. Left out: replays by idempotency key
(they change nothing), the Control Plane's answer (a choice in `Check`), bodies and texts.

### BuyerMembership and BuyerContext
A history fixes which requests take place (`Histories`, `Begins`): invites, resends,
acceptances and revocations. Each runs call by call, with the compensations of its route;
`Fault` is a call that fails, `Crash` a process that ends; either happens once. `Update`
and `SetRoles` carry the revision triggers. `Notify` and `Mark…` are the delivery of the
token, whose row keeps the idempotency key. `Lapse` is the instant at which tokens end.
`BuyerContext` extends it with the steps of `resolve`: `VerifyCaller`, `VerifyToken`,
`Assure`, `ResolvePrincipal`, `BindEstate` (each states an expiry, or refuses), the reads of
organisation, membership and roles, `Attest`, both rows again in either order, and `Issue`.
Staff edit roles and statuses meanwhile. `whole` is history: whether what was read stood
together when the roles were read. Left out: signatures, claims, bodies, and what a denial says.

### BuyerOperationPolicy
The decision is an operator, `Evaluate`, from its rule table (`Rules`) through permission,
market and site, commitment, budgets and approval to `Allow`, `Deny` or an escalation,
over what the seven sources return: `Loaded` gives every source what its load brought, which
is nothing when the load failed, and `Unavailable` says that it failed, so that no answer
rests on an absence that was never read. Facts are `Coherent`: ids are unique, no hold is
ahead of its budget's revision (the ledger's `RevisionsLag`), and nothing is reserved or
approved for a version of the purchase yet to come. Initial states are the cases of the MC module; actions are changes of the rows that take something
from the buyer (`RoleLost`, `BudgetTightened`, `SourceFailed`, …). Amounts in the run are small
naturals; the SQL of the sources and the wording of refusals are left out.

### CommercialLifecycle
One command is `Arrive`, `Digest`, `LockKey`, `Authorize`, `Clear`, `LockRequest`,
`LockRow`, `Apply`, `Recheck`, `Commit` or `Abort`. A lock is a state of the commands that hold
it: the advisory lock of the key, the rows of request and offer, and the shared locks on the
authority rows, which keep `Edit` away. `Follows` and `Moves` are the transition table and
the guard of the database. Left out: the terms of an offer, digests, and `read`.

### CommerceBridge
One module for both bridges, as `setting` says which: the two ports have the same shape and
differ in their tables, in the lock they take and in how a key is replayed. A call is
`Initiate`, `Find`, `Lock`, `FindAgain`, `Create`, or `Allocate`, `FindItems`, `CreateItems`, or
`Transition`, `ReadPrior`, `ReadCurrent`, `InsertRow`, `UpdateStatus`. `setting.distributed` is
whether Redis carries the lock (`config/infrastructure.ts`); otherwise it holds within a process only. `Crash` is
a process that ends between two writes. `made`, `log` and the `past` of a record are history. Left out: amounts, quantities, provider references.

### SellerCheckout
Rows of different carts never meet, so one cart is the whole system. A command is `Intake`
(the route, which reads without locks), `TakeFence` (the advisory lock), `Write` (the row and
the cart looked at again, under `FOR SHARE` of the cart), `CheckAtCommit` (the deferred
trigger) and `Commit`; `Abandon` is every refusal, timeout, lost connection or death. The
validate hook is `Assess`, then `BeginRecord`, `Insert`, `CheckInsert`, `CommitRecord`, or
`Replay`, or `PassUnrecorded` where the gate is off. The cart's completion is `LockCart`,
`Take` or `TakeUngated`, `CheckTaken`, `CommitCompletion`; its compensation is `Compensate`,
`Release`, `CommitReopen`. `fence` and `row` are the two locks: a completion takes the cart row
first and the fence second, everybody else the other way round, and the deadlock this may
end in is broken by `Abandon` or `Stop`. Clocks appear as what they decide: a binding or an
authorization `lapsed`, an admission of five seconds or an assessment of two that is over
is an abandoned transaction. Left out: digests, the content of proofs, soft deletion, and
the production setting, in which the gate refuses everything. `governed-binding-service.ts`
has no caller under `src/`; the policy it shares with the persistence is in `Accepted`.

### OrderCommitFence
The inserting transaction is `CountCandidates`, `TakeReceipt`, `Verify`, `CommitOrder`
(or `Rollback`), because each statement of a READ COMMITTED transaction has a
snapshot of its own; what it writes becomes visible at `CommitOrder`. A draft goes
`FinaliseDraft`, `Verify`, `CommitOrder`. Around it: `Attribute`,
`RecordReceipt`, `LeaseEnds`, `Classify`, `ObserveProfile`, `SwitchGate`, `Enforce`, and
Medusa's saga (`EditCart`, `CompleteCart`, `ReopenCart`, `DeleteOrder`), of which only
`CompleteCart` is guarded by this repository. One sales channel and currency is
modelled, hence one advisory lock. `scope` stands for region, customer and email;
`lines` for the multiset of lines. Remote decisions are one choice: a receipt may
be recorded for any attribution of its subject. Conversions and governed replacements of a
classification are left out: nothing under `src/` performs them. The gate's row is
locked FOR SHARE by `Verify` until the transaction ends, which is the guard of `SwitchGate`.

The models meet at their boundaries: the ledger's commands run inside
`CommandLog`'s transactions, `BuyerActivation`'s `announced` are rows that
`OutboxDispatch` enqueues, the budgets `BuyerOperationPolicy` reads are `SpendLedger`'s.
`BuyerContext` is composed with `BuyerMembership`, whose rows it reads.

## 3. What the runs check

| Run | Instance and bounds | Question |
|---|---|---|
| `spend` | 3 reservations of 2 purchases in 3 versions (one after another; once all are placed one supersedes another), a monthly and an agreement budget with room for one of them, clock 1..3 with a month boundary, clocks late by 1, one revision, one rollover | no oversubscription, leak, double hold or drift; a linear version chain; usable holds |
| `command_retries` | 4 attempts, 2 keys, plain and composed | truthful success, no lost lock, refinement (hence once per key) |
| `outbox` | 2 dispatchers, 1 event, 3 attempts, lease 2, calls up to 3 old, one death | exclusion while calls keep their leases, no early end, eventual settlement |
| `activation` | 2 handlers, 2 approvals, 1 operator, 2 failing calls, 1 failing compensation | evidence, announcement, all or nothing, progress |
| `fence_commit` | 1 cart, 2 order attempts, 1 draft, 2 receipts, 2 sets of lines, B2B and B2C | no reuse, no waste, verdict and mode |
| `seller_checkout` | 3 people, 2 runs of completeCart, 2 sets of coordinates, 2 authorizations ever, 2 commands in flight at once | three people, one authorization, nothing under a withdrawn binding |
| `onboarding` | 2 applications of 1 customer (one with a registration number), 2 documents, 4 staff requests, 1 failing call, 1 lost compensation, 1 death | all or nothing, backed decisions, the package of documents, who may reopen |
| `buyers` | histories of up to 4 requests of 2 keys about 1 customer, 1 resolution, instants 0..2, lifetime 2, 1 failing call or death | one seat, one mail per key, what may overtake a revocation, one moment, expiry |
| `commands` | 2 commands under 2 keys, 1 request, 2 offers, instants 0..1, 1 edit of authority, 1 abort | offers and request, one command per version, current authority, no deadlock |
| `decisions` | the cases of `Facts0`, up to 3 losses after one another | monotone decision, budgets |
| `bridges` | 2 callers of 2 calls each, 2 records, 2 keys, 2 items, 1 death; both bridges, both kinds of lock | one record per key and of whose estate, no lost update, done means moved |
| `fence_retry` | as `fence_commit`, with 2 carts | counterexample, §6 |

Why the bounds suffice: every property is about a pair (two purchases on one
period, two attempts of one key, two handlers of one event, two orders of one cart)
crossing at most one boundary (a month, a lease, a gate switch). The instances
hold the pair, the boundary, and one fault, and each property's mutant
is found within them. The proofs do not depend on these bounds, except that `MaxVersion`,
`MaxReceipts` and the other named bounds are constants of the modules.
The third reservation of `spend` is the one that tries to supersede a version a second time, or
the version that superseded it. With it the state space is cut by `Bounded` (`MCSpendLedger`):
suspensions and revisions do not occur together, nor at the last instant, nor beside three placed
reservations, and versions are submitted in their order; the proofs have no such constraint. `fence_commit` has one cart, as two carts with two orders do not finish in the time a
run may take; what two carts may do to each other's receipts is proved for any number.
In `seller_checkout` three people are as many as the property needs, a third
authorization would only repeat the second, and three commands at once would wait for the one fence.
Runs stop when their bounds are used up, hence `CHECK_DEADLOCK FALSE`; `seller_checkout`
never stops, and is checked for deadlock; that commands do not wait for each other for ever is
`EveryCommandEnds`. Symmetry is used only in runs that check no liveness.
In `outbox` one event is enough for exclusion and settlement, which are about one row; batches of
any size are covered by the proofs. In `bridges` two calls per caller are a call and its retry.

## 4. Properties

- **SpendLedger**: `CapacityHonoured`, `HoldsMatchStatus`, `BalanceIsSumOfHolds`,
  `ChainIsLinear`, `TakenHoldsAreUsable`.
- **CommandLog**: `SuccessIsTrue`, `AttemptsEnd`, `KeepsPromise`; proved besides: `AppliedOnce`.
- **OutboxDispatch**: `LeaseExcludes` (until some call has outlived the lease it takes),
  `NeverGivenUpEarly`, `EverySettles`; proved besides: `PublishedWasAccepted`, `SettledStays`.
- **BuyerActivation**: `ActiveHasEvidence` and `AllOrNothing` (until a compensation has
  failed), `AnnouncedStands`, `EventuallyProcessed`; proved besides: `SuspensionHolds`.
- **BuyerOnboarding**: `AllOrNothing` (until a compensation is lost or a request dies),
  `FinalIsBacked`, `PackageHolds` (until a compensation is lost), `OnlyAStaleReviewReopens`;
  proved besides: `RevisionNeverFalls`.
- **BuyerMembership**: `OneSeatEach`, `OneMailPerKey`, `OnlyAnOvertakenAcceptReinstates`
  (nothing but an acceptance that had found the invitation before: §6).
- **BuyerContext**: `IssuedFromOneMoment`, `RevisionsVouch`, `NeverOutlivesItsEvidence`.
- **BuyerOperationPolicy**: `WithinEveryBudget`, `NeverGains`.
- **CommercialLifecycle**: `OffersStandWithTheirRequest`, `OneCommandPerVersion`,
  `CommitsUnderCurrentAuthority`, `EveryCommandEnds`.
- **CommerceBridge**: `CreatedOnce` (a record of another estate is answered only to a caller that
  looked before it was created: §6), `NoLostUpdate` and `DoneMeansMoved` (the last two, and
  allocations, under the distributed lock).
- **SellerCheckout**: `ThreeHands`, `OneAuthorizationEach`, `CompletesUnderItsBinding`.
- **OrderCommitFence**: `NoReuse`, `SpentByItsOwn`, `DecidedInItsMode`; proved besides: `OneReceiptEach`.

Type invariants are proved for the modules of §5 (`TypeOK`).
Each is stated with its meaning beside it in the module. The conditions in
parentheses are part of the formulas: they are what the code needs and does not ensure.

**Fairness.** `CommandLog`: an attempt that can take its next statement does; `run` awaits
one after another, and lock waits end because locks are released with the transaction. No
fairness on failures. `OutboxDispatch`: time passes, a call runs to its end, and
operators keep calling `dispatchDue`; a call is sure to find work only if every page it
may read has a due row. The repository holds no scheduler for that last
point, only scripts that call it: it is an assumption about operation.
`BuyerActivation`: weak fairness on a handler's next step, strong fairness on the
delivery of each event (the ERP delivers at least once). `CommercialLifecycle`: weak fairness
on a command's next statement, which PostgreSQL runs when its locks are free. The other modules
state no fairness: no code in the repository promises that a reservation expires, an
invitation is answered, an application or a binding is decided, or an order or a transition is retried.

## 5. What is proved

`tlapm` checks every proof with SMT (Z3), Zenon and, for temporal steps, LS4.
Assumptions are the `ASSUME`s of the modules, all of which TLC evaluates.

| Module | Theorems | Inductive invariant and why it is needed |
|---|---|---|
| `SpendProofs` (ledger) | `TypeCorrect`, `HoldsSafe`, `BalancesConserved`, `CapacitySafe`, `ChainsStayLinear`, `TakenIsUsable` | `CapacityInv` = types, `HoldsMatchStatus`, `RevisionsLag` (no hold is stamped with a revision its policy has yet to reach) and `CapacityHonoured`. Without the lag a revision could make an old hold current and the period over-full at once; with it, a revision makes every hold stale and the claim vacuous until the next reserve, which is checked. For the chains, `ChainInv` adds that a row not inserted supersedes nothing: only an ACTIVE version can be superseded, superseding releases it, and RELEASED is terminal, so no later claim finds it again. For the holds a reservation takes: a submission starts from none (`HoldsMatchStatus`), and a rollover returns what a commit at its clock could not use and takes what is missing. For the balances, `BalanceInv`: the sum is the number of units held (`Units`), finitely many at any time, and a posting changes the value of one reservation after another by what it moves in the balance (`OneChanges`). |
| `SpendProofs` (command log) | `LogTypeCorrect`, `AppliesOnce`, `SuccessTrue`, `PromiseKept` | adds `CommitsCount`: an attempt that has committed is among the effects. A step of the log is a step of `IdempotentCommand` (`Commit`) or a stutter. |
| `SpendProofs` (policy) | `FactsStayCoherent`, `DecisionsNeverGain`, `CommitmentsFit` | `NoBetter(g, f)` orders facts by what they permit the buyer: fewer roles, grants and sites, lower limits, less room, a source that fails. `Monotone`: what the worse facts allow, the better ones allow. It is false for facts that are not `Coherent` (a revision could make a hold of a revision to come current, an edit could reach the version an approval is for), so every history keeps them so. Each action leads to facts that are no better. |
| `EventProofs` (outbox) | `OutboxTypeCorrect`, `MarksAreEarned`, `NotGivenUpEarly`, `LeasesExclude`, `SettledForGood` | for the marks, the attempt counts a call carries never exceed the claims really made; for exclusion, `Held`: whoever handles an event has a lease on its row that outlasts the call's age. |
| `EventProofs` (activation) | `ActivationTypeCorrect`, `AnnouncementsStand`, `AllOrNothingHolds`, `ActivationIsEvidenced`, `SuspensionsHold` | `Exclusive`: at most one handler is between its projection and its end for one event (the unique index); `Tidy`: projection and receipt differ only for events in flight. |
| `BuyerOnboardingProofs` | `TypeCorrect`, `DecidedIsBacked`, `RevisionsRise`, `ReopenedByStaleReview`, `PackagesHold`, `LeavesAllOrNothing` | `Progress`: the rows of a running request are those of the calls it has made, and its update is the last of them, so what it writes is `Backed`. For the revisions, `Ordered`: they form a `Ladder` (submitted 1, reviewed 2, decided 3), the indexes leave one review per revision and one decision per application (`Sole`), and above revision 1 a completed review of revision 1 keeps its row (`Climbed`), so no second one gets past the index. A late writer therefore writes a revision that is already there, and the one that does so on a decided application is a review that read it alongside. For the packages, `Holders`: one request at a time holds the decision row of a document; `Sound`, while no compensation is lost: a document reads a verdict exactly when a request that has written it still holds that row (`Verdicts`), so a package that was vetted stays vetted; `Over`: a request that has ended kept all its rows or none. |
| `SellerCheckoutProofs` | `CheckoutTypeCorrect`, `ThreePeopleDecide`, `OneAuthorizationPerCart`, `CompletionIsBound` | `Locks`: whoever needs the fence or the row has it, and a row held alone is not shared; hence what a transaction has seen still holds at its COMMIT (`Pending`, `Recordings`, `Completing`). The last one carries the ungated completion: an activation would have to share the row it holds. |
| `OrderCommitFenceProofs` | `FenceTypeCorrect`, `ReceiptsAuthoriseOnce`, `OlderReceiptsAreVoid`, `NothingSpentInVain`, `CommitsInItsMode` | receipts taken by open transactions are disjoint, unspent, of one subject, and include every receipt of that subject recorded before the horizon; an open transaction that was checked under ENFORCED is ALLOWED. |
| `CommerceBridgeProofs` | `BridgeTypeCorrect`, `KeysCreateOnce`, `UpdatesAreKept`, `DoneIsMade` | `UniqueKeys`, which the unique indexes give, carries the first property with any lock or none; `Overtaken`: a caller past its look in the port is in the `past` of every record of its key created since, so what the adapter's re-reads answer it is its own estate's or the named exception. The last two need the distributed lock: under it at most one caller is at work under one lock (`Excluded`), so what it read is current when it writes, and a row whose status was not written is of a caller still at work or of one that died (`Orphans`). |
| `BuyerAuthorityProofs` | `ContextInvariant`, `MembershipTypeCorrect`, `SeatsAreHeldOnce`, `KeysMailOnce`, `ReinstatedByOvertakenAcceptOnly`, `ContextsAreWhole`, `ContextsAreVouchedFor`, `ContextsEndInTime` | `MembershipInv` follows a row through its request's calls (`RowLife`), says which requests may have mailed a link (`MailLife`) and who owns a key (`KeyOfOneRow`, `AttemptLife`, the unique indexes). `ContextInv` adds what a resolution may rely on: what it has read still stands or has moved to another revision (`KnowsRelation`, `KnowsMembership`), and what was not true together when the roles were read shows in a revision that a second read has yet to compare (`KnowsRoles`). Hence both reads agree only on facts of one moment. For revocations, `Standing` lists how a row's status and interval may move in a step, which keeps `Shut` (a closed interval belongs to no open invitation), so that no acceptance finds a row after its revocation. |
| `CommercialLifecycleProofs` | `LifecycleInvariant`, `LifecycleTypeCorrect`, `OffersStand`, `VersionsAreTakenOnce`, `CommitsAreAuthorized` | `LifecycleInv`: one command has the row of a request (`OneHolder`), what it decided is still a successor of the row (`DecidedOnRow`), a receipt names a version its row has reached (`Reached`, so the next commit names a version nobody has taken), and the share locks keep the authority as it was granted (`HeldAuthority`). `Sound` is what every command leaves of a request and its offers. |

Every invariant and action property of a run, except the one that §6 refutes, and the
refinement is a theorem. Only model-checked are the four liveness properties (`AttemptsEnd`,
`EverySettles`, `EventuallyProcessed`, `EveryCommandEnds`): they rest on fairness and ENABLED,
which the prover does not reach. A sum over a set is out of its reach too when it is a recursion,
which is why `BalanceIsSumOfHolds` counts units instead: that is the same number, as what
is held is a natural (`HoldsAreNatural`). No module declares a RECURSIVE operator.

## 6. Where the code and its documents disagree

With a run and its counterexample:

**`fence_retry`** (code). A receipt that lapsed unconsumed blocks its cart: the
UPDATE that voids older receipts takes in lapsed ones, and the receipt guard raises
for those. Two attempts of one checkout, the first slower than 30 seconds, are enough.

Met while modelling, without a run of their own (the models have these behaviours):

- A review that read UNDER_REVIEW before an admission was written puts the application back to
  INFORMATION_REQUIRED afterwards (`review/route.ts:171`), though nothing may follow APPROVED or
  REJECTED (`onboarding-policy.ts:18`). `OnlyAStaleReviewReopens` says that nothing else does.
- An acceptance that read the invitation before a revocation makes the revoked row ACTIVE, by its id
  alone (`accept/route.ts:85`). `effective_until` stays closed, so no buyer context is resolved
  from it, but the member routes test the status alone (`members/route.ts:31-38`, `:53`) and admit
  the customer. ADR-0031:17 says "Revocation immediately makes an invitation unusable.", ADR-0017:374
  "Revoked membership SHALL immediately prevent new protected operations according to policy.", and the threat model
  (`docs/security/zuribeans-b2b-threat-model.md:10`) rests on the status. `OnlyAnOvertakenAcceptReinstates`
  names this order of steps as its one exception.
- Two callers of different Digital Estates under one key may both find nothing in the port; the
  adapter's re-reads (`payment-record-adapter.ts:60-61`, `:85-87`, `fulfilment/record-adapter.ts:49-50`,
  `:72-74`) then answer the second one the other estate's record, although the port refuses that, as it
  "would leak its full snapshot" (`orchestration-port.ts:90-94`, `fulfilment-port.ts:133-135`).
  `CreatedOnce` names this order of steps as its one exception.
- An approval that read the organisation earlier activates one that staff closed since
  (`erp/route.ts:178`), against ADR-0029:15.
- The event of an admission is due before its last call (`decision/route.ts:294`); when that
  call fails after the delivery the decision is deleted and its announcement stands.
- The compensation of one approval undoes another's (`erp/route.ts:236`); a change of partner is
  not compensated; a swallowed compensation, or a process that ends half way, wedges its event.
- A resend rotates the token and creates its delivery row before the try that restores the old
  token (`resend/route.ts:91-106`), against ADR-0031:11 ("If resend delivery fails, the previous
  usable token and expiry are restored."): a failure there leaves a token that no mail carried.
- A fulfilment transition that is retried after it was done is refused, because the replay
  compares the row's `from_status` with the status of now (`record-adapter.ts:98`); one whose
  process ended before the status was written is answered success and nothing moves. Payments have
  the second gap too, and look a key up across all payments (`payment-record-adapter.ts:106`).
- Without Redis the bridges' locks reach one process: updates may be lost, and a creation of
  allocations may be answered while some are missing.
- The completion of a cart takes the row before the fence, against "Take the cart advisory
  transaction fence before the row lock on every mutation" (`docs/plans/P0-04B-01-trade-binding-lifecycle.md:67`);
  one side of the deadlock is aborted after a second.
- A COMMIT whose acknowledgement is lost is answered REFUSED though it was applied; a rollover
  with a late clock gives up a current hold.
- A late mark turns a dead letter back into RETRY; claims are unbounded when claimers die;
  `listDue` can miss due rows behind settled ones; `reconcileOutboxRecord` reports rows in flight as due.
- The fence's count and SELECT are two snapshots, so the receipt consumed may be of a cart
  that was not counted; the cart fence asks only that some order of the cart exists.
- A review that dies after its action row blocks reviews of that revision.

## 7. What would come next

The modules were written in order of what a fault costs. Worth adding after them:

1. An abstract lifecycle (a record moves along its table, a key applies one transition)
   that `CommerceBridge` is shown to implement under the distributed lock without deaths.
2. Composed modules: outbox and admission (an event announces what stands), seller
   checkout and order fence (one completion passes both).
3. The Trade-A entry points and the chain of remote decisions behind an order's receipt.
4. Theorems about pairs of components, once they are composed: every invariant of a single
   one is proved.

## 8. Not modelled

Rendering and validation of requests, signatures and token claims, logging and health,
one-shot bootstrap scripts, market and catalogue configuration, search adapters, tax
arithmetic and trade readiness: they keep no state that two actors share, or are pure
functions of a snapshot. Provisioning of a market (`market/provisioning.ts`) is a script that one
operator runs; it creates fulfilment sets and their links in two calls, and a run that ends between
them is not healed by the next. The consumer side of the outbox and the entry points of Trade-A are
stateless. The models cover the shared state of the system and not the breadth of
its configuration code: of the implementation's lines, scripts included, the larger part is not mapped.
Medusa itself is
outside the repository: its cart and order rows appear only as the fences see them.
