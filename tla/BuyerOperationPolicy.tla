--------------------------- MODULE BuyerOperationPolicy ---------------------------
(***************************************************************************)
(* The decision on one buyer operation: evaluateBuyerOperation, a function *)
(* of the facts that loadBuyerOperationPolicy reads for one membership and *)
(* of those its caller brings.  It answers ALLOW, or the first refusal in  *)
(* a fixed order.                                                          *)
(*                                                                         *)
(* The behaviours are histories of the facts: from one evaluation to the   *)
(* next the buyer loses something that permits (a role, a grant, a hold,   *)
(* an approval), something that restricts is added (a use of a budget, a   *)
(* purchase-order rule), or a source can no longer be read.                *)
(*                                                                         *)
(* Rows are given as the evaluator's filters leave them: limits, approval  *)
(* policies and budgets are those of the operation's market and currency,  *)
(* in effect at its instant; a grant or a site that is listed is ACTIVE    *)
(* and in effect; a budget's period is the one its balance is current in.  *)
(*                                                                         *)
(* An operator Mutant... is a wrong form of the definition after it, of    *)
(* the kind a code change could bring; no action uses it.  Each property   *)
(* below fails when one of them takes the definition's place.              *)
(***************************************************************************)
EXTENDS Integers, FiniteSets

CONSTANTS
  Sites,        \* delivery Sites
  Principals,   \* canonical Principals
  References,   \* agreement references
  BudgetIds,    \* ids of budget policies
  Cases,        \* the facts a history begins with
  Changes,      \* a bound: the changes of a history
  None          \* an absent limit, threshold, transaction, approval, ...

VARIABLES
  store,        \* the facts as they are stored, and the sources that cannot be read
  left          \* the changes still to come

policyVars == <<store, left>>

Sources == {"roles", "siteRecords", "limits", "policies", "order", "budgets", "reservation"}

--------------------------------------------------------------------------------
(* The facts.                                                              *)

RoleAssignment == [role : STRING, market : BOOLEAN, sites : SUBSET Sites]
SiteUse == [site : Sites, use : {"SHIPPING", "BILLING"}]
SiteRecords == UNION {[S -> SUBSET {"SHIPPING", "BILLING"}] : S \in SUBSET Sites}
Transaction == [amount : Int, agreement : References \cup {None}, version : Nat]
SpendAuthority == [id : Nat, order : Int \cup {None}, approval : Int \cup {None}]
ApprovalPolicyRecord == [id : Nat, threshold : Int \cup {None}]
BudgetFact ==
  [policy : BudgetIds, revision : Nat, scope : {"MEMBERSHIP", "ORGANISATION", "AGREEMENT"},
   mine : BOOLEAN, limit : Nat, period : Nat \cup {None}, committed : Nat, reserved : Nat]
HoldFact == [policy : BudgetIds, revision : Nat, period : Nat, reserved : Nat]
ReservationFact ==
  [agreement : References \cup {None}, version : Nat, usable : BOOLEAN, holds : SUBSET HoldFact]
BoundApproval ==
  [ours : BOOLEAN, status : {"PENDING", "APPROVED", "REJECTED", "CANCELLED"},
   initiator : Principals \cup {None}, approver : Principals \cup {None},
   version : Nat, amount : Int, revision : {"current", "superseded", None}]

BuyerOperations ==
  {"resolve", "viewCatalogue", "viewPrice", "submitRfq", "modifyCart", "acceptQuotation",
   "commitOrder", "createOrder", "finalizeDraft", "decideApproval", "manageMember",
   "acceptInvitation"}
BuyerOperationFacts ==
  [op : BuyerOperations, member : BOOLEAN, roles : SUBSET RoleAssignment, market : BOOLEAN,
   authority : {"ATTESTED", "DENIED", "UNAVAILABLE"}, sites : SUBSET SiteUse,
   siteRecords : SiteRecords, principal : Principals, tx : Transaction \cup {None},
   order : {"free", "met", "unmet", "unusable"}, limits : SUBSET SpendAuthority,
   budgets : SUBSET BudgetFact, reservation : ReservationFact \cup {None},
   policies : SUBSET ApprovalPolicyRecord, approval : BoundApproval \cup {None},
   reevaluation : {"ALLOW", "DENY", "APPROVAL_REQUIRED", "UNAVAILABLE", None},
   unavailable : SUBSET Sources]

\* What the tables and the ledger ensure of rows that belong together: ids are
\* unique, no hold is stamped with a revision its budget has yet to reach, and
\* nothing is reserved or approved for a version of the purchase yet to come.
Coherent(f) ==
  /\ \A l, m \in f.limits : l.id = m.id => l = m
  /\ \A p, q \in f.policies : p.id = q.id => p = q
  /\ \A b, c \in f.budgets : b.policy = c.policy => b = c
  /\ f.reservation # None =>
       /\ \A b \in f.budgets, h \in f.reservation.holds :
            b.policy = h.policy => h.revision <= b.revision
       /\ f.tx # None => f.reservation.version <= f.tx.version
  /\ f.approval # None /\ f.tx # None => f.approval.version <= f.tx.version

ASSUME PolicyAssumption ==
  /\ \A f \in Cases : f \in BuyerOperationFacts /\ Coherent(f)
  /\ None \notin Int \cup Transaction \cup ReservationFact \cup BoundApproval

--------------------------------------------------------------------------------
(* The rule of each operation.                                             *)

AllRoles == {"BUYER", "SENIOR_BUYER", "APPROVER", "PROCUREMENT_MANAGER", "ACCOUNT_ADMIN", "VIEWER"}
Purchasing == {"BUYER", "SENIOR_BUYER", "PROCUREMENT_MANAGER", "ACCOUNT_ADMIN"}
Approving == {"APPROVER", "PROCUREMENT_MANAGER", "ACCOUNT_ADMIN"}

Rule(roles, market, site, kind) == [roles |-> roles, market |-> market, site |-> site, kind |-> kind]

Rules ==
  [resolve          |-> Rule(AllRoles, FALSE, "NONE", "READ"),
   viewCatalogue    |-> Rule(AllRoles, TRUE, "IF_REFERENCED", "READ"),
   viewPrice        |-> Rule(AllRoles, TRUE, "IF_REFERENCED", "READ"),
   submitRfq        |-> Rule(Purchasing, TRUE, "IF_REFERENCED", "CHANGE"),
   modifyCart       |-> Rule(Purchasing, TRUE, "IF_REFERENCED", "CHANGE"),
   acceptQuotation  |-> Rule(Purchasing, TRUE, "IF_REFERENCED", "COMMITMENT"),
   commitOrder      |-> Rule(Purchasing, TRUE, "REQUIRED", "COMMITMENT"),
   createOrder      |-> Rule(Purchasing, TRUE, "REQUIRED", "COMMITMENT"),
   finalizeDraft    |-> Rule(Purchasing, TRUE, "REQUIRED", "COMMITMENT"),
   decideApproval   |-> Rule(Approving, TRUE, "IF_REFERENCED", "APPROVAL"),
   manageMember     |-> Rule({"ACCOUNT_ADMIN"}, FALSE, "NONE", "GOVERNED"),
   acceptInvitation |-> Rule({}, FALSE, "NONE", "GOVERNED")]

RuleOf(f) == Rules[f.op]

--------------------------------------------------------------------------------
(* Loading: each source fails on its own, never to an empty answer.        *)

Empty == [roles |-> {}, siteRecords |-> <<>>, limits |-> {}, policies |-> {},
          order |-> "free", budgets |-> {}, reservation |-> None]
\* What the load of a source brings.  A source that could not be read, or one of
\* whose rows has a malformed amount, period or status, brings nothing ...
Attempt(f, source) == IF source \in f.unavailable THEN Empty[source] ELSE f[source]
Loaded(f) ==
  [f EXCEPT !.roles = Attempt(f, "roles"), !.siteRecords = Attempt(f, "siteRecords"),
            !.limits = Attempt(f, "limits"), !.policies = Attempt(f, "policies"),
            !.order = Attempt(f, "order"), !.budgets = Attempt(f, "budgets"),
            !.reservation = Attempt(f, "reservation")]

MutantUnavailable(f, source) == FALSE   \* a source that fails reads as empty
\* ... and says so.
Unavailable(f, source) == source \in f.unavailable

--------------------------------------------------------------------------------
(* The answers.                                                            *)

Allow == [outcome |-> "ALLOW", reasons |-> {}]
Deny(reason) == [outcome |-> "DENY", reasons |-> {reason}]
NoSource == [outcome |-> "UNAVAILABLE", reasons |-> {"SOURCE_UNAVAILABLE"}]

\* Exactly one record applies; two are ambiguous and neither is picked.
Only(S) == CHOOSE x \in S : TRUE
Single(S) == \E x \in S : S = {x}
Ambiguous(S) == S # {} /\ ~Single(S)

--------------------------------------------------------------------------------
(* Cumulative budgets.                                                     *)

\* The reservation is the purchase's own: it was made for exactly this version
\* of it under this agreement.
IsOwn(f) == /\ f.reservation.agreement = f.tx.agreement
            /\ f.reservation.version = f.tx.version

ScopeOf(f, scope) == {b \in f.budgets : b.scope = scope}
\* The budgets of the membership, of the organisation and of the agreement named.
Mine(f) == {b \in ScopeOf(f, "MEMBERSHIP") : b.mine}
OfAgreement(f) == {b \in ScopeOf(f, "AGREEMENT") : f.tx.agreement # None /\ b.mine}
Charged(f) == Mine(f) \cup ScopeOf(f, "ORGANISATION") \cup OfAgreement(f)

MutantCredits(f, b) ==   \* the revision the hold was taken under is not compared
  IF b.period = None \/ f.reservation = None THEN {}
  ELSE {h \in f.reservation.holds :
          f.reservation.usable /\ h.policy = b.policy /\ h.period = b.period}
\* The hold of a usable reservation on the budget's present revision and period.
Credits(f, b) ==
  IF b.period = None \/ f.reservation = None THEN {}
  ELSE {h \in f.reservation.holds :
          /\ f.reservation.usable
          /\ h.policy = b.policy /\ h.revision = b.revision /\ h.period = b.period}

Needed(f, b) ==
  f.tx.amount - (IF Credits(f, b) = {} THEN 0 ELSE Only(Credits(f, b)).reserved)
Left(b) == IF b.period = None THEN b.limit ELSE b.limit - b.committed - b.reserved
Fits(f, b) == Needed(f, b) <= 0 \/ Needed(f, b) <= Left(b)

\* Allow when the budgets cover the purchase.
EvaluateBudgets(f) ==
  IF Unavailable(f, "budgets") \/ Unavailable(f, "reservation") THEN NoSource
  ELSE IF f.reservation # None /\ ~IsOwn(f) THEN Deny("TRANSACTION_CHANGED")
  ELSE IF Mine(f) = {} THEN Deny("SPEND_POLICY_NOT_CONFIGURED")
  ELSE IF \/ Ambiguous(Mine(f)) \/ Ambiguous(ScopeOf(f, "ORGANISATION"))
          \/ Ambiguous(OfAgreement(f)) THEN Deny("CONTEXT_NOT_USABLE")
  ELSE IF \E b \in Charged(f) : ~Fits(f, b) THEN Deny("SPEND_LIMIT_EXCEEDED")
  ELSE Allow

--------------------------------------------------------------------------------
(* Approvals.                                                              *)

\* The approval is for exactly this transaction.
BoundTo(f) == f.approval.version = f.tx.version /\ f.approval.amount = f.tx.amount

ApplyApproval(f, reasons) ==
  LET a == f.approval IN
  IF ~a.ours THEN Deny("BUYER_NOT_AUTHORISED")
  ELSE IF a.initiator = None \/ a.approver = None \/ a.revision = None THEN Deny("CONTEXT_NOT_USABLE")
  ELSE IF a.initiator # f.principal THEN Deny("BUYER_NOT_AUTHORISED")
  ELSE IF a.approver = a.initiator THEN Deny("SEPARATION_OF_DUTIES")
  ELSE IF ~BoundTo(f) \/ a.revision # "current" THEN Deny("TRANSACTION_CHANGED")
  ELSE IF f.reevaluation \in {None, "UNAVAILABLE"} THEN NoSource
  ELSE IF f.reevaluation # "ALLOW" THEN [outcome |-> "APPROVAL_REQUIRED", reasons |-> reasons]
  ELSE Allow

\* Whoever decides an approval: a PENDING one, or at commit the one they gave.
EvaluateApprovalDecision(f) ==
  LET a == f.approval
      limit == Only(f.limits).approval
  IN IF f.tx = None \/ a = None THEN Deny("CONTEXT_NOT_USABLE")
     ELSE IF f.tx.amount <= 0 THEN Deny("CONTEXT_NOT_USABLE")
     ELSE IF ~a.ours THEN Deny("BUYER_NOT_AUTHORISED")
     ELSE IF a.initiator = None THEN Deny("CONTEXT_NOT_USABLE")
     ELSE IF a.initiator = f.principal THEN Deny("SEPARATION_OF_DUTIES")
     ELSE IF ~BoundTo(f) THEN Deny("TRANSACTION_CHANGED")
     ELSE IF ~(a.status = "PENDING" \/ (a.status = "APPROVED" /\ a.approver = f.principal))
     THEN Deny("CONTEXT_NOT_USABLE")
     ELSE IF Unavailable(f, "limits") THEN NoSource
     ELSE IF Ambiguous(f.limits) THEN Deny("CONTEXT_NOT_USABLE")
     ELSE IF f.limits = {} THEN Deny("APPROVAL_AUTHORITY_NOT_CONFIGURED")
     ELSE IF limit = None THEN Deny("APPROVAL_AUTHORITY_NOT_CONFIGURED")
     ELSE IF limit <= 0 THEN Deny("APPROVAL_AUTHORITY_NOT_CONFIGURED")
     ELSE IF f.tx.amount > limit THEN Deny("APPROVAL_THRESHOLD_EXCEEDED")
     ELSE Allow

--------------------------------------------------------------------------------
(* Commitments.                                                            *)

OverLimit(f) == f.tx.amount > Only(f.limits).order
OverThreshold(f) ==
  /\ f.policies # {}
  /\ Only(f.policies).threshold # None
  /\ f.tx.amount > Only(f.policies).threshold
Reasons(f) == (IF OverLimit(f) THEN {"SPEND_LIMIT_EXCEEDED"} ELSE {})
              \cup (IF OverThreshold(f) THEN {"APPROVAL_THRESHOLD_EXCEEDED"} ELSE {})

\* Above a limit or threshold, under an approval policy, an approval decides.
Escalate(f) ==
  IF Unavailable(f, "policies") THEN NoSource
  ELSE IF Ambiguous(f.policies) THEN Deny("CONTEXT_NOT_USABLE")
  ELSE IF OverLimit(f) /\ f.policies = {} THEN Deny("SPEND_LIMIT_EXCEEDED")
  ELSE IF ~OverLimit(f) /\ ~OverThreshold(f) THEN Allow
  ELSE IF f.approval = None THEN [outcome |-> "APPROVAL_REQUIRED", reasons |-> Reasons(f)]
  ELSE IF f.approval.status # "APPROVED"
  THEN [outcome |-> "APPROVAL_REQUIRED", reasons |-> Reasons(f)]
  ELSE ApplyApproval(f, Reasons(f))

\* `order` is the purchase-order rule against the number given.
EvaluateCommitment(f) ==
  LET limit == Only(f.limits).order IN
  IF f.tx = None THEN Deny("CONTEXT_NOT_USABLE")
  ELSE IF f.tx.amount <= 0 THEN Deny("CONTEXT_NOT_USABLE")
  ELSE IF Unavailable(f, "order") THEN NoSource
  ELSE IF f.order = "unmet" THEN Deny("PURCHASE_ORDER_REQUIRED")
  ELSE IF f.order = "unusable" THEN Deny("CONTEXT_NOT_USABLE")
  ELSE IF Unavailable(f, "limits") THEN NoSource
  ELSE IF Ambiguous(f.limits) THEN Deny("CONTEXT_NOT_USABLE")
  ELSE IF f.limits = {} THEN Deny("SPEND_POLICY_NOT_CONFIGURED")
  ELSE IF limit = None THEN Deny("SPEND_POLICY_NOT_CONFIGURED")
  ELSE IF limit <= 0 THEN Deny("SPEND_POLICY_NOT_CONFIGURED")
  ELSE IF EvaluateBudgets(f) # Allow THEN EvaluateBudgets(f)
  ELSE Escalate(f)

--------------------------------------------------------------------------------
(* The whole decision.                                                     *)

Permitted(f) == {r \in f.roles : r.role \in RuleOf(f).roles}
WithMarket(f) == {r \in Permitted(f) : RuleOf(f).market => r.market}
\* One assignment holds the grants of the market and of every site itself.
Scoped(f) == {r \in WithMarket(f) : \A s \in f.sites : s.site \in r.sites}

\* The refusals of the sites referenced, the first site's first in the code.
SiteRefusal(f, s) ==
  IF s.site \notin DOMAIN f.siteRecords THEN {"BUYER_NOT_AUTHORISED"}
  ELSE IF s.use \notin f.siteRecords[s.site] THEN {"SITE_NOT_PERMITTED"}
  ELSE {}
SiteRefusals(f) == UNION {SiteRefusal(f, s) : s \in f.sites}

Evaluate(f) ==
  IF f.op = "acceptInvitation" THEN Deny("OPERATION_NOT_ACTIVATED")
  ELSE IF ~f.member THEN Deny("BUYER_NOT_AUTHORISED")
  ELSE IF Unavailable(f, "roles") THEN NoSource
  ELSE IF Permitted(f) = {} THEN Deny("ROLE_NOT_PERMITTED")
  ELSE IF RuleOf(f).kind = "GOVERNED" THEN Deny("OPERATION_NOT_ACTIVATED")
  ELSE IF RuleOf(f).market /\ ~f.market THEN Deny("CONTEXT_NOT_USABLE")
  ELSE IF RuleOf(f).market /\ f.authority = "UNAVAILABLE" THEN NoSource
  ELSE IF RuleOf(f).market /\ f.authority # "ATTESTED" THEN Deny("MARKET_NOT_PERMITTED")
  ELSE IF \/ RuleOf(f).site = "NONE" /\ f.sites # {}
          \/ RuleOf(f).site = "REQUIRED" /\ \A s \in f.sites : s.use # "SHIPPING"
  THEN Deny("CONTEXT_NOT_USABLE")
  ELSE IF f.sites # {} /\ Unavailable(f, "siteRecords") THEN NoSource
  ELSE IF f.sites # {} /\ SiteRefusals(f) # {} THEN Deny(CHOOSE r \in SiteRefusals(f) : TRUE)
  ELSE IF WithMarket(f) = {} THEN Deny("MARKET_NOT_PERMITTED")
  ELSE IF Scoped(f) = {} THEN Deny("SITE_NOT_PERMITTED")
  ELSE IF RuleOf(f).kind = "COMMITMENT" THEN
         IF f.market THEN EvaluateCommitment(f) ELSE Deny("CONTEXT_NOT_USABLE")
  ELSE IF RuleOf(f).kind = "APPROVAL" THEN
         IF f.market THEN EvaluateApprovalDecision(f) ELSE Deny("CONTEXT_NOT_USABLE")
  ELSE Allow

Allowed == Evaluate(Loaded(store)).outcome = "ALLOW"

--------------------------------------------------------------------------------
(* Histories of the facts.                                                 *)

PolicyInit == store \in Cases /\ left = Changes

Turns(f) == left > 0 /\ left' = left - 1 /\ store' = f

\* An assignment is revoked, or one of its Market and Site grants.
RoleLost ==
  \E r \in store.roles :
    \/ Turns([store EXCEPT !.roles = @ \ {r}])
    \/ r.market /\ Turns([store EXCEPT !.roles = (@ \ {r}) \cup {[r EXCEPT !.market = FALSE]}])
    \/ \E s \in r.sites :
         Turns([store EXCEPT !.roles = (@ \ {r}) \cup {[r EXCEPT !.sites = @ \ {s}]}])

\* A delivery Site stops serving one use.
SiteClosed ==
  \E s \in DOMAIN store.siteRecords : \E use \in store.siteRecords[s] :
    Turns([store EXCEPT !.siteRecords[s] = @ \ {use}])

\* The membership ends, or the Control Plane no longer answers for the Market.
MembershipEnded == store.member /\ Turns([store EXCEPT !.member = FALSE])
MarketLost ==
  /\ store.authority = "ATTESTED"
  /\ \E answer \in {"DENIED", "UNAVAILABLE"} : Turns([store EXCEPT !.authority = answer])

\* A limit or an approval threshold is lowered, or the only limit is withdrawn.
LimitLowered ==
  \/ \E l \in store.limits :
       \/ store.limits = {l} /\ Turns([store EXCEPT !.limits = {}])
       \/ /\ l.order \notin {None, 0}
          /\ Turns([store EXCEPT !.limits = (@ \ {l}) \cup {[l EXCEPT !.order = @ - 1]}])
       \/ /\ l.approval \notin {None, 0}
          /\ Turns([store EXCEPT !.limits = (@ \ {l}) \cup {[l EXCEPT !.approval = @ - 1]}])
  \/ \E p \in store.policies :
       /\ p.threshold \notin {None, 0}
       /\ Turns([store EXCEPT !.policies = (@ \ {p}) \cup {[p EXCEPT !.threshold = @ - 1]}])

\* A purchase-order number is asked for that the purchase does not carry.
OrderAsked == store.order \in {"free", "met"} /\ Turns([store EXCEPT !.order = "unmet"])

\* Another purchase takes from a budget, or the policy of the budget is revised.
BudgetTightened ==
  \E b \in store.budgets :
    \/ /\ b.period # None /\ b.reserved < b.limit
       /\ Turns([store EXCEPT !.budgets = (@ \ {b}) \cup {[b EXCEPT !.reserved = @ + 1]}])
    \/ /\ b.revision = 1
       /\ Turns([store EXCEPT !.budgets = (@ \ {b}) \cup {[b EXCEPT !.revision = 2]}])

\* The purchase's own reservation closes or lapses.
HoldLapsed ==
  /\ store.reservation # None
  /\ store.reservation.usable
  /\ Turns([store EXCEPT !.reservation.usable = FALSE])

\* The purchase is edited: a version nothing was reserved or approved for.
PurchaseEdited ==
  /\ store.tx # None
  /\ store.tx.version = 1
  /\ Turns([store EXCEPT !.tx.version = 2])

\* The approval is cancelled, or its approver loses the authority to give it.
ApprovalLost ==
  \/ /\ store.approval # None
     /\ store.approval.status \in {"PENDING", "APPROVED"}
     /\ Turns([store EXCEPT !.approval.status = "CANCELLED"])
  \/ /\ store.reevaluation = "ALLOW"
     /\ \E outcome \in {"DENY", "UNAVAILABLE", None} : Turns([store EXCEPT !.reevaluation = outcome])

\* A source can no longer be read, or one of its rows no longer parses.
SourceFailed ==
  \E source \in Sources \ store.unavailable :
    Turns([store EXCEPT !.unavailable = @ \cup {source}])

PolicyNext ==
  \/ RoleLost
  \/ SiteClosed
  \/ MembershipEnded
  \/ MarketLost
  \/ LimitLowered
  \/ OrderAsked
  \/ BudgetTightened
  \/ HoldLapsed
  \/ PurchaseEdited
  \/ ApprovalLost
  \/ SourceFailed

PolicySpec == PolicyInit /\ [][PolicyNext]_policyVars

--------------------------------------------------------------------------------
(* What the decision promises.                                             *)

\* No operation becomes allowed because the buyer lost a permission, because a
\* restriction was added or because a source failed: neither the order of the
\* checks nor an escalation turns a missing fact into a permission
\* (buyer-operation-policy.ts:281-557, buyer-operation-policy-source.ts:213-219).
NeverGains == [][Allowed' => Allowed]_policyVars

\* An allowed commitment fits every budget in force that it is bound to: what the
\* budget has committed and reserved, with the purchase in place of the hold it
\* has itself under this very revision, is within the limit; a purchase its own
\* hold covers takes nothing more (buyer-operation-policy.ts:421-485).
WithinEveryBudget ==
  Allowed /\ RuleOf(store).kind = "COMMITMENT" =>
    \A b \in Charged(store) :
      LET own == {h \in IF store.reservation = None THEN {} ELSE store.reservation.holds :
                    <<h.policy, h.revision, h.period>> = <<b.policy, b.revision, b.period>>}
          held == IF own # {} /\ store.reservation.usable THEN Only(own).reserved ELSE 0
          used == IF b.period = None THEN 0 ELSE b.committed + b.reserved
      IN held >= store.tx.amount \/ used - held + store.tx.amount <= b.limit

================================================================================
