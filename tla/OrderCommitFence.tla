--------------------------- MODULE OrderCommitFence ---------------------------
(***************************************************************************)
(* Trade-A: native order commitment under the PostgreSQL commit fences.    *)
(* A completion attempt attributes a cart or draft to a seller binding,    *)
(* obtains a short-lived receipt of one Control Plane decision, and        *)
(* inserts an order; the triggers of Migration20261021090000 consume the   *)
(* receipt, those of Migration20261023120000 check the classification at   *)
(* COMMIT, and the cart may be completed only once an order is committed.  *)
(*                                                                         *)
(* Statements read the committed state (READ COMMITTED), so the fence's    *)
(* count and its later SELECT are steps of their own; what a transaction   *)
(* wrote becomes visible at CommitOrder.  One sales channel and currency   *)
(* is modelled, hence one advisory lock; "scope" stands for the region,    *)
(* customer and email an order must share with its cart.                   *)
(***************************************************************************)
EXTENDS Naturals, Sequences, FiniteSets

CONSTANTS Carts, Drafts,   \* native records that can become orders
          Orders,          \* ids of the orders inserted for carts
          Scopes, Lines,   \* what an order and its cart are compared by
          Bindings,        \* seller bindings
          Models,          \* commerce models, of B2B and B2C
          MaxVersion,      \* bound on the versions of a binding
          MaxReceipts,     \* bound on the receipts ever recorded
          NoCart           \* not a cart

ASSUME FenceAssumption ==
  /\ Carts \cap Drafts = {} /\ Orders \cap Drafts = {}
  /\ Models \subseteq {"B2B", "B2C"} /\ Models # {}
  /\ NoCart \notin Carts \cup Drafts
  /\ Scopes # {} /\ Lines # {} /\ Bindings # {}
  /\ MaxReceipts \in Nat /\ MaxVersion \in Nat \ {0}

VARIABLES cart,          \* the native carts
          order,         \* orders and draft orders
          tx,            \* the transactions that insert or finalise them
          attributed,    \* trade_commitment_attribution, per subject
          receipts,      \* trade_order_authority_receipt, by recorded_at
          commitments,   \* trade_order_commitment
          classified,    \* trade_native_commitment_classification
          profile,       \* the latest commerce profile observation
          gate,          \* trade_commit_fence_enforcement.mode
          posture        \* trade_a_persistence_posture

vars == <<cart, order, tx, attributed, receipts, commitments, classified,
          profile, gate, posture>>

Subjects == Carts \cup Drafts
References == [binding : Bindings, version : 1 .. MaxVersion]

Cart == [scope : Scopes, lines : Lines, completed : {"no", "fenced", "free"}]
Receipt == [subject : Subjects, reference : References,
            status : {"live", "lapsed", "consumed"}]
Commitment == [receipt : Nat \ {0}, subject : Subjects, order : Orders \cup Drafts,
               horizon : Nat]

\* for is the cart whose completion inserted the order; what else its row holds
\* is not read again after COMMIT.
Order == [status : {"none", "draft", "placed", "deleted"},
          for : Carts \cup {NoCart}, closed : {"no", "yes"}]

\* The transaction that inserts or finalises an order: the row's contents, the
\* subject whose receipts it takes, how many receipts were recorded by then,
\* and the verdict on its classification.
Transaction ==
  [stage : {"none", "counted", "taken", "verified"}, for : Carts \cup {NoCart},
   scope : Scopes, lines : Lines,
   subject : Subjects \cup {NoCart}, receipt : Nat, takes : SUBSET Nat,
   horizon : Nat, verdict : {"none", "ALLOWED", "refused"}]

Classification == [status : {"none", "ACTIVE", "QUARANTINED"},
                   reference : References, model : Models]

Unclassified == [status |-> "none",
                 reference |-> CHOOSE v \in References : TRUE,
                 model |-> CHOOSE m \in Models : TRUE]

NoTransaction ==
  [stage |-> "none", for |-> NoCart, scope |-> CHOOSE s \in Scopes : TRUE,
   lines |-> CHOOSE l \in Lines : TRUE, subject |-> NoCart,
   receipt |-> 0, takes |-> {}, horizon |-> 0, verdict |-> "none"]

Init ==
  /\ cart \in [Carts -> {c \in Cart : c.completed = "no"}]
  /\ order = [o \in Orders \cup Drafts |->
                [status |-> IF o \in Drafts THEN "draft" ELSE "none",
                 for |-> NoCart, closed |-> "no"]]
  /\ tx = [o \in Orders \cup Drafts |-> NoTransaction]
  /\ attributed = [s \in Subjects |-> {}]
  /\ receipts = <<>>
  /\ commitments = {}
  /\ classified = [s \in Subjects |-> Unclassified]
  /\ profile = "withdrawn"
  /\ gate = "SHADOW"
  /\ posture \in {"SANDBOX", "ENFORCED"}

------------------------------------------------------------------------------
(* Evidence: attribution, receipts, classification.                         *)

\* Cart building changes what the cart holds and whom it belongs to.
EditCart(k) ==
  /\ cart[k].completed = "no"
  /\ \E s \in Scopes, l \in Lines :
        cart' = [cart EXCEPT ![k].scope = s, ![k].lines = l]
  /\ UNCHANGED <<order, tx, attributed, receipts, commitments, classified,
                 profile, gate, posture>>

\* The attribution guard: the binding of a record never changes and its
\* version never regresses.
Continues(s, v) ==
  \A a \in attributed[s] : a.binding = v.binding /\ a.version <= v.version

Attribute(s, v) ==
  /\ Continues(s, v)
  /\ attributed' = [attributed EXCEPT ![s] = @ \cup {v}]
  /\ UNCHANGED <<cart, order, tx, receipts, commitments, classified,
                 profile, gate, posture>>

\* The decision was asked for under an attribution that a later one may have
\* overtaken by now; the receipt must match the one it names.
RecordReceipt(s, v) ==
  /\ Len(receipts) < MaxReceipts
  /\ v \in attributed[s]
  /\ receipts' = Append(receipts, [subject |-> s, reference |-> v, status |-> "live"])
  /\ UNCHANGED <<cart, order, tx, attributed, commitments, classified,
                 profile, gate, posture>>

\* lease_expires_at passes, at most 30 seconds after the decision arrived.
LeaseEnds(i) ==
  /\ receipts[i].status = "live"
  /\ receipts' = [receipts EXCEPT ![i] = [@ EXCEPT !.status = "lapsed"]]
  /\ UNCHANGED <<cart, order, tx, attributed, commitments, classified,
                 profile, gate, posture>>

\* A Control Plane answer about the estate's commerce profile is recorded, or
\* the attested one expires.
ObserveProfile ==
  /\ profile' \in {"attested", "withdrawn"} \ {profile}
  /\ UNCHANGED <<cart, order, tx, attributed, receipts, commitments,
                 classified, gate, posture>>

Current(s) ==
  {a \in attributed[s] : \A b \in attributed[s] : b.version <= a.version}

\* classify(): an equal answer changes nothing, a contradicting one
\* quarantines the record, and a retired record stays retired.
Classify(s, v, m) ==
  /\ \/ /\ classified[s].status = "none"
        /\ profile = "attested" /\ v \in Current(s)
        /\ classified' = [classified EXCEPT ![s] =
                            [status |-> "ACTIVE", reference |-> v, model |-> m]]
     \/ /\ classified[s].status = "ACTIVE" /\ v \in attributed[s]
        /\ <<v, m>> # <<classified[s].reference, classified[s].model>>
        /\ classified' = [classified EXCEPT ![s].status = "QUARANTINED"]
  /\ UNCHANGED <<cart, order, tx, attributed, receipts, commitments,
                 profile, gate, posture>>

------------------------------------------------------------------------------
(* The order fence.                                                         *)

\* pg_advisory_xact_lock, held until the inserting transaction ends.
LockFree == \A o \in Orders : tx[o].stage = "none"

Unconsumed(s) ==
  {i \in DOMAIN receipts : receipts[i].subject = s /\ receipts[i].status # "consumed"}
LiveOf(s) == {i \in Unconsumed(s) : receipts[i].status = "live"}

Candidates(scope) ==
  {k \in Carts : cart[k].completed = "no" /\ cart[k].scope = scope /\ LiveOf(k) # {}}

\* The order INSERT counts the carts that hold a live receipt.  Without one it
\* is refused in ENFORCED and left to native Medusa in SANDBOX; the insert may
\* carry contents read before the cart last changed.
CountCandidates(o, k) ==
  /\ order[o].status = "none"
  /\ LockFree
  /\ \E s \in Scopes, l \in Lines :
       LET row == [NoTransaction EXCEPT !.for = k, !.scope = s, !.lines = l] IN
       \/ /\ Candidates(s) = {} /\ posture = "SANDBOX"
          /\ tx' = [tx EXCEPT ![o] = [row EXCEPT !.stage = "verified"]]
       \/ /\ \E c \in Carts : Candidates(s) = {c}
          /\ tx' = [tx EXCEPT ![o] = [row EXCEPT !.stage = "counted"]]
  /\ UNCHANGED <<cart, order, attributed, receipts, commitments, classified,
                 profile, gate, posture>>

\* ORDER BY recorded_at DESC LIMIT 1.
IsNewest(i, is) == i \in is /\ \A j \in is : j <= i

\* Every unconsumed receipt of the subject is consumed with the chosen one,
\* and the receipt guard raises for one whose lease has passed.
MutantChosenOnly(s, i) == {i}
MutantAnySubject(s, i) == {j \in DOMAIN receipts : receipts[j].status # "consumed"}
Spent(s, i) == Unconsumed(s)
Consumable(s) == Unconsumed(s) = LiveOf(s)

\* Rows another open transaction has updated stay locked until it ends.
Unlocked(is) == \A p \in Orders \cup Drafts : tx[p].takes \cap is = {}

\* Transaction o consumes receipt i of subject s.
Take(o, s, i) ==
  /\ Consumable(s) /\ Unlocked(Spent(s, i))
  /\ tx' = [tx EXCEPT ![o] = [@ EXCEPT !.stage = "taken", !.subject = s, !.receipt = i,
                                       !.takes = Spent(s, i), !.horizon = Len(receipts)]]

\* The newest live receipt of any matching cart is locked and consumed.
TakeReceipt(o) ==
  /\ tx[o].stage = "counted"
  /\ \E k \in Candidates(tx[o].scope) : \E i \in LiveOf(k) :
       /\ IsNewest(i, UNION {LiveOf(c) : c \in Candidates(tx[o].scope)})
       /\ Take(o, k, i)
  /\ UNCHANGED <<cart, order, attributed, receipts, commitments, classified,
                 profile, gate, posture>>

\* is_draft_order turns false, by the receipt of that draft.
FinaliseDraft(d) ==
  /\ order[d].status = "draft" /\ tx[d].stage = "none"
  /\ \/ \E i \in LiveOf(d) : IsNewest(i, LiveOf(d)) /\ Take(d, d, i)
     \/ /\ LiveOf(d) = {} /\ posture = "SANDBOX" /\ attributed[d] = {}
        /\ tx' = [tx EXCEPT ![d] = [@ EXCEPT !.stage = "verified"]]
  /\ UNCHANGED <<cart, order, attributed, receipts, commitments, classified,
                 profile, gate, posture>>

\* At COMMIT: the order carries exactly its cart's lines and scope.
SameContent(o, s) ==
  s \in Carts => tx[o].scope = cart[s].scope /\ tx[o].lines = cart[s].lines

\* At COMMIT: the classification, the receipt and the profile agree, and no
\* B2B commitment passes yet.
Allowed(o, s) ==
  /\ classified[s].status = "ACTIVE"
  /\ classified[s].reference = receipts[tx[o].receipt].reference
  /\ profile = "attested"
  /\ classified[s].model = "B2C"

\* The deferred triggers run; the gate's row stays locked FOR SHARE.
Verify(o) ==
  LET s == tx[o].subject
      verdict == IF Allowed(o, s) THEN "ALLOWED" ELSE "refused" IN
  /\ tx[o].stage = "taken"
  /\ SameContent(o, s)
  /\ gate = "ENFORCED" => Allowed(o, s)
  /\ tx' = [tx EXCEPT ![o] = [@ EXCEPT !.stage = "verified", !.verdict = verdict]]
  /\ UNCHANGED <<cart, order, attributed, receipts, commitments, classified,
                 profile, gate, posture>>

Consume(is) ==
  receipts' = [i \in DOMAIN receipts |->
                 IF i \in is THEN [receipts[i] EXCEPT !.status = "consumed"]
                            ELSE receipts[i]]

\* The receipt a transaction's commitment rests on, if it makes one.
RestsOn(o) == {tx[o].receipt} \ {0}

CommitOrder(o) ==
  /\ tx[o].stage = "verified"
  /\ order' = [order EXCEPT ![o].status = "placed", ![o].for = tx[o].for]
  /\ Consume(tx[o].takes)
  /\ commitments' =
       commitments \cup
         {[receipt |-> i, subject |-> tx[o].subject, order |-> o,
           horizon |-> tx[o].horizon] : i \in RestsOn(o)}
  /\ tx' = [tx EXCEPT ![o] = NoTransaction]
  /\ UNCHANGED <<cart, attributed, classified, profile, gate, posture>>

\* A refusal, an error or a crash: nothing of the transaction stays.
Rollback(o) ==
  /\ tx[o].stage # "none"
  /\ tx' = [tx EXCEPT ![o] = NoTransaction]
  /\ UNCHANGED <<cart, order, attributed, receipts, commitments, classified,
                 profile, gate, posture>>

------------------------------------------------------------------------------
(* What follows the order's transaction.                                    *)

\* A commitment of the cart whose order still exists.
Committed(k) ==
  \E c \in commitments : c.subject = k /\ order[c.order].status = "placed"

\* The cart fence: completed_at turns non-null.
CompleteCart(o) ==
  LET k == order[o].for IN
  /\ order[o].status = "placed" /\ k \in Carts
  /\ cart[k].completed = "no"
  /\ \/ Committed(k) /\ cart' = [cart EXCEPT ![k].completed = "fenced"]
     \/ /\ ~Committed(k) /\ posture = "SANDBOX" /\ attributed[k] = {}
        /\ cart' = [cart EXCEPT ![k].completed = "free"]
  /\ order' = [order EXCEPT ![o].closed = "yes"]
  /\ UNCHANGED <<tx, attributed, receipts, commitments, classified, profile,
                 gate, posture>>

\* Saga compensation undoes the completion, then hard-deletes the order.
ReopenCart(o) ==
  /\ order[o].closed = "yes"
  /\ cart' = [cart EXCEPT ![order[o].for].completed = "no"]
  /\ order' = [order EXCEPT ![o].closed = "no"]
  /\ UNCHANGED <<tx, attributed, receipts, commitments, classified, profile,
                 gate, posture>>

DeleteOrder(o) ==
  /\ order[o].status = "placed" /\ order[o].closed = "no"
  /\ order' = [order EXCEPT ![o].status = "deleted"]
  /\ UNCHANGED <<cart, tx, attributed, receipts, commitments, classified,
                 profile, gate, posture>>

MutantSwitchGate ==
  /\ gate' \in {"SHADOW", "ENFORCED"} \ {gate}
  /\ UNCHANGED <<cart, order, tx, attributed, receipts, commitments,
                 classified, profile, posture>>

\* An operator switches the gate once no checked transaction is open.
SwitchGate ==
  /\ \A o \in Orders \cup Drafts : tx[o].stage = "verified" => tx[o].receipt = 0
  /\ gate' \in {"SHADOW", "ENFORCED"} \ {gate}
  /\ UNCHANGED <<cart, order, tx, attributed, receipts, commitments,
                 classified, profile, posture>>

\* The posture only moves from SANDBOX to ENFORCED.
Enforce ==
  /\ posture = "SANDBOX" /\ posture' = "ENFORCED"
  /\ UNCHANGED <<cart, order, tx, attributed, receipts, commitments,
                 classified, profile, gate>>

Authority(s) ==
  \E v \in References :
    Attribute(s, v) \/ RecordReceipt(s, v)
      \/ \E m \in Models : Classify(s, v, m)

Completion(o) ==
  \/ \E k \in Carts : CountCandidates(o, k)
  \/ TakeReceipt(o) \/ CompleteCart(o) \/ ReopenCart(o) \/ DeleteOrder(o)

Closing(o) == Verify(o) \/ CommitOrder(o) \/ Rollback(o)

Next ==
  \/ \E k \in Carts : EditCart(k)
  \/ \E s \in Subjects : Authority(s)
  \/ \E i \in DOMAIN receipts : LeaseEnds(i)
  \/ \E o \in Orders : Completion(o)
  \/ \E d \in Drafts : FinaliseDraft(d)
  \/ \E o \in Orders \cup Drafts : Closing(o)
  \/ ObserveProfile \/ SwitchGate \/ Enforce

Spec == Init /\ [][Next]_vars
------------------------------------------------------------------------------
(* Properties.                                                              *)

\* The rows keep their shape.
TypeOK ==
  /\ cart \in [Carts -> Cart]
  /\ order \in [Orders \cup Drafts -> Order]
  /\ tx \in [Orders \cup Drafts -> Transaction]
  /\ attributed \in [Subjects -> SUBSET References]
  /\ receipts \in Seq(Receipt)
  /\ commitments \subseteq Commitment
  /\ classified \in [Subjects -> Classification]
  /\ profile \in {"attested", "withdrawn"}
  /\ gate \in {"SHADOW", "ENFORCED"}
  /\ posture \in {"SANDBOX", "ENFORCED"}

\* A commitment rests on a receipt of its own subject that is spent, no two
\* rest on the same one, and what is about to commit rests on one that is not
\* spent yet (the commit fence, whatever expires, rolls back or is recorded
\* while the transaction is open).
OneReceiptEach ==
  /\ \A c \in commitments :
       /\ receipts[c.receipt].subject = c.subject
       /\ receipts[c.receipt].status = "consumed"
       /\ \A d \in commitments : c.receipt = d.receipt => c = d
  /\ \A o \in Orders \cup Drafts :
       \A i \in tx[o].takes : receipts[i].status # "consumed"

\* "Never left for reuse": once an order was committed for a record, nothing
\* authorises a second one but a receipt recorded after the first took its own,
\* though the first be deleted since.
NoReuse ==
  \A c, d \in commitments :
    c.subject = d.subject /\ c.receipt < d.receipt => c.horizon < d.receipt

\* A receipt is spent by an order committed for its own subject, as the one it
\* rests on or as one recorded before: what rolls back, and what another record
\* commits, leaves it usable.
SpentByItsOwn ==
  \A i \in DOMAIN receipts :
    receipts[i].status = "consumed" =>
      \E c \in commitments : c.subject = receipts[i].subject /\ i <= c.horizon

\* No order commits under the ENFORCED gate with a verdict of the SHADOW one:
\* "there is no window in which an order commits under the mode it was not
\* evaluated in".
PlacedWhileEnforced(o) ==
  gate = "ENFORCED" /\ tx[o].receipt # 0
    /\ order[o].status # "placed" /\ order'[o].status = "placed"
EvaluatedAsEnforced ==
  \A o \in Orders \cup Drafts : PlacedWhileEnforced(o) => tx[o].verdict = "ALLOWED"
DecidedInItsMode == [][EvaluatedAsEnforced]_vars

\* "A retry needs a new receipt", and with one it is admitted: an older receipt
\* whose lease has passed is no obstacle.
RetryAdmitted == \A k \in Carts : LiveOf(k) # {} => Consumable(k)
==============================================================================
