---------------------------- MODULE SellerCheckout ----------------------------
(***************************************************************************)
(* The seller binding of one cart and the checkout that rests on it: three *)
(* people propose, approve and activate the binding, any authorised person *)
(* revokes it, and completeCart consumes one recorded authorization at the *)
(* write that completes the cart (postgres-governed-binding-persistence,   *)
(* authenticated-binding-intake, native-cart-legal-seller, Migrations      *)
(* 20261013150000 and 20261014090000).                                     *)
(*                                                                         *)
(* Rows of two carts never meet, so one cart is the whole system.  Every   *)
(* transaction is taken apart at its lock waits and at its COMMIT: the     *)
(* deferred checks are one step and becoming visible is the next, and time *)
(* may pass between any two.  What a transaction wrote is applied when it  *)
(* commits.  Clocks appear as what they decide: a binding or a lease is in *)
(* time until it lapses, and the five seconds of an admission, or the two  *)
(* of an assessment, are over when its transaction is abandoned.           *)
(*                                                                         *)
(* An operator Mutant... is a wrong form of the definition after it; no    *)
(* action uses it.                                                         *)
(***************************************************************************)
EXTENDS Naturals, Sequences, FiniteSets

CONSTANTS People,       \* principals the Control Plane authorises commands of
          Checkouts,    \* runs of completeCart
          Coordinates,  \* sales channel, region and currency of the cart
          Nobody,       \* no principal, no run
          MaxReceipts,  \* bound on the authorizations ever recorded
          MaxCommands   \* bound on the binding commands in flight at once

ASSUME SellerAssumption ==
  /\ People \cap Checkouts = {} /\ Nobody \notin People \cup Checkouts
  /\ Coordinates # {} /\ MaxReceipts \in Nat /\ MaxCommands \in Nat

VARIABLES binding,    \* native_seller_cart_binding, its one row of this cart
          decisions,  \* la05_binding_decision, by binding_revision
          receipts,   \* la05_checkout_authorization, by created_at
          cart,       \* Medusa's cart
          command,    \* the binding command each person has in flight
          run,        \* the runs of completeCart
          fence,      \* who holds the advisory lock seller-binding/{cart}
          row         \* who holds the row lock of the cart, alone or shared

vars == <<binding, decisions, receipts, cart, command, run, fence, row>>

Operations == {"propose", "approve", "activate", "revoke"}

\* activated: activation_snapshot is set, which no later transition undoes;
\* lapsed: expires_at, or the expiry of the activation's context, has passed.
Binding == [status : {"NONE", "PROPOSED", "ACTIVE", "REVOKED"}, revision : Nat,
            maker : People \cup {Nobody}, checker : People \cup {Nobody},
            at : Coordinates, activated : BOOLEAN, lapsed : BOOLEAN]
Decision == [decision : Operations, actor : People]

\* open: neither stamp; consumed: consumed_at; released: both, in that order;
\* void: both at once.
Receipt == [status : {"open", "consumed", "released", "void"}, revision : Nat,
            lapsed : BOOLEAN]
Command == [at : {"idle", "admitted", "fenced", "written", "checked"},
            op : Operations, revision : Nat, scope : Coordinates]
Run == [at : {"idle", "assessed", "recording", "inserted", "recordable", "hooked",
              "completing", "taken", "completable", "completed",
              "reopening", "released"},
        gated : BOOLEAN, receipt : Nat]

SomeCoordinates == CHOOSE c \in Coordinates : TRUE
NoBinding == [status |-> "NONE", revision |-> 0, maker |-> Nobody, checker |-> Nobody,
              at |-> SomeCoordinates, activated |-> FALSE, lapsed |-> FALSE]
NoCommand == [at |-> "idle", op |-> "revoke", revision |-> 0, scope |-> SomeCoordinates]
NoRun == [at |-> "idle", gated |-> FALSE, receipt |-> 0]

TypeOK ==
  /\ binding \in Binding
  /\ decisions \in Seq(Decision)
  /\ receipts \in Seq(Receipt)
  /\ cart \in [completed : BOOLEAN, at : Coordinates]
  /\ command \in [People -> Command]
  /\ run \in [Checkouts -> Run]
  /\ fence \in People \cup Checkouts \cup {Nobody}
  /\ row \in [alone : Checkouts \cup {Nobody}, shared : SUBSET (People \cup Checkouts)]

Init ==
  /\ binding = NoBinding
  /\ decisions = <<>> /\ receipts = <<>>
  /\ cart \in [completed : {FALSE}, at : Coordinates]
  /\ command = [p \in People |-> NoCommand]
  /\ run = [k \in Checkouts |-> NoRun]
  /\ fence = Nobody
  /\ row = [alone |-> Nobody, shared |-> {}]

Unlocked(q) == [row EXCEPT !.alone = IF @ = q THEN Nobody ELSE @, !.shared = @ \ {q}]
Unfenced(q) == IF fence = q THEN Nobody ELSE fence

------------------------------------------------------------------------------
(* Binding commands.                                                        *)

\* The checker is not the maker and the activator is neither.
MutantIndependent(p, op) == op \in {"approve", "activate"} => p # binding.maker
Independent(p, op) ==
  /\ op = "approve" => p # binding.maker
  /\ op = "activate" => p \notin {binding.maker, binding.checker}

OpenAt(scope) == ~cart.completed /\ cart.at = scope

\* What execute() demands of the row it loads.  A proposal loads none.
Loaded(op) ==
  \/ op = "propose"
  \/ op = "approve" /\ binding.status = "PROPOSED" /\ binding.checker = Nobody
  \/ op = "activate" /\ binding.status = "PROPOSED" /\ binding.checker # Nobody
  \/ op = "revoke" /\ binding.status \in {"PROPOSED", "ACTIVE"}

\* The route up to the transaction: the row, the cart and the Control Plane's
\* answers are read, and read again, without a lock.  The step stands for the
\* last reading: the transaction looks at all of it once more.
Intake(p, op) ==
  LET scope == IF op = "propose" THEN cart.at ELSE binding.at IN
  /\ command[p].at = "idle"
  /\ Cardinality({q \in People : command[q].at # "idle"}) < MaxCommands
  /\ Loaded(op) /\ Independent(p, op)
  /\ op # "revoke" => OpenAt(scope)
  /\ command' = [command EXCEPT ![p] =
       [at |-> "admitted", op |-> op, revision |-> binding.revision, scope |-> scope]]
  /\ UNCHANGED <<binding, decisions, receipts, cart, run, fence, row>>

\* expires_at, or that of the activation's context, passes.
BindingLapses ==
  /\ binding.status # "NONE" /\ ~binding.lapsed
  /\ binding' = [binding EXCEPT !.lapsed = TRUE]
  /\ UNCHANGED <<decisions, receipts, cart, command, run, fence, row>>

TakeFence(p) ==
  /\ command[p].at = "admitted" /\ fence = Nobody
  /\ fence' = p
  /\ command' = [command EXCEPT ![p].at = "fenced"]
  /\ UNCHANGED <<binding, decisions, receipts, cart, run, row>>

\* The row, locked FOR UPDATE, and the WHERE clause of each statement.
Proposes(c) == binding.status = "NONE"
Approves(c) == /\ binding.status = "PROPOSED" /\ binding.revision = c.revision
               /\ binding.checker = Nobody /\ ~binding.lapsed
Activates(c) ==
  /\ binding.status = "PROPOSED" /\ binding.revision = c.revision
  /\ binding.checker # Nobody /\ ~binding.lapsed
  /\ decisions = << [decision |-> "propose", actor |-> binding.maker],
                    [decision |-> "approve", actor |-> binding.checker] >>
Revokes(c) == /\ binding.status \in {"PROPOSED", "ACTIVE"}
              /\ binding.revision = c.revision

Accepted(p) ==
  LET c == command[p] IN
  /\ c.op # "revoke" => OpenAt(c.scope)
  /\ Independent(p, c.op)
  /\ \/ c.op = "propose" /\ Proposes(c)
     \/ c.op = "approve" /\ Approves(c)
     \/ c.op = "activate" /\ Activates(c)
     \/ c.op = "revoke" /\ Revokes(c)

\* The cart row is locked FOR SHARE, which waits for whoever updates it.  A
\* revocation does not look at the cart.
GetsRow(p) == command[p].op = "revoke" \/ row.alone = Nobody

Write(p) ==
  /\ command[p].at = "fenced" /\ GetsRow(p) /\ Accepted(p)
  /\ row' = IF command[p].op = "revoke" THEN row ELSE [row EXCEPT !.shared = @ \cup {p}]
  /\ command' = [command EXCEPT ![p].at = "written"]
  /\ UNCHANGED <<binding, decisions, receipts, cart, run, fence>>

\* la05_binding_receipt, deferred to COMMIT: a command that is no revocation
\* still meets an open cart and a binding that has not expired.
StillCurrent(p) ==
  LET c == command[p] IN
  /\ c.op # "revoke" => OpenAt(c.scope) /\ Independent(p, c.op)
  /\ c.op \in {"approve", "activate"} => ~binding.lapsed

CheckAtCommit(p) ==
  /\ command[p].at = "written" /\ StillCurrent(p)
  /\ command' = [command EXCEPT ![p].at = "checked"]
  /\ UNCHANGED <<binding, decisions, receipts, cart, run, fence, row>>

\* The row after the statement, with the revision la05_binding_immutable gives.
Proposed(p) == [status |-> "PROPOSED", revision |-> 0, maker |-> p, checker |-> Nobody,
                at |-> command[p].scope, activated |-> FALSE, lapsed |-> FALSE]
Approved(p) == [binding EXCEPT !.checker = p, !.revision = @ + 1]
Activated == [binding EXCEPT !.status = "ACTIVE", !.activated = TRUE, !.revision = @ + 1]
Revoked == [binding EXCEPT !.status = "REVOKED", !.revision = @ + 1]

After(p) == [propose |-> Proposed(p), approve |-> Approved(p),
             activate |-> Activated, revoke |-> Revoked][command[p].op]

Commit(p) ==
  /\ command[p].at = "checked"
  /\ binding' = After(p)
  /\ decisions' = Append(decisions, [decision |-> command[p].op, actor |-> p])
  /\ command' = [command EXCEPT ![p] = NoCommand]
  /\ fence' = Unfenced(p) /\ row' = Unlocked(p)
  /\ UNCHANGED <<receipts, cart, run>>

Rollback(p) ==
  /\ command' = [command EXCEPT ![p] = NoCommand]
  /\ fence' = Unfenced(p) /\ row' = Unlocked(p)
  /\ UNCHANGED <<binding, decisions, receipts, cart, run>>

\* What the transaction must not do is refused; besides there are lock_timeout,
\* statement_timeout, an admission that is over by its next check, a lost
\* connection, a dead process, and the cycle of LockCart below.
Abandon(p) == command[p].at # "idle" /\ Rollback(p)

------------------------------------------------------------------------------
(* Checkout: the validate hook records an authorization.                    *)

\* A storefront edits the cart, or staff do, until it is completed.
MoveCart ==
  /\ ~cart.completed /\ row.alone = Nobody /\ row.shared = {}
  /\ \E c \in Coordinates \ {cart.at} : cart' = [cart EXCEPT !.at = c]
  /\ UNCHANGED <<binding, decisions, receipts, command, run, fence, row>>

InForce == binding.status = "ACTIVE" /\ ~binding.lapsed

Recording == {"assessed", "recording", "inserted", "recordable"}

\* The hook's assessment, as its last readings find the binding and the cart;
\* the answers it got are leases, the shortest of two seconds.  It compares the
\* cart's channel and region; that it does not ask for the currency is made
\* good by the INSERT.
Assess(k) ==
  /\ run[k].at = "idle"
  /\ InForce /\ binding.at = cart.at
  /\ Len(receipts) + Cardinality({j \in Checkouts : run[j].at \in Recording}) < MaxReceipts
  /\ run' = [run EXCEPT ![k] = [NoRun EXCEPT !.at = "assessed"]]
  /\ UNCHANGED <<binding, decisions, receipts, cart, command, fence, row>>

\* Outside production and staging the gate may be off, and then the hook
\* records nothing: what is left is the database's own fence.
PassUnrecorded(k) ==
  /\ run[k].at = "idle"
  /\ run' = [run EXCEPT ![k] = [NoRun EXCEPT !.at = "hooked"]]
  /\ UNCHANGED <<binding, decisions, receipts, cart, command, fence, row>>

BeginRecord(k) ==
  /\ run[k].at = "assessed" /\ fence = Nobody
  /\ fence' = k
  /\ run' = [run EXCEPT ![k].at = "recording"]
  /\ UNCHANGED <<binding, decisions, receipts, cart, command, row>>

Consumed == {i \in DOMAIN receipts : receipts[i].status = "consumed"}
Open == {i \in DOMAIN receipts : receipts[i].status = "open"}

\* A replay of a completed checkout needs, and records, nothing new.  Whether
\* the order's link is written yet decides only between this and a refusal.
Replay(k) ==
  /\ run[k].at = "recording" /\ cart.completed /\ Consumed # {}
  /\ run' = [run EXCEPT ![k] = [NoRun EXCEPT !.at = "hooked"]]
  /\ fence' = Unfenced(k)
  /\ UNCHANGED <<binding, decisions, receipts, cart, command, row>>

\* The guard of the INSERT, and at COMMIT la05_checkout_commit_lease again.
Recordable == InForce /\ OpenAt(binding.at)

Insert(k) ==
  /\ run[k].at = "recording" /\ Recordable /\ row.alone = Nobody
  /\ row' = [row EXCEPT !.shared = @ \cup {k}]
  /\ run' = [run EXCEPT ![k].at = "inserted"]
  /\ UNCHANGED <<binding, decisions, receipts, cart, command, fence>>

CheckInsert(k) ==
  /\ run[k].at = "inserted" /\ Recordable
  /\ run' = [run EXCEPT ![k].at = "recordable"]
  /\ UNCHANGED <<binding, decisions, receipts, cart, command, fence, row>>

CommitRecord(k) ==
  /\ run[k].at = "recordable"
  /\ receipts' = Append(receipts, [status |-> "open", revision |-> binding.revision,
                                   lapsed |-> FALSE])
  /\ run' = [run EXCEPT ![k] = [NoRun EXCEPT !.at = "hooked"]]
  /\ fence' = Unfenced(k) /\ row' = Unlocked(k)
  /\ UNCHANGED <<binding, decisions, cart, command>>

\* lease_expires_at of a recorded authorization passes.
LeaseEnds(i) ==
  /\ receipts[i].status = "open" /\ ~receipts[i].lapsed
  /\ receipts' = [receipts EXCEPT ![i].lapsed = TRUE]
  /\ UNCHANGED <<binding, decisions, cart, command, run, fence, row>>

------------------------------------------------------------------------------
(* Checkout: the write that completes the cart, and its compensation.       *)

\* UPDATE cart locks the row first; la05_checkout_commit_fence then looks for
\* a binding that was ever activated.  A completed cart is not stamped again.
\* Whoever records or commands holds the fence and waits for the row, which
\* is the opposite order: PostgreSQL then aborts one of the two.
LockCart(k) ==
  /\ run[k].at = "hooked"
  /\ row.alone = Nobody /\ row.shared = {} /\ ~cart.completed
  /\ row' = [row EXCEPT !.alone = k]
  /\ run' = [run EXCEPT ![k].at = "completing", ![k].gated = binding.activated]
  /\ UNCHANGED <<binding, decisions, receipts, cart, command, fence>>

\* A receipt of the binding as it is now, not lapsed.
Honoured(i) ==
  /\ InForce /\ binding.at = cart.at
  /\ receipts[i].revision = binding.revision /\ ~receipts[i].lapsed

Usable == {i \in Open : Honoured(i)}
Newest == {i \in Usable : \A j \in Usable : j <= i}

TakeUngated(k) ==
  /\ run[k].at = "completing" /\ ~run[k].gated
  /\ run' = [run EXCEPT ![k].at = "taken"]
  /\ UNCHANGED <<binding, decisions, receipts, cart, command, fence, row>>

MutantTake(k) ==
  /\ run[k].at = "completing" /\ run[k].gated
  /\ \E i \in Newest : run' = [run EXCEPT ![k].at = "taken", ![k].receipt = i]
  /\ UNCHANGED <<binding, decisions, receipts, cart, command, fence, row>>
Take(k) ==
  /\ run[k].at = "completing" /\ run[k].gated /\ fence = Nobody
  /\ fence' = k
  /\ \E i \in Newest : run' = [run EXCEPT ![k].at = "taken", ![k].receipt = i]
  /\ UNCHANGED <<binding, decisions, receipts, cart, command, row>>

CheckTaken(k) ==
  /\ run[k].at = "taken" /\ (run[k].gated => Honoured(run[k].receipt))
  /\ run' = [run EXCEPT ![k].at = "completable"]
  /\ UNCHANGED <<binding, decisions, receipts, cart, command, fence, row>>

Stamp(i, status) == [receipts[i] EXCEPT !.status = status]

\* One receipt is consumed; the older ones are voided with it.
MutantConsume(r) ==
  receipts' = [i \in DOMAIN receipts |->
    IF i = r THEN Stamp(i, "consumed") ELSE receipts[i]]
Consume(r) ==
  receipts' = [i \in DOMAIN receipts |->
    IF i = r THEN Stamp(i, "consumed")
    ELSE IF i \in Open THEN Stamp(i, "void") ELSE receipts[i]]

CommitCompletion(k) ==
  /\ run[k].at = "completable"
  /\ cart' = [cart EXCEPT !.completed = TRUE]
  /\ IF run[k].gated THEN Consume(run[k].receipt) ELSE UNCHANGED receipts
  /\ run' = [run EXCEPT ![k] = [NoRun EXCEPT !.at = "completed"]]
  /\ fence' = Unfenced(k) /\ row' = Unlocked(k)
  /\ UNCHANGED <<binding, decisions, command>>

\* A later step of the saga failed: the cart is opened again, and what it
\* consumed is released, never to be used once more.
Compensate(k) ==
  /\ run[k].at = "completed" /\ row.alone = Nobody /\ row.shared = {}
  /\ row' = [row EXCEPT !.alone = k]
  /\ run' = [run EXCEPT ![k].at = "reopening"]
  /\ UNCHANGED <<binding, decisions, receipts, cart, command, fence>>

Release(k) ==
  /\ run[k].at = "reopening" /\ fence = Nobody
  /\ fence' = k
  /\ run' = [run EXCEPT ![k].at = "released"]
  /\ UNCHANGED <<binding, decisions, receipts, cart, command, row>>

CommitReopen(k) ==
  /\ run[k].at = "released"
  /\ cart' = [cart EXCEPT !.completed = FALSE]
  /\ receipts' = [i \in DOMAIN receipts |->
       IF i \in Consumed THEN Stamp(i, "released")
       ELSE IF i \in Open THEN Stamp(i, "void") ELSE receipts[i]]
  /\ run' = [run EXCEPT ![k] = NoRun]
  /\ fence' = Unfenced(k) /\ row' = Unlocked(k)
  /\ UNCHANGED <<binding, decisions, command>>

\* The transaction ends without effect; a compensation is tried again.
Undo(k) ==
  /\ run' = [run EXCEPT ![k] = [NoRun EXCEPT !.at =
       IF run[k].at \in {"reopening", "released"} THEN "completed" ELSE "idle"]]
  /\ fence' = Unfenced(k) /\ row' = Unlocked(k)
  /\ UNCHANGED <<binding, decisions, receipts, cart, command>>

\* The run is done or answered from the order that exists; it is refused, or
\* its assessment has lapsed before it is recorded; it fails or dies.
Stop(k) == run[k].at # "idle" /\ Undo(k)

------------------------------------------------------------------------------

Transaction(p) == TakeFence(p) \/ Write(p) \/ CheckAtCommit(p) \/ Commit(p) \/ Abandon(p)
Hook(k) ==
  \/ Assess(k) \/ PassUnrecorded(k) \/ BeginRecord(k) \/ Replay(k)
  \/ Insert(k) \/ CheckInsert(k) \/ CommitRecord(k)
Completion(k) ==
  \/ LockCart(k) \/ TakeUngated(k) \/ Take(k) \/ CheckTaken(k) \/ CommitCompletion(k)
  \/ Compensate(k) \/ Release(k) \/ CommitReopen(k)

Next ==
  \/ \E p \in People : Transaction(p) \/ \E op \in Operations : Intake(p, op)
  \/ \E k \in Checkouts : Hook(k) \/ Completion(k) \/ Stop(k)
  \/ \E i \in DOMAIN receipts : LeaseEnds(i)
  \/ BindingLapses \/ MoveCart

Spec == Init /\ [][Next]_vars

------------------------------------------------------------------------------
(* Properties.                                                              *)

\* A binding that was ever activated rests on three decisions by three people:
\* the maker, the checker and the activator, whatever they ran concurrently.
ThreeHands ==
  binding.activated =>
    /\ Len(decisions) >= 3
    /\ \A i \in 1 .. 3 : decisions[i].decision = <<"propose", "approve", "activate">>[i]
    /\ \A i, j \in 1 .. 3 : i # j => decisions[i].actor # decisions[j].actor

\* A completed cart whose binding was ever activated rests on exactly one
\* authorization; none is left that a second completion could take, and an
\* open cart has none in use.
OneAuthorizationEach ==
  /\ cart.completed /\ binding.activated =>
       \E i \in DOMAIN receipts : Consumed = {i} /\ Open = {}
  /\ ~cart.completed => Consumed = {}

\* When a cart whose binding was activated becomes completed, the binding is
\* ACTIVE, not revoked meanwhile, the cart is where the binding was made for,
\* and an authorization of this very revision, never used, is consumed.
CompletesUnderItsBinding ==
  [][~cart.completed /\ cart'.completed /\ binding.activated =>
       /\ binding.status = "ACTIVE" /\ binding.at = cart.at
       /\ \E i \in Open : /\ receipts'[i].status = "consumed"
                          /\ receipts[i].revision = binding.revision]_vars
=============================================================================
