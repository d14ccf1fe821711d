------------------------- MODULE SellerCheckoutProofs -------------------------
(***************************************************************************)
(* What the seller binding and its authorizations guarantee for any number *)
(* of people, checkouts, coordinates, receipts and commands in flight.     *)
(***************************************************************************)
EXTENDS SellerCheckout, TLAPS

\* Who is in a transaction that has taken the fence of the cart.
Fenced(q) ==
  \/ q \in People /\ command[q].at \in {"fenced", "written", "checked"}
  \/ q \in Checkouts /\ \/ run[q].at \in {"recording", "inserted", "recordable", "released"}
                        \/ run[q].at \in {"taken", "completable"} /\ run[q].gated

\* Who has locked the cart row, for itself or with others.
Alone(q) ==
  q \in Checkouts /\ run[q].at \in {"completing", "taken", "completable",
                                    "reopening", "released"}
Sharing(q) ==
  \/ q \in People /\ command[q].at \in {"written", "checked"} /\ command[q].op # "revoke"
  \/ q \in Checkouts /\ run[q].at \in {"inserted", "recordable"}

\* Whoever needs a lock holds it, and the row is held alone or shared.
Locks ==
  /\ \A q \in People \cup Checkouts :
       /\ Fenced(q) => fence = q
       /\ Alone(q) => row.alone = q
       /\ Sharing(q) => q \in row.shared
  /\ row.alone # Nobody => row.shared = {}

CheckedByAnother == binding.checker # Nobody => binding.checker # binding.maker

\* What a command that has written still finds when it commits.
Pending(p) ==
  LET c == command[p] IN
  c.at \in {"written", "checked"} =>
    /\ c.op # "revoke" => ~cart.completed
    /\ Independent(p, c.op)
    /\ c.op = "activate" =>
         /\ binding.checker # Nobody
         /\ decisions = << [decision |-> "propose", actor |-> binding.maker],
                           [decision |-> "approve", actor |-> binding.checker] >>

\* An authorization is recorded for an open cart.
Recordings(k) == run[k].at \in {"inserted", "recordable"} => ~cart.completed

\* Whoever holds the cart row to complete it sees the binding as it was when it
\* got the row, and one that holds the fence as well has a receipt for it.
Completing(k) ==
  /\ run[k].at \in {"completing", "taken", "completable"} =>
       ~cart.completed /\ run[k].gated = binding.activated
  /\ run[k].at \in {"taken", "completable"} /\ run[k].gated =>
       /\ binding.status = "ACTIVE" /\ binding.at = cart.at
       /\ run[k].receipt \in Open
       /\ receipts[run[k].receipt].revision = binding.revision

Safe ==
  /\ CheckedByAnother
  /\ \A p \in People : Pending(p)
  /\ \A k \in Checkouts : Recordings(k) /\ Completing(k)
  /\ ThreeHands
  /\ OneAuthorizationEach

IInv == TypeOK /\ Locks /\ Safe

------------------------------------------------------------------------------
(* Types.                                                                   *)

LEMMA Defaults ==
  /\ SomeCoordinates \in Coordinates
  /\ NoBinding \in Binding /\ NoCommand \in Command /\ NoRun \in Run
<1>1. SomeCoordinates \in Coordinates
  BY SellerAssumption DEF SomeCoordinates
<1>. QED
  BY <1>1 DEF NoBinding, Binding, NoCommand, Command, Operations, NoRun, Run

\* One command, or one run, moves on.
LEMMA CommandMoves ==
  ASSUME TypeOK, NEW p \in People,
         NEW a \in {"idle", "admitted", "fenced", "written", "checked"}
  PROVE  [command EXCEPT ![p].at = a] \in [People -> Command]
<1>1. command[p] \in Command
  BY DEF TypeOK
<1>2. [command[p] EXCEPT !.at = a] \in Command
  BY <1>1 DEF Command
<1>. QED
  BY <1>2 DEF TypeOK

Places == {"idle", "assessed", "recording", "inserted", "recordable", "hooked",
           "completing", "taken", "completable", "completed", "reopening", "released"}

LEMMA RunMoves ==
  ASSUME TypeOK, NEW k \in Checkouts, NEW a \in Places
  PROVE  /\ [run EXCEPT ![k].at = a] \in [Checkouts -> Run]
         /\ [run EXCEPT ![k] = [NoRun EXCEPT !.at = a]] \in [Checkouts -> Run]
<1>1. run[k] \in Run
  BY DEF TypeOK
<1>2. [run[k] EXCEPT !.at = a] \in Run /\ [NoRun EXCEPT !.at = a] \in Run
  BY <1>1, Defaults DEF Run, Places
<1>3. [run EXCEPT ![k].at = a] \in [Checkouts -> Run]
  BY <1>2 DEF TypeOK
<1>4. [run EXCEPT ![k] = [NoRun EXCEPT !.at = a]] \in [Checkouts -> Run]
  BY <1>2 DEF TypeOK
<1>. QED
  BY <1>3, <1>4

LEMMA RunTakes ==
  ASSUME TypeOK, NEW k \in Checkouts, NEW a \in Places, NEW i \in Nat
  PROVE  [run EXCEPT ![k].at = a, ![k].receipt = i] \in [Checkouts -> Run]
<1>1. run[k] \in Run
  BY DEF TypeOK
<1>2. [run[k] EXCEPT !.at = a, !.receipt = i] \in Run
  BY <1>1 DEF Run, Places
<1>. QED
  BY <1>2 DEF TypeOK

LEMMA RunLocks ==
  ASSUME TypeOK, NEW k \in Checkouts, NEW a \in Places, NEW g \in BOOLEAN
  PROVE  [run EXCEPT ![k].at = a, ![k].gated = g] \in [Checkouts -> Run]
<1>1. run[k] \in Run
  BY DEF TypeOK
<1>2. [run[k] EXCEPT !.at = a, !.gated = g] \in Run
  BY <1>1 DEF Run, Places
<1>. QED
  BY <1>2 DEF TypeOK

Rows == [alone : Checkouts \cup {Nobody}, shared : SUBSET (People \cup Checkouts)]

LEMMA RowMoves ==
  ASSUME TypeOK, NEW q \in People \cup Checkouts
  PROVE  /\ [row EXCEPT !.shared = @ \cup {q}] \in Rows
         /\ q \in Checkouts => [row EXCEPT !.alone = q] \in Rows
  BY DEF TypeOK, Rows

LEMMA Freed ==
  ASSUME TypeOK, NEW q
  PROVE  /\ Unlocked(q) \in [alone : Checkouts \cup {Nobody}, shared : SUBSET (People \cup Checkouts)]
         /\ Unfenced(q) \in People \cup Checkouts \cup {Nobody}
  BY DEF TypeOK, Unlocked, Unfenced

LEMMA Stamped ==
  ASSUME TypeOK, NEW i \in DOMAIN receipts, NEW s \in {"open", "consumed", "released", "void"}
  PROVE  /\ Stamp(i, s) \in Receipt /\ Stamp(i, s).status = s
         /\ Stamp(i, s).revision = receipts[i].revision
<1>1. receipts[i] \in Receipt
  BY DEF TypeOK
<1>. QED
  BY <1>1 DEF Receipt, Stamp

LEMMA TypeStep ==
  ASSUME TypeOK, [Next]_vars
  PROVE  TypeOK'
<1>. USE SellerAssumption
<1>1. ASSUME NEW p \in People, NEW op \in Operations, Intake(p, op) PROVE TypeOK'
  BY <1>1 DEF Intake, TypeOK, Command, Binding
<1>2. ASSUME NEW p \in People, TakeFence(p) PROVE TypeOK'
  BY <1>2, CommandMoves DEF TakeFence, TypeOK
<1>3. ASSUME NEW p \in People, Write(p) PROVE TypeOK'
  BY <1>3, CommandMoves, RowMoves DEF Write, TypeOK, Rows
<1>4. ASSUME NEW p \in People, CheckAtCommit(p) PROVE TypeOK'
  BY <1>4, CommandMoves DEF CheckAtCommit, TypeOK
<1>5. ASSUME NEW p \in People, Commit(p) PROVE TypeOK'
  <2>1. command[p] \in Command
    BY DEF TypeOK
  <2>2. After(p) \in Binding
    <3>1. /\ Proposed(p) \in Binding /\ Approved(p) \in Binding
          /\ Activated \in Binding /\ Revoked \in Binding
      <4>1. binding \in Binding /\ binding.revision + 1 \in Nat
        BY DEF TypeOK, Binding
      <4>2. Proposed(p) \in Binding
        BY <2>1 DEF Proposed, Binding, Command
      <4>3. Approved(p) \in Binding
        BY <4>1 DEF Approved, Binding
      <4>4. Activated \in Binding
        BY <4>1 DEF Activated, Binding
      <4>5. Revoked \in Binding
        BY <4>1 DEF Revoked, Binding
      <4>. QED
        BY <4>2, <4>3, <4>4, <4>5
    <3>. QED
      BY <2>1, <3>1 DEF After, Command, Operations
  <2>3. Append(decisions, [decision |-> command[p].op, actor |-> p]) \in Seq(Decision)
    BY <2>1 DEF TypeOK, Decision, Command
  <2>. QED
    BY <1>5, <2>2, <2>3, Freed, Defaults DEF Commit, TypeOK
<1>6. ASSUME NEW p \in People, Abandon(p) PROVE TypeOK'
  BY <1>6, Freed, Defaults DEF Abandon, Rollback, TypeOK
<1>7. ASSUME NEW k \in Checkouts, Hook(k) PROVE TypeOK'
  <2>1. CASE Assess(k)
    <3>. run' \in [Checkouts -> Run]
      BY <2>1, RunMoves DEF Assess, Places
    <3>. QED
      BY <2>1 DEF Assess, TypeOK
  <2>2. CASE PassUnrecorded(k)
    <3>. run' \in [Checkouts -> Run]
      BY <2>2, RunMoves DEF PassUnrecorded, Places
    <3>. QED
      BY <2>2 DEF PassUnrecorded, TypeOK
  <2>6. CASE BeginRecord(k)
    <3>. run' \in [Checkouts -> Run]
      BY <2>6, RunMoves DEF BeginRecord, Places
    <3>. QED
      BY <2>6 DEF BeginRecord, TypeOK
  <2>7. CASE CheckInsert(k)
    <3>. run' \in [Checkouts -> Run]
      BY <2>7, RunMoves DEF CheckInsert, Places
    <3>. QED
      BY <2>7 DEF CheckInsert, TypeOK
  <2>3. CASE Replay(k)
    BY <2>3, Freed, RunMoves DEF Replay, TypeOK, Places
  <2>4. CASE Insert(k)
    BY <2>4, RunMoves, RowMoves DEF Insert, TypeOK, Places, Rows
  <2>5. CASE CommitRecord(k)
    <3>1. receipts' \in Seq(Receipt)
      <4>1. [status |-> "open", revision |-> binding.revision, lapsed |-> FALSE] \in Receipt
        BY DEF TypeOK, Binding, Receipt
      <4>. QED
        BY <2>5, <4>1 DEF CommitRecord, TypeOK
    <3>2. run' \in [Checkouts -> Run]
      BY <2>5, RunMoves DEF CommitRecord, Places
    <3>. QED
      BY <2>5, <3>1, <3>2, Freed DEF CommitRecord, TypeOK
  <2>. QED
    BY <1>7, <2>1, <2>2, <2>3, <2>4, <2>5, <2>6, <2>7 DEF Hook
<1>8. ASSUME NEW k \in Checkouts, Completion(k) PROVE TypeOK'
  <2>1. CASE LockCart(k)
    <3>1. binding.activated \in BOOLEAN
      BY DEF TypeOK, Binding
    <3>2. run' \in [Checkouts -> Run]
      BY <2>1, <3>1, RunLocks DEF LockCart, Places
    <3>. QED
      BY <2>1, <3>2, RowMoves DEF LockCart, TypeOK, Rows
  <2>2. CASE TakeUngated(k)
    <3>. run' \in [Checkouts -> Run]
      BY <2>2, RunMoves DEF TakeUngated, Places
    <3>. QED
      BY <2>2 DEF TakeUngated, TypeOK
  <2>7. CASE CheckTaken(k)
    <3>. run' \in [Checkouts -> Run]
      BY <2>7, RunMoves DEF CheckTaken, Places
    <3>. QED
      BY <2>7 DEF CheckTaken, TypeOK
  <2>8. CASE Release(k)
    <3>. run' \in [Checkouts -> Run]
      BY <2>8, RunMoves DEF Release, Places
    <3>. QED
      BY <2>8 DEF Release, TypeOK
  <2>3. CASE Take(k)
    <3>1. Newest \subseteq Nat
      BY DEF Newest, Usable, Open, TypeOK
    <3>. QED
      <4>1. PICK i \in Newest : run' = [run EXCEPT ![k].at = "taken", ![k].receipt = i]
        BY <2>3 DEF Take
      <4>2. run' \in [Checkouts -> Run]
        BY <3>1, <4>1, RunTakes DEF Places
      <4>. QED
        BY <2>3, <4>2 DEF Take, TypeOK
  <2>4. CASE CommitCompletion(k)
    <3>1. receipts' \in Seq(Receipt)
      <4>1. CASE run[k].gated
        <5>1. ASSUME NEW i \in DOMAIN receipts PROVE receipts[i] \in Receipt
          BY DEF TypeOK
        <5>2. receipts' = [i \in 1 .. Len(receipts) |->
                IF i = run[k].receipt THEN Stamp(i, "consumed")
                ELSE IF i \in Open THEN Stamp(i, "void") ELSE receipts[i]]
          BY <2>4, <4>1 DEF CommitCompletion, Consume, TypeOK
        <5>. QED
          BY <5>1, <5>2, Stamped DEF TypeOK
      <4>. QED
        BY <2>4, <4>1 DEF CommitCompletion, TypeOK
    <3>2. run' \in [Checkouts -> Run]
      BY <2>4, RunMoves DEF CommitCompletion, Places
    <3>. QED
      BY <2>4, <3>1, <3>2, Freed DEF CommitCompletion, TypeOK
  <2>5. CASE Compensate(k)
    <3>1. run' \in [Checkouts -> Run]
      BY <2>5, RunMoves DEF Compensate, Places
    <3>. QED
      BY <2>5, <3>1, RowMoves DEF Compensate, TypeOK, Rows
  <2>6. CASE CommitReopen(k)
    <3>1. receipts' \in Seq(Receipt)
      <4>1. ASSUME NEW i \in DOMAIN receipts PROVE receipts[i] \in Receipt
        BY DEF TypeOK
      <4>2. receipts' = [i \in 1 .. Len(receipts) |->
              IF i \in Consumed THEN Stamp(i, "released")
              ELSE IF i \in Open THEN Stamp(i, "void") ELSE receipts[i]]
        BY <2>6 DEF CommitReopen, TypeOK
      <4>. QED
        BY <4>1, <4>2, Stamped DEF TypeOK
    <3>. QED
      BY <2>6, <3>1, Freed, Defaults DEF CommitReopen, TypeOK
  <2>. QED
    BY <1>8, <2>1, <2>2, <2>3, <2>4, <2>5, <2>6, <2>7, <2>8 DEF Completion
<1>9. ASSUME NEW k \in Checkouts, Stop(k) PROVE TypeOK'
  BY <1>9, Freed, RunMoves DEF Stop, Undo, TypeOK, Places
<1>10. ASSUME NEW i \in DOMAIN receipts, LeaseEnds(i) PROVE TypeOK'
  <2>1. receipts[i] \in Receipt
    BY DEF TypeOK
  <2>2. [receipts[i] EXCEPT !.lapsed = TRUE] \in Receipt
    BY <2>1 DEF Receipt
  <2>3. receipts' \in Seq(Receipt)
    BY <1>10, <2>2 DEF LeaseEnds, TypeOK
  <2>. QED
    BY <1>10, <2>3 DEF LeaseEnds, TypeOK
<1>11. CASE BindingLapses
  BY <1>11 DEF BindingLapses, TypeOK, Binding
<1>12. CASE MoveCart
  BY <1>12 DEF MoveCart, TypeOK
<1>13. CASE UNCHANGED vars
  BY <1>13 DEF vars, TypeOK
<1>. QED
  BY <1>1, <1>2, <1>3, <1>4, <1>5, <1>6, <1>7, <1>8, <1>9, <1>10, <1>11, <1>12, <1>13
     DEF Next, Transaction

LEMMA InitTypes ==
  ASSUME Init
  PROVE  TypeOK
<1>1. decisions \in Seq(Decision) /\ receipts \in Seq(Receipt)
  BY DEF Init
<1>2. cart \in [completed : BOOLEAN, at : Coordinates]
  BY DEF Init
<1>3. row \in [alone : Checkouts \cup {Nobody}, shared : SUBSET (People \cup Checkouts)]
  BY DEF Init
<1>. QED
  BY <1>1, <1>2, <1>3, Defaults DEF Init, TypeOK

\* Types, for any number of people, checkouts and receipts.
THEOREM CheckoutTypeCorrect == Spec => []TypeOK
<1>. QED
  BY InitTypes, TypeStep, PTL DEF Spec

------------------------------------------------------------------------------
(* Locks.                                                                   *)

\* What the lock steps need of the types.
LEMMA LockTypes ==
  ASSUME TypeOK
  PROVE  /\ DOMAIN command = People /\ DOMAIN run = Checkouts
         /\ \A p \in People : command[p] \in Command
         /\ \A k \in Checkouts : run[k] \in Run
         /\ row \in Rows
         /\ People \cap Checkouts = {} /\ Nobody \notin People \cup Checkouts
  BY SellerAssumption DEF TypeOK, Rows

\* A command that moves within its transaction.
LEMMA CommandLocks ==
  ASSUME TypeOK, Locks, NEW p \in People,
         TakeFence(p) \/ Write(p) \/ CheckAtCommit(p)
  PROVE  Locks'
<1>1. CASE TakeFence(p)
  BY <1>1, LockTypes DEF TakeFence, Locks, Fenced, Alone, Sharing, Command
<1>2. CASE Write(p)
  BY <1>2, LockTypes DEF Write, GetsRow, Locks, Fenced, Alone, Sharing, Command, Rows
<1>3. CASE CheckAtCommit(p)
  BY <1>3, LockTypes DEF CheckAtCommit, Locks, Fenced, Alone, Sharing, Command
<1>. QED
  BY <1>1, <1>2, <1>3

\* Whoever ends its transaction frees what it held, and nobody else's locks.
LEMMA LocksFreed ==
  ASSUME TypeOK, Locks, NEW q \in People \cup Checkouts,
         \A r \in (People \cup Checkouts) \ {q} :
           (Fenced(r)' <=> Fenced(r)) /\ (Alone(r)' <=> Alone(r)) /\ (Sharing(r)' <=> Sharing(r)),
         ~Fenced(q)', ~Alone(q)', ~Sharing(q)',
         fence' = Unfenced(q), row' = Unlocked(q)
  PROVE  Locks'
  BY LockTypes DEF Locks, Unfenced, Unlocked, Rows

LEMMA LocksStep ==
  ASSUME TypeOK, Locks, [Next]_vars
  PROVE  Locks'
<1>1. ASSUME NEW p \in People, NEW op \in Operations, Intake(p, op) PROVE Locks'
  BY <1>1, LockTypes DEF Intake, Locks, Fenced, Alone, Sharing, Command
<1>2. ASSUME NEW p \in People, Transaction(p) PROVE Locks'
  <2>1. CASE Commit(p) \/ Abandon(p)
    <3>1. command' = [command EXCEPT ![p] = NoCommand] /\ UNCHANGED run
      BY <2>1 DEF Commit, Abandon, Rollback
    <3>2. fence' = Unfenced(p) /\ row' = Unlocked(p)
      BY <2>1 DEF Commit, Abandon, Rollback
    <3>. QED
      BY <3>1, <3>2, LocksFreed, LockTypes DEF Fenced, Alone, Sharing, NoCommand
  <2>. QED
    BY <1>2, <2>1, CommandLocks DEF Transaction
<1>3. ASSUME NEW k \in Checkouts, Hook(k) \/ Completion(k) \/ Stop(k) PROVE Locks'
  <2>1. CASE Assess(k) \/ PassUnrecorded(k)
    BY <2>1, LockTypes DEF Assess, PassUnrecorded, NoRun, Locks, Fenced, Alone, Sharing, Run
  <2>2. CASE BeginRecord(k)
    BY <2>2, LockTypes DEF BeginRecord, Locks, Fenced, Alone, Sharing, Run
  <2>3. CASE Insert(k)
    BY <2>3, LockTypes DEF Insert, Locks, Fenced, Alone, Sharing, Run, Rows
  <2>4. CASE CheckInsert(k)
    BY <2>4, LockTypes DEF CheckInsert, Locks, Fenced, Alone, Sharing, Run
  <2>5. CASE LockCart(k)
    BY <2>5, LockTypes DEF LockCart, Locks, Fenced, Alone, Sharing, Run, Rows
  <2>6. CASE TakeUngated(k)
    BY <2>6, LockTypes DEF TakeUngated, Locks, Fenced, Alone, Sharing, Run
  <2>7. CASE Take(k)
    BY <2>7, LockTypes DEF Take, Locks, Fenced, Alone, Sharing, Run
  <2>8. CASE CheckTaken(k)
    BY <2>8, LockTypes DEF CheckTaken, Locks, Fenced, Alone, Sharing, Run
  <2>9. CASE Compensate(k)
    BY <2>9, LockTypes DEF Compensate, Locks, Fenced, Alone, Sharing, Run, Rows
  <2>10. CASE Release(k)
    BY <2>10, LockTypes DEF Release, Locks, Fenced, Alone, Sharing, Run
  <2>11. CASE Replay(k)
    BY <2>11, LockTypes DEF Replay, NoRun, Unfenced, Locks, Fenced, Alone, Sharing, Run
  <2>12. CASE CommitRecord(k) \/ CommitCompletion(k) \/ CommitReopen(k) \/ Stop(k)
    <3>1. PICK a \in {"idle", "hooked", "completed"} :
            run' = [run EXCEPT ![k] = [NoRun EXCEPT !.at = a]]
      <4>1. NoRun = [NoRun EXCEPT !.at = "idle"]
        BY DEF NoRun
      <4>. QED
        BY <2>12, <4>1
           DEF CommitRecord, CommitCompletion, CommitReopen, Stop, Undo
    <3>2. UNCHANGED command /\ fence' = Unfenced(k) /\ row' = Unlocked(k)
      BY <2>12 DEF CommitRecord, CommitCompletion, CommitReopen, Stop, Undo
    <3>. QED
      BY <3>1, <3>2, LocksFreed, LockTypes DEF Fenced, Alone, Sharing, NoRun
  <2>. QED
    BY <1>3, <2>1, <2>2, <2>3, <2>4, <2>5, <2>6, <2>7, <2>8, <2>9, <2>10, <2>11, <2>12
       DEF Hook, Completion
<1>4. CASE \/ \E i \in DOMAIN receipts : LeaseEnds(i)
           \/ BindingLapses \/ MoveCart \/ UNCHANGED vars
  BY <1>4 DEF LeaseEnds, BindingLapses, MoveCart, vars, Locks, Fenced, Alone, Sharing
<1>. QED
  BY <1>1, <1>2, <1>3, <1>4 DEF Next

------------------------------------------------------------------------------
(* Steps that write nothing others read.                                    *)

\* The transaction of one person or one run moves on; the rows are as before.
LEMMA Quiet ==
  ASSUME Safe, UNCHANGED <<binding, decisions, receipts, cart>>,
         \A p \in People : Pending(p)',
         \A k \in Checkouts : Recordings(k)' /\ Completing(k)'
  PROVE  Safe'
  BY DEF Safe, CheckedByAnother, ThreeHands, OneAuthorizationEach, Consumed, Open

LEMMA QuietCommand ==
  ASSUME TypeOK, Safe, NEW p \in People,
         UNCHANGED <<binding, decisions, receipts, cart, run>>,
         \A q \in People \ {p} : command'[q] = command[q],
         Pending(p)'
  PROVE  Safe'
<1>1. ASSUME NEW q \in People PROVE Pending(q)'
  BY DEF Safe, Pending, Independent
<1>2. ASSUME NEW k \in Checkouts PROVE Recordings(k)' /\ Completing(k)'
  BY DEF Safe, Recordings, Completing, Open
<1>. QED
  BY <1>1, <1>2, Quiet

LEMMA QuietRun ==
  ASSUME TypeOK, Safe, NEW k \in Checkouts,
         UNCHANGED <<binding, decisions, receipts, cart, command>>,
         \A j \in Checkouts \ {k} : run'[j] = run[j],
         Recordings(k)', Completing(k)'
  PROVE  Safe'
<1>1. ASSUME NEW q \in People PROVE Pending(q)'
  BY DEF Safe, Pending, Independent
<1>2. ASSUME NEW j \in Checkouts PROVE Recordings(j)' /\ Completing(j)'
  BY DEF Safe, Recordings, Completing, Open
<1>. QED
  BY <1>1, <1>2, Quiet

LEMMA CommandQuiet ==
  ASSUME TypeOK, Locks, Safe, NEW p \in People,
         \/ \E op \in Operations : Intake(p, op)
         \/ TakeFence(p) \/ Write(p) \/ CheckAtCommit(p) \/ Abandon(p)
  PROVE  Safe'
<1>1. CASE \E op \in Operations : Intake(p, op)
  <2>1. Pending(p)'
    BY <1>1, LockTypes DEF Intake, Pending
  <2>. QED
    BY <1>1, <2>1, QuietCommand, LockTypes DEF Intake
<1>2. CASE TakeFence(p)
  <2>1. Pending(p)'
    BY <1>2, LockTypes DEF TakeFence, Pending, Command
  <2>. QED
    BY <1>2, <2>1, QuietCommand, LockTypes DEF TakeFence
<1>3. CASE Write(p)
  <2>1. /\ command'[p].op = command[p].op
        /\ UNCHANGED <<binding, decisions, cart>>
    BY <1>3, LockTypes DEF Write, Command
  <2>2. Pending(p)'
    BY <1>3, <2>1 DEF Write, Accepted, Activates, OpenAt, Pending, Independent
  <2>. QED
    BY <1>3, <2>2, QuietCommand, LockTypes DEF Write
<1>4. CASE CheckAtCommit(p)
  <2>1. command'[p].op = command[p].op /\ UNCHANGED <<binding, decisions, cart>>
    BY <1>4, LockTypes DEF CheckAtCommit, Command
  <2>2. Pending(p)'
    BY <1>4, <2>1 DEF CheckAtCommit, Safe, Pending, Independent
  <2>. QED
    BY <1>4, <2>2, QuietCommand, LockTypes DEF CheckAtCommit
<1>5. CASE Abandon(p)
  <2>1. Pending(p)'
    BY <1>5, LockTypes DEF Abandon, Rollback, NoCommand, Pending
  <2>. QED
    BY <1>5, <2>1, QuietCommand, LockTypes DEF Abandon, Rollback
<1>. QED
  BY <1>1, <1>2, <1>3, <1>4, <1>5

LEMMA RunQuiet ==
  ASSUME TypeOK, Locks, Safe, NEW k \in Checkouts,
         \/ Assess(k) \/ PassUnrecorded(k) \/ BeginRecord(k) \/ Replay(k)
         \/ Insert(k) \/ CheckInsert(k) \/ LockCart(k) \/ TakeUngated(k) \/ Take(k)
         \/ CheckTaken(k) \/ Compensate(k) \/ Release(k) \/ Stop(k)
  PROVE  Safe'
<1>0. /\ UNCHANGED <<binding, decisions, receipts, cart, command>>
      /\ \A j \in Checkouts \ {k} : run'[j] = run[j]
  BY LockTypes
     DEF Assess, PassUnrecorded, BeginRecord, Replay, Insert, CheckInsert, LockCart,
         TakeUngated, Take, CheckTaken, Compensate, Release, Stop, Undo
<1>1. Recordings(k)'
  BY <1>0, LockTypes
     DEF Assess, PassUnrecorded, BeginRecord, Replay, Insert, CheckInsert, LockCart,
         TakeUngated, Take, CheckTaken, Compensate, Release, Stop, Undo, NoRun, Run,
         Recordings, Recordable, OpenAt
<1>2. Completing(k)'
  <2>1. CASE LockCart(k)
    BY <2>1, <1>0, LockTypes DEF LockCart, Completing, Run
  <2>2. CASE TakeUngated(k)
    BY <2>2, <1>0, LockTypes DEF TakeUngated, Safe, Completing, Run, Open
  <2>3. CASE Take(k)
    <3>1. PICK i \in Newest : run'[k] = [run[k] EXCEPT !.at = "taken", !.receipt = i]
      BY <2>3, LockTypes DEF Take
    <3>2. i \in Open /\ Honoured(i)
      BY <3>1 DEF Newest, Usable
    <3>. QED
      BY <2>3, <3>1, <3>2, <1>0, LockTypes
         DEF Take, Safe, Completing, Honoured, InForce, Run, Open
  <2>4. CASE CheckTaken(k)
    BY <2>4, <1>0, LockTypes DEF CheckTaken, Safe, Completing, Run, Open
  <2>5. CASE ~(LockCart(k) \/ TakeUngated(k) \/ Take(k) \/ CheckTaken(k))
    BY <2>5, LockTypes
       DEF Assess, PassUnrecorded, BeginRecord, Replay, Insert, CheckInsert,
           Compensate, Release, Stop, Undo, NoRun, Run, Completing
  <2>. QED
    BY <2>1, <2>2, <2>3, <2>4, <2>5
<1>. QED
  BY <1>0, <1>1, <1>2, QuietRun

------------------------------------------------------------------------------
(* Steps that write.                                                        *)

\* Nobody else is between its statement and its COMMIT.
LEMMA FenceExcludes ==
  ASSUME Locks, NEW q \in People \cup Checkouts, Fenced(q),
         NEW r \in People \cup Checkouts, r # q
  PROVE  ~Fenced(r)
  BY DEF Locks

\* The cart row is not locked alone while somebody shares it, nor twice.
LEMMA RowExcludes ==
  ASSUME TypeOK, Locks, NEW q \in People \cup Checkouts, NEW k \in Checkouts, Alone(k)
  PROVE  ~Sharing(q) /\ (Alone(q) => q = k)
  BY SellerAssumption DEF Locks

LEMMA CommitSafe ==
  ASSUME TypeOK, Locks, Safe, NEW p \in People, Commit(p)
  PROVE  Safe'
<1>. DEFINE c == command[p]
<1>1. /\ c.at = "checked" /\ c \in Command /\ binding' = After(p)
      /\ decisions' = Append(decisions, [decision |-> c.op, actor |-> p])
      /\ command' = [command EXCEPT ![p] = NoCommand]
      /\ UNCHANGED <<receipts, cart, run>>
      /\ Fenced(p) /\ (c.op # "revoke" => Sharing(p))
  BY LockTypes DEF Commit, Fenced, Sharing
<1>2. Pending(p) /\ CheckedByAnother /\ ThreeHands /\ OneAuthorizationEach
  BY DEF Safe
<1>3. c.op # "revoke" => ~cart.completed
  BY <1>1, <1>2 DEF Pending
<1>4. binding \in Binding /\ decisions \in Seq(Decision) /\ Nobody \notin People
  BY SellerAssumption DEF TypeOK
<1>5. /\ c.op = "propose" => binding' = Proposed(p)
      /\ c.op = "approve" => binding' = Approved(p)
      /\ c.op = "activate" => binding' = Activated
      /\ c.op = "revoke" => binding' = Revoked
      /\ c.op \in Operations
  BY <1>1 DEF After, Command, Operations
<1>6. c.op = "propose" => binding'.checker = Nobody /\ ~binding'.activated
  BY <1>5 DEF Proposed
<1>7. c.op = "approve" => /\ binding'.checker = p /\ binding'.maker = binding.maker
                          /\ binding'.activated = binding.activated
  BY <1>4, <1>5 DEF Approved, Binding
<1>8. c.op \in {"activate", "revoke"} => /\ binding'.checker = binding.checker
                                        /\ binding'.maker = binding.maker
  BY <1>4, <1>5 DEF Activated, Revoked, Binding
<1>9. c.op = "revoke" => binding'.activated = binding.activated
  BY <1>4, <1>5 DEF Revoked, Binding
<1>10. c.op \in {"propose", "approve", "activate", "revoke"}
  BY <1>5 DEF Operations
<1>11. c.op = "approve" => p # binding.maker
  BY <1>1, <1>2 DEF Pending, Independent
<1>12. CheckedByAnother'
  BY <1>2, <1>6, <1>7, <1>8, <1>10, <1>11 DEF CheckedByAnother
<1>13. ASSUME NEW q \in People PROVE Pending(q)'
  <2>1. CASE q = p
    BY <2>1, <1>1, LockTypes DEF Pending, NoCommand
  <2>2. CASE q # p
    <3>1. ~Fenced(q)
      BY <2>2, <1>1, FenceExcludes
    <3>. QED
      BY <2>2, <3>1, <1>1, LockTypes DEF Fenced, Pending
  <2>. QED
    BY <2>1, <2>2
<1>14. ASSUME NEW k \in Checkouts PROVE Recordings(k)' /\ Completing(k)'
  <2>1. ~Fenced(k)
    BY <1>1, FenceExcludes, LockTypes
  <2>2. Alone(k) => c.op = "revoke"
    BY <1>1, RowExcludes
  <2>. QED
    BY <1>1, <2>1, <2>2, <1>9 DEF Safe, Recordings, Completing, Fenced, Alone
<1>15. ThreeHands'
  <2>1. CASE c.op = "activate"
    <3>0. decisions = << [decision |-> "propose", actor |-> binding.maker],
                         [decision |-> "approve", actor |-> binding.checker] >>
      BY <2>1, <1>1, <1>2 DEF Pending
    <3>1. /\ Len(decisions') = 3
          /\ decisions'[1] = [decision |-> "propose", actor |-> binding.maker]
          /\ decisions'[2] = [decision |-> "approve", actor |-> binding.checker]
          /\ decisions'[3] = [decision |-> "activate", actor |-> p]
      <4>1. Len(decisions) = 2 /\ decisions[1] \in Decision /\ decisions[2] \in Decision
        BY <3>0, <1>4
      <4>. QED
        BY <2>1, <1>1, <1>4, <3>0, <4>1
    <3>2. binding.maker # binding.checker /\ p \notin {binding.maker, binding.checker}
      BY <2>1, <1>1, <1>2 DEF Pending, Independent, CheckedByAnother
    <3>. HIDE DEF c
    <3>. QED
      BY <3>1, <3>2 DEF ThreeHands
  <2>2. CASE c.op # "activate"
    <3>1. binding'.activated => binding.activated
      BY <2>2, <1>6, <1>7, <1>9, <1>10
    <3>2. binding.activated =>
            Len(decisions') >= 3 /\ \A i \in 1 .. 3 : decisions'[i] = decisions[i]
      BY <1>1, <1>2, <1>4 DEF ThreeHands
    <3>. QED
      BY <1>2, <3>1, <3>2 DEF ThreeHands
  <2>. QED
    BY <2>1, <2>2
<1>16. OneAuthorizationEach'
  BY <1>1, <1>2, <1>3, <1>9 DEF OneAuthorizationEach, Consumed, Open
<1>. QED
  BY <1>12, <1>13, <1>14, <1>15, <1>16 DEF Safe

\* Recording appends an open authorization of an open cart.
LEMMA RecordSafe ==
  ASSUME TypeOK, Locks, Safe, NEW k \in Checkouts, CommitRecord(k)
  PROVE  Safe'
<1>. DEFINE new == [status |-> "open", revision |-> binding.revision, lapsed |-> FALSE]
<1>1. /\ receipts' = Append(receipts, new)
      /\ run' = [run EXCEPT ![k] = [NoRun EXCEPT !.at = "hooked"]]
      /\ UNCHANGED <<binding, decisions, cart, command>>
      /\ run[k].at = "recordable" /\ Fenced(k)
  BY DEF CommitRecord, Fenced
<1>2. ~cart.completed /\ Consumed = {}
  BY <1>1 DEF Safe, Recordings, OneAuthorizationEach
<1>3. Consumed' = {}
  <2>1. /\ Len(receipts') = Len(receipts) + 1
        /\ \A i \in 1 .. Len(receipts) : receipts'[i] = receipts[i]
        /\ receipts'[Len(receipts) + 1].status = "open"
    BY <1>1 DEF TypeOK
  <2>. QED
    BY <2>1, <1>1, <1>2 DEF Consumed, TypeOK
<1>4. ASSUME NEW q \in People PROVE Pending(q)'
  BY <1>1 DEF Safe, Pending, Independent
<1>5. ASSUME NEW j \in Checkouts PROVE Recordings(j)' /\ Completing(j)'
  <2>1. CASE j = k
    BY <2>1, <1>1, LockTypes DEF Recordings, Completing, NoRun
  <2>2. CASE j # k
    <3>1. ~Fenced(j)
      BY <2>2, <1>1, FenceExcludes
    <3>. QED
      BY <2>2, <3>1, <1>1, LockTypes DEF Safe, Recordings, Completing, Fenced
  <2>. QED
    BY <2>1, <2>2
<1>. QED
  BY <1>1, <1>2, <1>3, <1>4, <1>5
     DEF Safe, CheckedByAnother, ThreeHands, OneAuthorizationEach

\* Whoever holds the cart row alone ends its transaction: nobody else is in one
\* that depends on the cart.
LEMMA CartWritten ==
  ASSUME TypeOK, Locks, Safe, NEW k \in Checkouts, Alone(k),
         UNCHANGED <<binding, decisions, command>>,
         \A j \in Checkouts \ {k} : run'[j] = run[j],
         run'[k].at \in {"idle", "completed"},
         OneAuthorizationEach'
  PROVE  Safe'
<1>1. ASSUME NEW q \in People PROVE Pending(q)'
  <2>1. ~Sharing(q)
    BY RowExcludes
  <2>. QED
    BY <2>1 DEF Safe, Sharing, Pending, Independent
<1>2. ASSUME NEW j \in Checkouts PROVE Recordings(j)' /\ Completing(j)'
  <2>1. CASE j = k
    BY <2>1 DEF Recordings, Completing
  <2>2. CASE j # k
    <3>1. ~Sharing(j) /\ ~Alone(j)
      BY <2>2, RowExcludes
    <3>. QED
      BY <2>2, <3>1 DEF Sharing, Alone, Recordings, Completing
  <2>. QED
    BY <2>1, <2>2
<1>. QED
  BY <1>1, <1>2 DEF Safe, CheckedByAnother, ThreeHands

\* What a completion consumes and voids.
LEMMA ConsumeOne ==
  ASSUME TypeOK, Consumed = {}, NEW r \in Open, Consume(r)
  PROVE  /\ Consumed' = {r} /\ Open' = {}
         /\ r \in DOMAIN receipts' /\ receipts'[r].status = "consumed"
<1>1. /\ DOMAIN receipts' = DOMAIN receipts
      /\ \A i \in DOMAIN receipts :
           receipts'[i] = IF i = r THEN Stamp(i, "consumed")
                          ELSE IF i \in Open THEN Stamp(i, "void") ELSE receipts[i]
  BY DEF Consume
<1>2. ASSUME NEW i \in DOMAIN receipts
      PROVE  receipts'[i].status = IF i = r THEN "consumed"
                                   ELSE IF i \in Open THEN "void" ELSE receipts[i].status
  BY <1>1, Stamped
<1>. QED
  BY <1>1, <1>2 DEF Open, Consumed

LEMMA CompletionSafe ==
  ASSUME TypeOK, Locks, Safe, NEW k \in Checkouts, CommitCompletion(k)
  PROVE  Safe'
<1>1. /\ run[k].at = "completable" /\ Alone(k)
      /\ UNCHANGED <<binding, decisions, command>>
      /\ \A j \in Checkouts \ {k} : run'[j] = run[j]
      /\ run'[k].at = "completed" /\ cart'.completed
  BY LockTypes DEF CommitCompletion, Alone, NoRun, TypeOK
<1>2. /\ ~cart.completed /\ run[k].gated = binding.activated
      /\ run[k].gated => run[k].receipt \in Open
      /\ Consumed = {}
  BY <1>1 DEF Safe, Completing, OneAuthorizationEach
<1>3. OneAuthorizationEach'
  <2>1. CASE run[k].gated
    <3>1. Consume(run[k].receipt)
      BY <2>1 DEF CommitCompletion
    <3>. QED
      BY <2>1, <3>1, <1>1, <1>2, ConsumeOne DEF OneAuthorizationEach
  <2>2. CASE ~run[k].gated
    BY <2>2, <1>1, <1>2 DEF OneAuthorizationEach
  <2>. QED
    BY <2>1, <2>2
<1>. QED
  BY <1>1, <1>3, CartWritten

LEMMA ReopenSafe ==
  ASSUME TypeOK, Locks, Safe, NEW k \in Checkouts, CommitReopen(k)
  PROVE  Safe'
<1>1. /\ Alone(k) /\ UNCHANGED <<binding, decisions, command>>
      /\ \A j \in Checkouts \ {k} : run'[j] = run[j]
      /\ run'[k].at = "idle" /\ ~cart'.completed
  BY LockTypes DEF CommitReopen, Alone, NoRun, TypeOK
<1>2. Consumed' = {}
  <2>1. /\ DOMAIN receipts' = DOMAIN receipts
        /\ \A i \in DOMAIN receipts :
             receipts'[i] = IF i \in Consumed THEN Stamp(i, "released")
                            ELSE IF i \in Open THEN Stamp(i, "void") ELSE receipts[i]
    BY DEF CommitReopen
  <2>2. ASSUME NEW i \in DOMAIN receipts PROVE receipts'[i].status # "consumed"
    BY <2>1, Stamped DEF Consumed
  <2>. QED
    BY <2>1, <2>2 DEF Consumed
<1>3. OneAuthorizationEach'
  BY <1>1, <1>2 DEF OneAuthorizationEach
<1>. QED
  BY <1>1, <1>3, CartWritten

\* Time passes, or somebody edits the cart.
LEMMA OutsideSafe ==
  ASSUME TypeOK, Locks, Safe,
         (\E i \in DOMAIN receipts : LeaseEnds(i)) \/ BindingLapses \/ MoveCart
  PROVE  Safe'
<1>1. CASE \E i \in DOMAIN receipts : LeaseEnds(i)
  <2>1. /\ UNCHANGED <<binding, decisions, cart, command, run>>
        /\ DOMAIN receipts' = DOMAIN receipts
        /\ \A j \in DOMAIN receipts : /\ receipts'[j].status = receipts[j].status
                                      /\ receipts'[j].revision = receipts[j].revision
    <3>1. PICK i \in DOMAIN receipts : LeaseEnds(i)
      BY <1>1
    <3>2. \A j \in DOMAIN receipts : receipts[j] \in Receipt
      BY DEF TypeOK
    <3>. QED
      BY <3>1, <3>2 DEF LeaseEnds, Receipt
  <2>2. Open' = Open /\ Consumed' = Consumed
    BY <2>1 DEF Open, Consumed
  <2>3. ASSUME NEW q \in People PROVE Pending(q)'
    BY <2>1 DEF Safe, Pending, Independent
  <2>4. ASSUME NEW k \in Checkouts PROVE Recordings(k)' /\ Completing(k)'
    <3>1. Open \subseteq DOMAIN receipts
      BY DEF Open
    <3>. QED
      BY <2>1, <2>2, <3>1 DEF Safe, Recordings, Completing
  <2>5. OneAuthorizationEach'
    BY <2>1, <2>2 DEF Safe, OneAuthorizationEach
  <2>. QED
    BY <2>1, <2>3, <2>4, <2>5 DEF Safe, CheckedByAnother, ThreeHands
<1>2. CASE BindingLapses
  <2>1. /\ UNCHANGED <<decisions, receipts, cart, command, run>>
        /\ binding'.status = binding.status /\ binding'.revision = binding.revision
        /\ binding'.maker = binding.maker /\ binding'.checker = binding.checker
        /\ binding'.at = binding.at /\ binding'.activated = binding.activated
    BY <1>2 DEF BindingLapses, TypeOK, Binding
  <2>2. ASSUME NEW q \in People PROVE Pending(q)'
    BY <2>1 DEF Safe, Pending, Independent
  <2>3. ASSUME NEW k \in Checkouts PROVE Recordings(k)' /\ Completing(k)'
    BY <2>1 DEF Safe, Recordings, Completing, Open
  <2>. QED
    BY <2>1, <2>2, <2>3
       DEF Safe, CheckedByAnother, ThreeHands, OneAuthorizationEach, Consumed, Open
<1>3. CASE MoveCart
  <2>1. /\ UNCHANGED <<binding, decisions, receipts, command, run>>
        /\ cart'.completed = cart.completed /\ row.alone = Nobody
    BY <1>3 DEF MoveCart, TypeOK
  <2>2. ASSUME NEW q \in People PROVE Pending(q)'
    BY <2>1 DEF Safe, Pending, Independent
  <2>3. ASSUME NEW k \in Checkouts PROVE Recordings(k)' /\ Completing(k)'
    <3>1. ~Alone(k)
      BY <2>1, SellerAssumption DEF Locks
    <3>. QED
      BY <2>1, <3>1 DEF Safe, Recordings, Completing, Alone
  <2>. QED
    BY <2>1, <2>2, <2>3
       DEF Safe, CheckedByAnother, ThreeHands, OneAuthorizationEach, Consumed, Open
<1>. QED
  BY <1>1, <1>2, <1>3

LEMMA SafeStep ==
  ASSUME IInv, [Next]_vars
  PROVE  Safe'
<1>1. CASE UNCHANGED vars
  <2>1. \A p \in People : Pending(p)'
    BY <1>1 DEF vars, IInv, Safe, Pending, Independent
  <2>2. \A k \in Checkouts : Recordings(k)' /\ Completing(k)'
    BY <1>1 DEF vars, IInv, Safe, Recordings, Completing, Open
  <2>. QED
    BY <1>1, <2>1, <2>2, Quiet DEF vars, IInv
<1>2. CASE Next
  BY <1>2, CommandQuiet, RunQuiet, CommitSafe, RecordSafe, CompletionSafe, ReopenSafe,
     OutsideSafe
     DEF IInv, Next, Transaction, Hook, Completion
<1>. QED
  BY <1>1, <1>2

LEMMA Invariant == Spec => []IInv
<1>1. Init => IInv
  <2>. SUFFICES ASSUME Init PROVE IInv
    OBVIOUS
  <2>1. TypeOK
    BY InitTypes
  <2>2. Locks
    BY <2>1, LockTypes DEF Init, NoCommand, NoRun, Locks, Fenced, Alone, Sharing
  <2>3. \A p \in People : Pending(p)
    BY DEF Init, NoCommand, Pending
  <2>4. \A k \in Checkouts : Recordings(k) /\ Completing(k)
    BY DEF Init, NoRun, Recordings, Completing
  <2>5. CheckedByAnother /\ ThreeHands
    BY DEF Init, NoBinding, CheckedByAnother, ThreeHands
  <2>6. OneAuthorizationEach
    <3>1. DOMAIN receipts = {}
      BY DEF Init
    <3>2. Consumed = {} /\ ~cart.completed
      BY <3>1 DEF Init, Consumed
    <3>. QED
      BY <3>2 DEF OneAuthorizationEach
  <2>. QED
    BY <2>1, <2>2, <2>3, <2>4, <2>5, <2>6 DEF IInv, Safe
<1>2. IInv /\ [Next]_vars => IInv'
  BY TypeStep, LocksStep, SafeStep DEF IInv
<1>. QED
  BY <1>1, <1>2, PTL DEF Spec

------------------------------------------------------------------------------
(* Theorems.                                                                *)

\* A binding that was ever activated rests on the decisions of three people.
THEOREM ThreePeopleDecide == Spec => []ThreeHands
<1>1. IInv => ThreeHands
  BY DEF IInv, Safe
<1>. QED
  BY <1>1, Invariant, PTL

\* A cart completed under an activated binding has consumed one authorization and
\* has none left; an open cart has none in use.
THEOREM OneAuthorizationPerCart == Spec => []OneAuthorizationEach
<1>1. IInv => OneAuthorizationEach
  BY DEF IInv, Safe
<1>. QED
  BY <1>1, Invariant, PTL

\* A completion that commits does so under the binding as it is at that moment.
THEOREM CompletionIsBound == Spec => CompletesUnderItsBinding
<1>. DEFINE Bound == ~cart.completed /\ cart'.completed /\ binding.activated =>
                       /\ binding.status = "ACTIVE" /\ binding.at = cart.at
                       /\ \E i \in Open : /\ receipts'[i].status = "consumed"
                                          /\ receipts[i].revision = binding.revision
<1>1. ASSUME IInv, Next, ~cart.completed, cart'.completed, binding.activated
      PROVE  /\ binding.status = "ACTIVE" /\ binding.at = cart.at
             /\ \E i \in Open : /\ receipts'[i].status = "consumed"
                                /\ receipts[i].revision = binding.revision
  <2>1. PICK k \in Checkouts : CommitCompletion(k)
    <3>1. \A p \in People : ~Transaction(p) /\ \A op \in Operations : ~Intake(p, op)
      BY <1>1 DEF Intake, Transaction, TakeFence, Write, CheckAtCommit, Commit, Abandon,
                  Rollback
    <3>2. \A k \in Checkouts : ~Hook(k) /\ ~Stop(k)
      BY <1>1 DEF Hook, Assess, PassUnrecorded, BeginRecord, Replay, Insert, CheckInsert,
                  CommitRecord, Stop, Undo
    <3>3. ~BindingLapses /\ ~MoveCart /\ \A i \in DOMAIN receipts : ~LeaseEnds(i)
      BY <1>1 DEF BindingLapses, MoveCart, LeaseEnds, IInv, TypeOK
    <3>4. PICK k \in Checkouts : Completion(k)
      BY <1>1, <3>1, <3>2, <3>3 DEF Next
    <3>5. cart' # cart /\ ~CommitReopen(k)
      BY <1>1 DEF CommitReopen, IInv, TypeOK
    <3>. QED
      BY <3>4, <3>5 DEF Completion, LockCart, TakeUngated, Take, CheckTaken, Compensate,
                        Release
  <2>2. run[k].at = "completable" /\ run[k].gated
    BY <1>1, <2>1 DEF CommitCompletion, IInv, Safe, Completing
  <2>3. /\ binding.status = "ACTIVE" /\ binding.at = cart.at
        /\ run[k].receipt \in Open
        /\ receipts[run[k].receipt].revision = binding.revision
    BY <1>1, <2>2 DEF IInv, Safe, Completing
  <2>4. Consume(run[k].receipt) /\ Consumed = {}
    BY <1>1, <2>1, <2>2 DEF CommitCompletion, IInv, Safe, OneAuthorizationEach
  <2>. QED
    BY <1>1, <2>3, <2>4, ConsumeOne DEF IInv
<1>2. IInv /\ [Next]_vars => [Bound]_vars
  BY <1>1
<1>. QED
  BY <1>2, Invariant, PTL DEF Spec, CompletesUnderItsBinding
===============================================================================
