------------------------ MODULE OrderCommitFenceProofs ------------------------
(***************************************************************************)
(* What the commit fence guarantees for any number of carts, drafts,       *)
(* orders and receipts.                                                    *)
(***************************************************************************)
EXTENDS OrderCommitFence, TLAPS

All == Orders \cup Drafts

\* The constants the initial rows are built from exist.
LEMMA Defaults ==
  /\ (CHOOSE s \in Scopes : TRUE) \in Scopes
  /\ (CHOOSE l \in Lines : TRUE) \in Lines
  /\ (CHOOSE m \in Models : TRUE) \in Models
  /\ (CHOOSE v \in References : TRUE) \in References
<1>1. PICK b \in Bindings : TRUE
  BY FenceAssumption
<1>2. [binding |-> b, version |-> 1] \in References
  BY <1>1, FenceAssumption DEF References
<1>. QED
  BY <1>2, FenceAssumption

LEMMA NoTransactionType == NoTransaction \in Transaction
  BY Defaults DEF NoTransaction, Transaction

\* Replacing one transaction by another keeps the type.
LEMMA OneTransaction ==
  ASSUME tx \in [All -> Transaction], NEW o \in All, NEW t \in Transaction,
         tx' = [tx EXCEPT ![o] = t]
  PROVE  tx' \in [All -> Transaction]
  OBVIOUS

\* Counting candidates opens a transaction that takes nothing.
LEMMA CountedRow ==
  ASSUME NEW o \in Orders, NEW k \in Carts, CountCandidates(o, k)
  PROVE  \E t \in Transaction : /\ t.receipt = 0 /\ t.takes = {}
                                 /\ tx' = [tx EXCEPT ![o] = t]
<1>. DEFINE Row(s, l) == [NoTransaction EXCEPT !.for = k, !.scope = s, !.lines = l]
<1>1. PICK s \in Scopes, l \in Lines :
        \/ tx' = [tx EXCEPT ![o] = [Row(s, l) EXCEPT !.stage = "verified"]]
        \/ tx' = [tx EXCEPT ![o] = [Row(s, l) EXCEPT !.stage = "counted"]]
  BY DEF CountCandidates
<1>2. Row(s, l) \in Transaction /\ Row(s, l).receipt = 0 /\ Row(s, l).takes = {}
  BY NoTransactionType DEF Transaction, NoTransaction
<1>. HIDE DEF Row
<1>. DEFINE v == [Row(s, l) EXCEPT !.stage = "verified"]
            c == [Row(s, l) EXCEPT !.stage = "counted"]
<1>3. v \in Transaction /\ v.receipt = 0 /\ v.takes = {}
  BY <1>2 DEF Transaction
<1>4. c \in Transaction /\ c.receipt = 0 /\ c.takes = {}
  BY <1>2 DEF Transaction
<1>5. tx' = [tx EXCEPT ![o] = v] \/ tx' = [tx EXCEPT ![o] = c]
  BY <1>1
<1>. HIDE DEF v, c
<1>. QED
  BY <1>3, <1>4, <1>5

\* Consuming receipts only stamps them.
LEMMA ConsumeKeeps ==
  ASSUME receipts \in Seq(Receipt), NEW is, Consume(is)
  PROVE  /\ receipts' \in Seq(Receipt) /\ Len(receipts') = Len(receipts)
         /\ \A i \in 1 .. Len(receipts) :
              /\ receipts'[i].subject = receipts[i].subject
              /\ receipts'[i].status =
                   IF i \in is THEN "consumed" ELSE receipts[i].status
<1>. DEFINE n == Len(receipts)
            stamped(i) == IF i \in is THEN [receipts[i] EXCEPT !.status = "consumed"]
                                     ELSE receipts[i]
<1>1. n \in Nat /\ DOMAIN receipts = 1 .. n
  OBVIOUS
<1>2. ASSUME NEW i \in 1 .. n PROVE stamped(i) \in Receipt
  <2>1. receipts[i] \in Receipt
    OBVIOUS
  <2>. QED
    BY <2>1 DEF Receipt
<1>3. receipts' = [i \in 1 .. n |-> stamped(i)]
  BY <1>1 DEF Consume
<1>. HIDE DEF n
<1>4. receipts' \in Seq(Receipt) /\ Len(receipts') = n
  BY <1>1, <1>2, <1>3
<1>5. ASSUME NEW i \in 1 .. n
      PROVE  /\ receipts'[i].subject = receipts[i].subject
             /\ receipts'[i].status = IF i \in is THEN "consumed" ELSE receipts[i].status
  <2>1. receipts[i] \in Receipt
    BY <1>5 DEF n
  <2>. QED
    BY <1>3, <2>1 DEF Receipt
<1>. QED
  BY <1>4, <1>5 DEF n

LEMMA InitType == Init => TypeOK
<1>. SUFFICES ASSUME Init PROVE TypeOK
  OBVIOUS
<1>1. order \in [All -> Order]
  BY DEF Init, Order, All
<1>2. tx \in [All -> Transaction]
  BY NoTransactionType DEF Init, All
<1>3. classified \in [Subjects -> Classification]
  BY Defaults DEF Init, Classification, Unclassified
<1>4. receipts \in Seq(Receipt) /\ attributed \in [Subjects -> SUBSET References]
  BY DEF Init
<1>5. cart \in [Carts -> Cart] /\ commitments \subseteq Commitment
  BY DEF Init, Cart
<1>6. profile \in {"attested", "withdrawn"} /\ gate \in {"SHADOW", "ENFORCED"}
      /\ posture \in {"SANDBOX", "ENFORCED"}
  BY DEF Init
<1>. QED
  BY <1>1, <1>2, <1>3, <1>4, <1>5, <1>6 DEF TypeOK, All

\* A transaction that consumes receipts knows whose they are.
SubjectKnown == \A o \in All : tx[o].receipt # 0 => tx[o].subject \in Subjects

LEMMA StepType == TypeOK /\ SubjectKnown /\ [Next]_vars => TypeOK'
<1>. SUFFICES ASSUME TypeOK, SubjectKnown, [Next]_vars PROVE TypeOK'
  OBVIOUS
<1>. USE DEF TypeOK
<1>1. ASSUME NEW k \in Carts, EditCart(k) PROVE TypeOK'
  <2>1. PICK s \in Scopes, l \in Lines : cart' = [cart EXCEPT ![k].scope = s, ![k].lines = l]
    BY <1>1 DEF EditCart
  <2>2. [cart[k] EXCEPT !.scope = s, !.lines = l] \in Cart
    BY DEF Cart
  <2>3. cart' \in [Carts -> Cart]
    BY <2>1, <2>2
  <2>. QED
    BY <1>1, <2>3 DEF EditCart
<1>2. ASSUME NEW s \in Subjects, NEW v \in References, Attribute(s, v) PROVE TypeOK'
  BY <1>2 DEF Attribute
<1>3. ASSUME NEW s \in Subjects, NEW v \in References, RecordReceipt(s, v) PROVE TypeOK'
  <2>1. [subject |-> s, reference |-> v, status |-> "live"] \in Receipt
    BY DEF Receipt
  <2>. QED
    BY <1>3, <2>1 DEF RecordReceipt
<1>4. ASSUME NEW i \in DOMAIN receipts, LeaseEnds(i) PROVE TypeOK'
  <2>1. receipts[i] \in Receipt
    OBVIOUS
  <2>2. [receipts[i] EXCEPT !.status = "lapsed"] \in Receipt
    BY <2>1 DEF Receipt
  <2>3. receipts' \in Seq(Receipt)
    BY <1>4, <2>2 DEF LeaseEnds
  <2>. QED
    BY <1>4, <2>3 DEF LeaseEnds
<1>5. ASSUME NEW s \in Subjects, NEW v \in References, NEW m \in Models, Classify(s, v, m)
      PROVE  TypeOK'
  <2>1. [status |-> "ACTIVE", reference |-> v, model |-> m] \in Classification
    BY DEF Classification
  <2>2. [classified[s] EXCEPT !.status = "QUARANTINED"] \in Classification
    BY DEF Classification
  <2>. QED
    BY <1>5, <2>1, <2>2 DEF Classify
<1>6. ASSUME NEW o \in Orders, NEW k \in Carts, CountCandidates(o, k) PROVE TypeOK'
  <2>1. tx' \in [All -> Transaction]
    BY <1>6, CountedRow, OneTransaction DEF All
  <2>. QED
    BY <1>6, <2>1 DEF CountCandidates, All
<1>7. ASSUME NEW o \in All, NEW s \in Subjects, NEW i \in LiveOf(s), Take(o, s, i)
      PROVE  tx' \in [All -> Transaction]
  <2>1. i \in Nat /\ Spent(s, i) \subseteq Nat /\ Len(receipts) \in Nat
    BY DEF LiveOf, Unconsumed, Spent
  <2>2. tx[o] \in Transaction
    BY DEF All
  <2>3. [tx[o] EXCEPT !.stage = "taken", !.subject = s, !.receipt = i,
                      !.takes = Spent(s, i), !.horizon = Len(receipts)] \in Transaction
    BY <2>1, <2>2 DEF Transaction
  <2>. QED
    BY <1>7, <2>3, OneTransaction DEF Take, All
<1>8. ASSUME NEW o \in Orders, TakeReceipt(o) PROVE TypeOK'
  <2>1. PICK k \in Candidates(tx[o].scope) : \E i \in LiveOf(k) : Take(o, k, i)
    BY <1>8 DEF TakeReceipt
  <2>2. k \in Subjects
    BY DEF Candidates, Subjects
  <2>. QED
    BY <1>7, <1>8, <2>1, <2>2 DEF TakeReceipt, All
<1>9. ASSUME NEW d \in Drafts, FinaliseDraft(d) PROVE TypeOK'
  <2>1. tx' \in [All -> Transaction]
    <3>1. CASE \E i \in LiveOf(d) : Take(d, d, i)
      BY <1>7, <3>1 DEF All, Subjects
    <3>2. CASE tx' = [tx EXCEPT ![d] = [@ EXCEPT !.stage = "verified"]]
      <4>1. tx[d] \in Transaction
        BY DEF All
      <4>2. [tx[d] EXCEPT !.stage = "verified"] \in Transaction
        BY <4>1 DEF Transaction
      <4>. QED
        BY <3>2, <4>2 DEF All
    <3>. QED
      BY <1>9, <3>1, <3>2 DEF FinaliseDraft
  <2>. QED
    BY <1>9, <2>1 DEF FinaliseDraft, All
<1>10. ASSUME NEW o \in All, Verify(o) PROVE TypeOK'
  <2>. DEFINE verdict == IF Allowed(o, tx[o].subject) THEN "ALLOWED" ELSE "refused"
  <2>2. tx[o] \in Transaction
    BY DEF All
  <2>3. [tx[o] EXCEPT !.stage = "verified", !.verdict = verdict] \in Transaction
    BY <2>2 DEF Transaction
  <2>1. tx' \in [All -> Transaction]
    BY <1>10, <2>3 DEF Verify, All
  <2>. QED
    BY <1>10, <2>1 DEF Verify, All
<1>11. ASSUME NEW o \in All, CommitOrder(o) PROVE TypeOK'
  <2>1. tx[o] \in Transaction /\ order[o] \in Order
    BY DEF All
  <2>2. [order[o] EXCEPT !.status = "placed", !.for = tx[o].for] \in Order
    BY <2>1 DEF Order, Transaction
  <2>3. order' \in [All -> Order]
    BY <1>11, <2>2 DEF CommitOrder, All
  <2>4. ASSUME NEW i \in RestsOn(o)
        PROVE  [receipt |-> i, subject |-> tx[o].subject, order |-> o,
                horizon |-> tx[o].horizon] \in Commitment
    BY <2>1, <2>4 DEF RestsOn, SubjectKnown, Commitment, Transaction, All
  <2>5. commitments' \subseteq Commitment
    BY <1>11, <2>4 DEF CommitOrder
  <2>6. receipts' \in Seq(Receipt)
    BY <1>11, ConsumeKeeps DEF CommitOrder
  <2>. QED
    BY <1>11, <2>3, <2>5, <2>6, NoTransactionType, OneTransaction DEF CommitOrder, All
<1>12. ASSUME NEW o \in All, Rollback(o) PROVE TypeOK'
  BY <1>12, NoTransactionType DEF Rollback, All
<1>13. ASSUME NEW o \in Orders, CompleteCart(o) \/ ReopenCart(o) PROVE TypeOK'
  <2>1. order' \in [All -> Order]
    BY <1>13 DEF CompleteCart, ReopenCart, Order, All
  <2>2. cart' \in [Carts -> Cart]
    BY <1>13 DEF CompleteCart, ReopenCart, Cart
  <2>. QED
    BY <1>13, <2>1, <2>2 DEF CompleteCart, ReopenCart, All
<1>14. ASSUME NEW o \in Orders, DeleteOrder(o) PROVE TypeOK'
  BY <1>14 DEF DeleteOrder, Order
<1>15. CASE ObserveProfile \/ SwitchGate \/ Enforce
  BY <1>15 DEF ObserveProfile, SwitchGate, Enforce
<1>16. CASE UNCHANGED vars
  BY <1>16 DEF vars
<1>. QED
  BY <1>1, <1>2, <1>3, <1>4, <1>5, <1>6, <1>8, <1>9, <1>10, <1>11, <1>12, <1>13, <1>14,
     <1>15, <1>16 DEF Next, Authority, Completion, Closing, All

------------------------------------------------------------------------------
(***************************************************************************)
(* The inductive invariant.  A transaction's receipts are unspent ones of  *)
(* its subject, nobody else's, and all of them up to its horizon; so what  *)
(* commits leaves none of its subject unspent up to there.                 *)
(***************************************************************************)

Takes(o) ==
  /\ tx[o].receipt = 0 => tx[o].takes = {}
  /\ tx[o].stage \in {"none", "counted"} => tx[o].receipt = 0
  /\ tx[o].receipt # 0 =>
       /\ tx[o].receipt \in tx[o].takes /\ tx[o].subject \in Subjects
       /\ tx[o].horizon <= Len(receipts)
       /\ \A i \in tx[o].takes :
            /\ i \in 1 .. tx[o].horizon
            /\ receipts[i].subject = tx[o].subject
            /\ receipts[i].status # "consumed"
       /\ \A i \in 1 .. tx[o].horizon :
            receipts[i].subject = tx[o].subject =>
              i \in tx[o].takes \/ receipts[i].status = "consumed"

Exclusive == \A o, p \in All : o # p => tx[o].takes \cap tx[p].takes = {}

Spends(c) ==
  /\ c.horizon <= Len(receipts) /\ c.receipt <= c.horizon
  /\ receipts[c.receipt].subject = c.subject
  /\ \A i \in 1 .. c.horizon :
       receipts[i].subject = c.subject => receipts[i].status = "consumed"

Unique == \A c, d \in commitments : c.receipt = d.receipt => c = d

Core == /\ \A o \in All : Takes(o)
        /\ Exclusive
        /\ \A c \in commitments : Spends(c)
        /\ Unique
        /\ SpentByItsOwn
        /\ NoReuse

Verdicts ==
  \A o \in All : tx[o].stage = "verified" /\ tx[o].receipt # 0 /\ gate = "ENFORCED"
                   => tx[o].verdict = "ALLOWED"

IInv == TypeOK /\ Core /\ Verdicts

\* The rows of another table may change, receipts may be added or lapse.
Grows ==
  /\ Len(receipts) <= Len(receipts')
  /\ \A i \in 1 .. Len(receipts) :
       /\ receipts'[i].subject = receipts[i].subject
       /\ receipts'[i].status = "consumed" <=> receipts[i].status = "consumed"
  /\ \A i \in 1 .. Len(receipts') :
       i \notin 1 .. Len(receipts) => receipts'[i].status # "consumed"

LEMMA InitInv == Init => IInv
<1>. SUFFICES ASSUME Init PROVE IInv
  OBVIOUS
<1>1. receipts = <<>> /\ commitments = {}
  BY DEF Init
<1>0. ASSUME NEW o \in All
      PROVE  tx[o].receipt = 0 /\ tx[o].takes = {} /\ tx[o].stage = "none"
  BY DEF Init, All, NoTransaction
<1>2. \A o \in All : Takes(o)
  BY <1>0 DEF Takes
<1>3. Exclusive /\ Verdicts
  BY <1>0 DEF Exclusive, Verdicts
<1>4. SpentByItsOwn /\ NoReuse /\ Unique
  BY <1>1 DEF SpentByItsOwn, NoReuse, Unique
<1>. QED
  BY <1>1, <1>2, <1>3, <1>4, InitType DEF IInv, Core

\* Steps that leave transactions and commitments alone.
LEMMA CalmStep ==
  ASSUME IInv, TypeOK', tx' = tx, commitments' = commitments, Grows
  PROVE  Core'
<1>. USE DEF IInv, Core
<1>0. Len(receipts) \in Nat /\ Len(receipts') \in Nat
      /\ DOMAIN receipts = 1 .. Len(receipts) /\ DOMAIN receipts' = 1 .. Len(receipts')
  BY DEF TypeOK
<1>1. ASSUME NEW o \in All PROVE Takes(o)'
  <2>1. tx[o].horizon \in Nat
    BY DEF TypeOK, All, Transaction
  <2>. QED
    BY <1>0, <2>1, Takes(o) DEF Takes, Grows
<1>2. Exclusive'
  BY DEF Exclusive
<1>3. ASSUME NEW c \in commitments PROVE Spends(c)'
  <2>1. c.horizon \in Nat /\ c.receipt \in Nat \ {0}
    BY DEF TypeOK, Commitment
  <2>. QED
    BY <1>0, <2>1, Spends(c) DEF Spends, Grows
<1>4. SpentByItsOwn'
  BY <1>0 DEF SpentByItsOwn, Grows
<1>. QED
  BY <1>1, <1>2, <1>3, <1>4 DEF Unique, NoReuse

\* Steps of one transaction that takes no receipt, or keeps those it took.
LEMMA OwnStep ==
  ASSUME IInv, NEW o \in All, NEW t \in Transaction,
         tx' = [tx EXCEPT ![o] = t],
         commitments' = commitments, receipts' = receipts,
         \/ t.receipt = 0 /\ t.takes = {}
         \/ /\ t.receipt = tx[o].receipt /\ t.takes = tx[o].takes
            /\ t.subject = tx[o].subject /\ t.horizon = tx[o].horizon
            /\ t.stage \in {"taken", "verified"}
  PROVE  Core'
<1>. USE DEF IInv, Core
<1>0. /\ \A p \in All : tx[p] \in Transaction
      /\ tx'[o] = t /\ \A p \in All : p # o => tx'[p] = tx[p]
  BY DEF TypeOK, All
<1>1. ASSUME NEW p \in All PROVE Takes(p)'
  <2>1. CASE p # o
    BY <1>0, <2>1, Takes(p) DEF Takes
  <2>2. CASE p = o
    BY <1>0, <2>2, Takes(o) DEF Takes
  <2>. QED
    BY <2>1, <2>2
<1>2. Exclusive'
  BY <1>0 DEF Exclusive
<1>3. \A c \in commitments : Spends(c)'
  BY DEF Spends
<1>. QED
  BY <1>1, <1>2, <1>3 DEF Unique, NoReuse, SpentByItsOwn

\* A transaction takes all that is unspent of its subject.
LEMMA TakeStep ==
  ASSUME IInv, NEW o \in All, NEW s \in Subjects, NEW i \in LiveOf(s), Take(o, s, i),
         commitments' = commitments, receipts' = receipts
  PROVE  Core'
<1>. USE DEF IInv, Core
<1>0. /\ \A p \in All : tx[p] \in Transaction
      /\ Len(receipts) \in Nat /\ DOMAIN receipts = 1 .. Len(receipts)
  BY DEF TypeOK, All
<1>1. /\ \A p \in All : p # o => tx'[p] = tx[p]
      /\ tx'[o] = [tx[o] EXCEPT !.stage = "taken", !.subject = s, !.receipt = i,
                                !.takes = Spent(s, i), !.horizon = Len(receipts)]
  BY DEF Take, TypeOK, All
<1>2. /\ tx'[o].stage = "taken" /\ tx'[o].subject = s /\ tx'[o].receipt = i
      /\ tx'[o].takes = Unconsumed(s) /\ tx'[o].horizon = Len(receipts)
  BY <1>0, <1>1 DEF Transaction, Spent
<1>3. Takes(o)'
  BY <1>0, <1>2 DEF Takes, LiveOf, Unconsumed
<1>4. ASSUME NEW p \in All, p # o PROVE Takes(p)'
  BY <1>1, <1>4, Takes(p) DEF Takes
<1>5. Exclusive'
  <2>1. \A p \in All : tx[p].takes \cap Unconsumed(s) = {}
    BY DEF Take, Unlocked, Spent, All
  <2>2. ASSUME NEW p \in All, NEW q \in All, p # q
        PROVE  tx'[p].takes \cap tx'[q].takes = {}
    <3>1. CASE p = o
      <4>1. tx'[q].takes \cap Unconsumed(s) = {} /\ tx'[p].takes = Unconsumed(s)
        BY <1>1, <1>2, <2>1, <2>2, <3>1
      <4>. QED
        BY <4>1
    <3>2. CASE q = o
      <4>1. tx'[p].takes \cap Unconsumed(s) = {} /\ tx'[q].takes = Unconsumed(s)
        BY <1>1, <1>2, <2>1, <2>2, <3>2
      <4>. QED
        BY <4>1
    <3>3. CASE p # o /\ q # o
      BY <1>1, <2>2, <3>3 DEF Exclusive
    <3>. QED
      BY <3>1, <3>2, <3>3
  <2>. QED
    BY <2>2 DEF Exclusive
<1>6. \A c \in commitments : Spends(c)'
  BY DEF Spends
<1>. QED
  BY <1>3, <1>4, <1>5, <1>6 DEF Unique, NoReuse, SpentByItsOwn

\* COMMIT spends what the transaction took and writes its commitment.
LEMMA CommitStep ==
  ASSUME IInv, TypeOK', NEW o \in All, CommitOrder(o)
  PROVE  Core'
<1>. USE DEF IInv, Core
<1>. DEFINE n == Len(receipts)
            t == tx[o]
<1>0. /\ n \in Nat /\ DOMAIN receipts = 1 .. n
      /\ t \in Transaction /\ t.horizon \in Nat /\ t.receipt \in Nat
  BY DEF TypeOK, All, Transaction
<1>1. /\ Len(receipts') = n /\ DOMAIN receipts' = 1 .. n
      /\ \A i \in 1 .. n :
           /\ receipts'[i].subject = receipts[i].subject
           /\ receipts'[i].status =
                IF i \in t.takes THEN "consumed" ELSE receipts[i].status
  BY ConsumeKeeps DEF CommitOrder, TypeOK
<1>2. /\ tx'[o].receipt = 0 /\ tx'[o].takes = {} /\ tx'[o].stage = "none"
      /\ \A p \in All : p # o => tx'[p] = tx[p]
  BY DEF CommitOrder, NoTransaction, TypeOK, All
<1>13. PICK row : row = [receipt |-> t.receipt, subject |-> t.subject, order |-> o,
                         horizon |-> t.horizon]
  OBVIOUS
<1>3. commitments' = IF t.receipt = 0 THEN commitments ELSE commitments \cup {row}
  BY <1>0, <1>13 DEF CommitOrder, RestsOn
<1>. HIDE DEF n
<1>4. ASSUME NEW p \in All PROVE Takes(p)'
  <2>1. CASE p = o
    BY <1>2, <2>1 DEF Takes
  <2>2. CASE p # o
    <3>1. tx'[p] = tx[p] /\ tx[p].takes \cap t.takes = {} /\ tx[p].horizon \in Nat
      BY <1>2, <2>2 DEF Exclusive, TypeOK, All, Transaction
    <3>. QED
      BY <1>0, <1>1, <3>1, Takes(p) DEF Takes, n
  <2>. QED
    BY <2>1, <2>2
<1>5. Exclusive'
  BY <1>2 DEF Exclusive
<1>6. ASSUME NEW c \in commitments PROVE Spends(c)'
  <2>1. c.horizon \in Nat /\ c.receipt \in Nat \ {0}
    BY DEF TypeOK, Commitment
  <2>. QED
    BY <1>0, <1>1, <2>1, Spends(c) DEF Spends, n
<1>7. ASSUME t.receipt # 0
      PROVE  /\ row.receipt = t.receipt /\ row.subject = t.subject
             /\ row.horizon = t.horizon /\ Spends(row)'
             /\ t.receipt \in 1 .. n /\ t.receipt \in t.takes
  <2>1. /\ row.receipt = t.receipt /\ row.subject = t.subject /\ row.horizon = t.horizon
    BY <1>13
  <2>2. /\ t.receipt \in t.takes /\ t.horizon <= n
        /\ \A i \in t.takes : i \in 1 .. t.horizon /\ receipts[i].subject = t.subject
        /\ \A i \in 1 .. t.horizon :
             receipts[i].subject = t.subject => i \in t.takes \/ receipts[i].status = "consumed"
    BY <1>7, Takes(o) DEF Takes, n
  <2>. QED
    BY <1>0, <1>1, <2>1, <2>2 DEF Spends, n
<1>8. \A c \in commitments' : Spends(c)'
  BY <1>3, <1>6, <1>7
\* The new receipt was unspent, those of older commitments were not.
<1>9. ASSUME NEW c \in commitments, t.receipt # 0
      PROVE  /\ c.receipt # t.receipt
             /\ c.subject = t.subject => c.horizon < t.receipt /\ c.receipt < t.receipt
  <2>1. /\ c.horizon \in Nat /\ c.receipt \in Nat \ {0} /\ c.receipt <= c.horizon
        /\ c.horizon <= n /\ receipts[c.receipt].subject = c.subject
        /\ \A i \in 1 .. c.horizon :
             receipts[i].subject = c.subject => receipts[i].status = "consumed"
    BY Spends(c) DEF TypeOK, Commitment, Spends, n
  <2>2. receipts[t.receipt].subject = t.subject /\ receipts[t.receipt].status # "consumed"
        /\ t.receipt \in 1 .. n
    BY <1>7, <1>9, Takes(o) DEF Takes
  <2>3. c.subject = t.subject => t.receipt \notin 1 .. c.horizon
    BY <2>1, <2>2
  <2>4. c.receipt = t.receipt => c.subject = t.subject /\ t.receipt \in 1 .. c.horizon
    BY <2>1, <2>2
  <2>. QED
    BY <1>0, <2>1, <2>2, <2>3, <2>4
<1>10. Unique'
  <2>1. ASSUME NEW c \in commitments', NEW d \in commitments', c.receipt = d.receipt
        PROVE  c = d
    <3>1. CASE c \in commitments /\ d \in commitments
      BY <2>1, <3>1 DEF Unique
    <3>2. CASE c \in commitments /\ d \notin commitments
      BY <1>3, <1>7, <1>9, <2>1, <3>2
    <3>3. CASE c \notin commitments /\ d \in commitments
      BY <1>3, <1>7, <1>9, <2>1, <3>3
    <3>4. CASE c \notin commitments /\ d \notin commitments
      BY <1>3, <3>4
    <3>. QED
      BY <3>1, <3>2, <3>3, <3>4
  <2>. QED
    BY <2>1 DEF Unique
<1>11. NoReuse'
  <2>1. ASSUME NEW c \in commitments', NEW d \in commitments',
               c.subject = d.subject, c.receipt < d.receipt
        PROVE  c.horizon < d.receipt
    <3>1. CASE c \in commitments /\ d \in commitments
      BY <2>1, <3>1 DEF NoReuse
    <3>2. CASE c \in commitments /\ d \notin commitments
      BY <1>3, <1>7, <1>9, <2>1, <3>2
    <3>3. CASE c \notin commitments /\ d \in commitments
      <4>1. t.receipt # 0 /\ c = row
        BY <1>3, <3>3
      <4>2. d.receipt < c.receipt /\ d.receipt \in Nat /\ c.receipt \in Nat
        BY <1>0, <1>7, <1>9, <2>1, <3>3, <4>1 DEF TypeOK, Commitment
      <4>. QED
        BY <2>1, <4>2
    <3>4. CASE c \notin commitments /\ d \notin commitments
      <4>1. t.receipt # 0 /\ c = row /\ d = row
        BY <1>3, <3>4
      <4>. QED
        BY <1>0, <1>7, <2>1, <4>1
    <3>. QED
      BY <3>1, <3>2, <3>3, <3>4
  <2>. QED
    BY <2>1 DEF NoReuse
<1>12. SpentByItsOwn'
  <2>1. ASSUME NEW i \in 1 .. n, receipts'[i].status = "consumed"
        PROVE  \E c \in commitments' : c.subject = receipts'[i].subject /\ i <= c.horizon
    <3>1. CASE i \in t.takes
      <4>1. t.receipt # 0
        BY <3>1, Takes(o) DEF Takes
      <4>2. receipts[i].subject = t.subject /\ i <= t.horizon
        BY <1>0, <3>1, <4>1, Takes(o) DEF Takes
      <4>. QED
        BY <1>1, <1>3, <1>7, <4>1, <4>2
    <3>2. CASE i \notin t.takes
      BY <1>0, <1>1, <1>3, <2>1, <3>2 DEF SpentByItsOwn
    <3>. QED
      BY <3>1, <3>2
  <2>. QED
    BY <1>1, <2>1 DEF SpentByItsOwn
<1>. QED
  BY <1>4, <1>5, <1>8, <1>10, <1>11, <1>12

LEMMA StepCore == IInv /\ [Next]_vars => Core'
<1>. SUFFICES ASSUME IInv, [Next]_vars PROVE Core'
  OBVIOUS
<1>. USE DEF IInv
<1>0. TypeOK'
  BY StepType DEF Core, Takes, SubjectKnown
<1>1. CASE receipts' = receipts /\ tx' = tx /\ commitments' = commitments
  <2>1. Grows
    BY <1>1 DEF Grows, TypeOK
  <2>. QED
    BY <1>0, <1>1, <2>1, CalmStep
<1>2. ASSUME NEW s \in Subjects, NEW v \in References, RecordReceipt(s, v) PROVE Core'
  <2>. DEFINE r == [subject |-> s, reference |-> v, status |-> "live"]
  <2>1. /\ Len(receipts) \in Nat /\ Len(receipts') = Len(receipts) + 1
        /\ receipts'[Len(receipts) + 1] = r
        /\ \A i \in 1 .. Len(receipts) : receipts'[i] = receipts[i]
    BY <1>2 DEF RecordReceipt, TypeOK
  <2>2. Grows
    BY <2>1 DEF Grows
  <2>. QED
    BY <1>0, <1>2, <2>2, CalmStep DEF RecordReceipt
<1>3. ASSUME NEW i \in DOMAIN receipts, LeaseEnds(i) PROVE Core'
  <2>1. /\ Len(receipts) \in Nat /\ Len(receipts') = Len(receipts)
        /\ i \in 1 .. Len(receipts) /\ receipts[i] \in Receipt
        /\ \A j \in 1 .. Len(receipts) : j # i => receipts'[j] = receipts[j]
        /\ receipts'[i] = [receipts[i] EXCEPT !.status = "lapsed"]
    BY <1>3 DEF LeaseEnds, TypeOK
  <2>2. /\ receipts[i].status = "live" /\ receipts'[i].status = "lapsed"
        /\ receipts'[i].subject = receipts[i].subject
    BY <1>3, <2>1 DEF LeaseEnds, Receipt
  <2>3. ASSUME NEW j \in 1 .. Len(receipts)
        PROVE  /\ receipts'[j].subject = receipts[j].subject
               /\ receipts'[j].status = "consumed" <=> receipts[j].status = "consumed"
    <3>1. CASE j = i
      BY <2>2, <3>1
    <3>2. CASE j # i
      BY <2>1, <3>2
    <3>. QED
      BY <3>1, <3>2
  <2>4. Grows
    BY <2>1, <2>3 DEF Grows
  <2>. QED
    BY <1>0, <1>3, <2>4, CalmStep DEF LeaseEnds
<1>4. ASSUME NEW o \in Orders, NEW k \in Carts, CountCandidates(o, k) PROVE Core'
  <2>1. PICK t \in Transaction : /\ t.receipt = 0 /\ t.takes = {}
                                 /\ tx' = [tx EXCEPT ![o] = t]
    BY <1>4, CountedRow DEF IInv
  <2>. QED
    BY <1>4, <2>1, OwnStep DEF CountCandidates, All
<1>5. ASSUME NEW o \in Orders, TakeReceipt(o) PROVE Core'
  <2>1. PICK k \in Candidates(tx[o].scope) : \E i \in LiveOf(k) : Take(o, k, i)
    BY <1>5 DEF TakeReceipt
  <2>2. k \in Subjects
    BY DEF Candidates, Subjects
  <2>. QED
    BY <1>5, <2>1, <2>2, TakeStep DEF TakeReceipt, All
<1>6. ASSUME NEW d \in Drafts, FinaliseDraft(d) PROVE Core'
  <2>1. CASE \E i \in LiveOf(d) : Take(d, d, i)
    BY <1>6, <2>1, TakeStep DEF FinaliseDraft, All, Subjects
  <2>2. CASE tx' = [tx EXCEPT ![d] = [@ EXCEPT !.stage = "verified"]]
    <3>. DEFINE t == [tx[d] EXCEPT !.stage = "verified"]
    <3>1. tx[d] \in Transaction /\ tx[d].receipt = 0 /\ tx[d].takes = {}
      BY <1>6 DEF FinaliseDraft, TypeOK, Core, Takes, All
    <3>2. t \in Transaction /\ t.receipt = 0 /\ t.takes = {}
      BY <3>1 DEF Transaction
    <3>. QED
      BY <1>6, <2>2, <3>2, OwnStep DEF FinaliseDraft, All
  <2>. QED
    BY <1>6, <2>1, <2>2 DEF FinaliseDraft
<1>7. ASSUME NEW o \in All, Verify(o) PROVE Core'
  <2>. DEFINE verdict == IF Allowed(o, tx[o].subject) THEN "ALLOWED" ELSE "refused"
              t == [tx[o] EXCEPT !.stage = "verified", !.verdict = verdict]
  <2>1. tx[o] \in Transaction
    BY DEF TypeOK, All
  <2>2. /\ t \in Transaction /\ t.receipt = tx[o].receipt /\ t.takes = tx[o].takes
        /\ t.subject = tx[o].subject /\ t.horizon = tx[o].horizon /\ t.stage = "verified"
    BY <2>1 DEF Transaction
  <2>3. tx' = [tx EXCEPT ![o] = t]
    BY <1>7 DEF Verify
  <2>. HIDE DEF t
  <2>. QED
    BY <1>7, <2>2, <2>3, OwnStep DEF Verify
<1>8. ASSUME NEW o \in All, CommitOrder(o) PROVE Core'
  BY <1>0, <1>8, CommitStep
<1>9. ASSUME NEW o \in All, Rollback(o) PROVE Core'
  <2>1. NoTransaction.receipt = 0 /\ NoTransaction.takes = {}
    BY DEF NoTransaction
  <2>. QED
    BY <1>9, <2>1, NoTransactionType, OwnStep DEF Rollback
<1>10. CASE UNCHANGED vars
  BY <1>1, <1>10 DEF vars
<1>11. ASSUME NEW k \in Carts, EditCart(k) PROVE Core'
  BY <1>1, <1>11 DEF EditCart
<1>12. ASSUME NEW s \in Subjects, NEW v \in References,
              Attribute(s, v) \/ \E m \in Models : Classify(s, v, m)
       PROVE  Core'
  BY <1>1, <1>12 DEF Attribute, Classify
<1>13. ASSUME NEW o \in Orders, CompleteCart(o) \/ ReopenCart(o) \/ DeleteOrder(o)
       PROVE  Core'
  BY <1>1, <1>13 DEF CompleteCart, ReopenCart, DeleteOrder
<1>14. CASE ObserveProfile \/ SwitchGate \/ Enforce
  BY <1>1, <1>14 DEF ObserveProfile, SwitchGate, Enforce
<1>. QED
  BY <1>2, <1>3, <1>4, <1>5, <1>6, <1>7, <1>8, <1>9, <1>10, <1>11, <1>12, <1>13, <1>14
     DEF Next, Authority, Completion, Closing, All

\* The gate's shared lock keeps verdicts in the mode they were reached in.
LEMMA StepVerdicts == IInv /\ [Next]_vars => Verdicts'
<1>. SUFFICES ASSUME IInv, [Next]_vars, NEW o \in All,
                     tx'[o].stage = "verified", tx'[o].receipt # 0, gate' = "ENFORCED"
              PROVE  tx'[o].verdict = "ALLOWED"
  BY DEF Verdicts
<1>. USE DEF IInv
<1>0. tx[o] \in Transaction /\ Takes(o)
  BY DEF TypeOK, All, Core
<1>1. CASE tx' = tx /\ gate' = gate
  BY <1>1 DEF Verdicts
<1>2. ASSUME NEW p \in Orders, NEW k \in Carts, CountCandidates(p, k)
      PROVE  tx'[o].verdict = "ALLOWED"
  <2>1. PICK t \in Transaction : t.receipt = 0 /\ tx' = [tx EXCEPT ![p] = t]
    BY <1>2, CountedRow
  <2>3. p # o /\ gate' = gate
    BY <1>2, <2>1 DEF CountCandidates, TypeOK, All
  <2>2. tx'[o] = tx[o] /\ gate' = gate
    BY <2>1, <2>3 DEF TypeOK, All
  <2>. QED
    BY <2>2 DEF Verdicts
<1>3. ASSUME NEW p \in All, NEW s \in Subjects, NEW i \in LiveOf(s), Take(p, s, i),
             gate' = gate
      PROVE  tx'[o].verdict = "ALLOWED"
  <2>1. CASE p = o
    <3>1. tx'[o].stage = "taken"
      BY <1>0, <1>3, <2>1 DEF Take, Transaction, TypeOK, All
    <3>. QED
      BY <3>1
  <2>2. CASE p # o
    <3>1. tx'[o] = tx[o]
      BY <1>3, <2>2 DEF Take, TypeOK, All
    <3>. QED
      BY <1>3, <3>1 DEF Verdicts
  <2>. QED
    BY <2>1, <2>2
<1>4. ASSUME NEW p \in Orders, TakeReceipt(p) PROVE tx'[o].verdict = "ALLOWED"
  <2>1. PICK k \in Candidates(tx[p].scope) : \E i \in LiveOf(k) : Take(p, k, i)
    BY <1>4 DEF TakeReceipt
  <2>2. k \in Subjects /\ p \in All /\ gate' = gate
    BY <1>4 DEF Candidates, Subjects, All, TakeReceipt
  <2>. QED
    BY <1>3, <2>1, <2>2
<1>5. ASSUME NEW d \in Drafts, FinaliseDraft(d) PROVE tx'[o].verdict = "ALLOWED"
  <2>0. d \in All /\ d \in Subjects /\ gate' = gate /\ tx[d].stage = "none"
    BY <1>5 DEF All, Subjects, FinaliseDraft
  <2>1. CASE \E i \in LiveOf(d) : Take(d, d, i)
    BY <1>3, <2>0, <2>1
  <2>2. CASE tx' = [tx EXCEPT ![d] = [@ EXCEPT !.stage = "verified"]]
    <3>1. d # o
      <4>1. SUFFICES ASSUME d = o PROVE tx'[o].receipt = 0
        OBVIOUS
      <4>2. tx'[o] = [tx[o] EXCEPT !.stage = "verified"] /\ tx[o].receipt = 0
        BY <1>0, <2>0, <2>2, <4>1 DEF Takes, TypeOK, All
      <4>. QED
        BY <1>0, <4>2 DEF Transaction
    <3>2. tx'[o] = tx[o]
      BY <2>2, <3>1 DEF TypeOK, All
    <3>. QED
      BY <2>0, <3>2 DEF Verdicts
  <2>. QED
    BY <1>5, <2>1, <2>2 DEF FinaliseDraft
<1>6. ASSUME NEW p \in All, Verify(p) PROVE tx'[o].verdict = "ALLOWED"
  <2>0. gate' = gate
    BY <1>6 DEF Verify
  <2>1. CASE p = o
    <3>. DEFINE verdict == IF Allowed(o, tx[o].subject) THEN "ALLOWED" ELSE "refused"
    <3>1. tx'[o] = [tx[o] EXCEPT !.stage = "verified", !.verdict = verdict]
      BY <1>6, <2>1 DEF Verify, TypeOK, All
    <3>2. verdict = "ALLOWED"
      BY <1>6, <2>0, <2>1 DEF Verify
    <3>. QED
      BY <1>0, <3>1, <3>2 DEF Transaction
  <2>2. CASE p # o
    <3>1. tx'[o] = tx[o]
      BY <1>6, <2>2 DEF Verify, TypeOK, All
    <3>. QED
      BY <2>0, <3>1 DEF Verdicts
  <2>. QED
    BY <2>1, <2>2
<1>7. ASSUME NEW p \in All, CommitOrder(p) \/ Rollback(p) PROVE tx'[o].verdict = "ALLOWED"
  <2>1. p # o
    BY <1>7 DEF CommitOrder, Rollback, NoTransaction, TypeOK, All
  <2>2. tx'[o] = tx[o] /\ gate' = gate
    BY <1>7, <2>1 DEF CommitOrder, Rollback, TypeOK, All
  <2>. QED
    BY <2>2 DEF Verdicts
<1>8. CASE SwitchGate
  BY <1>8 DEF SwitchGate, All
<1>9. CASE UNCHANGED vars
  BY <1>1, <1>9 DEF vars
<1>10. ASSUME NEW k \in Carts, EditCart(k) PROVE tx'[o].verdict = "ALLOWED"
  BY <1>1, <1>10 DEF EditCart
<1>11. ASSUME NEW s \in Subjects, Authority(s) PROVE tx'[o].verdict = "ALLOWED"
  BY <1>1, <1>11 DEF Authority, Attribute, RecordReceipt, Classify
<1>12. ASSUME NEW i \in DOMAIN receipts, LeaseEnds(i) PROVE tx'[o].verdict = "ALLOWED"
  BY <1>1, <1>12 DEF LeaseEnds
<1>13. ASSUME NEW p \in Orders, CompleteCart(p) \/ ReopenCart(p) \/ DeleteOrder(p)
       PROVE  tx'[o].verdict = "ALLOWED"
  BY <1>1, <1>13 DEF CompleteCart, ReopenCart, DeleteOrder
<1>14. CASE ObserveProfile \/ Enforce
  BY <1>1, <1>14 DEF ObserveProfile, Enforce
<1>. QED
  BY <1>2, <1>4, <1>5, <1>6, <1>7, <1>8, <1>9, <1>10, <1>11, <1>12, <1>13, <1>14
     DEF Next, Completion, Closing, All

LEMMA Inductive == Spec => []IInv
<1>1. IInv /\ [Next]_vars => IInv'
  BY StepType, StepCore, StepVerdicts DEF IInv, Core, Takes, SubjectKnown
<1>. QED
  BY InitInv, <1>1, PTL DEF Spec

------------------------------------------------------------------------------

\* The rows keep their shape, and a commitment always names a receipt and its
\* subject.
THEOREM FenceTypeCorrect == Spec => []TypeOK
<1>1. IInv => TypeOK
  BY DEF IInv
<1>. QED
  BY Inductive, <1>1, PTL

\* A commitment rests on a spent receipt of its own subject, alone, and an open
\* transaction only holds receipts that nobody spent.
THEOREM ReceiptsAuthoriseOnce == Spec => []OneReceiptEach
<1>1. IInv => OneReceiptEach
  <2>. SUFFICES ASSUME IInv PROVE OneReceiptEach
    OBVIOUS
  <2>1. ASSUME NEW c \in commitments
        PROVE  /\ receipts[c.receipt].subject = c.subject
               /\ receipts[c.receipt].status = "consumed"
    <3>1. Spends(c) /\ c.receipt \in Nat \ {0} /\ c.horizon \in Nat
      BY DEF IInv, Core, TypeOK, Commitment
    <3>. QED
      BY <3>1 DEF Spends
  <2>2. ASSUME NEW o \in Orders \cup Drafts, NEW i \in tx[o].takes
        PROVE  receipts[i].status # "consumed"
    BY DEF IInv, Core, Takes, All
  <2>. QED
    BY <2>1, <2>2 DEF IInv, Core, Unique, OneReceiptEach
<1>. QED
  BY Inductive, <1>1, PTL

\* An older receipt never authorises a second order of a record.
THEOREM OlderReceiptsAreVoid == Spec => []NoReuse
<1>1. IInv => NoReuse
  BY DEF IInv, Core
<1>. QED
  BY Inductive, <1>1, PTL

\* Only an order committed for its record spends a receipt.
THEOREM NothingSpentInVain == Spec => []SpentByItsOwn
<1>1. IInv => SpentByItsOwn
  BY DEF IInv, Core
<1>. QED
  BY Inductive, <1>1, PTL

\* What commits while the gate is ENFORCED was allowed.
THEOREM CommitsInItsMode == Spec => DecidedInItsMode
<1>1. IInv /\ [Next]_vars => [EvaluatedAsEnforced]_vars
  <2>. SUFFICES ASSUME IInv, [Next]_vars, NEW o \in All, PlacedWhileEnforced(o)
                PROVE  tx[o].verdict = "ALLOWED"
    BY DEF EvaluatedAsEnforced, All
  <2>. USE DEF IInv, PlacedWhileEnforced
  <2>1. CASE order' = order
    BY <2>1
  <2>2. ASSUME NEW p \in All, CommitOrder(p) PROVE tx[o].verdict = "ALLOWED"
    <3>1. p = o
      BY <2>2 DEF CommitOrder, TypeOK, All
    <3>. QED
      BY <2>2, <3>1 DEF CommitOrder, Verdicts
  <2>3. ASSUME NEW p \in Orders, CompleteCart(p) \/ ReopenCart(p) \/ DeleteOrder(p)
        PROVE  tx[o].verdict = "ALLOWED"
    <3>1. order \in [All -> Order] /\ p \in All
      BY DEF TypeOK, All
    <3>2. CASE \E c : order' = [order EXCEPT ![p].closed = c]
      <4>1. order'[o].status = order[o].status
        BY <3>1, <3>2 DEF Order
      <4>. QED
        BY <4>1
    <3>3. CASE order' = [order EXCEPT ![p].status = "deleted"]
      <4>1. order'[o].status \in {order[o].status, "deleted"}
        BY <3>1, <3>3 DEF Order
      <4>. QED
        BY <4>1
    <3>. QED
      BY <2>3, <3>2, <3>3 DEF CompleteCart, ReopenCart, DeleteOrder
  <2>4. CASE UNCHANGED vars
    BY <2>1, <2>4 DEF vars
  <2>5. ASSUME NEW k \in Carts, EditCart(k) PROVE tx[o].verdict = "ALLOWED"
    BY <2>1, <2>5 DEF EditCart
  <2>6. ASSUME NEW s \in Subjects, Authority(s) PROVE tx[o].verdict = "ALLOWED"
    BY <2>1, <2>6 DEF Authority, Attribute, RecordReceipt, Classify
  <2>7. ASSUME NEW i \in DOMAIN receipts, LeaseEnds(i) PROVE tx[o].verdict = "ALLOWED"
    BY <2>1, <2>7 DEF LeaseEnds
  <2>8. ASSUME NEW p \in Orders, (\E k \in Carts : CountCandidates(p, k)) \/ TakeReceipt(p)
        PROVE  tx[o].verdict = "ALLOWED"
    BY <2>1, <2>8 DEF CountCandidates, TakeReceipt
  <2>9. ASSUME NEW d \in Drafts, FinaliseDraft(d) PROVE tx[o].verdict = "ALLOWED"
    BY <2>1, <2>9 DEF FinaliseDraft
  <2>10. ASSUME NEW p \in All, Verify(p) \/ Rollback(p) PROVE tx[o].verdict = "ALLOWED"
    BY <2>1, <2>10 DEF Verify, Rollback
  <2>11. CASE ObserveProfile \/ SwitchGate \/ Enforce
    BY <2>1, <2>11 DEF ObserveProfile, SwitchGate, Enforce
  <2>. QED
    BY <2>2, <2>3, <2>4, <2>5, <2>6, <2>7, <2>8, <2>9, <2>10, <2>11
       DEF Next, Completion, Closing, All
<1>. QED
  BY Inductive, <1>1, PTL DEF Spec, DecidedInItsMode
==============================================================================
