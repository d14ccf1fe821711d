----------------------------- MODULE SpendProofs ------------------------------
(***************************************************************************)
(* Theorems about spending: the ledger, the transaction and log around     *)
(* each command on it, and the decision on an operation, which reads the   *)
(* ledger's budgets.  The three parts below are about one module each.     *)
(***************************************************************************)
EXTENDS SpendLedger, CommandLog, BuyerOperationPolicy, FiniteSetTheorems, TLAPS

----------------------------------------------------------------------------
(***************************************************************************)
(* Typing.                                                                 *)
(***************************************************************************)

\* The rows that stand for absent records are well typed.
LEMMA EmptyRowsTyped ==
    NoPolicy \in Policy /\ NoRow \in Reservation /\ NoHold \in Hold /\ NoBalance \in Balance
<1>1. NoPolicy \in Policy
  BY ScopeAssumption, ClockAssumption DEF NoPolicy, Policy, Instants, Never
<1>2. NoRow \in Reservation
  BY ScopeAssumption DEF NoRow, Reservation, Statuses
<1>3. NoHold \in Hold /\ NoBalance \in Balance
  BY DEF NoHold, NoBalance, Hold, Balance
<1> QED BY <1>1, <1>2, <1>3

\* Posting the ledger entries of a command keeps holds and balances well typed.
LEMMA PostEntriesTyped ==
    ASSUME TypeOK, NEW old \in Reservations, NEW R, NEW r \in Reservations,
           NEW need \in [Policies -> Int], NEW t \in Instants,
           PostEntries(old, R, r, need, t)
    PROVE  /\ hold' \in [Reservations -> [Policies -> [Instants -> Hold]]]
           /\ balance' \in [Policies -> [Instants -> Balance]]
<1> USE DEF TypeOK
<1>1. ASSUME NEW p \in Policies, NEW q \in Instants
      PROVE  Returned(old, R, p, q) \in Int /\ Taken(need, p, q, t) \in Int
  BY <1>1 DEF Returned, Taken, Hold
<1>2. ASSUME NEW p \in Policies, NEW q \in Instants
      PROVE  [reserved |-> balance[p][q].reserved
                              - Returned(old, R, p, q) + Taken(need, p, q, t),
              committed |-> balance[p][q].committed] \in Balance
  BY <1>1, <1>2 DEF Balance
<1>3. balance' \in [Policies -> [Instants -> Balance]]
  BY <1>2 DEF PostEntries, PostBalance
<1>4. ASSUME NEW s \in Reservations, NEW p \in Policies, NEW q \in Instants
      PROVE  HoldAfter(s, old, R, r, need, t, p, q) \in Hold
  <2>1. hold[s][p][q] \in Hold /\ policy[p].revision \in Nat
    BY <1>4 DEF Policy
  <2> QED BY <1>1, <1>4, <2>1 DEF HoldAfter, Hold
<1>5. hold' \in [Reservations -> [Policies -> [Instants -> Hold]]]
  BY <1>4 DEF PostEntries
<1> QED BY <1>3, <1>5

\* A row that a submission inserts is well typed.
LEMMA NewRowTyped ==
    ASSUME TypeOK, NEW m \in Members, NEW u \in Purchases,
           NEW a \in Agreements \cup {NoAgreement}, NEW v \in 1..MaxVersion,
           NEW amount \in Amounts, NEW expires \in Nat,
           NEW old \in Reservations \cup {NoReservation}
    PROVE  NewRow(m, u, a, v, amount, expires, old) \in Reservation
<1>1. amount \in Nat
  BY MoneyAssumption
<1>2. v \in Nat /\ now \in Nat
  BY ClockAssumption DEF TypeOK, Instants
<1> QED BY <1>1, <1>2 DEF NewRow, Reservation, Statuses

\* The amounts a submission reserves are integers.
LEMMA FullAmountTyped ==
    ASSUME NEW P, NEW amount \in Amounts
    PROVE  FullAmount(P, amount) \in [Policies -> Int]
  BY MoneyAssumption DEF FullAmount

\* The period of a policy starts at an instant.
LEMMA PeriodStartTyped ==
    ASSUME TypeOK, NEW p \in Policies, NEW t \in Instants
    PROVE  PeriodStart(p, t) \in Instants
  BY ClockAssumption DEF TypeOK, PeriodStart, Policy

\* Every step keeps the state well typed.
LEMMA TypeOKStep == TypeOK /\ [Next]_vars => TypeOK'
<1> SUFFICES ASSUME TypeOK, [Next]_vars PROVE TypeOK'
  OBVIOUS
<1>1. ASSUME NEW r \in Reservations, NEW m \in Members, NEW u \in Purchases,
             NEW a \in Agreements \cup {NoAgreement}, NEW v \in 1..MaxVersion,
             NEW amount \in Amounts, NEW length \in HoldLengths, NEW t \in Recent,
             Submit(r, m, u, a, v, amount, t + length, t)
      PROVE  TypeOK'
  <2> DEFINE row == NewRow(m, u, a, v, amount, t + length, NoReservation)
             P == Applicable(row, t)
  <2>1. t \in Instants /\ t + length \in Nat
    BY <1>1, HoldAssumption, ClockAssumption
       DEF Submit, CanInsert, Recent, Instants, NewRow, TypeOK
  <2>2. row \in Reservation
    BY <1>1, <2>1, NewRowTyped
  <2>3. FullAmount(P, amount) \in [Policies -> Int]
    BY FullAmountTyped
  <2>4. PostEntries(r, {}, r, FullAmount(P, amount), t)
    BY <1>1 DEF Submit
  <2>5. /\ hold' \in [Reservations -> [Policies -> [Instants -> Hold]]]
        /\ balance' \in [Policies -> [Instants -> Balance]]
    BY <2>1, <2>3, <2>4, PostEntriesTyped
  <2>6. reservation' = [reservation EXCEPT ![r] = row] /\ UNCHANGED <<now, policy, members>>
    BY <1>1 DEF Submit
  <2> QED BY <2>2, <2>5, <2>6 DEF TypeOK
<1>2. ASSUME NEW r \in Reservations, NEW old \in Reservations, NEW v \in 1..MaxVersion,
             NEW amount \in Amounts, NEW length \in HoldLengths, NEW t \in Recent,
             Resubmit(r, old, v, amount, t + length, t)
      PROVE  TypeOK'
  <2> DEFINE o == reservation[old]
             row == NewRow(o.member, o.purchase, o.agreement, v, amount, t + length, old)
             P == Applicable(row, t)
  <2>1. t \in Instants /\ t + length \in Nat
    BY <1>2, HoldAssumption, ClockAssumption
       DEF Resubmit, CanInsert, Recent, Instants, NewRow, TypeOK
  <2>2. o \in Reservation
    BY DEF TypeOK
  <2>3. row \in Reservation
    BY <2>1, <2>2, NewRowTyped DEF Reservation
  <2>4. FullAmount(P, amount) \in [Policies -> Int]
    BY FullAmountTyped
  <2>5. PostEntries(old, AllHolds(old), r, FullAmount(P, amount), t)
    BY <1>2 DEF Resubmit
  <2>6. /\ hold' \in [Reservations -> [Policies -> [Instants -> Hold]]]
        /\ balance' \in [Policies -> [Instants -> Balance]]
    BY <2>1, <2>4, <2>5, PostEntriesTyped
  <2>7. /\ reservation' = [reservation EXCEPT ![old].status = "RELEASED", ![r] = row]
        /\ UNCHANGED <<now, policy, members>>
    BY <1>2 DEF Resubmit
  <2>8. [o EXCEPT !.status = "RELEASED"] \in Reservation
    BY <2>2 DEF Reservation, Statuses
  <2>9. reservation' \in [Reservations -> Reservation]
    BY <2>3, <2>7, <2>8 DEF TypeOK
  <2> QED BY <2>6, <2>7, <2>9 DEF TypeOK
<1>3. ASSUME NEW r \in Reservations, NEW n \in 1..MaxHoldRevision, NEW t \in Recent,
             Commit(r, n, t)
      PROVE  TypeOK'
  <2> DEFINE P == Applicable(reservation[r], t)
             Spent(p, q) == IF p \in P /\ q = PeriodStart(p, t)
                            THEN reservation[r].amount ELSE 0
  <2>1. reservation[r] \in Reservation
    BY DEF TypeOK
  <2>2. ASSUME NEW p \in Policies, NEW q \in Instants
        PROVE  Spent(p, q) \in Int /\ hold[r][p][q] \in Hold /\ balance[p][q] \in Balance
    BY <2>1, <2>2 DEF TypeOK, Reservation
  <2>3. balance' = [p \in Policies |-> [q \in Instants |->
              [reserved |-> balance[p][q].reserved - Spent(p, q),
               committed |-> balance[p][q].committed + Spent(p, q)]]]
    BY <1>3 DEF Commit
  <2>4. balance' \in [Policies -> [Instants -> Balance]]
    <3> HIDE DEF Spent
    <3> QED BY <2>2, <2>3 DEF Balance
  <2>5. hold' = [hold EXCEPT ![r] = [p \in Policies |-> [q \in Instants |->
              [revision |-> hold[r][p][q].revision,
               reserved |-> hold[r][p][q].reserved - Spent(p, q),
               committed |-> hold[r][p][q].committed + Spent(p, q)]]]]
    BY <1>3 DEF Commit
  <2>6. hold' \in [Reservations -> [Policies -> [Instants -> Hold]]]
    <3> HIDE DEF Spent
    <3>1. [p \in Policies |-> [q \in Instants |->
              [revision |-> hold[r][p][q].revision,
               reserved |-> hold[r][p][q].reserved - Spent(p, q),
               committed |-> hold[r][p][q].committed + Spent(p, q)]]]
            \in [Policies -> [Instants -> Hold]]
      BY <2>2 DEF Hold
    <3> QED BY <2>5, <3>1 DEF TypeOK
  <2>7. [reservation[r] EXCEPT !.status = "COMMITTED"] \in Reservation
    BY <2>1 DEF Reservation, Statuses
  <2>8. reservation' = [reservation EXCEPT ![r].status = "COMMITTED"]
        /\ UNCHANGED <<now, policy, members>>
    BY <1>3 DEF Commit
  <2> QED BY <2>4, <2>6, <2>7, <2>8 DEF TypeOK
<1>4. ASSUME NEW r \in Reservations, NEW t \in Recent, NEW status \in Terminal,
             Close(r, status, t)
      PROVE  TypeOK'
  <2>1. t \in Instants /\ Nothing \in [Policies -> Int]
    BY DEF Recent, Nothing
  <2>2. PostEntries(r, AllHolds(r), r, Nothing, t)
    BY <1>4 DEF Close
  <2>3. /\ hold' \in [Reservations -> [Policies -> [Instants -> Hold]]]
        /\ balance' \in [Policies -> [Instants -> Balance]]
    BY <2>1, <2>2, PostEntriesTyped
  <2>6. reservation[r] \in Reservation /\ status \in Statuses
    BY DEF TypeOK, Terminal
  <2>4. [reservation[r] EXCEPT !.status = status] \in Reservation
    BY <2>6 DEF Reservation
  <2>5. reservation' = [reservation EXCEPT ![r].status = status]
        /\ UNCHANGED <<now, policy, members>>
    BY <1>4 DEF Close
  <2>7. reservation' \in [Reservations -> Reservation]
    BY <2>4, <2>5 DEF TypeOK
  <2> QED BY <2>3, <2>5, <2>7 DEF TypeOK
<1>5. ASSUME NEW r \in Reservations, NEW t \in Recent, Rollover(r, t)
      PROVE  TypeOK'
  <2> DEFINE row == reservation[r]
             P == Applicable(row, t)
             R == StaleHolds(r, P, t)
             need == Shortfall(r, P, t)
  <2>1. row \in Reservation /\ t \in Instants
    BY DEF TypeOK, Recent
  <2>2. ASSUME NEW p \in Policies PROVE CurrentlyReserved(r, p, t) \in Int
    BY <2>1, <2>2, PeriodStartTyped DEF TypeOK, CurrentlyReserved, Hold
  <2>3. need \in [Policies -> Int]
    BY <2>1, <2>2 DEF Reservation, Shortfall
  <2>4. PostEntries(r, R, r, need, t)
    BY <1>5 DEF Rollover
  <2>5. /\ hold' \in [Reservations -> [Policies -> [Instants -> Hold]]]
        /\ balance' \in [Policies -> [Instants -> Balance]]
    <3> HIDE DEF R, need
    <3> QED BY <2>1, <2>3, <2>4, PostEntriesTyped
  <2>6. Moved(row) \in Reservation
    BY <2>1 DEF Reservation, Moved
  <2>7. reservation' = [reservation EXCEPT ![r] = Moved(@)]
        /\ UNCHANGED <<now, policy, members>>
    BY <1>5 DEF Rollover
  <2> QED BY <2>5, <2>6, <2>7 DEF TypeOK
<1>6. ASSUME NEW p \in Policies, NEW limit \in Limits, NEW w \in Windows, NEW z \in Zones,
             CreatePolicy(p, limit, w, z)
      PROVE  TypeOK'
  BY <1>6, ScopeAssumption, MoneyAssumption, ClockAssumption
     DEF CreatePolicy, TypeOK, Policy, Never
<1>7. ASSUME NEW p \in Policies, NEW limit \in Limits, NEW w \in Windows, NEW z \in Zones,
             NEW status \in {"ACTIVE", "SUSPENDED", "RETIRED"},
             RevisePolicy(p, status, limit, w, z)
      PROVE  TypeOK'
  <2>1. policy[p].revision \in Nat
    BY DEF TypeOK, Policy
  <2>2. [status |-> status, revision |-> policy[p].revision + 1, limit |-> limit,
         from |-> w.from, until |-> w.until, zone |-> z] \in Policy
    BY <2>1, ScopeAssumption, MoneyAssumption, ClockAssumption DEF Policy, Never
  <2> QED BY <1>7, <2>2 DEF RevisePolicy, NextRevision, TypeOK
<1>8. CASE Tick
  BY <1>8, ClockAssumption DEF Tick, TypeOK, Instants
<1>9. ASSUME NEW m \in Members, ChangeMember(m) PROVE TypeOK'
  BY <1>9 DEF ChangeMember, TypeOK
<1>10. CASE UNCHANGED vars
  BY <1>10 DEF vars, TypeOK
<1>11. CASE ReleaseSome \/ ExpireSome
  BY <1>4, <1>11 DEF ReleaseSome, ExpireSome, Release, Expire, Terminal, Statuses
<1>12. CASE PolicyChange
  BY <1>6, <1>7, <1>12 DEF PolicyChange
<1> QED BY <1>1, <1>2, <1>3, <1>5, <1>8, <1>9, <1>10, <1>11, <1>12
        DEF Next, SubmitSome, ResubmitSome, CommitSome, RolloverSome

\* Every reachable state is well typed.
THEOREM TypeCorrect == Spec => []TypeOK
<1>1. Init => TypeOK
  BY EmptyRowsTyped, ClockAssumption DEF Init, TypeOK, Instants
<1> QED BY <1>1, TypeOKStep, PTL DEF Spec

----------------------------------------------------------------------------
(***************************************************************************)
(* All or nothing: what a reservation holds follows from its status.  With *)
(* typing it is inductive as it stands.                                    *)
(***************************************************************************)
HoldInv == TypeOK /\ HoldsMatchStatus

\* The hold rows after a command, one at a time.
LEMMA HoldAfterPost ==
    ASSUME NEW old, NEW R, NEW r, NEW need, NEW t, PostEntries(old, R, r, need, t),
           NEW s \in Reservations, NEW p \in Policies, NEW q \in Instants
    PROVE  /\ hold'[s][p][q].reserved = hold[s][p][q].reserved
                - (IF s = old THEN Returned(old, R, p, q) ELSE 0)
                + (IF s = r THEN Taken(need, p, q, t) ELSE 0)
           /\ hold'[s][p][q].committed = hold[s][p][q].committed
           /\ hold'[s][p][q].revision =
                IF s = r /\ Taken(need, p, q, t) > 0 THEN policy[p].revision
                ELSE hold[s][p][q].revision
  BY DEF PostEntries, HoldAfter

\* A reservation that a command neither releases from nor reserves for keeps its holds.
LEMMA OthersUntouched ==
    ASSUME TypeOK, NEW old, NEW R, NEW r, NEW need, NEW t, PostEntries(old, R, r, need, t),
           NEW s \in Reservations, s # old, s # r, NEW row
    PROVE  AllOrNothing(hold[s], row) => AllOrNothing(hold'[s], row)
<1>1. ASSUME NEW p \in Policies, NEW q \in Instants
      PROVE  /\ hold'[s][p][q].reserved = hold[s][p][q].reserved
             /\ hold'[s][p][q].committed = hold[s][p][q].committed
  <2>1. hold[s][p][q].reserved \in Int
    BY <1>1 DEF TypeOK, Hold
  <2> QED BY <1>1, <2>1, HoldAfterPost
<1> QED BY <1>1 DEF AllOrNothing

\* Releasing every hold of an ACTIVE reservation leaves it nothing.
LEMMA AllReturned ==
    ASSUME HoldInv, NEW old \in Reservations, reservation[old].status = "ACTIVE",
           NEW p \in Policies, NEW q \in Instants
    PROVE  /\ hold[old][p][q].reserved = Returned(old, AllHolds(old), p, q)
           /\ hold[old][p][q].reserved \in Int
           /\ hold[old][p][q].committed = 0
<1>1. hold[old][p][q].reserved \in Int
  BY DEF HoldInv, TypeOK, Hold
<1>2. hold[old][p][q].committed = 0
  BY DEF HoldInv, HoldsMatchStatus, AllOrNothing
<1> QED BY <1>1, <1>2 DEF Returned, AllHolds

\* A new reservation takes its full amount in one period of each budget.
LEMMA NewHolds ==
    ASSUME HoldInv, NEW old \in Reservations, NEW R, NEW r \in Reservations,
           NEW P, NEW row, NEW t \in Instants,
           reservation[r].status = "NONE", row.status = "ACTIVE", row.amount \in Nat \ {0},
           r # old \/ R = {},
           PostEntries(old, R, r, FullAmount(P, row.amount), t)
    PROVE  AllOrNothing(hold'[r], row)
<1> DEFINE taken(p, q) == Taken(FullAmount(P, row.amount), p, q, t)
<1>1. ASSUME NEW p \in Policies, NEW q \in Instants
      PROVE  hold'[r][p][q].reserved = taken(p, q) /\ hold'[r][p][q].committed = 0
  <2>1. hold[r][p][q].reserved = 0 /\ hold[r][p][q].committed = 0
    BY <1>1 DEF HoldInv, HoldsMatchStatus, AllOrNothing
  <2>2. (IF r = old THEN Returned(old, R, p, q) ELSE 0) = 0
    BY DEF Returned
  <2>3. taken(p, q) \in Int
    BY <1>1 DEF Taken, FullAmount
  <2> HIDE DEF taken
  <2>4. /\ hold'[r][p][q].reserved = hold[r][p][q].reserved
              - (IF r = old THEN Returned(old, R, p, q) ELSE 0)
              + (IF r = r THEN taken(p, q) ELSE 0)
        /\ hold'[r][p][q].committed = hold[r][p][q].committed
    BY <1>1, HoldAfterPost DEF taken
  <2> QED BY <2>1, <2>2, <2>3, <2>4
<1>2. ASSUME NEW p \in Policies, NEW q \in Instants
      PROVE  taken(p, q) = IF q = PeriodStart(p, t) /\ p \in P THEN row.amount ELSE 0
  BY <1>2 DEF Taken, FullAmount
<1> HIDE DEF taken
<1> QED BY <1>1, <1>2 DEF AllOrNothing

\* Every step keeps holds in line with the status of their reservation.
LEMMA HoldInvStep == HoldInv /\ [Next]_vars => HoldsMatchStatus'
<1> SUFFICES ASSUME HoldInv, [Next]_vars, NEW s \in Reservations
             PROVE  AllOrNothing(hold'[s], reservation'[s])
  BY DEF HoldsMatchStatus
<1>0. TypeOK /\ AllOrNothing(hold[s], reservation[s])
  BY DEF HoldInv, HoldsMatchStatus
<1>1. ASSUME NEW r \in Reservations, NEW m \in Members, NEW u \in Purchases,
             NEW a \in Agreements \cup {NoAgreement}, NEW v \in 1..MaxVersion,
             NEW amount \in Amounts, NEW length \in HoldLengths, NEW t \in Recent,
             Submit(r, m, u, a, v, amount, t + length, t)
      PROVE  AllOrNothing(hold'[s], reservation'[s])
  <2> DEFINE row == NewRow(m, u, a, v, amount, t + length, NoReservation)
             P == Applicable(row, t)
  <2>1. /\ reservation[r].status = "NONE"
        /\ PostEntries(r, {}, r, FullAmount(P, amount), t)
        /\ reservation' = [reservation EXCEPT ![r] = row]
    BY <1>1 DEF Submit, CanInsert
  <2>2. row.status = "ACTIVE" /\ row.amount = amount /\ amount \in Nat \ {0}
    BY MoneyAssumption DEF NewRow
  <2>3. reservation'[r] = row
    BY <1>0, <2>1 DEF TypeOK
  <2> HIDE DEF row, P
  <2>4. AllOrNothing(hold'[r], row)
    BY <2>1, <2>2, NewHolds DEF Recent
  <2>5. CASE s # r
    BY <1>0, <2>1, <2>5, OthersUntouched DEF TypeOK
  <2> QED BY <2>3, <2>4, <2>5
<1>2. ASSUME NEW r \in Reservations, NEW old \in Reservations, NEW v \in 1..MaxVersion,
             NEW amount \in Amounts, NEW length \in HoldLengths, NEW t \in Recent,
             Resubmit(r, old, v, amount, t + length, t)
      PROVE  AllOrNothing(hold'[s], reservation'[s])
  <2> DEFINE o == reservation[old]
             row == NewRow(o.member, o.purchase, o.agreement, v, amount, t + length, old)
             P == Applicable(row, t)
  <2>1. /\ reservation[r].status = "NONE" /\ reservation[old].status = "ACTIVE"
        /\ PostEntries(old, AllHolds(old), r, FullAmount(P, amount), t)
        /\ reservation' = [reservation EXCEPT ![old].status = "RELEASED", ![r] = row]
    BY <1>2 DEF Resubmit, Supersedable, CanInsert, LockActive
  <2>2. row.status = "ACTIVE" /\ row.amount = amount /\ amount \in Nat \ {0}
    BY MoneyAssumption DEF NewRow
  <2>3. r # old
    BY <2>1
  <2>4. reservation'[r] = row /\ (s # r /\ s # old => reservation'[s] = reservation[s])
    BY <1>0, <2>1 DEF TypeOK
  <2> HIDE DEF row, P, o
  <2>5. AllOrNothing(hold'[r], row)
    BY <2>1, <2>2, <2>3, NewHolds DEF Recent
  <2>6. ASSUME NEW p \in Policies, NEW q \in Instants
        PROVE  hold'[old][p][q].reserved = 0 /\ hold'[old][p][q].committed = 0
    BY <2>1, <2>3, <2>6, AllReturned, HoldAfterPost
  <2>7. AllOrNothing(hold'[old], reservation'[old])
    BY <2>6 DEF AllOrNothing
  <2>8. CASE s # r /\ s # old
    BY <1>0, <2>1, <2>4, <2>8, OthersUntouched
  <2> QED BY <2>4, <2>5, <2>7, <2>8
<1>3. ASSUME NEW r \in Reservations, NEW n \in 1..MaxHoldRevision, NEW t \in Recent,
             Commit(r, n, t)
      PROVE  AllOrNothing(hold'[s], reservation'[s])
  <2> DEFINE P == Applicable(reservation[r], t)
             amount == reservation[r].amount
             Spent(p, q) == IF p \in P /\ q = PeriodStart(p, t) THEN amount ELSE 0
  <2>1. /\ reservation[r].status = "ACTIVE"
        /\ reservation'[r].status = "COMMITTED" /\ reservation'[r].amount = amount
        /\ s # r => reservation'[s] = reservation[s] /\ hold'[s] = hold[s]
    BY <1>0, <1>3 DEF Commit, LockUnexpired, LockActive, TypeOK
  <2>2. ASSUME NEW p \in Policies, NEW q \in Instants
        PROVE  /\ hold'[r][p][q].reserved = hold[r][p][q].reserved - Spent(p, q)
               /\ hold'[r][p][q].committed = hold[r][p][q].committed + Spent(p, q)
    BY <1>0, <1>3, <2>2 DEF Commit, TypeOK
  <2>3. amount \in Nat
    BY <1>0 DEF TypeOK, Reservation
  <2>4. ASSUME NEW p \in Policies, NEW q \in Instants
        PROVE  /\ hold[r][p][q].committed = 0
               /\ hold[r][p][q].reserved = Spent(p, q)
    <3>1. hold[r][p][q].committed = 0
      BY <2>1, <2>4 DEF HoldInv, HoldsMatchStatus, AllOrNothing
    <3>2. CASE p \in P /\ q = PeriodStart(p, t)
      <4>1. CurrentlyReserved(r, p, t) = amount
        BY <1>3, <3>2 DEF Commit, FullyHeld, HeldInFull
      <4>2. hold[r][p][q].reserved = amount \/ amount = 0
        BY <3>2, <4>1 DEF CurrentlyReserved
      <4>3. hold[r][p][q].reserved # 0 => hold[r][p][q].reserved = amount
        BY <2>4 DEF HoldInv, HoldsMatchStatus, AllOrNothing
      <4> QED BY <3>1, <3>2, <4>2, <4>3
    <3>3. CASE ~(p \in P /\ q = PeriodStart(p, t))
      <4>1. <<p, q>> \notin AllHolds(r)
        BY <1>3, <3>3 DEF Commit, FullyHeld, NoStaleHold, IsCurrent
      <4> QED BY <2>4, <3>1, <3>3, <4>1 DEF AllHolds
    <3> QED BY <3>2, <3>3
  <2>5. ASSUME NEW p \in Policies, NEW q \in Instants
        PROVE  hold'[r][p][q].reserved = 0 /\ hold'[r][p][q].committed = Spent(p, q)
    BY <2>2, <2>3, <2>4, <2>5
  <2>6. AllOrNothing(hold'[r], reservation'[r])
    BY <2>1, <2>5 DEF AllOrNothing
  <2> QED BY <1>0, <2>1, <2>6
<1>4. ASSUME NEW r \in Reservations, NEW t \in Recent, NEW status \in Terminal,
             reservation[r].status = "ACTIVE", Close(r, status, t)
      PROVE  AllOrNothing(hold'[s], reservation'[s])
  <2>1. PostEntries(r, AllHolds(r), r, Nothing, t)
    BY <1>4 DEF Close
  <2>2. ASSUME NEW p \in Policies, NEW q \in Instants
        PROVE  hold'[r][p][q].reserved = 0 /\ hold'[r][p][q].committed = 0
    <3>1. Taken(Nothing, p, q, t) = 0
      BY <2>2 DEF Taken, Nothing
    <3> QED BY <1>4, <2>1, <2>2, <3>1, AllReturned, HoldAfterPost
  <2>3. AllOrNothing(hold'[r], reservation'[r])
    BY <2>2 DEF AllOrNothing
  <2>4. s # r => reservation'[s] = reservation[s]
    BY <1>0, <1>4 DEF Close, TypeOK
  <2> QED BY <1>0, <2>1, <2>3, <2>4, OthersUntouched
<1>5. ASSUME NEW r \in Reservations, NEW t \in Recent, Rollover(r, t)
      PROVE  AllOrNothing(hold'[s], reservation'[s])
  <2> DEFINE row == reservation[r]
             P == Applicable(row, t)
             R == StaleHolds(r, P, t)
             need == Shortfall(r, P, t)
  <2>1. /\ PostEntries(r, R, r, need, t)
        /\ row.status = "ACTIVE" /\ row.amount \in Nat
    BY <1>0, <1>5 DEF Rollover, LockUnexpired, LockActive, TypeOK, Reservation
  <2>2. /\ s # r => reservation'[s] = reservation[s]
        /\ reservation'[r].status = "ACTIVE" /\ reservation'[r].amount = row.amount
    BY <1>0, <1>5, <2>1 DEF Rollover, TypeOK, Moved, Reservation
  <2>3. ASSUME NEW p \in Policies, NEW q \in Instants
        PROVE  /\ hold'[r][p][q].reserved =
                    IF p \in P /\ q = PeriodStart(p, t) THEN row.amount ELSE 0
               /\ hold'[r][p][q].committed = 0
    <3> DEFINE h == hold[r][p][q]
               out == Returned(r, R, p, q)
               in == Taken(need, p, q, t)
    <3>1. /\ h.reserved \in Int /\ (h.reserved = 0 \/ h.reserved = row.amount)
          /\ h.committed = 0
      BY <1>0, <2>1, <2>3 DEF TypeOK, Hold, HoldInv, HoldsMatchStatus, AllOrNothing
    <3>2. hold'[r][p][q].reserved = h.reserved - out + in /\ hold'[r][p][q].committed = h.committed
      <4> HIDE DEF R, need
      <4> QED BY <2>1, <2>3, HoldAfterPost
    <3>3. CASE p \in P /\ q = PeriodStart(p, t)
      <4>1. CASE h.revision = policy[p].revision
        <5>1. out = 0
          BY <3>3, <4>1 DEF Returned, StaleHolds, IsCurrent
        <5>2. CurrentlyReserved(r, p, t) = h.reserved
          BY <3>3, <4>1 DEF CurrentlyReserved
        <5>3. in = row.amount - h.reserved
          BY <2>1, <2>3, <3>1, <3>3, <5>2 DEF Taken, Shortfall
        <5> QED BY <2>1, <3>1, <3>2, <3>3, <5>1, <5>3
      <4>2. CASE h.revision # policy[p].revision
        <5>1. out = h.reserved
          BY <2>3, <3>1, <3>3, <4>2 DEF Returned, StaleHolds, IsCurrent, AllHolds
        <5>2. CurrentlyReserved(r, p, t) = 0
          BY <3>3, <4>2 DEF CurrentlyReserved
        <5>3. in = row.amount
          BY <2>1, <2>3, <3>3, <5>2 DEF Taken, Shortfall
        <5> QED BY <2>1, <3>1, <3>2, <3>3, <5>1, <5>3
      <4> QED BY <4>1, <4>2
    <3>4. CASE ~(p \in P /\ q = PeriodStart(p, t))
      <4>1. out = h.reserved
        BY <2>3, <3>1, <3>4 DEF Returned, StaleHolds, IsCurrent, AllHolds
      <4>2. in = 0
        BY <2>3, <3>4 DEF Taken, Shortfall
      <4> QED BY <3>1, <3>2, <3>4, <4>1, <4>2
    <3> QED BY <3>3, <3>4
  <2>4. AllOrNothing(hold'[r], reservation'[r])
    <3> HIDE DEF P, row
    <3> QED BY <2>2, <2>3, <2>1 DEF AllOrNothing
  <2>5. CASE s # r
    <3> HIDE DEF R, need, row
    <3>1. AllOrNothing(hold[s], reservation[s]) => AllOrNothing(hold'[s], reservation[s])
      BY <1>0, <2>1, <2>5, OthersUntouched
    <3>2. reservation'[s] = reservation[s]
      BY <1>0, <2>2, <2>5 DEF TypeOK
    <3> QED BY <1>0, <3>1, <3>2
  <2> QED BY <2>4, <2>5
<1>6. CASE PolicyChange \/ Tick \/ (\E m \in Members : ChangeMember(m)) \/ UNCHANGED vars
  <2>1. UNCHANGED <<reservation, hold>>
    <3>1. ASSUME PolicyChange PROVE UNCHANGED <<reservation, hold>>
      <4>1. PICK p \in Policies, limit \in Limits, w \in Windows, z \in Zones :
              \/ CreatePolicy(p, limit, w, z)
              \/ \E status \in {"ACTIVE", "SUSPENDED", "RETIRED"} :
                     RevisePolicy(p, status, limit, w, z)
        BY <3>1 DEF PolicyChange
      <4>2. CASE CreatePolicy(p, limit, w, z)
        BY <4>2 DEF CreatePolicy
      <4>3. ASSUME NEW status, RevisePolicy(p, status, limit, w, z)
            PROVE  UNCHANGED <<reservation, hold>>
        BY <4>3 DEF RevisePolicy
      <4> QED BY <4>1, <4>2, <4>3
    <3>2. Tick \/ (\E m \in Members : ChangeMember(m)) \/ UNCHANGED vars
              => UNCHANGED <<reservation, hold>>
      BY DEF Tick, ChangeMember, vars
    <3> QED BY <1>6, <3>1, <3>2
  <2> QED BY <1>0, <2>1
<1>7. CASE ReleaseSome \/ ExpireSome
  BY <1>4, <1>7 DEF ReleaseSome, ExpireSome, Release, Expire, LockActive, Terminal, Statuses
<1> QED BY <1>1, <1>2, <1>3, <1>5, <1>6, <1>7
        DEF Next, SubmitSome, ResubmitSome, CommitSome, RolloverSome

\* In every reachable state an ACTIVE reservation holds all or nothing of each
\* budget, a COMMITTED one has consumed it once, and a closed one leaks nothing.
THEOREM HoldsSafe == Spec => []HoldsMatchStatus
<1>1. Init => HoldInv
  <2>1. Init => TypeOK
    BY EmptyRowsTyped, ClockAssumption DEF Init, TypeOK, Instants
  <2>2. Init => HoldsMatchStatus
    BY DEF Init, HoldsMatchStatus, AllOrNothing, NoHold
  <2> QED BY <2>1, <2>2 DEF HoldInv
<1>2. HoldInv /\ [Next]_vars => HoldInv'
  BY TypeOKStep, HoldInvStep DEF HoldInv
<1>3. HoldInv => HoldsMatchStatus
  BY DEF HoldInv
<1> QED BY <1>1, <1>2, <1>3, PTL DEF Spec

----------------------------------------------------------------------------
(***************************************************************************)
(* Conservation.  An entry moves the hold of one reservation and the       *)
(* balance of the period by the same amount, so the sum follows; that only *)
(* finitely many units are held is part of the invariant, as the ids of    *)
(* reservations may be infinitely many.                                    *)
(***************************************************************************)
Conserved(f, n) == IsFiniteSet(Units(f)) /\ Cardinality(Units(f)) = n
BalanceInv ==
    \A p \in Policies, q \in Instants :
        /\ Conserved(ReservedOn(p, q), balance[p][q].reserved)
        /\ Conserved(CommittedOn(p, q), balance[p][q].committed)

\* A sum changes by what the value of one reservation changes by.
LEMMA OneChanges ==
    ASSUME NEW f \in [Reservations -> Nat], NEW g \in [Reservations -> Nat],
           NEW r \in Reservations, NEW n \in Int, Conserved(f, n),
           \A s \in Reservations \ {r} : g[s] = f[s]
    PROVE  Conserved(g, n - f[r] + g[r])
<1> DEFINE Rest == {u \in Units(f) : u[1] # r}
           Column(k) == {r} \X (1..k)
<1>1. ASSUME NEW k \in Nat PROVE IsFiniteSet(Column(k)) /\ Cardinality(Column(k)) = k
  <2>1. IsFiniteSet(1..k) /\ Cardinality(1..k) = k
    <3>1. 1 \in Int /\ k \in Int
      BY <1>1
    <3>2. IsFiniteSet(1..k) /\ Cardinality(1..k) = IF 1 > k THEN 0 ELSE k - 1 + 1
      BY <3>1, FS_Interval, Zenon
    <3> QED BY <1>1, <3>2
  <2>2. IsFiniteSet({r}) /\ Cardinality({r}) = 1
    BY FS_Singleton
  <2>3. /\ IsFiniteSet({r} \X (1..k))
        /\ Cardinality({r} \X (1..k)) = Cardinality({r}) * Cardinality(1..k)
    BY <2>1, <2>2, FS_Product, Zenon
  <2>4. Cardinality({r}) * Cardinality(1..k) = k
    BY <1>1, <2>1, <2>2
  <2> QED BY <2>3, <2>4
<1>2. Rest \cap Column(f[r]) = {} /\ Rest \cap Column(g[r]) = {}
  OBVIOUS
<1>3. Units(f) = Rest \cup Column(f[r])
  BY DEF Units
<1>4. Units(g) = Rest \cup Column(g[r])
  BY DEF Units
<1>5. IsFiniteSet(Rest)
  BY FS_Subset DEF Conserved
<1> HIDE DEF Rest, Column
<1>6. f[r] \in Nat /\ g[r] \in Nat /\ Cardinality(Rest) \in Nat
  BY <1>5, FS_CardinalityType
<1>7. Cardinality({}) = 0
  BY FS_EmptySet
<1>8. Cardinality(Units(f)) = Cardinality(Rest) + f[r]
  <2>1. IsFiniteSet(Column(f[r])) /\ Cardinality(Column(f[r])) = f[r]
    BY <1>1, <1>6
  <2>2. Cardinality(Rest \cup Column(f[r])) =
          Cardinality(Rest) + Cardinality(Column(f[r])) - Cardinality(Rest \cap Column(f[r]))
    BY <1>5, <2>1, FS_Union, Zenon
  <2>3. Cardinality(Units(f)) = Cardinality(Rest) + Cardinality(Column(f[r])) - Cardinality({})
    BY <1>2, <1>3, <2>2, Zenon
  <2> QED BY <1>6, <1>7, <2>1, <2>3
<1>9. IsFiniteSet(Units(g)) /\ Cardinality(Units(g)) = Cardinality(Rest) + g[r]
  <2>1. IsFiniteSet(Column(g[r])) /\ Cardinality(Column(g[r])) = g[r]
    BY <1>1, <1>6
  <2>2. /\ IsFiniteSet(Rest \cup Column(g[r]))
        /\ Cardinality(Rest \cup Column(g[r])) =
             Cardinality(Rest) + Cardinality(Column(g[r])) - Cardinality(Rest \cap Column(g[r]))
    BY <1>5, <2>1, FS_Union, Zenon
  <2>3. /\ IsFiniteSet(Units(g))
        /\ Cardinality(Units(g)) = Cardinality(Rest) + Cardinality(Column(g[r])) - Cardinality({})
    BY <1>2, <1>4, <2>2, Zenon
  <2> QED BY <1>6, <1>7, <2>1, <2>3
<1> QED BY <1>6, <1>8, <1>9 DEF Conserved

\* What is held and what is committed are naturals.
LEMMA HoldsAreNatural ==
    HoldInv => \A p \in Policies, q \in Instants :
                  /\ ReservedOn(p, q) \in [Reservations -> Nat]
                  /\ CommittedOn(p, q) \in [Reservations -> Nat]
<1> SUFFICES ASSUME HoldInv, NEW p \in Policies, NEW q \in Instants
             PROVE  /\ ReservedOn(p, q) \in [Reservations -> Nat]
                    /\ CommittedOn(p, q) \in [Reservations -> Nat]
  OBVIOUS
<1>1. ASSUME NEW r \in Reservations
      PROVE  hold[r][p][q].reserved \in Nat /\ hold[r][p][q].committed \in Nat
  <2>1. hold[r][p][q] \in Hold /\ reservation[r].amount \in Nat
    BY <1>1 DEF HoldInv, TypeOK, Reservation
  <2>2. AllOrNothing(hold[r], reservation[r])
    BY <1>1 DEF HoldInv, HoldsMatchStatus
  <2> QED BY <2>1, <2>2 DEF Hold, AllOrNothing
<1> QED BY <1>1 DEF ReservedOn, CommittedOn

LEMMA NaturalAfter ==
    HoldInv' => \A p \in Policies, q \in Instants :
                   /\ ReservedOn(p, q)' \in [Reservations -> Nat]
                   /\ CommittedOn(p, q)' \in [Reservations -> Nat]
<1>1. (\A p \in Policies, q \in Instants : /\ ReservedOn(p, q) \in [Reservations -> Nat]
                                           /\ CommittedOn(p, q) \in [Reservations -> Nat])'
      <=> \A p \in Policies, q \in Instants : /\ ReservedOn(p, q)' \in [Reservations -> Nat]
                                              /\ CommittedOn(p, q)' \in [Reservations -> Nat]
  OBVIOUS
<1> QED BY <1>1, HoldsAreNatural, PTL

\* The entries of a command move holds and balances together.
LEMMA PostingConserves ==
    ASSUME HoldInv, HoldInv', BalanceInv, NEW old \in Reservations, NEW R,
           NEW r \in Reservations, NEW need \in [Policies -> Int], NEW t \in Instants,
           PostEntries(old, R, r, need, t)
    PROVE  BalanceInv'
<1> SUFFICES ASSUME NEW p \in Policies, NEW q \in Instants
             PROVE  /\ Conserved(ReservedOn(p, q)', balance'[p][q].reserved)
                    /\ Conserved(CommittedOn(p, q)', balance'[p][q].committed)
  BY DEF BalanceInv, Conserved
<1> DEFINE f == ReservedOn(p, q)
           out == Returned(old, R, p, q)
           in == Taken(need, p, q, t)
           between == [f EXCEPT ![old] = @ - out]
<1>1. /\ f \in [Reservations -> Nat] /\ f' \in [Reservations -> Nat]
      /\ CommittedOn(p, q) \in [Reservations -> Nat]
      /\ CommittedOn(p, q)' \in [Reservations -> Nat]
  <2>1. f \in [Reservations -> Nat] /\ CommittedOn(p, q) \in [Reservations -> Nat]
    BY HoldsAreNatural
  <2>2. f' \in [Reservations -> Nat] /\ CommittedOn(p, q)' \in [Reservations -> Nat]
    BY NaturalAfter
  <2> QED BY <2>1, <2>2
<1>2. out \in Int /\ in \in Int /\ f[old] - out \in Nat
  BY <1>1 DEF Returned, Taken, ReservedOn
<1>3. between \in [Reservations -> Nat]
  BY <1>1, <1>2
<1>4. \A s \in Reservations :
        /\ f'[s] = f[s] - (IF s = old THEN out ELSE 0) + (IF s = r THEN in ELSE 0)
        /\ CommittedOn(p, q)'[s] = CommittedOn(p, q)[s]
  BY HoldAfterPost DEF ReservedOn, CommittedOn
<1>5. /\ balance'[p][q].reserved = balance[p][q].reserved - out + in
      /\ balance'[p][q].committed = balance[p][q].committed
  BY DEF PostEntries, PostBalance
<1>6. /\ Conserved(f, balance[p][q].reserved)
      /\ Conserved(CommittedOn(p, q), balance[p][q].committed)
      /\ balance[p][q].reserved \in Int
  BY DEF BalanceInv, HoldInv, TypeOK, Balance
<1> HIDE DEF f, out, in
<1>7. Conserved(between, balance[p][q].reserved - f[old] + between[old])
  BY <1>1, <1>3, <1>6, OneChanges
<1>8. Conserved(between, balance[p][q].reserved - out)
  <2>1. balance[p][q].reserved - f[old] + between[old] = balance[p][q].reserved - out
    BY <1>1, <1>2, <1>6
  <2> QED BY <1>7, <2>1
<1>9. \A s \in Reservations \ {r} : f'[s] = between[s]
  BY <1>1, <1>2, <1>4
<1>10. f'[r] = between[r] + in
  BY <1>1, <1>2, <1>4
<1>11. Conserved(f', balance[p][q].reserved - out + in)
  <2>1. Conserved(f', (balance[p][q].reserved - out) - between[r] + f'[r])
    <3>1. balance[p][q].reserved - out \in Int
      BY <1>2, <1>6
    <3> HIDE DEF between
    <3> QED BY <1>1, <1>3, <1>8, <1>9, <3>1, OneChanges, Zenon
  <2>2. (balance[p][q].reserved - out) - between[r] + f'[r] = balance[p][q].reserved - out + in
    BY <1>2, <1>3, <1>6, <1>10
  <2> QED BY <2>1, <2>2
<1>12. CommittedOn(p, q)' = CommittedOn(p, q)
  BY <1>1, <1>4
<1> QED BY <1>5, <1>6, <1>11, <1>12 DEF f

\* Every step keeps each balance the sum of its holds.
LEMMA BalanceStep == HoldInv /\ HoldInv' /\ BalanceInv /\ [Next]_vars => BalanceInv'
<1> SUFFICES ASSUME HoldInv, HoldInv', BalanceInv, [Next]_vars PROVE BalanceInv'
  OBVIOUS
<1>1. ASSUME NEW r \in Reservations, NEW m \in Members, NEW u \in Purchases,
             NEW a \in Agreements \cup {NoAgreement}, NEW v \in 1..MaxVersion,
             NEW amount \in Amounts, NEW length \in HoldLengths, NEW t \in Recent,
             Submit(r, m, u, a, v, amount, t + length, t)
      PROVE  BalanceInv'
  <2>1. \E P : PostEntries(r, {}, r, FullAmount(P, amount), t)
    BY <1>1 DEF Submit
  <2> QED BY <2>1, FullAmountTyped, PostingConserves DEF Recent
<1>2. ASSUME NEW r \in Reservations, NEW old \in Reservations, NEW v \in 1..MaxVersion,
             NEW amount \in Amounts, NEW length \in HoldLengths, NEW t \in Recent,
             Resubmit(r, old, v, amount, t + length, t)
      PROVE  BalanceInv'
  <2>1. \E P : PostEntries(old, AllHolds(old), r, FullAmount(P, amount), t)
    BY <1>2 DEF Resubmit
  <2> QED BY <2>1, FullAmountTyped, PostingConserves DEF Recent
<1>3. ASSUME NEW r \in Reservations, NEW n \in 1..MaxHoldRevision, NEW t \in Recent,
             Commit(r, n, t)
      PROVE  BalanceInv'
  <2> SUFFICES ASSUME NEW p \in Policies, NEW q \in Instants
               PROVE  /\ Conserved(ReservedOn(p, q)', balance'[p][q].reserved)
                      /\ Conserved(CommittedOn(p, q)', balance'[p][q].committed)
    BY DEF BalanceInv, Conserved
  <2> DEFINE P == Applicable(reservation[r], t)
             spent == IF p \in P /\ q = PeriodStart(p, t) THEN reservation[r].amount ELSE 0
             f == ReservedOn(p, q)
             g == CommittedOn(p, q)
  <2>1. f \in [Reservations -> Nat] /\ g \in [Reservations -> Nat]
    BY HoldsAreNatural
  <2>2. f' \in [Reservations -> Nat] /\ g' \in [Reservations -> Nat]
    BY NaturalAfter
  <2>3. spent \in Int
    BY DEF HoldInv, TypeOK, Reservation
  <2>4. /\ balance'[p][q].reserved = balance[p][q].reserved - spent
        /\ balance'[p][q].committed = balance[p][q].committed + spent
    BY <1>3 DEF Commit
  <2>5. /\ hold'[r][p][q].reserved = hold[r][p][q].reserved - spent
        /\ hold'[r][p][q].committed = hold[r][p][q].committed + spent
        /\ \A s \in Reservations \ {r} : hold'[s] = hold[s]
    BY <1>3 DEF Commit, HoldInv, TypeOK
  <2> HIDE DEF spent
  <2>6. /\ f'[r] = f[r] - spent /\ g'[r] = g[r] + spent
        /\ \A s \in Reservations \ {r} : f'[s] = f[s] /\ g'[s] = g[s]
    BY <2>5 DEF ReservedOn, CommittedOn
  <2>7. /\ Conserved(f, balance[p][q].reserved) /\ Conserved(g, balance[p][q].committed)
        /\ balance[p][q].reserved \in Int /\ balance[p][q].committed \in Int
    BY DEF BalanceInv, HoldInv, TypeOK, Balance
  <2> HIDE DEF f, g
  <2>8. Conserved(f', balance[p][q].reserved - f[r] + f'[r])
    BY <2>1, <2>2, <2>6, <2>7, OneChanges
  <2>9. Conserved(g', balance[p][q].committed - g[r] + g'[r])
    BY <2>1, <2>2, <2>6, <2>7, OneChanges
  <2>10. /\ balance[p][q].reserved - f[r] + f'[r] = balance'[p][q].reserved
         /\ balance[p][q].committed - g[r] + g'[r] = balance'[p][q].committed
    BY <2>1, <2>3, <2>4, <2>6, <2>7
  <2> QED BY <2>8, <2>9, <2>10 DEF f, g
<1>4. ASSUME NEW r \in Reservations, NEW t \in Recent, NEW status \in Terminal,
             Close(r, status, t)
      PROVE  BalanceInv'
  <2>1. PostEntries(r, AllHolds(r), r, Nothing, t) /\ Nothing \in [Policies -> Int]
    BY <1>4 DEF Close, Nothing
  <2> QED BY <2>1, PostingConserves DEF Recent
<1>5. ASSUME NEW r \in Reservations, NEW t \in Recent, Rollover(r, t)
      PROVE  BalanceInv'
  <2> DEFINE P == Applicable(reservation[r], t)
             need == Shortfall(r, P, t)
  <2>1. PostEntries(r, StaleHolds(r, P, t), r, need, t)
    BY <1>5 DEF Rollover
  <2>2. need \in [Policies -> Int]
    <3>1. reservation[r].amount \in Nat /\ TypeOK /\ t \in Instants
      BY DEF HoldInv, TypeOK, Reservation, Recent
    <3>2. ASSUME NEW p \in Policies PROVE CurrentlyReserved(r, p, t) \in Int
      BY <3>1, <3>2, PeriodStartTyped DEF TypeOK, CurrentlyReserved, Hold
    <3> QED BY <3>1, <3>2 DEF Shortfall
  <2> HIDE DEF need
  <2> QED BY <2>1, <2>2, PostingConserves DEF Recent
<1>6. CASE UNCHANGED <<hold, balance>>
  <2>1. \A p \in Policies, q \in Instants :
          ReservedOn(p, q)' = ReservedOn(p, q) /\ CommittedOn(p, q)' = CommittedOn(p, q)
    BY <1>6 DEF ReservedOn, CommittedOn
  <2> QED BY <1>6, <2>1 DEF BalanceInv, Conserved
<1>7. CASE ReleaseSome \/ ExpireSome
  BY <1>4, <1>7 DEF ReleaseSome, ExpireSome, Release, Expire, Terminal, Statuses
<1>8. CASE PolicyChange
  BY <1>6, <1>8 DEF PolicyChange, CreatePolicy, RevisePolicy
<1>9. CASE Tick \/ (\E m \in Members : ChangeMember(m)) \/ UNCHANGED vars
  BY <1>6, <1>9 DEF Tick, ChangeMember, vars
<1> QED BY <1>1, <1>2, <1>3, <1>5, <1>7, <1>8, <1>9
        DEF Next, SubmitSome, ResubmitSome, CommitSome, RolloverSome

\* In every reachable state the balance of a budget period is the sum of the holds
\* on it, for any number of reservations, policies and periods.
THEOREM BalancesConserved == Spec => []BalanceIsSumOfHolds
<1>1. Init => HoldInv /\ BalanceInv
  <2> SUFFICES ASSUME Init PROVE HoldInv /\ BalanceInv
    OBVIOUS
  <2>1. HoldInv
    BY EmptyRowsTyped, ClockAssumption
       DEF Init, HoldInv, TypeOK, Instants, HoldsMatchStatus, AllOrNothing, NoHold
  <2>2. ASSUME NEW p \in Policies, NEW q \in Instants
        PROVE  Units(ReservedOn(p, q)) = {} /\ Units(CommittedOn(p, q)) = {}
    BY <2>2 DEF Init, NoHold, Units, ReservedOn, CommittedOn
  <2>3. BalanceInv
    BY <2>2, FS_EmptySet DEF Init, NoBalance, BalanceInv, Conserved
  <2> QED BY <2>1, <2>3
<1>2. HoldInv /\ BalanceInv /\ [Next]_vars => (HoldInv /\ BalanceInv)'
  BY TypeOKStep, HoldInvStep, BalanceStep DEF HoldInv
<1>3. BalanceInv => BalanceIsSumOfHolds
  BY DEF BalanceInv, BalanceIsSumOfHolds, Conserved
<1> QED BY <1>1, <1>2, <1>3, PTL DEF Spec

----------------------------------------------------------------------------
(***************************************************************************)
(* Capacity.  A hold at the present revision of its policy was checked     *)
(* against the present limit, because every change of a limit advances the *)
(* revision past the revision of every hold (RevisionsLag).                *)
(***************************************************************************)
RevisionsLag ==
    \A p \in Policies :
        /\ policy[p].status = "NONE" => policy[p].revision = 0
        /\ \A r \in Reservations, q \in Instants : hold[r][p][q].revision <= policy[p].revision

Used(h) == h.reserved > 0 \/ h.committed > 0
CapacityInv == HoldInv /\ RevisionsLag /\ CapacityHonoured

\* Posting entries keeps hold revisions at or below the revision of their policy.
LEMMA PostKeepsRevisions ==
    ASSUME TypeOK, RevisionsLag, NEW old, NEW R, NEW r, NEW need, NEW t,
           PostEntries(old, R, r, need, t), UNCHANGED policy
    PROVE  RevisionsLag'
<1> SUFFICES ASSUME NEW p \in Policies, NEW s \in Reservations, NEW q \in Instants
             PROVE  hold'[s][p][q].revision <= policy[p].revision
  BY DEF RevisionsLag
<1>1. policy[p].revision \in Nat
  BY DEF TypeOK, Policy
<1> QED BY <1>1, HoldAfterPost DEF RevisionsLag

\* Posting entries keeps every budget period that a present hold uses within its limit.
LEMMA PostKeepsCapacity ==
    ASSUME HoldInv, CapacityHonoured, NEW old \in Reservations, NEW R,
           NEW r \in Reservations, NEW need \in [Policies -> Nat], NEW t \in Instants,
           PostEntries(old, R, r, need, t), UNCHANGED policy
    PROVE  CapacityHonoured'
<1> SUFFICES ASSUME NEW s \in Reservations, NEW p \in Policies, NEW q \in Instants,
                    hold'[s][p][q].revision = policy[p].revision, Used(hold'[s][p][q])
             PROVE  balance'[p][q].committed + balance'[p][q].reserved <= policy[p].limit
  BY DEF CapacityHonoured, Used
<1> DEFINE out == Returned(old, R, p, q)
           in == Taken(need, p, q, t)
           b == balance[p][q]
<1>1. b.reserved \in Int /\ b.committed \in Int /\ policy[p].limit \in Nat
  BY DEF HoldInv, TypeOK, Balance, Policy
<1>2. out \in Nat
  <2>1. reservation[old].amount \in Nat
    BY DEF HoldInv, TypeOK, Reservation
  <2> QED BY <2>1 DEF Returned, HoldInv, HoldsMatchStatus, AllOrNothing
<1>3. in \in Nat
  BY DEF Taken
<1>4. balance'[p][q].committed = b.committed /\ balance'[p][q].reserved = b.reserved - out + in
  BY DEF PostEntries, PostBalance
<1>5. CASE in > 0
  <2>1. q = PeriodStart(p, t) /\ need[p] = in
    BY <1>5 DEF Taken
  <2>2. in <= Room(p, q) + out
    BY <1>5, <2>1 DEF PostEntries, CanReserve
  <2>3. Room(p, q) = policy[p].limit - b.committed - b.reserved
    BY DEF Room
  <2> HIDE DEF in, out, b
  <2> QED BY <1>1, <1>2, <1>3, <1>4, <2>2, <2>3
<1>6. CASE in = 0
  <2>1. /\ hold[s][p][q].reserved \in Int
        /\ hold[s][p][q].revision = policy[p].revision
        /\ hold'[s][p][q].committed = hold[s][p][q].committed
        /\ hold'[s][p][q].reserved = hold[s][p][q].reserved - (IF s = old THEN out ELSE 0)
                                       + (IF s = r THEN in ELSE 0)
    <3>1. hold[s][p][q].reserved \in Int
      BY DEF HoldInv, TypeOK, Hold
    <3>2. /\ hold'[s][p][q].reserved = hold[s][p][q].reserved
                - (IF s = old THEN out ELSE 0) + (IF s = r THEN in ELSE 0)
          /\ hold'[s][p][q].committed = hold[s][p][q].committed
          /\ hold'[s][p][q].revision = IF s = r /\ in > 0 THEN policy[p].revision
                                       ELSE hold[s][p][q].revision
      BY HoldAfterPost
    <3> HIDE DEF in, out
    <3> QED BY <1>6, <3>1, <3>2
  <2>2. Used(hold[s][p][q])
    <3> HIDE DEF in, out
    <3> QED BY <1>2, <1>6, <2>1 DEF Used
  <2>3. b.committed + b.reserved <= policy[p].limit
    BY <2>1, <2>2 DEF CapacityHonoured, Used
  <2> HIDE DEF in, out, b
  <2> QED BY <1>1, <1>2, <1>4, <1>6, <2>3
<1> QED BY <1>3, <1>5, <1>6

\* Every command posts natural amounts for a policy table it leaves alone, or it
\* commits; the rest of the steps leave holds and balances alone.
LEMMA CapacityStep ==
    CapacityInv /\ [Next]_vars => RevisionsLag' /\ CapacityHonoured'
<1> SUFFICES ASSUME CapacityInv, [Next]_vars PROVE RevisionsLag' /\ CapacityHonoured'
  OBVIOUS
<1>0. HoldInv /\ TypeOK /\ RevisionsLag /\ CapacityHonoured
  BY DEF CapacityInv, HoldInv
<1>1. ASSUME NEW r \in Reservations, NEW m \in Members, NEW u \in Purchases,
             NEW a \in Agreements \cup {NoAgreement}, NEW v \in 1..MaxVersion,
             NEW amount \in Amounts, NEW length \in HoldLengths, NEW t \in Recent,
             Submit(r, m, u, a, v, amount, t + length, t)
      PROVE  RevisionsLag' /\ CapacityHonoured'
  <2> DEFINE P == Applicable(NewRow(m, u, a, v, amount, t + length, NoReservation), t)
  <2>1. PostEntries(r, {}, r, FullAmount(P, amount), t) /\ UNCHANGED policy
    BY <1>1 DEF Submit
  <2>2. FullAmount(P, amount) \in [Policies -> Nat]
    BY MoneyAssumption DEF FullAmount
  <2> QED BY <1>0, <2>1, <2>2, PostKeepsRevisions, PostKeepsCapacity DEF Recent
<1>2. ASSUME NEW r \in Reservations, NEW old \in Reservations, NEW v \in 1..MaxVersion,
             NEW amount \in Amounts, NEW length \in HoldLengths, NEW t \in Recent,
             Resubmit(r, old, v, amount, t + length, t)
      PROVE  RevisionsLag' /\ CapacityHonoured'
  <2> DEFINE o == reservation[old]
             P == Applicable(NewRow(o.member, o.purchase, o.agreement, v, amount,
                                    t + length, old), t)
  <2>1. PostEntries(old, AllHolds(old), r, FullAmount(P, amount), t) /\ UNCHANGED policy
    BY <1>2 DEF Resubmit
  <2>2. FullAmount(P, amount) \in [Policies -> Nat]
    BY MoneyAssumption DEF FullAmount
  <2> QED BY <1>0, <2>1, <2>2, PostKeepsRevisions, PostKeepsCapacity DEF Recent
<1>3. ASSUME NEW r \in Reservations, NEW n \in 1..MaxHoldRevision, NEW t \in Recent,
             Commit(r, n, t)
      PROVE  RevisionsLag' /\ CapacityHonoured'
  <2> DEFINE P == Applicable(reservation[r], t)
             Spent(p, q) == IF p \in P /\ q = PeriodStart(p, t)
                            THEN reservation[r].amount ELSE 0
  <2>1. UNCHANGED policy
    BY <1>3 DEF Commit
  <2>2. ASSUME NEW p \in Policies, NEW q \in Instants
        PROVE  /\ balance'[p][q].reserved = balance[p][q].reserved - Spent(p, q)
               /\ balance'[p][q].committed = balance[p][q].committed + Spent(p, q)
               /\ balance[p][q].reserved \in Int /\ balance[p][q].committed \in Int
               /\ Spent(p, q) \in Nat
    BY <1>0, <1>3, <2>2 DEF Commit, TypeOK, Balance, Reservation
  <2>3. ASSUME NEW s \in Reservations, NEW p \in Policies, NEW q \in Instants
        PROVE  /\ hold'[s][p][q].revision = hold[s][p][q].revision
               /\ Used(hold'[s][p][q]) => Used(hold[s][p][q])
    <3>1. CASE s # r
      BY <1>0, <1>3, <2>3, <3>1 DEF Commit, TypeOK
    <3>2. CASE s = r
      <4>1. /\ hold'[r][p][q].revision = hold[r][p][q].revision
            /\ hold'[r][p][q].reserved = hold[r][p][q].reserved - Spent(p, q)
            /\ hold'[r][p][q].committed = hold[r][p][q].committed + Spent(p, q)
        BY <1>0, <1>3, <2>3 DEF Commit, TypeOK
      <4>2. hold[r][p][q].reserved \in Int /\ hold[r][p][q].committed \in Int
        BY <1>0, <2>3 DEF TypeOK, Hold
      <4>3. Spent(p, q) \in Nat
        BY <2>2, <2>3
      <4>4. Spent(p, q) > 0 => hold[r][p][q].reserved > 0
        <5>1. SUFFICES ASSUME Spent(p, q) > 0 PROVE hold[r][p][q].reserved > 0
          OBVIOUS
        <5>2. p \in P /\ q = PeriodStart(p, t) /\ reservation[r].amount > 0
          BY <5>1
        <5>3. CurrentlyReserved(r, p, t) = reservation[r].amount
          BY <1>3, <5>2 DEF Commit, FullyHeld, HeldInFull
        <5> QED BY <5>2, <5>3 DEF CurrentlyReserved
      <4> HIDE DEF Spent
      <4> QED BY <3>2, <4>1, <4>2, <4>3, <4>4 DEF Used
    <3> QED BY <3>1, <3>2
  <2>4. RevisionsLag'
    BY <1>0, <2>1, <2>3 DEF RevisionsLag
  <2>5. ASSUME NEW p \in Policies, NEW q \in Instants
        PROVE  balance'[p][q].committed + balance'[p][q].reserved
                 = balance[p][q].committed + balance[p][q].reserved
    <3> HIDE DEF Spent
    <3> QED BY <2>2, <2>5
  <2>6. CapacityHonoured'
    BY <1>0, <2>1, <2>3, <2>5 DEF CapacityHonoured, Used
  <2> QED BY <2>4, <2>6
<1>4. ASSUME NEW r \in Reservations, NEW t \in Recent, NEW status, Close(r, status, t)
      PROVE  RevisionsLag' /\ CapacityHonoured'
  <2>1. PostEntries(r, AllHolds(r), r, Nothing, t) /\ UNCHANGED policy
    BY <1>4 DEF Close
  <2>2. Nothing \in [Policies -> Nat]
    BY DEF Nothing
  <2> QED BY <1>0, <2>1, <2>2, PostKeepsRevisions, PostKeepsCapacity DEF Recent
<1>5. ASSUME NEW r \in Reservations, NEW t \in Recent, Rollover(r, t)
      PROVE  RevisionsLag' /\ CapacityHonoured'
  <2> DEFINE row == reservation[r]
             P == Applicable(row, t)
             R == StaleHolds(r, P, t)
             need == Shortfall(r, P, t)
  <2>1. PostEntries(r, R, r, need, t) /\ UNCHANGED policy
    BY <1>5 DEF Rollover
  <2>2. row.amount \in Nat /\ t \in Instants
    BY <1>0 DEF TypeOK, Reservation, Recent
  <2>3. ASSUME NEW p \in Policies PROVE CurrentlyReserved(r, p, t) \in Int
    BY <1>0, <2>2, <2>3, PeriodStartTyped DEF TypeOK, CurrentlyReserved, Hold
  <2>4. need \in [Policies -> Nat]
    BY <2>2, <2>3 DEF Shortfall
  <2> HIDE DEF R, need
  <2> QED BY <1>0, <2>1, <2>2, <2>4, PostKeepsRevisions, PostKeepsCapacity
<1>6. ASSUME NEW p \in Policies, UNCHANGED <<hold, balance>>,
             policy' = [policy EXCEPT ![p] = policy'[p]],
             policy'[p].revision = policy[p].revision + 1,
             policy'[p].status # "NONE"
      PROVE  RevisionsLag' /\ CapacityHonoured'
  <2>1. ASSUME NEW o \in Policies
        PROVE  /\ policy[o].revision \in Nat
               /\ o # p => policy'[o] = policy[o]
    BY <1>0, <1>6, <2>1 DEF TypeOK, Policy
  <2>2. ASSUME NEW r \in Reservations, NEW o \in Policies, NEW q \in Instants
        PROVE  hold[r][o][q].revision \in Nat /\ hold[r][o][q].revision <= policy[o].revision
    BY <1>0, <2>2 DEF TypeOK, Hold, RevisionsLag
  <2>3. RevisionsLag'
    BY <1>0, <1>6, <2>1, <2>2 DEF RevisionsLag
  <2>4. CapacityHonoured'
    BY <1>0, <1>6, <2>1, <2>2 DEF CapacityHonoured
  <2> QED BY <2>3, <2>4
<1>7. CASE PolicyChange
  <2>1. ASSUME NEW p \in Policies, NEW limit \in Limits, NEW w \in Windows, NEW z \in Zones,
               CreatePolicy(p, limit, w, z)
        PROVE  RevisionsLag' /\ CapacityHonoured'
    <3>1. policy[p].revision = 0
      BY <1>0, <2>1 DEF CreatePolicy, RevisionsLag
    <3>2. /\ policy' = [policy EXCEPT ![p] = policy'[p]]
          /\ policy'[p].revision = 1 /\ policy'[p].status = "ACTIVE"
          /\ UNCHANGED <<hold, balance>>
      BY <1>0, <2>1 DEF CreatePolicy, TypeOK
    <3> QED BY <1>6, <3>1, <3>2
  <2>2. ASSUME NEW p \in Policies, NEW limit \in Limits, NEW w \in Windows, NEW z \in Zones,
               NEW status \in {"ACTIVE", "SUSPENDED", "RETIRED"},
               RevisePolicy(p, status, limit, w, z)
        PROVE  RevisionsLag' /\ CapacityHonoured'
    BY <1>0, <1>6, <2>2 DEF RevisePolicy, NextRevision, TypeOK
  <2> QED BY <1>7, <2>1, <2>2 DEF PolicyChange
<1>8. CASE Tick \/ (\E m \in Members : ChangeMember(m)) \/ UNCHANGED vars
  <2>1. UNCHANGED <<policy, hold, balance>>
    BY <1>8 DEF Tick, ChangeMember, vars
  <2> QED BY <1>0, <2>1 DEF RevisionsLag, CapacityHonoured
<1>9. CASE ReleaseSome \/ ExpireSome
  BY <1>4, <1>9 DEF ReleaseSome, ExpireSome, Release, Expire
<1> QED BY <1>1, <1>2, <1>3, <1>5, <1>7, <1>8, <1>9
        DEF Next, SubmitSome, ResubmitSome, CommitSome, RolloverSome

\* In every reachable state a budget period in which some hold was taken or
\* committed at the present revision is within the present limit.
THEOREM CapacitySafe == Spec => []CapacityHonoured
<1>1. Init => CapacityInv
  <2>1. Init => TypeOK
    BY EmptyRowsTyped, ClockAssumption DEF Init, TypeOK, Instants
  <2>2. Init => HoldsMatchStatus /\ RevisionsLag /\ CapacityHonoured
    BY DEF Init, HoldsMatchStatus, AllOrNothing, RevisionsLag, CapacityHonoured,
           NoHold, NoPolicy
  <2> QED BY <2>1, <2>2 DEF CapacityInv, HoldInv
<1>2. CapacityInv /\ [Next]_vars => CapacityInv'
  BY TypeOKStep, HoldInvStep, CapacityStep DEF CapacityInv, HoldInv
<1>3. CapacityInv => CapacityHonoured
  BY DEF CapacityInv
<1> QED BY <1>1, <1>2, <1>3, PTL DEF Spec
----------------------------------------------------------------------------
(***************************************************************************)
(* The versions of a purchase.  A superseded version is RELEASED, which is *)
(* terminal, and only an ACTIVE one can be superseded: so none is          *)
(* superseded twice.  A row that was not inserted supersedes nothing.      *)
(***************************************************************************)
ChainInv == /\ TypeOK /\ ChainIsLinear
            /\ \A r \in Reservations :
                  reservation[r].status = "NONE" => reservation[r].supersedes = NoReservation

\* s keeps its place in its chain: its terms stay, and so does a row that was not
\* inserted or is released.
KeepsPlace(s) ==
    /\ reservation'[s].supersedes = reservation[s].supersedes
    /\ reservation'[s].purchase = reservation[s].purchase
    /\ reservation'[s].member = reservation[s].member
    /\ reservation'[s].version = reservation[s].version
    /\ reservation[s].status = "RELEASED" => reservation'[s].status = "RELEASED"
    /\ reservation'[s].status = "NONE" => reservation[s].status = "NONE"

\* Nothing supersedes a row that is not RELEASED.
LEMMA NotSuperseded ==
    ASSUME ChainInv, NEW r \in Reservations, NEW s \in Reservations,
           reservation[r].status # "RELEASED"
    PROVE  reservation[s].supersedes # r
  BY ScopeAssumption DEF ChainInv, ChainIsLinear

\* Chains stay linear while every row keeps its place.
LEMMA PlacesKept ==
    ASSUME ChainInv, TypeOK', \A s \in Reservations : KeepsPlace(s)
    PROVE  ChainInv'
<1>1. ASSUME NEW r \in Reservations PROVE reservation[r].supersedes \in Reservations \cup {NoReservation}
  BY <1>1 DEF ChainInv, TypeOK, Reservation
<1>2. ChainIsLinear'
  <2> SUFFICES ASSUME NEW r \in Reservations, reservation'[r].supersedes # NoReservation
               PROVE  LET old == reservation'[r].supersedes
                      IN /\ reservation'[old].status = "RELEASED"
                         /\ reservation'[old].purchase = reservation'[r].purchase
                         /\ reservation'[old].member = reservation'[r].member
                         /\ reservation'[old].version < reservation'[r].version
                         /\ \A s \in Reservations \ {r} : reservation'[s].supersedes # old
    BY DEF ChainIsLinear
  <2> DEFINE old == reservation[r].supersedes
  <2>1. reservation'[r].supersedes = old /\ old # NoReservation /\ old \in Reservations
    BY <1>1 DEF KeepsPlace
  <2>2. /\ reservation[old].status = "RELEASED"
        /\ reservation[old].purchase = reservation[r].purchase
        /\ reservation[old].member = reservation[r].member
        /\ reservation[old].version < reservation[r].version
        /\ \A s \in Reservations \ {r} : reservation[s].supersedes # old
    BY <2>1 DEF ChainInv, ChainIsLinear
  <2>3. KeepsPlace(r) /\ KeepsPlace(old)
    BY <2>1
  <2>4. \A s \in Reservations : reservation'[s].supersedes = reservation[s].supersedes
    BY DEF KeepsPlace
  <2> HIDE DEF old
  <2> QED BY <2>1, <2>2, <2>3, <2>4 DEF KeepsPlace
<1>3. \A r \in Reservations :
         reservation'[r].status = "NONE" => reservation'[r].supersedes = NoReservation
  BY DEF ChainInv, KeepsPlace
<1> QED BY <1>2, <1>3 DEF ChainInv

\* Chains stay linear when a row is inserted that supersedes nothing, or an ACTIVE
\* earlier version of its own purchase that is released with it.
LEMMA RowAdded ==
    ASSUME ChainInv, TypeOK', NEW r \in Reservations, NEW old \in Reservations \cup {NoReservation},
           reservation[r].status = "NONE", reservation'[r].status = "ACTIVE",
           reservation'[r].supersedes = old,
           \A s \in Reservations \ {r} : KeepsPlace(s),
           old # NoReservation =>
              /\ reservation[old].status = "ACTIVE" /\ reservation'[old].status = "RELEASED"
              /\ reservation[old].purchase = reservation'[r].purchase
              /\ reservation[old].member = reservation'[r].member
              /\ reservation[old].version < reservation'[r].version
    PROVE  ChainInv'
<1>1. ASSUME NEW s \in Reservations
      PROVE  reservation[s].supersedes # r /\ (old # NoReservation => reservation[s].supersedes # old)
  <2>1. reservation[s].supersedes # r
    BY <1>1, NotSuperseded
  <2>2. ASSUME old # NoReservation PROVE reservation[s].supersedes # old
    BY <1>1, <2>2, NotSuperseded
  <2> QED BY <2>1, <2>2
<1>2. old # r
  <2>1. r # NoReservation
    BY ScopeAssumption
  <2>2. CASE old = NoReservation
    BY <2>1, <2>2
  <2>3. CASE old # NoReservation
    BY <2>3
  <2> QED BY <2>2, <2>3
<1>3. ASSUME NEW s \in Reservations, reservation'[s].supersedes # NoReservation
      PROVE  LET o == reservation'[s].supersedes
             IN /\ reservation'[o].status = "RELEASED"
                /\ reservation'[o].purchase = reservation'[s].purchase
                /\ reservation'[o].member = reservation'[s].member
                /\ reservation'[o].version < reservation'[s].version
                /\ \A x \in Reservations \ {s} : reservation'[x].supersedes # o
  <2> DEFINE o == reservation'[s].supersedes
  <2>1. CASE s = r
    <3>1. o = old /\ old \in Reservations /\ old # r
      BY <1>2, <1>3, <2>1
    <3>2. KeepsPlace(old)
      BY <3>1
    <3>3. ASSUME NEW x \in Reservations \ {r} PROVE reservation'[x].supersedes # old
      BY <1>1, <1>3, <2>1, <3>3 DEF KeepsPlace
    <3> HIDE DEF o
    <3> QED BY <1>3, <2>1, <3>1, <3>2, <3>3 DEF KeepsPlace, o
  <2>2. CASE s # r
    <3>1. KeepsPlace(s) /\ o = reservation[s].supersedes
      BY <1>3, <2>2 DEF KeepsPlace
    <3>2. o \in Reservations /\ o # r /\ o # NoReservation /\ (old # NoReservation => o # old)
      BY <1>1, <1>3, <3>1 DEF ChainInv, TypeOK, Reservation
    <3>3. KeepsPlace(o)
      BY <3>2
    <3>4. /\ reservation[o].status = "RELEASED"
          /\ reservation[o].purchase = reservation[s].purchase
          /\ reservation[o].member = reservation[s].member
          /\ reservation[o].version < reservation[s].version
          /\ \A x \in Reservations \ {s} : reservation[x].supersedes # o
      BY <1>3, <3>1, <3>2 DEF ChainInv, ChainIsLinear
    <3>5. ASSUME NEW x \in Reservations \ {s} PROVE reservation'[x].supersedes # o
      <4>1. CASE x = r
        BY <3>2, <4>1
      <4>2. CASE x # r
        BY <3>4, <3>5, <4>2 DEF KeepsPlace
      <4> QED BY <4>1, <4>2
    <3> HIDE DEF o
    <3> QED BY <3>1, <3>3, <3>4, <3>5 DEF KeepsPlace, o
  <2> QED BY <2>1, <2>2
<1>4. ChainIsLinear'
  BY <1>3 DEF ChainIsLinear
<1>5. \A s \in Reservations :
         reservation'[s].status = "NONE" => reservation'[s].supersedes = NoReservation
  BY DEF ChainInv, KeepsPlace
<1> QED BY <1>4, <1>5 DEF ChainInv

\* Only a submission and a resubmission add a row; every other step keeps each row's place.
LEMMA ChainStep == ChainInv /\ [Next]_vars => ChainInv'
<1> SUFFICES ASSUME ChainInv, [Next]_vars PROVE ChainInv'
  OBVIOUS
<1>0. TypeOK /\ TypeOK' /\ reservation \in [Reservations -> Reservation]
  BY TypeOKStep DEF ChainInv, TypeOK
<1>1. ASSUME NEW r \in Reservations, NEW m \in Members, NEW u \in Purchases,
             NEW a \in Agreements \cup {NoAgreement}, NEW v \in 1..MaxVersion,
             NEW amount \in Amounts, NEW length \in HoldLengths, NEW t \in Recent,
             Submit(r, m, u, a, v, amount, t + length, t)
      PROVE  ChainInv'
  <2>1. /\ reservation[r].status = "NONE"
        /\ reservation' = [reservation EXCEPT ![r] =
                             NewRow(m, u, a, v, amount, t + length, NoReservation)]
    BY <1>1 DEF Submit, CanInsert
  <2>2. reservation'[r].status = "ACTIVE" /\ reservation'[r].supersedes = NoReservation
    BY <1>0, <2>1 DEF NewRow
  <2>3. \A s \in Reservations \ {r} : KeepsPlace(s)
    BY <1>0, <2>1 DEF KeepsPlace
  <2> QED BY <1>0, <2>1, <2>2, <2>3, RowAdded
<1>2. ASSUME NEW r \in Reservations, NEW old \in Reservations, NEW v \in 1..MaxVersion,
             NEW amount \in Amounts, NEW length \in HoldLengths, NEW t \in Recent,
             Resubmit(r, old, v, amount, t + length, t)
      PROVE  ChainInv'
  <2> DEFINE o == reservation[old]
             row == NewRow(o.member, o.purchase, o.agreement, v, amount, t + length, old)
  <2>1. /\ reservation[r].status = "NONE" /\ o.status = "ACTIVE" /\ v > o.version
        /\ reservation' = [reservation EXCEPT ![old].status = "RELEASED", ![r] = row]
    BY <1>2 DEF Resubmit, CanInsert, LockActive, Supersedable
  <2>2. reservation'[r] = row /\ reservation'[old] = [o EXCEPT !.status = "RELEASED"]
    BY <1>0, <2>1
  <2>3. /\ reservation'[r].status = "ACTIVE" /\ reservation'[r].supersedes = old
        /\ o.purchase = reservation'[r].purchase /\ o.member = reservation'[r].member
        /\ reservation'[r].version = v
    BY <2>2 DEF NewRow
  <2>4. o \in Reservation
    BY <1>0
  <2>5. reservation'[old].status = "RELEASED" /\ KeepsPlace(old)
    BY <2>1, <2>2, <2>4 DEF KeepsPlace, Reservation
  <2>6. \A s \in Reservations \ {r} : KeepsPlace(s)
    <3> SUFFICES ASSUME NEW s \in Reservations \ {r}, s # old PROVE KeepsPlace(s)
      BY <2>5
    <3>1. reservation'[s] = reservation[s]
      BY <1>0, <2>1
    <3> QED BY <3>1 DEF KeepsPlace
  <2>7. o.version < reservation'[r].version
    BY <2>1, <2>3, <2>4, ClockAssumption DEF Reservation
  <2> HIDE DEF row
  <2> QED BY <1>0, <2>1, <2>3, <2>5, <2>6, <2>7, RowAdded
<1>3. ASSUME NEW r \in Reservations, NEW status \in Terminal, reservation[r].status = "ACTIVE",
             reservation' = [reservation EXCEPT ![r].status = status]
      PROVE  ChainInv'
  <2>1. ASSUME NEW s \in Reservations PROVE KeepsPlace(s)
    BY <1>0, <1>3, <2>1 DEF KeepsPlace, Terminal, Statuses, Reservation
  <2> QED BY <1>0, <2>1, PlacesKept
<1>4. CASE CommitSome \/ ReleaseSome \/ ExpireSome
  BY <1>3, <1>4 DEF CommitSome, ReleaseSome, ExpireSome, Commit, Release, Expire, Close,
                    LockUnexpired, LockActive, Terminal, Statuses
<1>5. CASE RolloverSome
  <2>1. PICK r \in Reservations : reservation' = [reservation EXCEPT ![r] = Moved(@)]
    BY <1>5 DEF RolloverSome, Rollover
  <2>2. ASSUME NEW s \in Reservations PROVE KeepsPlace(s)
    BY <1>0, <2>1, <2>2 DEF KeepsPlace, Moved, Reservation
  <2> QED BY <1>0, <2>2, PlacesKept
<1>6. CASE PolicyChange \/ Tick \/ (\E m \in Members : ChangeMember(m)) \/ UNCHANGED vars
  <2>1. UNCHANGED reservation
    <3>1. ASSUME PolicyChange PROVE UNCHANGED reservation
      <4>1. PICK p \in Policies, limit \in Limits, w \in Windows, z \in Zones :
              \/ CreatePolicy(p, limit, w, z)
              \/ \E status \in {"ACTIVE", "SUSPENDED", "RETIRED"} :
                     RevisePolicy(p, status, limit, w, z)
        BY <3>1 DEF PolicyChange
      <4>2. CASE CreatePolicy(p, limit, w, z)
        BY <4>2 DEF CreatePolicy
      <4>3. ASSUME NEW status, RevisePolicy(p, status, limit, w, z)
            PROVE  UNCHANGED reservation
        BY <4>3 DEF RevisePolicy
      <4> QED BY <4>1, <4>2, <4>3
    <3>2. Tick \/ (\E m \in Members : ChangeMember(m)) \/ UNCHANGED vars
              => UNCHANGED reservation
      BY DEF Tick, ChangeMember, vars
    <3> QED BY <1>6, <3>1, <3>2
  <2>2. \A s \in Reservations : KeepsPlace(s)
    BY <2>1 DEF KeepsPlace
  <2> QED BY <1>0, <2>2, PlacesKept
<1> QED BY <1>1, <1>2, <1>4, <1>5, <1>6 DEF Next, SubmitSome, ResubmitSome

\* In every reachable state each version of a purchase is superseded at most once,
\* only by a later one of the same member, and was released: resubmissions that race
\* each other, a commit, a release or an expiry never fork a purchase.
THEOREM ChainsStayLinear == Spec => []ChainIsLinear
<1>1. Init => ChainInv
  <2>1. Init => TypeOK
    BY EmptyRowsTyped, ClockAssumption DEF Init, TypeOK, Instants
  <2>2. Init => ChainIsLinear
    BY DEF Init, ChainIsLinear, NoRow
  <2>3. Init => \A r \in Reservations : reservation[r].supersedes = NoReservation
    BY DEF Init, NoRow
  <2> QED BY <2>1, <2>2, <2>3 DEF ChainInv
<1>2. ChainInv => ChainIsLinear
  BY DEF ChainInv
<1> QED BY <1>1, <1>2, ChainStep, PTL DEF Spec
----------------------------------------------------------------------------
(***************************************************************************)
(* What a submission, a resubmission or a rollover takes is what a commit  *)
(* at the same clock asks for.                                             *)
(***************************************************************************)

\* r would pass the test of a commit at t after a step that leaves the policies
\* alone, if it then holds its full amount against every budget that applies at t,
\* in that budget's period and at its revision, and nothing else.
LEMMA HeldAfter ==
    ASSUME UNCHANGED policy, NEW r \in Reservations, NEW t \in Instants,
           NEW P, P = Applicable(reservation'[r], t), Configured(P),
           \A p \in P : /\ hold'[r][p][PeriodStart(p, t)].revision = policy[p].revision
                        /\ hold'[r][p][PeriodStart(p, t)].reserved = reservation'[r].amount,
           \A p \in Policies, q \in Instants :
              hold'[r][p][q].reserved # 0 =>
                 p \in P /\ q = PeriodStart(p, t) /\ hold'[r][p][q].revision = policy[p].revision
    PROVE  FullyHeld(r, t)'
<1>1. Applicable(reservation[r], t)' = P
  BY DEF Applicable, Covers, InEffect
<1>2. \A p \in Policies : PeriodStart(p, t)' = PeriodStart(p, t)
  BY DEF PeriodStart
<1>3. P \subseteq Policies
  BY DEF Applicable
<1>4. HeldInFull(r, P, t)'
  BY <1>2, <1>3 DEF HeldInFull, CurrentlyReserved
<1>5. NoStaleHold(r, P, t)'
  BY <1>2 DEF NoStaleHold, AllHolds, IsCurrent
<1> HIDE DEF Applicable
<1> QED BY <1>1, <1>4, <1>5 DEF FullyHeld, Configured, OfScope

\* A reservation that was just inserted held nothing, and is given the full amount
\* against each budget that applies.
LEMMA InsertedIsHeld ==
    ASSUME HoldInv, UNCHANGED policy, NEW old \in Reservations, NEW R, NEW r \in Reservations,
           NEW t \in Instants, reservation[r].status = "NONE", r # old \/ R = {},
           reservation'[r].amount \in Nat \ {0},
           Configured(Applicable(reservation'[r], t)),
           PostEntries(old, R, r,
                       FullAmount(Applicable(reservation'[r], t), reservation'[r].amount), t)
    PROVE  FullyHeld(r, t)'
<1> DEFINE P == Applicable(reservation'[r], t)
           amount == reservation'[r].amount
           need == FullAmount(P, amount)
<1>0. P \subseteq Policies
  BY DEF Applicable
<1>1. ASSUME NEW p \in Policies, NEW q \in Instants
      PROVE  /\ hold'[r][p][q].reserved = Taken(need, p, q, t)
             /\ Taken(need, p, q, t) > 0 => hold'[r][p][q].revision = policy[p].revision
  <2>1. hold[r][p][q].reserved = 0
    BY DEF HoldInv, HoldsMatchStatus, AllOrNothing
  <2>2. (IF r = old THEN Returned(old, R, p, q) ELSE 0) = 0
    BY DEF Returned
  <2>3. Taken(need, p, q, t) \in Nat
    BY DEF Taken, FullAmount
  <2> HIDE DEF need
  <2>4. /\ hold'[r][p][q].reserved = hold[r][p][q].reserved
                - (IF r = old THEN Returned(old, R, p, q) ELSE 0)
                + (IF r = r THEN Taken(need, p, q, t) ELSE 0)
        /\ hold'[r][p][q].revision =
                IF r = r /\ Taken(need, p, q, t) > 0 THEN policy[p].revision
                                                     ELSE hold[r][p][q].revision
    <3>1. PostEntries(old, R, r, need, t)
      BY DEF need
    <3> QED BY <3>1, HoldAfterPost
  <2> QED BY <2>1, <2>2, <2>3, <2>4
<1>2. ASSUME NEW p \in Policies, NEW q \in Instants
      PROVE  Taken(need, p, q, t) = IF p \in P /\ q = PeriodStart(p, t) THEN amount ELSE 0
  BY DEF Taken, FullAmount
<1> HIDE DEF need, P, amount
<1>3. ASSUME NEW p \in P
      PROVE  /\ hold'[r][p][PeriodStart(p, t)].revision = policy[p].revision
             /\ hold'[r][p][PeriodStart(p, t)].reserved = amount
  <2>1. PeriodStart(p, t) \in Instants
    BY <1>0, PeriodStartTyped DEF HoldInv
  <2>2. amount \in Nat \ {0}
    BY DEF amount
  <2> QED BY <1>0, <1>1, <1>2, <2>1, <2>2
<1>4. ASSUME NEW p \in Policies, NEW q \in Instants, hold'[r][p][q].reserved # 0
      PROVE  p \in P /\ q = PeriodStart(p, t) /\ hold'[r][p][q].revision = policy[p].revision
  <2>1. amount \in Nat \ {0}
    BY DEF amount
  <2> QED BY <1>1, <1>2, <1>4, <2>1
<1> QED BY <1>3, <1>4, HeldAfter DEF P, amount

\* A rollover gives each budget that applies what it is missing, after returning all
\* that no commit could use.
LEMMA RolledIsHeld ==
    ASSUME HoldInv, NEW r \in Reservations, NEW t \in Instants, Rollover(r, t)
    PROVE  FullyHeld(r, t)'
<1> DEFINE row == reservation[r]
           P == Applicable(row, t)
           R == StaleHolds(r, P, t)
           need == Shortfall(r, P, t)
<1>1. /\ row.status = "ACTIVE" /\ Configured(P) /\ UNCHANGED policy
      /\ R # {} \/ \E p \in P : need[p] > 0
      /\ PostEntries(r, R, r, need, t)
      /\ reservation' = [reservation EXCEPT ![r] = Moved(@)]
  BY DEF Rollover, LockUnexpired, LockActive
<1>2. row \in Reservation /\ row.amount \in Nat
  BY DEF HoldInv, TypeOK, Reservation
<1>3. /\ reservation'[r].amount = row.amount /\ Applicable(reservation'[r], t) = P
  BY <1>1, <1>2 DEF Moved, Applicable, Covers, HoldInv, TypeOK, Reservation
<1>4. P \subseteq Policies
  BY DEF Applicable
<1>5. ASSUME NEW p \in Policies, NEW q \in Instants
      PROVE  /\ hold[r][p][q].reserved \in {0, row.amount}
             /\ hold[r][p][q].reserved \in Nat
  BY <1>1, <1>2 DEF HoldInv, HoldsMatchStatus, AllOrNothing
<1>6. \A p \in Policies : PeriodStart(p, t) \in Instants
  BY PeriodStartTyped DEF HoldInv
<1>7. row.amount > 0
  <2>1. ASSUME NEW p \in P, need[p] > 0 PROVE row.amount > 0
    BY <1>2, <1>4, <1>5, <1>6, <2>1 DEF Shortfall, CurrentlyReserved
  <2>2. ASSUME R # {} PROVE row.amount > 0
    <3>1. PICK p \in Policies, q \in Instants : hold[r][p][q].reserved # 0
      BY <2>2 DEF StaleHolds, AllHolds
    <3> QED BY <1>2, <1>5, <3>1
  <2> QED BY <1>1, <2>1, <2>2
<1>8. ASSUME NEW p \in Policies, NEW q \in Instants
      PROVE  /\ hold'[r][p][q].reserved =
                    hold[r][p][q].reserved - Returned(r, R, p, q) + Taken(need, p, q, t)
             /\ hold'[r][p][q].revision = IF Taken(need, p, q, t) > 0 THEN policy[p].revision
                                                                      ELSE hold[r][p][q].revision
  <2> HIDE DEF R, need
  <2> QED BY <1>1, <1>8, HoldAfterPost
<1> DEFINE usable(p, q) == /\ p \in P /\ q = PeriodStart(p, t)
                           /\ hold[r][p][q].revision = policy[p].revision
\* What the hold of one period keeps, and what it takes.
<1>9. ASSUME NEW p \in Policies, NEW q \in Instants
      PROVE  hold[r][p][q].reserved - Returned(r, R, p, q)
                = IF usable(p, q) THEN hold[r][p][q].reserved ELSE 0
  <2>1. <<p, q>> \in R <=> hold[r][p][q].reserved # 0 /\ ~usable(p, q)
    BY DEF StaleHolds, AllHolds, IsCurrent
  <2> HIDE DEF R, usable
  <2> QED BY <1>5, <2>1 DEF Returned
<1>10. ASSUME NEW p \in Policies, NEW q \in Instants
       PROVE  Taken(need, p, q, t) =
                 IF p \in P /\ q = PeriodStart(p, t)
                 THEN IF hold[r][p][q].revision = policy[p].revision
                      THEN row.amount - hold[r][p][q].reserved ELSE row.amount
                 ELSE 0
  <2> HIDE DEF P
  <2> QED BY <1>2, <1>5, <1>7 DEF Taken, Shortfall, CurrentlyReserved
<1> HIDE DEF P, R, need, row
<1>11. ASSUME NEW p \in P
       PROVE  /\ hold'[r][p][PeriodStart(p, t)].revision = policy[p].revision
              /\ hold'[r][p][PeriodStart(p, t)].reserved = row.amount
  <2> DEFINE q == PeriodStart(p, t)
  <2>1. p \in Policies /\ q \in Instants
    BY <1>4, <1>6
  <2>2. hold[r][p][q].reserved \in {0, row.amount}
    BY <1>5, <2>1
  <2> HIDE DEF q
  <2>3. CASE hold[r][p][q].revision = policy[p].revision
    BY <1>2, <1>8, <1>9, <1>10, <2>1, <2>2, <2>3 DEF q
  <2>4. CASE hold[r][p][q].revision # policy[p].revision
    BY <1>2, <1>7, <1>8, <1>9, <1>10, <2>1, <2>4 DEF q
  <2> QED BY <2>3, <2>4 DEF q
<1>12. ASSUME NEW p \in Policies, NEW q \in Instants, hold'[r][p][q].reserved # 0
       PROVE  p \in P /\ q = PeriodStart(p, t) /\ hold'[r][p][q].revision = policy[p].revision
  <2>1. p \in P /\ q = PeriodStart(p, t)
    BY <1>8, <1>9, <1>10, <1>12
  <2> QED BY <1>11, <2>1
<1> QED BY <1>1, <1>3, <1>11, <1>12, HeldAfter DEF row

\* Whatever the budgets, periods and revisions are when a reservation takes or moves its
\* holds, a commit at that clock would find them in full and find none it cannot use.
THEOREM TakenIsUsable == Spec => TakenHoldsAreUsable
<1> DEFINE Usable == \A r \in Reservations :
                        /\ reservation'[r].status = "ACTIVE"
                        /\ reservation'[r].holdRevision # reservation[r].holdRevision
                        => \E t \in Recent : FullyHeld(r, t)'
<1>1. HoldInv /\ [Next]_vars => [Usable]_vars
  <2> SUFFICES ASSUME HoldInv, Next, NEW s \in Reservations,
                      reservation'[s].status = "ACTIVE",
                      reservation'[s].holdRevision # reservation[s].holdRevision
               PROVE  \E t \in Recent : FullyHeld(s, t)'
    OBVIOUS
  <2>0. reservation \in [Reservations -> Reservation] /\ Recent \subseteq Instants
    BY DEF HoldInv, TypeOK, Recent
  <2>1. ASSUME NEW r \in Reservations, NEW m \in Members, NEW u \in Purchases,
               NEW a \in Agreements \cup {NoAgreement}, NEW v \in 1..MaxVersion,
               NEW amount \in Amounts, NEW length \in HoldLengths, NEW t \in Recent,
               Submit(r, m, u, a, v, amount, t + length, t)
        PROVE  \E x \in Recent : FullyHeld(s, x)'
    <3> DEFINE row == NewRow(m, u, a, v, amount, t + length, NoReservation)
    <3>1. /\ reservation[r].status = "NONE" /\ UNCHANGED policy
          /\ Configured(Applicable(row, t))
          /\ PostEntries(r, {}, r, FullAmount(Applicable(row, t), amount), t)
          /\ reservation' = [reservation EXCEPT ![r] = row]
      BY <2>1 DEF Submit, CanInsert
    <3> HIDE DEF row
    <3>2. s = r /\ reservation'[s] = row
      BY <2>0, <3>1
    <3>3. row.amount = amount /\ amount \in Nat \ {0}
      BY MoneyAssumption DEF row, NewRow
    <3>4. FullyHeld(s, t)'
      BY <2>0, <3>1, <3>2, <3>3, InsertedIsHeld
    <3> QED BY <3>4
  <2>2. ASSUME NEW r \in Reservations, NEW old \in Reservations, NEW v \in 1..MaxVersion,
               NEW amount \in Amounts, NEW length \in HoldLengths, NEW t \in Recent,
               Resubmit(r, old, v, amount, t + length, t)
        PROVE  \E x \in Recent : FullyHeld(s, x)'
    <3> DEFINE o == reservation[old]
               row == NewRow(o.member, o.purchase, o.agreement, v, amount, t + length, old)
    <3>1. /\ reservation[r].status = "NONE" /\ UNCHANGED policy
          /\ reservation[old].status = "ACTIVE"
          /\ Configured(Applicable(row, t))
          /\ PostEntries(old, AllHolds(old), r, FullAmount(Applicable(row, t), amount), t)
          /\ reservation' = [reservation EXCEPT ![old].status = "RELEASED", ![r] = row]
      BY <2>2 DEF Resubmit, Supersedable, CanInsert, LockActive
    <3> HIDE DEF row
    <3>2. r # old /\ s = r /\ reservation'[s] = row
      BY <2>0, <3>1 DEF Reservation
    <3>3. row.amount = amount /\ amount \in Nat \ {0}
      BY MoneyAssumption DEF row, NewRow
    <3>4. FullyHeld(s, t)'
      BY <2>0, <3>1, <3>2, <3>3, InsertedIsHeld
    <3> QED BY <3>4
  <2>3. CASE RolloverSome
    <3>1. PICK r \in Reservations, t \in Recent : Rollover(r, t)
      BY <2>3 DEF RolloverSome
    <3>2. reservation' = [reservation EXCEPT ![r] = Moved(@)]
      BY <3>1 DEF Rollover
    <3>3. s = r
      BY <2>0, <3>2
    <3>4. FullyHeld(s, t)'
      BY <2>0, <3>1, <3>3, RolledIsHeld
    <3> QED BY <3>4
  <2>4. ASSUME NEW r \in Reservations, NEW status,
               reservation' = [reservation EXCEPT ![r].status = status]
        PROVE  FALSE
    BY <2>0, <2>4 DEF Reservation
  <2>5. CASE CommitSome \/ ReleaseSome \/ ExpireSome
    BY <2>4, <2>5 DEF CommitSome, ReleaseSome, ExpireSome, Commit, Release, Expire, Close
  <2>6. CASE PolicyChange \/ Tick \/ (\E m \in Members : ChangeMember(m))
    <3>1. ASSUME PolicyChange PROVE UNCHANGED reservation
      <4>1. PICK p \in Policies, limit \in Limits, w \in Windows, z \in Zones :
              \/ CreatePolicy(p, limit, w, z)
              \/ \E status \in {"ACTIVE", "SUSPENDED", "RETIRED"} :
                     RevisePolicy(p, status, limit, w, z)
        BY <3>1 DEF PolicyChange
      <4>2. CASE CreatePolicy(p, limit, w, z)
        BY <4>2 DEF CreatePolicy
      <4>3. ASSUME NEW status, RevisePolicy(p, status, limit, w, z)
            PROVE  UNCHANGED reservation
        BY <4>3 DEF RevisePolicy
      <4> QED BY <4>1, <4>2, <4>3
    <3>2. Tick \/ (\E m \in Members : ChangeMember(m)) => UNCHANGED reservation
      BY DEF Tick, ChangeMember
    <3> QED BY <2>6, <3>1, <3>2
  <2> QED BY <2>1, <2>2, <2>3, <2>5, <2>6 DEF Next, SubmitSome, ResubmitSome
<1>2. Init => HoldInv
  <2>1. Init => TypeOK
    BY EmptyRowsTyped, ClockAssumption DEF Init, TypeOK, Instants
  <2>2. Init => HoldsMatchStatus
    BY DEF Init, HoldsMatchStatus, AllOrNothing, NoHold
  <2> QED BY <2>1, <2>2 DEF HoldInv
<1>3. HoldInv /\ [Next]_vars => HoldInv'
  BY TypeOKStep, HoldInvStep DEF HoldInv
<1> QED BY <1>1, <1>2, <1>3, PTL DEF Spec, TakenHoldsAreUsable

----------------------------------------------------------------------------
(***************************************************************************)
(* The command log, for any number of attempts, keys and requests: the     *)
(* types, at most one effect per key, successes that are true, and that    *)
(* every step is a step of the promise or none.                            *)
(***************************************************************************)

\* Effects belong to attempts that passed COMMIT, and an attempt that passed it has one.
CommitsCount ==
    /\ \A a \in effects : pc[a] \in {"committed", "done"}
    /\ \A a \in Attempts : pc[a] = "committed" => a \in effects

CommandInv == CommandTypeOK /\ AppliedOnce /\ SuccessIsTrue /\ CommitsCount

\* The request and the key of an attempt are what their sets say.
LEMMA KeysTyped == ASSUME NEW a \in Attempts
                   PROVE Req(a) \in Requests /\ Key(a) \in Keys /\ Req(a) # NoRequest
BY CommandAssumption DEF Req, Key

\* Types hold at the start and every step keeps them.
LEMMA CommandTypeStep == CommandTypeOK /\ [CommandNext]_commandVars => CommandTypeOK'
<1> SUFFICES ASSUME CommandTypeOK, [CommandNext]_commandVars PROVE CommandTypeOK'
    OBVIOUS
<1> USE DEF CommandTypeOK, InTransaction, Replies
<1>1. CASE UNCHANGED commandVars
    BY <1>1 DEF commandVars
<1>2. ASSUME NEW a \in Attempts, Step(a) PROVE CommandTypeOK'
    <2> USE KeysTyped DEF Goto, Finish, Durable, Unlock
    <2>1. CASE Begin(a)
        BY <2>1 DEF Begin
    <2>2. CASE TakeLock(a)
        BY <2>2 DEF TakeLock
    <2>3. CASE Prior(a)
        BY <2>3 DEF Prior
    <2>4. CASE Execute(a)
        BY <2>4 DEF Execute
    <2>5. CASE Mutate(a)
        BY <2>5 DEF Mutate
    <2>6. CASE Record(a)
        BY <2>6 DEF Record
    <2>7. CASE CommitCommand(a)
        BY <2>7 DEF CommitCommand
    <2>8. CASE Answer(a)
        BY <2>8 DEF Answer
    <2> QED BY <1>2, <2>1, <2>2, <2>3, <2>4, <2>5, <2>6, <2>7, <2>8 DEF Step
<1>3. ASSUME NEW a \in Attempts, Failure(a) PROVE CommandTypeOK'
    BY <1>3 DEF Failure, NoConnection, Abort, AcknowledgementLost, Crash,
                Finish, Durable, Unlock
<1> QED BY <1>1, <1>2, <1>3 DEF CommandNext

\* A step that leaves the tables alone, and takes one attempt to a place other than
\* "committed", keeps the invariant if the answer it gives is a true one.
LEMMA QuietStep ==
    ASSUME CommandInv, CommandTypeOK', NEW a \in Attempts, NEW label, NEW answer,
           label \in InTransaction \cup {"done"}, a \in effects => label = "done",
           pc' = [pc EXCEPT ![a] = label], reply' = [reply EXCEPT ![a] = answer],
           answer \in {"APPLIED", "REPLAYED"} =>
               /\ record[Key(a)] = Req(a)
               /\ \E b \in effects : Req(b) = Req(a)
               /\ Req(a) \in Composed => \E b \in mutations : Req(b) = Req(a),
           UNCHANGED Durable
    PROVE  CommandInv'
<1> USE DEF CommandInv, Durable
<1>1. AppliedOnce'
    BY DEF AppliedOnce, Key, Req
<1>2. SuccessIsTrue'
    <2> SUFFICES ASSUME NEW c \in Attempts, reply'[c] \in {"APPLIED", "REPLAYED"}
                 PROVE /\ record[Key(c)] = Req(c)
                       /\ \E b \in effects : Req(b) = Req(c)
                       /\ Req(c) \in Composed => \E b \in mutations : Req(b) = Req(c)
        BY DEF SuccessIsTrue, Key, Req
    <2>1. CASE c = a
        BY <2>1 DEF CommandTypeOK
    <2>2. CASE c # a
        BY <2>2 DEF CommandTypeOK, SuccessIsTrue
    <2> QED BY <2>1, <2>2
<1>3. CommitsCount'
    BY DEF CommitsCount, CommandTypeOK, InTransaction
<1> QED BY <1>1, <1>2, <1>3

\* An attempt that asks for the recorded request finds that it took effect.
LEMMA RecordedTookEffect ==
    ASSUME CommandInv, NEW a \in Attempts, record[Key(a)] = Req(a)
    PROVE  /\ \E b \in effects : Req(b) = Req(a)
           /\ Req(a) \in Composed => \E b \in mutations : Req(b) = Req(a)
<1>1. PICK b \in effects : Key(b) = Key(a)
    BY KeysTyped DEF CommandInv, AppliedOnce
<1>2. Req(b) = Req(a)
    BY <1>1 DEF CommandInv, AppliedOnce
<1> QED BY <1>2 DEF CommandInv, AppliedOnce

\* COMMIT keeps the invariant: the key it records was free.
LEMMA CommitStep ==
    ASSUME CommandInv, CommandTypeOK', NEW a \in Attempts, CommitCommand(a)
    PROVE  CommandInv'
<1> USE DEF CommandInv, CommitCommand, Goto
<1> /\ Req(a) \in Requests /\ Key(a) \in Keys /\ Req(a) # NoRequest
    /\ record' = [record EXCEPT ![Key(a)] = Req(a)] /\ effects' = effects \cup {a}
    BY KeysTyped
<1>1. \A b \in effects : Key(b) # Key(a) /\ record'[Key(b)] = record[Key(b)]
    BY KeysTyped DEF AppliedOnce, CommandTypeOK
<1>2. AppliedOnce'
    <2>1. \A b, c \in effects' : Key(b) = Key(c) => b = c
        BY <1>1 DEF AppliedOnce
    <2>2. \A b \in effects' : record'[Key(b)] = Req(b)
        BY <1>1 DEF AppliedOnce, CommandTypeOK
    <2>3. \A k \in Keys : record'[k] # NoRequest => \E b \in effects' : Key(b) = k
        BY DEF AppliedOnce, CommandTypeOK
    <2>4. mutations' = {b \in effects' : Req(b) \in Composed}
        <3>1. mutations = {b \in effects : Req(b) \in Composed}
            BY DEF AppliedOnce
        <3> QED BY <3>1
    <2> QED BY <2>1, <2>2, <2>3, <2>4 DEF AppliedOnce, Key, Req
<1>3. SuccessIsTrue'
    <2> SUFFICES ASSUME NEW c \in Attempts, reply[c] \in {"APPLIED", "REPLAYED"}
                 PROVE /\ record'[Key(c)] = Req(c)
                       /\ \E b \in effects' : Req(b) = Req(c)
                       /\ Req(c) \in Composed => \E b \in mutations' : Req(b) = Req(c)
        BY DEF SuccessIsTrue, Key, Req
    <2>1. /\ record[Key(c)] = Req(c)
          /\ \E b \in effects : Req(b) = Req(c)
          /\ Req(c) \in Composed => \E b \in mutations : Req(b) = Req(c)
        BY DEF SuccessIsTrue
    <2>2. Key(c) # Key(a)
        BY <2>1, KeysTyped
    <2> QED BY <2>1, <2>2, KeysTyped DEF CommandTypeOK
<1>4. CommitsCount'
    BY DEF CommitsCount, CommandTypeOK
<1> QED BY <1>2, <1>3, <1>4

\* Every step keeps the invariant.
LEMMA CommandInvStep == CommandInv /\ [CommandNext]_commandVars => CommandInv'
<1> SUFFICES ASSUME CommandInv, [CommandNext]_commandVars PROVE CommandInv'
    OBVIOUS
<1>0. CommandTypeOK'
    BY CommandTypeStep DEF CommandInv
<1>1. CASE UNCHANGED commandVars
    BY <1>0, <1>1 DEF commandVars, CommandInv, AppliedOnce, SuccessIsTrue, CommitsCount, Key, Req
<1>2. ASSUME NEW a \in Attempts, Step(a) PROVE CommandInv'
    <2> \A b \in effects : pc[b] \in {"committed", "done"}
        BY DEF CommandInv, CommitsCount
    <2>1. CASE Begin(a) \/ TakeLock(a) \/ Mutate(a) \/ Record(a)
        <3>1. PICK label \in InTransaction : pc' = [pc EXCEPT ![a] = label]
            BY <2>1 DEF Begin, TakeLock, Mutate, Record, Goto, InTransaction
        <3>2. reply' = [reply EXCEPT ![a] = reply[a]] /\ UNCHANGED Durable /\ a \notin effects
            BY <2>1 DEF Begin, TakeLock, Mutate, Record, Goto, Durable, CommandInv, CommandTypeOK
        <3> QED BY <1>0, <3>1, <3>2, QuietStep DEF CommandInv, SuccessIsTrue
    <2>2. CASE Prior(a)
        <3> DEFINE answer == IF record[Key(a)] = Req(a) THEN "REPLAYED" ELSE "CONFLICT"
        <3>1. /\ pc' = [pc EXCEPT ![a] = "done"] /\ reply' = [reply EXCEPT ![a] = answer]
              /\ UNCHANGED Durable
            BY <2>2 DEF Prior, Finish
        <3>2. answer \in {"APPLIED", "REPLAYED"} => record[Key(a)] = Req(a)
            OBVIOUS
        <3> HIDE DEF answer
        <3> QED BY <1>0, <3>1, <3>2, QuietStep, RecordedTookEffect
    <2>3. CASE Execute(a)
        <3>1. CASE Goto(a, "executed")
            <4>1. reply' = [reply EXCEPT ![a] = reply[a]] /\ UNCHANGED Durable /\ a \notin effects
                BY <2>3, <3>1 DEF Execute, Goto, Durable, CommandInv, CommandTypeOK
            <4> QED BY <1>0, <3>1, <4>1, QuietStep
                    DEF CommandInv, SuccessIsTrue, Goto, InTransaction
        <3>2. ASSUME NEW answer \in {"REFUSED", "CONFLICT"}, Finish(a, answer) PROVE CommandInv'
            BY <1>0, <2>3, <3>2, QuietStep DEF Execute, Finish
        <3> QED BY <2>3, <3>1, <3>2 DEF Execute
    <2>4. CASE CommitCommand(a)
        BY <1>0, <2>4, CommitStep
    <2>5. CASE Answer(a)
        <3>1. a \in effects /\ record[Key(a)] = Req(a)
            BY <2>5 DEF Answer, CommandInv, CommitsCount, AppliedOnce
        <3> QED BY <1>0, <2>5, <3>1, QuietStep, RecordedTookEffect DEF Answer, Finish
    <2> QED BY <1>2, <2>1, <2>2, <2>3, <2>4, <2>5 DEF Step
<1>3. ASSUME NEW a \in Attempts, Failure(a) PROVE CommandInv'
    <2>1. PICK answer \in {"SOURCE_UNAVAILABLE", "NONE"} : Finish(a, answer)
        BY <1>3 DEF Failure, NoConnection, Abort, AcknowledgementLost, Crash
    <2>2. UNCHANGED Durable
        BY <1>3 DEF Failure, NoConnection, Abort, AcknowledgementLost, Crash, Durable
    <2> QED BY <1>0, <2>1, <2>2, QuietStep DEF Finish
<1> QED BY <1>1, <1>2, <1>3 DEF CommandNext

\* The invariant holds in every reachable state.
LEMMA CommandInvHolds == CommandSpec => []CommandInv
<1>1. CommandInit => CommandInv
    BY CommandAssumption DEF CommandInit, CommandInv, CommandTypeOK, AppliedOnce,
                             SuccessIsTrue, CommitsCount, InTransaction, Replies
<1> QED BY <1>1, CommandInvStep, PTL DEF CommandSpec

\* Type correctness of the command log.
THEOREM LogTypeCorrect == CommandSpec => []CommandTypeOK
BY CommandInvHolds, PTL DEF CommandInv

\* However many attempts retry, overlap and crash, a key takes effect at most once, with
\* its record and its composed mutation.
THEOREM AppliesOnce == CommandSpec => []AppliedOnce
BY CommandInvHolds, PTL DEF CommandInv

\* A caller told APPLIED or REPLAYED has its own request applied and recorded.
THEOREM SuccessTrue == CommandSpec => []SuccessIsTrue
BY CommandInvHolds, PTL DEF CommandInv

\* run implements the promise of the log: COMMIT is its only visible step.
THEOREM PromiseKept == CommandSpec => KeepsPromise
<1> DEFINE abstract == {Req(a) : a \in effects}
<1>1. CommandInit => Promise!Init
    BY DEF CommandInit, Promise!Init
<1>2. CommandInv /\ [CommandNext]_commandVars => [Promise!Next]_<<record, abstract>>
    <2> SUFFICES ASSUME CommandInv, CommandNext, ~UNCHANGED <<record, abstract>> PROVE Promise!Next
        BY DEF commandVars, Req
    <2>1. PICK a \in Attempts : CommitCommand(a)
        BY DEF CommandNext, Step, Failure, Begin, TakeLock, Prior, Execute, Mutate, Record, Answer,
               NoConnection, Abort, AcknowledgementLost, Crash, Durable, Req
    <2>2. /\ record[KeyOf[Req(a)]] = NoRequest
          /\ record' = [record EXCEPT ![KeyOf[Req(a)]] = Req(a)]
          /\ {Req(b) : b \in effects'} = {Req(b) : b \in effects} \cup {Req(a)}
        BY <2>1 DEF CommitCommand, Key, Req
    <2>3. {Req(b) : b \in effects}' = {Req(b) : b \in effects'}
        BY DEF Req
    <2>4. Promise!Apply(Req(a))
        BY <2>2, <2>3 DEF Promise!Apply
    <2> QED BY <2>4, KeysTyped DEF Promise!Next
<1> QED BY <1>1, <1>2, CommandInvHolds, PTL DEF KeepsPromise, Promise!Spec, CommandSpec

----------------------------------------------------------------------------
(***************************************************************************)
(* The decision on an operation, for any facts.  First each rule of the    *)
(* decision as one condition.                                              *)
(***************************************************************************)

BudgetsCover(f) ==
    /\ ~Unavailable(f, "budgets") /\ ~Unavailable(f, "reservation")
    /\ f.reservation = None \/ IsOwn(f)
    /\ Mine(f) # {} /\ ~Ambiguous(Mine(f))
    /\ ~Ambiguous(ScopeOf(f, "ORGANISATION")) /\ ~Ambiguous(OfAgreement(f))
    /\ \A b \in Charged(f) : Fits(f, b)

\* The approval of a purchase is a usable one of somebody else.
Releases(f) ==
    LET a == f.approval IN
    /\ a.ours /\ a.initiator # None /\ a.approver # None /\ a.revision # None
    /\ a.initiator = f.principal /\ a.approver # a.initiator
    /\ BoundTo(f) /\ a.revision = "current"
    /\ f.reevaluation \notin {None, "UNAVAILABLE"} /\ f.reevaluation = "ALLOW"

Cleared(f) ==
    /\ ~Unavailable(f, "policies") /\ ~Ambiguous(f.policies)
    /\ OverLimit(f) => f.policies # {}
    /\ \/ ~OverLimit(f) /\ ~OverThreshold(f)
       \/ f.approval # None /\ f.approval.status = "APPROVED" /\ Releases(f)

MayCommit(f) ==
    /\ f.tx # None /\ ~(f.tx.amount <= 0)
    /\ ~Unavailable(f, "order") /\ f.order # "unmet" /\ f.order # "unusable"
    /\ ~Unavailable(f, "limits") /\ ~Ambiguous(f.limits) /\ f.limits # {}
    /\ Only(f.limits).order # None /\ ~(Only(f.limits).order <= 0)
    /\ BudgetsCover(f) /\ Cleared(f)

MayDecide(f) ==
    LET a == f.approval IN
    /\ f.tx # None /\ a # None /\ ~(f.tx.amount <= 0)
    /\ a.ours /\ a.initiator # None /\ a.initiator # f.principal /\ BoundTo(f)
    /\ a.status = "PENDING" \/ (a.status = "APPROVED" /\ a.approver = f.principal)
    /\ ~Unavailable(f, "limits") /\ ~Ambiguous(f.limits) /\ f.limits # {}
    /\ Only(f.limits).approval # None /\ ~(Only(f.limits).approval <= 0)
    /\ ~(f.tx.amount > Only(f.limits).approval)

\* Roles, market and Sites let the operation be considered at all.
InScope(f) ==
    /\ f.op # "acceptInvitation" /\ f.member
    /\ ~Unavailable(f, "roles") /\ Permitted(f) # {} /\ RuleOf(f).kind # "GOVERNED"
    /\ RuleOf(f).market => f.market /\ f.authority = "ATTESTED"
    /\ ~(RuleOf(f).site = "NONE" /\ f.sites # {})
    /\ ~(RuleOf(f).site = "REQUIRED" /\ \A s \in f.sites : s.use # "SHIPPING")
    /\ f.sites # {} => ~Unavailable(f, "siteRecords") /\ SiteRefusals(f) = {}
    /\ WithMarket(f) # {} /\ Scoped(f) # {}

LEMMA Answers ==
    /\ Allow.outcome = "ALLOW" /\ NoSource.outcome = "UNAVAILABLE" /\ NoSource # Allow
    /\ \A reason : Deny(reason).outcome = "DENY" /\ Deny(reason) # Allow
<1>1. /\ Allow.outcome = "ALLOW" /\ NoSource.outcome = "UNAVAILABLE"
      /\ \A reason : Deny(reason).outcome = "DENY"
  BY DEF Allow, NoSource, Deny
<1> QED BY <1>1

LEMMA BudgetsAnswer == ASSUME NEW f PROVE (EvaluateBudgets(f) = Allow) <=> BudgetsCover(f)
BY Answers DEF EvaluateBudgets, BudgetsCover

LEMMA ReleaseAnswer ==
    ASSUME NEW f, NEW reasons
    PROVE  (ApplyApproval(f, reasons).outcome = "ALLOW") <=> Releases(f)
BY Answers DEF ApplyApproval, Releases

LEMMA EscalateAnswer == ASSUME NEW f PROVE (Escalate(f).outcome = "ALLOW") <=> Cleared(f)
<1>1. \A reasons : (ApplyApproval(f, reasons).outcome = "ALLOW") <=> Releases(f)
  BY ReleaseAnswer
<1> QED BY <1>1, Answers DEF Escalate, Cleared

LEMMA CommitmentAnswer ==
    ASSUME NEW f PROVE (EvaluateCommitment(f).outcome = "ALLOW") <=> MayCommit(f)
<1>1. EvaluateBudgets(f) # Allow => EvaluateBudgets(f).outcome # "ALLOW"
  BY Answers DEF EvaluateBudgets
<1> QED BY <1>1, Answers, BudgetsAnswer, EscalateAnswer DEF EvaluateCommitment, MayCommit

LEMMA DecisionAnswer ==
    ASSUME NEW f PROVE (EvaluateApprovalDecision(f).outcome = "ALLOW") <=> MayDecide(f)
BY Answers DEF EvaluateApprovalDecision, MayDecide

LEMMA OperationAnswer ==
    ASSUME NEW f
    PROVE  (Evaluate(f).outcome = "ALLOW") <=>
             /\ InScope(f)
             /\ RuleOf(f).kind = "COMMITMENT" => f.market /\ MayCommit(f)
             /\ RuleOf(f).kind = "APPROVAL" => f.market /\ MayDecide(f)
BY Answers, CommitmentAnswer, DecisionAnswer DEF Evaluate, InScope

----------------------------------------------------------------------------
(***************************************************************************)
(* Facts that are no better for the buyer.                                 *)
(***************************************************************************)

FewerRoles(g, f) ==
    \A r \in g.roles : \E q \in f.roles :
        q.role = r.role /\ (r.market => q.market) /\ r.sites \subseteq q.sites
FewerSites(g, f) ==
    \A s \in DOMAIN g.siteRecords :
        s \in DOMAIN f.siteRecords /\ g.siteRecords[s] \subseteq f.siteRecords[s]

AtMost(x, y) == x # None => y # None /\ x <= y
LowerLimits(g, f) ==
    \A l \in g.limits : g.limits = {l} =>
        \E m \in f.limits : /\ f.limits = {m}
                            /\ AtMost(l.order, m.order) /\ AtMost(l.approval, m.approval)
LowerThresholds(g, f) ==
    /\ g.policies = {} => f.policies = {}
    /\ \A p \in g.policies : g.policies = {p} =>
          \E q \in f.policies : f.policies = {q}
                                /\ (q.threshold # None => p.threshold # None /\ p.threshold <= q.threshold)

\* What the purchase's own reservation holds of a budget.
Held(f, b) == IF Credits(f, b) = {} THEN 0 ELSE Only(Credits(f, b)).reserved
SameBudget(c, b) == c.policy = b.policy /\ c.scope = b.scope /\ c.mine = b.mine
TighterBudgets(g, f) ==
    /\ \A b \in f.budgets : \E c \in g.budgets :
          SameBudget(c, b) /\ Left(c) <= Left(b) /\ Held(g, c) <= Held(f, b)
    /\ \A c \in g.budgets : \E b \in f.budgets : SameBudget(c, b)

\* The purchase is the same, or one that nothing is reserved or approved for.
Unclaimed(g) ==
    /\ g.reservation # None => g.reservation.version # g.tx.version
    /\ g.approval # None => g.approval.version # g.tx.version
SamePurchase(g, f) ==
    /\ g.tx = None <=> f.tx = None
    /\ f.tx # None => /\ g.tx.amount = f.tx.amount /\ g.tx.agreement = f.tx.agreement
                      /\ g.tx.version = f.tx.version \/ Unclaimed(g)
    /\ g.reservation = None <=> f.reservation = None
    /\ g.reservation # None => /\ g.reservation.agreement = f.reservation.agreement
                               /\ g.reservation.version = f.reservation.version
NoMoreApproval(g, f) ==
    /\ g.approval # None /\ g.approval.status \in {"PENDING", "APPROVED"} => g.approval = f.approval
    /\ g.reevaluation = "ALLOW" => f.reevaluation = "ALLOW"

NoBetter(g, f) ==
    /\ g.op = f.op /\ g.market = f.market /\ g.sites = f.sites /\ g.principal = f.principal
    /\ f.unavailable \subseteq g.unavailable
    /\ g.member => f.member
    /\ g.authority = "ATTESTED" => f.authority = "ATTESTED"
    /\ g.order \in {"free", "met"} => f.order = g.order
    /\ FewerRoles(g, f) /\ FewerSites(g, f) /\ LowerLimits(g, f) /\ LowerThresholds(g, f)
    /\ TighterBudgets(g, f) /\ SamePurchase(g, f) /\ NoMoreApproval(g, f)

\* Loading brings the fields that no source is for, and those whose source answers.
LEMMA LoadedFields ==
    ASSUME NEW f \in BuyerOperationFacts
    PROVE  LET l == Loaded(f) IN
           /\ l.op = f.op /\ l.member = f.member /\ l.market = f.market
           /\ l.authority = f.authority /\ l.sites = f.sites /\ l.principal = f.principal
           /\ l.tx = f.tx /\ l.approval = f.approval /\ l.reevaluation = f.reevaluation
           /\ l.unavailable = f.unavailable
           /\ ~Unavailable(f, "roles") => l.roles = f.roles
           /\ ~Unavailable(f, "siteRecords") => l.siteRecords = f.siteRecords
           /\ ~Unavailable(f, "limits") => l.limits = f.limits
           /\ ~Unavailable(f, "policies") => l.policies = f.policies
           /\ ~Unavailable(f, "order") => l.order = f.order
           /\ ~Unavailable(f, "budgets") => l.budgets = f.budgets
           /\ ~Unavailable(f, "reservation") => l.reservation = f.reservation
BY DEF Loaded, Attempt, Unavailable, BuyerOperationFacts

LEMMA ScopeStays ==
    ASSUME NEW f \in BuyerOperationFacts, NEW g \in BuyerOperationFacts,
           NoBetter(g, f), InScope(Loaded(g))
    PROVE  InScope(Loaded(f)) /\ RuleOf(Loaded(f)) = RuleOf(Loaded(g))
<1> DEFINE a == Loaded(f)  b == Loaded(g)
<1>1. /\ a.op = b.op /\ a.market = b.market /\ a.sites = b.sites /\ a.member
      /\ b.authority = "ATTESTED" => a.authority = "ATTESTED"
      /\ ~Unavailable(b, "roles") /\ ~Unavailable(a, "roles") /\ b.roles = g.roles /\ a.roles = f.roles
      /\ ~Unavailable(b, "siteRecords") =>
           /\ ~Unavailable(a, "siteRecords")
           /\ b.siteRecords = g.siteRecords /\ a.siteRecords = f.siteRecords
  BY LoadedFields DEF InScope, NoBetter, Unavailable
<1>2. /\ FewerRoles(b, a)
      /\ ~Unavailable(b, "siteRecords") => FewerSites(b, a)
  BY <1>1 DEF NoBetter, FewerRoles, FewerSites
<1>3. InScope(b)
  OBVIOUS
<1> HIDE DEF a, b
<1>4. RuleOf(a) = RuleOf(b)
  BY <1>1 DEF RuleOf
<1>5. PICK r : r \in Scoped(b)
  BY <1>3 DEF InScope
<1>6. PICK q \in a.roles :
        q.role = r.role /\ (r.market => q.market) /\ r.sites \subseteq q.sites
  BY <1>2, <1>5 DEF FewerRoles, Scoped, WithMarket, Permitted
<1>7. q \in Permitted(a) /\ q \in WithMarket(a) /\ q \in Scoped(a)
  BY <1>1, <1>4, <1>5, <1>6 DEF Scoped, WithMarket, Permitted
<1>8. a.sites # {} => ~Unavailable(a, "siteRecords") /\ SiteRefusals(a) = {}
  <2> SUFFICES ASSUME a.sites # {} PROVE ~Unavailable(a, "siteRecords") /\ SiteRefusals(a) = {}
    OBVIOUS
  <2>1. ~Unavailable(b, "siteRecords") /\ SiteRefusals(b) = {}
    BY <1>1, <1>3 DEF InScope
  <2>2. ASSUME NEW s \in a.sites PROVE SiteRefusal(a, s) = {}
    <3>1. SiteRefusal(b, s) = {}
      BY <1>1, <2>1, <2>2 DEF SiteRefusals
    <3>2. s.site \in DOMAIN b.siteRecords /\ s.use \in b.siteRecords[s.site]
      BY <3>1 DEF SiteRefusal
    <3>3. s.site \in DOMAIN a.siteRecords /\ s.use \in a.siteRecords[s.site]
      BY <1>2, <2>1, <3>2 DEF FewerSites
    <3> QED BY <3>3 DEF SiteRefusal
  <2> QED BY <1>1, <2>1, <2>2 DEF SiteRefusals
<1>9. InScope(a)
  BY <1>1, <1>3, <1>4, <1>7, <1>8 DEF InScope
<1> QED BY <1>4, <1>9 DEF a, b

LEMMA OnlyOne == ASSUME NEW x PROVE Only({x}) = x
BY DEF Only

\* The limit that applies was no lower, and is still the only one.
LEMMA LimitStays ==
    ASSUME NEW f \in BuyerOperationFacts, NEW g \in BuyerOperationFacts, LowerLimits(g, f),
           g.limits # {}, ~Ambiguous(g.limits)
    PROVE  /\ f.limits # {} /\ ~Ambiguous(f.limits)
           /\ Only(g.limits) \in SpendAuthority /\ Only(f.limits) \in SpendAuthority
           /\ AtMost(Only(g.limits).order, Only(f.limits).order)
           /\ AtMost(Only(g.limits).approval, Only(f.limits).approval)
<1>1. PICK l \in g.limits : g.limits = {l}
  BY DEF Ambiguous, Single
<1>2. PICK m \in f.limits : /\ f.limits = {m}
                            /\ AtMost(l.order, m.order) /\ AtMost(l.approval, m.approval)
  BY <1>1 DEF LowerLimits
<1>3. Only(g.limits) = l /\ Only(f.limits) = m
  BY <1>1, <1>2, OnlyOne
<1>4. l \in SpendAuthority /\ m \in SpendAuthority
  BY DEF BuyerOperationFacts
<1> QED BY <1>2, <1>3, <1>4 DEF Ambiguous, Single

LEMMA HeldTyped ==
    ASSUME NEW f \in BuyerOperationFacts, NEW b PROVE Held(f, b) \in Nat
<1>1. ASSUME Credits(f, b) # {} PROVE Only(Credits(f, b)) \in HoldFact
  <2>1. Only(Credits(f, b)) \in Credits(f, b)
    BY <1>1 DEF Only
  <2> QED BY <2>1 DEF Credits, BuyerOperationFacts, ReservationFact
<1> QED BY <1>1 DEF Held, HoldFact

\* Whichever budgets count, one of them did so before exactly when one does now.
LEMMA SingleBudget ==
    ASSUME NEW f, NEW g, TighterBudgets(g, f), Coherent(f),
           NEW F \in SUBSET f.budgets, NEW G \in SUBSET g.budgets,
           \A b \in f.budgets, c \in g.budgets : SameBudget(c, b) => (b \in F <=> c \in G)
    PROVE  (G # {} => F # {}) /\ (~Ambiguous(G) => ~Ambiguous(F))
<1>1. G # {} => F # {}
  BY DEF TighterBudgets
<1>2. ASSUME ~Ambiguous(G), NEW b \in F, NEW d \in F PROVE b = d
  <2>1. PICK c \in G, e \in G : SameBudget(c, b) /\ SameBudget(e, d)
    BY DEF TighterBudgets
  <2>2. c = e
    BY <1>2 DEF Ambiguous, Single
  <2> QED BY <2>1, <2>2 DEF SameBudget, Coherent
<1>3. ~Ambiguous(G) => ~Ambiguous(F)
  BY <1>2 DEF Ambiguous, Single
<1> QED BY <1>1, <1>3

LEMMA BudgetsStay ==
    ASSUME NEW f \in BuyerOperationFacts, NEW g \in BuyerOperationFacts, Coherent(f),
           f.unavailable \subseteq g.unavailable, TighterBudgets(g, f), SamePurchase(g, f),
           g.tx # None, BudgetsCover(Loaded(g))
    PROVE  BudgetsCover(Loaded(f))
<1> DEFINE a == Loaded(f)  b == Loaded(g)
<1>1. /\ ~Unavailable(b, "budgets") /\ ~Unavailable(b, "reservation")
      /\ ~Unavailable(a, "budgets") /\ ~Unavailable(a, "reservation")
      /\ a.budgets = f.budgets /\ a.reservation = f.reservation /\ a.tx = f.tx
      /\ b.budgets = g.budgets /\ b.reservation = g.reservation /\ b.tx = g.tx
  BY LoadedFields DEF BudgetsCover, Unavailable
<1>2. BudgetsCover(b)
  OBVIOUS
<1> HIDE DEF a, b
<1>3. a.reservation = None \/ IsOwn(a)
  BY <1>1, <1>2 DEF SamePurchase, Unclaimed, BudgetsCover, IsOwn
<1>4. \A x \in f.budgets, c \in g.budgets : SameBudget(c, x) =>
        /\ x.scope = c.scope /\ x.mine = c.mine
        /\ (f.tx.agreement # None) = (g.tx.agreement # None)
  BY DEF SameBudget, SamePurchase
<1>5. /\ Mine(a) # {} /\ ~Ambiguous(Mine(a))
  <2>1. /\ Mine(a) \in SUBSET f.budgets /\ Mine(b) \in SUBSET g.budgets
        /\ \A x \in f.budgets, c \in g.budgets : SameBudget(c, x) => (x \in Mine(a) <=> c \in Mine(b))
    BY <1>1, <1>4 DEF Mine, ScopeOf
  <2> QED BY <1>2, <2>1, SingleBudget DEF BudgetsCover
<1>6. ~Ambiguous(ScopeOf(a, "ORGANISATION"))
  <2>1. /\ ScopeOf(a, "ORGANISATION") \in SUBSET f.budgets
        /\ ScopeOf(b, "ORGANISATION") \in SUBSET g.budgets
        /\ \A x \in f.budgets, c \in g.budgets : SameBudget(c, x) =>
             (x \in ScopeOf(a, "ORGANISATION") <=> c \in ScopeOf(b, "ORGANISATION"))
    BY <1>1, <1>4 DEF ScopeOf
  <2> QED BY <1>2, <2>1, SingleBudget DEF BudgetsCover
<1>7. ~Ambiguous(OfAgreement(a))
  <2>1. /\ OfAgreement(a) \in SUBSET f.budgets /\ OfAgreement(b) \in SUBSET g.budgets
        /\ \A x \in f.budgets, c \in g.budgets : SameBudget(c, x) =>
             (x \in OfAgreement(a) <=> c \in OfAgreement(b))
    BY <1>1, <1>4 DEF OfAgreement, ScopeOf, SamePurchase
  <2> QED BY <1>2, <2>1, SingleBudget DEF BudgetsCover
<1>8. ASSUME NEW x \in Charged(a) PROVE Fits(a, x)
  <2>1. x \in f.budgets
    BY <1>1 DEF Charged, Mine, ScopeOf, OfAgreement
  <2>2. PICK c \in g.budgets :
          SameBudget(c, x) /\ Left(c) <= Left(x) /\ Held(g, c) <= Held(f, x)
    BY <2>1 DEF TighterBudgets
  <2>3. c \in Charged(b)
    BY <1>1, <1>4, <1>8, <2>1, <2>2 DEF Charged, Mine, ScopeOf, OfAgreement, SamePurchase
  <2>4. Fits(b, c)
    BY <1>2, <2>3 DEF BudgetsCover
  <2>5. /\ Needed(a, x) = f.tx.amount - Held(f, x) /\ Needed(b, c) = g.tx.amount - Held(g, c)
        /\ f.tx.amount = g.tx.amount
    BY <1>1 DEF Needed, Held, Credits, SamePurchase
  <2>6. Held(f, x) \in Int /\ Held(g, c) \in Int /\ f.tx.amount \in Int /\ Left(c) \in Int /\ Left(x) \in Int
    BY HeldTyped, <2>1 DEF SamePurchase, BuyerOperationFacts, Transaction, Left, BudgetFact
  <2> HIDE DEF Held, Left
  <2> QED BY <2>2, <2>4, <2>5, <2>6 DEF Fits
<1> QED BY <1>1, <1>3, <1>5, <1>6, <1>7, <1>8 DEF BudgetsCover, a

LEMMA ThresholdStays ==
    ASSUME NEW f \in BuyerOperationFacts, NEW g \in BuyerOperationFacts, LowerThresholds(g, f),
           ~Ambiguous(g.policies), SamePurchase(g, f), f.tx # None
    PROVE  /\ ~Ambiguous(f.policies) /\ (g.policies # {} => f.policies # {})
           /\ OverThreshold(f) => OverThreshold(g)
<1>1. CASE g.policies = {}
  BY <1>1 DEF LowerThresholds, OverThreshold, Ambiguous
<1>2. CASE g.policies # {}
  <2>1. PICK p \in g.policies : g.policies = {p}
    BY <1>2 DEF Ambiguous, Single
  <2>2. PICK q \in f.policies :
          /\ f.policies = {q}
          /\ q.threshold # None => p.threshold # None /\ p.threshold <= q.threshold
    BY <2>1 DEF LowerThresholds
  <2>3. Only(g.policies) = p /\ Only(f.policies) = q
    BY <2>1, <2>2, OnlyOne
  <2>4. /\ p.threshold \in Int \cup {None} /\ q.threshold \in Int \cup {None}
        /\ f.tx.amount \in Int /\ g.tx.amount = f.tx.amount
    BY DEF BuyerOperationFacts, ApprovalPolicyRecord, Transaction, SamePurchase
  <2>5. OverThreshold(f) => OverThreshold(g)
    BY <1>2, <2>2, <2>3, <2>4 DEF OverThreshold
  <2> QED BY <2>2, <2>5 DEF Ambiguous, Single
<1> QED BY <1>1, <1>2

\* An approval that still releases the purchase did so before.
LEMMA ReleaseStays ==
    ASSUME NEW f \in BuyerOperationFacts, NEW g \in BuyerOperationFacts, NoBetter(g, f),
           g.tx # None, g.approval # None, g.approval.status = "APPROVED", Releases(Loaded(g))
    PROVE  f.approval = g.approval /\ Releases(Loaded(f))
<1>1. f.approval = g.approval /\ g.tx.version = f.tx.version /\ g.tx.amount = f.tx.amount
  BY LoadedFields DEF NoBetter, NoMoreApproval, SamePurchase, Unclaimed, Releases, BoundTo
<1>2. f.reevaluation = g.reevaluation /\ f.principal = g.principal
  BY LoadedFields DEF NoBetter, NoMoreApproval, Releases
<1> QED BY <1>1, <1>2, LoadedFields DEF Releases, BoundTo

LEMMA CommitmentStays ==
    ASSUME NEW f \in BuyerOperationFacts, NEW g \in BuyerOperationFacts, Coherent(f),
           NoBetter(g, f), MayCommit(Loaded(g))
    PROVE  MayCommit(Loaded(f))
<1> DEFINE a == Loaded(f)  b == Loaded(g)
<1>0. /\ f.unavailable \subseteq g.unavailable /\ LowerLimits(g, f) /\ LowerThresholds(g, f)
      /\ TighterBudgets(g, f) /\ SamePurchase(g, f)
  BY DEF NoBetter
<1>1. /\ ~Unavailable(b, "order") /\ ~Unavailable(b, "limits") /\ ~Unavailable(b, "policies")
      /\ ~Unavailable(a, "order") /\ ~Unavailable(a, "limits") /\ ~Unavailable(a, "policies")
      /\ b.order = g.order /\ b.limits = g.limits /\ b.policies = g.policies
      /\ a.order = f.order /\ a.limits = f.limits /\ a.policies = f.policies
      /\ b.tx = g.tx /\ a.tx = f.tx /\ a.approval = f.approval /\ b.approval = g.approval
  BY <1>0, LoadedFields DEF MayCommit, Cleared, Unavailable
<1>2. MayCommit(b)
  OBVIOUS
<1>3. /\ g.tx # None /\ f.tx # None /\ f.tx.amount = g.tx.amount /\ f.tx.amount \in Int
      /\ ~(f.tx.amount <= 0)
  BY <1>0, <1>1, <1>2 DEF MayCommit, SamePurchase, BuyerOperationFacts, Transaction
<1>4. a.order # "unmet" /\ a.order # "unusable"
  BY <1>1, <1>2 DEF MayCommit, NoBetter, BuyerOperationFacts
<1>5. /\ f.limits # {} /\ ~Ambiguous(f.limits)
      /\ Only(g.limits) \in SpendAuthority /\ Only(f.limits) \in SpendAuthority
      /\ AtMost(Only(g.limits).order, Only(f.limits).order)
  BY <1>0, <1>1, <1>2, LimitStays DEF MayCommit
<1>6. /\ Only(f.limits).order # None /\ ~(Only(f.limits).order <= 0)
      /\ OverLimit(a) => OverLimit(b)
  <2>1. /\ Only(f.limits).order \in Int \cup {None} /\ Only(g.limits).order \in Int
        /\ ~(Only(g.limits).order <= 0)
    BY <1>1, <1>2, <1>5 DEF MayCommit, SpendAuthority
  <2>2. Only(f.limits).order \in Int /\ Only(g.limits).order <= Only(f.limits).order
    BY <1>5, <2>1, PolicyAssumption DEF AtMost
  <2>3. OverLimit(a) <=> f.tx.amount > Only(f.limits).order
    BY <1>1 DEF OverLimit
  <2>4. OverLimit(b) <=> f.tx.amount > Only(g.limits).order
    BY <1>1, <1>3 DEF OverLimit
  <2> QED BY <1>3, <2>1, <2>2, <2>3, <2>4, PolicyAssumption
<1>7. BudgetsCover(a)
  BY <1>0, <1>1, <1>2, <1>3, BudgetsStay DEF MayCommit
<1>8. Cleared(b)
  BY <1>2 DEF MayCommit
<1>9. /\ ~Ambiguous(a.policies) /\ (b.policies # {} => a.policies # {})
      /\ OverThreshold(a) => OverThreshold(b)
  <2>1. (OverThreshold(f) <=> OverThreshold(a)) /\ (OverThreshold(g) <=> OverThreshold(b))
    BY <1>1 DEF OverThreshold
  <2> QED BY <1>0, <1>1, <1>3, <1>8, <2>1, ThresholdStays DEF Cleared
<1>10. b.approval # None /\ b.approval.status = "APPROVED" /\ Releases(b) =>
         a.approval = b.approval /\ Releases(a)
  BY <1>1, <1>3, ReleaseStays
<1>11. Cleared(a)
  BY <1>1, <1>6, <1>8, <1>9, <1>10 DEF Cleared
<1> QED BY <1>1, <1>3, <1>4, <1>5, <1>6, <1>7, <1>11 DEF MayCommit

LEMMA DecisionStays ==
    ASSUME NEW f \in BuyerOperationFacts, NEW g \in BuyerOperationFacts,
           NoBetter(g, f), MayDecide(Loaded(g))
    PROVE  MayDecide(Loaded(f))
<1> DEFINE a == Loaded(f)  b == Loaded(g)
<1>0. f.unavailable \subseteq g.unavailable /\ LowerLimits(g, f) /\ SamePurchase(g, f) /\ NoMoreApproval(g, f)
  BY DEF NoBetter
<1>1. /\ ~Unavailable(b, "limits") /\ ~Unavailable(a, "limits")
      /\ b.limits = g.limits /\ a.limits = f.limits /\ b.tx = g.tx /\ a.tx = f.tx
      /\ a.approval = f.approval /\ b.approval = g.approval
      /\ a.principal = b.principal
  BY <1>0, LoadedFields DEF MayDecide, Unavailable, NoBetter
<1>2. MayDecide(b)
  OBVIOUS
<1>3. /\ f.tx # None /\ f.tx.amount = g.tx.amount /\ f.tx.amount \in Int
  BY <1>0, <1>1, <1>2 DEF MayDecide, SamePurchase, BuyerOperationFacts, Transaction
<1>4. f.approval = g.approval /\ g.tx.version = f.tx.version
  BY <1>0, <1>1, <1>2 DEF MayDecide, NoMoreApproval, SamePurchase, Unclaimed, BoundTo
<1>5. /\ f.limits # {} /\ ~Ambiguous(f.limits)
      /\ Only(g.limits) \in SpendAuthority /\ Only(f.limits) \in SpendAuthority
      /\ AtMost(Only(g.limits).approval, Only(f.limits).approval)
  BY <1>0, <1>1, <1>2, LimitStays DEF MayDecide
<1>6. /\ Only(f.limits).approval # None /\ ~(Only(f.limits).approval <= 0)
      /\ ~(f.tx.amount > Only(f.limits).approval)
  <2>1. /\ Only(f.limits).approval \in Int \cup {None} /\ Only(g.limits).approval \in Int
        /\ ~(Only(g.limits).approval <= 0) /\ ~(f.tx.amount > Only(g.limits).approval)
    BY <1>1, <1>2, <1>3, <1>5 DEF MayDecide, SpendAuthority
  <2>2. Only(f.limits).approval \in Int /\ Only(g.limits).approval <= Only(f.limits).approval
    BY <1>5, <2>1, PolicyAssumption DEF AtMost
  <2> QED BY <1>3, <2>1, <2>2, PolicyAssumption
<1> QED BY <1>1, <1>2, <1>3, <1>4, <1>5, <1>6 DEF MayDecide, BoundTo

\* Facts that are no better for the buyer allow nothing that was not allowed.
LEMMA Monotone ==
    ASSUME NEW f \in BuyerOperationFacts, NEW g \in BuyerOperationFacts, Coherent(f),
           NoBetter(g, f), Evaluate(Loaded(g)).outcome = "ALLOW"
    PROVE  Evaluate(Loaded(f)).outcome = "ALLOW"
<1>1. Loaded(f).market = Loaded(g).market
  BY LoadedFields DEF NoBetter
<1>2. InScope(Loaded(f)) /\ RuleOf(Loaded(f)) = RuleOf(Loaded(g))
  BY OperationAnswer, ScopeStays
<1> QED BY <1>1, <1>2, OperationAnswer, CommitmentStays, DecisionStays

----------------------------------------------------------------------------
(***************************************************************************)
(* Every change leaves the buyer no better off.                            *)
(***************************************************************************)

PolicyInv == store \in BuyerOperationFacts /\ Coherent(store)

Fields == {"op", "member", "roles", "market", "authority", "sites", "siteRecords", "principal",
           "tx", "order", "limits", "budgets", "reservation", "policies", "approval",
           "reevaluation", "unavailable"}
SameBut(changed) == \A field \in Fields \ changed : store'[field] = store[field]

\* g is what the facts f have become, and is still well formed.
Worse(g, f) == g \in BuyerOperationFacts /\ Coherent(g) /\ NoBetter(g, f)

\* What a change leaves alone is no better.
LEMMA SameIsNoBetter ==
    ASSUME NEW f \in BuyerOperationFacts, NEW g
    PROVE  /\ g.roles = f.roles => FewerRoles(g, f)
           /\ g.siteRecords = f.siteRecords => FewerSites(g, f)
           /\ g.limits = f.limits => LowerLimits(g, f)
           /\ g.policies = f.policies => LowerThresholds(g, f)
           /\ g.budgets = f.budgets /\ g.reservation = f.reservation => TighterBudgets(g, f)
           /\ g.tx = f.tx /\ g.reservation = f.reservation => SamePurchase(g, f)
           /\ g.approval = f.approval /\ g.reevaluation = f.reevaluation => NoMoreApproval(g, f)
<1>1. \A x \in Int \cup {None} : AtMost(x, x)
  BY PolicyAssumption DEF AtMost
<1>2. g.limits = f.limits => LowerLimits(g, f)
  <2>1. \A l \in f.limits : AtMost(l.order, l.order) /\ AtMost(l.approval, l.approval)
    BY <1>1 DEF BuyerOperationFacts, SpendAuthority
  <2> QED BY <2>1 DEF LowerLimits
<1>3. g.policies = f.policies => LowerThresholds(g, f)
  BY <1>1 DEF AtMost, LowerThresholds, BuyerOperationFacts, ApprovalPolicyRecord
<1>4. g.budgets = f.budgets /\ g.reservation = f.reservation => TighterBudgets(g, f)
  <2> SUFFICES ASSUME g.budgets = f.budgets, g.reservation = f.reservation PROVE TighterBudgets(g, f)
    OBVIOUS
  <2>1. ASSUME NEW b \in f.budgets PROVE Held(g, b) <= Held(f, b) /\ Left(b) <= Left(b)
    <3>1. Held(g, b) = Held(f, b) /\ Held(f, b) \in Nat
      BY HeldTyped DEF Held, Credits
    <3>2. Left(b) \in Int
      BY DEF Left, BuyerOperationFacts, BudgetFact
    <3> QED BY <3>1, <3>2
  <2> QED BY <2>1 DEF TighterBudgets, SameBudget
<1>5. /\ g.roles = f.roles => FewerRoles(g, f)
      /\ g.siteRecords = f.siteRecords => FewerSites(g, f)
      /\ g.tx = f.tx /\ g.reservation = f.reservation => SamePurchase(g, f)
      /\ g.approval = f.approval /\ g.reevaluation = f.reevaluation => NoMoreApproval(g, f)
  BY DEF FewerRoles, FewerSites, SamePurchase, NoMoreApproval
<1> QED BY <1>2, <1>3, <1>4, <1>5

\* A change of the fields that one condition each looks at.
LEMMA PlainChange ==
    ASSUME NEW f \in BuyerOperationFacts, Coherent(f), NEW g \in BuyerOperationFacts,
           g.op = f.op, g.market = f.market, g.sites = f.sites, g.principal = f.principal,
           f.unavailable \subseteq g.unavailable, g.member => f.member,
           g.authority = "ATTESTED" => f.authority = "ATTESTED",
           g.order \in {"free", "met"} => f.order = g.order,
           g.tx = f.tx, g.limits = f.limits, g.policies = f.policies, g.budgets = f.budgets,
           g.reservation = f.reservation, FewerRoles(g, f), FewerSites(g, f),
           g.approval = None <=> f.approval = None,
           g.approval # None => g.approval.version = f.approval.version, NoMoreApproval(g, f)
    PROVE  Worse(g, f)
<1>1. Coherent(g)
  BY DEF Coherent
<1>2. NoBetter(g, f)
  BY SameIsNoBetter DEF NoBetter
<1> QED BY <1>1, <1>2 DEF Worse

LEMMA RoleLostKeeps == ASSUME PolicyInv, RoleLost PROVE Worse(store', store)
<1>1. PICK roles \in SUBSET RoleAssignment :
        /\ store' = [store EXCEPT !.roles = roles]
        /\ \A r \in roles : \E q \in store.roles :
             q.role = r.role /\ (r.market => q.market) /\ r.sites \subseteq q.sites
  <2>1. PICK r \in store.roles :
          \/ Turns([store EXCEPT !.roles = @ \ {r}])
          \/ Turns([store EXCEPT !.roles = (@ \ {r}) \cup {[r EXCEPT !.market = FALSE]}])
          \/ \E s \in r.sites :
               Turns([store EXCEPT !.roles = (@ \ {r}) \cup {[r EXCEPT !.sites = @ \ {s}]}])
    BY DEF RoleLost
  <2>2. store.roles \subseteq RoleAssignment /\ r \in RoleAssignment
    BY DEF PolicyInv, BuyerOperationFacts
  <2>3. ASSUME NEW n \in RoleAssignment, n.role = r.role, n.market => r.market, n.sites \subseteq r.sites,
               Turns([store EXCEPT !.roles = (@ \ {r}) \cup {n}])
        PROVE  \E roles \in SUBSET RoleAssignment :
                 /\ store' = [store EXCEPT !.roles = roles]
                 /\ \A x \in roles : \E q \in store.roles :
                      q.role = x.role /\ (x.market => q.market) /\ x.sites \subseteq q.sites
    <3> DEFINE roles == (store.roles \ {r}) \cup {n}
    <3>1. roles \in SUBSET RoleAssignment /\ store' = [store EXCEPT !.roles = roles]
      BY <2>2, <2>3 DEF Turns
    <3>2. \A x \in roles : \E q \in store.roles :
             q.role = x.role /\ (x.market => q.market) /\ x.sites \subseteq q.sites
      BY <2>3
    <3> QED BY <3>1, <3>2
  <2>4. CASE Turns([store EXCEPT !.roles = @ \ {r}])
    <3> DEFINE roles == store.roles \ {r}
    <3>1. roles \in SUBSET RoleAssignment /\ store' = [store EXCEPT !.roles = roles]
      BY <2>2, <2>4 DEF Turns
    <3> QED BY <3>1
  <2>5. CASE Turns([store EXCEPT !.roles = (@ \ {r}) \cup {[r EXCEPT !.market = FALSE]}])
    <3> DEFINE n == [r EXCEPT !.market = FALSE]
    <3>1. n \in RoleAssignment /\ n.role = r.role /\ ~n.market /\ n.sites = r.sites
      BY <2>2 DEF RoleAssignment
    <3> HIDE DEF n
    <3> QED BY <2>3, <2>5, <3>1 DEF n
  <2>6. ASSUME NEW s \in r.sites,
               Turns([store EXCEPT !.roles = (@ \ {r}) \cup {[r EXCEPT !.sites = @ \ {s}]}])
        PROVE  \E roles \in SUBSET RoleAssignment :
                 /\ store' = [store EXCEPT !.roles = roles]
                 /\ \A x \in roles : \E q \in store.roles :
                      q.role = x.role /\ (x.market => q.market) /\ x.sites \subseteq q.sites
    <3> DEFINE n == [r EXCEPT !.sites = @ \ {s}]
    <3>1. n \in RoleAssignment /\ n.role = r.role /\ n.market = r.market /\ n.sites \subseteq r.sites
      BY <2>2 DEF RoleAssignment
    <3> HIDE DEF n
    <3> QED BY <2>3, <2>6, <3>1 DEF n
  <2> QED BY <2>1, <2>4, <2>5, <2>6
<1>2. /\ store' \in BuyerOperationFacts /\ store'.roles = roles
      /\ SameBut({"roles"})
  BY <1>1 DEF PolicyInv, BuyerOperationFacts, SameBut, Fields
<1>3. FewerRoles(store', store)
  BY <1>1, <1>2 DEF FewerRoles
<1>4. FewerSites(store', store) /\ NoMoreApproval(store', store)
  BY <1>2, SameIsNoBetter DEF PolicyInv, SameBut, Fields
<1> QED BY <1>2, <1>3, <1>4, PlainChange DEF PolicyInv, SameBut, Fields

LEMMA SiteClosedKeeps == ASSUME PolicyInv, SiteClosed PROVE Worse(store', store)
<1>0. PICK s \in DOMAIN store.siteRecords :
        \E use \in store.siteRecords[s] : Turns([store EXCEPT !.siteRecords[s] = @ \ {use}])
  BY DEF SiteClosed
<1>1. PICK use \in store.siteRecords[s] : store' = [store EXCEPT !.siteRecords[s] = @ \ {use}]
  BY <1>0 DEF Turns
<1> DEFINE records == [store.siteRecords EXCEPT ![s] = @ \ {use}]
<1>2. records \in SiteRecords
  <2>1. PICK S \in SUBSET Sites : store.siteRecords \in [S -> SUBSET {"SHIPPING", "BILLING"}]
    BY DEF PolicyInv, BuyerOperationFacts, SiteRecords
  <2>2. records \in [S -> SUBSET {"SHIPPING", "BILLING"}]
    BY <2>1
  <2> QED BY <2>2 DEF SiteRecords
<1>3. /\ DOMAIN records = DOMAIN store.siteRecords
      /\ \A x \in DOMAIN records : records[x] \subseteq store.siteRecords[x]
  OBVIOUS
<1>4. store' = [store EXCEPT !.siteRecords = records]
  BY <1>1
<1> HIDE DEF records
<1>5. /\ store' \in BuyerOperationFacts /\ store'.siteRecords = records
      /\ SameBut({"siteRecords"})
  BY <1>2, <1>4 DEF PolicyInv, BuyerOperationFacts, SameBut, Fields
<1>6. FewerSites(store', store) /\ FewerRoles(store', store) /\ NoMoreApproval(store', store)
  BY <1>3, <1>5, SameIsNoBetter DEF PolicyInv, SameBut, Fields, FewerSites
<1> QED BY <1>5, <1>6, PlainChange DEF PolicyInv, SameBut, Fields

LEMMA ContextLost ==
    ASSUME PolicyInv, MembershipEnded \/ MarketLost \/ OrderAsked \/ SourceFailed
    PROVE  Worse(store', store)
<1>1. /\ store' \in BuyerOperationFacts
      /\ SameBut({"member", "authority", "order", "unavailable"})
      /\ store.unavailable \subseteq store'.unavailable
      /\ store'.member => store.member
      /\ store'.authority = "ATTESTED" => store.authority = "ATTESTED"
      /\ store'.order \in {"free", "met"} => store.order = store'.order
  <2>1. CASE MembershipEnded
    BY <2>1 DEF MembershipEnded, Turns, PolicyInv, BuyerOperationFacts, SameBut, Fields
  <2>2. CASE MarketLost
    BY <2>2 DEF MarketLost, Turns, PolicyInv, BuyerOperationFacts, SameBut, Fields
  <2>3. CASE OrderAsked
    BY <2>3 DEF OrderAsked, Turns, PolicyInv, BuyerOperationFacts, SameBut, Fields
  <2>4. CASE SourceFailed
    BY <2>4 DEF SourceFailed, Turns, PolicyInv, BuyerOperationFacts, SameBut, Fields
  <2> QED BY <2>1, <2>2, <2>3, <2>4
<1>2. FewerSites(store', store) /\ FewerRoles(store', store) /\ NoMoreApproval(store', store)
  BY <1>1, SameIsNoBetter DEF PolicyInv, SameBut, Fields
<1> QED BY <1>1, <1>2, PlainChange DEF PolicyInv, SameBut, Fields

LEMMA ApprovalLostKeeps == ASSUME PolicyInv, ApprovalLost PROVE Worse(store', store)
<1>1. /\ store' \in BuyerOperationFacts /\ SameBut({"approval", "reevaluation"})
      /\ store'.approval = None <=> store.approval = None
      /\ store'.approval # None => store'.approval.version = store.approval.version
      /\ NoMoreApproval(store', store)
  <2>1. CASE /\ store.approval # None
             /\ Turns([store EXCEPT !.approval.status = "CANCELLED"])
    <3> DEFINE approval == [store.approval EXCEPT !.status = "CANCELLED"]
    <3>1. store.approval \in BoundApproval
      BY <2>1 DEF PolicyInv, BuyerOperationFacts
    <3>2. /\ approval \in BoundApproval /\ approval.status = "CANCELLED" /\ approval # None
          /\ approval.version = store.approval.version
      BY <3>1, PolicyAssumption DEF BoundApproval
    <3>3. store' = [store EXCEPT !.approval = approval]
      BY <2>1 DEF Turns
    <3> HIDE DEF approval
    <3> QED BY <2>1, <3>2, <3>3 DEF PolicyInv, BuyerOperationFacts, SameBut, Fields, NoMoreApproval
  <2>2. CASE \E outcome \in {"DENY", "UNAVAILABLE", None} :
               store.reevaluation = "ALLOW" /\ Turns([store EXCEPT !.reevaluation = outcome])
    BY <2>2 DEF Turns, PolicyInv, BuyerOperationFacts, SameBut, Fields, NoMoreApproval
  <2> QED BY <2>1, <2>2 DEF ApprovalLost
<1>2. FewerSites(store', store) /\ FewerRoles(store', store)
  BY <1>1, SameIsNoBetter DEF PolicyInv, SameBut, Fields
<1> QED BY <1>1, <1>2, PlainChange DEF PolicyInv, SameBut, Fields

\* One row of a table is replaced by another of the same id.
LEMMA RowReplaced ==
    ASSUME NEW S, NEW x \in S, NEW n, NEW T, T = (S \ {x}) \cup {n},
           \A y \in S : y.id = x.id => y = x, n.id = x.id,
           \A y \in S, z \in S : y.id = z.id => y = z
    PROVE  /\ \A y \in T, z \in T : y.id = z.id => y = z
           /\ \A y : T = {y} => y = n /\ S = {x}
<1>1. \A y \in T, z \in T : y.id = z.id => y = z
  OBVIOUS
<1>2. ASSUME NEW y, T = {y} PROVE y = n /\ S = {x}
  <2>1. y = n
    BY <1>2
  <2>2. ASSUME NEW z \in S, z # x PROVE FALSE
    <3>1. z \in T /\ z = n
      BY <1>2, <2>1, <2>2
    <3> QED BY <3>1, <2>2
  <2> QED BY <2>1, <2>2
<1> QED BY <1>1, <1>2

LEMMA LimitLoweredKeeps == ASSUME PolicyInv, LimitLowered PROVE Worse(store', store)
<1>0. /\ store.limits \subseteq SpendAuthority /\ store.policies \subseteq ApprovalPolicyRecord
      /\ \A l, m \in store.limits : l.id = m.id => l = m
      /\ \A p, q \in store.policies : p.id = q.id => p = q
  BY DEF PolicyInv, BuyerOperationFacts, Coherent
<1>1. ASSUME NEW v \in SUBSET SpendAuthority, store' = [store EXCEPT !.limits = v],
             \A l, m \in v : l.id = m.id => l = m,
             \A l \in v : v = {l} =>
               \E m \in store.limits : /\ store.limits = {m}
                                       /\ AtMost(l.order, m.order) /\ AtMost(l.approval, m.approval)
      PROVE  Worse(store', store)
  <2>1. store' \in BuyerOperationFacts /\ store'.limits = v /\ SameBut({"limits"})
    BY <1>1 DEF PolicyInv, BuyerOperationFacts, SameBut, Fields
  <2>2. LowerLimits(store', store)
    BY <1>1, <2>1 DEF LowerLimits
  <2>3. Coherent(store')
    BY <1>1, <2>1 DEF PolicyInv, Coherent, SameBut, Fields
  <2> QED BY <2>1, <2>2, <2>3, SameIsNoBetter DEF PolicyInv, Worse, NoBetter, SameBut, Fields
<1>2. ASSUME NEW l \in store.limits, NEW n \in SpendAuthority, n.id = l.id,
             AtMost(n.order, l.order), AtMost(n.approval, l.approval),
             store' = [store EXCEPT !.limits = (@ \ {l}) \cup {n}]
      PROVE  Worse(store', store)
  <2> DEFINE v == (store.limits \ {l}) \cup {n}
  <2>1. v \in SUBSET SpendAuthority /\ store' = [store EXCEPT !.limits = v]
    BY <1>0, <1>2
  <2>2. /\ \A x, y \in v : x.id = y.id => x = y
        /\ \A x : v = {x} => x = n /\ store.limits = {l}
    BY <1>0, <1>2, RowReplaced
  <2> HIDE DEF v
  <2> QED BY <1>1, <1>2, <2>1, <2>2
<1>3. \A x \in Int \cup {None} : AtMost(x, x)
  BY PolicyAssumption DEF AtMost
<1>4. ASSUME NEW l \in store.limits, store.limits = {l}, Turns([store EXCEPT !.limits = {}])
      PROVE  Worse(store', store)
  <2>1. store' = [store EXCEPT !.limits = {}]
    BY <1>4 DEF Turns
  <2>2. {} \in SUBSET SpendAuthority /\ \A m \in {} : FALSE
    OBVIOUS
  <2> QED BY <1>1, <2>1, <2>2
<1>5. ASSUME NEW l \in store.limits, l.order \notin {None, 0},
             Turns([store EXCEPT !.limits = (@ \ {l}) \cup {[l EXCEPT !.order = @ - 1]}])
      PROVE  Worse(store', store)
  <2> DEFINE n == [l EXCEPT !.order = @ - 1]
  <2>1. /\ n \in SpendAuthority /\ n.id = l.id /\ n.approval = l.approval
        /\ n.order = l.order - 1 /\ l.order \in Int /\ l.approval \in Int \cup {None}
    BY <1>0, <1>5 DEF SpendAuthority
  <2> HIDE DEF n
  <2>2. AtMost(n.order, l.order) /\ AtMost(n.approval, l.approval)
    BY <1>3, <1>5, <2>1 DEF AtMost
  <2> QED BY <1>2, <1>5, <2>1, <2>2 DEF Turns, n
<1>6. ASSUME NEW l \in store.limits, l.approval \notin {None, 0},
             Turns([store EXCEPT !.limits = (@ \ {l}) \cup {[l EXCEPT !.approval = @ - 1]}])
      PROVE  Worse(store', store)
  <2> DEFINE n == [l EXCEPT !.approval = @ - 1]
  <2>1. /\ n \in SpendAuthority /\ n.id = l.id /\ n.order = l.order
        /\ n.approval = l.approval - 1 /\ l.approval \in Int /\ l.order \in Int \cup {None}
    BY <1>0, <1>6 DEF SpendAuthority
  <2> HIDE DEF n
  <2>2. AtMost(n.order, l.order) /\ AtMost(n.approval, l.approval)
    BY <1>3, <1>6, <2>1 DEF AtMost
  <2> QED BY <1>2, <1>6, <2>1, <2>2 DEF Turns, n
<1>7. ASSUME NEW p \in store.policies, p.threshold \notin {None, 0},
             Turns([store EXCEPT !.policies = (@ \ {p}) \cup {[p EXCEPT !.threshold = @ - 1]}])
      PROVE  Worse(store', store)
  <2> DEFINE n == [p EXCEPT !.threshold = @ - 1]
             v == (store.policies \ {p}) \cup {n}
  <2>1. /\ n \in ApprovalPolicyRecord /\ n.id = p.id /\ n.threshold = p.threshold - 1
        /\ p.threshold \in Int /\ n.threshold \in Int
    BY <1>0, <1>7 DEF ApprovalPolicyRecord
  <2>2. v \in SUBSET ApprovalPolicyRecord /\ store' = [store EXCEPT !.policies = v]
    BY <1>0, <1>7, <2>1 DEF Turns
  <2> HIDE DEF n
  <2>3. /\ \A x, y \in v : x.id = y.id => x = y
        /\ \A x : v = {x} => x = n /\ store.policies = {p}
    BY <1>0, <2>1, RowReplaced
  <2>4. v # {}
    OBVIOUS
  <2> HIDE DEF v
  <2>5. store' \in BuyerOperationFacts /\ store'.policies = v /\ SameBut({"policies"})
    BY <2>2 DEF PolicyInv, BuyerOperationFacts, SameBut, Fields
  <2>6. LowerThresholds(store', store)
    BY <2>1, <2>3, <2>4, <2>5, PolicyAssumption DEF LowerThresholds
  <2>7. Coherent(store')
    BY <2>3, <2>5 DEF PolicyInv, Coherent, SameBut, Fields
  <2> QED BY <2>5, <2>6, <2>7, SameIsNoBetter DEF PolicyInv, Worse, NoBetter, SameBut, Fields
<1> QED BY <1>4, <1>5, <1>6, <1>7 DEF LimitLowered

LEMMA BudgetTightenedKeeps == ASSUME PolicyInv, BudgetTightened PROVE Worse(store', store)
<1>1. PICK b \in store.budgets :
        \/ /\ b.period # None
           /\ Turns([store EXCEPT !.budgets = (@ \ {b}) \cup {[b EXCEPT !.reserved = @ + 1]}])
        \/ /\ b.revision = 1
           /\ Turns([store EXCEPT !.budgets = (@ \ {b}) \cup {[b EXCEPT !.revision = 2]}])
  BY DEF BudgetTightened
<1>2. /\ store.budgets \subseteq BudgetFact /\ b \in BudgetFact
      /\ \A c, d \in store.budgets : c.policy = d.policy => c = d
      /\ store.reservation # None => store.reservation \in ReservationFact
      /\ store.reservation # None => \A c \in store.budgets, h \in store.reservation.holds :
            c.policy = h.policy => h.revision <= c.revision
  BY DEF PolicyInv, BuyerOperationFacts, Coherent
<1>3. PICK n \in BudgetFact :
        /\ store' = [store EXCEPT !.budgets = (store.budgets \ {b}) \cup {n}]
        /\ SameBudget(n, b) /\ n.limit = b.limit /\ n.period = b.period /\ n.committed = b.committed
        /\ \/ b.period # None /\ n.reserved = b.reserved + 1 /\ n.revision = b.revision
           \/ n.reserved = b.reserved /\ b.revision = 1 /\ n.revision = 2
  <2>1. CASE /\ b.period # None
             /\ Turns([store EXCEPT !.budgets = (@ \ {b}) \cup {[b EXCEPT !.reserved = @ + 1]}])
    <3> DEFINE n == [b EXCEPT !.reserved = @ + 1]
    <3>1. /\ n \in BudgetFact /\ SameBudget(n, b) /\ n.limit = b.limit /\ n.period = b.period
          /\ n.committed = b.committed /\ n.reserved = b.reserved + 1 /\ n.revision = b.revision
      BY <1>2 DEF BudgetFact, SameBudget
    <3>2. store' = [store EXCEPT !.budgets = (store.budgets \ {b}) \cup {n}]
      BY <2>1 DEF Turns
    <3> HIDE DEF n
    <3> QED BY <2>1, <3>1, <3>2
  <2>2. CASE /\ b.revision = 1
             /\ Turns([store EXCEPT !.budgets = (@ \ {b}) \cup {[b EXCEPT !.revision = 2]}])
    <3> DEFINE n == [b EXCEPT !.revision = 2]
    <3>1. /\ n \in BudgetFact /\ SameBudget(n, b) /\ n.limit = b.limit /\ n.period = b.period
          /\ n.committed = b.committed /\ n.reserved = b.reserved /\ n.revision = 2
      BY <1>2 DEF BudgetFact, SameBudget
    <3>2. store' = [store EXCEPT !.budgets = (store.budgets \ {b}) \cup {n}]
      BY <2>2 DEF Turns
    <3> HIDE DEF n
    <3> QED BY <2>2, <3>1, <3>2
  <2> QED BY <1>1, <2>1, <2>2
<1> DEFINE v == (store.budgets \ {b}) \cup {n}
<1>4. v \in SUBSET BudgetFact
  BY <1>2
<1>5. store' \in BuyerOperationFacts /\ store'.budgets = v /\ SameBut({"budgets"})
  BY <1>3, <1>4 DEF PolicyInv, BuyerOperationFacts, SameBut, Fields
<1>6. store'.reservation = store.reservation
  BY <1>5 DEF SameBut, Fields
<1>7. Left(n) <= Left(b)
  BY <1>2, <1>3 DEF Left, BudgetFact
<1>8. Held(store', n) <= Held(store, b)
  <2>1. Held(store', n) \in Nat /\ Held(store, b) \in Nat
    BY <1>5, HeldTyped DEF PolicyInv
  <2>2. CASE n.revision = b.revision
    <3>1. Credits(store', n) = Credits(store, b)
      BY <1>3, <1>6, <2>2 DEF Credits, SameBudget
    <3> QED BY <2>1, <3>1 DEF Held
  <2>3. CASE b.revision = 1 /\ n.revision = 2
    <3>1. Credits(store', n) = {}
      BY <1>2, <1>3, <1>6, <2>3 DEF Credits, SameBudget
    <3> QED BY <2>1, <3>1 DEF Held
  <2> QED BY <1>3, <2>2, <2>3
<1>9. ASSUME NEW c \in store.budgets, c # b
      PROVE  c \in v /\ SameBudget(c, c) /\ Left(c) <= Left(c) /\ Held(store', c) <= Held(store, c)
  <2>1. Held(store', c) = Held(store, c) /\ Held(store, c) \in Nat
    BY <1>6, HeldTyped DEF PolicyInv, Held, Credits
  <2>2. Left(c) \in Int
    BY <1>2, <1>9 DEF Left, BudgetFact
  <2> QED BY <1>9, <2>1, <2>2 DEF SameBudget
<1>10. TighterBudgets(store', store)
  <2>1. n \in v /\ \A c \in v : c = n \/ (c \in store.budgets /\ c # b)
    OBVIOUS
  <2> HIDE DEF v
  <2> QED BY <1>3, <1>5, <1>7, <1>8, <1>9, <2>1 DEF TighterBudgets
<1>11. Coherent(store')
  <2>1. \A c, d \in v : c.policy = d.policy => c = d
    BY <1>2, <1>3 DEF SameBudget
  <2>2. ASSUME store.reservation # None, NEW c \in v, NEW h \in store.reservation.holds,
               c.policy = h.policy
        PROVE  h.revision <= c.revision
    <3>1. CASE c \in store.budgets
      BY <1>2, <2>2, <3>1
    <3>2. CASE c = n
      <4>1. h.revision <= b.revision
        BY <1>2, <1>3, <2>2, <3>2 DEF SameBudget
      <4>2. h.revision \in Nat /\ b.revision \in Nat /\ n.revision \in Nat /\ b.revision <= n.revision
        BY <1>2, <1>3, <2>2 DEF ReservationFact, HoldFact, BudgetFact
      <4> QED BY <3>2, <4>1, <4>2
    <3> QED BY <2>2, <3>1, <3>2
  <2> HIDE DEF v
  <2> QED BY <1>5, <2>1, <2>2 DEF PolicyInv, Coherent, SameBut, Fields
<1> QED BY <1>5, <1>10, <1>11, SameIsNoBetter DEF PolicyInv, Worse, NoBetter, SameBut, Fields

LEMMA HoldLapsedKeeps == ASSUME PolicyInv, HoldLapsed PROVE Worse(store', store)
<1> DEFINE n == [store.reservation EXCEPT !.usable = FALSE]
<1>1. store.reservation \in ReservationFact /\ store' = [store EXCEPT !.reservation = n]
  BY DEF HoldLapsed, Turns, PolicyInv, BuyerOperationFacts
<1>2. /\ n \in ReservationFact /\ n # None /\ ~n.usable /\ n.holds = store.reservation.holds
      /\ n.agreement = store.reservation.agreement /\ n.version = store.reservation.version
  BY <1>1, PolicyAssumption DEF ReservationFact
<1> HIDE DEF n
<1>3. store' \in BuyerOperationFacts /\ store'.reservation = n /\ SameBut({"reservation"})
  BY <1>1, <1>2 DEF PolicyInv, BuyerOperationFacts, SameBut, Fields
<1>4. store'.budgets = store.budgets /\ store'.tx = store.tx /\ store'.approval = store.approval
  BY <1>3 DEF SameBut, Fields
<1>5. ASSUME NEW b \in store.budgets
      PROVE  /\ SameBudget(b, b) /\ Left(b) <= Left(b)
             /\ Held(store', b) <= Held(store, b)
  <2>1. Credits(store', b) = {}
    BY <1>2, <1>3 DEF Credits
  <2>2. Held(store', b) = 0 /\ Held(store, b) \in Nat
    BY <2>1, HeldTyped DEF Held, PolicyInv
  <2>3. Left(b) \in Int
    BY DEF Left, PolicyInv, BuyerOperationFacts, BudgetFact
  <2> QED BY <2>2, <2>3 DEF SameBudget
<1>6. TighterBudgets(store', store)
  BY <1>4, <1>5 DEF TighterBudgets
<1>7. SamePurchase(store', store)
  BY <1>1, <1>2, <1>3, <1>4, PolicyAssumption DEF SamePurchase
<1>8. Coherent(store')
  BY <1>1, <1>2, <1>3, PolicyAssumption DEF PolicyInv, Coherent, SameBut, Fields
<1> QED BY <1>3, <1>6, <1>7, <1>8, SameIsNoBetter DEF PolicyInv, Worse, NoBetter, SameBut, Fields

LEMMA PurchaseEditedKeeps == ASSUME PolicyInv, PurchaseEdited PROVE Worse(store', store)
<1> DEFINE n == [store.tx EXCEPT !.version = 2]
<1>1. /\ store.tx \in Transaction /\ store.tx # None /\ store.tx.version = 1
      /\ store' = [store EXCEPT !.tx = n]
  BY DEF PurchaseEdited, Turns, PolicyInv, BuyerOperationFacts
<1>2. /\ n \in Transaction /\ n # None /\ n.version = 2
      /\ n.amount = store.tx.amount /\ n.agreement = store.tx.agreement
  BY <1>1, PolicyAssumption DEF Transaction
<1> HIDE DEF n
<1>3. store' \in BuyerOperationFacts /\ store'.tx = n /\ SameBut({"tx"})
  BY <1>1, <1>2 DEF PolicyInv, BuyerOperationFacts, SameBut, Fields
<1>4. store'.reservation = store.reservation /\ store'.approval = store.approval
  BY <1>3 DEF SameBut, Fields
<1>5. /\ store.reservation # None => store.reservation.version \in Nat /\ store.reservation.version <= 1
      /\ store.approval # None => store.approval.version \in Nat /\ store.approval.version <= 1
  BY <1>1 DEF PolicyInv, Coherent, BuyerOperationFacts, ReservationFact, BoundApproval
<1>6. SamePurchase(store', store)
  <2>1. Unclaimed(store')
    BY <1>2, <1>3, <1>4, <1>5 DEF Unclaimed
  <2> QED BY <1>1, <1>2, <1>3, <1>4, <2>1 DEF SamePurchase
<1>7. Coherent(store')
  <2>1. /\ store.reservation # None => store.reservation.version <= n.version
        /\ store.approval # None => store.approval.version <= n.version
    BY <1>2, <1>5
  <2> QED BY <1>3, <1>4, <2>1 DEF PolicyInv, Coherent, SameBut, Fields
<1> QED BY <1>3, <1>6, <1>7, SameIsNoBetter DEF PolicyInv, Worse, NoBetter, SameBut, Fields

LEMMA PolicyBegins == PolicyInit => PolicyInv
BY PolicyAssumption DEF PolicyInit, PolicyInv

LEMMA PolicyStep == ASSUME PolicyInv, PolicyNext PROVE PolicyInv' /\ NoBetter(store', store)
<1>1. Worse(store', store)
  BY RoleLostKeeps, SiteClosedKeeps, ContextLost, LimitLoweredKeeps, BudgetTightenedKeeps,
     HoldLapsedKeeps, PurchaseEditedKeeps, ApprovalLostKeeps DEF PolicyNext
<1> QED BY <1>1 DEF Worse, PolicyInv

\* The facts stay facts the code can load: ids are unique, no hold is ahead of
\* its budget and no approval ahead of its purchase.
THEOREM FactsStayCoherent == PolicySpec => []PolicyInv
<1>1. PolicyInv /\ [PolicyNext]_policyVars => PolicyInv'
  BY PolicyStep DEF policyVars, PolicyInv
<1> QED BY <1>1, PolicyBegins, PTL DEF PolicySpec

\* Nothing that is taken from a buyer, and no source that fails, makes an
\* operation allowed that was not (buyer-operation-policy.ts:281-557).
THEOREM DecisionsNeverGain == PolicySpec => NeverGains
<1>1. PolicyInv /\ [PolicyNext]_policyVars => [Allowed' => Allowed]_policyVars
  <2> SUFFICES ASSUME PolicyInv, PolicyNext, Allowed' PROVE Allowed
    OBVIOUS
  <2>1. PolicyInv' /\ NoBetter(store', store)
    BY PolicyStep
  <2>2. Evaluate(Loaded(store')).outcome = "ALLOW"
    BY DEF Allowed
  <2> QED BY <2>1, <2>2, Monotone DEF PolicyInv, Allowed
<1> QED BY <1>1, FactsStayCoherent, PTL DEF PolicySpec, NeverGains

----------------------------------------------------------------------------
(***************************************************************************)
(* Budgets and the decision.                                               *)
(***************************************************************************)

LEMMA CoversWhatItNeeds ==
    ASSUME PolicyInv, Allowed, RuleOf(store).kind = "COMMITMENT", NEW b \in Charged(store)
    PROVE  /\ Fits(store, b)
           /\ b \in BudgetFact /\ store.tx \in Transaction
<1>1. BudgetsCover(Loaded(store)) /\ Loaded(store).tx # None
  <2>1. RuleOf(Loaded(store)) = RuleOf(store)
    BY LoadedFields DEF PolicyInv, RuleOf
  <2> QED BY <2>1, OperationAnswer DEF Allowed, MayCommit
<1>2. /\ Loaded(store).budgets = store.budgets /\ Loaded(store).reservation = store.reservation
      /\ Loaded(store).tx = store.tx
  BY <1>1, LoadedFields DEF BudgetsCover, PolicyInv, Unavailable
<1>3. Fits(Loaded(store), b)
  BY <1>1, <1>2 DEF BudgetsCover, Charged, Mine, ScopeOf, OfAgreement
<1>4. Fits(store, b)
  BY <1>2, <1>3 DEF Fits, Needed, Credits
<1>5. b \in BudgetFact /\ store.tx \in Transaction
  BY <1>1, <1>2 DEF Charged, Mine, ScopeOf, OfAgreement, PolicyInv, BuyerOperationFacts
<1> QED BY <1>4, <1>5

\* An allowed commitment fits every budget it is bound to, its own hold counted
\* once (buyer-operation-policy.ts:421-485).
THEOREM CommitmentsFit == PolicySpec => []WithinEveryBudget
<1>1. PolicyInv => WithinEveryBudget
  <2> SUFFICES ASSUME PolicyInv, Allowed, RuleOf(store).kind = "COMMITMENT", NEW b \in Charged(store)
               PROVE  LET own == {h \in IF store.reservation = None THEN {} ELSE store.reservation.holds :
                                    <<h.policy, h.revision, h.period>> = <<b.policy, b.revision, b.period>>}
                          held == IF own # {} /\ store.reservation.usable THEN Only(own).reserved ELSE 0
                          used == IF b.period = None THEN 0 ELSE b.committed + b.reserved
                      IN held >= store.tx.amount \/ used - held + store.tx.amount <= b.limit
    BY DEF WithinEveryBudget
  <2> DEFINE own == {h \in IF store.reservation = None THEN {} ELSE store.reservation.holds :
                       <<h.policy, h.revision, h.period>> = <<b.policy, b.revision, b.period>>}
             held == IF own # {} /\ store.reservation.usable THEN Only(own).reserved ELSE 0
             used == IF b.period = None THEN 0 ELSE b.committed + b.reserved
  <2>1. Fits(store, b) /\ b \in BudgetFact /\ store.tx \in Transaction
    BY CoversWhatItNeeds
  <2>2. held = Held(store, b)
    <3>1. CASE store.reservation = None
      <4>1. own = {} /\ Credits(store, b) = {}
        BY <3>1 DEF Credits
      <4> QED BY <4>1 DEF Held
    <3>2. CASE store.reservation # None
      <4>1. store.reservation \in ReservationFact
        BY <3>2 DEF PolicyInv, BuyerOperationFacts
      <4>2. CASE b.period = None
        <5>1. own = {} /\ Credits(store, b) = {}
          BY <4>1, <4>2, PolicyAssumption DEF Credits, ReservationFact, HoldFact
        <5> QED BY <5>1 DEF Held
      <4>3. CASE b.period # None /\ store.reservation.usable
        <5>1. Credits(store, b) = own
          BY <3>2, <4>3 DEF Credits
        <5> QED BY <4>3, <5>1 DEF Held
      <4>4. CASE ~store.reservation.usable
        <5>1. Credits(store, b) = {} /\ held = 0
          BY <3>2, <4>4 DEF Credits
        <5> QED BY <5>1 DEF Held
      <4> QED BY <4>2, <4>3, <4>4
    <3> QED BY <3>1, <3>2
  <2>3. Left(b) = b.limit - used /\ used \in Nat /\ b.limit \in Nat
    BY <2>1 DEF Left, BudgetFact
  <2>4. held \in Nat /\ store.tx.amount \in Int
    BY <2>1, <2>2, HeldTyped DEF PolicyInv, Transaction
  <2>5. store.tx.amount - held <= 0 \/ store.tx.amount - held <= Left(b)
    BY <2>1, <2>2 DEF Fits, Needed, Held
  <2> HIDE DEF held, used
  <2>6. held >= store.tx.amount \/ used - held + store.tx.amount <= b.limit
    BY <2>3, <2>4, <2>5
  <2> QED BY <2>6 DEF held, used, own
<1> QED BY <1>1, FactsStayCoherent, PTL

===============================================================================
