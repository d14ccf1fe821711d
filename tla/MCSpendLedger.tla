--------------------------- MODULE MCSpendLedger ---------------------------
(***************************************************************************)
(* Small instances of SpendLedger for TLC.                                 *)
(***************************************************************************)
EXTENDS SpendLedger, TLC

CONSTANTS
    pm, pn, pa,  \* two MEMBERSHIP budgets of the same member and an AGREEMENT budget
    m1, a1,      \* the member and the agreement
    MonthLength

MCScope == [p \in Policies |->
    CASE p \in {pm, pn} -> "MEMBERSHIP" [] p = pa -> "AGREEMENT"]
MCBinding == [p \in Policies |-> IF p = pa THEN a1 ELSE m1]

\* date_trunc with a zone z instants ahead of UTC; the clock starts at 1, so
\* every month start the runs reach is an instant.
MCMonthStart == [zt \in Zones \X Instants |->
    LET start == ((zt[2] + zt[1]) \div MonthLength) * MonthLength - zt[1]
    IN IF start < 0 THEN 0 ELSE start]

AlwaysInEffect == {[from |-> 0, until |-> Never]}

\* Administration is kept apart from the longest behaviours: memberships are not
\* suspended under a revised policy, and neither has happened at the last instant or
\* once the third reservation is placed, which is beside one that supersedes another.
\* A version of a purchase comes after the version before it.
Bounded ==
    LET Placed == {r \in Reservations : reservation[r].status # "NONE"}
        Revised == \E p \in Policies : policy[p].revision > 1
        Suspended == members # Members
        Follows(r) == \E s \in Placed : /\ reservation[s].purchase = reservation[r].purchase
                                       /\ reservation[s].version = reservation[r].version - 1
    IN /\ ~(Revised /\ Suspended)
       /\ Placed = Reservations \/ now = MaxClock => ~Revised /\ ~Suspended
       /\ Placed = Reservations => /\ now < MaxClock
                                  /\ \E r \in Placed : reservation[r].supersedes # NoReservation
       /\ \A r \in Placed : reservation[r].version > 1 => Follows(r)

Interchangeable == Permutations(Reservations) \cup Permutations(Purchases)
=============================================================================
