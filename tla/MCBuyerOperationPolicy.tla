------------------------- MODULE MCBuyerOperationPolicy -------------------------
(* Facts for BuyerOperationPolicy: a purchase of 3, with one or two budgets,   *)
(* its own reservation, limits, thresholds and an approval around it; an       *)
(* approval to decide; and the operations that commit nothing.                 *)
EXTENDS BuyerOperationPolicy

CONSTANTS p1, p2, s1, s2, personal, pooled

Role(role, market, sites) == [role |-> role, market |-> market, sites |-> sites]
Assignments ==
  {{Role("BUYER", TRUE, {s1, s2})},
   {Role("BUYER", TRUE, {s1}), Role("ACCOUNT_ADMIN", TRUE, {s2})},
   {Role("APPROVER", TRUE, {s1}), Role("VIEWER", TRUE, {s1})}}

Use(s, use) == [site |-> s, use |-> use]
Records == [s \in {s1, s2} |-> {"SHIPPING", "BILLING"}]

Purchase(agreement) == [amount |-> 3, agreement |-> agreement, version |-> 1]

Budget(policy, scope, reserved) ==
  [policy |-> policy, revision |-> 1, scope |-> scope, mine |-> TRUE, limit |-> 4,
   period |-> IF reserved = None THEN None ELSE 2,
   committed |-> 0, reserved |-> IF reserved = None THEN 0 ELSE reserved]

Hold(policy, revision, period, reserved) ==
  [policy |-> policy, revision |-> revision, period |-> period, reserved |-> reserved]
Reservation(holds) == [agreement |-> None, version |-> 1, usable |-> TRUE, holds |-> holds]

Limit(order, approval) == [id |-> 1, order |-> order, approval |-> approval]
Approval(status, initiator, approver, version, amount) ==
  [ours |-> TRUE, status |-> status, initiator |-> initiator, approver |-> approver,
   version |-> version, amount |-> amount, revision |-> "current"]

Plain(op, roles, sites) ==
  [op |-> op, member |-> TRUE, roles |-> roles, market |-> TRUE, authority |-> "ATTESTED",
   sites |-> sites, siteRecords |-> Records, principal |-> p1, tx |-> None,
   order |-> "free", limits |-> {Limit(3, 3)}, budgets |-> {Budget(personal, "MEMBERSHIP", 1)},
   reservation |-> None, policies |-> {}, approval |-> None, reevaluation |-> None,
   unavailable |-> {}]

\* Every operation, read or refused whatever the spend.
Others ==
  {Plain(op, roles, sites) : op \in DOMAIN Rules, roles \in Assignments,
                             sites \in {{}, {Use(s1, "SHIPPING"), Use(s2, "BILLING")}}}

\* A commitment within, at and above its limits, with and without an approval.
Escalations ==
  {[Plain("commitOrder", {Role("BUYER", TRUE, {s1})}, {Use(s1, "SHIPPING")}) EXCEPT
      !.tx = Purchase(None), !.order = order, !.limits = limits, !.policies = policies,
      !.approval = approval, !.reevaluation = answer] :
    order \in {"free", "met", "unusable"},
    limits \in {{Limit(4, None)}, {Limit(2, None)}, {Limit(None, 3)},
                {Limit(3, None), [Limit(3, None) EXCEPT !.id = 2]}},
    policies \in {{}, {[id |-> 1, threshold |-> 3]}, {[id |-> 1, threshold |-> None]},
                  {[id |-> 1, threshold |-> 3], [id |-> 2, threshold |-> None]}},
    approval \in {None, Approval("APPROVED", p1, p2, 1, 3), Approval("APPROVED", p1, p1, 1, 3),
                  Approval("APPROVED", p2, p1, 1, 3), Approval("APPROVED", p1, p2, 1, 2),
                  Approval("PENDING", p1, None, 1, 3)},
    answer \in {"ALLOW", None}}

\* A commitment against its budgets, with the hold it may have itself.
Budgeted ==
  {[Plain("acceptQuotation", {Role("BUYER", TRUE, {})}, {}) EXCEPT
      !.tx = Purchase(None), !.budgets = budgets, !.reservation = reservation] :
    budgets \in {{Budget(personal, "MEMBERSHIP", r)} : r \in {None, 1, 3}}
                \cup {{Budget(personal, "MEMBERSHIP", 3), Budget(pooled, "ORGANISATION", r)} : r \in {2, 3}}
                \cup {{Budget(personal, "MEMBERSHIP", 3), Budget(pooled, "AGREEMENT", 4)},
                      {Budget(personal, "MEMBERSHIP", 1), Budget(pooled, "MEMBERSHIP", 1)},
                      {Budget(pooled, "ORGANISATION", 1)}},
    reservation \in {None, Reservation({Hold(personal, 1, 2, 3)}), Reservation({Hold(personal, 1, 2, 2)}),
                     Reservation({Hold(personal, 1, 2, 3), Hold(pooled, 1, 2, 2)}),
                     Reservation({Hold(personal, 1, 1, 3)}),
                     [Reservation({Hold(personal, 1, 2, 3)}) EXCEPT !.version = 0]}}

\* An approval someone else or the approver themselves asked for.
Decisions ==
  {[Plain("decideApproval", {Role("APPROVER", TRUE, {})}, {}) EXCEPT
      !.tx = Purchase(None), !.limits = limits, !.approval = approval] :
    limits \in {{Limit(2, 3)}, {Limit(3, 2)}, {Limit(3, None)}, {},
                {Limit(3, 3), [Limit(3, 3) EXCEPT !.id = 2]}},
    approval \in {Approval("PENDING", p2, None, 1, 3), Approval("APPROVED", p2, p1, 1, 3),
                  Approval("APPROVED", p2, p2, 1, 3), Approval("PENDING", p1, None, 1, 3),
                  Approval("PENDING", p2, None, 0, 3), Approval("REJECTED", p2, p1, 1, 3),
                  Approval("PENDING", None, None, 1, 3)}}

Facts0 == Others \cup Escalations \cup Budgeted \cup Decisions
================================================================================
