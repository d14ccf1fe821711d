----------------------- MODULE BuyerOnboardingProofs -----------------------
(***************************************************************************)
(* Proofs about BuyerOnboarding, for any number of applications, documents *)
(* and requests, and any number of failing calls, lost compensations and   *)
(* deaths.  A running request has exactly the rows of the calls it has     *)
(* made, and its update comes last: that is why a decided status has its   *)
(* records.                                                                *)
(***************************************************************************)
EXTENDS BuyerOnboarding, TLAPS

Legal(r) == r.to \in Outcomes[r.kind]
Made(r) == {Plan(r)[i] : i \in 1..r.n} \ {"write"}

\* What a request has done is in its rows, and a request that is over has no rows beyond its plan.
Progress(q) ==
    /\ Legal(request[q])
    /\ request[q].at \in {"new", "read"} => request[q].n = 0 /\ rows[q] = {}
    /\ At(q, "run") => request[q].n < Len(Plan(request[q])) /\ rows[q] = Made(request[q])
    /\ At(q, "undo") => request[q].n \in 1..(Len(Plan(request[q])) - 1)

Backing(a, q) ==
    /\ At(q, "done") /\ request[q].kind = "admission" /\ request[q].app = a
    /\ request[q].to = application[a].status /\ rows[q] = RowsOf(request[q])
Backed(a) == application[a].status \in Final => \E q \in Requests : Backing(a, q)

Inv == TypeOK /\ (\A q \in Requests : Progress(q)) /\ (\A a \in Applications : Backed(a))

\* A plan has two to eight calls, and a review's and an admission's updates the application last.
LEMMA PlanFacts ==
    ASSUME NEW r \in Request, Legal(r)
    PROVE  /\ Plan(r) \in Seq(RowKinds \cup {"write"}) /\ Len(Plan(r)) \in 2..8
           /\ r.kind # "evidence" => \A i \in 1..Len(Plan(r)) : Plan(r)[i] = "write" => i = Len(Plan(r))
           /\ r.kind = "evidence" => r.to \in {"VERIFIED", "REJECTED"}
<1>1. CASE r.kind = "review"
  <2>1. Plan(r) = <<"reviewAction", "write">>
    BY <1>1 DEF Plan
  <2> QED BY <1>1, <2>1 DEF RowKinds
<1>2. CASE r.kind = "evidence"
  <2>1. Plan(r) = <<"evidenceDecision", "write", "evidenceEvent">>
    BY <1>2 DEF Plan
  <2> QED BY <1>2, <2>1 DEF RowKinds, Legal, Outcomes
<1>3. CASE r.kind = "admission" /\ r.to = "REJECTED"
  <2>1. Plan(r) = <<"decision", "decisionEvent", "write">>
    BY <1>3 DEF Plan
  <2> QED BY <1>3, <2>1 DEF RowKinds
<1>4. CASE r.kind = "admission" /\ r.to = "APPROVED"
  <2>1. Plan(r) = <<"organisation", "membership", "role", "decision",
                    "decisionEvent", "registeredEvent", "membershipEvent", "write">>
    BY <1>4 DEF Plan
  <2> QED BY <1>4, <2>1 DEF RowKinds
<1> QED BY <1>1, <1>2, <1>3, <1>4 DEF Legal, Outcomes, Final, Request

\* The plan is settled by the kind of a request and its outcome.
LEMMA SamePlan ==
    ASSUME NEW r \in Request, NEW s \in Request, r.kind = s.kind, r.to = s.to
    PROVE  Plan(r) = Plan(s) /\ RowsOf(r) = RowsOf(s)
BY DEF Plan, RowsOf

\* A request that only changes stage or position keeps its plan.
To(r, m, s) == [r EXCEPT !.n = m, !.at = s]
LEMMA Moved ==
    ASSUME NEW r \in Request, Legal(r), NEW s \in {"new", "read", "run", "undo", "done"},
           NEW m \in 0..8
    PROVE  LET t == To(r, m, s) IN
           /\ t \in Request /\ t.at = s /\ t.n = m /\ t.kind = r.kind /\ t.to = r.to
           /\ t.app = r.app /\ Legal(t) /\ Plan(t) = Plan(r) /\ RowsOf(t) = RowsOf(r)
<1> DEFINE t == To(r, m, s)
<1>1. t \in Request /\ t.at = s /\ t.n = m /\ t.kind = r.kind /\ t.to = r.to /\ t.app = r.app
  BY DEF Request, To
<1>2. Plan(t) = Plan(r) /\ RowsOf(t) = RowsOf(r)
  BY <1>1, SamePlan
<1> QED BY <1>1, <1>2 DEF Legal

LEMMA MovedStage ==
    ASSUME NEW r \in Request, NEW s \in {"new", "read", "run", "undo", "done"}
    PROVE  [r EXCEPT !.at = s] = To(r, r.n, s) /\ r.n \in 0..8
BY DEF Request, To

LEMMA NoRequestFacts ==
    /\ NoRequest \in Request /\ Legal(NoRequest)
    /\ Dropped \in Request /\ Legal(Dropped) /\ Dropped.at = "done" /\ Dropped.n = 0
<1>1. (CHOOSE e \in Evidence : TRUE) \in Evidence /\ (CHOOSE a \in Applications : TRUE) \in Applications
  BY OnboardingAssumption
<1>2. {"INFORMATION_REQUIRED", "UNDER_REVIEW"} \in {Outcomes[k] : k \in DOMAIN Outcomes}
  BY DEF Outcomes
<1>3. "UNDER_REVIEW" \in UNION {Outcomes[k] : k \in DOMAIN Outcomes}
  BY <1>2
<1>4. "review" \in DOMAIN Outcomes /\ "UNDER_REVIEW" \in Outcomes["review"]
  BY DEF Outcomes
<1>5. NoRequest \in Request /\ Legal(NoRequest) /\ NoRequest.n = 0
  <2> DEFINE a == CHOOSE a \in Applications : TRUE
             e == CHOOSE e \in Evidence : TRUE
  <2>1. a \in Applications /\ e \in Evidence
    BY <1>1
  <2> HIDE DEF a, e
  <2> DEFINE r == [at |-> "new", n |-> 0, kind |-> "review", to |-> "UNDER_REVIEW",
                   app |-> a, doc |-> e, revision |-> 0]
  <2>2. r \in Request /\ Legal(r)
    BY <2>1, <1>3, <1>4 DEF Request, Legal
  <2>3. r = NoRequest
    BY DEF NoRequest, a, e
  <2>4. r.n = 0
    OBVIOUS
  <2> QED BY <2>2, <2>3, <2>4
<1>6. Dropped \in Request /\ Legal(Dropped) /\ Dropped.at = "done" /\ Dropped.n = 0
  BY <1>5 DEF Dropped, Request, Legal
<1> QED BY <1>5, <1>6

LEMMA InitInv == Init => Inv
<1> SUFFICES ASSUME Init PROVE Inv
  OBVIOUS
<1>1. TypeOK
  BY NoRequestFacts, OnboardingAssumption DEF Init, TypeOK, Transitions
<1>2. ASSUME NEW q \in Requests PROVE Progress(q)
  BY NoRequestFacts DEF Init, Progress, NoRequest, At
<1>3. ASSUME NEW a \in Applications PROVE Backed(a)
  BY DEF Init, Backed, Final
<1> QED BY <1>1, <1>2, <1>3 DEF Inv

\* What a request of an action needs to be well typed and legal.
LEMMA OutcomeFacts ==
    ASSUME NEW k \in DOMAIN Outcomes, NEW to \in Outcomes[k]
    PROVE  to \in UNION {Outcomes[j] : j \in DOMAIN Outcomes}
OBVIOUS

\* A step that leaves a request and its rows alone leaves what is known of it.
LEMMA ProgressFrame ==
    ASSUME NEW p \in Requests, Progress(p), request'[p] = request[p], rows'[p] = rows[p]
    PROVE  Progress(p)'
BY DEF Progress, At

\* Nothing touches a request that is done, so what backs a decided application stays.
LEMMA BackedFrame ==
    ASSUME NEW a \in Applications, Backed(a),
           application'[a].status \in Final => application'[a].status = application[a].status,
           \A q \in Requests : At(q, "done") => request'[q] = request[q] /\ rows'[q] = rows[q]
    PROVE  Backed(a)'
<1> SUFFICES ASSUME application'[a].status \in Final
             PROVE  \E q \in Requests : Backing(a, q)'
  BY DEF Backed
<1>1. PICK q \in Requests : Backing(a, q)
  BY DEF Backed
<1>2. Backing(a, q)'
  BY <1>1 DEF Backing, At
<1> QED BY <1>2

\* A request that begins reads a revision and has made no call.
LEMMA BeginStep ==
    ASSUME Inv, NEW q \in Requests, NEW kind \in DOMAIN Outcomes, NEW a \in Applications,
           NEW to \in Outcomes[kind], NEW e \in Evidence, Begin(q, kind, a, to, e)
    PROVE  Inv'
<1> DEFINE r == [at |-> "read", n |-> 0, kind |-> kind, to |-> to, app |-> a, doc |-> e,
                 revision |-> application[a].revision]
<1>1. r \in Request /\ Legal(r)
  BY OutcomeFacts DEF Inv, TypeOK, Request, Legal
<1>2. request' = [request EXCEPT ![q] = r] /\ rows[q] = {} /\ ~At(q, "done")
  BY DEF Begin, Inv, Progress, At
<1> HIDE DEF r
<1>3. TypeOK'
  BY <1>1, <1>2 DEF Inv, TypeOK, Begin, bounds
<1>4. ASSUME NEW p \in Requests PROVE Progress(p)'
  <2>1. CASE p = q
    BY <1>1, <1>2, <2>1 DEF Begin, Progress, At, r, Inv, TypeOK
  <2>2. CASE p # q
    BY <1>2, <2>2 DEF Begin, Progress, At, Inv, TypeOK
  <2> QED BY <2>1, <2>2
<1>5. ASSUME NEW b \in Applications PROVE Backed(b)'
  BY <1>2 DEF Begin, Backed, Backing, At, Inv, TypeOK
<1> QED BY <1>3, <1>4, <1>5 DEF Inv

\* The applicant and the clock leave the requests alone.
LEMMA OutsideStep ==
    ASSUME Inv,
           \/ \E a \in Applications : Apply(a)
           \/ \E e \in Evidence : CheckAccepting(e) \/ Attach(e) \/ Expire(e)
           \/ UNCHANGED vars
    PROVE  Inv'
<1>1. request' = request /\ rows' = rows
  BY DEF Apply, CheckAccepting, Attach, Expire, vars
<1>2. TypeOK'
  <2>1. ASSUME NEW a \in Applications, Apply(a) PROVE TypeOK'
    BY <2>1 DEF Inv, TypeOK, Apply, bounds, Transitions
  <2>2. ASSUME NEW e \in Evidence, CheckAccepting(e) \/ Attach(e) \/ Expire(e) PROVE TypeOK'
    BY <2>2 DEF Inv, TypeOK, CheckAccepting, Attach, Expire, bounds
  <2>3. CASE UNCHANGED vars
    BY <2>3 DEF Inv, TypeOK, vars, bounds
  <2> QED BY <2>1, <2>2, <2>3
<1>3. ASSUME NEW a \in Applications
      PROVE  application'[a].status \in Final => application'[a].status = application[a].status
  <2>1. ASSUME NEW b \in Applications, Apply(b)
        PROVE  application'[a].status = "SUBMITTED" \/ application'[a] = application[a]
    BY <2>1 DEF Apply, Inv, TypeOK
  <2>2. application' = application \/ \E b \in Applications : Apply(b)
    BY DEF CheckAccepting, Attach, Expire, vars
  <2> QED BY <2>1, <2>2 DEF Final
<1>4. \A q \in Requests : Progress(q)'
  BY <1>1, ProgressFrame DEF Inv
<1>5. \A a \in Applications : Backed(a)'
  BY <1>1, <1>3, BackedFrame DEF Inv
<1> QED BY <1>2, <1>4, <1>5 DEF Inv

\* After its second read a request runs or is dropped; a failing first call drops it too,
\* a later one sends it back over its calls.
LEMMA CheckStep == ASSUME Inv, NEW q \in Requests, Check(q) PROVE Inv'
<1>1. /\ At(q, "read") /\ request[q].n = 0 /\ rows[q] = {} /\ request[q] \in Request
      /\ Legal(request[q])
  BY DEF Check, Inv, TypeOK, Progress, At
<1>2. PICK r : /\ request' = [request EXCEPT ![q] = r]
               /\ r = [request[q] EXCEPT !.at = "run"] \/ r = Dropped
  BY DEF Check
<1>3. UNCHANGED <<application, evidence, expired, rows, withdrawn, faults, swallowed, deaths>>
  BY DEF Check, bounds
<1>4. r \in Request /\ Legal(r) /\ r.n = 0 /\ r.at \in {"run", "done"}
  <2>1. CASE r = Dropped
    BY <2>1, NoRequestFacts
  <2>2. CASE r = [request[q] EXCEPT !.at = "run"]
    <3>1. r = To(request[q], request[q].n, "run") /\ request[q].n \in 0..8
      BY <1>1, <2>2, MovedStage
    <3>2. r \in Request /\ r.at = "run" /\ r.n = request[q].n /\ Legal(r)
      BY <1>1, <3>1, Moved
    <3> QED BY <1>1, <3>2
  <2> QED BY <1>2, <2>1, <2>2
<1>5. TypeOK'
  BY <1>2, <1>3, <1>4 DEF Inv, TypeOK
<1>6. request'[q] = r /\ \A p \in Requests \ {q} : request'[p] = request[p]
  BY <1>2 DEF Inv, TypeOK
<1>7. ASSUME NEW p \in Requests PROVE Progress(p)'
  <2>1. CASE p # q
    BY <1>3, <1>6, <2>1, ProgressFrame DEF Inv
  <2>2. Made(r) = {} /\ Len(Plan(r)) > 0
    BY <1>4, PlanFacts DEF Made
  <2>3. CASE p = q
    BY <1>1, <1>3, <1>4, <1>6, <2>2, <2>3 DEF Progress, At
  <2> QED BY <2>1, <2>3
<1>8. ASSUME NEW a \in Applications PROVE Backed(a)'
  BY <1>1, <1>3, <1>6, BackedFrame DEF Inv, At
<1> QED BY <1>5, <1>7, <1>8 DEF Inv

\* A successful call moves the request on by one, and what it has made grows by that call.
LEMMA Advanced ==
    ASSUME Inv, NEW q \in Requests, At(q, "run"), Advance(q)
    PROVE  /\ request'[q] \in Request /\ Legal(request'[q]) /\ request'[q].n = request[q].n + 1
           /\ request'[q].kind = request[q].kind /\ request'[q].to = request[q].to
           /\ request'[q].app = request[q].app
           /\ \A p \in Requests \ {q} : request'[p] = request[p]
           /\ request' \in [Requests -> Request]
           /\ request'[q].at = IF request'[q].n = Len(Plan(request'[q])) THEN "done" ELSE "run"
           /\ request'[q].n <= Len(Plan(request'[q]))
           /\ Plan(request'[q]) = Plan(request[q]) /\ RowsOf(request'[q]) = RowsOf(request[q])
           /\ Step(q) \in RowKinds \cup {"write"}
           /\ Made(request'[q]) = Made(request[q]) \cup ({Step(q)} \ {"write"})
           /\ Step(q) = Plan(request'[q])[request'[q].n]
<1> DEFINE m == request[q].n + 1
           s == IF m = Len(Plan(request[q])) THEN "done" ELSE "run"
<1>1. /\ request[q] \in Request /\ Legal(request[q]) /\ request[q].n \in Nat
      /\ request[q].n < Len(Plan(request[q]))
  BY DEF Inv, TypeOK, Progress, At, Request
<1>2. Plan(request[q]) \in Seq(RowKinds \cup {"write"}) /\ Len(Plan(request[q])) \in 2..8
  BY <1>1, PlanFacts
<1>3. m \in 0..8 /\ m >= 1 /\ m <= Len(Plan(request[q])) /\ s \in {"new", "read", "run", "undo", "done"}
  <2> DEFINE l == Len(Plan(request[q]))
  <2>1. l \in 2..8 /\ request[q].n < l
    BY <1>1, <1>2
  <2> HIDE DEF l
  <2>2. m \in 0..8 /\ m >= 1 /\ m <= l
    BY <1>1, <2>1
  <2> QED BY <2>2 DEF l
<1>4. request' = [request EXCEPT ![q] = To(request[q], m, s)]
  BY DEF Advance, To
<1>5. request'[q] = To(request[q], m, s) /\ \A p \in Requests \ {q} : request'[p] = request[p]
  BY <1>4 DEF Inv, TypeOK
<1> HIDE DEF m, s
<1>6. /\ request'[q] \in Request /\ request'[q].at = s /\ request'[q].n = m
      /\ request'[q].kind = request[q].kind /\ request'[q].to = request[q].to
      /\ request'[q].app = request[q].app /\ Legal(request'[q])
      /\ Plan(request'[q]) = Plan(request[q]) /\ RowsOf(request'[q]) = RowsOf(request[q])
  <2> DEFINE r == request[q]
             t == To(r, m, s)
  <2>1. r \in Request /\ Legal(r) /\ m \in 0..8 /\ s \in {"new", "read", "run", "undo", "done"}
    BY <1>1, <1>3
  <2> HIDE DEF r
  <2>2. /\ t \in Request /\ t.at = s /\ t.n = m /\ t.kind = r.kind /\ t.to = r.to
        /\ t.app = r.app /\ Legal(t) /\ Plan(t) = Plan(r) /\ RowsOf(t) = RowsOf(r)
    <3> HIDE DEF m, s
    <3>1. /\ To(r, m, s) \in Request /\ To(r, m, s).at = s /\ To(r, m, s).n = m
          /\ To(r, m, s).kind = r.kind /\ To(r, m, s).to = r.to /\ To(r, m, s).app = r.app
      BY <2>1 DEF Request, To
    <3>2. Legal(To(r, m, s)) /\ Plan(To(r, m, s)) = Plan(r) /\ RowsOf(To(r, m, s)) = RowsOf(r)
      BY <2>1, Moved
    <3> QED BY <3>1, <3>2
  <2>3. request'[q] = t
    BY <1>5 DEF r
  <2> HIDE DEF t
  <2> QED BY <2>2, <2>3 DEF r
<1>7. Step(q) = Plan(request[q])[m] /\ Step(q) \in RowKinds \cup {"write"}
  BY <1>2, <1>3 DEF Step, m
<1>8. 1..m = (1..request[q].n) \cup {m}
  BY <1>1 DEF m
<1>9. Made(request'[q]) = Made(request[q]) \cup ({Step(q)} \ {"write"})
  BY <1>6, <1>7, <1>8 DEF Made
<1>10. request' \in [Requests -> Request]
  BY <1>4, <1>5, <1>6 DEF Inv, TypeOK
<1> QED BY <1>3, <1>5, <1>6, <1>7, <1>9, <1>10 DEF m, s

\* A request that has made all its calls has all its rows.
LEMMA AllMade ==
    ASSUME NEW r \in Request, Legal(r), r.n = Len(Plan(r))
    PROVE  Made(r) = RowsOf(r)
<1>1. DOMAIN Plan(r) = 1..Len(Plan(r))
  BY PlanFacts
<1> QED BY <1>1 DEF Made, RowsOf

LEMMA CreateRowStep == ASSUME Inv, NEW q \in Requests, CreateRow(q) PROVE Inv'
<1>1. /\ At(q, "run") /\ Step(q) # "write" /\ Advance(q)
      /\ UNCHANGED <<application, evidence, expired, withdrawn, faults, swallowed, deaths>>
      /\ rows' = [rows EXCEPT ![q] = rows[q] \cup {Step(q)}]
  BY DEF CreateRow, bounds
<1>2. rows'[q] = rows[q] \cup {Step(q)} /\ \A p \in Requests \ {q} : rows'[p] = rows[p]
  BY <1>1 DEF Inv, TypeOK
<1>3. Step(q) \in RowKinds
  BY <1>1, Advanced
<1>4. TypeOK'
  BY <1>1, <1>3, Advanced DEF Inv, TypeOK
<1>5. ASSUME NEW p \in Requests PROVE Progress(p)'
  <2>1. CASE p # q
    BY <1>1, <1>2, <2>1, Advanced, ProgressFrame DEF Inv
  <2>2. rows[q] = Made(request[q])
    BY <1>1 DEF Inv, Progress
  <2>3. rows'[q] = Made(request'[q])
    <3>1. Made(request'[q]) = Made(request[q]) \cup ({Step(q)} \ {"write"})
      BY <1>1, Advanced
    <3>2. {Step(q)} \ {"write"} = {Step(q)}
      BY <1>1
    <3> QED BY <1>2, <2>2, <3>1, <3>2
  <2>4. CASE p = q
    <3>1. Len(Plan(request'[q])) \in 2..8 /\ request'[q].n \in 0..8
      BY <1>1, Advanced, PlanFacts DEF Request
    <3>2. /\ Legal(request'[q]) /\ request'[q].at \in {"run", "done"}
          /\ request'[q].at = "run" => request'[q].n < Len(Plan(request'[q]))
      BY <1>1, <3>1, Advanced
    <3> QED BY <2>3, <2>4, <3>2 DEF Progress, At
  <2> QED BY <2>1, <2>4
<1>6. ASSUME NEW a \in Applications PROVE Backed(a)'
  BY <1>1, <1>2, Advanced, BackedFrame DEF Inv, At
<1> QED BY <1>4, <1>5, <1>6 DEF Inv

\* The update comes last in a review and in an admission: the status it writes is not final,
\* or every row of the decision is there.
LEMMA WriteStep == ASSUME Inv, NEW q \in Requests, Write(q) PROVE Inv'
<1> DEFINE r == request[q]
<1>1. /\ At(q, "run") /\ Step(q) = "write" /\ Advance(q)
      /\ UNCHANGED <<expired, rows, withdrawn, faults, swallowed, deaths>>
  BY DEF Write, bounds
<1>2. r \in Request /\ Legal(r) /\ r.app \in Applications /\ r.doc \in Evidence /\ r.revision \in Nat
  BY DEF Inv, TypeOK, Progress, Request
<1>3. \/ /\ r.kind = "evidence" /\ evidence' = [evidence EXCEPT ![r.doc] = r.to]
         /\ application' = application
      \/ /\ r.kind # "evidence" /\ evidence' = evidence
         /\ application' = [application EXCEPT ![r.app] = [status |-> r.to, revision |-> r.revision + 1]]
  BY DEF Write
<1> HIDE DEF r
<1>4. r.kind # "evidence" => r.to \in DOMAIN Transitions /\ r.kind \in {"review", "admission"}
  BY <1>2 DEF Legal, Outcomes, Final, Transitions, Request
<1>5. TypeOK'
  <2>1. evidence' \in [Evidence -> {"ABSENT", "checked", "PENDING", "VERIFIED", "REJECTED"}]
    BY <1>2, <1>3, PlanFacts DEF Inv, TypeOK
  <2>2. application' \in [Applications -> [status : DOMAIN Transitions, revision : Nat]]
    BY <1>2, <1>3, <1>4 DEF Inv, TypeOK
  <2> QED BY <1>1, <2>1, <2>2, Advanced DEF Inv, TypeOK
<1>6. rows'[q] = Made(request'[q])
  <2>1. Made(request'[q]) = Made(request[q]) \cup ({Step(q)} \ {"write"})
    BY <1>1, Advanced
  <2>2. rows[q] = Made(request[q])
    BY <1>1 DEF Inv, Progress
  <2> QED BY <1>1, <2>1, <2>2
<1>7. ASSUME NEW p \in Requests PROVE Progress(p)'
  <2>1. CASE p # q
    BY <1>1, <2>1, Advanced, ProgressFrame DEF Inv
  <2>2. CASE p = q
    <3>1. Len(Plan(request'[q])) \in 2..8 /\ request'[q].n \in 0..8
      BY <1>1, Advanced, PlanFacts DEF Request
    <3>2. /\ Legal(request'[q]) /\ request'[q].at \in {"run", "done"}
          /\ request'[q].at = "run" => request'[q].n < Len(Plan(request'[q]))
      BY <1>1, <3>1, Advanced
    <3> QED BY <1>6, <2>2, <3>2 DEF Progress, At
  <2> QED BY <2>1, <2>2
<1>8. \A p \in Requests : At(p, "done") => request'[p] = request[p] /\ rows'[p] = rows[p]
  BY <1>1, Advanced DEF At
<1>9. ASSUME NEW a \in Applications PROVE Backed(a)'
  <2>1. CASE r.kind = "evidence" \/ a # r.app
    <3>1. application'[a] = application[a]
      BY <1>2, <1>3, <2>1 DEF Inv, TypeOK
    <3> QED BY <1>8, <3>1, BackedFrame DEF Inv
  <2>2. CASE r.kind # "evidence" /\ a = r.app
    <3>1. application'[a].status = r.to
      BY <1>2, <1>3, <2>2 DEF Inv, TypeOK
    <3>2. CASE r.kind = "review"
      BY <1>2, <3>1, <3>2 DEF Legal, Outcomes, Final, Backed
    <3>3. CASE r.kind = "admission"
      <4>1. /\ request'[q] \in Request /\ Legal(request'[q]) /\ request'[q].kind = "admission"
            /\ request'[q].to = r.to /\ request'[q].app = a
            /\ Plan(request'[q])[request'[q].n] = "write"
            /\ request'[q].n = request[q].n + 1 /\ request'[q].n <= Len(Plan(request'[q]))
        BY <1>1, <2>2, <3>3, Advanced DEF r
      <4>2. request'[q].n \in 1..Len(Plan(request'[q]))
        <5> DEFINE l == Len(Plan(request'[q]))
        <5>1. l \in 2..8
          BY <4>1, PlanFacts
        <5>2. request[q].n \in 0..8
          BY DEF Inv, TypeOK, Request
        <5> HIDE DEF l
        <5>3. request'[q].n = request[q].n + 1 /\ request'[q].n <= l
          BY <4>1 DEF l
        <5>4. request'[q].n \in 1..l
          BY <5>1, <5>2, <5>3
        <5> QED BY <5>4 DEF l
      <4>3. request'[q].n = Len(Plan(request'[q]))
        BY <4>1, <4>2, PlanFacts
      <4>4. request'[q].at = "done"
        BY <1>1, <4>3, Advanced
      <4>5. rows'[q] = RowsOf(request'[q])
        BY <1>6, <4>1, <4>3, AllMade
      <4>6. Backing(a, q)'
        BY <3>1, <4>1, <4>4, <4>5 DEF Backing, At
      <4> QED BY <4>6 DEF Backed
    <3> QED BY <1>4, <2>2, <3>2, <3>3
  <2> QED BY <2>1, <2>2
<1> QED BY <1>5, <1>7, <1>9 DEF Inv

\* A step that takes a request to another stage, deleting rows at most, with enough known of
\* the outcome for the invariant.
LEMMA Elsewhere ==
    ASSUME Inv, NEW q \in Requests, ~At(q, "done"), NEW r \in Request, Legal(r),
           request' = [request EXCEPT ![q] = r],
           rows' \in [Requests -> SUBSET RowKinds],
           \A p \in Requests \ {q} : rows'[p] = rows[p],
           r.at = "undo" => r.n \in 1..(Len(Plan(r)) - 1),
           r.at \in {"undo", "done"},
           evidence' \in [Evidence -> {"ABSENT", "checked", "PENDING", "VERIFIED", "REJECTED"}],
           withdrawn' \subseteq Evidence,
           UNCHANGED <<application, expired>>,
           faults' \in 0..MaxFaults, swallowed' \in 0..MaxSwallowed, deaths' \in 0..MaxDeaths
    PROVE  Inv'
<1>1. request'[q] = r /\ \A p \in Requests \ {q} : request'[p] = request[p]
  BY DEF Inv, TypeOK
<1>2. TypeOK'
  BY DEF Inv, TypeOK
<1>3. ASSUME NEW p \in Requests PROVE Progress(p)'
  <2>1. CASE p # q
    BY <1>1, <2>1, ProgressFrame DEF Inv
  <2>2. CASE p = q
    BY <1>1, <2>2 DEF Progress, At
  <2> QED BY <2>1, <2>2
<1>4. ASSUME NEW a \in Applications PROVE Backed(a)'
  BY <1>1, BackedFrame DEF Inv, At
<1> QED BY <1>2, <1>3, <1>4 DEF Inv

LEMMA BackOutStep ==
    ASSUME Inv, NEW q \in Requests, Collide(q) \/ Fail(q)
    PROVE  Inv'
<1>1. /\ At(q, "run")
      /\ request' = [request EXCEPT ![q] = IF request[q].n = 0 THEN Dropped
                                           ELSE [request[q] EXCEPT !.at = "undo"]]
      /\ UNCHANGED <<application, evidence, expired, rows, withdrawn, swallowed, deaths>>
      /\ faults' \in 0..MaxFaults
  BY OnboardingAssumption DEF Collide, Fail, BackOut, bounds, Inv, TypeOK
<1>2. PICK r : /\ request' = [request EXCEPT ![q] = r]
               /\ r = IF request[q].n = 0 THEN Dropped ELSE [request[q] EXCEPT !.at = "undo"]
  BY <1>1
<1>3. /\ request[q] \in Request /\ Legal(request[q]) /\ request[q].n \in 0..8
      /\ request[q].n < Len(Plan(request[q])) /\ Len(Plan(request[q])) \in 2..8
  BY <1>1, PlanFacts DEF Inv, TypeOK, Progress, Request
<1>4. /\ r \in Request /\ Legal(r) /\ r.at \in {"undo", "done"}
      /\ r.at = "undo" => r.n \in 1..(Len(Plan(r)) - 1)
  <2>1. CASE request[q].n = 0
    BY <1>2, <2>1, NoRequestFacts
  <2>2. CASE request[q].n # 0
    <3>1. r = To(request[q], request[q].n, "undo")
      BY <1>2, <1>3, <2>2, MovedStage
    <3>2. /\ r \in Request /\ Legal(r) /\ r.at = "undo" /\ r.n = request[q].n
          /\ Plan(r) = Plan(request[q])
      BY <1>3, <3>1, Moved
    <3>3. request[q].n \in 1..(Len(Plan(request[q])) - 1)
      BY <1>3, <2>2
    <3> QED BY <3>2, <3>3
  <2> QED BY <2>1, <2>2
<1>5. ~At(q, "done")
  BY <1>1 DEF At
<1> QED BY <1>1, <1>2, <1>4, <1>5, Elsewhere DEF Inv, TypeOK

\* Going back over a call, its compensation made or lost, leaves a request undoing or done.
LEMMA UndoStep ==
    ASSUME Inv, NEW q \in Requests, Undo(q) \/ Swallow(q)
    PROVE  Inv'
<1> DEFINE m == request[q].n - 1
           s == IF request[q].n = 1 THEN "done" ELSE "undo"
<1>1. At(q, "undo") /\ UNCHANGED <<application, expired, faults, deaths>>
      /\ swallowed' \in 0..MaxSwallowed
  BY OnboardingAssumption DEF Undo, Swallow, bounds, Inv, TypeOK
<1>2. /\ request[q] \in Request /\ Legal(request[q]) /\ Len(Plan(request[q])) \in 2..8
      /\ request[q].n \in 1..(Len(Plan(request[q])) - 1) /\ request[q].doc \in Evidence
  BY <1>1, PlanFacts DEF Inv, TypeOK, Progress, Request
<1>3. request' = [request EXCEPT ![q] = To(request[q], m, s)]
  BY DEF Undo, Swallow, Retreat, To
<1>4. /\ m \in 0..8 /\ s \in {"new", "read", "run", "undo", "done"} /\ s \in {"undo", "done"}
      /\ s = "undo" => m \in 1..(Len(Plan(request[q])) - 1)
  <2> DEFINE l == Len(Plan(request[q]))
  <2>1. l \in 2..8 /\ request[q].n \in 1..(l - 1)
    BY <1>2
  <2> HIDE DEF l
  <2>2. m \in 0..8 /\ (request[q].n # 1 => m \in 1..(l - 1))
    BY <2>1
  <2> QED BY <2>2 DEF l
<1> HIDE DEF m, s
<1>5. PICK r : r = To(request[q], m, s)
  OBVIOUS
<1>6. /\ r \in Request /\ Legal(r) /\ r.at \in {"undo", "done"}
      /\ r.at = "undo" => r.n \in 1..(Len(Plan(r)) - 1)
  <2>1. r \in Request /\ Legal(r) /\ r.at = s /\ r.n = m /\ Plan(r) = Plan(request[q])
    BY <1>2, <1>4, <1>5, Moved
  <2> QED BY <1>4, <2>1
<1>7. /\ rows' \in [Requests -> SUBSET RowKinds] /\ \A p \in Requests \ {q} : rows'[p] = rows[p]
      /\ evidence' \in [Evidence -> {"ABSENT", "checked", "PENDING", "VERIFIED", "REJECTED"}]
      /\ withdrawn' \subseteq Evidence
  <2>1. CASE Undo(q)
    BY <1>2, <2>1 DEF Undo, Inv, TypeOK
  <2>2. CASE Swallow(q)
    BY <2>2 DEF Swallow, Inv, TypeOK
  <2> QED BY <2>1, <2>2
<1>8. ~At(q, "done") /\ request' = [request EXCEPT ![q] = r]
  BY <1>1, <1>3, <1>5 DEF At
<1> QED BY <1>1, <1>6, <1>7, <1>8, Elsewhere DEF Inv, TypeOK

LEMMA DieStep == ASSUME Inv, NEW q \in Requests, Die(q) PROVE Inv'
<1>1. /\ ~At(q, "done") /\ request' = [request EXCEPT ![q] = [request[q] EXCEPT !.at = "done"]]
      /\ UNCHANGED <<application, evidence, expired, rows, withdrawn, faults, swallowed>>
      /\ deaths' \in 0..MaxDeaths
  BY OnboardingAssumption DEF Die, At, Inv, TypeOK
<1>2. PICK r : r = To(request[q], request[q].n, "done")
  OBVIOUS
<1>3. request[q] \in Request /\ Legal(request[q])
  BY DEF Inv, TypeOK, Progress
<1>4. request' = [request EXCEPT ![q] = r] /\ request[q].n \in 0..8
  BY <1>1, <1>2, <1>3, MovedStage
<1>5. r \in Request /\ Legal(r) /\ r.at = "done"
  BY <1>2, <1>3, <1>4, Moved
<1> QED BY <1>1, <1>4, <1>5, Elsewhere DEF Inv, TypeOK

LEMMA StepInv == Inv /\ [Next]_vars => Inv'
<1> SUFFICES ASSUME Inv, [Next]_vars PROVE Inv'
  OBVIOUS
<1>1. ASSUME NEW q \in Requests, NEW a \in Applications,
             NEW to \in Outcomes.review \cup Outcomes.admission,
             ReadForReview(q, a, to) \/ ReadForAdmission(q, a, to)
      PROVE  Inv'
  <2>1. NoRequest.doc \in Evidence
    BY NoRequestFacts DEF Request
  <2>2. {"review", "admission"} \subseteq DOMAIN Outcomes
    BY DEF Outcomes
  <2>3. CASE ReadForReview(q, a, to)
    BY <2>1, <2>2, <2>3, BeginStep DEF ReadForReview
  <2>4. CASE ReadForAdmission(q, a, to)
    BY <2>1, <2>2, <2>4, BeginStep DEF ReadForAdmission
  <2> QED BY <1>1, <2>3, <2>4
<1>2. ASSUME NEW q \in Requests, NEW e \in Evidence, NEW to \in Outcomes.evidence,
             ReadForEvidence(q, e, to)
      PROVE  Inv'
  <2>1. ApplicationOf[e] \in Applications /\ "evidence" \in DOMAIN Outcomes
    BY OnboardingAssumption DEF Outcomes
  <2> QED BY <1>2, <2>1, BeginStep DEF ReadForEvidence
<1>3. ASSUME NEW q \in Requests, Check(q) PROVE Inv'
  BY <1>3, CheckStep
<1>4. ASSUME NEW q \in Requests, CreateRow(q) PROVE Inv'
  BY <1>4, CreateRowStep
<1>5. ASSUME NEW q \in Requests, Write(q) PROVE Inv'
  BY <1>5, WriteStep
<1>6. ASSUME NEW q \in Requests, Collide(q) \/ Fail(q) PROVE Inv'
  BY <1>6, BackOutStep
<1>7. ASSUME NEW q \in Requests, Undo(q) \/ Swallow(q) PROVE Inv'
  BY <1>7, UndoStep
<1>8. ASSUME NEW q \in Requests, Die(q) PROVE Inv'
  BY <1>8, DieStep
<1>9. ASSUME \/ \E a \in Applications : Apply(a)
             \/ \E e \in Evidence : CheckAccepting(e) \/ Attach(e) \/ Expire(e)
             \/ UNCHANGED vars
      PROVE  Inv'
  BY <1>9, OutsideStep
<1> QED BY <1>1, <1>2, <1>3, <1>4, <1>5, <1>6, <1>7, <1>8, <1>9 DEF Next

\* Every reachable state satisfies the invariant.
LEMMA AlwaysInv == Spec => []Inv
BY InitInv, StepInv, PTL DEF Spec

\* The stores and every staff request have their types in every reachable state.
THEOREM TypeCorrect == Spec => []TypeOK
<1>1. Inv => TypeOK
  BY DEF Inv
<1> QED BY <1>1, AlwaysInv, PTL

\* The admission route: a status of APPROVED or REJECTED always has the decision, its
\* event, and for an approval the organisation, membership, role and their events.
THEOREM DecidedIsBacked == Spec => []FinalIsBacked
<1>1. Inv => FinalIsBacked
  BY DEF Inv, Backed, Backing, FinalIsBacked
<1> QED BY <1>1, AlwaysInv, PTL

----------------------------------------------------------------------------
(***************************************************************************)
(* Revisions.  An application is SUBMITTED at revision 1 and UNDER_REVIEW  *)
(* at 2, and nothing follows what is written at 3.  The action row of the  *)
(* review that led from 1 to 2 keeps every other review of revision 1 out. *)
(***************************************************************************)
Active(q) == request[q].at \in {"read", "run", "undo"}
Reader(q) ==
    Active(q) /\ request[q].kind # "evidence" =>
        /\ request[q].revision <= application[request[q].app].revision
        /\ request[q].kind = "review" =>
              request[q].revision = 1 \/ (request[q].revision = 2 /\ request[q].to = "INFORMATION_REQUIRED")
        /\ request[q].kind = "admission" => request[q].revision = 2

\* What the unique indexes of the review actions and the decisions keep.
Sole ==
    \A p, q \in Requests : request[p].app = request[q].app =>
        /\ "reviewAction" \in rows[p] \cap rows[q] /\ request[p].revision = request[q].revision => p = q
        /\ "decision" \in rows[p] \cap rows[q] => p = q

Ladder(a) ==
    /\ application[a].revision \in 0..3
    /\ application[a].status = "ABSENT" => application[a].revision = 0
    /\ application[a].status = "SUBMITTED" => application[a].revision = 1
    /\ application[a].status = "UNDER_REVIEW" => application[a].revision = 2
    /\ application[a].status \in Final => application[a].revision = 3

Climber(a, p) ==
    /\ At(p, "done") /\ request[p].kind = "review" /\ request[p].app = a
    /\ request[p].revision = 1 /\ "reviewAction" \in rows[p]
Climbed(a) == application[a].revision >= 2 => \E p \in Requests : Climber(a, p)

Ordered == /\ Sole /\ \A q \in Requests : Reader(q)
           /\ \A a \in Applications : Ladder(a) /\ Climbed(a)

LEMMA InitOrdered == Init => Ordered
<1> SUFFICES ASSUME Init PROVE Ordered
  OBVIOUS
<1>1. \A q \in Requests : request[q].at = "new" /\ rows[q] = {}
  <2>1. NoRequest.at = "new"
    BY DEF NoRequest
  <2> QED BY <2>1 DEF Init
<1>2. \A a \in Applications : application[a].status = "ABSENT" /\ application[a].revision = 0
  BY DEF Init
<1> QED BY <1>1, <1>2 DEF Ordered, Sole, Reader, Active, Ladder, Climbed, Final

\* A request keeps what it is about.
Alike(p) ==
    /\ request'[p].kind = request[p].kind /\ request'[p].app = request[p].app
    /\ request'[p].to = request[p].to /\ request'[p].revision = request[p].revision

\* A request that goes on without a write, or back, and creates no row keeps the order.
LEMMA Shrink ==
    ASSUME Inv, Ordered,
           \A a \in Applications : application'[a] = application[a],
           \A p \in Requests : rows'[p] \subseteq rows[p],
           \A p \in Requests : At(p, "done") => request'[p] = request[p] /\ rows'[p] = rows[p],
           \A p \in Requests : \/ Alike(p) /\ (Active(p)' => Active(p))
                               \/ rows'[p] = {} /\ request'[p].at = "done"
    PROVE  Ordered'
<1>1. Sole'
  BY DEF Ordered, Sole, Alike
<1>2. ASSUME NEW q \in Requests PROVE Reader(q)'
  <2>1. CASE request'[q].at = "done"
    BY <2>1 DEF Reader, Active
  <2>2. CASE Alike(q) /\ (Active(q)' => Active(q))
    <3>1. request[q].app \in Applications
      BY DEF Inv, TypeOK, Request
    <3>2. application'[request'[q].app] = application[request[q].app]
      BY <2>2, <3>1 DEF Alike
    <3> QED BY <2>2, <3>2 DEF Ordered, Reader, Alike
  <2> QED BY <2>1, <2>2
<1>3. ASSUME NEW a \in Applications PROVE Ladder(a)' /\ Climbed(a)'
  <2>1. ASSUME NEW p \in Requests, Climber(a, p) PROVE Climber(a, p)'
    BY <2>1 DEF Climber, At
  <2> QED BY <2>1 DEF Ordered, Ladder, Climbed
<1> QED BY <1>1, <1>2, <1>3 DEF Ordered

LEMMA OrderedOnward ==
    ASSUME Inv, Ordered, NEW q \in Requests,
           Check(q) \/ Collide(q) \/ Fail(q) \/ Undo(q) \/ Swallow(q) \/ Die(q)
    PROVE  Ordered'
<1>1. /\ application' = application /\ Active(q) /\ ~At(q, "done")
      /\ \E r : request' = [request EXCEPT ![q] = r]
            /\ \/ r = Dropped /\ request[q].n = 0 /\ rows' = rows
               \/ \E m, s : r = [request[q] EXCEPT !.n = m, !.at = s]
               \/ \E s : r = [request[q] EXCEPT !.at = s]
  <2>1. CASE Check(q)
    BY <2>1 DEF Check, At, Active, Inv, Progress
  <2>2. CASE Collide(q) \/ Fail(q)
    <3>1. CASE request[q].n = 0
      BY <2>2, <3>1 DEF Collide, Fail, BackOut, At, Active
    <3>2. CASE request[q].n # 0
      BY <2>2, <3>2 DEF Collide, Fail, BackOut, At, Active
    <3> QED BY <3>1, <3>2
  <2>3. CASE Undo(q) \/ Swallow(q)
    <3> DEFINE m == request[q].n - 1
               s == IF request[q].n = 1 THEN "done" ELSE "undo"
    <3>1. /\ request' = [request EXCEPT ![q] = [request[q] EXCEPT !.n = m, !.at = s]]
          /\ application' = application /\ At(q, "undo")
      BY <2>3 DEF Undo, Swallow, Retreat
    <3> HIDE DEF m, s
    <3>2. PICK r : r = [request[q] EXCEPT !.n = m, !.at = s]
      OBVIOUS
    <3> QED BY <3>1, <3>2 DEF At, Active
  <2>4. CASE Die(q)
    BY <2>4 DEF Die, At, Active
  <2> QED BY <2>1, <2>2, <2>3, <2>4
<1>2. PICK r : /\ request' = [request EXCEPT ![q] = r]
               /\ \/ r = Dropped /\ request[q].n = 0 /\ rows' = rows
                  \/ \E m, s : r = [request[q] EXCEPT !.n = m, !.at = s]
                  \/ \E s : r = [request[q] EXCEPT !.at = s]
  BY <1>1
<1>3. request'[q] = r /\ \A p \in Requests \ {q} : request'[p] = request[p]
  BY <1>2 DEF Inv, TypeOK
<1>4. request[q] \in Request
  BY DEF Inv, TypeOK
<1>5. rows'[q] \subseteq rows[q] /\ \A p \in Requests \ {q} : rows'[p] = rows[p]
  BY DEF Check, Collide, Fail, BackOut, Undo, Swallow, Die, Inv, TypeOK
<1>6. Alike(q) \/ (rows'[q] = {} /\ request'[q].at = "done")
  <2>1. CASE r = Dropped /\ request[q].n = 0 /\ rows' = rows
    <3>1. At(q, "read") \/ At(q, "run")
      <4>1. Len(Plan(request[q])) \in 2..8
        BY <1>4, PlanFacts DEF Inv, Progress
      <4>2. At(q, "undo") => FALSE
        <5>1. At(q, "undo") => request[q].n \in 1..(Len(Plan(request[q])) - 1)
          BY DEF Inv, Progress
        <5> QED BY <2>1, <4>1, <5>1
      <4> QED BY <1>1, <4>2 DEF At, Active
    <3>2. rows[q] = {}
      BY <2>1, <3>1 DEF Inv, Progress, At, Made
    <3> QED BY <1>3, <2>1, <3>2, NoRequestFacts
  <2>2. CASE \E m, s : r = [request[q] EXCEPT !.n = m, !.at = s]
    BY <1>3, <1>4, <2>2 DEF Alike, Request
  <2>3. CASE \E s : r = [request[q] EXCEPT !.at = s]
    BY <1>3, <1>4, <2>3 DEF Alike, Request
  <2> QED BY <1>2, <2>1, <2>2, <2>3
<1>7. \A p \in Requests \ {q} : Alike(p) /\ (Active(p)' => Active(p))
  BY <1>3 DEF Alike, Active
<1>8. \A p \in Requests : At(p, "done") => request'[p] = request[p] /\ rows'[p] = rows[p]
  BY <1>1, <1>3, <1>5
<1>9. \A p \in Requests : rows'[p] \subseteq rows[p]
  BY <1>5
<1>10. \A p \in Requests : \/ Alike(p) /\ (Active(p)' => Active(p))
                           \/ rows'[p] = {} /\ request'[p].at = "done"
  BY <1>1, <1>6, <1>7
<1> QED BY <1>1, <1>8, <1>9, <1>10, Shrink

LEMMA OrderedOutside ==
    ASSUME Inv, Ordered,
           \/ \E a \in Applications : Apply(a)
           \/ \E e \in Evidence : CheckAccepting(e) \/ Attach(e) \/ Expire(e)
           \/ UNCHANGED vars
    PROVE  Ordered' /\ \A a \in Applications : /\ application'[a].revision >= application[a].revision
                                               /\ ~Reopened(a)
<1>1. request' = request /\ rows' = rows
  BY DEF Apply, CheckAccepting, Attach, Expire, vars
<1>2. CASE application' = application
  <2>1. Ordered'
    BY <1>1, <1>2, Shrink DEF Alike, Active
  <2>2. \A a \in Applications : application[a].revision \in Nat
    BY DEF Inv, TypeOK
  <2> QED BY <1>2, <2>1, <2>2 DEF Reopened
<1>3. ASSUME NEW b \in Applications, Apply(b)
      PROVE  Ordered' /\ \A a \in Applications : /\ application'[a].revision >= application[a].revision
                                                 /\ ~Reopened(a)
  <2>1. /\ application[b].status = "ABSENT" /\ application[b].revision = 0
        /\ application'[b] = [status |-> "SUBMITTED", revision |-> 1]
        /\ \A a \in Applications \ {b} : application'[a] = application[a]
    BY <1>3 DEF Apply, Inv, TypeOK, Ordered, Ladder
  <2>2. \A a \in Applications : /\ application[a].revision \in Nat
                                /\ application'[a].revision >= application[a].revision
    BY <2>1 DEF Inv, TypeOK
  <2>3. Sole'
    BY <1>1 DEF Ordered, Sole
  <2>4. ASSUME NEW q \in Requests PROVE Reader(q)'
    <3>1. request[q].app \in Applications /\ request[q].revision \in Nat
      BY DEF Inv, TypeOK, Request
    <3>2. CASE request[q].app = b /\ Active(q) /\ request[q].kind # "evidence"
      BY <1>1, <2>1, <3>1, <3>2 DEF Ordered, Reader
    <3>3. CASE request[q].app # b
      BY <1>1, <2>1, <3>1, <3>3 DEF Ordered, Reader, Active
    <3> QED BY <1>1, <3>2, <3>3 DEF Reader, Active
  <2>5. ASSUME NEW a \in Applications PROVE Ladder(a)' /\ Climbed(a)'
    <3>1. CASE a = b
      BY <2>1, <3>1 DEF Ladder, Climbed, Final
    <3>2. CASE a # b
      BY <1>1, <2>1, <3>2 DEF Ordered, Ladder, Climbed, Climber, At
    <3> QED BY <3>1, <3>2
  <2>6. \A a \in Applications : ~Reopened(a)
    BY <2>1 DEF Reopened, Final
  <2> QED BY <2>2, <2>3, <2>4, <2>5, <2>6 DEF Ordered
<1>4. application' = application \/ \E b \in Applications : Apply(b)
  BY DEF CheckAccepting, Attach, Expire, vars
<1> QED BY <1>2, <1>3, <1>4

LEMMA OrderedBegin ==
    ASSUME Inv, Ordered, NEW q \in Requests,
           \/ \E a \in Applications, to \in Outcomes.review \cup Outcomes.admission :
                 ReadForReview(q, a, to) \/ ReadForAdmission(q, a, to)
           \/ \E e \in Evidence, to \in Outcomes.evidence : ReadForEvidence(q, e, to)
    PROVE  Ordered'
<1>1. PICK kind, a, to, e :
        /\ Begin(q, kind, a, to, e) /\ a \in Applications
        /\ kind = "review" => to \in Outcomes.review \cap Transitions[application[a].status]
        /\ kind = "admission" => application[a].status = "UNDER_REVIEW"
  BY OnboardingAssumption DEF ReadForReview, ReadForAdmission, ReadForEvidence
<1>2. /\ request'[q] = [at |-> "read", n |-> 0, kind |-> kind, to |-> to, app |-> a, doc |-> e,
                        revision |-> application[a].revision]
      /\ \A p \in Requests \ {q} : request'[p] = request[p]
      /\ application' = application /\ rows' = rows /\ At(q, "new") /\ rows[q] = {}
  BY <1>1 DEF Begin, Inv, TypeOK, Progress, At
<1>3. Sole'
  BY <1>2 DEF Ordered, Sole
<1>4. kind = "review" =>
        \/ application[a].status = "SUBMITTED"
        \/ application[a].status = "UNDER_REVIEW" /\ to = "INFORMATION_REQUIRED"
  BY <1>1 DEF Outcomes, Transitions, Inv, TypeOK
<1>5. ASSUME NEW p \in Requests PROVE Reader(p)'
  <2>1. CASE p # q
    BY <1>2, <2>1 DEF Ordered, Reader, Active
  <2>2. CASE p = q
    <3>1. Ladder(a) /\ application[a].revision \in Nat
      BY <1>1 DEF Ordered, Inv, TypeOK
    <3>2. /\ request'[q].kind = kind /\ request'[q].to = to /\ request'[q].app = a
          /\ request'[q].revision = application[a].revision /\ application'[a] = application[a]
      BY <1>2
    <3> QED BY <1>1, <1>4, <2>2, <3>1, <3>2 DEF Reader, Ladder
  <2> QED BY <2>1, <2>2
<1>6. ASSUME NEW b \in Applications PROVE Ladder(b)' /\ Climbed(b)'
  BY <1>2 DEF Ordered, Ladder, Climbed, Climber, At
<1> QED BY <1>3, <1>5, <1>6 DEF Ordered

\* The unique index: a row is created only where no other request holds one like it.
LEMMA OrderedCreateRow == ASSUME Inv, Ordered, NEW q \in Requests, CreateRow(q) PROVE Ordered'
<1>1. /\ At(q, "run") /\ Step(q) # "write" /\ Advance(q) /\ ~Collides(q)
      /\ application' = application /\ rows' = [rows EXCEPT ![q] = rows[q] \cup {Step(q)}]
  BY DEF CreateRow
<1>2. /\ rows'[q] = rows[q] \cup {Step(q)} /\ \A p \in Requests \ {q} : rows'[p] = rows[p]
  BY <1>1 DEF Inv, TypeOK
<1>3. /\ \A p \in Requests \ {q} : request'[p] = request[p] /\ Alike(p)
      /\ Alike(q) /\ Active(q) /\ ~At(q, "done")
  <2>1. request'[q].revision = request[q].revision
    BY <1>1 DEF Advance, Inv, TypeOK, Request
  <2> QED BY <1>1, <2>1, Advanced DEF Alike, Active, At
<1>4. Step(q) = "reviewAction" =>
        \A p \in Requests \ {q} : "reviewAction" \in rows[p] =>
            ~(request[p].app = request[q].app /\ request[p].revision = request[q].revision)
  BY <1>1 DEF Collides, Holding
<1>5. Step(q) = "decision" =>
        \A p \in Requests \ {q} : "decision" \in rows[p] => request[p].app # request[q].app
  BY <1>1 DEF Collides, Holding
<1>6. Sole'
  BY <1>2, <1>3, <1>4, <1>5 DEF Ordered, Sole, Alike
<1>7. ASSUME NEW p \in Requests PROVE Reader(p)'
  BY <1>1, <1>3 DEF Ordered, Reader, Alike, Active
<1>8. ASSUME NEW a \in Applications PROVE Ladder(a)' /\ Climbed(a)'
  <2>1. ASSUME NEW p \in Requests, Climber(a, p) PROVE Climber(a, p)'
    BY <1>2, <1>3, <2>1 DEF Climber, At
  <2> QED BY <1>1, <2>1 DEF Ordered, Ladder, Climbed
<1> QED BY <1>6, <1>7, <1>8 DEF Ordered

\* A request about to update an application holds its action row, or its decision.
LEMMA HoldsAtWrite ==
    ASSUME Inv, NEW q \in Requests, At(q, "run"), Step(q) = "write"
    PROVE  /\ request[q].kind = "review" => "reviewAction" \in rows[q]
           /\ request[q].kind = "admission" => "decision" \in rows[q]
<1> DEFINE r == request[q]
<1>1. /\ r \in Request /\ Legal(r) /\ r.n \in 0..8 /\ r.n < Len(Plan(r))
      /\ Plan(r)[r.n + 1] = "write" /\ rows[q] = {Plan(r)[i] : i \in 1..r.n} \ {"write"}
  BY DEF Inv, TypeOK, Progress, Made, Step, Request
<1> HIDE DEF r
<1>2. CASE r.kind = "review"
  <2>1. Plan(r) = <<"reviewAction", "write">>
    BY <1>2 DEF Plan
  <2>2. r.n = 1 /\ Plan(r)[1] = "reviewAction"
    BY <1>1, <2>1
  <2> QED BY <1>1, <1>2, <2>2 DEF r
<1>3. CASE r.kind = "admission" /\ r.to = "REJECTED"
  <2>1. Plan(r) = <<"decision", "decisionEvent", "write">>
    BY <1>3 DEF Plan
  <2>2. r.n = 2 /\ Plan(r)[1] = "decision"
    BY <1>1, <2>1
  <2> QED BY <1>1, <1>3, <2>2 DEF r
<1>4. CASE r.kind = "admission" /\ r.to = "APPROVED"
  <2>1. Plan(r) = <<"organisation", "membership", "role", "decision",
                    "decisionEvent", "registeredEvent", "membershipEvent", "write">>
    BY <1>4 DEF Plan
  <2>2. r.n = 7 /\ Plan(r)[4] = "decision"
    BY <1>1, <2>1
  <2> QED BY <1>1, <1>4, <2>2 DEF r
<1> QED BY <1>1, <1>2, <1>3, <1>4 DEF Legal, Outcomes, Final, r

\* An update finds its application at most where it will leave it, and a decided one only
\* when it is a review of the revision that was decided.
LEMMA WriteFinds ==
    ASSUME Inv, Ordered, NEW q \in Requests, At(q, "run"), Step(q) = "write",
           request[q].kind # "evidence"
    PROVE  LET a == request[q].app IN
           /\ application[a].revision <= request[q].revision + 1
           /\ application[a].status \in Final =>
                 request[q].kind = "review" /\ application[a].revision = request[q].revision + 1
<1> DEFINE a == request[q].app
<1>1. /\ a \in Applications /\ request[q].kind \in {"review", "admission"}
      /\ request[q].revision \in Nat /\ application[a].revision \in 0..3
  BY DEF Inv, TypeOK, Request, Outcomes, Ordered, Ladder
<1>2. /\ Reader(q) /\ Active(q) /\ ~At(q, "done")
  BY DEF Ordered, Active, At
<1>3. CASE request[q].revision = 2
  <2>1. application[a].revision <= request[q].revision + 1
    BY <1>1, <1>3
  <2>2. ASSUME application[a].status \in Final PROVE request[q].kind = "review" /\ application[a].revision = 3
    <3>1. PICK p \in Requests : Backing(a, p)
      BY <1>1, <2>2 DEF Inv, Backed
    <3>2. "decision" \in rows[p] /\ request[p].app = a /\ p # q
      <4>1. request[p].kind = "admission" /\ rows[p] = RowsOf(request[p]) /\ request[p].to \in Final
        BY <2>2, <3>1 DEF Backing
      <4>2. CASE request[p].to = "REJECTED"
        <5>1. Plan(request[p]) = <<"decision", "decisionEvent", "write">>
          BY <4>1, <4>2 DEF Plan
        <5> QED BY <1>2, <3>1, <4>1, <5>1 DEF RowsOf, Backing, At
      <4>3. CASE request[p].to = "APPROVED"
        <5>1. Plan(request[p]) = <<"organisation", "membership", "role", "decision",
                    "decisionEvent", "registeredEvent", "membershipEvent", "write">>
          BY <4>1, <4>3 DEF Plan
        <5>2. Plan(request[p])[4] = "decision" /\ 4 \in DOMAIN Plan(request[p])
          BY <5>1
        <5> QED BY <1>2, <3>1, <4>1, <5>2 DEF RowsOf, Backing, At
      <4> QED BY <4>1, <4>2, <4>3 DEF Final
    <3>3. request[q].kind # "admission"
      BY <3>2, HoldsAtWrite DEF Ordered, Sole
    <3> QED BY <1>1, <2>2, <3>3 DEF Ordered, Ladder
  <2> QED BY <1>3, <2>1, <2>2
<1>4. CASE request[q].revision # 2
  <2>1. request[q].kind = "review" /\ request[q].revision = 1
    BY <1>1, <1>2, <1>4 DEF Reader
  <2>2. application[a].revision < 2
    <3> SUFFICES ASSUME application[a].revision >= 2 PROVE FALSE
      BY <1>1
    <3>1. PICK p \in Requests : Climber(a, p)
      BY <1>1 DEF Ordered, Climbed
    <3>2. p # q /\ "reviewAction" \in rows[p] \cap rows[q] /\ request[p].app = request[q].app
          /\ request[p].revision = request[q].revision
      BY <1>2, <2>1, <3>1, HoldsAtWrite DEF Climber, At
    <3> QED BY <3>2 DEF Ordered, Sole
  <2> QED BY <1>1, <2>1, <2>2 DEF Ordered, Ladder
<1> QED BY <1>3, <1>4

LEMMA OrderedWrite ==
    ASSUME Inv, Ordered, NEW q \in Requests, Write(q)
    PROVE  /\ Ordered'
           /\ \A a \in Applications :
                 /\ application'[a].revision >= application[a].revision
                 /\ Reopened(a) => ReadAlongside(q, a) /\ request'[q] # request[q]
<1> DEFINE r == request[q]
<1>1. /\ At(q, "run") /\ Step(q) = "write" /\ Advance(q) /\ rows' = rows
  BY DEF Write
<1>2. /\ r \in Request /\ Legal(r) /\ r.app \in Applications /\ r.revision \in Nat /\ r.n \in Nat
  BY DEF Inv, TypeOK, Progress, Request
<1>3. /\ \A p \in Requests \ {q} : request'[p] = request[p] /\ Alike(p)
      /\ Alike(q) /\ Active(q) /\ ~At(q, "done") /\ request'[q] # request[q]
  <2>1. request'[q].revision = request[q].revision
    BY <1>1 DEF Advance, Inv, TypeOK, Request
  <2>2. request'[q].n # request[q].n
    BY <1>1, <1>2, Advanced
  <2> QED BY <1>1, <2>1, <2>2, Advanced DEF Alike, Active, At
<1>4. \A a \in Applications : application[a].revision \in Nat
  BY DEF Inv, TypeOK
<1>5. CASE r.kind = "evidence"
  <2>1. application' = application
    BY <1>5 DEF Write
  <2>2. Ordered'
    BY <1>1, <1>3, <2>1, Shrink DEF Active
  <2> QED BY <1>4, <2>1, <2>2 DEF Reopened
<1>6. CASE r.kind # "evidence"
  <2>1. application' = [application EXCEPT ![r.app] = [status |-> r.to, revision |-> r.revision + 1]]
    BY <1>6 DEF Write
  <2>2. /\ application'[r.app] = [status |-> r.to, revision |-> r.revision + 1]
        /\ \A a \in Applications \ {r.app} : application'[a] = application[a]
    BY <1>2, <2>1 DEF Inv, TypeOK
  <2>3. /\ application[r.app].revision <= r.revision + 1
        /\ application[r.app].status \in Final =>
              r.kind = "review" /\ application[r.app].revision = r.revision + 1
    BY <1>1, <1>6, WriteFinds
  <2>4. /\ r.revision <= application[r.app].revision
        /\ r.kind = "review" => r.revision = 1 \/ (r.revision = 2 /\ r.to = "INFORMATION_REQUIRED")
        /\ r.kind = "admission" => r.revision = 2
    BY <1>3, <1>6 DEF Ordered, Reader
  <2>5. r.kind \in {"review", "admission"} /\ r.to \in Outcomes[r.kind]
    BY <1>2, <1>6 DEF Request, Outcomes, Legal
  <2> HIDE DEF r
  <2>6. \A a \in Applications : application'[a].revision >= application[a].revision
    BY <1>2, <1>4, <2>2, <2>3
  <2>7. Sole'
    BY <1>1, <1>3 DEF Ordered, Sole, Alike
  <2>8. ASSUME NEW p \in Requests PROVE Reader(p)'
    <3>1. request[p].app \in Applications /\ request[p].revision \in Nat /\ request'[p].app = request[p].app
      BY <1>3 DEF Inv, TypeOK, Request, Alike
    <3>2. application'[request[p].app].revision >= application[request[p].app].revision
          /\ application'[request[p].app].revision \in Nat
      BY <1>2, <1>4, <2>2, <2>6, <3>1
    <3>3. Reader(p) /\ Alike(p) /\ (Active(p)' => Active(p))
      BY <1>3 DEF Ordered, Active
    <3> QED BY <1>4, <3>1, <3>2, <3>3 DEF Reader, Alike
  <2>9. ASSUME NEW a \in Applications PROVE Ladder(a)' /\ Climbed(a)'
    <3>1. CASE a # r.app
      BY <1>1, <1>3, <2>2, <3>1 DEF Ordered, Ladder, Climbed, Climber, At
    <3>2. CASE a = r.app
      <4>1. Ladder(a)'
        BY <2>2, <2>4, <2>5, <3>2 DEF Ladder, Outcomes, Final
      <4>2. CASE r.revision = 1
        <5>1. r.kind = "review"
          BY <2>4, <2>5, <4>2
        <5>2. "reviewAction" \in rows'[q]
          BY <1>1, <5>1, HoldsAtWrite DEF r
        <5>3. /\ request'[q] \in Request /\ Legal(request'[q]) /\ request'[q].kind = "review"
              /\ Plan(request'[q])[request'[q].n] = "write" /\ request'[q].n = r.n + 1
              /\ request'[q].n <= Len(Plan(request'[q]))
          BY <1>1, <5>1, Advanced DEF r
        <5>4. request'[q].n \in 1..Len(Plan(request'[q]))
          <6> DEFINE l == Len(Plan(request'[q]))
          <6>1. l \in 2..8
            BY <5>3, PlanFacts
          <6>2. request'[q].n = r.n + 1 /\ request'[q].n <= l
            BY <5>3
          <6> HIDE DEF l
          <6>3. request'[q].n \in 1..l
            BY <1>2, <6>1, <6>2
          <6> QED BY <6>3 DEF l
        <5>5. request'[q].at = "done"
          <6>1. request'[q].n = Len(Plan(request'[q]))
            BY <5>3, <5>4, PlanFacts
          <6> QED BY <1>1, <6>1, Advanced
        <5>6. Climber(a, q)'
          BY <1>3, <3>2, <4>2, <5>2, <5>3, <5>5 DEF Climber, At, Alike, r
        <5> QED BY <4>1, <5>6 DEF Climbed
      <4>3. CASE r.revision = 2
        <5>1. application[a].revision >= 2
          BY <1>4, <2>4, <3>2, <4>3
        <5>2. PICK p \in Requests : Climber(a, p)
          BY <5>1 DEF Ordered, Climbed
        <5>3. Climber(a, p)'
          BY <1>1, <1>3, <5>2 DEF Climber, At
        <5> QED BY <4>1, <5>3 DEF Climbed
      <4> QED BY <2>4, <2>5, <4>1, <4>2, <4>3
    <3> QED BY <3>1, <3>2
  <2>10. ASSUME NEW a \in Applications, Reopened(a) PROVE ReadAlongside(q, a)
    BY <1>2, <2>2, <2>3, <2>10 DEF Reopened, ReadAlongside, r
  <2> QED BY <1>3, <2>6, <2>7, <2>8, <2>9, <2>10 DEF Ordered
<1> QED BY <1>5, <1>6

\* What every step does to the order, the revisions and the decided applications.
LEMMA OrderedStep ==
    ASSUME Inv, Ordered, [Next]_vars
    PROVE  /\ Ordered'
           /\ \A a \in Applications :
                 /\ application'[a].revision >= application[a].revision
                 /\ Reopened(a) => \E q \in Requests : ReadAlongside(q, a) /\ request'[q] # request[q]
<1>1. \A a \in Applications : application[a].revision \in Nat
  BY DEF Inv, TypeOK
<1>2. ASSUME application' = application, Ordered'
      PROVE  \A a \in Applications : application'[a].revision >= application[a].revision /\ ~Reopened(a)
  BY <1>1, <1>2 DEF Reopened
<1>3. ASSUME NEW q \in Requests, Write(q)
      PROVE  /\ Ordered'
             /\ \A a \in Applications :
                   /\ application'[a].revision >= application[a].revision
                   /\ Reopened(a) => \E p \in Requests : ReadAlongside(p, a) /\ request'[p] # request[p]
  BY <1>3, OrderedWrite
<1>4. ASSUME NEW q \in Requests, CreateRow(q) PROVE Ordered' /\ application' = application
  BY <1>4, OrderedCreateRow DEF CreateRow
<1>5. ASSUME NEW q \in Requests,
             Check(q) \/ Collide(q) \/ Fail(q) \/ Undo(q) \/ Swallow(q) \/ Die(q)
      PROVE  Ordered' /\ application' = application
  BY <1>5, OrderedOnward DEF Check, Collide, Fail, BackOut, Undo, Swallow, Die
<1>6. ASSUME NEW q \in Requests,
             \/ \E a \in Applications, to \in Outcomes.review \cup Outcomes.admission :
                   ReadForReview(q, a, to) \/ ReadForAdmission(q, a, to)
             \/ \E e \in Evidence, to \in Outcomes.evidence : ReadForEvidence(q, e, to)
      PROVE  Ordered' /\ application' = application
  BY <1>6, OrderedBegin DEF ReadForReview, ReadForAdmission, ReadForEvidence, Begin
<1>7. CASE \/ \E a \in Applications : Apply(a)
           \/ \E e \in Evidence : CheckAccepting(e) \/ Attach(e) \/ Expire(e)
           \/ UNCHANGED vars
  BY <1>7, OrderedOutside
<1> QED BY <1>2, <1>3, <1>4, <1>5, <1>6, <1>7 DEF Next

\* Every reachable state satisfies both parts.
LEMMA AlwaysOrdered == Spec => [](Inv /\ Ordered)
<1>1. Init => Inv /\ Ordered
  BY InitInv, InitOrdered
<1>2. Inv /\ Ordered /\ [Next]_vars => (Inv /\ Ordered)'
  BY StepInv, OrderedStep
<1> QED BY <1>1, <1>2, PTL DEF Spec

\* The review and decision routes write the revision they read plus one without looking
\* again, and still no revision is ever taken back.
THEOREM RevisionsRise == Spec => RevisionNeverFalls
<1>1. Inv /\ Ordered /\ [Next]_vars =>
        [\A a \in Applications : application'[a].revision >= application[a].revision]_vars
  BY OrderedStep
<1> QED BY <1>1, AlwaysOrdered, PTL DEF Spec, RevisionNeverFalls

\* The only way out of APPROVED or REJECTED is a review of the revision that was decided,
\* read before the decision route wrote.
THEOREM ReopenedByStaleReview == Spec => OnlyAStaleReviewReopens
<1>1. Inv /\ Ordered /\ [Next]_vars =>
        [\A a \in Applications : Reopened(a) =>
            \E q \in Requests : ReadAlongside(q, a) /\ request'[q] # request[q]]_vars
  BY OrderedStep
<1> QED BY <1>1, AlwaysOrdered, PTL DEF Spec, OnlyAStaleReviewReopens

----------------------------------------------------------------------------
(***************************************************************************)
(* Rows and verdicts.  While no compensation is lost, a document reads its *)
(* verdict exactly when a request that has written it still holds the row  *)
(* of that decision; the unique index gives the row to one request, so no  *)
(* other writes over a verdict a package was checked on.                   *)
(***************************************************************************)
Same(q) == /\ request'[q].kind = request[q].kind /\ request'[q].to = request[q].to
           /\ request'[q].app = request[q].app /\ request'[q].doc = request[q].doc

\* q has written verdict v on document e, and holds the row of that decision.
Decides(q, e, v) ==
    /\ request[q].doc = e /\ request[q].to = v
    /\ "evidenceDecision" \in rows[q] /\ request[q].n >= 2

NeedsPackage == {"UNDER_REVIEW", "APPROVED"}
Good(e) == evidence[e] = "VERIFIED" \/ e \in withdrawn
Vetted(a) ==
    \A type \in Required : \E e \in Evidence :
        ApplicationOf[e] = a /\ TypeOf[e] = type /\ Good(e)

Holders ==
    /\ \A q \in Requests : "evidenceDecision" \in rows[q] => request[q].kind = "evidence"
    /\ \A p, q \in Requests :
          "evidenceDecision" \in rows[p] \cap rows[q] /\ request[p].doc = request[q].doc => p = q
Verdicts ==
    \A e \in Evidence, v \in {"VERIFIED", "REJECTED"} :
        evidence[e] = v <=> \E q \in Requests : Decides(q, e, v)
Vetting(q) == At(q, "run") /\ request[q].to \in NeedsPackage => Vetted(request[q].app)
Unmaking(q) == At(q, "undo") => rows[q] = Made(request[q])
Over(q) ==
    At(q, "done") =>
        rows[q] = {} \/ (request[q].n = Len(Plan(request[q])) /\ rows[q] = RowsOf(request[q]))

\* The calls of a decision on evidence, which no other request makes.
LEMMA EvidenceCalls ==
    ASSUME NEW r \in Request, Legal(r)
    PROVE  /\ r.kind = "evidence" =>
                /\ Len(Plan(r)) = 3 /\ Plan(r)[1] = "evidenceDecision" /\ Plan(r)[2] = "write"
                /\ Plan(r)[3] = "evidenceEvent" /\ r.to \notin NeedsPackage
           /\ r.kind # "evidence" =>
                \A i \in 1..Len(Plan(r)) : Plan(r)[i] # "evidenceDecision"
<1>1. CASE r.kind = "review"
  <2>1. Plan(r) = <<"reviewAction", "write">>
    BY <1>1 DEF Plan
  <2> QED BY <1>1, <2>1
<1>2. CASE r.kind = "evidence"
  <2>1. Plan(r) = <<"evidenceDecision", "write", "evidenceEvent">>
    BY <1>2 DEF Plan
  <2> QED BY <1>2, <2>1 DEF Legal, Outcomes, NeedsPackage
<1>3. CASE r.kind = "admission" /\ r.to = "REJECTED"
  <2>1. Plan(r) = <<"decision", "decisionEvent", "write">>
    BY <1>3 DEF Plan
  <2> QED BY <1>3, <2>1
<1>4. CASE r.kind = "admission" /\ r.to = "APPROVED"
  <2>1. Plan(r) = <<"organisation", "membership", "role", "decision",
                    "decisionEvent", "registeredEvent", "membershipEvent", "write">>
    BY <1>4 DEF Plan
  <2> QED BY <1>4, <2>1
<1> QED BY <1>1, <1>2, <1>3, <1>4 DEF Legal, Outcomes, Final, Request

\* A compensation deletes the row of its own call and none of the calls before it.
LEMMA UnmakesLast ==
    ASSUME NEW r \in Request, Legal(r), NEW i \in 1..Len(Plan(r)), NEW j \in 1..Len(Plan(r)), j < i
    PROVE  Plan(r)[j] \notin DeletedWith(Plan(r)[i]) /\ Plan(r)[i] \in DeletedWith(Plan(r)[i])
<1>1. CASE r.kind = "review"
  <2>1. Plan(r) = <<"reviewAction", "write">>
    BY <1>1 DEF Plan
  <2> QED BY <1>1, <2>1 DEF DeletedWith
<1>2. CASE r.kind = "evidence"
  <2>1. Plan(r) = <<"evidenceDecision", "write", "evidenceEvent">>
    BY <1>2 DEF Plan
  <2> QED BY <1>2, <2>1 DEF DeletedWith
<1>3. CASE r.kind = "admission" /\ r.to = "REJECTED"
  <2>1. Plan(r) = <<"decision", "decisionEvent", "write">>
    BY <1>3 DEF Plan
  <2> QED BY <1>3, <2>1 DEF DeletedWith
<1>4. CASE r.kind = "admission" /\ r.to = "APPROVED"
  <2>1. Plan(r) = <<"organisation", "membership", "role", "decision",
                    "decisionEvent", "registeredEvent", "membershipEvent", "write">>
    BY <1>4 DEF Plan
  <2>2. Len(Plan(r)) = 8
    BY <2>1
  <2>3. CASE i = 2
    <3>1. j = 1
      BY <2>2, <2>3
    <3> QED BY <2>1, <2>3, <3>1 DEF DeletedWith
  <2>4. CASE i >= 3
    <3>1. DeletedWith(Plan(r)[i]) = {Plan(r)[i]}
      BY <2>1, <2>2, <2>4 DEF DeletedWith
    <3>2. Plan(r)[i] # Plan(r)[j]
      BY <2>1, <2>2, <2>4
    <3> QED BY <3>1, <3>2
  <2> QED BY <2>2, <2>3, <2>4
<1> QED BY <1>1, <1>2, <1>3, <1>4 DEF Legal, Outcomes, Final, Request

\* Taking back the last call of a request leaves what the calls before it made.
LEMMA Unmade ==
    ASSUME NEW r \in Request, Legal(r), NEW n \in 1..Len(Plan(r)), r.n = n,
           NEW t \in Request, Plan(t) = Plan(r), t.n = n - 1
    PROVE  Made(t) = IF Plan(r)[n] = "write" THEN Made(r)
                     ELSE Made(r) \ DeletedWith(Plan(r)[n])
<1>1. Len(Plan(r)) \in 2..8
  BY PlanFacts
<1>2. 1..n = (1..(n - 1)) \cup {n} /\ \A j \in 1..(n - 1) : j \in 1..Len(Plan(r)) /\ j < n
  BY <1>1
<1>3. Made(r) = Made(t) \cup ({Plan(r)[n]} \ {"write"})
  BY <1>2 DEF Made
<1>4. ASSUME NEW x \in Made(t) PROVE x \notin DeletedWith(Plan(r)[n])
  <2>1. PICK j \in 1..(n - 1) : x = Plan(r)[j]
    BY <1>4 DEF Made
  <2> QED BY <1>2, <2>1, UnmakesLast
<1>5. Plan(r)[n] \in DeletedWith(Plan(r)[n])
  BY DEF DeletedWith
<1> QED BY <1>3, <1>4, <1>5

\* Beside q, no request moves.
Rest(q) == \A p \in Requests \ {q} : request'[p] = request[p] /\ rows'[p] = rows[p]

\* How each step moves its request.
LEMMA Begins ==
    ASSUME Inv, NEW q \in Requests,
           \/ \E a \in Applications, to \in Outcomes.review \cup Outcomes.admission :
                 ReadForReview(q, a, to) \/ ReadForAdmission(q, a, to)
           \/ \E e \in Evidence, to \in Outcomes.evidence : ReadForEvidence(q, e, to)
    PROVE  /\ UNCHANGED <<application, evidence, expired, rows, withdrawn, faults, swallowed, deaths>>
           /\ Rest(q) /\ rows[q] = {} /\ rows'[q] = {} /\ request'[q].at = "read"
<1>1. PICK kind, a, to, e : Begin(q, kind, a, to, e)
  BY DEF ReadForReview, ReadForAdmission, ReadForEvidence
<1>2. /\ request'[q] = [at |-> "read", n |-> 0, kind |-> kind, to |-> to, app |-> a, doc |-> e,
                        revision |-> application[a].revision]
      /\ \A p \in Requests \ {q} : request'[p] = request[p]
      /\ rows' = rows /\ rows[q] = {}
  BY <1>1 DEF Begin, Inv, TypeOK, Progress, At
<1>3. UNCHANGED <<application, evidence, expired, rows, withdrawn, faults, swallowed, deaths>>
  BY <1>1 DEF Begin, bounds
<1> QED BY <1>2, <1>3 DEF Rest

LEMMA Turns ==
    ASSUME Inv, NEW q \in Requests, Check(q) \/ Collide(q) \/ Fail(q) \/ Die(q)
    PROVE  /\ UNCHANGED <<application, evidence, expired, rows, withdrawn, swallowed>>
           /\ Rest(q) /\ (deaths' = deaths \/ Die(q))
           /\ \/ request'[q] = Dropped /\ rows[q] = {}
              \/ /\ Same(q) /\ request'[q].n = request[q].n
                 /\ Plan(request'[q]) = Plan(request[q]) /\ Made(request'[q]) = Made(request[q])
                 /\ \/ request'[q].at = "run" /\ At(q, "read") /\ Acceptable(request[q])
                    \/ request'[q].at = "undo" /\ At(q, "run")
                    \/ request'[q].at = "done" /\ Die(q)
<1>1. request[q] \in Request /\ Legal(request[q])
  BY DEF Inv, TypeOK, Progress
<1>2. ASSUME NEW s \in {"run", "undo", "done"}, request' = [request EXCEPT ![q] = [request[q] EXCEPT !.at = s]]
      PROVE  /\ \A p \in Requests \ {q} : request'[p] = request[p]
             /\ Same(q) /\ request'[q].n = request[q].n /\ request'[q].at = s
             /\ Plan(request'[q]) = Plan(request[q]) /\ Made(request'[q]) = Made(request[q])
  <2>1. request'[q] = [request[q] EXCEPT !.at = s] /\ \A p \in Requests \ {q} : request'[p] = request[p]
    BY <1>2 DEF Inv, TypeOK
  <2>2. Same(q) /\ request'[q].n = request[q].n /\ request'[q].at = s /\ request'[q] \in Request
    BY <1>1, <2>1 DEF Same, Request
  <2>3. Plan(request'[q]) = Plan(request[q])
    BY <1>1, <2>2, SamePlan DEF Same
  <2> QED BY <2>1, <2>2, <2>3 DEF Made
<1>3. ASSUME request' = [request EXCEPT ![q] = Dropped]
      PROVE  request'[q] = Dropped /\ \A p \in Requests \ {q} : request'[p] = request[p]
  BY <1>3 DEF Inv, TypeOK
<1>4. CASE Check(q)
  <2>1. /\ UNCHANGED <<application, evidence, expired, rows, withdrawn, faults, swallowed, deaths>>
        /\ At(q, "read") /\ rows[q] = {}
    BY <1>4 DEF Check, bounds, Inv, Progress, At
  <2>2. CASE request' = [request EXCEPT ![q].at = "run"] /\ Acceptable(request[q])
    <3>1. request' = [request EXCEPT ![q] = [request[q] EXCEPT !.at = "run"]]
      BY <2>2
    <3> QED BY <1>2, <2>1, <2>2, <3>1 DEF Rest
  <2>3. CASE request' = [request EXCEPT ![q] = Dropped]
    BY <1>3, <2>1, <2>3 DEF Rest
  <2> QED BY <1>4, <2>2, <2>3 DEF Check
<1>5. CASE Collide(q) \/ Fail(q)
  <2>1. /\ UNCHANGED <<application, evidence, expired, rows, withdrawn, swallowed, deaths>>
        /\ At(q, "run")
        /\ request' = [request EXCEPT ![q] = IF request[q].n = 0 THEN Dropped
                                             ELSE [request[q] EXCEPT !.at = "undo"]]
    BY <1>5 DEF Collide, Fail, BackOut, bounds
  <2>2. CASE request[q].n = 0
    <3>1. rows[q] = {}
      BY <2>1, <2>2 DEF Inv, Progress, Made
    <3> QED BY <1>3, <2>1, <2>2, <3>1 DEF Rest
  <2>3. CASE request[q].n # 0
    <3>1. request' = [request EXCEPT ![q] = [request[q] EXCEPT !.at = "undo"]]
      BY <2>1, <2>3
    <3> QED BY <1>2, <2>1, <3>1 DEF Rest
  <2> QED BY <2>2, <2>3
<1>6. CASE Die(q)
  <2>1. /\ UNCHANGED <<application, evidence, expired, rows, withdrawn, swallowed>>
        /\ request' = [request EXCEPT ![q] = [request[q] EXCEPT !.at = "done"]]
    BY <1>6 DEF Die
  <2> QED BY <1>2, <1>6, <2>1 DEF Rest
<1> QED BY <1>4, <1>5, <1>6

LEMMA Advances ==
    ASSUME Inv, NEW q \in Requests, CreateRow(q) \/ Write(q)
    PROVE  /\ UNCHANGED <<expired, withdrawn, faults, swallowed, deaths>>
           /\ Rest(q) /\ Same(q) /\ At(q, "run") /\ rows[q] = Made(request[q])
           /\ request'[q] \in Request /\ Legal(request'[q]) /\ request[q].n \in 0..8
           /\ request'[q].n = request[q].n + 1 /\ request'[q].n \in 1..Len(Plan(request'[q]))
           /\ Plan(request'[q]) = Plan(request[q])
           /\ Step(q) = Plan(request'[q])[request'[q].n]
           /\ rows'[q] = Made(request'[q]) /\ rows'[q] = rows[q] \cup ({Step(q)} \ {"write"})
           /\ request'[q].at = IF request'[q].n = Len(Plan(request'[q])) THEN "done" ELSE "run"
<1>1. /\ UNCHANGED <<expired, withdrawn, faults, swallowed, deaths>> /\ At(q, "run") /\ Advance(q)
      /\ rows'[q] = rows[q] \cup ({Step(q)} \ {"write"})
      /\ \A p \in Requests \ {q} : rows'[p] = rows[p]
  <2>1. CASE CreateRow(q)
    <3>1. rows'[q] = rows[q] \cup {Step(q)} /\ \A p \in Requests \ {q} : rows'[p] = rows[p]
      BY <2>1 DEF CreateRow, Inv, TypeOK
    <3>2. {Step(q)} \ {"write"} = {Step(q)}
      BY <2>1 DEF CreateRow
    <3> QED BY <2>1, <3>1, <3>2 DEF CreateRow, bounds
  <2>2. CASE Write(q)
    <3>1. {Step(q)} \ {"write"} = {} /\ rows' = rows
      BY <2>2 DEF Write
    <3> QED BY <2>2, <3>1 DEF Write, bounds
  <2> QED BY <2>1, <2>2
<1>2. request[q] \in Request /\ request[q].n \in 0..8 /\ rows[q] = Made(request[q])
  BY <1>1 DEF Inv, TypeOK, Progress, Request
<1>3. request'[q].doc = request[q].doc
  BY <1>1, <1>2 DEF Advance, Inv, TypeOK, Request
<1>4. request'[q].n \in 1..Len(Plan(request'[q]))
  <2> DEFINE l == Len(Plan(request'[q]))
  <2>1. l \in 2..8 /\ request'[q].n = request[q].n + 1 /\ request'[q].n <= l
    BY <1>1, Advanced, PlanFacts
  <2> HIDE DEF l
  <2>2. request'[q].n \in 1..l
    BY <1>2, <2>1
  <2> QED BY <2>2 DEF l
<1>5. rows'[q] = Made(request'[q])
  <2>1. Made(request'[q]) = Made(request[q]) \cup ({Step(q)} \ {"write"})
    BY <1>1, Advanced
  <2> QED BY <1>1, <1>2, <2>1
<1>6. Rest(q) /\ Same(q)
  BY <1>1, <1>3, Advanced DEF Rest, Same
<1> QED BY <1>1, <1>2, <1>4, <1>5, <1>6, Advanced

LEMMA Retreats ==
    ASSUME Inv, NEW q \in Requests, Undo(q) \/ Swallow(q)
    PROVE  /\ UNCHANGED <<application, expired, faults, deaths>>
           /\ Rest(q) /\ Same(q) /\ At(q, "undo")
           /\ request'[q] \in Request /\ Legal(request[q])
           /\ request[q].n \in 1..(Len(Plan(request[q])) - 1) /\ Len(Plan(request[q])) \in 2..8
           /\ request'[q].n = request[q].n - 1 /\ Plan(request'[q]) = Plan(request[q])
           /\ request'[q].at = IF request[q].n = 1 THEN "done" ELSE "undo"
           /\ rows'[q] \subseteq rows[q]
<1> DEFINE m == request[q].n - 1
           s == IF request[q].n = 1 THEN "done" ELSE "undo"
<1>1. At(q, "undo") /\ UNCHANGED <<application, expired, faults, deaths>>
      /\ rows'[q] \subseteq rows[q] /\ \A p \in Requests \ {q} : rows'[p] = rows[p]
  BY DEF Undo, Swallow, bounds, Inv, TypeOK
<1>2. /\ request[q] \in Request /\ Legal(request[q]) /\ Len(Plan(request[q])) \in 2..8
      /\ request[q].n \in 1..(Len(Plan(request[q])) - 1)
  BY <1>1, PlanFacts DEF Inv, TypeOK, Progress
<1>3. request' = [request EXCEPT ![q] = To(request[q], m, s)]
  BY DEF Undo, Swallow, Retreat, To
<1>4. m \in 0..8 /\ s \in {"new", "read", "run", "undo", "done"}
  <2> DEFINE l == Len(Plan(request[q]))
  <2>1. l \in 2..8 /\ request[q].n \in 1..(l - 1)
    BY <1>2
  <2> HIDE DEF l
  <2> QED BY <2>1
<1> HIDE DEF m, s
<1>5. request'[q] = To(request[q], m, s) /\ \A p \in Requests \ {q} : request'[p] = request[p]
  BY <1>3 DEF Inv, TypeOK
<1>6. /\ request'[q] \in Request /\ request'[q].at = s /\ request'[q].n = m
      /\ Plan(request'[q]) = Plan(request[q])
  BY <1>2, <1>4, <1>5, Moved
<1>7. Same(q)
  BY <1>2, <1>5 DEF Same, To, Request
<1> QED BY <1>1, <1>2, <1>5, <1>6, <1>7 DEF m, s, Rest

\* A request that gains no decision on evidence, and keeps what it is about as long as it
\* holds one, disturbs no other.
LEMMA HoldersKept ==
    ASSUME Holders, NEW q \in Requests, Rest(q),
           "evidenceDecision" \in rows'[q] => Same(q) /\ "evidenceDecision" \in rows[q]
    PROVE  Holders'
<1>1. ASSUME NEW p \in Requests, "evidenceDecision" \in rows'[p]
      PROVE  /\ "evidenceDecision" \in rows[p] /\ request'[p].kind = request[p].kind
             /\ request'[p].doc = request[p].doc
  BY <1>1 DEF Rest, Same
<1> QED BY <1>1 DEF Holders

LEMMA HoldersStep == ASSUME Inv, Holders, [Next]_vars PROVE Holders'
<1>1. ASSUME NEW q \in Requests, CreateRow(q) \/ Write(q) PROVE Holders'
  <2>1. /\ request[q] \in Request /\ Legal(request[q])
        /\ Step(q) = Plan(request[q])[request'[q].n]
        /\ request'[q].n \in 1..Len(Plan(request[q]))
    BY <1>1, Advances DEF Inv, TypeOK, Progress
  <2>2. CASE Step(q) # "evidenceDecision"
    <3>1. "evidenceDecision" \in rows'[q] => "evidenceDecision" \in rows[q]
      BY <1>1, <2>2, Advances
    <3> QED BY <1>1, <3>1, Advances, HoldersKept
  <2>3. CASE Step(q) = "evidenceDecision"
    <3>1. request[q].kind = "evidence"
      BY <2>1, <2>3, EvidenceCalls
    <3>2. CreateRow(q)
      BY <1>1, <2>3 DEF Write
    <3>3. \A p \in Requests \ {q} : "evidenceDecision" \in rows[p] => request[p].doc # request[q].doc
      BY <2>3, <3>2 DEF CreateRow, Collides, Holding
    <3>4. Rest(q) /\ Same(q)
      BY <1>1, Advances
    <3>5. ASSUME NEW p \in Requests, "evidenceDecision" \in rows'[p]
          PROVE  /\ request'[p].kind = "evidence" /\ request'[p].doc = request[p].doc
                 /\ p # q => "evidenceDecision" \in rows[p]
      BY <3>1, <3>4, <3>5 DEF Rest, Same, Holders
    <3> QED BY <3>3, <3>5 DEF Holders
  <2> QED BY <2>2, <2>3
<1>2. ASSUME NEW q \in Requests, Undo(q) \/ Swallow(q) PROVE Holders'
  BY <1>2, Retreats, HoldersKept
<1>3. ASSUME NEW q \in Requests, Check(q) \/ Collide(q) \/ Fail(q) \/ Die(q) PROVE Holders'
  <2>1. rows' = rows /\ (Same(q) \/ rows[q] = {})
    BY <1>3, Turns
  <2>2. Rest(q)
    BY <1>3, Turns
  <2>3. "evidenceDecision" \in rows'[q] => Same(q) /\ "evidenceDecision" \in rows[q]
    BY <2>1
  <2> QED BY <2>2, <2>3, HoldersKept
<1>4. ASSUME NEW q \in Requests,
             \/ \E a \in Applications, to \in Outcomes.review \cup Outcomes.admission :
                   ReadForReview(q, a, to) \/ ReadForAdmission(q, a, to)
             \/ \E e \in Evidence, to \in Outcomes.evidence : ReadForEvidence(q, e, to)
      PROVE  Holders'
  <2>1. Rest(q) /\ rows'[q] = {}
    BY <1>4, Begins
  <2> QED BY <2>1, HoldersKept
<1>5. CASE request' = request /\ rows' = rows
  BY <1>5 DEF Holders
<1>6. ASSUME \/ \E a \in Applications : Apply(a)
             \/ \E e \in Evidence : CheckAccepting(e) \/ Attach(e) \/ Expire(e)
             \/ UNCHANGED vars
      PROVE  request' = request /\ rows' = rows
  BY <1>6 DEF Apply, CheckAccepting, Attach, Expire, vars
<1> QED BY <1>1, <1>2, <1>3, <1>4, <1>5, <1>6 DEF Next

\* While no document gains or loses a verdict, and no request a decision it has written.
LEMMA VerdictsKept ==
    ASSUME Verdicts,
           \A e \in Evidence, v \in {"VERIFIED", "REJECTED"} : evidence'[e] = v <=> evidence[e] = v,
           \A p \in Requests : "evidenceDecision" \in rows[p] /\ request[p].n >= 2
                               <=> "evidenceDecision" \in rows'[p] /\ request'[p].n >= 2,
           \A p \in Requests : "evidenceDecision" \in rows[p] /\ request[p].n >= 2
                               => request'[p].doc = request[p].doc /\ request'[p].to = request[p].to
    PROVE  Verdicts'
<1>1. ASSUME NEW p \in Requests, NEW e \in Evidence, NEW v \in {"VERIFIED", "REJECTED"}
      PROVE  /\ Decides(p, e, v) <=>
                   /\ request'[p].doc = e /\ request'[p].to = v
                   /\ "evidenceDecision" \in rows'[p] /\ request'[p].n >= 2
  BY DEF Decides
<1> QED BY <1>1 DEF Verdicts, Decides

\* A write by q: no other request has a standing verdict on the same document.
LEMMA VerdictsWrite ==
    ASSUME Inv, Holders, Verdicts, NEW q \in Requests, Write(q)
    PROVE  Verdicts' /\ \A e \in Evidence : Good(e) => Good(e)'
<1>1. /\ request[q] \in Request /\ Legal(request[q]) /\ Rest(q) /\ Same(q) /\ rows' = rows
      /\ request[q].n \in Nat /\ request'[q].n = request[q].n + 1
      /\ request[q].n + 1 \in 1..Len(Plan(request[q])) /\ Plan(request[q])[request[q].n + 1] = "write"
      /\ rows[q] = Made(request[q]) /\ withdrawn' = withdrawn
  <2>1. rows' = rows /\ Step(q) = "write"
    BY DEF Write
  <2>2. request[q] \in Request /\ Legal(request[q])
    BY DEF Inv, TypeOK, Progress
  <2>3. /\ Rest(q) /\ Same(q) /\ request[q].n \in 0..8 /\ request'[q].n = request[q].n + 1
        /\ request'[q].n \in 1..Len(Plan(request'[q])) /\ Plan(request'[q]) = Plan(request[q])
        /\ Step(q) = Plan(request'[q])[request'[q].n]
        /\ rows[q] = Made(request[q]) /\ withdrawn' = withdrawn
    BY Advances
  <2>4. request[q].n \in Nat
    BY <2>3
  <2>5. /\ request[q].n + 1 \in 1..Len(Plan(request[q]))
        /\ Plan(request[q])[request[q].n + 1] = "write"
    BY <2>1, <2>3
  <2> QED BY <2>1, <2>2, <2>3, <2>4, <2>5
<1>2. CASE request[q].kind # "evidence"
  <2>1. evidence' = evidence
    BY <1>2 DEF Write
  <2>2. "evidenceDecision" \notin rows[q]
    BY <1>2 DEF Holders
  <2>3. Verdicts'
    BY <1>1, <2>1, <2>2, VerdictsKept DEF Rest
  <2> QED BY <1>1, <2>1, <2>3 DEF Good
<1>3. CASE request[q].kind = "evidence"
  <2> DEFINE d == request[q].doc
             w == request[q].to
  <2>1. request[q].n = 1 /\ "evidenceDecision" \in rows[q] /\ w \in {"VERIFIED", "REJECTED"}
    <3>1. /\ Len(Plan(request[q])) = 3 /\ Plan(request[q])[1] = "evidenceDecision"
          /\ Plan(request[q])[2] = "write" /\ Plan(request[q])[3] = "evidenceEvent"
      BY <1>1, <1>3, EvidenceCalls
    <3>2. request[q].n = 1
      BY <1>1, <3>1
    <3>3. "evidenceDecision" \in Made(request[q])
      BY <3>1, <3>2 DEF Made
    <3>4. w \in {"VERIFIED", "REJECTED"}
      BY <1>1, <1>3, PlanFacts
    <3> QED BY <1>1, <3>2, <3>3, <3>4
  <2>2. /\ evidence'[d] = w /\ \A e \in Evidence \ {d} : evidence'[e] = evidence[e]
        /\ d \in Evidence
    BY <1>1, <1>3 DEF Write, Inv, TypeOK, Request
  <2>3. ASSUME NEW p \in Requests, NEW v, Decides(p, d, v) PROVE FALSE
    BY <2>1, <2>3 DEF Decides, Holders
  <2>4. request'[q].doc = d /\ request'[q].to = w /\ request'[q].n = 2
    BY <1>1, <2>1 DEF Same
  <2> HIDE DEF d, w
  <2>5. ASSUME NEW p \in Requests, NEW e \in Evidence, NEW v \in {"VERIFIED", "REJECTED"}
        PROVE  Decides(p, e, v)' <=> Decides(p, e, v) \/ (p = q /\ e = d /\ v = w)
    <3>1. CASE p = q
      BY <1>1, <2>1, <2>4, <3>1 DEF Decides
    <3>2. CASE p # q
      BY <1>1, <3>2 DEF Decides, Rest
    <3> QED BY <3>1, <3>2
  <2>6. Verdicts'
    <3> SUFFICES ASSUME NEW e \in Evidence, NEW v \in {"VERIFIED", "REJECTED"}
                 PROVE  evidence'[e] = v <=> \E p \in Requests : Decides(p, e, v)'
      BY DEF Verdicts
    <3>1. CASE e = d
      BY <2>2, <2>3, <2>5, <3>1
    <3>2. CASE e # d
      BY <2>2, <2>5, <3>2 DEF Verdicts
    <3> QED BY <3>1, <3>2
  <2>7. evidence[d] # "VERIFIED"
    BY <2>2, <2>3 DEF Verdicts
  <2>8. ASSUME NEW e \in Evidence, Good(e) PROVE Good(e)'
    <3>1. CASE e = d
      BY <1>1, <2>7, <2>8, <3>1 DEF Good
    <3>2. CASE e # d
      BY <1>1, <2>2, <2>8, <3>2 DEF Good
    <3> QED BY <3>1, <3>2
  <2> QED BY <2>6, <2>8
<1> QED BY <1>2, <1>3

\* A compensation that succeeds: a verdict is taken back by the request that gave it.
LEMMA VerdictsUndo ==
    ASSUME Inv, Holders, Verdicts, NEW q \in Requests, Unmaking(q), Undo(q)
    PROVE  Verdicts' /\ \A e \in Evidence : Good(e) => Good(e)'
<1> DEFINE call == Plan(request[q])[request[q].n]
<1>1. /\ request[q] \in Request /\ Legal(request[q]) /\ Rest(q) /\ Same(q) /\ At(q, "undo")
      /\ request[q].n \in 1..(Len(Plan(request[q])) - 1) /\ Len(Plan(request[q])) \in 2..8
      /\ request'[q].n = request[q].n - 1 /\ rows'[q] \subseteq rows[q]
      /\ rows[q] = Made(request[q])
  BY Retreats DEF Inv, TypeOK, Unmaking
<1>2. CASE request[q].kind # "evidence"
  <2>1. call # "write"
    <3> DEFINE l == Len(Plan(request[q]))
               n == request[q].n
    <3>1. n \in 1..l /\ n # l
      <4> DEFINE k == l
      <4>1. n \in 1..(k - 1) /\ k \in 2..8
        BY <1>1
      <4> HIDE DEF n, k
      <4> QED BY <4>1 DEF k
    <3> QED BY <1>1, <1>2, <3>1, PlanFacts
  <2>2. evidence' = evidence /\ withdrawn' = withdrawn
    BY <2>1 DEF Undo
  <2>3. "evidenceDecision" \notin rows[q]
    BY <1>2 DEF Holders
  <2>4. Verdicts'
    BY <1>1, <2>2, <2>3, VerdictsKept DEF Rest
  <2> QED BY <2>2, <2>4 DEF Good
<1>3. CASE request[q].kind = "evidence"
  <2>1. /\ Len(Plan(request[q])) = 3 /\ Plan(request[q])[1] = "evidenceDecision"
        /\ Plan(request[q])[2] = "write"
    BY <1>1, <1>3, EvidenceCalls
  <2>2. request[q].n \in {1, 2}
    BY <1>1, <2>1
  <2>3. CASE request[q].n = 1
    <3>1. evidence' = evidence /\ withdrawn' = withdrawn
      BY <2>1, <2>3 DEF Undo
    <3>2. ~(request[q].n >= 2) /\ ~(request'[q].n >= 2)
      BY <1>1, <2>3
    <3>3. Verdicts'
      BY <1>1, <3>1, <3>2, VerdictsKept DEF Rest
    <3> QED BY <3>1, <3>3 DEF Good
  <2>4. CASE request[q].n = 2
    <3> DEFINE d == request[q].doc
    <3>1. /\ evidence'[d] = "PENDING" /\ \A e \in Evidence \ {d} : evidence'[e] = evidence[e]
          /\ d \in Evidence /\ withdrawn' = withdrawn \cup {d} /\ rows' = rows
      BY <1>1, <2>1, <2>4 DEF Undo, Inv, TypeOK, Request
    <3>2. "evidenceDecision" \in rows[q]
      BY <1>1, <2>1, <2>4 DEF Made
    <3>3. ~(request'[q].n >= 2)
      BY <1>1, <2>4
    <3>4. \A p \in Requests \ {q}, v \in {"VERIFIED", "REJECTED"} : ~Decides(p, d, v)
      BY <3>2 DEF Decides, Holders
    <3> HIDE DEF d
    <3>5. ASSUME NEW p \in Requests, NEW e \in Evidence, NEW v \in {"VERIFIED", "REJECTED"}
          PROVE  Decides(p, e, v)' <=> Decides(p, e, v) /\ p # q
      BY <1>1, <3>1, <3>3 DEF Decides, Rest
    <3>6. \A e \in Evidence \ {d}, v \in {"VERIFIED", "REJECTED"} : ~Decides(q, e, v)
      BY DEF Decides, d
    <3>7. Verdicts'
      <4> SUFFICES ASSUME NEW e \in Evidence, NEW v \in {"VERIFIED", "REJECTED"}
                   PROVE  evidence'[e] = v <=> \E p \in Requests : Decides(p, e, v)'
        BY DEF Verdicts
      <4>1. CASE e = d
        BY <3>1, <3>4, <3>5, <4>1
      <4>2. CASE e # d
        <5>1. evidence'[e] = v <=> \E p \in Requests : Decides(p, e, v)
          BY <3>1, <4>2 DEF Verdicts
        <5> QED BY <3>5, <3>6, <4>2, <5>1
      <4> QED BY <4>1, <4>2
    <3> QED BY <3>1, <3>7 DEF Good
  <2> QED BY <2>2, <2>3, <2>4
<1> QED BY <1>2, <1>3

\* What holds while no compensation is lost.
Sound ==
    /\ Verdicts
    /\ \A q \in Requests : Vetting(q) /\ Unmaking(q)
    /\ \A a \in Applications : application[a].status \in NeedsPackage => Vetted(a)

LEMMA VettedKept ==
    ASSUME \A e \in Evidence : Good(e) => Good(e)', NEW a, Vetted(a)
    PROVE  Vetted(a)'
BY DEF Vetted

LEMMA SoundKept ==
    ASSUME Sound, Verdicts', \A e \in Evidence : Good(e) => Good(e)',
           \A q \in Requests : Unmaking(q)',
           \A q \in Requests : request'[q].at = "run" /\ request'[q].to \in NeedsPackage =>
               \/ At(q, "run") /\ request[q].to = request'[q].to /\ request[q].app = request'[q].app
               \/ Vetted(request'[q].app),
           \A a \in Applications : application'[a].status \in NeedsPackage =>
               application[a].status \in NeedsPackage \/ Vetted(a)
    PROVE  Sound'
<1>1. ASSUME NEW q \in Requests, NEW a, request'[q].at = "run", request'[q].to \in NeedsPackage,
             a = request'[q].app
      PROVE  Vetted(a)'
  <2>1. Vetted(a)
    BY <1>1 DEF Sound, Vetting
  <2> QED BY <2>1, VettedKept
<1>2. ASSUME NEW a \in Applications, application'[a].status \in NeedsPackage
      PROVE  Vetted(a)'
  <2>1. Vetted(a)
    BY <1>2 DEF Sound
  <2> QED BY <2>1, VettedKept
<1>3. ASSUME NEW q \in Requests PROVE Vetting(q)'
  <2>1. PICK a : a = request'[q].app
    OBVIOUS
  <2>2. request'[q].at = "run" /\ request'[q].to \in NeedsPackage => Vetted(a)'
    BY <1>1, <2>1
  <2> QED BY <2>1, <2>2 DEF Vetting, Vetted, At
<1> QED BY <1>2, <1>3 DEF Sound

\* A compensation that succeeds leaves the rows of the calls before its own.
LEMMA UndoLeaves ==
    ASSUME Inv, NEW q \in Requests, Unmaking(q), Undo(q)
    PROVE  rows'[q] = Made(request'[q])
<1> DEFINE call == Plan(request[q])[request[q].n]
<1>1. /\ At(q, "undo") /\ request'[q] \in Request /\ request[q] \in Request /\ Legal(request[q])
      /\ request[q].n \in 1..(Len(Plan(request[q])) - 1) /\ Len(Plan(request[q])) \in 2..8
      /\ request'[q].n = request[q].n - 1 /\ Plan(request'[q]) = Plan(request[q])
  BY Retreats DEF Inv, TypeOK
<1>2. rows[q] = Made(request[q])
  BY <1>1 DEF Unmaking
<1>3. request[q].n \in 1..Len(Plan(request[q]))
  <2> DEFINE l == Len(Plan(request[q]))
  <2>1. request[q].n \in 1..(l - 1) /\ l \in 2..8
    BY <1>1
  <2> HIDE DEF l
  <2>2. request[q].n \in 1..l
    BY <2>1
  <2> QED BY <2>2 DEF l
<1>4. Made(request'[q]) = IF call = "write" THEN Made(request[q])
                          ELSE Made(request[q]) \ DeletedWith(call)
  BY <1>1, <1>3, Unmade
<1>5. rows'[q] = IF call = "write" THEN rows[q] ELSE rows[q] \ DeletedWith(call)
  BY DEF Undo, Inv, TypeOK
<1> QED BY <1>2, <1>4, <1>5

\* The package is read before a review or an approval runs, and stays what it was read to
\* be until the application is written.
LEMMA SoundStep ==
    ASSUME Inv, Holders, Sound, [Next]_vars, swallowed' = 0
    PROVE  Sound'
<1>0. Verdicts /\ \A q \in Requests : Vetting(q) /\ Unmaking(q)
  BY DEF Sound
<1>1. ASSUME NEW q \in Requests, Rest(q), request'[q].at # "undo" \/ rows'[q] = Made(request'[q])
      PROVE  \A p \in Requests : Unmaking(p)'
  <2>1. ASSUME NEW p \in Requests \ {q} PROVE Unmaking(p)'
    <3>1. request'[p] = request[p] /\ rows'[p] = rows[p] /\ Unmaking(p)
      BY <1>0, <1>1, <2>1 DEF Rest
    <3> QED BY <3>1 DEF Unmaking, At, Made
  <2>2. Unmaking(q)'
    BY <1>1 DEF Unmaking, At, Made
  <2> QED BY <2>1, <2>2
<1>2. ASSUME NEW q \in Requests, Rest(q),
             request'[q].at # "run" \/ (Same(q) /\ At(q, "run")) \/ Vetted(request'[q].app)
      PROVE  \A p \in Requests : request'[p].at = "run" /\ request'[p].to \in NeedsPackage =>
               \/ At(p, "run") /\ request[p].to = request'[p].to /\ request[p].app = request'[p].app
               \/ Vetted(request'[p].app)
  <2>1. ASSUME NEW p \in Requests \ {q} PROVE request'[p] = request[p]
    BY <1>2, <2>1 DEF Rest
  <2> QED BY <1>2, <2>1 DEF Same, At
<1>3. ASSUME NEW q \in Requests, CreateRow(q) PROVE Sound'
  <2>1. /\ request[q] \in Request /\ Legal(request[q]) /\ request[q].n \in 0..8
        /\ request'[q].n = request[q].n + 1 /\ request'[q].n \in 1..Len(Plan(request[q]))
        /\ Step(q) = Plan(request[q])[request'[q].n] /\ Rest(q) /\ Same(q) /\ At(q, "run")
        /\ rows'[q] = rows[q] \cup ({Step(q)} \ {"write"}) /\ rows'[q] = Made(request'[q])
        /\ withdrawn' = withdrawn
    BY <1>3, Advances DEF Inv, TypeOK, Progress
  <2>2. evidence' = evidence /\ application' = application /\ Step(q) # "write"
    BY <1>3 DEF CreateRow
  <2>3. "evidenceDecision" \in rows[q] /\ request[q].n >= 2
        <=> "evidenceDecision" \in rows'[q] /\ request'[q].n >= 2
    <3>1. CASE request[q].kind # "evidence"
      <4>1. "evidenceDecision" \notin rows[q]
        BY <3>1 DEF Holders
      <4>2. Step(q) # "evidenceDecision"
        BY <2>1, <3>1, EvidenceCalls
      <4> QED BY <2>1, <4>1, <4>2
    <3>2. CASE request[q].kind = "evidence"
      <4>1. /\ Len(Plan(request[q])) = 3 /\ Plan(request[q])[1] = "evidenceDecision"
            /\ Plan(request[q])[2] = "write" /\ Plan(request[q])[3] = "evidenceEvent"
        BY <2>1, <3>2, EvidenceCalls
      <4>2. request'[q].n \in {1, 3}
        BY <2>1, <2>2, <4>1
      <4>3. CASE request'[q].n = 1
        BY <2>1, <4>3
      <4>4. CASE request'[q].n = 3
        <5>1. Step(q) = "evidenceEvent" /\ request[q].n = 2
          BY <2>1, <4>1, <4>4
        <5> QED BY <2>1, <4>4, <5>1
      <4> QED BY <4>2, <4>3, <4>4
    <3> QED BY <3>1, <3>2
  <2>4. Verdicts'
    BY <1>0, <2>1, <2>2, <2>3, VerdictsKept DEF Rest, Same
  <2>5. \A e \in Evidence : Good(e) => Good(e)'
    BY <2>1, <2>2 DEF Good
  <2>6. \A p \in Requests : Unmaking(p)'
    BY <1>1, <2>1
  <2> QED BY <1>2, <2>1, <2>2, <2>4, <2>5, <2>6, SoundKept
<1>4. ASSUME NEW q \in Requests, Write(q) PROVE Sound'
  <2>1. Verdicts' /\ \A e \in Evidence : Good(e) => Good(e)'
    BY <1>0, <1>4, VerdictsWrite
  <2>2. Rest(q) /\ Same(q) /\ At(q, "run") /\ rows'[q] = Made(request'[q])
    BY <1>4, Advances
  <2>3. \A p \in Requests : Unmaking(p)'
    BY <1>1, <2>2
  <2>4. request[q] \in Request /\ Legal(request[q]) /\ request[q].app \in Applications
    BY DEF Inv, TypeOK, Progress, Request
  <2>5. ASSUME NEW a \in Applications, application'[a].status \in NeedsPackage
        PROVE  application[a].status \in NeedsPackage \/ Vetted(a)
    <3>1. CASE request[q].kind = "evidence" \/ a # request[q].app
      BY <1>4, <2>4, <2>5, <3>1 DEF Write, Inv, TypeOK
    <3>2. CASE request[q].kind # "evidence" /\ a = request[q].app
      <4>1. application'[a].status = request[q].to
        BY <1>4, <2>4, <3>2 DEF Write, Inv, TypeOK
      <4> QED BY <1>0, <2>2, <2>5, <3>2, <4>1 DEF Vetting
    <3> QED BY <3>1, <3>2
  <2> QED BY <1>2, <2>1, <2>2, <2>3, <2>5, SoundKept
<1>5. ASSUME NEW q \in Requests, Undo(q) PROVE Sound'
  <2>1. Verdicts' /\ \A e \in Evidence : Good(e) => Good(e)'
    BY <1>0, <1>5, VerdictsUndo
  <2>2. /\ application' = application /\ Rest(q) /\ request'[q].at # "run"
    BY <1>5, Retreats
  <2>3. rows'[q] = Made(request'[q])
    BY <1>0, <1>5, UndoLeaves
  <2>4. \A p \in Requests : Unmaking(p)'
    BY <1>1, <2>2, <2>3
  <2> QED BY <1>2, <2>1, <2>2, <2>4, SoundKept
<1>6. ASSUME NEW q \in Requests, Swallow(q) PROVE Sound'
  BY <1>6 DEF Swallow, Inv, TypeOK
<1>7. ASSUME NEW q \in Requests, Check(q) \/ Collide(q) \/ Fail(q) \/ Die(q) PROVE Sound'
  <2>1. /\ UNCHANGED <<application, evidence, rows, withdrawn>> /\ Rest(q)
        /\ \/ request'[q] = Dropped /\ rows[q] = {}
           \/ /\ Same(q) /\ request'[q].n = request[q].n
              /\ Made(request'[q]) = Made(request[q])
              /\ \/ request'[q].at = "run" /\ At(q, "read") /\ Acceptable(request[q])
                 \/ request'[q].at = "undo" /\ At(q, "run")
                 \/ request'[q].at = "done"
    BY <1>7, Turns
  <2>2. Verdicts'
    <3>1. ASSUME NEW p \in Requests, "evidenceDecision" \in rows[p]
          PROVE  request'[p].n = request[p].n /\ request'[p].doc = request[p].doc
                 /\ request'[p].to = request[p].to
      BY <2>1, <3>1 DEF Rest, Same
    <3> QED BY <1>0, <2>1, <3>1, VerdictsKept
  <2>3. \A e \in Evidence : Good(e) => Good(e)'
    BY <2>1 DEF Good
  <2>4. request'[q].at # "undo" \/ rows'[q] = Made(request'[q])
    <3>1. At(q, "run") => rows[q] = Made(request[q])
      BY DEF Inv, Progress
    <3> QED BY <2>1, <3>1, NoRequestFacts
  <2>5. \A p \in Requests : Unmaking(p)'
    BY <1>1, <2>1, <2>4
  <2>6. ASSUME NEW p \in Requests, request'[p].at = "run", request'[p].to \in NeedsPackage
        PROVE  \/ At(p, "run") /\ request[p].to = request'[p].to /\ request[p].app = request'[p].app
               \/ Vetted(request'[p].app)
    <3>1. CASE p # q
      BY <2>1, <2>6, <3>1 DEF Rest, At
    <3>2. CASE p = q
      <4>1. Acceptable(request[q]) /\ Same(q)
        BY <2>1, <2>6, <3>2, NoRequestFacts
      <4>2. request[q].kind # "evidence"
        BY <2>6, <3>2, <4>1, EvidenceCalls DEF Same, Inv, TypeOK, Progress
      <4>3. Package(request[q].app)
        BY <2>6, <3>2, <4>1, <4>2 DEF Acceptable, NeedsPackage, Same
      <4> QED BY <3>2, <4>1, <4>3 DEF Package, Vetted, Good, Same
    <3> QED BY <3>1, <3>2
  <2>7. \A a \in Applications : application'[a] = application[a]
    BY <2>1
  <2> QED BY <2>2, <2>3, <2>5, <2>6, <2>7, SoundKept
<1>8. ASSUME NEW q \in Requests,
             \/ \E a \in Applications, to \in Outcomes.review \cup Outcomes.admission :
                   ReadForReview(q, a, to) \/ ReadForAdmission(q, a, to)
             \/ \E e \in Evidence, to \in Outcomes.evidence : ReadForEvidence(q, e, to)
      PROVE  Sound'
  <2>1. /\ UNCHANGED <<application, evidence, rows, withdrawn>>
        /\ Rest(q) /\ rows[q] = {} /\ rows'[q] = {} /\ request'[q].at = "read"
    BY <1>8, Begins
  <2>2. Verdicts'
    BY <1>0, <2>1, VerdictsKept DEF Rest
  <2>3. \A e \in Evidence : Good(e) => Good(e)'
    BY <2>1 DEF Good
  <2>4. \A p \in Requests : Unmaking(p)'
    BY <1>1, <2>1
  <2>5. \A a \in Applications : application'[a] = application[a]
    BY <2>1
  <2> QED BY <1>2, <2>1, <2>2, <2>3, <2>4, <2>5, SoundKept
<1>9. ASSUME \/ \E a \in Applications : Apply(a)
             \/ \E e \in Evidence : CheckAccepting(e) \/ Attach(e) \/ Expire(e)
             \/ UNCHANGED vars
      PROVE  Sound'
  <2>1. request' = request /\ rows' = rows /\ withdrawn' = withdrawn
    BY <1>9 DEF Apply, CheckAccepting, Attach, Expire, vars
  <2>2. \A e \in Evidence, v \in {"VERIFIED", "REJECTED"} : evidence'[e] = v <=> evidence[e] = v
    BY <1>9 DEF Apply, CheckAccepting, Attach, Expire, vars, Inv, TypeOK
  <2>3. Verdicts'
    BY <1>0, <2>1, <2>2, VerdictsKept
  <2>4. \A e \in Evidence : Good(e) => Good(e)'
    BY <2>1, <2>2 DEF Good
  <2>5. \A p \in Requests : Unmaking(p)'
    <3>1. ASSUME NEW p \in Requests PROVE Made(request'[p]) = Made(request[p])
      BY <2>1
    <3> QED BY <1>0, <2>1 DEF Unmaking, At, Made
  <2>6. ASSUME NEW a \in Applications, application'[a].status \in NeedsPackage
        PROVE  application[a].status \in NeedsPackage
    <3>1. application'[a].status = "SUBMITTED" \/ application'[a] = application[a]
      <4>1. ASSUME NEW b \in Applications, Apply(b)
            PROVE  application'[a].status = "SUBMITTED" \/ application'[a] = application[a]
        BY <4>1 DEF Apply, Inv, TypeOK
      <4>2. application' = application \/ \E b \in Applications : Apply(b)
        BY <1>9 DEF CheckAccepting, Attach, Expire, vars
      <4> QED BY <4>1, <4>2
    <3> QED BY <2>6, <3>1 DEF NeedsPackage
  <2>7. \A p \in Requests : request'[p].at = "run" => At(p, "run") /\ request'[p] = request[p]
    BY <2>1 DEF At
  <2> QED BY <2>3, <2>4, <2>5, <2>6, <2>7, SoundKept
<1> QED BY <1>3, <1>4, <1>5, <1>6, <1>7, <1>8, <1>9 DEF Next

\* A request that is over has all its rows or none, while executions do not die.
LEMMA OverStep ==
    ASSUME Inv, Sound, \A q \in Requests : Over(q), [Next]_vars, Intact'
    PROVE  \A q \in Requests : Over(q)'
<1>1. ASSUME NEW q \in Requests, Rest(q),
             request'[q].at # "done" \/ rows'[q] = {}
               \/ (request'[q].n = Len(Plan(request'[q])) /\ rows'[q] = RowsOf(request'[q]))
      PROVE  \A p \in Requests : Over(p)'
  <2>1. ASSUME NEW p \in Requests \ {q} PROVE Over(p)'
    <3>1. request'[p] = request[p] /\ rows'[p] = rows[p] /\ Over(p)
      BY <1>1, <2>1 DEF Rest
    <3>2. Plan(request'[p]) = Plan(request[p]) /\ RowsOf(request'[p]) = RowsOf(request[p])
      BY <3>1
    <3> QED BY <3>1, <3>2 DEF Over, At
  <2>2. Over(q)'
    BY <1>1 DEF Over, At
  <2> QED BY <2>1, <2>2
<1>2. ASSUME NEW q \in Requests, CreateRow(q) \/ Write(q) PROVE \A p \in Requests : Over(p)'
  <2>1. /\ Rest(q) /\ request'[q] \in Request /\ Legal(request'[q])
        /\ rows'[q] = Made(request'[q])
        /\ request'[q].at = IF request'[q].n = Len(Plan(request'[q])) THEN "done" ELSE "run"
    BY <1>2, Advances
  <2>2. request'[q].at = "done" =>
            request'[q].n = Len(Plan(request'[q])) /\ rows'[q] = RowsOf(request'[q])
    BY <2>1, AllMade
  <2> QED BY <1>1, <2>1, <2>2
<1>3. ASSUME NEW q \in Requests, Undo(q) PROVE \A p \in Requests : Over(p)'
  <2>1. rows'[q] = Made(request'[q])
    BY <1>3, UndoLeaves DEF Sound
  <2>2. /\ Rest(q) /\ request'[q].n = request[q].n - 1
        /\ request'[q].at = IF request[q].n = 1 THEN "done" ELSE "undo"
    BY <1>3, Retreats
  <2>3. request'[q].at = "done" => rows'[q] = {}
    BY <2>1, <2>2 DEF Made
  <2> QED BY <1>1, <2>2, <2>3
<1>4. ASSUME NEW q \in Requests, Swallow(q) \/ Die(q) PROVE FALSE
  BY <1>4 DEF Swallow, Die, Intact, Inv, TypeOK
<1>5. ASSUME NEW q \in Requests, Check(q) \/ Collide(q) \/ Fail(q) PROVE \A p \in Requests : Over(p)'
  <2>1. /\ Rest(q) /\ rows' = rows
        /\ \/ rows[q] = {}
           \/ request'[q].at \in {"run", "undo"}
           \/ Die(q)
    BY <1>5, Turns
  <2> QED BY <1>1, <1>4, <2>1
<1>6. ASSUME NEW q \in Requests,
             \/ \E a \in Applications, to \in Outcomes.review \cup Outcomes.admission :
                   ReadForReview(q, a, to) \/ ReadForAdmission(q, a, to)
             \/ \E e \in Evidence, to \in Outcomes.evidence : ReadForEvidence(q, e, to)
      PROVE  \A p \in Requests : Over(p)'
  <2>1. Rest(q) /\ rows'[q] = {}
    BY <1>6, Begins
  <2> QED BY <1>1, <2>1
<1>7. ASSUME \/ \E a \in Applications : Apply(a)
             \/ \E e \in Evidence : CheckAccepting(e) \/ Attach(e) \/ Expire(e)
             \/ UNCHANGED vars
      PROVE  \A p \in Requests : Over(p)'
  <2>1. request' = request /\ rows' = rows
    BY <1>7 DEF Apply, CheckAccepting, Attach, Expire, vars
  <2>2. ASSUME NEW p \in Requests
        PROVE  Plan(request'[p]) = Plan(request[p]) /\ RowsOf(request'[p]) = RowsOf(request[p])
    BY <2>1
  <2> QED BY <2>1, <2>2 DEF Over, At
<1> QED BY <1>2, <1>3, <1>4, <1>5, <1>6, <1>7 DEF Next

\* Compensations that were lost and executions that died are never forgotten.
LEMMA LossesStay ==
    ASSUME Inv, [Next]_vars
    PROVE  (swallowed' = 0 => swallowed = 0) /\ (deaths' = 0 => deaths = 0)
<1>1. ASSUME NEW q \in Requests, CreateRow(q) \/ Write(q)
      PROVE  swallowed' = swallowed /\ deaths' = deaths
  BY <1>1, Advances
<1>2. ASSUME NEW q \in Requests, Undo(q) \/ Swallow(q) \/ Collide(q) \/ Fail(q) \/ Die(q) \/ Check(q)
      PROVE  /\ swallowed' = swallowed \/ swallowed' = swallowed + 1
             /\ deaths' = deaths \/ deaths' = deaths + 1
  BY <1>2 DEF Undo, Swallow, Collide, Fail, BackOut, Die, Check, bounds
<1>3. ASSUME NEW q \in Requests,
             \/ \E a \in Applications, to \in Outcomes.review \cup Outcomes.admission :
                   ReadForReview(q, a, to) \/ ReadForAdmission(q, a, to)
             \/ \E e \in Evidence, to \in Outcomes.evidence : ReadForEvidence(q, e, to)
      PROVE  swallowed' = swallowed /\ deaths' = deaths
  BY <1>3, Begins
<1>4. ASSUME \/ \E a \in Applications : Apply(a)
             \/ \E e \in Evidence : CheckAccepting(e) \/ Attach(e) \/ Expire(e)
             \/ UNCHANGED vars
      PROVE  swallowed' = swallowed /\ deaths' = deaths
  BY <1>4 DEF Apply, CheckAccepting, Attach, Expire, vars, bounds
<1>5. swallowed \in Nat /\ deaths \in Nat
  BY OnboardingAssumption DEF Inv, TypeOK
<1>6. \/ swallowed' = swallowed \/ swallowed' = swallowed + 1
  BY <1>1, <1>2, <1>3, <1>4 DEF Next
<1>7. \/ deaths' = deaths \/ deaths' = deaths + 1
  BY <1>1, <1>2, <1>3, <1>4 DEF Next
<1> QED BY <1>5, <1>6, <1>7

\* The invariant of rows and verdicts.
Kept == Inv /\ Holders /\ (swallowed = 0 => Sound) /\ (Intact => \A q \in Requests : Over(q))

LEMMA AlwaysKept == Spec => []Kept
<1>1. Init => Kept
  <2> SUFFICES ASSUME Init PROVE Kept
    OBVIOUS
  <2>1. \A q \in Requests : rows[q] = {} /\ request[q].at = "new" /\ request[q].n = 0
    <3>1. NoRequest.at = "new" /\ NoRequest.n = 0
      BY DEF NoRequest
    <3> QED BY <3>1 DEF Init
  <2>2. Holders /\ \A q \in Requests : Vetting(q) /\ Unmaking(q) /\ Over(q)
    BY <2>1 DEF Holders, Vetting, Unmaking, Over, At
  <2>3. Verdicts
    BY <2>1 DEF Init, Verdicts, Decides
  <2>4. \A a \in Applications : application[a].status \notin NeedsPackage
    BY DEF Init, NeedsPackage
  <2> QED BY <2>2, <2>3, <2>4, InitInv DEF Kept, Sound
<1>2. Kept /\ [Next]_vars => Kept'
  <2> SUFFICES ASSUME Kept, [Next]_vars PROVE Kept'
    OBVIOUS
  <2>1. Inv /\ Inv' /\ Holders /\ Holders'
    BY StepInv, HoldersStep DEF Kept
  <2>2. ASSUME swallowed' = 0 PROVE Sound /\ Sound'
    BY <2>1, <2>2, LossesStay, SoundStep DEF Kept
  <2>3. ASSUME Intact' PROVE \A q \in Requests : Over(q)'
    <3>1. swallowed' = 0 /\ swallowed = 0 /\ deaths = 0
      BY <2>1, <2>3, LossesStay DEF Intact
    <3>2. \A q \in Requests : Over(q)
      BY <3>1 DEF Kept, Intact
    <3>3. Sound
      BY <2>2, <3>1
    <3> QED BY <2>1, <2>3, <3>2, <3>3, OverStep
  <2> QED BY <2>1, <2>2, <2>3 DEF Kept
<1> QED BY <1>1, <1>2, PTL DEF Spec

\* The package assertVerifiedBuyerKybPackage asks for: between that read and the update of
\* the application nothing but a compensation takes a verification back, so an application
\* under review or approved has the package, or had it until it was taken back.
THEOREM PackagesHold == Spec => []PackageHolds
<1>1. Kept => PackageHolds
  <2>1. ASSUME Inv PROVE swallowed \in Nat
    BY <2>1, OnboardingAssumption DEF Inv, TypeOK
  <2> QED BY <2>1 DEF Kept, Sound, NeedsPackage, Vetted, Good, PackageHolds
<1> QED BY <1>1, AlwaysKept, PTL

\* Reviews, evidence decisions and admissions: once none is running, each has left every
\* row or none, a document's verdict and its decision agree, and an application has at
\* most one organisation, while no compensation is lost and no execution dies.
THEOREM LeavesAllOrNothing == Spec => []AllOrNothing
<1>1. ASSUME Kept, Ordered, Quiet, Intact
      PROVE  /\ \A q \in Requests : rows[q] \in {{}, RowsOf(request[q])}
             /\ \A e \in Evidence, verdict \in {"VERIFIED", "REJECTED"} :
                   evidence[e] = verdict <=>
                       \E q \in Requests : "evidenceDecision" \in rows[q]
                           /\ request[q].doc = e /\ request[q].to = verdict
             /\ \A p, q \in Requests :
                   "organisation" \in rows[p] \cap rows[q] /\ request[p].app = request[q].app => p = q
  <2>1. Inv /\ Holders /\ Verdicts /\ \A q \in Requests : Over(q)
    BY <1>1 DEF Kept, Sound, Intact
  <2>2. ASSUME NEW q \in Requests
        PROVE  /\ request[q] \in Request /\ Legal(request[q])
               /\ \/ rows[q] = {}
                  \/ request[q].n = Len(Plan(request[q])) /\ rows[q] = RowsOf(request[q])
    BY <1>1, <2>1, <2>2 DEF Quiet, Over, Inv, TypeOK, Progress, At
  <2>3. ASSUME NEW q \in Requests, "evidenceDecision" \in rows[q] PROVE request[q].n >= 2
    <3>1. Len(Plan(request[q])) = 3
      BY <2>1, <2>2, <2>3, EvidenceCalls DEF Holders
    <3> QED BY <2>2, <2>3, <3>1
  <2>4. ASSUME NEW e \in Evidence, NEW verdict \in {"VERIFIED", "REJECTED"}
        PROVE  evidence[e] = verdict <=>
                  \E q \in Requests : "evidenceDecision" \in rows[q]
                      /\ request[q].doc = e /\ request[q].to = verdict
    BY <2>1, <2>3 DEF Verdicts, Decides
  <2>5. ASSUME NEW q \in Requests, "organisation" \in rows[q] PROVE "decision" \in rows[q]
    <3> DEFINE r == request[q]
    <3>1. r \in Request /\ Legal(r) /\ rows[q] = RowsOf(r)
      BY <2>2, <2>5
    <3> HIDE DEF r
    <3>2. CASE r.kind = "review"
      <4>1. Plan(r) = <<"reviewAction", "write">>
        BY <3>2 DEF Plan
      <4> QED BY <2>5, <3>1, <4>1 DEF RowsOf
    <3>3. CASE r.kind = "evidence"
      <4>1. Plan(r) = <<"evidenceDecision", "write", "evidenceEvent">>
        BY <3>3 DEF Plan
      <4> QED BY <2>5, <3>1, <4>1 DEF RowsOf
    <3>4. CASE r.kind = "admission" /\ r.to = "REJECTED"
      <4>1. Plan(r) = <<"decision", "decisionEvent", "write">>
        BY <3>4 DEF Plan
      <4> QED BY <2>5, <3>1, <4>1 DEF RowsOf
    <3>5. CASE r.kind = "admission" /\ r.to = "APPROVED"
      <4>1. Plan(r) = <<"organisation", "membership", "role", "decision",
                        "decisionEvent", "registeredEvent", "membershipEvent", "write">>
        BY <3>5 DEF Plan
      <4>2. Plan(r)[4] = "decision" /\ 4 \in DOMAIN Plan(r)
        BY <4>1
      <4> QED BY <3>1, <4>2 DEF RowsOf
    <3> QED BY <3>1, <3>2, <3>3, <3>4, <3>5 DEF Legal, Outcomes, Final, Request
  <2>6. ASSUME NEW p \in Requests, NEW q \in Requests,
               "organisation" \in rows[p] \cap rows[q], request[p].app = request[q].app
        PROVE  p = q
    BY <1>1, <2>5, <2>6 DEF Ordered, Sole
  <2> QED BY <2>2, <2>4, <2>6
<1>2. Kept /\ Ordered => AllOrNothing
  BY <1>1 DEF AllOrNothing
<1> QED BY <1>2, AlwaysKept, AlwaysOrdered, PTL
=============================================================================
