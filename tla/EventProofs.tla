----------------------------- MODULE EventProofs ------------------------------
(***************************************************************************)
(* Theorems about the two ends of an event: the outbox that announces what *)
(* happened here, and the intake of what happened at the ERP.  The modules *)
(* share nothing; each part below is about one of them.                    *)
(***************************************************************************)
EXTENDS OutboxDispatch, BuyerActivation, FiniteSetTheorems, TLAPS

----------------------------------------------------------------------------
(***************************************************************************)
(* The outbox, for any number of events and dispatchers and any retry      *)
(* policy: the types, that nothing is marked delivered or given up without *)
(* cause, and that leases keep dispatchers apart when a call ends within   *)
(* a lease.                                                                *)
(***************************************************************************)

Working == {"publishing", "published", "failed"}

\* A backoff delay is a natural number; 2^n is one because it counts the subsets of 1..n.
LEMMA DelayTyped == ASSUME NEW n \in Nat \ {0} PROVE Delay(n) \in Nat
<1>1. n - 1 \in Nat
    OBVIOUS
<1>2. IsFiniteSet(1..(n - 1)) /\ Cardinality(1..(n - 1)) = n - 1
    BY <1>1, FS_Interval
<1>3. 2 ^ (n - 1) = Cardinality(SUBSET (1..(n - 1))) /\ IsFiniteSet(SUBSET (1..(n - 1)))
    BY <1>2, FS_SUBSET
<1>4. 2 ^ (n - 1) \in Nat
    BY <1>3, FS_CardinalityType
<1> DEFINE power == 2 ^ (n - 1)
<1> HIDE DEF power
<1>5. InitialDelay * power \in Nat
    BY <1>4, OutboxAssumption DEF power
<1> QED BY <1>5, OutboxAssumption DEF Delay, Lower, power

\* A call that goes on with a part of its batch is well formed, and handles nothing.
LEMMA RestTyped ==
    ASSUME OutboxTypeOK, NEW d \in Dispatchers, NEW S \in SUBSET Events, NEW batch \in [S -> Nat],
           Rest(d, batch)
    PROVE  /\ DOMAIN call' = Dispatchers /\ \A x \in Dispatchers : IsCall(call'[x])
           /\ call'[d].at \in {"idle", "listed"}
           /\ \A x \in Dispatchers \ {d} : call'[x] = call[x]
           /\ \A e \in DOMAIN call'[d].batch : e \in S /\ call'[d].batch[e] = batch[e]
<1>1. IsCall(Idle) /\ Idle.at = "idle" /\ DOMAIN Idle.batch = {}
    BY OutboxAssumption DEF Idle, IsCall, NoBatch
<1>2. CASE DOMAIN batch = {}
    BY <1>1, <1>2 DEF Rest, OutboxTypeOK
<1>3. CASE DOMAIN batch # {}
    <2> DEFINE next == [call[d] EXCEPT !.at = "listed", !.batch = batch]
    <2>1. call' = [call EXCEPT ![d] = next]
        BY <1>3 DEF Rest
    <2>2. IsCall(next) /\ next.at = "listed" /\ next.batch = batch
        BY DEF IsCall, OutboxTypeOK
    <2> HIDE DEF next
    <2> QED BY <2>1, <2>2 DEF OutboxTypeOK
<1> QED BY <1>2, <1>3

\* What is left of a batch is a batch.
LEMMA WithoutTyped ==
    ASSUME NEW S \in SUBSET Events, NEW batch \in [S -> Nat], NEW e \in Events
    PROVE  /\ Without(batch, e) \in [S \ {e} -> Nat]
           /\ \A x \in S \ {e} : Without(batch, e)[x] = batch[x]
BY DEF Without

\* A mark changes one row's status, wait and lease.
LEMMA MarkTyped ==
    ASSUME OutboxTypeOK, NEW d \in Dispatchers, NEW status \in Settled \cup {"RETRY"},
           NEW wait \in Int, wait >= -MaxAge, Mark(d, status, wait)
    PROVE  OutboxTypeOK'
<1> DEFINE S == DOMAIN call[d].batch
<1>1. S \in SUBSET Events /\ call[d].batch \in [S -> Nat] /\ call[d].event \in Events
    BY DEF OutboxTypeOK, IsCall
<1>2. DOMAIN call' = Dispatchers /\ \A x \in Dispatchers : IsCall(call'[x])
    BY <1>1, RestTyped DEF Mark
<1> DEFINE e == call[d].event
           marked == [row[e] EXCEPT !.status = status, !.wait = wait, !.lease = NoLease]
<1>3. marked \in Row
    <2>1. row[e] \in Row /\ status \in Statuses /\ NoLease \in Int
        BY <1>1, OutboxAssumption DEF OutboxTypeOK, Statuses, Settled, NoLease
    <2> QED BY <2>1 DEF Row
<1>4. marked.wait >= -MaxAge /\ marked.lease = NoLease
    <2>1. row[e] \in Row
        BY <1>1 DEF OutboxTypeOK
    <2> QED BY <2>1 DEF Row
<1>5. row' = [row EXCEPT ![e] = marked]
    BY DEF Mark
<1> HIDE DEF marked
<1>6. NoLease \in Int
    BY OutboxAssumption DEF NoLease
<1>7. row' \in [Events -> Row]
      /\ \A x \in Events : row'[x].wait >= -MaxAge /\ row'[x].lease >= NoLease
    BY <1>1, <1>3, <1>4, <1>5, <1>6 DEF OutboxTypeOK
<1> QED BY <1>2, <1>7 DEF Mark, OutboxTypeOK

\* The clock keeps the types: ages stay below their bound and times above theirs.
LEMMA TickTyped == OutboxTypeOK /\ Tick => OutboxTypeOK'
<1> SUFFICES ASSUME OutboxTypeOK, Tick PROVE OutboxTypeOK'
    OBVIOUS
<1>1. \A t \in Int : t >= -MaxAge => Sooner(t) \in Int /\ Sooner(t) >= -MaxAge
    BY OutboxAssumption DEF Sooner
<1>2. NoLease \in Int /\ -MaxAge >= NoLease
    BY OutboxAssumption DEF NoLease
<1>3. ASSUME NEW e \in Events
      PROVE  row'[e] \in Row /\ row'[e].wait >= -MaxAge /\ row'[e].lease >= NoLease
    <2>1. row[e] \in Row /\ row[e].wait >= -MaxAge /\ row[e].lease >= NoLease
        BY DEF OutboxTypeOK
    <2>2. CASE row[e].status = "ABSENT"
        BY <2>1, <2>2 DEF Tick
    <2>3. CASE row[e].status # "ABSENT"
        <3> DEFINE wait == Sooner(row[e].wait)
                   lease == IF row[e].lease = NoLease THEN row[e].lease ELSE Sooner(row[e].lease)
        <3>1. wait \in Int /\ wait >= -MaxAge
            BY <1>1, <2>1 DEF Row
        <3>2. row[e].lease # NoLease => row[e].lease >= -MaxAge
            BY <2>1, OutboxAssumption DEF Row, NoLease
        <3>3. lease \in Int /\ lease >= NoLease
            BY <1>1, <1>2, <2>1, <3>2, OutboxAssumption DEF Row
        <3>4. row'[e] = [row[e] EXCEPT !.wait = wait, !.lease = lease]
            BY <2>3 DEF Tick
        <3> HIDE DEF wait, lease
        <3> QED BY <2>1, <3>1, <3>3, <3>4 DEF Row
    <2> QED BY <2>2, <2>3
<1>4. row' \in [Events -> Row]
    <2>1. DOMAIN row' = Events /\ row' = [e \in Events |-> row'[e]]
        BY DEF Tick
    <2> QED BY <1>3, <2>1
<1>5. DOMAIN call' = Dispatchers /\ \A d \in Dispatchers : IsCall(call'[d])
    <2>1. ASSUME NEW d \in Dispatchers, call[d].at # "idle"
          PROVE  IsCall([call[d] EXCEPT !.age = call[d].age + 1])
        <3>1. IsCall(call[d]) /\ call[d].age < MaxAge
            BY <2>1 DEF Tick, OutboxTypeOK
        <3>2. call[d].age + 1 \in 0..MaxAge
            BY <3>1, OutboxAssumption DEF IsCall
        <3> QED BY <3>1, <3>2 DEF IsCall
    <2> QED BY <2>1 DEF Tick, OutboxTypeOK
<1> QED BY <1>3, <1>4, <1>5 DEF Tick, OutboxTypeOK

----------------------------------------------------------------------------
\* A count that was read or written for an event is covered by claims really made.
Counted(n, e) == n <= claims[e] \/ claims[e] = MaxAttempts

CallInv(d) ==
    /\ call[d].at \in Working => call[d].attempt >= 1 /\ Counted(call[d].attempt, call[d].event)
    /\ \A e \in DOMAIN call[d].batch : Counted(call[d].batch[e], e)
    /\ call[d].at = "published" => call[d].event \in accepted

OutboxInv ==
    /\ OutboxTypeOK /\ PublishedWasAccepted /\ NeverGivenUpEarly
    /\ \A e \in Events : Counted(row[e].attempts, e)
    /\ \A d \in Dispatchers : CallInv(d)

\* Listing copies counts that are covered.
LEMMA ListDueStep == ASSUME OutboxInv, NEW d \in Dispatchers, ListDue(d) PROVE OutboxInv'
<1>1. PICK due \in SUBSET Events :
        call' = [call EXCEPT ![d].at = "listed", ![d].age = 0,
                             ![d].batch = [e \in due |-> row[e].attempts]]
    BY DEF ListDue, Pages, DueIn, Subsets, Present
<1> DEFINE batch == [e \in due |-> row[e].attempts]
           next == [call[d] EXCEPT !.at = "listed", !.age = 0, !.batch = batch]
<1>2. call' = [call EXCEPT ![d] = next]
    BY <1>1 DEF OutboxInv, OutboxTypeOK
<1>3. batch \in [due -> Nat] /\ \A e \in due : Counted(batch[e], e)
    BY DEF OutboxInv, OutboxTypeOK, Row
<1> HIDE DEF batch
<1>4. IsCall(next) /\ next.at = "listed" /\ next.batch = batch
    <2>1. IsCall(call[d]) /\ 0 \in 0..MaxAge
        BY OutboxAssumption DEF OutboxInv, OutboxTypeOK
    <2> QED BY <1>3, <2>1 DEF IsCall
<1> HIDE DEF next
<1>5. DOMAIN call' = Dispatchers /\ \A x \in Dispatchers : IsCall(call'[x])
    BY <1>2, <1>4 DEF OutboxInv, OutboxTypeOK
<1>6. UNCHANGED <<row, claims, accepted, late, faults>>
    BY DEF ListDue
<1>7. \A x \in Dispatchers : CallInv(x)'
    BY <1>2, <1>3, <1>4, <1>6 DEF OutboxInv, OutboxTypeOK, CallInv, Counted, Working
<1> QED BY <1>5, <1>6, <1>7 DEF OutboxInv, OutboxTypeOK, PublishedWasAccepted,
                                   NeverGivenUpEarly, Counted

\* Going on with a part of the batch keeps what is known of the calls.
LEMMA RestInv ==
    ASSUME OutboxInv, NEW d \in Dispatchers, NEW S \in SUBSET DOMAIN call[d].batch,
           NEW batch \in [S -> Nat], \A e \in S : batch[e] = call[d].batch[e],
           Rest(d, batch), UNCHANGED <<claims, accepted>>
    PROVE  \A x \in Dispatchers : CallInv(x)'
<1>1. S \in SUBSET Events
    BY DEF OutboxInv, OutboxTypeOK, IsCall
<1>2. /\ call'[d].at \in {"idle", "listed"}
      /\ \A x \in Dispatchers \ {d} : call'[x] = call[x]
      /\ \A e \in DOMAIN call'[d].batch : e \in S /\ call'[d].batch[e] = batch[e]
    BY <1>1, RestTyped DEF OutboxInv
<1> QED BY <1>1, <1>2 DEF OutboxInv, CallInv, Counted, Working

\* A claim that leases the row makes the attempt it counts.
LEMMA ClaimStep == ASSUME OutboxInv, NEW d \in Dispatchers, NEW e \in Events, Claim(d, e)
                   PROVE  OutboxInv'
<1> DEFINE S == DOMAIN call[d].batch
           rest == Without(call[d].batch, e)
<1>1. /\ S \in SUBSET Events /\ call[d].batch \in [S -> Nat] /\ call[d].age \in 0..MaxAge
      /\ e \in S /\ IsCall(call[d])
    BY DEF Claim, OutboxInv, OutboxTypeOK, IsCall
<1>2. rest \in [S \ {e} -> Nat] /\ \A x \in S \ {e} : rest[x] = call[d].batch[x]
    <2> DEFINE B == call[d].batch
    <2>1. B \in [S -> Nat]
        BY <1>1
    <2> HIDE DEF B, S
    <2>2. Without(B, e) \in [S \ {e} -> Nat] /\ \A x \in S \ {e} : Without(B, e)[x] = B[x]
        BY <1>1, <2>1, WithoutTyped
    <2> QED BY <2>2 DEF B
<1> HIDE DEF rest
<1>3. CASE ~Due(e, call[d].age)
    <2>1. Rest(d, rest) /\ UNCHANGED <<row, claims, accepted, late, faults>>
        BY <1>3 DEF Claim, rest
    <2>2. DOMAIN call' = Dispatchers /\ \A x \in Dispatchers : IsCall(call'[x])
        BY <1>1, <1>2, <2>1, RestTyped DEF OutboxInv
    <2>4. S \ {e} \in SUBSET DOMAIN call[d].batch
          /\ \A x \in S \ {e} : rest[x] = call[d].batch[x]
        BY <1>2
    <2>3. \A x \in Dispatchers : CallInv(x)'
        BY <1>2, <2>1, <2>4, RestInv
    <2> QED BY <2>1, <2>2, <2>3 DEF OutboxInv, OutboxTypeOK, PublishedWasAccepted,
                                   NeverGivenUpEarly, Counted
<1>4. CASE Due(e, call[d].age)
    <2> DEFINE n == Attempt(d, e)
               leased == [row[e] EXCEPT !.status = "PUBLISHING", !.attempts = n,
                                        !.lease = Lease - call[d].age]
               next == [call[d] EXCEPT !.at = "publishing", !.event = e, !.attempt = n,
                                       !.batch = rest]
    <2>1. n \in Nat /\ n >= 1 /\ n = call[d].batch[e] + 1
        BY <1>1 DEF Attempt
    <2>2. /\ row' = [row EXCEPT ![e] = leased] /\ call' = [call EXCEPT ![d] = next]
          /\ claims' = [claims EXCEPT ![e] = Lower(claims[e] + 1, MaxAttempts)]
          /\ UNCHANGED <<accepted, late, faults>>
        BY <1>4 DEF Claim, rest, OutboxInv, OutboxTypeOK
    <2> DEFINE After(k, x) == k <= claims'[x] \/ claims'[x] = MaxAttempts
    <2> HIDE DEF n
    <2>3. /\ claims' \in [Events -> 0..MaxAttempts]
          /\ \A x \in Events : claims[x] <= claims'[x]
          /\ claims[e] = MaxAttempts => claims'[e] = MaxAttempts
          /\ claims'[e] = claims[e] + 1 \/ claims'[e] = MaxAttempts
        BY <2>2, OutboxAssumption DEF Lower, OutboxInv, OutboxTypeOK
    <2>4. \A x \in Events, k \in Nat : Counted(k, x) => After(k, x)
        BY <2>2, <2>3 DEF Counted, OutboxInv, OutboxTypeOK
    <2>5. After(n, e)
        <3>1. Counted(call[d].batch[e], e)
            BY <1>1 DEF OutboxInv, CallInv
        <3> QED BY <1>1, <2>1, <2>3, <3>1 DEF Counted, OutboxInv, OutboxTypeOK
    <2>6. leased \in Row /\ leased.wait >= -MaxAge /\ leased.lease >= NoLease
          /\ leased.status = "PUBLISHING" /\ leased.attempts = n
        <3>1. row[e] \in Row /\ row[e].wait >= -MaxAge
            BY DEF OutboxInv, OutboxTypeOK
        <3>2. Lease - call[d].age \in Int /\ Lease - call[d].age >= NoLease
            BY <1>1, OutboxAssumption DEF NoLease
        <3> QED BY <2>1, <3>1, <3>2 DEF Row, Statuses
    <2>7. IsCall(next) /\ next.at = "publishing" /\ next.attempt = n /\ next.event = e
          /\ next.batch = rest
        BY <1>1, <1>2, <2>1 DEF IsCall
    <2> HIDE DEF leased, next
    <2>8. OutboxTypeOK'
        BY <2>2, <2>3, <2>6, <2>7 DEF OutboxInv, OutboxTypeOK
    <2>9. PublishedWasAccepted' /\ NeverGivenUpEarly'
        BY <2>2, <2>3, <2>6 DEF OutboxInv, OutboxTypeOK, PublishedWasAccepted, NeverGivenUpEarly
    <2>10. \A x \in Events : Counted(row[x].attempts, x)'
        <3> SUFFICES ASSUME NEW x \in Events PROVE After(row'[x].attempts, x)
            BY DEF Counted
        <3>1. row[x].attempts \in Nat /\ Counted(row[x].attempts, x)
            BY DEF OutboxInv, OutboxTypeOK, Row
        <3> QED BY <2>2, <2>4, <2>5, <2>6, <3>1 DEF OutboxInv, OutboxTypeOK, Counted
    <2>11. ASSUME NEW x \in Dispatchers PROVE CallInv(x)'
        <3>1. CASE x = d
            <4>1. call'[x] = next
                BY <2>2, <3>1 DEF OutboxInv, OutboxTypeOK
            <4>2. \A y \in S \ {e} : After(rest[y], y)
                <5>1. \A y \in S : y \in Events /\ call[d].batch[y] \in Nat
                                  /\ Counted(call[d].batch[y], y)
                    BY <1>1 DEF OutboxInv, CallInv
                <5> QED BY <1>2, <2>4, <5>1
            <4> QED BY <1>2, <2>1, <2>5, <2>7, <4>1, <4>2 DEF CallInv, Working, Counted
        <3>2. CASE x # d
            <4>1. call'[x] = call[x] /\ IsCall(call[x]) /\ CallInv(x)
                BY <2>2, <3>2 DEF OutboxInv, OutboxTypeOK
            <4> QED BY <2>2, <2>4, <4>1 DEF CallInv, IsCall, Working, Counted
        <3> QED BY <3>1, <3>2
    <2> QED BY <2>8, <2>9, <2>10, <2>11 DEF OutboxInv
<1> QED BY <1>3, <1>4

\* A mark keeps what is known, if the state it writes is one the event has earned.
LEMMA MarkStep ==
    ASSUME OutboxInv, NEW d \in Dispatchers, NEW status \in Settled \cup {"RETRY"},
           NEW wait \in Int, wait >= -MaxAge, Mark(d, status, wait),
           status = "PUBLISHED" => call[d].event \in accepted,
           status = "DEAD_LETTER" => claims[call[d].event] = MaxAttempts
    PROVE  OutboxInv'
<1> DEFINE S == DOMAIN call[d].batch
           e == call[d].event
<1>1. S \in SUBSET Events /\ call[d].batch \in [S -> Nat] /\ e \in Events
    BY DEF OutboxInv, OutboxTypeOK, IsCall
<1>2. OutboxTypeOK'
    BY MarkTyped DEF OutboxInv
<1>3. Rest(d, call[d].batch) /\ UNCHANGED <<claims, accepted, late, faults>>
    BY DEF Mark
<1>4. \A x \in Dispatchers : CallInv(x)'
    BY <1>1, <1>3, RestInv
<1>5. /\ \A x \in Events : row'[x].attempts = row[x].attempts
      /\ \A x \in Events \ {e} : row'[x] = row[x]
      /\ row'[e].status = status
    <2>1. row[e] \in Row
        BY <1>1 DEF OutboxInv, OutboxTypeOK
    <2> QED BY <1>1, <2>1 DEF Mark, OutboxInv, OutboxTypeOK, Row
<1>6. PublishedWasAccepted' /\ NeverGivenUpEarly'
    BY <1>1, <1>3, <1>5 DEF OutboxInv, PublishedWasAccepted, NeverGivenUpEarly
<1>7. \A x \in Events : Counted(row[x].attempts, x)'
    BY <1>3, <1>5 DEF OutboxInv, Counted
<1> QED BY <1>2, <1>4, <1>6, <1>7 DEF OutboxInv

\* A step that changes where one call stands, with the same event, attempt and batch.
LEMMA MoveStep ==
    ASSUME OutboxInv, NEW d \in Dispatchers, NEW place \in {"published", "failed"},
           call[d].at \in Working, call' = [call EXCEPT ![d].at = place],
           accepted' \in SUBSET Events, accepted \subseteq accepted',
           place = "published" => call[d].event \in accepted',
           UNCHANGED <<row, claims, late, faults>>
    PROVE  OutboxInv'
<1> DEFINE next == [call[d] EXCEPT !.at = place]
<1>1. call' = [call EXCEPT ![d] = next]
    BY DEF OutboxInv, OutboxTypeOK
<1>2. /\ IsCall(next) /\ next.at = place /\ next.batch = call[d].batch
      /\ next.event = call[d].event /\ next.attempt = call[d].attempt
    BY DEF OutboxInv, OutboxTypeOK, IsCall
<1> HIDE DEF next
<1>3. DOMAIN call' = Dispatchers /\ \A x \in Dispatchers : IsCall(call'[x])
    BY <1>1, <1>2 DEF OutboxInv, OutboxTypeOK
<1>4. \A x \in Dispatchers : CallInv(x)'
    BY <1>1, <1>2 DEF OutboxInv, OutboxTypeOK, CallInv, Counted, Working
<1> QED BY <1>3, <1>4 DEF OutboxInv, OutboxTypeOK, PublishedWasAccepted,
                                   NeverGivenUpEarly, Counted

\* Every step keeps the invariant.
LEMMA OutboxInvStep == OutboxInv /\ [OutboxNext]_outboxVars => OutboxInv'
<1> SUFFICES ASSUME OutboxInv, [OutboxNext]_outboxVars PROVE OutboxInv'
    OBVIOUS
<1>1. CASE UNCHANGED outboxVars
    BY <1>1 DEF outboxVars, OutboxInv, OutboxTypeOK, PublishedWasAccepted, NeverGivenUpEarly,
                Counted, CallInv
<1>2. CASE Tick
    <2>1. OutboxTypeOK'
        BY <1>2, TickTyped DEF OutboxInv
    <2>2. \A e \in Events : row'[e].status = row[e].status /\ row'[e].attempts = row[e].attempts
        BY <1>2 DEF Tick, OutboxInv, OutboxTypeOK, Row
    <2>3. \A d \in Dispatchers :
            /\ call'[d].at = call[d].at /\ call'[d].batch = call[d].batch
            /\ call'[d].event = call[d].event /\ call'[d].attempt = call[d].attempt
        BY <1>2 DEF Tick, OutboxInv, OutboxTypeOK, IsCall
    <2>4. \A d \in Dispatchers : CallInv(d)'
        <3> SUFFICES ASSUME NEW d \in Dispatchers PROVE CallInv(d)'
            OBVIOUS
        <3>1. CallInv(d) /\ UNCHANGED <<claims, accepted>>
            BY <1>2 DEF Tick, OutboxInv
        <3> QED BY <2>3, <3>1 DEF CallInv, Counted
    <2> QED BY <1>2, <2>1, <2>2, <2>4
            DEF Tick, OutboxInv, PublishedWasAccepted, NeverGivenUpEarly, Counted
<1>3. ASSUME NEW e \in Events, Enqueue(e) PROVE OutboxInv'
    <2>1. row[e] \in Row
        BY DEF OutboxInv, OutboxTypeOK
    <2> DEFINE queued == [row[e] EXCEPT !.status = "PENDING"]
    <2>2. /\ queued \in Row /\ queued.status = "PENDING" /\ queued.attempts = row[e].attempts
          /\ queued.wait = row[e].wait /\ queued.lease = row[e].lease
        BY <2>1 DEF Row, Statuses
    <2>3. row' = [row EXCEPT ![e] = queued] /\ UNCHANGED <<call, claims, accepted, late, faults>>
        BY <1>3 DEF Enqueue
    <2> HIDE DEF queued
    <2>4. OutboxTypeOK'
        BY <2>2, <2>3 DEF OutboxInv, OutboxTypeOK
    <2> QED BY <2>2, <2>3, <2>4
            DEF OutboxInv, OutboxTypeOK, PublishedWasAccepted, NeverGivenUpEarly, Counted, CallInv
<1>4. ASSUME NEW d \in Dispatchers, Abandon(d) PROVE OutboxInv'
    <2>1. IsCall(Idle) /\ Idle.at = "idle" /\ DOMAIN Idle.batch = {}
        BY OutboxAssumption DEF Idle, IsCall, NoBatch
    <2>2. call' = [call EXCEPT ![d] = Idle] /\ UNCHANGED <<row, claims, accepted, late>>
          /\ faults' \in 0..MaxFaults
        BY <1>4, OutboxAssumption DEF Abandon, OutboxInv, OutboxTypeOK
    <2>3. OutboxTypeOK'
        BY <2>1, <2>2 DEF OutboxInv, OutboxTypeOK
    <2>4. \A x \in Dispatchers : CallInv(x)'
        BY <2>1, <2>2 DEF OutboxInv, OutboxTypeOK, CallInv, Counted, Working
    <2> QED BY <2>2, <2>3, <2>4 DEF OutboxInv, PublishedWasAccepted, NeverGivenUpEarly, Counted
<1>5. ASSUME NEW d \in Dispatchers, ListDue(d) PROVE OutboxInv'
    BY <1>5, ListDueStep
<1>6. ASSUME NEW d \in Dispatchers, Deliver(d) PROVE OutboxInv'
    <2>1. call[d].event \in Events /\ call[d].attempt \in Nat /\ call[d].age \in 0..MaxAge
          /\ CallInv(d)
        BY DEF OutboxInv, OutboxTypeOK, IsCall
    <2>2. row[call[d].event].wait \in Int /\ row[call[d].event].wait >= -MaxAge
        BY <2>1 DEF OutboxInv, OutboxTypeOK, Row
    <2>3. ASSUME NEW e \in Events, Claim(d, e) PROVE OutboxInv'
        BY <2>3, ClaimStep
    <2>4. CASE Publish(d)
        BY <2>1, <2>4, MoveStep DEF Publish, Working, OutboxInv, OutboxTypeOK
    <2>5. CASE MarkPublished(d)
        BY <2>1, <2>2, <2>5, MarkStep DEF MarkPublished, CallInv, Settled
    <2>6. CASE MarkPublishedFails(d)
        BY <2>1, <2>6, MoveStep DEF MarkPublishedFails, Working, OutboxInv, OutboxTypeOK
    <2>7. CASE MarkFailed(d)
        <3>1. call[d].attempt \in Nat \ {0} /\ Counted(call[d].attempt, call[d].event)
            BY <2>1, <2>7 DEF MarkFailed, CallInv, Working
        <3>2. CASE Exhausted(d)
            <4>1. claims[call[d].event] = MaxAttempts
                BY <2>1, <3>1, <3>2, OutboxAssumption
                DEF Exhausted, Counted, OutboxInv, OutboxTypeOK
            <4> QED BY <2>2, <2>7, <3>2, <4>1, MarkStep DEF MarkFailed, Settled
        <3>3. CASE ~Exhausted(d)
            <4> DEFINE wait == Delay(call[d].attempt) - call[d].age
            <4>1. wait \in Int /\ wait >= -MaxAge
                <5>1. Delay(call[d].attempt) \in Nat
                    BY <3>1, DelayTyped
                <5> QED BY <2>1, <5>1, OutboxAssumption
            <4>2. Mark(d, "RETRY", wait)
                BY <2>7, <3>3 DEF MarkFailed
            <4> HIDE DEF wait
            <4> QED BY <4>1, <4>2, MarkStep
        <3> QED BY <3>2, <3>3
    <2> QED BY <1>6, <2>3, <2>4, <2>5, <2>6, <2>7 DEF Deliver
<1> QED BY <1>1, <1>2, <1>3, <1>4, <1>5, <1>6 DEF OutboxNext

\* The initial state is well typed.
LEMMA InitTyped == OutboxInit => OutboxTypeOK
<1>1. IsCall(Idle)
    BY OutboxAssumption DEF Idle, IsCall, NoBatch
<1>2. NoRow \in Row /\ NoRow.wait >= -MaxAge /\ NoRow.lease >= NoLease
    BY OutboxAssumption DEF NoRow, Row, Statuses, NoLease
<1> QED BY <1>1, <1>2, OutboxAssumption DEF OutboxInit, OutboxTypeOK

\* The invariant holds in every reachable state.
LEMMA OutboxInvHolds == OutboxSpec => []OutboxInv
<1>1. OutboxInit => OutboxInv
    BY InitTyped DEF OutboxInit, OutboxInv, NoRow, Idle, NoBatch, PublishedWasAccepted, NeverGivenUpEarly,
                     Counted, CallInv, Working
<1> QED BY <1>1, OutboxInvStep, PTL DEF OutboxSpec

\* Type correctness of the outbox.
THEOREM OutboxTypeCorrect == OutboxSpec => []OutboxTypeOK
BY OutboxInvHolds, PTL DEF OutboxInv

\* However calls overlap, overrun their leases and die, no event is marked delivered that
\* the broker never accepted, and none is dead-lettered before its attempts were made.
THEOREM MarksAreEarned == OutboxSpec => [](PublishedWasAccepted /\ NeverGivenUpEarly)
BY OutboxInvHolds, PTL DEF OutboxInv

\* In particular, for any retry policy, an event is dead-lettered only after all its
\* attempts.
THEOREM NotGivenUpEarly == OutboxSpec => []NeverGivenUpEarly
BY OutboxInvHolds, PTL DEF OutboxInv

----------------------------------------------------------------------------
(***************************************************************************)
(* Leases, as long as no call outlives the lease it takes.                 *)
(***************************************************************************)

\* Whoever handles an event holds its row, on a lease that outlives the call.
Held == \A d \in Dispatchers, e \in Events : Handling(d, e) =>
            /\ row[e].status = "PUBLISHING"
            /\ row[e].lease >= Lease - call[d].age

Timely == \A d \in Dispatchers : call[d].age < Lease

LeaseInv == OutboxTypeOK /\ Timely /\ Apart /\ Held

\* A row on a lease that outlives every call is due for none.
LEMMA HeldNotDue ==
    ASSUME LeaseInv, NEW d \in Dispatchers, NEW e \in Events, Handling(d, e),
           NEW age \in 0..MaxAge
    PROVE  ~Due(e, age)
<1>1. row[e].status = "PUBLISHING" /\ row[e].lease >= Lease - call[d].age
    BY DEF LeaseInv, Held
<1>2. call[d].age \in 0..MaxAge /\ call[d].age < Lease /\ row[e].lease \in Int
    BY DEF LeaseInv, Timely, OutboxTypeOK, IsCall, Row
<1> QED BY <1>1, <1>2, OutboxAssumption DEF Due

\* A mark is made by the only call that handles the event, and ends its handling.
LEMMA MarkExcludes ==
    ASSUME LeaseInv, NEW d \in Dispatchers, NEW status, NEW wait,
           call[d].at \in Working, Mark(d, status, wait)
    PROVE  Apart' /\ Held'
<1> DEFINE S == DOMAIN call[d].batch
           e == call[d].event
<1>1. S \in SUBSET Events /\ call[d].batch \in [S -> Nat] /\ e \in Events
    BY DEF LeaseInv, OutboxTypeOK, IsCall
<1>2. call'[d].at \in {"idle", "listed"} /\ \A x \in Dispatchers \ {d} : call'[x] = call[x]
    BY <1>1, RestTyped DEF Mark, LeaseInv
<1>3. \A x \in Events \ {e} : row'[x] = row[x]
    BY <1>1 DEF Mark, LeaseInv, OutboxTypeOK
<1>4. Handling(d, e)
    BY DEF Handling, Working
<1>5. \A x \in Dispatchers, y \in Events : Handling(x, y)' => x # d /\ y # e /\ Handling(x, y)
    BY <1>1, <1>2, <1>4 DEF Handling, LeaseInv, Apart
<1>6. Held'
    <2> SUFFICES ASSUME NEW x \in Dispatchers, NEW y \in Events, Handling(x, y)'
                 PROVE  row'[y].status = "PUBLISHING" /\ row'[y].lease >= Lease - call'[x].age
        BY DEF Held
    <2> QED BY <1>2, <1>3, <1>5 DEF LeaseInv, Held
<1> QED BY <1>5, <1>6 DEF LeaseInv, Apart

\* A step that leaves the rows alone, and makes no call handle an event it did not handle.
LEMMA NoNewHandling ==
    ASSUME LeaseInv, UNCHANGED row,
           \A x \in Dispatchers, y \in Events :
               Handling(x, y)' => Handling(x, y) /\ call'[x].age = call[x].age
    PROVE  Apart' /\ Held'
BY DEF LeaseInv, Apart, Held

\* No call is older than its lease after a step that notes none of them as late.
LEMMA TimelyStep == ASSUME OutboxTypeOK, Timely, late' = {}, [OutboxNext]_outboxVars PROVE Timely'
<1> SUFFICES ASSUME NEW x \in Dispatchers PROVE call'[x].age < Lease
    BY DEF Timely
<1>0. IsCall(call[x]) /\ call[x].age < Lease /\ Idle.age = 0 /\ 0 < Lease
    BY OutboxAssumption DEF OutboxTypeOK, Timely, Idle
<1>1. CASE Tick
    <2>1. ~(call'[x].age >= Lease)
        BY <1>1 DEF Tick
    <2>2. call'[x].age \in Int
        <3>1. call'[x].age \in {call[x].age, call[x].age + 1}
            BY <1>0, <1>1 DEF Tick, OutboxTypeOK, IsCall
        <3> QED BY <1>0, <3>1, OutboxAssumption DEF IsCall
    <2> QED BY <2>1, <2>2, OutboxAssumption
<1>2. ASSUME NEW d \in Dispatchers, NEW batch, Rest(d, batch) PROVE call'[x].age < Lease
    BY <1>0, <1>2 DEF Rest, OutboxTypeOK, IsCall
<1>3. ASSUME NEW d \in Dispatchers, ListDue(d) PROVE call'[x].age < Lease
    BY <1>0, <1>3 DEF ListDue, OutboxTypeOK, IsCall
<1>4. ASSUME NEW d \in Dispatchers, NEW e \in Events, Claim(d, e) PROVE call'[x].age < Lease
    BY <1>0, <1>2, <1>4 DEF Claim, OutboxTypeOK, IsCall
<1>5. ASSUME NEW d \in Dispatchers, Publish(d) \/ MarkPublishedFails(d) PROVE call'[x].age < Lease
    BY <1>0, <1>5 DEF Publish, MarkPublishedFails, OutboxTypeOK, IsCall
<1>6. ASSUME NEW d \in Dispatchers, MarkPublished(d) \/ MarkFailed(d) PROVE call'[x].age < Lease
    BY <1>2, <1>6 DEF MarkPublished, MarkFailed, Mark
<1>7. ASSUME NEW d \in Dispatchers, Abandon(d) PROVE call'[x].age < Lease
    BY <1>0, <1>7 DEF Abandon, OutboxTypeOK
<1>8. CASE UNCHANGED call
    BY <1>0, <1>8
<1> QED BY <1>1, <1>3, <1>4, <1>5, <1>6, <1>7, <1>8 DEF OutboxNext, Deliver, Enqueue, outboxVars

\* Every step keeps dispatchers apart, and leaves settled rows settled.
LEMMA LeaseStep ==
    ASSUME OutboxInv, LeaseInv, late' = {}, [OutboxNext]_outboxVars
    PROVE  /\ LeaseInv'
           /\ Stays
<1> USE DEF Stays
<1> SUFFICES Apart' /\ Held' /\ Stays
    BY OutboxInvStep, TimelyStep DEF OutboxInv, LeaseInv
<1>0. ASSUME NEW d \in Dispatchers, NEW status, NEW wait, call[d].at \in Working,
             Mark(d, status, wait)
      PROVE  Apart' /\ Held' /\ Stays
    <2>1. Handling(d, call[d].event) /\ call[d].event \in Events
        BY <1>0 DEF Handling, Working, LeaseInv, OutboxTypeOK, IsCall
    <2>2. row[call[d].event].status = "PUBLISHING"
        BY <2>1 DEF LeaseInv, Held
    <2>3. Stays
        BY <1>0, <2>1, <2>2 DEF Mark, Settled, LeaseInv, OutboxTypeOK
    <2> QED BY <1>0, <2>3, MarkExcludes
<1>1. CASE UNCHANGED outboxVars
    BY <1>1, NoNewHandling DEF outboxVars, Handling
<1>2. CASE Tick
    <2>1. \A e \in Events : row'[e].status = row[e].status
        BY <1>2 DEF Tick, LeaseInv, OutboxTypeOK, Row
    <2>2. \A d \in Dispatchers, e \in Events : Handling(d, e)' => Handling(d, e)
        BY <1>2 DEF Tick, Handling, LeaseInv, OutboxTypeOK, IsCall
    <2>3. ASSUME NEW d \in Dispatchers, NEW e \in Events, Handling(d, e)
          PROVE  row'[e].lease >= Lease - call'[d].age
        <3>1. /\ row[e] \in Row /\ row[e].status = "PUBLISHING"
              /\ row[e].lease >= Lease - call[d].age
              /\ IsCall(call[d]) /\ call[d].at # "idle"
            BY <2>3 DEF LeaseInv, Held, OutboxTypeOK, Handling
        <3>2. call[d].age \in 0..MaxAge /\ row[e].lease \in Int
            BY <3>1 DEF IsCall, Row
        <3>3. row[e].lease # NoLease /\ row[e].lease # -MaxAge
            BY <3>1, <3>2, OutboxAssumption DEF NoLease
        <3>4. row'[e].lease = row[e].lease - 1
            BY <1>2, <3>1, <3>3 DEF Tick, Sooner, Row
        <3>5. call'[d].age = call[d].age + 1
            BY <1>2, <3>1 DEF Tick, IsCall
        <3> QED BY <3>1, <3>2, <3>4, <3>5, OutboxAssumption
    <2>4. Apart' /\ Held'
        <3>1. Apart'
            BY <2>2 DEF LeaseInv, Apart
        <3>2. Held'
            BY <2>1, <2>2, <2>3 DEF LeaseInv, Held
        <3> QED BY <3>1, <3>2
    <2> QED BY <2>1, <2>4
<1>3. ASSUME NEW e \in Events, Enqueue(e) PROVE Apart' /\ Held' /\ Stays
    <2>1. row[e] \in Row /\ row[e].status = "ABSENT" /\ UNCHANGED call
          /\ \A x \in Events \ {e} : row'[x] = row[x]
        BY <1>3 DEF Enqueue, LeaseInv, OutboxTypeOK
    <2>2. \A d \in Dispatchers : ~Handling(d, e)
        BY <2>1 DEF LeaseInv, Held
    <2>3. Held'
        BY <2>1, <2>2 DEF LeaseInv, Held, Handling
    <2> QED BY <2>1, <2>3 DEF LeaseInv, Apart, Handling, Settled
<1>4. ASSUME NEW d \in Dispatchers, Abandon(d) PROVE Apart' /\ Held' /\ Stays
    BY <1>4, NoNewHandling DEF Abandon, Idle, Handling, LeaseInv, OutboxTypeOK
<1>5. ASSUME NEW d \in Dispatchers, ListDue(d) PROVE Apart' /\ Held' /\ Stays
    <2>1. UNCHANGED row /\ call'[d].at = "listed" /\ \A x \in Dispatchers \ {d} : call'[x] = call[x]
        BY <1>5 DEF ListDue, LeaseInv, OutboxTypeOK, IsCall
    <2>2. \A x \in Dispatchers, e \in Events :
             Handling(x, e)' => Handling(x, e) /\ call'[x].age = call[x].age
        BY <2>1 DEF Handling
    <2> QED BY <2>1, <2>2, NoNewHandling
<1>6. ASSUME NEW d \in Dispatchers, NEW e \in Events, Claim(d, e)
      PROVE  Apart' /\ Held' /\ Stays
    <2> DEFINE S == DOMAIN call[d].batch
               rest == Without(call[d].batch, e)
    <2>1. /\ S \in SUBSET Events /\ call[d].batch \in [S -> Nat] /\ call[d].age \in 0..MaxAge
          /\ IsCall(call[d]) /\ row[e] \in Row
        BY DEF LeaseInv, OutboxTypeOK, IsCall
    <2>2. rest \in [S \ {e} -> Nat]
        BY <2>1, WithoutTyped
    <2> HIDE DEF rest
    <2>3. CASE ~Due(e, call[d].age)
        <3>1. Rest(d, rest) /\ UNCHANGED row
            BY <1>6, <2>3 DEF Claim, rest
        <3>2. call'[d].at \in {"idle", "listed"} /\ \A x \in Dispatchers \ {d} : call'[x] = call[x]
            BY <2>1, <2>2, <3>1, RestTyped DEF LeaseInv
        <3>3. \A x \in Dispatchers, y \in Events :
                 Handling(x, y)' => Handling(x, y) /\ call'[x].age = call[x].age
            BY <3>2 DEF Handling
        <3> QED BY <3>1, <3>3, NoNewHandling
    <2>4. CASE Due(e, call[d].age)
        <3>1. \A x \in Dispatchers : ~Handling(x, e)
            BY <2>1, <2>4, HeldNotDue
        <3>2. /\ call'[d].at = "publishing" /\ call'[d].event = e /\ call'[d].age = call[d].age
              /\ \A x \in Dispatchers \ {d} : call'[x] = call[x]
            BY <1>6, <2>1, <2>4 DEF Claim, LeaseInv, OutboxTypeOK, IsCall
        <3>3. /\ row'[e].status = "PUBLISHING" /\ row'[e].lease = Lease - call[d].age
              /\ \A x \in Events \ {e} : row'[x] = row[x]
            BY <1>6, <2>1, <2>4 DEF Claim, LeaseInv, OutboxTypeOK, Row
        <3>4. \A x \in Dispatchers, y \in Events :
                 Handling(x, y)' => (x = d /\ y = e) \/ (x # d /\ y # e /\ Handling(x, y))
            BY <3>1, <3>2 DEF Handling
        <3>5. Apart'
            BY <3>4 DEF LeaseInv, Apart
        <3>6. Held'
            <4> SUFFICES ASSUME NEW x \in Dispatchers, NEW y \in Events, Handling(x, y)'
                         PROVE  row'[y].status = "PUBLISHING" /\ row'[y].lease >= Lease - call'[x].age
                BY DEF Held
            <4>1. CASE x = d /\ y = e
                BY <2>1, <3>2, <3>3, <4>1, OutboxAssumption
            <4>2. CASE x # d /\ y # e /\ Handling(x, y)
                BY <3>2, <3>3, <4>2 DEF LeaseInv, Held
            <4> QED BY <3>4, <4>1, <4>2
        <3>7. Stays
            BY <2>4, <3>3 DEF Due, Settled
        <3> QED BY <3>5, <3>6, <3>7
    <2> QED BY <2>3, <2>4
<1>7. ASSUME NEW d \in Dispatchers, Publish(d) \/ MarkPublishedFails(d)
      PROVE  Apart' /\ Held' /\ Stays
    <2>1. /\ UNCHANGED row /\ call[d].at \in Working /\ IsCall(call[d])
          /\ \E place \in Working : call' = [call EXCEPT ![d].at = place]
        BY <1>7 DEF Publish, MarkPublishedFails, Working, LeaseInv, OutboxTypeOK
    <2>2. \A x \in Dispatchers : call'[x].event = call[x].event /\ call'[x].age = call[x].age
                                 /\ (x # d => call'[x] = call[x])
        BY <2>1 DEF LeaseInv, OutboxTypeOK, IsCall
    <2>3. \A x \in Dispatchers, e \in Events :
             Handling(x, e)' => Handling(x, e) /\ call'[x].age = call[x].age
        BY <2>1, <2>2 DEF Handling, Working
    <2> QED BY <2>1, <2>3, NoNewHandling
<1>8. ASSUME NEW d \in Dispatchers, MarkPublished(d) \/ MarkFailed(d)
      PROVE  Apart' /\ Held' /\ Stays
    BY <1>0, <1>8 DEF MarkPublished, MarkFailed, Working
<1> QED BY <1>1, <1>2, <1>3, <1>4, <1>5, <1>6, <1>7, <1>8 DEF OutboxNext, Deliver

\* Only the passing of time notes a call that outlives its lease.
LEMMA LateFrame == ASSUME [OutboxNext]_outboxVars, ~Tick PROVE late' = late
<1>1. ASSUME NEW d \in Dispatchers,
             Publish(d) \/ MarkPublished(d) \/ MarkPublishedFails(d) \/ MarkFailed(d)
      PROVE  late' = late
    <2>1. Publish(d) \/ MarkPublishedFails(d) => late' = late
        BY DEF Publish, MarkPublishedFails
    <2>2. MarkPublished(d) \/ MarkFailed(d) => late' = late
        BY DEF MarkPublished, MarkFailed, Mark
    <2> QED BY <1>1, <2>1, <2>2
<1>2. ASSUME NEW d \in Dispatchers, NEW e \in Events, Claim(d, e) PROVE late' = late
    BY <1>2 DEF Claim
<1>3. ASSUME NEW d \in Dispatchers, ListDue(d) \/ Abandon(d) PROVE late' = late
    BY <1>3 DEF ListDue, Abandon
<1>4. ASSUME NEW e \in Events, Enqueue(e) PROVE late' = late
    BY <1>4 DEF Enqueue
<1>5. CASE UNCHANGED outboxVars
    BY <1>5 DEF outboxVars
<1> QED BY <1>1, <1>2, <1>3, <1>4, <1>5 DEF OutboxNext, Deliver

\* What has outlived its lease once stays noted.
LEMMA LateKept == ASSUME [OutboxNext]_outboxVars, late' = {} PROVE late = {}
<1>1. CASE Tick
    BY <1>1 DEF Tick
<1> QED BY <1>1, LateFrame

\* The lease invariant holds until a call outlives its lease.
LEMMA LeaseInvHolds == OutboxSpec => []((late = {} => LeaseInv) /\ OutboxInv)
<1>1. OutboxInit => LeaseInv
    <2>1. OutboxInit => OutboxTypeOK
        BY InitTyped
    <2>2. OutboxInit => \A d \in Dispatchers, e \in Events : ~Handling(d, e)
        BY DEF OutboxInit, Idle, Handling
    <2>3. OutboxInit => Timely
        BY OutboxAssumption DEF OutboxInit, Idle, Timely
    <2> QED BY <2>1, <2>2, <2>3 DEF LeaseInv, Apart, Held
<1>2. OutboxInv /\ (late = {} => LeaseInv) /\ [OutboxNext]_outboxVars => (late = {} => LeaseInv)'
    BY LeaseStep, LateKept
<1> QED BY <1>1, <1>2, OutboxInvHolds, PTL DEF OutboxSpec

\* While no call of dispatchDue has outlived the lease it takes, no two dispatchers handle
\* one event at the same time, whatever they list, claim, lose and abandon.
THEOREM LeasesExclude == OutboxSpec => []LeaseExcludes
<1>1. (late = {} => LeaseInv) => LeaseExcludes
    BY DEF LeaseInv, LeaseExcludes
<1> QED BY <1>1, LeaseInvHolds, PTL

\* As long, a delivered or dead-lettered event stays what it is.
THEOREM SettledForGood == OutboxSpec => SettledStays
<1>1. ASSUME OutboxInv, LeaseInv, late = {}, [OutboxNext]_outboxVars PROVE Stays
    <2>1. CASE Tick
        BY <1>1, <2>1 DEF Tick, Stays, LeaseInv, OutboxTypeOK, Row
    <2>2. CASE ~Tick
        <3>1. late' = late
            BY <1>1, <2>2, LateFrame
        <3>2. late = {}
            BY <1>1
        <3> QED BY <1>1, <3>1, <3>2, LeaseStep
    <2> QED BY <2>1, <2>2
<1>2. OutboxInv /\ (late = {} => LeaseInv) /\ [OutboxNext]_outboxVars
        => [late = {} => Stays]_outboxVars
    BY <1>1
<1> QED BY <1>2, LeaseInvHolds, PTL DEF OutboxSpec, SettledStays

----------------------------------------------------------------------------
(***************************************************************************)
(* The intake, for any number of events, handlers, operators and failing   *)
(* calls.  The unique index on the source event is what everything rests   *)
(* on: from CreateProjection until its reply a handler holds its event, and*)
(* no two handlers hold the same one.                                      *)
(***************************************************************************)

HoldingStage == {"projected", "updated", "receipted", "undoReceipt", "undoStatus",
                 "undoProjection"}
Holds(h) == handler[h].at \in HoldingStage

\* A handler that holds an event has its projection, alone.
Exclusive ==
    /\ \A h \in Handlers : Holds(h) => Event(h) \in projection
    /\ \A g, h \in Handlers : Holds(g) /\ Holds(h) /\ Event(g) = Event(h) => g = h

\* What a handler knows of itself is true of the stores.
Honest ==
    \A h \in Handlers :
        /\ At(h, "receipted") => Event(h) \in receipt
        /\ Holds(h) => Event(h) \notin announced
        /\ Holds(h) /\ handler[h].activated =>
               Event(h) \in Approved /\ handler[h].seen.status = "PENDING"
        /\ handler[h].at \in {"new", "read", "projected"} => ~handler[h].activated

Inv == TypeOK /\ Exclusive /\ Honest /\ AnnouncedStands

\* A handler without a request is typed, and holds nothing.
LEMMA NoRequestTyped ==
    /\ NewOrganisation \in Organisation
    /\ NoRequest \in Request /\ NoRequest.at = "idle"
    /\ NoRequest.receipted = FALSE /\ NoRequest.activated = FALSE
<1> DEFINE e == CHOOSE x \in ErpEvents : TRUE
<1>1. e \in ErpEvents
  BY ActivationAssumption
<1>2. NewOrganisation \in Organisation
  BY DEF NewOrganisation, Organisation, OrgStatus, Partners
<1>3. NoRequest = [at |-> "idle", event |-> e, seen |-> NewOrganisation,
                   activated |-> FALSE, receipted |-> FALSE]
  BY DEF NoRequest
<1> HIDE DEF e
<1>4. "idle" \in Stage
  BY DEF Stage
<1> QED BY <1>1, <1>2, <1>3, <1>4 DEF Request

\* Init establishes the invariant.
LEMMA InitInv == Init => Inv
<1> SUFFICES ASSUME Init PROVE Inv
  OBVIOUS
<1> USE ActivationAssumption DEF Init
<1>1. NoRequest \in Request /\ NoRequest.at = "idle" /\ NewOrganisation \in Organisation
  BY NoRequestTyped
<1>2. TypeOK
  BY <1>1 DEF TypeOK, Change, OrgStatus
<1>3. \A h \in Handlers : handler[h].at = "idle"
  BY <1>1
<1>4. Exclusive /\ Honest /\ AnnouncedStands
  BY <1>3 DEF Exclusive, Honest, AnnouncedStands, Holds, HoldingStage, At
<1> QED BY <1>2, <1>4 DEF Inv

\* Every step keeps the types.
LEMMA TypeStep == TypeOK /\ [Next]_vars => TypeOK'
<1> SUFFICES ASSUME TypeOK, [Next]_vars PROVE TypeOK'
  OBVIOUS
<1> USE ActivationAssumption DEF TypeOK
<1>0. NoRequest \in Request
  BY NoRequestTyped
<1>1. ASSUME NEW h \in Handlers, NEW e \in ErpEvents, Receive(h, e) PROVE TypeOK'
  BY <1>0, <1>1 DEF Receive, Stores, counters, Request, Stage
<1>2. ASSUME NEW h \in Handlers, RetrieveOrganisation(h) PROVE TypeOK'
  BY <1>0, <1>2 DEF RetrieveOrganisation, Stores, counters, Request, Stage, Reply
<1>3. ASSUME NEW h \in Handlers, CreateProjection(h) PROVE TypeOK'
  BY <1>0, <1>3 DEF CreateProjection, counters, Request, Stage, Reply, Goto, Event
<1>4. ASSUME NEW h \in Handlers, UpdateOrganisation(h) PROVE TypeOK'
  <2>1. Partner(h) \in Partners /\ Activates(h) \in BOOLEAN
    BY DEF Partner, Partners, Event, Request, Activates
  <2>2. org' \in Organisation
    BY <1>4, <2>1 DEF UpdateOrganisation, Organisation, OrgStatus
  <2>3. [handler[h] EXCEPT !.at = "updated", !.activated = Activates(h)] \in Request
    BY <2>1 DEF Request, Stage
  <2>4. handler' = [handler EXCEPT ![h] = [handler[h] EXCEPT !.at = "updated", !.activated = Activates(h)]]
    BY <1>4 DEF UpdateOrganisation
  <2>5. handler' \in [Handlers -> Request]
    BY <2>3, <2>4
  <2> QED BY <1>4, <2>2, <2>5 DEF UpdateOrganisation, counters
<1>5. ASSUME NEW h \in Handlers, CreateReceipt(h) PROVE TypeOK'
  BY <1>5 DEF CreateReceipt, counters, Request, Stage, Goto, Event
<1>6. ASSUME NEW h \in Handlers, Announce(h) PROVE TypeOK'
  BY <1>0, <1>6 DEF Announce, counters, Request, Stage, Reply, Event
<1>7. ASSUME NEW h \in Handlers, Fail(h) PROVE TypeOK'
  BY <1>0, <1>7 DEF Fail, Stores, Request, Stage, Reply, Goto
<1>8. ASSUME NEW h \in Handlers, Swallow(h) PROVE TypeOK'
  BY <1>0, <1>8 DEF Swallow, Stores, Request, Stage, Reply, Goto
<1>9. ASSUME NEW h \in Handlers, UndoReceipt(h) PROVE TypeOK'
  BY <1>9 DEF UndoReceipt, counters, Request, Stage, Goto
<1>10. ASSUME NEW h \in Handlers, UndoStatus(h) PROVE TypeOK'
  BY <1>10 DEF UndoStatus, counters, Request, Stage, Goto, Organisation, OrgStatus
<1>11. ASSUME NEW h \in Handlers, UndoProjection(h) PROVE TypeOK'
  BY <1>0, <1>11 DEF UndoProjection, counters, Request, Stage, Reply
<1>12. ASSUME NEW s \in Staff, NEW status \in OrgStatus, CheckTransition(s, status) PROVE TypeOK'
  BY <1>12 DEF CheckTransition, Stores, counters, Change
<1>13. ASSUME NEW s \in Staff, WriteStatus(s) PROVE TypeOK'
  BY <1>13 DEF WriteStatus, counters, Change, Organisation
<1>14. CASE UNCHANGED vars
  BY <1>14 DEF vars, counters
<1> QED
  BY <1>1, <1>2, <1>3, <1>4, <1>5, <1>6, <1>7, <1>8, <1>9, <1>10, <1>11, <1>12, <1>13, <1>14
     DEF Next, Handle

\* Every step keeps a held event with its one holder.
LEMMA ExclusiveStep == TypeOK /\ Exclusive /\ [Next]_vars => Exclusive'
<1> SUFFICES ASSUME TypeOK, Exclusive, [Next]_vars PROVE Exclusive'
  OBVIOUS
<1> USE DEF Exclusive, TypeOK, Request, Holds, HoldingStage, Event
<1>0. NoRequest.at = "idle"
  BY DEF NoRequest
<1>1. ASSUME NEW h \in Handlers, NEW e \in ErpEvents, Receive(h, e) PROVE Exclusive'
  BY <1>1 DEF Receive, Stores
<1>2. ASSUME NEW h \in Handlers, RetrieveOrganisation(h) PROVE Exclusive'
  BY <1>0, <1>2 DEF RetrieveOrganisation, Stores, Reply
<1>3. ASSUME NEW h \in Handlers, CreateProjection(h) PROVE Exclusive'
  BY <1>0, <1>3 DEF CreateProjection, Reply, Goto
<1>4. ASSUME NEW h \in Handlers, UpdateOrganisation(h) PROVE Exclusive'
  BY <1>4 DEF UpdateOrganisation, At
<1>5. ASSUME NEW h \in Handlers, CreateReceipt(h) PROVE Exclusive'
  BY <1>5 DEF CreateReceipt, Goto, At
<1>6. ASSUME NEW h \in Handlers, Announce(h) PROVE Exclusive'
  BY <1>0, <1>6 DEF Announce, Reply
<1>7. ASSUME NEW h \in Handlers, Fail(h) PROVE Exclusive'
  BY <1>0, <1>7 DEF Fail, Stores, Reply, Goto, At
<1>8. ASSUME NEW h \in Handlers, Swallow(h) PROVE Exclusive'
  BY <1>0, <1>8 DEF Swallow, Stores, Reply, Goto, At
<1>9. ASSUME NEW h \in Handlers, UndoReceipt(h) PROVE Exclusive'
  BY <1>9 DEF UndoReceipt, Goto, At
<1>10. ASSUME NEW h \in Handlers, UndoStatus(h) PROVE Exclusive'
  BY <1>10 DEF UndoStatus, Goto, At
<1>11. ASSUME NEW h \in Handlers, UndoProjection(h) PROVE Exclusive'
  BY <1>0, <1>11 DEF UndoProjection, Reply, At
<1>12. ASSUME NEW s \in Staff, NEW status \in OrgStatus, CheckTransition(s, status)
       PROVE Exclusive'
  BY <1>12 DEF CheckTransition, Stores
<1>13. ASSUME NEW s \in Staff, WriteStatus(s) PROVE Exclusive'
  BY <1>13 DEF WriteStatus
<1>14. CASE UNCHANGED vars
  BY <1>14 DEF vars
<1> QED
  BY <1>1, <1>2, <1>3, <1>4, <1>5, <1>6, <1>7, <1>8, <1>9, <1>10, <1>11, <1>12, <1>13, <1>14
     DEF Next, Handle

\* Every step keeps the handlers honest and the announcements proven.
LEMMA InvStep == Inv /\ [Next]_vars => Inv'
<1> SUFFICES ASSUME Inv, [Next]_vars PROVE Honest' /\ AnnouncedStands'
  BY TypeStep, ExclusiveStep DEF Inv
<1> USE DEF Inv, Exclusive, Honest, AnnouncedStands, TypeOK, Request, Holds, HoldingStage, Event, At
<1>0. NoRequest.at = "idle" /\ NoRequest.activated = FALSE
  BY DEF NoRequest
<1>1. ASSUME NEW h \in Handlers, NEW e \in ErpEvents, Receive(h, e)
      PROVE  Honest' /\ AnnouncedStands'
  BY <1>0, <1>1 DEF Receive, Stores
<1>2. ASSUME NEW h \in Handlers, RetrieveOrganisation(h) PROVE Honest' /\ AnnouncedStands'
  BY <1>0, <1>2 DEF RetrieveOrganisation, Stores, Reply
<1>3. ASSUME NEW h \in Handlers, CreateProjection(h) PROVE Honest' /\ AnnouncedStands'
  BY <1>0, <1>3 DEF CreateProjection, Reply, Goto
<1>4. ASSUME NEW h \in Handlers, UpdateOrganisation(h) PROVE Honest' /\ AnnouncedStands'
  BY <1>4 DEF UpdateOrganisation, Activates
<1>5. ASSUME NEW h \in Handlers, CreateReceipt(h) PROVE Honest' /\ AnnouncedStands'
  BY <1>5 DEF CreateReceipt, Goto
<1>6. ASSUME NEW h \in Handlers, Announce(h) PROVE Honest' /\ AnnouncedStands'
  BY <1>0, <1>6 DEF Announce, Reply
<1>7. ASSUME NEW h \in Handlers, Fail(h) PROVE Honest' /\ AnnouncedStands'
  BY <1>0, <1>7 DEF Fail, Stores, Reply, Goto
<1>8. ASSUME NEW h \in Handlers, Swallow(h) PROVE Honest' /\ AnnouncedStands'
  BY <1>0, <1>8 DEF Swallow, Stores, Reply, Goto
<1>9. ASSUME NEW h \in Handlers, UndoReceipt(h) PROVE Honest' /\ AnnouncedStands'
  BY <1>9 DEF UndoReceipt, Goto
<1>10. ASSUME NEW h \in Handlers, UndoStatus(h) PROVE Honest' /\ AnnouncedStands'
  BY <1>10 DEF UndoStatus, Goto
<1>11. ASSUME NEW h \in Handlers, UndoProjection(h) PROVE Honest' /\ AnnouncedStands'
  BY <1>0, <1>11 DEF UndoProjection, Reply
<1>12. ASSUME NEW s \in Staff, NEW status \in OrgStatus, CheckTransition(s, status)
       PROVE Honest' /\ AnnouncedStands'
  BY <1>12 DEF CheckTransition, Stores
<1>13. ASSUME NEW s \in Staff, WriteStatus(s) PROVE Honest' /\ AnnouncedStands'
  BY <1>13 DEF WriteStatus
<1>14. CASE UNCHANGED vars
  BY <1>14 DEF vars
<1> QED
  BY <1>1, <1>2, <1>3, <1>4, <1>5, <1>6, <1>7, <1>8, <1>9, <1>10, <1>11, <1>12, <1>13, <1>14
     DEF Next, Handle

\* The invariant holds in every reachable state.
LEMMA InvHolds == Spec => []Inv
<1> QED BY InitInv, InvStep, PTL DEF Spec

\* The types hold whatever overlaps and fails.
THEOREM ActivationTypeCorrect == Spec => []TypeOK
<1>1. Inv => TypeOK
  BY DEF Inv
<1> QED BY <1>1, InvHolds, PTL

\* No interleaving, failing call or failing compensation takes back the projection or the
\* receipt of an activation that was announced.
THEOREM AnnouncementsStand == Spec => []AnnouncedStands
<1>1. Inv => AnnouncedStands
  BY DEF Inv
<1> QED BY <1>1, InvHolds, PTL

----------------------------------------------------------------------------
(***************************************************************************)
(* While compensations succeed: what is left of an event when no request   *)
(* of it is running.                                                       *)
(***************************************************************************)
\* The records of an event nobody holds agree, and a holder knows what it has written.
Tidy ==
    /\ receipt \subseteq projection
    /\ \A e \in projection : e \in receipt \/ \E h \in Handlers : Holds(h) /\ Event(h) = e
    /\ \A h \in Handlers :
           /\ handler[h].at \in {"new", "read", "projected", "updated"} => ~handler[h].receipted
           /\ At(h, "projected") \/ At(h, "updated") => Event(h) \notin receipt
           /\ At(h, "receipted") => handler[h].receipted
           /\ At(h, "undoReceipt") /\ Event(h) \in receipt => handler[h].receipted
           /\ At(h, "undoStatus") \/ At(h, "undoProjection") => Event(h) \notin receipt

\* No step forgets that a compensation failed or that staff stepped in.
LEMMA HistoryKept ==
    ASSUME TypeOK, [Next]_vars
    PROVE  (swallowed' = 0 => swallowed = 0) /\ (governor' = "erp" => governor = "erp")
<1>1. ASSUME NEW h \in Handlers, Swallow(h) PROVE swallowed' # 0 /\ governor' = governor
  BY <1>1 DEF Swallow, TypeOK
<1>2. ASSUME NEW s \in Staff, WriteStatus(s) PROVE swallowed' = swallowed /\ governor' = "staff"
  BY <1>2 DEF WriteStatus, counters
<1>3. ASSUME ~\E h \in Handlers : Swallow(h), ~\E s \in Staff : WriteStatus(s)
      PROVE  swallowed' = swallowed /\ governor' = governor
  BY <1>3 DEF vars, counters, Next, Handle, Receive, RetrieveOrganisation, CreateProjection,
              UpdateOrganisation, CreateReceipt, Announce, Fail, UndoReceipt, UndoStatus,
              UndoProjection, CheckTransition
<1> QED BY <1>1, <1>2, <1>3

\* The records stay tidy when one request moves on, keeps what it holds, and fits the receipts.
LEMMA TidyFrame ==
    ASSUME TypeOK, Tidy, NEW h \in Handlers, UNCHANGED <<projection, receipt>>,
           \A g \in Handlers \ {h} : handler'[g] = handler[g],
           Holds(h) => /\ handler'[h].at = "undoReceipt" /\ handler'[h].event = handler[h].event
                       /\ Event(h) \in receipt => handler'[h].receipted,
           ~Holds(h) => handler'[h].at \in {"idle", "read"} /\ ~handler'[h].receipted
    PROVE  Tidy'
<1> USE DEF Holds, HoldingStage, Event, At
<1>1. receipt' \subseteq projection'
  BY DEF Tidy
<1>2. ASSUME NEW e \in projection'
      PROVE  e \in receipt' \/ \E g \in Handlers : (Holds(g) /\ Event(g) = e)'
  <2>1. CASE e \notin receipt
    <3>1. PICK g \in Handlers : Holds(g) /\ Event(g) = e
      BY <1>2, <2>1 DEF Tidy
    <3>2. (Holds(g) /\ Event(g) = e)'
      <4>1. CASE g = h
        BY <3>1, <4>1
      <4>2. CASE g # h
        BY <3>1, <4>2
      <4> QED BY <4>1, <4>2
    <3> QED BY <3>2
  <2> QED BY <2>1
<1>3. ASSUME NEW g \in Handlers, g # h
      PROVE  handler'[g] = handler[g] /\ receipt' = receipt
  BY <1>3
<1> QED BY <1>1, <1>2, <1>3 DEF Tidy

\* A step keeps the records tidy as long as no compensation fails.
LEMMA TidyStep ==
    ASSUME Inv, Inv', Tidy, swallowed' = 0, [Next]_vars
    PROVE  Tidy'
<1> USE DEF Tidy, Inv, Exclusive, Honest, TypeOK, Request, Holds, HoldingStage, Event, At
<1>0. NoRequest.at = "idle" /\ NoRequest.receipted = FALSE
  BY DEF NoRequest
<1>1. ASSUME NEW h \in Handlers, NEW e \in ErpEvents, Receive(h, e) PROVE Tidy'
  BY <1>0, <1>1 DEF Receive, Stores
<1>2. ASSUME NEW h \in Handlers, RetrieveOrganisation(h) PROVE Tidy'
  <2>1. UNCHANGED <<projection, receipt>> /\ \A g \in Handlers \ {h} : handler'[g] = handler[g]
    BY <1>2 DEF RetrieveOrganisation, Stores, Reply
  <2>2. ~Holds(h) /\ ~handler[h].receipted
    BY <1>2 DEF RetrieveOrganisation
  <2>3. handler'[h].at \in {"idle", "read"} /\ ~handler'[h].receipted
    BY <1>0, <1>2, <2>2 DEF RetrieveOrganisation, Reply
  <2> QED BY <2>1, <2>2, <2>3, TidyFrame
<1>3. ASSUME NEW h \in Handlers, CreateProjection(h) PROVE Tidy'
  BY <1>0, <1>3 DEF CreateProjection, Reply, Goto
<1>4. ASSUME NEW h \in Handlers, UpdateOrganisation(h) PROVE Tidy'
  BY <1>4 DEF UpdateOrganisation
<1>5. ASSUME NEW h \in Handlers, CreateReceipt(h) PROVE Tidy'
  BY <1>5 DEF CreateReceipt, Goto
<1>6. ASSUME NEW h \in Handlers, Announce(h) PROVE Tidy'
  BY <1>0, <1>6 DEF Announce, Reply
<1>7. ASSUME NEW h \in Handlers, Fail(h) PROVE Tidy'
  <2>1. UNCHANGED <<projection, receipt>> /\ \A g \in Handlers \ {h} : handler'[g] = handler[g]
    BY <1>7 DEF Fail, Stores, Reply, Goto
  <2>2. CASE (At(h, "new") \/ At(h, "read")) /\ Reply(h)
    <3>1. handler'[h].at = "idle" /\ ~handler'[h].receipted /\ ~Holds(h)
      BY <1>0, <2>2 DEF Reply
    <3> QED BY <2>1, <3>1, TidyFrame
  <2>3. CASE /\ At(h, "projected") \/ At(h, "updated") \/ At(h, "receipted")
             /\ Goto(h, "undoReceipt")
    <3>1. handler'[h] = [handler[h] EXCEPT !.at = "undoReceipt"]
      BY <2>3 DEF Goto
    <3>2. /\ handler'[h].at = "undoReceipt" /\ handler'[h].event = handler[h].event
          /\ handler'[h].receipted = handler[h].receipted /\ Holds(h)
      BY <2>3, <3>1
    <3>3. Event(h) \in receipt => handler[h].receipted
      BY <2>3
    <3> QED BY <2>1, <3>2, <3>3, TidyFrame
  <2> QED BY <1>7, <2>2, <2>3 DEF Fail
<1>8. ASSUME NEW h \in Handlers, Swallow(h) PROVE Tidy'
  BY <1>8 DEF Swallow
<1>9. ASSUME NEW h \in Handlers, UndoReceipt(h) PROVE Tidy'
  BY <1>9 DEF UndoReceipt, Goto
<1>10. ASSUME NEW h \in Handlers, UndoStatus(h) PROVE Tidy'
  BY <1>10 DEF UndoStatus, Goto
<1>11. ASSUME NEW h \in Handlers, UndoProjection(h) PROVE Tidy'
  BY <1>0, <1>11 DEF UndoProjection, Reply
<1>12. ASSUME NEW s \in Staff, NEW status \in OrgStatus, CheckTransition(s, status)
       PROVE Tidy'
  BY <1>12 DEF CheckTransition, Stores
<1>13. ASSUME NEW s \in Staff, WriteStatus(s) PROVE Tidy'
  BY <1>13 DEF WriteStatus
<1>14. CASE UNCHANGED vars
  BY <1>14 DEF vars
<1> QED
  BY <1>1, <1>2, <1>3, <1>4, <1>5, <1>6, <1>7, <1>8, <1>9, <1>10, <1>11, <1>12, <1>13, <1>14
     DEF Next, Handle

\* The records are tidy in every state, if compensations do not fail.
LEMMA TidyHolds == Spec => [](swallowed = 0 => Tidy)
<1>1. Init => Tidy
  BY DEF Init, Tidy, NoRequest, At, Holds, HoldingStage
<1>2. Inv /\ Inv' /\ (swallowed = 0 => Tidy) /\ [Next]_vars => (swallowed = 0 => Tidy)'
  BY TidyStep, HistoryKept DEF Inv
<1> QED BY <1>1, <1>2, InvHolds, PTL DEF Spec

\* Once no request is running, an event has left its projection and its receipt, or
\* neither, if the compensations that ran succeeded.
THEOREM AllOrNothingHolds == Spec => []AllOrNothing
<1>1. Inv /\ (swallowed = 0 => Tidy) => AllOrNothing
  BY DEF Inv, Tidy, AllOrNothing, AnnouncedStands, Quiet, At, Holds, HoldingStage
<1> QED BY <1>1, InvHolds, TidyHolds, PTL

----------------------------------------------------------------------------
(***************************************************************************)
(* While the ERP alone changes the status: an active organisation has      *)
(* evidence.                                                               *)
(***************************************************************************)
\* An approval whose projection stays, or goes only after the activation has been undone.
Evidence(e) ==
    /\ e \in projection /\ e \in Approved
    /\ \A h \in Handlers : Holds(h) /\ Event(h) = e =>
           handler[h].activated /\ ~At(h, "undoProjection")

Supported == org.status = "ACTIVE" => \E e \in ErpEvents : Evidence(e)

\* No step of a handler leaves an active organisation without evidence.
LEMMA SupportedStep ==
    ASSUME Inv, Inv', Supported, swallowed' = 0, governor' = "erp", [Next]_vars
    PROVE  Supported'
<1> USE DEF Supported, Evidence, Inv, Exclusive, Honest, TypeOK, Request, Holds, HoldingStage,
            Event, At
<1>0. NoRequest.at = "idle" /\ NoRequest.activated = FALSE
  BY DEF NoRequest
<1>1. ASSUME NEW h \in Handlers, NEW e \in ErpEvents, Receive(h, e) PROVE Supported'
  BY <1>0, <1>1 DEF Receive, Stores
<1>2. ASSUME NEW h \in Handlers, RetrieveOrganisation(h) PROVE Supported'
  BY <1>0, <1>2 DEF RetrieveOrganisation, Stores, Reply
<1>3. ASSUME NEW h \in Handlers, CreateProjection(h) PROVE Supported'
  BY <1>0, <1>3 DEF CreateProjection, Reply, Goto
<1>4. ASSUME NEW h \in Handlers, UpdateOrganisation(h) PROVE Supported'
  <2>1. CASE Activates(h)
    BY <1>4, <2>1 DEF UpdateOrganisation, Activates
  <2>2. CASE ~Activates(h)
    BY <1>4, <2>2 DEF UpdateOrganisation
  <2> QED BY <2>1, <2>2
<1>5. ASSUME NEW h \in Handlers, CreateReceipt(h) PROVE Supported'
  BY <1>5 DEF CreateReceipt, Goto
<1>6. ASSUME NEW h \in Handlers, Announce(h) PROVE Supported'
  BY <1>0, <1>6 DEF Announce, Reply
<1>7. ASSUME NEW h \in Handlers, Fail(h) PROVE Supported'
  BY <1>0, <1>7 DEF Fail, Stores, Reply, Goto
<1>8. ASSUME NEW h \in Handlers, Swallow(h) PROVE Supported'
  BY <1>8 DEF Swallow
<1>9. ASSUME NEW h \in Handlers, UndoReceipt(h) PROVE Supported'
  BY <1>9 DEF UndoReceipt, Goto
<1>10. ASSUME NEW h \in Handlers, UndoStatus(h) PROVE Supported'
  BY <1>10 DEF UndoStatus, Goto
<1>11. ASSUME NEW h \in Handlers, UndoProjection(h) PROVE Supported'
  BY <1>0, <1>11 DEF UndoProjection, Reply
<1>12. ASSUME NEW s \in Staff, NEW status \in OrgStatus, CheckTransition(s, status)
       PROVE Supported'
  BY <1>12 DEF CheckTransition, Stores
<1>13. ASSUME NEW s \in Staff, WriteStatus(s) PROVE Supported'
  BY <1>13 DEF WriteStatus
<1>14. CASE UNCHANGED vars
  BY <1>14 DEF vars
<1> QED
  BY <1>1, <1>2, <1>3, <1>4, <1>5, <1>6, <1>7, <1>8, <1>9, <1>10, <1>11, <1>12, <1>13, <1>14
     DEF Next, Handle

\* An organisation staff never touched is active only with the projection of an approval,
\* however many handlers overlap and fail, as long as no compensation fails.
THEOREM ActivationIsEvidenced == Spec => []ActiveHasEvidence
<1> DEFINE Untouched == swallowed = 0 /\ governor = "erp"
<1>1. Init => (Untouched => Supported)
  BY DEF Init, Supported, NewOrganisation
<1>2. Inv /\ Inv' /\ (Untouched => Supported) /\ [Next]_vars => (Untouched => Supported)'
  BY SupportedStep, HistoryKept DEF Inv
<1>3. (Untouched => Supported) => ActiveHasEvidence
  BY DEF Supported, Evidence, ActiveHasEvidence
<1> HIDE DEF Untouched
<1> QED BY <1>1, <1>2, <1>3, InvHolds, PTL DEF Spec

----------------------------------------------------------------------------
\* A suspension ends by staff or by a request that read PENDING before: the status is
\* written by staff, by an activation, and by the undoing of one.
THEOREM SuspensionsHold == Spec => SuspensionHolds
<1>1. ASSUME Inv, [Next]_vars, Lifted PROVE LiftedByStaff \/ LiftedByEarlierRead
  <2> USE DEF Inv, TypeOK, Lifted, LiftedByStaff, LiftedByEarlierRead
  <2>1. CASE \E s \in Staff : WriteStatus(s)
    <3>1. PICK s \in Staff : WriteStatus(s)
      BY <2>1
    <3>2. operator[s].at = "read" /\ operator' = [operator EXCEPT ![s].at = "idle"]
      BY <3>1 DEF WriteStatus
    <3>3. operator'[s].at = "idle"
      BY <1>1, <3>2 DEF Change
    <3> QED BY <3>2, <3>3
  <2>2. ASSUME NEW h \in Handlers, UpdateOrganisation(h) PROVE LiftedByStaff \/ LiftedByEarlierRead
    BY <1>1, <2>2, Zenon DEF UpdateOrganisation, Activates, At, Request, Organisation
  <2>3. ASSUME NEW h \in Handlers, UndoStatus(h) PROVE LiftedByStaff \/ LiftedByEarlierRead
    BY <1>1, <2>3 DEF UndoStatus, Goto, At, Request, Honest, Holds, HoldingStage
  <2>4. CASE org' = org
    BY <1>1, <2>4
  <2> QED
    BY <1>1, <2>1, <2>2, <2>3, <2>4
       DEF Next, Handle, vars, Stores, Receive, RetrieveOrganisation, CreateProjection,
           CreateReceipt, Announce, Fail, Swallow, UndoReceipt, UndoProjection, CheckTransition
<1>2. Inv /\ [Next]_vars => [Lifted => LiftedByStaff \/ LiftedByEarlierRead]_vars
  BY <1>1
<1> QED BY <1>2, InvHolds, PTL DEF Spec, SuspensionHolds
===============================================================================
