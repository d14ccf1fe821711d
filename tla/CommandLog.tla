----------------------------- MODULE CommandLog -----------------------------
(***************************************************************************)
(* PostgresSpendReservationCommands.run: the transaction around every      *)
(* spend command (spend-reservation-commands.ts:672-746) and the           *)
(* b2b_spend_command table.  SpendLedger models what a command does to the *)
(* ledger; here that is one effect, and what matters is when it becomes    *)
(* durable, how often, and what the caller is told.                        *)
(*                                                                         *)
(* An attempt is one call of run.  A caller that retries makes another     *)
(* attempt with the same request.  Statements of concurrent attempts       *)
(* interleave; an attempt may die, or lose its connection, anywhere.       *)
(*                                                                         *)
(* An operator Mutant... is a wrong form of the definition after it, of    *)
(* the kind a code change could bring; no action uses it.  Each property   *)
(* below fails when one of them takes the definition's place.              *)
(***************************************************************************)
EXTENDS FiniteSets

CONSTANTS
    Attempts,    \* calls of run
    Keys,        \* idempotency keys
    Requests,    \* requests: kind, content and whether a mutation is composed (the request digest)
    RequestOf,   \* the request of each attempt
    KeyOf,       \* the idempotency key of each request
    Composed,    \* the requests of commitWithMutation
    NoRequest, Nobody

ASSUME CommandAssumption ==
    /\ RequestOf \in [Attempts -> Requests] /\ KeyOf \in [Requests -> Keys]
    /\ Composed \subseteq Requests
    /\ NoRequest \notin Requests /\ Nobody \notin Attempts

VARIABLES
    pc,        \* how far each attempt has come
    reply,     \* what its caller was told
    lock,      \* the attempt that holds the advisory lock of each key
    record,    \* b2b_spend_command, committed rows: the request recorded under each key
    effects,   \* committed ledger effects, by the attempt that made them
    mutations  \* committed writes of composed mutations, by attempt

commandVars == <<pc, reply, lock, record, effects, mutations>>

Req(a) == RequestOf[a]
Key(a) == KeyOf[RequestOf[a]]
InTransaction == {"begun", "locked", "executed", "mutated", "recorded"}
Replies == {"NONE", "APPLIED", "REPLAYED", "CONFLICT", "REFUSED", "SOURCE_UNAVAILABLE"}

CommandTypeOK ==
    /\ pc \in [Attempts -> InTransaction \cup {"idle", "committed", "done"}]
    /\ reply \in [Attempts -> Replies]
    /\ lock \in [Keys -> Attempts \cup {Nobody}]
    /\ record \in [Keys -> Requests \cup {NoRequest}]
    /\ effects \subseteq Attempts /\ mutations \subseteq Attempts

CommandInit ==
    /\ pc = [a \in Attempts |-> "idle"]
    /\ reply = [a \in Attempts |-> "NONE"]
    /\ lock = [k \in Keys |-> Nobody]
    /\ record = [k \in Keys |-> NoRequest]
    /\ effects = {} /\ mutations = {}

----------------------------------------------------------------------------
MutantUnlock(a) == UNCHANGED lock   \* a session lock outlives the transaction
\* The end of a transaction: the advisory lock is a transaction lock.
Unlock(a) == lock' = [k \in Keys |-> IF lock[k] = a THEN Nobody ELSE lock[k]]
Finish(a, answer) == /\ pc' = [pc EXCEPT ![a] = "done"]
                     /\ reply' = [reply EXCEPT ![a] = answer]
Goto(a, label) == /\ pc' = [pc EXCEPT ![a] = label]
                  /\ UNCHANGED reply
Durable == <<record, effects, mutations>>

\* BEGIN, on a connection of the pool.
Begin(a) == /\ pc[a] = "idle" /\ Goto(a, "begun")
            /\ UNCHANGED <<lock, Durable>>
NoConnection(a) == /\ pc[a] = "idle" /\ Finish(a, "SOURCE_UNAVAILABLE")
                   /\ UNCHANGED <<lock, Durable>>

\* pg_advisory_xact_lock on the key; lock_timeout aborts a wait.
TakeLock(a) == /\ pc[a] = "begun" /\ lock[Key(a)] = Nobody
               /\ lock' = [lock EXCEPT ![Key(a)] = a]
               /\ Goto(a, "locked") /\ UNCHANGED Durable

MutantPrior(a) ==   \* any recorded result is replayed, whatever was asked
    /\ pc[a] = "locked" /\ record[Key(a)] # NoRequest
    /\ Unlock(a) /\ Finish(a, "REPLAYED") /\ UNCHANGED Durable
\* The key is recorded: the original result for the same request, else CONFLICT.
Prior(a) == /\ pc[a] = "locked" /\ record[Key(a)] # NoRequest
            /\ Unlock(a)
            /\ Finish(a, IF record[Key(a)] = Req(a) THEN "REPLAYED" ELSE "CONFLICT")
            /\ UNCHANGED Durable

\* execute(db): the command itself, which may refuse or find its purchase taken.
Execute(a) ==
    /\ pc[a] = "locked" /\ record[Key(a)] = NoRequest
    /\ \/ Goto(a, "executed") /\ UNCHANGED lock
       \/ \E answer \in {"REFUSED", "CONFLICT"} : Finish(a, answer) /\ Unlock(a)
    /\ UNCHANGED Durable

\* The composed mutation runs on the same connection, before the record.
Mutate(a) == /\ pc[a] = "executed" /\ Req(a) \in Composed
             /\ Goto(a, "mutated") /\ UNCHANGED <<lock, Durable>>

Record(a) == /\ pc[a] = "mutated" \/ (pc[a] = "executed" /\ Req(a) \notin Composed)
             /\ Goto(a, "recorded") /\ UNCHANGED <<lock, Durable>>

MutantCommitCommand(a) ==   \* the effect commits, the record does not
    /\ pc[a] = "recorded" /\ Goto(a, "committed") /\ Unlock(a)
    /\ effects' = effects \cup {a}
    /\ mutations' = mutations \cup (IF Req(a) \in Composed THEN {a} ELSE {})
    /\ UNCHANGED record
\* COMMIT: the ledger, the mutation and the record become durable together.
CommitCommand(a) ==
    /\ pc[a] = "recorded" /\ record[Key(a)] = NoRequest
    /\ Goto(a, "committed") /\ Unlock(a)
    /\ record' = [record EXCEPT ![Key(a)] = Req(a)]
    /\ effects' = effects \cup {a}
    /\ mutations' = mutations \cup (IF Req(a) \in Composed THEN {a} ELSE {})

Answer(a) == /\ pc[a] = "committed" /\ Finish(a, "APPLIED")
             /\ UNCHANGED <<lock, Durable>>

\* Any error before COMMIT is durable rolls the transaction back: a statement or
\* lock timeout, a deadlock, a thrown mutation, a deferred constraint at COMMIT.
Abort(a) == /\ pc[a] \in InTransaction
            /\ Unlock(a) /\ Finish(a, "SOURCE_UNAVAILABLE") /\ UNCHANGED Durable

\* The connection breaks after the server committed and before the client heard:
\* the catch block cannot tell this from an abort.
AcknowledgementLost(a) == /\ pc[a] = "committed" /\ Finish(a, "SOURCE_UNAVAILABLE")
                          /\ UNCHANGED <<lock, Durable>>

\* The process of the attempt dies: its connection closes, nobody is told.
Crash(a) == /\ pc[a] \in InTransaction \cup {"committed"}
            /\ Unlock(a) /\ Finish(a, "NONE") /\ UNCHANGED Durable

Step(a) == \/ Begin(a) \/ TakeLock(a) \/ Prior(a) \/ Execute(a) \/ Mutate(a)
           \/ Record(a) \/ CommitCommand(a) \/ Answer(a)
Failure(a) == NoConnection(a) \/ Abort(a) \/ AcknowledgementLost(a) \/ Crash(a)

CommandNext == \E a \in Attempts : Step(a) \/ Failure(a)

\* A running attempt takes its next statement: run awaits each in turn, and a lock
\* it waits for is released when the holder ends or times out.
CommandSpec ==
    /\ CommandInit /\ [][CommandNext]_commandVars
    /\ \A a \in Attempts : WF_commandVars(Step(a))

----------------------------------------------------------------------------
(***************************************************************************)
(* Properties.                                                             *)
(***************************************************************************)

\* A key is spent once: retries, concurrent duplicates and crashes at any statement
\* never make two attempts of one key take effect, and an effect, its mutation and
\* its record are durable together or not at all.
AppliedOnce ==
    /\ \A a, b \in effects : Key(a) = Key(b) => a = b
    /\ \A a \in effects : record[Key(a)] = Req(a)
    /\ \A k \in Keys : record[k] # NoRequest => \E a \in effects : Key(a) = k
    /\ mutations = {a \in effects : Req(a) \in Composed}

\* A success is never invented: a caller told APPLIED or REPLAYED asked for exactly
\* the request that is recorded under its key, and that request took effect; a
\* capacity-only COMMIT never replays as a composed one or the reverse.
SuccessIsTrue ==
    \A a \in Attempts : reply[a] \in {"APPLIED", "REPLAYED"} =>
        /\ record[Key(a)] = Req(a)
        /\ \E b \in effects : Req(b) = Req(a)
        /\ Req(a) \in Composed => \E b \in mutations : Req(b) = Req(a)

\* Every attempt that starts ends: no lock wait, however attempts of one key pile
\* up, blocks an attempt for ever.
AttemptsEnd == \A a \in Attempts : pc[a] = "begun" ~> pc[a] = "done"

\* The log implements the promise it makes to callers.
Promise == INSTANCE IdempotentCommand WITH effects <- {Req(a) : a \in effects}
KeepsPromise == Promise!Spec
=============================================================================
