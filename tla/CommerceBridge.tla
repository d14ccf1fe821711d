------------------------------ MODULE CommerceBridge ------------------------------
(***************************************************************************)
(* The payment bridge and the fulfilment bridge: commerce records that are *)
(* created under an idempotency key and then moved along a table of        *)
(* statuses, each move recorded as a row under a key of its own.  A port   *)
(* checks a call against the snapshot its caller holds; the adapter behind *)
(* it takes a lock, reads again, writes the transition row and then, in a  *)
(* write of its own, the status.                                           *)
(*                                                                         *)
(* The lock is the locking module's: distributed (Redis) in production,    *)
(* else local to a process, and then the callers, one in each process,     *)
(* have only the unique indexes of the tables between them.                *)
(*                                                                         *)
(* Calls of different kinds touch different tables, so a behaviour has one *)
(* kind of `work`, on one `bridge`.                                        *)
(*                                                                         *)
(* An operator Mutant... is a wrong form of the definition after it, of    *)
(* the kind a code change could bring; no action uses it.  Each property   *)
(* below fails when one of them takes the definition's place.              *)
(***************************************************************************)
EXTENDS Naturals, FiniteSets

CONSTANTS
  Callers,      \* concurrent callers
  Records,      \* records that exist and can be moved
  Keys,         \* idempotency keys
  Estates,      \* Digital Estates a record is created for
  Items,        \* business keys of allocations, order lines and returns
  Targets,      \* statuses a caller asks for
  Calls,        \* a bound: calls of each caller
  Crashes,      \* a bound: processes that end in a call
  None

ASSUME BridgeAssumption == Calls \in Nat /\ Crashes \in Nat

VARIABLES
  setting,      \* [bridge, work, distributed]: what the behaviour is about
  created,      \* the records created: [key, estate, by, past], the last for the properties
  items,        \* the items recorded: [item, by]
  status,       \* the status of each record that exists
  log,          \* the transition rows: [record, key, from, to]
  call,         \* what each caller is doing
  crashes,      \* the processes that may still end
  held,         \* every status each record has had: a snapshot of it may still be used
  made          \* history: the transition rows whose status was written

vars == <<setting, created, items, status, log, call, crashes, held, made>>

--------------------------------------------------------------------------------
(* The statuses.                                                           *)

PaymentTable ==
  [CREATED    |-> {"PENDING", "AUTHORIZED", "FAILED", "CANCELLED", "UNKNOWN"},
   PENDING    |-> {"AUTHORIZED", "CAPTURED", "FAILED", "CANCELLED", "UNKNOWN"},
   AUTHORIZED |-> {"CAPTURED", "CANCELLED", "UNKNOWN"},
   CAPTURED   |-> {"SETTLED", "UNKNOWN"},
   SETTLED    |-> {},
   FAILED     |-> {},
   CANCELLED  |-> {},
   UNKNOWN    |-> {"PENDING", "AUTHORIZED", "CAPTURED", "FAILED", "CANCELLED"}]

FulfilmentTable ==
  [REQUESTED  |-> {"ACCEPTED", "CANCELLED", "EXCEPTION", "RECONCILIATION_REQUIRED"},
   ACCEPTED   |-> {"ALLOCATED", "CANCELLED", "EXCEPTION", "RECONCILIATION_REQUIRED"},
   ALLOCATED  |-> {"DISPATCHED", "EXCEPTION", "RECONCILIATION_REQUIRED"},
   DISPATCHED |-> {"DELIVERED", "EXCEPTION", "RECONCILIATION_REQUIRED"},
   DELIVERED  |-> {},
   CANCELLED  |-> {},
   EXCEPTION  |-> {"RECONCILIATION_REQUIRED", "ACCEPTED", "ALLOCATED", "DISPATCHED"},
   RECONCILIATION_REQUIRED |-> {"ACCEPTED", "ALLOCATED", "DISPATCHED", "DELIVERED", "CANCELLED"}]

IsPayment == setting.bridge = "payment"
Table == IF IsPayment THEN PaymentTable ELSE FulfilmentTable
First == IF setting.bridge = "payment" THEN "CREATED" ELSE "REQUESTED"

--------------------------------------------------------------------------------
(* Calls.                                                                  *)

Init ==
  /\ setting \in [bridge : {"payment"}, work : {"create", "move"}, distributed : BOOLEAN]
                 \cup [bridge : {"fulfilment"}, work : {"create", "record", "move"},
                       distributed : BOOLEAN]
  /\ created = {} /\ items = {} /\ log = {} /\ made = {}
  /\ status = [r \in Records |-> First]
  /\ held = [r \in Records |-> {First}]
  /\ call = [c \in Callers |-> [at |-> "idle", ask |-> None, found |-> None, left |-> Calls]]
  /\ crashes = Crashes

Ended == {"idle", "answered", "refused", "crashed"}
Locked == {"read", "again", "insert", "update"}
At(c, op, place) == call[c].at = place /\ call[c].ask.op = op
Ask(c) == call[c].ask
Go(c, place, found) == call' = [call EXCEPT ![c].at = place, ![c].found = found]
Answer(c, found) == Go(c, "answered", found)
Refuse(c) == Go(c, "refused", None)
NoWrite == UNCHANGED <<setting, created, items, status, log, crashes, held, made>>

Begin(c, place, ask) ==
  /\ call[c].at \in Ended /\ call[c].left > 0
  /\ setting.work = ask.op
  /\ call' = [call EXCEPT ![c] = [at |-> place, ask |-> ask, found |-> None, left |-> @.left - 1]]
  /\ NoWrite

\* The name of the lock a call takes; all items here are of one order line.
LockOf(ask) == <<ask.op, CASE ask.op = "create" -> ask.key
                           [] ask.op = "record" -> None
                           [] ask.op = "move" -> ask.record>>

\* A lock of a process does not reach the callers of the others.
Lock(c) ==
  /\ call[c].at = "lock"
  /\ setting.distributed =>
       ~\E d \in Callers : call[d].at \in Locked /\ LockOf(Ask(d)) = LockOf(Ask(c))
  /\ Go(c, "read", None)
  /\ NoWrite

\* The process ends: its lock falls, and of what it was doing nothing is resumed.
Crash(c) ==
  /\ call[c].at \in Locked /\ crashes > 0
  /\ crashes' = crashes - 1
  /\ Go(c, "crashed", None)
  /\ UNCHANGED <<setting, created, items, status, log, held, made>>

\* A unique index refuses the rows a call inserts.
Clash(ask, missing) ==
  CASE ask.op = "create" -> \E x \in created : x.key = ask.key
    [] ask.op = "record" -> \E x \in items : x.item \in missing
    [] ask.op = "move" -> \E row \in log : /\ row.key = ask.key
                                           /\ IsPayment \/ row.record = ask.record

--------------------------------------------------------------------------------
(* A record, created under an idempotency key.                             *)

Under(key) == {x \in created : x.key = key}
Row(S) == CHOOSE x \in S : TRUE

Initiate(c) ==
  \E key \in Keys, estate \in Estates :
    Begin(c, "find", [op |-> "create", key |-> key, estate |-> estate])

MutantFind(c) ==   \* the port answers whatever the key finds
  /\ At(c, "create", "find")
  /\ LET rows == Under(Ask(c).key) IN
       IF rows = {} THEN Go(c, "lock", None) ELSE Answer(c, Row(rows))
  /\ NoWrite
\* The port looks first, and refuses the key of another estate's record.
Find(c) ==
  /\ At(c, "create", "find")
  /\ LET rows == Under(Ask(c).key) IN
       \/ rows = {} /\ Go(c, "lock", None)
       \/ rows # {} /\ Row(rows).estate # Ask(c).estate /\ Refuse(c)
       \/ rows # {} /\ Row(rows).estate = Ask(c).estate /\ Answer(c, Row(rows))
  /\ NoWrite

\* Under the lock the adapter looks again, and answers whatever it finds.
FindAgain(c) ==
  /\ At(c, "create", "read")
  /\ LET rows == Under(Ask(c).key) IN
       IF rows = {} THEN Go(c, "insert", None) ELSE Answer(c, Row(rows))
  /\ NoWrite

\* The calls under a key that are past the look of the port, which found nothing
\* (kept for the properties).
Past(key) ==
  {<<d, call[d].left>> : d \in {e \in Callers :
      call[e].at \in {"lock"} \cup Locked /\ Ask(e).op = "create" /\ Ask(e).key = key}}

\* What another caller inserted meanwhile is answered as if it were found.
Create(c) ==
  /\ At(c, "create", "insert")
  /\ LET row == [key |-> Ask(c).key, estate |-> Ask(c).estate, by |-> c,
                 past |-> Past(Ask(c).key)] IN
       \/ /\ ~Clash(Ask(c), None)
          /\ created' = created \cup {row}
          /\ Answer(c, row)
       \/ /\ Clash(Ask(c), None)
          /\ Answer(c, Row(Under(Ask(c).key)))
          /\ UNCHANGED created
  /\ UNCHANGED <<setting, items, status, log, crashes, held, made>>

--------------------------------------------------------------------------------
(* Allocations, order lines and returns: several business keys at once.    *)

Recorded == {x.item : x \in items}

Allocate(c) ==
  \E wanted \in (SUBSET Items) \ {{}} : Begin(c, "lock", [op |-> "record", wanted |-> wanted])

FindItems(c) ==
  /\ At(c, "record", "read")
  /\ LET missing == Ask(c).wanted \ Recorded IN
       IF missing = {} THEN Answer(c, None) ELSE Go(c, "insert", missing)
  /\ NoWrite

\* All the missing rows are inserted, or none and the answer is what is there.
CreateItems(c) ==
  /\ At(c, "record", "insert")
  /\ IF Clash(Ask(c), call[c].found)
     THEN UNCHANGED items
     ELSE items' = items \cup {[item |-> i, by |-> c] : i \in call[c].found}
  /\ Answer(c, None)
  /\ UNCHANGED <<setting, created, status, log, crashes, held, made>>

--------------------------------------------------------------------------------
(* A status, moved under an idempotency key.                               *)

\* The caller holds a snapshot of any age; the port refuses what its table does not
\* list and does nothing more.
Transition(c) ==
  \E r \in Records, to \in Targets, key \in Keys : \E from \in held[r] :
    /\ to \in Table[from]
    /\ Begin(c, "lock", [op |-> "move", record |-> r, from |-> from, to |-> to, key |-> key])

\* The payment bridge looks the key up among the rows of all payments.
ReadPrior(c) ==
  /\ At(c, "move", "read")
  /\ Go(c, "again", {row \in log : /\ row.key = Ask(c).key
                                   /\ IsPayment \/ row.record = Ask(c).record})
  /\ NoWrite

MutantIsReplay(row, ask) ==   \* a key answers for whatever is asked under it
  TRUE
\* The row found is taken for this very transition: the payment bridge compares it
\* with the request, the fulfilment bridge with the status of now.
IsReplay(row, ask) ==
  /\ row.to = ask.to
  /\ row.from = IF IsPayment THEN ask.from ELSE status[ask.record]

MutantIsCurrent(ask) == TRUE   \* the snapshot is not compared with the row
IsCurrent(ask) == status[ask.record] = ask.from

ReadCurrent(c) ==
  /\ At(c, "move", "again")
  /\ LET prior == call[c].found IN
       \/ prior # {} /\ IsReplay(Row(prior), Ask(c)) /\ Answer(c, None)
       \/ prior # {} /\ ~IsReplay(Row(prior), Ask(c)) /\ Refuse(c)
       \/ prior = {} /\ ~IsCurrent(Ask(c)) /\ Refuse(c)
       \/ prior = {} /\ IsCurrent(Ask(c)) /\ Go(c, "insert", None)
  /\ NoWrite

\* The index of the payment bridge is on the key, of the fulfilment bridge on the
\* record and the key; only the latter answers for the row that was in its way.
InsertRow(c) ==
  /\ At(c, "move", "insert")
  /\ LET ask == Ask(c)
         row == [record |-> ask.record, key |-> ask.key, from |-> ask.from, to |-> ask.to]
     IN \/ /\ ~Clash(ask, None)
           /\ log' = log \cup {row}
           /\ Go(c, "update", None)
        \/ /\ Clash(ask, None)
           /\ IF ~IsPayment /\ row \in log THEN Answer(c, None) ELSE Refuse(c)
           /\ UNCHANGED log
  /\ UNCHANGED <<setting, created, items, status, crashes, held, made>>

\* The status is written in a transaction of its own.
UpdateStatus(c) ==
  /\ At(c, "move", "update")
  /\ LET ask == Ask(c) IN
       /\ status' = [status EXCEPT ![ask.record] = ask.to]
       /\ held' = [held EXCEPT ![ask.record] = @ \cup {ask.to}]
       /\ made' = made \cup {[record |-> ask.record, key |-> ask.key,
                              from |-> ask.from, to |-> ask.to]}
  /\ Answer(c, None)
  /\ UNCHANGED <<setting, created, items, log, crashes>>

Next ==
  \E c \in Callers :
    \/ Lock(c) \/ Crash(c)
    \/ Initiate(c) \/ Find(c) \/ FindAgain(c) \/ Create(c)
    \/ Allocate(c) \/ FindItems(c) \/ CreateItems(c)
    \/ Transition(c) \/ ReadPrior(c) \/ ReadCurrent(c) \/ InsertRow(c) \/ UpdateStatus(c)

Spec == Init /\ [][Next]_vars

--------------------------------------------------------------------------------
(* What the bridges promise.                                               *)

Creations == [key : Keys, estate : Estates, by : Callers,
              past : SUBSET (Callers \X (0 .. Calls))]
Moves == [record : Records, key : Keys, from : DOMAIN Table, to : DOMAIN Table]
Asks == [op : {"create"}, key : Keys, estate : Estates]
        \cup [op : {"record"}, wanted : SUBSET Items]
        \cup [op : {"move"}, record : Records, from : DOMAIN Table, to : DOMAIN Table, key : Keys]
Answers == {None} \cup CASE setting.work = "create" -> Creations
                          [] setting.work = "record" -> SUBSET Items
                          [] setting.work = "move" -> SUBSET Moves

\* Every record has a status of its bridge's table, and every row and call names
\* such statuses.
TypeOK ==
  /\ setting \in [bridge : {"payment", "fulfilment"}, work : {"create", "record", "move"},
                  distributed : BOOLEAN]
  /\ created \subseteq Creations
  /\ items \subseteq [item : Items, by : Callers]
  /\ status \in [Records -> DOMAIN Table]
  /\ held \in [Records -> SUBSET DOMAIN Table]
  /\ log \subseteq Moves /\ made \subseteq Moves
  /\ crashes \in 0 .. Crashes
  /\ call \in [Callers -> [at : Ended \cup Locked \cup {"find", "lock"},
                            ask : Asks \cup {None}, found : Answers, left : 0 .. Calls]]

Answered(c, op) == At(c, op, "answered")

\* However the locks reach, a key has one record, and whoever creates under the key is
\* answered that record.  It is a record of the caller's own Digital Estate, as the ports
\* demand of a key that is used again (orchestration-port.ts:90-94, fulfilment-port.ts:133-135),
\* with one exception: another caller created it after this one had looked in the port,
\* and the adapter's second look and its answer to a unique violation do not compare
\* estates (payment-record-adapter.ts:60-61, 85-87, record-adapter.ts:49-50, 72-74).
\* Under the distributed lock, whoever was answered by the creation of allocations
\* finds every one of its own recorded (allocation-record-adapter.ts:47-90).
CreatedOnce ==
  /\ \A x, y \in created : x.key = y.key => x = y
  /\ \A c \in Callers :
       /\ Answered(c, "create") =>
            LET x == call[c].found IN
            /\ x \in Under(Ask(c).key)
            /\ x.estate = Ask(c).estate \/ <<c, call[c].left>> \in x.past
       /\ Answered(c, "record") /\ setting.distributed => Ask(c).wanted \subseteq Recorded

\* Under the distributed lock no update is lost: a status is followed only by one
\* its table lists, however old the snapshot of whoever moves it and whoever moves
\* it at the same time (payment-record-adapter.ts:100-104, record-adapter.ts:84-89).
NoLostUpdate ==
  [][\A r \in Records :
       status'[r] # status[r] /\ setting.distributed => status'[r] \in Table[status[r]]]_vars

\* Under the distributed lock a transition answered as done was made, then or
\* before, under its key.  There are two exceptions and no third: the process that
\* wrote its row ended before the status, or the key is the key of another
\* payment's transition (payment-record-adapter.ts:106-119, record-adapter.ts:91-103).
DoneMeansMoved ==
  \A c \in Callers :
    Answered(c, "move") /\ setting.distributed =>
      LET mine(rows) == \E row \in rows : /\ row.key = Ask(c).key /\ row.to = Ask(c).to
                                          /\ row.record = Ask(c).record
      IN \/ mine(made)
         \/ crashes < Crashes /\ mine(log \ made)
         \/ IsPayment /\ \E row \in log : row.key = Ask(c).key /\ row.record # Ask(c).record

================================================================================
