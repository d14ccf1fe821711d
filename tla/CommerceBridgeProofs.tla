--------------------------- MODULE CommerceBridgeProofs ---------------------------
(***************************************************************************)
(* What the payment and fulfilment bridges guarantee for any number of     *)
(* callers, records, keys, estates and items.                              *)
(***************************************************************************)
EXTENDS CommerceBridge, TLAPS

\* A call names what its kind names, and is where its kind can be.
Asking(c) ==
  LET a == Ask(c) IN
  call[c].at # "idle" =>
    /\ a \in Asks /\ a.op = setting.work
    /\ a.op = "move" => a.to \in Table[a.from]
    /\ call[c].at = "find" => a.op = "create"
    /\ call[c].at \in {"again", "update"} => a.op = "move"

\* Who holds a lock holds it alone, if the locks reach every process.
Excluded ==
  setting.distributed =>
    \A c, d \in Callers :
      call[c].at \in Locked /\ call[d].at \in Locked /\ LockOf(Ask(c)) = LockOf(Ask(d)) => c = d

\* What a caller of each kind has found so far still holds.
Found(c) ==
  /\ At(c, "create", "answered") => /\ call[c].found \in Under(Ask(c).key)
                                    /\ \/ call[c].found.estate = Ask(c).estate
                                       \/ <<c, call[c].left>> \in call[c].found.past
  /\ At(c, "record", "insert") =>
       /\ call[c].found \subseteq Ask(c).wanted
       /\ Ask(c).wanted \subseteq Recorded \cup call[c].found
       /\ setting.distributed => call[c].found \cap Recorded = {}
  /\ At(c, "record", "answered") /\ setting.distributed => Ask(c).wanted \subseteq Recorded
  /\ At(c, "move", "again") =>
       \A row \in call[c].found : /\ row \in log /\ row.key = Ask(c).key
                                  /\ IsPayment \/ row.record = Ask(c).record
  /\ (At(c, "move", "insert") \/ At(c, "move", "update")) /\ setting.distributed =>
       IsCurrent(Ask(c))

\* A transition row whose status was not written is being written, or its process ended.
RowOf(c) == [record |-> Ask(c).record, key |-> Ask(c).key, from |-> Ask(c).from, to |-> Ask(c).to]
Writes(c, row) == call[c].at = "update" /\ row = RowOf(c)
Orphans == crashes < Crashes \/ \A row \in log \ made : \E c \in Callers : Writes(c, row)

\* Whatever lies under the key of a call that is past the look of the port was created since.
LooksPast(c) == call[c].at \in {"lock"} \cup Locked /\ Ask(c).op = "create"
Overtaken(c) ==
  LooksPast(c) => \A x \in Under(Ask(c).key) : <<c, call[c].left>> \in x.past

UniqueKeys == \A x, y \in created : x.key = y.key => x = y

IInv ==
  /\ TypeOK
  /\ \A c \in Callers : Asking(c)
  /\ Excluded
  /\ UniqueKeys
  /\ \A c \in Callers : Found(c)
  /\ \A c \in Callers : Overtaken(c)
  /\ Orphans
  /\ DoneMeansMoved

--------------------------------------------------------------------------------
(* How a call moves.                                                       *)

\* What a step of c leaves alone.
Alone(c) == /\ setting' = setting
            /\ \A d \in Callers \ {c} : call'[d] = call[d]

Continues(c) == Alone(c) /\ Ask(c)' = Ask(c)

LEMMA Going ==
  ASSUME TypeOK, NEW c \in Callers, NEW p, NEW f, Go(c, p, f), setting' = setting
  PROVE  /\ Continues(c) /\ call'[c].at = p /\ call'[c].found = f
         /\ call'[c].left = call[c].left
  BY DEF TypeOK, Go, Continues, Alone, Ask

LEMMA GoingTyped ==
  ASSUME TypeOK, NEW c \in Callers, NEW p \in Ended \cup Locked \cup {"find", "lock"},
         NEW f \in Answers, Go(c, p, f)
  PROVE  call' \in [Callers -> [at : Ended \cup Locked \cup {"find", "lock"},
                                ask : Asks \cup {None}, found : Answers, left : 0 .. Calls]]
<1>. DEFINE Place == Ended \cup Locked \cup {"find", "lock"}
            Question == Asks \cup {None}
            Reply == Answers
<1>1. /\ p \in Place /\ f \in Reply
      /\ call \in [Callers -> [at : Place, ask : Question, found : Reply, left : 0 .. Calls]]
  BY DEF TypeOK
<1>. HIDE DEF Place, Question, Reply
<1>2. call' = [call EXCEPT ![c].at = p, ![c].found = f]
  BY DEF Go
<1>3. call' \in [Callers -> [at : Place, ask : Question, found : Reply, left : 0 .. Calls]]
  BY <1>1, <1>2
<1>. QED
  BY <1>3 DEF Place, Question, Reply

\* The tables and the types they give stay.
LEMMA Same ==
  ASSUME setting' = setting
  PROVE  /\ Table' = Table /\ IsPayment' = IsPayment /\ Moves' = Moves
         /\ Asks' = Asks /\ Answers' = Answers
<1>1. Table' = Table /\ IsPayment' = IsPayment
  BY DEF Table, IsPayment
<1>2. Moves' = Moves /\ Creations' = Creations
  BY <1>1 DEF Moves, Creations
<1>. QED
  BY <1>1, <1>2 DEF Asks, Answers

LEMMA Closed ==
  ASSUME NEW s \in DOMAIN Table
  PROVE  Table[s] \subseteq DOMAIN Table
<1>1. CASE IsPayment
  BY <1>1 DEF Table, PaymentTable
<1>2. CASE ~IsPayment
  BY <1>2 DEF Table, FulfilmentTable
<1>. QED
  BY <1>1, <1>2

LEMMA Starts == setting.bridge \in {"payment", "fulfilment"} => First \in DOMAIN Table
  BY DEF First, Table, IsPayment, PaymentTable, FulfilmentTable

--------------------------------------------------------------------------------
(* The state a step leaves alone.                                          *)

LEMMA NothingWritten ==
  ASSUME TypeOK, NoWrite,
         call' \in [Callers -> [at : Ended \cup Locked \cup {"find", "lock"},
                                ask : Asks \cup {None}, found : Answers, left : 0 .. Calls]]
  PROVE  TypeOK'
<1>1. setting' = setting
  BY DEF NoWrite
<1>2. Table' = Table /\ Moves' = Moves /\ Asks' = Asks /\ Answers' = Answers
  BY <1>1, Same
<1>3. Creations' = Creations /\ Ended' = Ended /\ Locked' = Locked
  BY DEF Creations, Ended, Locked
<1>. QED
  BY <1>2, <1>3 DEF TypeOK, NoWrite

LEMMA Begun ==
  ASSUME TypeOK, NEW c \in Callers, NEW p \in {"find", "lock"}, NEW a \in Asks, Begin(c, p, a)
  PROVE  /\ TypeOK'
         /\ Alone(c) /\ call'[c].at = p /\ call'[c].ask = a /\ NoWrite
<1>. DEFINE Place == Ended \cup Locked \cup {"find", "lock"}
            Question == Asks \cup {None}
            Reply == Answers
            row == [at |-> p, ask |-> a, found |-> None, left |-> call[c].left - 1]
<1>1. /\ p \in Place /\ a \in Question /\ None \in Reply /\ Calls \in Nat
      /\ call \in [Callers -> [at : Place, ask : Question, found : Reply, left : 0 .. Calls]]
      /\ call[c].left > 0 /\ call' = [call EXCEPT ![c] = row]
  BY BridgeAssumption DEF TypeOK, Begin, Answers
<1>. HIDE DEF Place, Question, Reply
<1>2. row \in [at : Place, ask : Question, found : Reply, left : 0 .. Calls]
  BY <1>1
<1>. HIDE DEF row
<1>3. call' \in [Callers -> [at : Place, ask : Question, found : Reply, left : 0 .. Calls]]
  BY <1>1, <1>2
<1>4. call'[c] = row /\ \A d \in Callers \ {c} : call'[d] = call[d]
  BY <1>1
<1>5. NoWrite
  BY DEF Begin
<1>6. TypeOK'
  BY <1>3, <1>5, NothingWritten DEF Place, Question, Reply
<1>. QED
  BY <1>4, <1>5, <1>6 DEF Alone, NoWrite, row

\* What begins a call asks what its kind asks.
LEMMA Beginning ==
  ASSUME TypeOK, NEW c \in Callers, Initiate(c) \/ Allocate(c) \/ Transition(c)
  PROVE  \E p \in {"find", "lock"}, a \in Asks :
           /\ Begin(c, p, a) /\ a.op = setting.work
           /\ p = "find" => a.op = "create"
           /\ a.op = "move" => a.to \in Table[a.from]
<1>1. CASE Initiate(c)
  <2>1. PICK key \in Keys, estate \in Estates :
          Begin(c, "find", [op |-> "create", key |-> key, estate |-> estate])
    BY <1>1 DEF Initiate
  <2>2. [op |-> "create", key |-> key, estate |-> estate] \in Asks
    BY DEF Asks
  <2>. QED
    BY <2>1, <2>2 DEF Begin
<1>2. CASE Allocate(c)
  <2>1. PICK wanted \in (SUBSET Items) \ {{}} :
          Begin(c, "lock", [op |-> "record", wanted |-> wanted])
    BY <1>2 DEF Allocate
  <2>2. [op |-> "record", wanted |-> wanted] \in Asks
    BY DEF Asks
  <2>. QED
    BY <2>1, <2>2 DEF Begin
<1>3. CASE Transition(c)
  <2>1. PICK r \in Records, to \in Targets, key \in Keys : \E from \in held[r] :
          /\ to \in Table[from]
          /\ Begin(c, "lock", [op |-> "move", record |-> r, from |-> from, to |-> to, key |-> key])
    BY <1>3 DEF Transition
  <2>2. PICK from \in held[r] :
          /\ to \in Table[from]
          /\ Begin(c, "lock", [op |-> "move", record |-> r, from |-> from, to |-> to, key |-> key])
    BY <2>1
  <2>3. from \in DOMAIN Table /\ to \in DOMAIN Table
    BY <2>2, Closed DEF TypeOK
  <2>4. [op |-> "move", record |-> r, from |-> from, to |-> to, key |-> key] \in Asks
    BY <2>3 DEF Asks
  <2>. QED
    BY <2>2, <2>4 DEF Begin
<1>. QED
  BY <1>1, <1>2, <1>3

--------------------------------------------------------------------------------
(* The steps that read.                                                    *)

\* Reads(c, p, f): c goes to p with the finding f, and nothing is written.
Reads(c, p, f) == Go(c, p, f) /\ NoWrite

LEMMA Chosen == ASSUME NEW S, S # {} PROVE Row(S) \in S
  BY DEF Row

LEMMA Reading ==
  ASSUME TypeOK, \A c \in Callers : Asking(c), \A c \in Callers : Found(c), NEW c \in Callers,
         Lock(c) \/ Find(c) \/ FindAgain(c) \/ FindItems(c) \/ ReadPrior(c) \/ ReadCurrent(c)
  PROVE  \E p \in Ended \cup Locked \cup {"lock"}, f \in Answers : Reads(c, p, f)
<1>0. None \in Answers /\ call[c].found \in Answers
  BY DEF TypeOK, Answers
<1>1. CASE Lock(c)
  BY <1>0, <1>1 DEF Lock, Reads, Locked
<1>2. CASE Find(c) \/ FindAgain(c)
  <2>1. call[c].at # "idle" /\ Ask(c).op = "create" /\ Asking(c)
    BY <1>2 DEF Find, FindAgain, At, Ask
  <2>2. setting.work = "create"
    BY <2>1 DEF Asking
  <2>3. Under(Ask(c).key) # {} => Row(Under(Ask(c).key)) \in Answers
    BY <2>2, Chosen DEF Under, TypeOK, Answers
  <2>. QED
    BY <1>0, <1>2, <2>3 DEF Find, FindAgain, Reads, Answer, Refuse, Locked, Ended
<1>3. CASE FindItems(c)
  <2>1. call[c].at # "idle" /\ Ask(c).op = "record" /\ Asking(c)
    BY <1>3 DEF FindItems, At, Ask
  <2>2. setting.work = "record" /\ Ask(c).wanted \in SUBSET Items
    BY <2>1 DEF Asking, Asks
  <2>3. Ask(c).wanted \ Recorded \in Answers
    BY <2>2 DEF Answers
  <2>. QED
    BY <1>0, <1>3, <2>3 DEF FindItems, Reads, Answer, Locked, Ended
<1>4. CASE ReadPrior(c)
  <2>1. call[c].at # "idle" /\ Ask(c).op = "move" /\ Asking(c)
    BY <1>4 DEF ReadPrior, At, Ask
  <2>2. setting.work = "move"
    BY <2>1 DEF Asking
  <2>3. {row \in log : row.key = Ask(c).key /\ (IsPayment \/ row.record = Ask(c).record)} \in Answers
    BY <2>2 DEF Answers, TypeOK
  <2>. QED
    BY <1>4, <2>3 DEF ReadPrior, Reads, Locked
<1>5. CASE ReadCurrent(c)
  BY <1>0, <1>5 DEF ReadCurrent, Reads, Answer, Refuse, Locked, Ended
<1>. QED
  BY <1>1, <1>2, <1>3, <1>4, <1>5

--------------------------------------------------------------------------------
(* Types.                                                                  *)

LEMMA CrashTyped ==
  ASSUME TypeOK, NEW c \in Callers, Crash(c)
  PROVE  TypeOK'
<1>1. setting' = setting /\ crashes' \in 0 .. Crashes
  BY BridgeAssumption DEF Crash, TypeOK
<1>2. None \in Answers /\ "crashed" \in Ended
  BY DEF Answers, Ended
<1>3. call' \in [Callers -> [at : Ended \cup Locked \cup {"find", "lock"},
                             ask : Asks \cup {None}, found : Answers, left : 0 .. Calls]]
  BY <1>2, GoingTyped DEF Crash
<1>4. /\ Table' = Table /\ Moves' = Moves /\ Asks' = Asks /\ Answers' = Answers
      /\ Creations' = Creations /\ Ended' = Ended /\ Locked' = Locked
  BY <1>1, Same DEF Creations, Ended, Locked
<1>. QED
  BY <1>1, <1>3, <1>4 DEF TypeOK, Crash

LEMMA CreateTyped ==
  ASSUME TypeOK, NEW c \in Callers, Asking(c), Create(c)
  PROVE  TypeOK'
<1>1. setting' = setting
  BY DEF Create
<1>2. call[c].at # "idle" /\ Ask(c).op = "create"
  BY DEF Create, At, Ask
<1>3. setting.work = "create" /\ Ask(c).key \in Keys /\ Ask(c).estate \in Estates
  BY <1>2 DEF Asking, Asks
<1>. DEFINE row == [key |-> Ask(c).key, estate |-> Ask(c).estate, by |-> c,
                   past |-> Past(Ask(c).key)]
<1>4. row \in Creations /\ row \in Answers
  <2>1. Past(Ask(c).key) \in SUBSET (Callers \X (0 .. Calls))
    BY DEF Past, TypeOK
  <2>. QED
    BY <1>3, <2>1 DEF Creations, Answers
<1>5. created' \subseteq Creations
  BY <1>4 DEF Create, TypeOK
<1>6. Clash(Ask(c), None) => Row(Under(Ask(c).key)) \in Answers
  <2>1. Clash(Ask(c), None) => Under(Ask(c).key) # {}
    BY <1>2 DEF Clash, Under
  <2>. QED
    BY <2>1, <1>3, Chosen DEF Under, TypeOK, Answers
<1>7. PICK f \in Answers : Go(c, "answered", f)
  BY <1>4, <1>6 DEF Create, Answer
<1>8. call' \in [Callers -> [at : Ended \cup Locked \cup {"find", "lock"},
                             ask : Asks \cup {None}, found : Answers, left : 0 .. Calls]]
  BY <1>7, GoingTyped DEF Ended
<1>9. /\ Table' = Table /\ Moves' = Moves /\ Asks' = Asks /\ Answers' = Answers
      /\ Creations' = Creations /\ Ended' = Ended /\ Locked' = Locked
  BY <1>1, Same DEF Creations, Ended, Locked
<1>. QED
  BY <1>1, <1>5, <1>8, <1>9 DEF TypeOK, Create

LEMMA CreateItemsTyped ==
  ASSUME TypeOK, NEW c \in Callers, Asking(c), Found(c), CreateItems(c)
  PROVE  TypeOK'
<1>1. setting' = setting
  BY DEF CreateItems
<1>2. call[c].at # "idle" /\ Ask(c).op = "record" /\ call[c].found \subseteq Ask(c).wanted
  BY DEF CreateItems, At, Ask, Found
<1>3. Ask(c).wanted \subseteq Items
  BY <1>2 DEF Asking, Asks
<1>4. items' \subseteq [item : Items, by : Callers]
  BY <1>2, <1>3 DEF CreateItems, TypeOK
<1>5. call' \in [Callers -> [at : Ended \cup Locked \cup {"find", "lock"},
                             ask : Asks \cup {None}, found : Answers, left : 0 .. Calls]]
  BY GoingTyped DEF CreateItems, Answer, Ended, Answers
<1>6. /\ Table' = Table /\ Moves' = Moves /\ Asks' = Asks /\ Answers' = Answers
      /\ Creations' = Creations /\ Ended' = Ended /\ Locked' = Locked
  BY <1>1, Same DEF Creations, Ended, Locked
<1>. QED
  BY <1>1, <1>4, <1>5, <1>6 DEF TypeOK, CreateItems

LEMMA MoveAsked ==
  ASSUME NEW c \in Callers, Asking(c), call[c].at # "idle", Ask(c).op = "move"
  PROVE  /\ Ask(c).record \in Records /\ Ask(c).key \in Keys
         /\ Ask(c).from \in DOMAIN Table /\ Ask(c).to \in DOMAIN Table
         /\ RowOf(c) \in Moves /\ Ask(c).to \in Table[Ask(c).from]
  BY DEF Asking, Asks, RowOf, Moves

LEMMA InsertRowTyped ==
  ASSUME TypeOK, NEW c \in Callers, Asking(c), InsertRow(c)
  PROVE  TypeOK'
<1>1. setting' = setting
  BY DEF InsertRow
<1>2. RowOf(c) \in Moves
  BY MoveAsked DEF InsertRow, At, Ask
<1>3. log' \subseteq Moves
  BY <1>2 DEF InsertRow, TypeOK, RowOf
<1>4. PICK p \in {"update", "answered", "refused"} : Go(c, p, None)
  BY DEF InsertRow, Answer, Refuse
<1>5. call' \in [Callers -> [at : Ended \cup Locked \cup {"find", "lock"},
                             ask : Asks \cup {None}, found : Answers, left : 0 .. Calls]]
  BY <1>4, GoingTyped DEF Ended, Locked, Answers
<1>6. /\ Table' = Table /\ Moves' = Moves /\ Asks' = Asks /\ Answers' = Answers
      /\ Creations' = Creations /\ Ended' = Ended /\ Locked' = Locked
  BY <1>1, Same DEF Creations, Ended, Locked
<1>. QED
  BY <1>1, <1>3, <1>5, <1>6 DEF TypeOK, InsertRow

LEMMA UpdateStatusTyped ==
  ASSUME TypeOK, NEW c \in Callers, Asking(c), UpdateStatus(c)
  PROVE  TypeOK'
<1>1. setting' = setting
  BY DEF UpdateStatus
<1>2. RowOf(c) \in Moves /\ Ask(c).record \in Records /\ Ask(c).to \in DOMAIN Table
  BY MoveAsked DEF UpdateStatus, At, Ask
<1>3. made' \subseteq Moves
  BY <1>2 DEF UpdateStatus, TypeOK, RowOf
<1>4. status' \in [Records -> DOMAIN Table]
  BY <1>2 DEF UpdateStatus, TypeOK
<1>5. held' \in [Records -> SUBSET DOMAIN Table]
  BY <1>2 DEF UpdateStatus, TypeOK
<1>6. call' \in [Callers -> [at : Ended \cup Locked \cup {"find", "lock"},
                             ask : Asks \cup {None}, found : Answers, left : 0 .. Calls]]
  BY GoingTyped DEF UpdateStatus, Answer, Ended, Answers
<1>7. /\ Table' = Table /\ Moves' = Moves /\ Asks' = Asks /\ Answers' = Answers
      /\ Creations' = Creations /\ Ended' = Ended /\ Locked' = Locked
  BY <1>1, Same DEF Creations, Ended, Locked
<1>. QED
  BY <1>1, <1>3, <1>4, <1>5, <1>6, <1>7 DEF TypeOK, UpdateStatus

--------------------------------------------------------------------------------
(* Who is where, and who holds which lock.                                 *)

Begins(c) == Initiate(c) \/ Allocate(c) \/ Transition(c)
Looks(c) == Find(c) \/ FindAgain(c) \/ FindItems(c) \/ ReadPrior(c) \/ ReadCurrent(c)
Stores(c) == Create(c) \/ CreateItems(c) \/ InsertRow(c) \/ UpdateStatus(c)

\* Every step of a call under way.
LEMMA Proceeding ==
  ASSUME TypeOK, NEW c \in Callers, Asking(c), Lock(c) \/ Crash(c) \/ Looks(c) \/ Stores(c)
  PROVE  /\ Continues(c) /\ call[c].at # "idle" /\ call'[c].at \notin {"idle", "find"}
         /\ call'[c].at \in {"again", "update"} => Ask(c).op = "move"
         /\ call'[c].at \in Locked => call[c].at \in Locked \/ Lock(c)
<1>1. \E p, f : /\ Go(c, p, f) /\ setting' = setting /\ call[c].at # "idle"
                /\ p \notin {"idle", "find"}
                /\ p \in {"again", "update"} => Ask(c).op = "move"
                /\ p \in Locked => call[c].at \in Locked \/ Lock(c)
  <2>1. CASE Lock(c)
    BY <2>1 DEF Lock, NoWrite
  <2>2. CASE Crash(c)
    BY <2>2 DEF Crash, Locked
  <2>3. CASE Find(c)
    BY <2>3 DEF Find, NoWrite, Answer, Refuse, At, Locked
  <2>4. CASE FindAgain(c)
    BY <2>4 DEF FindAgain, NoWrite, Answer, At, Locked
  <2>5. CASE FindItems(c)
    BY <2>5 DEF FindItems, NoWrite, Answer, At, Locked
  <2>6. CASE ReadPrior(c)
    BY <2>6 DEF ReadPrior, NoWrite, At, Locked, Ask
  <2>7. CASE ReadCurrent(c)
    BY <2>7 DEF ReadCurrent, NoWrite, Answer, Refuse, At, Locked
  <2>8. CASE Create(c)
    BY <2>8 DEF Create, Answer, At, Locked
  <2>9. CASE CreateItems(c)
    BY <2>9 DEF CreateItems, Answer, At, Locked
  <2>10. CASE InsertRow(c)
    BY <2>10 DEF InsertRow, Answer, Refuse, At, Locked, Ask
  <2>11. CASE UpdateStatus(c)
    BY <2>11 DEF UpdateStatus, Answer, At, Locked
  <2>. QED
    BY <2>1, <2>2, <2>3, <2>4, <2>5, <2>6, <2>7, <2>8, <2>9, <2>10, <2>11 DEF Looks, Stores
<1>. QED
  BY <1>1, Going

LEMMA AskingKept ==
  ASSUME TypeOK, \A c \in Callers : Asking(c), NEW c \in Callers,
         Begins(c) \/ Lock(c) \/ Crash(c) \/ Looks(c) \/ Stores(c)
  PROVE  \A d \in Callers : Asking(d)'
<1>1. CASE Begins(c)
  <2>1. PICK p \in {"find", "lock"}, a \in Asks :
          /\ Begin(c, p, a) /\ a.op = setting.work
          /\ p = "find" => a.op = "create"
          /\ a.op = "move" => a.to \in Table[a.from]
    BY <1>1, Beginning DEF Begins
  <2>2. Alone(c) /\ call'[c].at = p /\ call'[c].ask = a /\ setting' = setting
    BY <2>1, Begun DEF Alone
  <2>3. Table' = Table /\ Asks' = Asks
    BY <2>2, Same
  <2>. QED
    BY <2>1, <2>2, <2>3 DEF Asking, Ask, Alone
<1>2. CASE Lock(c) \/ Crash(c) \/ Looks(c) \/ Stores(c)
  <2>1. /\ Continues(c) /\ call[c].at # "idle" /\ call'[c].at \notin {"idle", "find"}
        /\ call'[c].at \in {"again", "update"} => Ask(c).op = "move"
    BY <1>2, Proceeding
  <2>2. Table' = Table /\ Asks' = Asks /\ setting' = setting
    BY <2>1, Same DEF Continues, Alone
  <2>. QED
    BY <2>1, <2>2 DEF Asking, Ask, Continues, Alone
<1>. QED
  BY <1>1, <1>2

LEMMA ExcludedKept ==
  ASSUME TypeOK, \A c \in Callers : Asking(c), Excluded, NEW c \in Callers,
         Begins(c) \/ Lock(c) \/ Crash(c) \/ Looks(c) \/ Stores(c)
  PROVE  Excluded'
<1>1. CASE Begins(c)
  <2>1. Alone(c) /\ call'[c].at \notin Locked
    BY <1>1, Beginning, Begun DEF Begins, Locked
  <2>. QED
    BY <2>1 DEF Excluded, Alone, LockOf, Ask, Locked
<1>2. CASE Lock(c)
  <2>1. Continues(c) /\ call[c].at = "lock"
    BY <1>2, Proceeding DEF Lock
  <2>2. setting.distributed =>
          \A d \in Callers : call[d].at \in Locked => LockOf(Ask(d)) # LockOf(Ask(c))
    BY <1>2 DEF Lock
  <2>3. \A d \in Callers : Ask(d)' = Ask(d) /\ LockOf(Ask(d))' = LockOf(Ask(d))
    BY <2>1 DEF Continues, Alone, Ask, LockOf
  <2>4. \A d \in Callers \ {c} : call'[d].at = call[d].at
    BY <2>1 DEF Continues, Alone
  <2>. QED
    BY <2>1, <2>2, <2>3, <2>4 DEF Excluded, Continues, Alone, Locked
<1>3. CASE Crash(c) \/ Looks(c) \/ Stores(c)
  <2>1. Continues(c) /\ (call'[c].at \in Locked => call[c].at \in Locked)
    <3>1. ~Lock(c) \/ call[c].at \in Locked
      BY <1>3 DEF Lock, Crash, Looks, Stores, Find, FindAgain, FindItems, ReadPrior, ReadCurrent,
                  Create, CreateItems, InsertRow, UpdateStatus, At, Locked
    <3>. QED
      BY <1>3, <3>1, Proceeding
  <2>2. \A d \in Callers : Ask(d)' = Ask(d) /\ LockOf(Ask(d))' = LockOf(Ask(d))
    BY <2>1 DEF Continues, Alone, Ask, LockOf
  <2>3. \A d \in Callers : call'[d].at \in Locked => call[d].at \in Locked
    BY <2>1 DEF Continues, Alone
  <2>. QED
    BY <2>1, <2>2, <2>3 DEF Excluded, Continues, Alone, Locked
<1>. QED
  BY <1>1, <1>2, <1>3

--------------------------------------------------------------------------------
(* What a caller has found.                                                *)

Steps(c) == Begins(c) \/ Lock(c) \/ Crash(c) \/ Looks(c) \/ Stores(c)

\* A step of c: the rows only grow, and what else changes is what c is about to write.
LEMMA Growing ==
  ASSUME TypeOK, \A c \in Callers : Asking(c), NEW c \in Callers, Steps(c)
  PROVE  /\ Alone(c)
         /\ created \subseteq created' /\ items \subseteq items'
         /\ log \subseteq log' /\ made \subseteq made' /\ crashes' <= crashes
         /\ items' # items => At(c, "record", "insert")
         /\ status' # status => /\ At(c, "move", "update")
                                /\ status' = [status EXCEPT ![Ask(c).record] = Ask(c).to]
<1>1. CASE Begins(c)
  BY <1>1, Beginning, Begun DEF Begins, NoWrite, TypeOK
<1>2. CASE Lock(c) \/ Crash(c) \/ Looks(c) \/ Stores(c)
  <2>1. Alone(c)
    BY <1>2, Proceeding DEF Continues
  <2>2. CASE Lock(c) \/ Looks(c)
    <3>1. NoWrite
      BY <2>2 DEF Lock, Looks, Find, FindAgain, FindItems, ReadPrior, ReadCurrent
    <3>. QED
      BY <2>1, <3>1 DEF NoWrite, TypeOK
  <2>3. CASE Crash(c)
    BY <2>1, <2>3 DEF Crash, TypeOK
  <2>4. CASE Create(c)
    BY <2>1, <2>4 DEF Create, TypeOK
  <2>5. CASE CreateItems(c)
    BY <2>1, <2>5 DEF CreateItems, TypeOK
  <2>6. CASE InsertRow(c)
    BY <2>1, <2>6 DEF InsertRow, TypeOK
  <2>7. CASE UpdateStatus(c)
    BY <2>1, <2>7 DEF UpdateStatus, TypeOK
  <2>. QED
    BY <1>2, <2>2, <2>3, <2>4, <2>5, <2>6, <2>7 DEF Stores
<1>. QED
  BY <1>1, <1>2 DEF Steps

LEMMA RecordedGrows ==
  ASSUME items \subseteq items'
  PROVE  Recorded \subseteq Recorded'
  BY DEF Recorded

\* What the others found is not disturbed: who could disturb it waits for their lock.
LEMMA OthersFound ==
  ASSUME TypeOK, \A c \in Callers : Asking(c), Excluded, \A c \in Callers : Found(c),
         NEW c \in Callers, Steps(c), NEW d \in Callers, d # c
  PROVE  Found(d)'
<1>1. /\ call'[d] = call[d] /\ setting' = setting /\ IsPayment' = IsPayment /\ Ask(d)' = Ask(d)
      /\ created \subseteq created' /\ log \subseteq log'
  BY Growing, Same DEF Alone, Ask
<1>2. \A op, place : At(d, op, place)' = At(d, op, place)
  BY <1>1 DEF At
<1>3. Recorded \subseteq Recorded'
  BY Growing, RecordedGrows
<1>4. At(d, "create", "answered") => /\ call[d].found \in Under(Ask(d).key)'
                                     /\ \/ call[d].found.estate = Ask(d).estate
                                        \/ <<d, call[d].left>> \in call[d].found.past
  BY <1>1 DEF Found, Under
<1>5. ASSUME At(d, "record", "insert"), setting.distributed
      PROVE  call[d].found \cap Recorded' = {}
  <2>1. ~At(c, "record", "insert")
    BY <1>5 DEF Excluded, At, LockOf, Ask, Locked
  <2>2. items' = items
    BY <2>1, Growing
  <2>. QED
    BY <1>5, <2>2 DEF Found, Recorded
<1>6. At(d, "record", "insert") =>
        /\ call[d].found \subseteq Ask(d).wanted
        /\ Ask(d).wanted \subseteq Recorded' \cup call[d].found
  BY <1>3 DEF Found
<1>7. At(d, "record", "answered") /\ setting.distributed => Ask(d).wanted \subseteq Recorded'
  BY <1>3 DEF Found
<1>8. At(d, "move", "again") =>
        \A row \in call[d].found : /\ row \in log' /\ row.key = Ask(d).key
                                   /\ IsPayment \/ row.record = Ask(d).record
  BY <1>1 DEF Found
<1>9. ASSUME At(d, "move", "insert") \/ At(d, "move", "update"), setting.distributed
      PROVE  status'[Ask(d).record] = Ask(d).from
  <2>1. IsCurrent(Ask(d)) /\ Ask(d).record \in Records
    BY <1>9, MoveAsked DEF Found, At, Ask
  <2>2. At(c, "move", "update") => Ask(c).record # Ask(d).record
    BY <1>9 DEF Excluded, At, LockOf, Ask, Locked
  <2>. QED
    BY <2>1, <2>2, Growing DEF IsCurrent, TypeOK
<1>10. IsCurrent(Ask(d))' = (status'[Ask(d).record] = Ask(d).from)
  BY <1>1 DEF IsCurrent
<1>. QED
  <2>1. At(d, "create", "answered")' => /\ (call[d].found)' \in Under(Ask(d).key)'
                                        /\ \/ (call[d].found.estate)' = (Ask(d).estate)'
                                           \/ <<d, call[d].left>>' \in (call[d].found.past)'
    BY <1>1, <1>2, <1>4
  <2>2. At(d, "record", "insert")' =>
          /\ (call[d].found)' \subseteq (Ask(d).wanted)'
          /\ (Ask(d).wanted)' \subseteq (Recorded \cup call[d].found)'
          /\ setting'.distributed => (call[d].found)' \cap Recorded' = {}
    BY <1>1, <1>2, <1>5, <1>6
  <2>3. At(d, "record", "answered")' /\ setting'.distributed => (Ask(d).wanted)' \subseteq Recorded'
    BY <1>1, <1>2, <1>7
  <2>4. At(d, "move", "again")' =>
          \A row \in (call[d].found)' : /\ row \in log' /\ row.key = (Ask(d).key)'
                                        /\ IsPayment' \/ row.record = (Ask(d).record)'
    BY <1>1, <1>2, <1>8
  <2>5. (At(d, "move", "insert") \/ At(d, "move", "update"))' /\ setting'.distributed =>
          IsCurrent(Ask(d))'
    BY <1>1, <1>2, <1>9, <1>10
  <2>. QED
    BY <2>1, <2>2, <2>3, <2>4, <2>5, <1>1 DEF Found

\* What c itself finds.
LEMMA MoverFound ==
  ASSUME TypeOK, \A d \in Callers : Asking(d), \A d \in Callers : Found(d),
         NEW c \in Callers, Overtaken(c), Steps(c)
  PROVE  Found(c)'
<1>1. CASE Begins(c)
  <2>1. call'[c].at \in {"find", "lock"}
    BY <1>1, Beginning, Begun DEF Begins
  <2>. QED
    BY <2>1 DEF Found, At
<1>2. CASE Lock(c) \/ Crash(c)
  <2>1. call'[c].at \in {"read", "crashed"}
    BY <1>2, Going DEF Lock, Crash, NoWrite
  <2>. QED
    BY <2>1 DEF Found, At
<1>3. CASE Find(c) \/ FindAgain(c)
  <2>1. /\ Ask(c).op = "create" /\ Ask(c)' = Ask(c) /\ created' = created
        /\ call'[c].left = call[c].left
        /\ \/ call'[c].at \in {"lock", "insert", "refused"}
           \/ /\ Under(Ask(c).key) # {} /\ call'[c].found = Row(Under(Ask(c).key))
              /\ call'[c].at = "answered"
              /\ LooksPast(c) \/ Row(Under(Ask(c).key)).estate = Ask(c).estate
    BY <1>3, Going DEF Find, FindAgain, At, Ask, Answer, Refuse, NoWrite, Continues, LooksPast, Locked
  <2>2. call'[c].at = "answered" =>
          /\ call'[c].found \in Under(Ask(c).key)
          /\ \/ call'[c].found.estate = Ask(c).estate
             \/ <<c, call[c].left>> \in call'[c].found.past
    BY <2>1, Chosen DEF Overtaken
  <2>. QED
    BY <2>1, <2>2 DEF Found, At, Under, Ask
<1>4. CASE Create(c)
  <2>1. /\ Ask(c).op = "create" /\ Ask(c)' = Ask(c) /\ call'[c].at = "answered"
        /\ call'[c].left = call[c].left /\ LooksPast(c)
    BY <1>4, Going DEF Create, At, Ask, Answer, Continues, LooksPast, Locked
  <2>2. /\ call'[c].found \in Under(Ask(c).key)'
        /\ \/ call'[c].found.estate = Ask(c).estate
           \/ <<c, call[c].left>> \in call'[c].found.past
    <3>1. CASE Clash(Ask(c), None)
      <4>1. Under(Ask(c).key) # {} /\ created' = created
        BY <1>4, <2>1, <3>1 DEF Clash, Under, Create
      <4>2. call'[c].found = Row(Under(Ask(c).key))
        BY <1>4, <3>1, Going DEF Create, Answer
      <4>. QED
        <5>1. Row(Under(Ask(c).key)) \in Under(Ask(c).key)
          BY <4>1, Chosen
        <5>. QED
          BY <2>1, <4>1, <4>2, <5>1 DEF Under, Overtaken
    <3>2. CASE ~Clash(Ask(c), None)
      <4>. DEFINE row == [key |-> Ask(c).key, estate |-> Ask(c).estate, by |-> c,
                   past |-> Past(Ask(c).key)]
      <4>1. created' = created \cup {row} /\ call'[c].found = row
        BY <1>4, <3>2, Going DEF Create, Answer
      <4>. QED
        BY <2>1, <4>1 DEF Under
    <3>. QED
      BY <3>1, <3>2
  <2>. QED
    BY <2>1, <2>2 DEF Found, At, Ask
<1>5. CASE FindItems(c)
  <2>1. /\ Ask(c).op = "record" /\ Ask(c)' = Ask(c) /\ items' = items
        /\ \/ call'[c].at = "answered" /\ Ask(c).wanted \ Recorded = {}
           \/ call'[c].at = "insert" /\ call'[c].found = Ask(c).wanted \ Recorded
    BY <1>5, Going DEF FindItems, At, Ask, Answer, NoWrite, Continues
  <2>2. Recorded' = Recorded
    BY <2>1 DEF Recorded
  <2>. QED
    BY <2>1, <2>2 DEF Found, At, Ask
<1>6. CASE CreateItems(c)
  <2>1. /\ Ask(c).op = "record" /\ Ask(c)' = Ask(c) /\ call'[c].at = "answered"
        /\ setting' = setting /\ At(c, "record", "insert")
    BY <1>6, Going DEF CreateItems, At, Ask, Answer, Continues
  <2>2. ASSUME setting.distributed
        PROVE  Ask(c).wanted \subseteq Recorded'
    <3>0. call[c].found \cap Recorded = {}
      BY <2>1, <2>2 DEF Found
    <3>1. ~Clash(Ask(c), call[c].found)
      BY <2>1, <3>0 DEF Clash, Recorded
    <3>2. items' = items \cup {[item |-> i, by |-> c] : i \in call[c].found}
      BY <1>6, <3>1 DEF CreateItems
    <3>3. Recorded \subseteq Recorded'
      BY <3>2, RecordedGrows
    <3>4. ASSUME NEW i \in call[c].found
          PROVE  i \in Recorded'
      <4>1. [item |-> i, by |-> c] \in items'
        BY <3>2
      <4>. QED
        BY <4>1 DEF Recorded
    <3>. QED
      BY <2>1, <3>3, <3>4 DEF Found
  <2>. QED
    BY <2>1, <2>2 DEF Found, At, Ask
<1>7. CASE ReadPrior(c)
  <2>1. /\ Ask(c).op = "move" /\ Ask(c)' = Ask(c) /\ call'[c].at = "again" /\ log' = log
        /\ setting' = setting
        /\ call'[c].found = {row \in log : /\ row.key = Ask(c).key
                                           /\ IsPayment \/ row.record = Ask(c).record}
    BY <1>7, Going DEF ReadPrior, At, Ask, NoWrite, Continues
  <2>2. IsPayment' = IsPayment
    BY <2>1, Same
  <2>. QED
    BY <2>1, <2>2 DEF Found, At, Ask
<1>8. CASE ReadCurrent(c)
  <2>1. /\ Ask(c).op = "move" /\ Ask(c)' = Ask(c) /\ status' = status
        /\ \/ call'[c].at \in {"answered", "refused"}
           \/ call'[c].at = "insert" /\ IsCurrent(Ask(c))
    BY <1>8, Going DEF ReadCurrent, At, Ask, Answer, Refuse, NoWrite, Continues
  <2>. QED
    BY <2>1 DEF Found, At, Ask, IsCurrent
<1>9. CASE InsertRow(c)
  <2>1. /\ At(c, "move", "insert") /\ Ask(c)' = Ask(c) /\ status' = status /\ setting' = setting
        /\ call'[c].at \in {"answered", "refused", "update"}
    BY <1>9, Going DEF InsertRow, At, Ask, Answer, Refuse, Continues
  <2>. QED
    BY <2>1 DEF Found, At, Ask, IsCurrent
<1>10. CASE UpdateStatus(c)
  <2>1. Ask(c).op = "move" /\ Ask(c)' = Ask(c) /\ call'[c].at = "answered"
    BY <1>10, Going DEF UpdateStatus, At, Ask, Answer, Continues
  <2>. QED
    BY <2>1 DEF Found, At, Ask
<1>. QED
  BY <1>1, <1>2, <1>3, <1>4, <1>5, <1>6, <1>7, <1>8, <1>9, <1>10 DEF Steps, Looks, Stores

--------------------------------------------------------------------------------
(* The rows.                                                               *)

\* A row that is inserted names every call that is past the look under its key.
LEMMA OvertakenKept ==
  ASSUME TypeOK, \A d \in Callers : Asking(d), \A d \in Callers : Overtaken(d),
         NEW c \in Callers, Steps(c), NEW d \in Callers
  PROVE  Overtaken(d)'
<1>. SUFFICES ASSUME LooksPast(d)', NEW x \in created', x.key = (Ask(d).key)'
              PROVE  <<d, call'[d].left>> \in x.past
  BY DEF Overtaken, Under
<1>1. Ask(d)' = Ask(d) /\ call'[d].left = call[d].left /\ (LooksPast(d) \/ (Find(d) /\ d = c))
  <2>1. CASE d # c
    <3>1. call'[d] = call[d]
      BY <2>1, Growing DEF Alone
    <3>. QED
      BY <3>1 DEF Ask, LooksPast, Locked
  <2>2. CASE d = c /\ Begins(c)
    <3>1. call'[c].at = "find" \/ Ask(c)'.op # "create"
      <4>1. ASSUME NEW p, NEW a, Begin(c, p, a)
            PROVE  call'[c].at = p /\ Ask(c)' = a
        BY <4>1 DEF Begin, TypeOK, Ask
      <4>2. CASE Initiate(c)
        BY <4>1, <4>2 DEF Initiate
      <4>3. CASE Allocate(c)
        <5>1. PICK wanted : Begin(c, "lock", [op |-> "record", wanted |-> wanted])
          BY <4>3 DEF Allocate
        <5>. QED
          BY <4>1, <5>1
      <4>4. CASE Transition(c)
        <5>1. PICK r, from, to, key :
                Begin(c, "lock", [op |-> "move", record |-> r, from |-> from, to |-> to, key |-> key])
          BY <4>4 DEF Transition
        <5>. QED
          BY <4>1, <5>1
      <4>. QED
        BY <2>2, <4>2, <4>3, <4>4 DEF Begins
    <3>. QED
      BY <2>2, <3>1 DEF LooksPast, Locked
  <2>3. CASE d = c /\ ~Begins(c)
    BY <2>3, Going DEF Steps, Lock, Crash, Looks, Stores, Find, FindAgain, FindItems, ReadPrior,
       ReadCurrent, Create, CreateItems, InsertRow, UpdateStatus, At, Ask, Answer, Refuse, NoWrite,
       Continues, LooksPast, Locked
  <2>. QED
    BY <2>1, <2>2, <2>3
<1>2. CASE Find(d) /\ d = c
  BY <1>1, <1>2, Going DEF Find, Under, NoWrite, Answer, Refuse, LooksPast, Locked
<1>3. CASE LooksPast(d) /\ x \in created
  BY <1>1, <1>3 DEF Overtaken, Under
<1>4. CASE LooksPast(d) /\ x \notin created
  <2>1. Create(c)
    BY <1>4, Beginning, Begun DEF Steps, Begins, Looks, Stores, Lock, Crash, Find, FindAgain, FindItems,
       ReadPrior, ReadCurrent, CreateItems, InsertRow, UpdateStatus, NoWrite
  <2>2. x.past = Past(x.key)
    BY <1>4, <2>1 DEF Create
  <2>. QED
    BY <1>1, <1>4, <2>2 DEF Past, LooksPast
<1>. QED
  BY <1>1, <1>2, <1>3, <1>4

LEMMA UniqueKept ==
  ASSUME TypeOK, \A d \in Callers : Asking(d), UniqueKeys, NEW c \in Callers, Steps(c)
  PROVE  UniqueKeys'
<1>1. CASE Create(c)
  <2>1. Ask(c).op = "create"
    BY <1>1 DEF Create, At, Ask
  <2>. QED
    BY <1>1, <2>1 DEF Create, Clash, UniqueKeys
<1>2. CASE ~Create(c)
  <2>1. created' = created
    BY <1>2, Beginning, Begun DEF Steps, Begins, Looks, Stores, Lock, Crash, Find, FindAgain, FindItems,
       ReadPrior, ReadCurrent, CreateItems, InsertRow, UpdateStatus, NoWrite
  <2>. QED
    BY <2>1 DEF UniqueKeys
<1>. QED
  BY <1>1, <1>2

LEMMA OrphansKept ==
  ASSUME TypeOK, \A d \in Callers : Asking(d), Orphans, NEW c \in Callers, Steps(c)
  PROVE  Orphans'
<1>1. crashes \in 0 .. Crashes /\ crashes' <= crashes /\ Crashes \in Nat /\ Alone(c)
  BY Growing, BridgeAssumption DEF TypeOK
<1>2. CASE crashes < Crashes \/ Crash(c)
  <2>1. crashes' \in Nat /\ crashes' < Crashes
    BY <1>1, <1>2, Beginning, Begun DEF Crash, TypeOK, Steps, Begins, NoWrite, Lock, Looks, Stores, Find,
       FindAgain, FindItems, ReadPrior, ReadCurrent, Create, CreateItems, InsertRow, UpdateStatus
  <2>. QED
    BY <2>1 DEF Orphans
<1>3. CASE ~(crashes < Crashes) /\ ~Crash(c)
  <2>. SUFFICES ASSUME NEW row \in log' \ made'
                PROVE  \E e \in Callers : Writes(e, row)'
    BY DEF Orphans
  <2>1. row \in log \/ (InsertRow(c) /\ row = RowOf(c) /\ call'[c].at = "update" /\ Ask(c)' = Ask(c))
    BY <1>3, Beginning, Begun, Going DEF InsertRow, RowOf, Steps, Begins, NoWrite, Lock, Looks, Stores,
       Find, FindAgain, FindItems, ReadPrior, ReadCurrent, Create, CreateItems, UpdateStatus,
       Continues, Answer, Refuse
  <2>2. CASE row \in log
    <3>1. row \notin made
      BY Growing
    <3>2. PICK e \in Callers : Writes(e, row)
      BY <1>3, <2>2, <3>1 DEF Orphans
    <3>3. e # c
      <4>1. CASE UpdateStatus(c)
        BY <3>2, <4>1 DEF UpdateStatus, Writes, RowOf
      <4>2. CASE ~UpdateStatus(c)
        BY <1>3, <3>2, <4>2 DEF Writes, Steps, Begins, Initiate, Allocate, Transition, Begin, Ended, Lock,
           Looks, Stores, Find, FindAgain, FindItems, ReadPrior, ReadCurrent, Create, CreateItems,
           InsertRow, At
      <4>. QED
        BY <4>1, <4>2
    <3>4. Writes(e, row)'
      BY <1>1, <3>2, <3>3 DEF Writes, RowOf, Ask, Alone
    <3>. QED
      BY <3>4
  <2>3. CASE InsertRow(c) /\ row = RowOf(c) /\ call'[c].at = "update" /\ Ask(c)' = Ask(c)
    BY <2>3 DEF Writes, RowOf
  <2>. QED
    BY <2>1, <2>2, <2>3
<1>. QED
  BY <1>2, <1>3

--------------------------------------------------------------------------------
(* What was answered as done.                                              *)

Mine(c, rows) ==
  \E row \in rows : row.key = Ask(c).key /\ row.to = Ask(c).to /\ row.record = Ask(c).record
Others(c) == IsPayment /\ \E row \in log : row.key = Ask(c).key /\ row.record # Ask(c).record
Done(c) == Mine(c, made) \/ (crashes < Crashes /\ Mine(c, log \ made)) \/ Others(c)

LEMMA DoneEach ==
  DoneMeansMoved <=> \A c \in Callers : Answered(c, "move") /\ setting.distributed => Done(c)
  BY DEF DoneMeansMoved, Done, Mine, Others

\* Whoever holds the record's lock and finds a row for its transition, finds it made,
\* or left by a process that ended.
LEMMA Backed ==
  ASSUME TypeOK, \A d \in Callers : Asking(d), Excluded, Orphans, setting.distributed,
         NEW c \in Callers, At(c, "move", "again") \/ At(c, "move", "insert"),
         Mine(c, log)
  PROVE  Mine(c, made) \/ (crashes < Crashes /\ Mine(c, log \ made))
<1>1. PICK row \in log : row.key = Ask(c).key /\ row.to = Ask(c).to /\ row.record = Ask(c).record
  BY DEF Mine
<1>2. CASE row \in made
  BY <1>1, <1>2 DEF Mine
<1>3. CASE row \notin made /\ crashes < Crashes
  BY <1>1, <1>3 DEF Mine
<1>4. CASE row \notin made /\ ~(crashes < Crashes)
  <2>1. PICK e \in Callers : Writes(e, row)
    BY <1>4 DEF Orphans
  <2>2. call[e].at = "update" /\ Ask(e).op = "move" /\ Ask(e).record = Ask(c).record
    BY <1>1, <2>1 DEF Writes, RowOf, Asking
  <2>3. LockOf(Ask(e)) = LockOf(Ask(c)) /\ call[e].at \in Locked /\ call[c].at \in Locked
    BY <2>2 DEF LockOf, At, Ask, Locked
  <2>4. e = c
    BY <2>3 DEF Excluded
  <2>. QED
    BY <2>2, <2>4 DEF At
<1>. QED
  BY <1>2, <1>3, <1>4

LEMMA MineGrows ==
  ASSUME TypeOK, log \subseteq log', made \subseteq made', crashes' <= crashes, crashes' \in Nat,
         setting' = setting, NEW c \in Callers, Ask(c)' = Ask(c), Done(c)
  PROVE  Done(c)'
<1>1. IsPayment' = IsPayment /\ crashes \in Nat /\ Crashes \in Nat
  BY Same, BridgeAssumption DEF TypeOK
<1>2. CASE Mine(c, made)
  BY <1>2 DEF Mine, Done
<1>3. CASE crashes < Crashes /\ Mine(c, log \ made)
  <2>1. crashes' < Crashes
    BY <1>1, <1>3
  <2>2. Mine(c, made)' \/ Mine(c, log \ made)'
    BY <1>3 DEF Mine
  <2>. QED
    BY <2>1, <2>2 DEF Done
<1>4. CASE Others(c)
  BY <1>1, <1>4 DEF Others, Done
<1>. QED
  BY <1>2, <1>3, <1>4 DEF Done

LEMMA DoneKept ==
  ASSUME TypeOK, \A d \in Callers : Asking(d), Excluded, \A d \in Callers : Found(d), Orphans,
         DoneMeansMoved, NEW c \in Callers, Steps(c)
  PROVE  DoneMeansMoved'
<1>1. /\ log \subseteq log' /\ made \subseteq made' /\ crashes' <= crashes /\ setting' = setting
      /\ \A d \in Callers \ {c} : call'[d] = call[d]
  BY Growing DEF Alone
<1>2. crashes' \in Nat
  BY Beginning, Begun DEF Crash, TypeOK, Steps, Begins, NoWrite, Lock, Looks, Stores, Find,
     FindAgain, FindItems, ReadPrior, ReadCurrent, Create, CreateItems, InsertRow, UpdateStatus
<1>3. ASSUME NEW d \in Callers \ {c}, Answered(d, "move")', setting.distributed
      PROVE  Done(d)'
  <2>1. Answered(d, "move") /\ Ask(d)' = Ask(d)
    BY <1>1, <1>3 DEF Answered, At, Ask
  <2>2. Done(d)
    BY <1>3, <2>1, DoneEach
  <2>. QED
    BY <1>1, <1>2, <2>1, <2>2, MineGrows
<1>4. ASSUME Answered(c, "move")', setting.distributed
      PROVE  Done(c)'
  <2>1. CASE ReadCurrent(c)
    <3>1. /\ At(c, "move", "again") /\ Ask(c)' = Ask(c)
          /\ call[c].found # {} /\ IsReplay(Row(call[c].found), Ask(c))
      BY <1>4, <2>1, Going DEF ReadCurrent, Answer, Refuse, Answered, At, NoWrite, Continues
    <3>2. Row(call[c].found) \in call[c].found
      BY <3>1, Chosen
    <3>3. Mine(c, log) \/ Others(c)
      BY <3>1, <3>2 DEF Found, IsReplay, Mine, Others
    <3>4. Done(c)
      BY <1>4, <3>1, <3>3, Backed DEF Done
    <3>. QED
      BY <1>1, <1>2, <3>1, <3>4, MineGrows
  <2>2. CASE InsertRow(c)
    <3>1. At(c, "move", "insert") /\ Ask(c)' = Ask(c) /\ RowOf(c) \in log
      BY <1>4, <2>2, Going DEF InsertRow, Answer, Refuse, Answered, At, Continues, RowOf
    <3>2. Mine(c, log)
      BY <3>1 DEF Mine, RowOf
    <3>3. Done(c)
      BY <1>4, <3>1, <3>2, Backed DEF Done
    <3>. QED
      BY <1>1, <1>2, <3>1, <3>3, MineGrows
  <2>3. CASE UpdateStatus(c)
    <3>1. Ask(c)' = Ask(c) /\ RowOf(c) \in made'
      BY <2>3, Going DEF UpdateStatus, Answer, Continues, RowOf
    <3>2. Mine(c, made)'
      BY <3>1 DEF Mine, RowOf
    <3>. QED
      BY <3>2 DEF Done
  <2>4. CASE Begins(c) \/ Lock(c) \/ Crash(c)
    <3>1. call'[c].at \in {"find", "lock", "read", "crashed"}
      BY <2>4, Beginning, Begun, Going DEF Begins, Lock, Crash, NoWrite
    <3>. QED
      BY <1>4, <3>1 DEF Answered, At
  <2>5. CASE Find(c) \/ FindAgain(c) \/ FindItems(c) \/ ReadPrior(c) \/ Create(c) \/ CreateItems(c)
    <3>1. Ask(c)' = Ask(c) /\ (Ask(c).op # "move" \/ call'[c].at = "again")
      BY <2>5, Going DEF Find, FindAgain, FindItems, ReadPrior, Create, CreateItems, Answer, Refuse,
         NoWrite, Continues, At, Ask
    <3>. QED
      BY <1>4, <3>1 DEF Answered, At, Ask
  <2>. QED
    BY <2>1, <2>2, <2>3, <2>4, <2>5 DEF Steps, Looks, Stores
<1>5. \A d \in Callers : (Answered(d, "move") /\ setting.distributed => Done(d))'
  BY <1>1, <1>3, <1>4
<1>. QED
  BY <1>5 DEF DoneMeansMoved, Done, Mine, Others

--------------------------------------------------------------------------------
(* The theorems.                                                           *)

LEMMA IInvInit == Init => IInv
<1>. SUFFICES ASSUME Init
              PROVE  IInv
  OBVIOUS
<1>1. setting \in [bridge : {"payment", "fulfilment"}, work : {"create", "record", "move"},
                   distributed : BOOLEAN]
  BY DEF Init
<1>2. First \in DOMAIN Table
  BY <1>1, Starts
<1>3. call \in [Callers -> [at : Ended \cup Locked \cup {"find", "lock"},
                            ask : Asks \cup {None}, found : Answers, left : 0 .. Calls]]
  BY BridgeAssumption DEF Init, Ended, Answers
<1>4. TypeOK
  BY <1>1, <1>2, <1>3, BridgeAssumption DEF Init, TypeOK
<1>5. \A c \in Callers : Asking(c) /\ Found(c) /\ Overtaken(c)
  BY DEF Init, Asking, Found, At, Overtaken, LooksPast, Locked
<1>6. Excluded /\ UniqueKeys /\ Orphans
  BY DEF Init, Excluded, Locked, UniqueKeys, Orphans
<1>7. DoneMeansMoved
  BY DEF Init, DoneMeansMoved, Answered, At
<1>. QED
  BY <1>4, <1>5, <1>6, <1>7 DEF IInv

LEMMA NextSteps == Next <=> \E c \in Callers : Steps(c)
  BY DEF Next, Steps, Begins, Looks, Stores

LEMMA TypeKept ==
  ASSUME TypeOK, \A d \in Callers : Asking(d), \A d \in Callers : Found(d),
         NEW c \in Callers, Steps(c)
  PROVE  TypeOK'
<1>1. CASE Begins(c)
  BY <1>1, Beginning, Begun DEF Begins
<1>2. CASE Lock(c) \/ Looks(c)
  <2>1. PICK p \in Ended \cup Locked \cup {"lock"}, f \in Answers : Reads(c, p, f)
    BY <1>2, Reading DEF Looks
  <2>. QED
    BY <2>1, GoingTyped, NothingWritten DEF Reads
<1>3. CASE Crash(c)
  BY <1>3, CrashTyped
<1>4. CASE Stores(c)
  BY <1>4, CreateTyped, CreateItemsTyped, InsertRowTyped, UpdateStatusTyped DEF Stores
<1>. QED
  BY <1>1, <1>2, <1>3, <1>4 DEF Steps

LEMMA IInvNext == IInv /\ [Next]_vars => IInv'
<1>. SUFFICES ASSUME IInv, [Next]_vars
              PROVE  IInv'
  OBVIOUS
<1>0. /\ TypeOK /\ Excluded /\ UniqueKeys /\ Orphans /\ DoneMeansMoved
      /\ \A c \in Callers : Asking(c) /\ Found(c) /\ Overtaken(c)
  BY DEF IInv
<1>1. ASSUME NEW c \in Callers, Steps(c)
      PROVE  IInv'
  <2>1. TypeOK'
    BY <1>0, <1>1, TypeKept
  <2>2. \A d \in Callers : Asking(d)'
    BY <1>0, <1>1, AskingKept DEF Steps
  <2>3. Excluded'
    BY <1>0, <1>1, ExcludedKept DEF Steps
  <2>4. UniqueKeys'
    BY <1>0, <1>1, UniqueKept
  <2>5. \A d \in Callers : Found(d)'
    BY <1>0, <1>1, OthersFound, MoverFound
  <2>6. Orphans' /\ DoneMeansMoved'
    BY <1>0, <1>1, OrphansKept, DoneKept
  <2>7. \A d \in Callers : Overtaken(d)'
    BY <1>0, <1>1, OvertakenKept
  <2>. QED
    BY <2>1, <2>2, <2>3, <2>4, <2>5, <2>6, <2>7 DEF IInv
<1>2. CASE UNCHANGED vars
  <2>. USE <1>0, <1>2 DEF vars
  <2>1. /\ Table' = Table /\ Moves' = Moves /\ Asks' = Asks /\ Answers' = Answers
        /\ IsPayment' = IsPayment /\ Creations' = Creations /\ Ended' = Ended /\ Locked' = Locked
    BY Same DEF Creations, Ended, Locked
  <2>2. TypeOK'
    BY <2>1 DEF TypeOK
  <2>3. \A c \in Callers : Asking(c)'
    BY <2>1 DEF Asking, Ask
  <2>4. Excluded'
    BY DEF Excluded, LockOf, Ask, Locked
  <2>5. UniqueKeys' /\ Orphans'
    BY DEF UniqueKeys, Orphans, Writes, RowOf, Ask
  <2>6. \A c \in Callers : Found(c)'
    BY <2>1 DEF Found, At, Ask, Under, Recorded, IsCurrent
  <2>7. DoneMeansMoved'
    BY <2>1 DEF DoneMeansMoved, Answered, At, Ask
  <2>8. \A c \in Callers : Overtaken(c)'
    BY DEF Overtaken, LooksPast, Under, Ask, Locked
  <2>. QED
    BY <2>2, <2>3, <2>4, <2>5, <2>6, <2>7, <2>8 DEF IInv
<1>. QED
  BY <1>1, <1>2, NextSteps

LEMMA IInvAlways == Spec => []IInv
  BY IInvInit, IInvNext, PTL DEF Spec

\* Calls stay what they are, and name statuses of their bridge's table.
THEOREM BridgeTypeCorrect == Spec => []TypeOK
<1>1. IInv => TypeOK
  BY DEF IInv
<1>. QED
  BY <1>1, IInvAlways, PTL

\* One record under a key, and whoever was answered by its creation was answered that
\* record, of its own estate unless another caller created it between its look in the
\* port and its answer: for any number of callers, with a distributed lock or without one.
THEOREM KeysCreateOnce == Spec => []CreatedOnce
<1>1. IInv => CreatedOnce
  BY DEF IInv, CreatedOnce, UniqueKeys, Found, Answered
<1>. QED
  BY <1>1, IInvAlways, PTL

\* Under the distributed lock a status is followed only by one its table lists.
THEOREM UpdatesAreKept == Spec => NoLostUpdate
<1>1. ASSUME IInv, [Next]_vars, NEW r \in Records, status'[r] # status[r], setting.distributed
      PROVE  status'[r] \in Table[status[r]]
  <2>1. PICK c \in Callers : Steps(c)
    BY <1>1, NextSteps DEF vars
  <2>2. /\ At(c, "move", "update") /\ status' = [status EXCEPT ![Ask(c).record] = Ask(c).to]
    BY <1>1, <2>1, Growing DEF IInv
  <2>3. Ask(c).record = r /\ status'[r] = Ask(c).to
    BY <1>1, <2>2 DEF IInv, TypeOK
  <2>4. status[r] = Ask(c).from
    BY <1>1, <2>2, <2>3 DEF IInv, Found, IsCurrent
  <2>5. Ask(c).to \in Table[Ask(c).from]
    BY <1>1, <2>2, MoveAsked DEF IInv, At, Ask
  <2>. QED
    BY <2>3, <2>4, <2>5
<1>2. IInv /\ [Next]_vars =>
        [\A r \in Records :
           status'[r] # status[r] /\ setting.distributed => status'[r] \in Table[status[r]]]_vars
  BY <1>1
<1>. QED
  BY <1>2, IInvAlways, PTL DEF NoLostUpdate, Spec

\* Under the distributed lock a transition answered as done was made, save for the two
\* exceptions the property names.
THEOREM DoneIsMade == Spec => []DoneMeansMoved
<1>1. IInv => DoneMeansMoved
  BY DEF IInv
<1>. QED
  BY <1>1, IInvAlways, PTL
================================================================================
