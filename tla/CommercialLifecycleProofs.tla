----------------------- MODULE CommercialLifecycleProofs -----------------------
(***************************************************************************)
(* Theorems about requests for quotation and their offers, for any number  *)
(* of commands, requests, offers, keys and changes of authority: the locks *)
(* a command holds keep true until its commit what it read, checked and    *)
(* decided before.                                                         *)
(***************************************************************************)
EXTENDS CommercialLifecycle, FiniteSetTheorems, TLAPS

----------------------------------------------------------------------------
(***************************************************************************)
(* The inductive invariant.                                                *)
(***************************************************************************)

RequestStatus == {"none", "DRAFT", "SUBMITTED", "UNDER_REVIEW", "QUOTED", "DECLINED",
                  "WITHDRAWN", "EXPIRED", "CLOSED"}
OfferStatus == {"none", "ISSUED", "REJECTED", "WITHDRAWN", "EXPIRED"}
Offer == [status : OfferStatus, version : Nat, until : Nat]
Request == [status : RequestStatus, version : Nat, offer : [Offers -> Offer]]
Grant == [relationship : Nat, membership : Nat, expires : Nat]
Places == {"idle", "begun", "keyed", "parent", "locked", "granted", "cleared", "applied",
           "rechecked", "ended"}
Transaction ==
  [at : Places, action : Actions \cup {"none"}, key : Keys \cup {None}, f : Rfqs \cup {None},
   q : Offers \cup {None}, v : Nat, grant : Grant, stamp : Nat, next : Request]
Receipt ==
  [digest : {Digest(t) : t \in Transaction}, f : Rfqs, q : Offers \cup {None}, version : Nat]
Row == [status : {"ACTIVE", "SUSPENDED"}, revision : Nat]

OfferActions == {"QUOTATION_ISSUE", "QUOTATION_REJECT", "QUOTATION_WITHDRAW", "QUOTATION_EXPIRE"}

Active(c) == tx[c].at \notin {"idle", "ended"}
Decided(c) == tx[c].at \in {"applied", "rechecked"}

\* A command under way concerns a request, and an offer of it when it is about one.
Concerns(c) ==
  Active(c) => /\ tx[c].action \in Actions /\ tx[c].f \in Rfqs /\ tx[c].key \in Keys
               /\ tx[c].q \in Offers <=> tx[c].action \in OfferActions

LifecycleTypes ==
  /\ rfq \in [Rfqs -> Request]
  /\ receipt \in [Keys -> Receipt \cup {None}]
  /\ authority \in [{"relationship", "membership"} -> Row]
  /\ tx \in [Commands -> Transaction]
  /\ now \in Nat /\ edits \in Nat /\ aborts \in Nat
  /\ \A c \in Commands : Concerns(c)

\* A request and its offers as every command leaves them.
Sound(r) ==
  /\ r.version = 0 => r.status = "none" /\ \A q \in Offers : r.offer[q].version = 0
  /\ \A q \in Offers : r.offer[q].status = "ISSUED" => r.offer[q].version > 0
  /\ \A p, q \in Open(r) : p = q
  /\ Open(r) # {} => r.status = "QUOTED"
  /\ r.status \in {"QUOTED", "CLOSED"} => \E q \in Offers : r.offer[q].version > 0

\* One command has the row of a request; a create has its request to itself.
OneHolder ==
  \A c, o \in Commands :
    c # o /\ Active(c) /\ Active(o) /\ tx[c].f = tx[o].f =>
      /\ tx[c].action # "RFQ_CREATE"
      /\ ~(HasRequest(c) /\ HasRequest(o))
CreatesNew ==
  \A c \in Commands : Active(c) /\ tx[c].action = "RFQ_CREATE" => rfq[tx[c].f].version = 0
\* An issue draws the identifier of its offer: nobody else has it.
IssuesNew ==
  \A c \in Commands : Active(c) /\ tx[c].action = "QUOTATION_ISSUE" =>
    /\ rfq[tx[c].f].offer[tx[c].q].version = 0
    /\ \A o \in Commands \ {c} : Active(o) => <<tx[o].f, tx[o].q>> # <<tx[c].f, tx[c].q>>

\* What the command is about to commit follows the row as it stands.
Succeeds(t, r, n) ==
  /\ Sound(n) /\ n.version >= r.version
  /\ \A q \in Offers : /\ n.offer[q].version >= r.offer[q].version
                       /\ r.offer[q].version = 0 /\ q # t.q => n.offer[q].version = 0
  /\ IF t.q = None THEN n.version = r.version + 1
     ELSE n.version > 0 /\ n.offer[t.q].version = r.offer[t.q].version + 1
DecidedOnRow == \A c \in Commands : Decided(c) => Succeeds(tx[c], rfq[tx[c].f], tx[c].next)

\* A receipt names a version its row has reached.
Reached ==
  \A k \in Keys : receipt[k] # None =>
    receipt[k].version <= IF receipt[k].q = None THEN rfq[receipt[k].f].version
                          ELSE rfq[receipt[k].f].offer[receipt[k].q].version

\* What the share locks hold.
HeldAuthority ==
  \A c \in Commands : Shares(c) =>
    /\ Current(authority.relationship, tx[c].grant.relationship)
    /\ tx[c].action \in BuyerActions => Current(authority.membership, tx[c].grant.membership)

LifecycleInv ==
  /\ LifecycleTypes
  /\ \A f \in Rfqs : Sound(rfq[f])
  /\ OneHolder /\ CreatesNew /\ IssuesNew /\ DecidedOnRow /\ Reached /\ OneCommandPerVersion
  /\ HeldAuthority

----------------------------------------------------------------------------
(***************************************************************************)
(* What a command decides about its row.                                   *)
(***************************************************************************)

\* An offer that ends is no longer open and counts the change.
LEMMA EndedOffer ==
  ASSUME NEW o \in Offer, NEW status \in {"REJECTED", "WITHDRAWN", "EXPIRED"}
  PROVE  /\ Ended(o, status) \in Offer
         /\ Ended(o, status).status = status /\ Ended(o, status).version = o.version + 1
<1>1. /\ status \in OfferStatus /\ o.version \in Nat /\ o.version + 1 \in Nat
      /\ Ended(o, status) = [o EXCEPT !.status = status, !.version = o.version + 1]
  BY DEF Ended, Offer, OfferStatus
<1> DEFINE version == o.version + 1
<1> HIDE DEF version
<1>2. LET e == [o EXCEPT !.status = status, !.version = version] IN
      /\ version \in Nat => e \in Offer
      /\ e.status = status /\ e.version = version
  BY <1>1 DEF Offer
<1> QED BY <1>1, <1>2 DEF version

\* The row of a request that moves to another status with these offers.
LEMMA MovedRequest ==
  ASSUME NEW r \in Request, NEW status \in RequestStatus, NEW offers \in [Offers -> Offer]
  PROVE  /\ Moved(r, status, offers) \in Request
         /\ Moved(r, status, offers).status = status
         /\ Moved(r, status, offers).version = r.version + 1
         /\ Moved(r, status, offers).offer = offers
BY DEF Moved, Request

LEMMA FollowingStatus ==
  ASSUME NEW status \in RequestStatus
  PROVE  Follows(status) \subseteq RequestStatus
BY DEF Follows, RequestStatus

\* Everything a command may write follows the row it found.
LEMMA ResultsSucceed ==
  ASSUME NEW c \in Commands, LifecycleInv, Active(c), NEW n \in Results(tx[c])
  PROVE  n \in Request /\ Succeeds(tx[c], rfq[tx[c].f], n)
<1> DEFINE t == tx[c]
           r == rfq[t.f]
           o == r.offer[t.q]
           status == Target[t.action]
<1>0. /\ t \in Transaction /\ t.f \in Rfqs /\ t.action \in Actions
      /\ t.q \in Offers <=> t.action \in OfferActions
      /\ r \in Request /\ Sound(r) /\ now \in Nat
      /\ t.action = "RFQ_CREATE" => r.version = 0
  BY DEF LifecycleInv, LifecycleTypes, Concerns, CreatesNew
<1>1. /\ r.version \in Nat /\ r.offer \in [Offers -> Offer] /\ r.status \in RequestStatus
      /\ \A q \in Offers : r.offer[q] \in Offer /\ r.offer[q].version \in Nat
      /\ t.q \in Offers \cup {None} /\ t.stamp \in Nat
  BY <1>0 DEF Request, Offer, Transaction
<1>2. None \notin Offers /\ Offers # {}
  BY LifecycleAssumption
<1> HIDE DEF r, t
<1>3. CASE t.action = "RFQ_CREATE"
  <2>1. n = [Unborn EXCEPT !.status = "DRAFT", !.version = 1]
    BY <1>3 DEF Results, t
  <2>2. NoOffer \in Offer /\ NoOffer.status = "none" /\ NoOffer.version = 0
    BY DEF NoOffer, Offer, OfferStatus
  <2>3. /\ n \in Request /\ n.status = "DRAFT" /\ n.version = 1
        /\ n.offer = [q \in Offers |-> NoOffer]
    BY <2>1, <2>2 DEF Unborn, Request, RequestStatus
  <2>4. \A q \in Offers : n.offer[q].status = "none" /\ n.offer[q].version = 0
    BY <2>2, <2>3
  <2>5. Sound(n)
    BY <2>3, <2>4 DEF Sound, Open
  <2>6. t.q = None
    BY <1>0, <1>1, <1>3 DEF OfferActions
  <2>7. r.version = 0 /\ \A q \in Offers : r.offer[q].version = 0
    BY <1>0, <1>3 DEF Sound
  <2> QED BY <2>3, <2>4, <2>5, <2>6, <2>7 DEF Succeeds, r, t
<1>4. CASE t.action \in {"RFQ_SUBMIT", "RFQ_REVIEW", "RFQ_DECLINE", "RFQ_CLOSE"}
  <2>1. n = Moved(r, status, r.offer) /\ Moves(r, status, r.offer)
    BY <1>4 DEF Results, r, t
  <2>2. /\ status \in RequestStatus
        /\ status \in {"SUBMITTED", "UNDER_REVIEW", "DECLINED", "CLOSED"}
    BY <1>4 DEF Target, RequestStatus
  <2>3. /\ n \in Request /\ n.status = status /\ n.version = r.version + 1 /\ n.offer = r.offer
    BY <1>0, <1>1, <2>1, <2>2, MovedRequest
  <2>4. t.q = None
    BY <1>0, <1>1, <1>4 DEF OfferActions
  <2>5. Open(n) = Open(r)
    BY <2>3 DEF Open
  <2>6. Open(r) = {}
    <3>1. status \in {"UNDER_REVIEW", "CLOSED"} => Open(r) = {}
      BY <2>1 DEF Moves, Open
    <3>2. status \in {"SUBMITTED", "DECLINED"} => r.status # "QUOTED"
      BY <1>1, <2>1 DEF Moves, Follows, RequestStatus
    <3> QED BY <1>0, <2>2, <3>1, <3>2 DEF Sound
  <2>7. status = "CLOSED" => r.status = "QUOTED"
    BY <1>1, <2>1 DEF Moves, Follows, RequestStatus
  <2>8. Sound(n)
    BY <1>0, <1>1, <2>2, <2>3, <2>5, <2>6, <2>7 DEF Sound
  <2> QED BY <1>1, <2>3, <2>4, <2>8 DEF Succeeds, r, t
<1>5. CASE t.action \in {"RFQ_WITHDRAW", "RFQ_EXPIRE"}
  <2> DEFINE offers == [q \in Offers |-> IF q \in Open(r) THEN ClosedWith(t, r.offer[q])
                                         ELSE r.offer[q]]
  <2>1. n = Moved(r, status, offers) /\ Moves(r, status, offers)
    BY <1>5 DEF Results, r, t
  <2>2. /\ status \in RequestStatus /\ status \in {"WITHDRAWN", "EXPIRED"}
    BY <1>5 DEF Target, RequestStatus
  <2>3. \A q \in Offers :
          /\ ClosedWith(t, r.offer[q]) \in Offer
          /\ ClosedWith(t, r.offer[q]).version = r.offer[q].version + 1
    BY <1>1, EndedOffer DEF ClosedWith
  <2>4. /\ offers \in [Offers -> Offer]
        /\ \A q \in Offers : /\ offers[q].version >= r.offer[q].version
                             /\ r.offer[q].version = 0 => offers[q].version = 0
    <3>1. \A q \in Open(r) : r.offer[q].version > 0
      BY <1>0 DEF Sound, Open
    <3> QED BY <1>1, <2>3, <3>1
  <2>5. \A q \in Offers : offers[q].status # "ISSUED"
    BY <2>1, <2>2 DEF Moves
  <2> HIDE DEF offers
  <2>6. /\ n \in Request /\ n.status = status /\ n.version = r.version + 1 /\ n.offer = offers
    BY <1>0, <2>1, <2>2, <2>4, MovedRequest
  <2>7. t.q = None
    BY <1>0, <1>1, <1>5 DEF OfferActions
  <2>8. Open(n) = {}
    BY <2>5, <2>6 DEF Open
  <2>9. Sound(n)
    BY <1>1, <2>2, <2>5, <2>6, <2>8 DEF Sound
  <2> QED BY <1>1, <2>4, <2>6, <2>7, <2>9 DEF Succeeds, r, t
<1>6. CASE t.action = "QUOTATION_ISSUE"
  <2> DEFINE issued(u) == [status |-> "ISSUED", version |-> 1, until |-> u]
  <2>1. PICK u \in now + 1 .. MaxNow + 1 :
          /\ n = Moved(r, status, [r.offer EXCEPT ![t.q] = issued(u)])
          /\ r.status = "UNDER_REVIEW" /\ Open(r) = {} /\ t.v = r.version
    BY <1>6 DEF Results, r, t
  <2>2. status = "QUOTED" /\ status \in RequestStatus /\ t.q \in Offers
    BY <1>0, <1>6 DEF Target, RequestStatus, OfferActions
  <2>3. u \in Nat
    BY <1>0, LifecycleAssumption
  <2>4. issued(u) \in Offer /\ issued(u).status = "ISSUED" /\ issued(u).version = 1
    BY <2>3 DEF Offer, OfferStatus
  <2> DEFINE offers == [r.offer EXCEPT ![t.q] = issued(u)]
  <2> HIDE DEF issued
  <2>5. /\ offers \in [Offers -> Offer] /\ offers[t.q] = issued(u)
        /\ \A q \in Offers \ {t.q} : offers[q] = r.offer[q]
    BY <1>1, <2>2, <2>4
  <2> HIDE DEF offers
  <2>6. /\ n \in Request /\ n.status = "QUOTED" /\ n.version = r.version + 1 /\ n.offer = offers
    BY <1>0, <2>1, <2>2, <2>5, MovedRequest DEF offers
  <2>7. Open(n) = {t.q}
    BY <2>1, <2>2, <2>4, <2>5, <2>6 DEF Open
  <2>8. r.offer[t.q].version = 0
    BY <1>6, <2>2 DEF LifecycleInv, IssuesNew, Active, t, r
  <2>9. Sound(n)
    BY <1>0, <1>1, <2>2, <2>4, <2>5, <2>6, <2>7 DEF Sound, Open
  <2>10. \A q \in Offers : /\ n.offer[q].version >= r.offer[q].version
                           /\ r.offer[q].version = 0 /\ q # t.q => n.offer[q].version = 0
    BY <1>1, <2>4, <2>5, <2>6, <2>8
  <2>11. n.offer[t.q].version = r.offer[t.q].version + 1
    BY <2>4, <2>5, <2>6, <2>8
  <2> QED BY <1>1, <1>2, <2>2, <2>6, <2>9, <2>10, <2>11 DEF Succeeds, r, t
<1>7. CASE t.action \in {"QUOTATION_REJECT", "QUOTATION_WITHDRAW", "QUOTATION_EXPIRE"}
  <2>1. /\ n = [r EXCEPT !.offer[t.q] = Ended(o, status)] /\ o.status = "ISSUED"
    BY <1>7 DEF Results, EndsOffer, r, t
  <2>2. status \in {"REJECTED", "WITHDRAWN", "EXPIRED"} /\ t.q \in Offers
    BY <1>0, <1>7 DEF Target, OfferActions
  <2>3. /\ Ended(o, status) \in Offer /\ Ended(o, status).status = status
        /\ Ended(o, status).version = o.version + 1
    BY <1>1, <2>2, EndedOffer
  <2>4. /\ n \in Request /\ n.status = r.status /\ n.version = r.version
        /\ n.offer[t.q] = Ended(o, status)
        /\ \A q \in Offers \ {t.q} : n.offer[q] = r.offer[q]
    BY <1>0, <1>1, <2>1, <2>2, <2>3 DEF Request
  <2>5. Open(n) \subseteq Open(r)
    BY <2>2, <2>3, <2>4 DEF Open
  <2>6. r.status = "QUOTED" /\ r.version > 0
    BY <1>0, <1>1, <2>1, <2>2 DEF Sound, Open
  <2>7. \A q \in Offers : /\ n.offer[q].version >= r.offer[q].version
                          /\ r.offer[q].version = 0 /\ q # t.q => n.offer[q].version = 0
    BY <1>1, <2>2, <2>3, <2>4
  <2>8. Sound(n)
    <3>1. \A q \in Offers : n.offer[q].status = "ISSUED" => n.offer[q].version > 0
      BY <1>0, <2>2, <2>3, <2>4 DEF Sound
    <3>2. n.offer[t.q].version > 0
      BY <1>1, <2>2, <2>3, <2>4
    <3> QED BY <1>0, <2>2, <2>4, <2>5, <2>6, <3>1, <3>2 DEF Sound
  <2>9. n.offer[t.q].version = r.offer[t.q].version + 1
    BY <2>3, <2>4
  <2>10. n.version > 0 /\ n.version >= r.version /\ t.q # None
    BY <1>1, <1>2, <2>2, <2>4, <2>6
  <2> QED BY <2>4, <2>7, <2>8, <2>9, <2>10 DEF Succeeds, r, t
<1> QED BY <1>0, <1>3, <1>4, <1>5, <1>6, <1>7 DEF Actions, BuyerActions, SystemActions, SellerActions

----------------------------------------------------------------------------
(***************************************************************************)
(* Steps of one transaction.                                               *)
(***************************************************************************)

LEMMA IdleTyped == /\ Idle \in Transaction
                   /\ [Idle EXCEPT !.at = "ended"] \in Transaction
                   /\ [Idle EXCEPT !.at = "ended"].at = "ended" /\ Idle.at = "idle"
<1>1. Unborn \in Request
  BY DEF Unborn, NoOffer, Request, RequestStatus, Offer, OfferStatus
<1>2. [relationship |-> 0, membership |-> 0, expires |-> 0] \in Grant
  BY DEF Grant
<1> QED BY <1>1, <1>2 DEF Idle, Transaction, Places

LEMMA Goes ==
  ASSUME LifecycleInv, NEW c \in Commands, NEW new \in Transaction, Go(c, new)
  PROVE  /\ tx' \in [Commands -> Transaction] /\ tx'[c] = new
         /\ \A o \in Commands \ {c} : tx'[o] = tx[o]
BY DEF LifecycleInv, LifecycleTypes, Go

\* A command whose transaction ends gives up whatever it had.
LEMMA EndKeeps ==
  ASSUME LifecycleInv, NEW c \in Commands, End(c),
         UNCHANGED <<rfq, receipt, authority, now, edits>>, aborts' \in Nat
  PROVE  LifecycleInv'
<1>1. /\ tx' \in [Commands -> Transaction] /\ tx'[c].at = "ended"
      /\ \A o \in Commands \ {c} : tx'[o] = tx[o]
  BY Goes, IdleTyped DEF End
<1>2. /\ ~Active(c)' /\ ~Decided(c)' /\ ~Shares(c)' /\ ~HasRequest(c)'
      /\ \A o \in Commands \ {c} :
           /\ Active(o)' <=> Active(o)
           /\ Decided(o)' <=> Decided(o)
           /\ Shares(o)' <=> Shares(o)
           /\ HasRequest(o)' <=> HasRequest(o)
  BY <1>1 DEF Active, Decided, Shares, HasRequest
<1>3. LifecycleTypes'
  BY <1>1, <1>2 DEF LifecycleInv, LifecycleTypes, Concerns
<1>4. OneHolder' /\ CreatesNew' /\ IssuesNew'
  BY <1>1, <1>2 DEF LifecycleInv, OneHolder, CreatesNew, IssuesNew
<1>5. DecidedOnRow' /\ HeldAuthority'
  BY <1>1, <1>2 DEF LifecycleInv, DecidedOnRow, HeldAuthority
<1>6. Reached' /\ OneCommandPerVersion' /\ \A f \in Rfqs : Sound(rfq[f])'
  BY DEF LifecycleInv, Reached, OneCommandPerVersion, Sound, Open
<1> QED BY <1>3, <1>4, <1>5, <1>6 DEF LifecycleInv

Holding == {"parent", "locked", "granted", "cleared", "applied", "rechecked"}

\* A command that goes on with what it arrived with.
Same(t, new) ==
  /\ new.action = t.action /\ new.key = t.key /\ new.f = t.f /\ new.q = t.q
  /\ new.at \notin {"idle", "ended"}

LEMMA ProceedKeeps ==
  ASSUME LifecycleInv, NEW c \in Commands, NEW new \in Transaction, Go(c, new), Quiet,
         Active(c), Same(tx[c], new),
         new.action # "RFQ_CREATE" /\ new.at \in Holding => HasRequest(c) \/ RequestFree(c),
         new.at \in {"applied", "rechecked"} => Succeeds(tx[c], rfq[tx[c].f], new.next),
         new.at \in {"cleared", "applied", "rechecked"} =>
           /\ Current(authority.relationship, new.grant.relationship)
           /\ tx[c].action \in BuyerActions => Current(authority.membership, new.grant.membership)
  PROVE  LifecycleInv'
<1>1. /\ tx' \in [Commands -> Transaction] /\ tx'[c] = new
      /\ \A o \in Commands \ {c} : tx'[o] = tx[o]
  BY Goes
<1>2. /\ UNCHANGED <<rfq, receipt, authority, now, edits, aborts>>
      /\ tx'[c].action = tx[c].action /\ tx'[c].key = tx[c].key
      /\ tx'[c].f = tx[c].f /\ tx'[c].q = tx[c].q
  BY <1>1 DEF Quiet, Same
<1>3. \A o \in Commands :
        /\ Active(o)' <=> Active(o)
        /\ tx'[o].action = tx[o].action /\ tx'[o].key = tx[o].key
        /\ tx'[o].f = tx[o].f /\ tx'[o].q = tx[o].q
  BY <1>1, <1>2 DEF Active, Same
<1>4. LifecycleTypes'
  BY <1>1, <1>2, <1>3 DEF LifecycleInv, LifecycleTypes, Concerns
<1>5. OneHolder'
  <2>1. \A o \in Commands \ {c} : HasRequest(o)' <=> HasRequest(o)
    BY <1>1 DEF HasRequest
  <2>2. HasRequest(c)' => HasRequest(c) \/ RequestFree(c)
    BY <1>1 DEF HasRequest, Holding
  <2>3. ASSUME NEW o \in Commands \ {c}, tx[c].f = tx[o].f, Active(o)
        PROVE  ~(HasRequest(c)' /\ HasRequest(o)')
    <3>1. ~(HasRequest(c) /\ HasRequest(o))
      BY <2>3 DEF LifecycleInv, OneHolder
    <3>2. RequestFree(c) => ~HasRequest(o)
      BY <2>3 DEF RequestFree, Others
    <3> QED BY <2>1, <2>2, <3>1, <3>2
  <2>4. ASSUME NEW a \in Commands, NEW b \in Commands, a # b, Active(a)', Active(b)',
               tx'[a].f = tx'[b].f
        PROVE  tx'[a].action # "RFQ_CREATE" /\ ~(HasRequest(a)' /\ HasRequest(b)')
    <3>1. /\ Active(a) /\ Active(b) /\ tx[a].f = tx[b].f
          /\ tx[a].action # "RFQ_CREATE" /\ ~(HasRequest(a) /\ HasRequest(b))
      BY <1>3, <2>4 DEF LifecycleInv, OneHolder
    <3>2. CASE a = c
      BY <1>3, <2>3, <2>4, <3>1, <3>2
    <3>3. CASE b = c
      BY <1>3, <2>3, <2>4, <3>1, <3>3
    <3>4. CASE a # c /\ b # c
      BY <1>3, <2>1, <3>1, <3>4
    <3> QED BY <3>2, <3>3, <3>4
  <2> QED BY <2>4 DEF OneHolder
<1>6. CreatesNew' /\ IssuesNew'
  BY <1>2, <1>3 DEF LifecycleInv, CreatesNew, IssuesNew
<1>7. DecidedOnRow'
  <2>1. ASSUME NEW o \in Commands, Decided(o)' PROVE Succeeds(tx'[o], rfq'[tx'[o].f], tx'[o].next)
    <3>1. CASE o = c
      BY <1>1, <1>2, <2>1, <3>1 DEF Decided, Succeeds
    <3>2. CASE o # c
      BY <1>1, <1>2, <2>1, <3>2 DEF Decided, LifecycleInv, DecidedOnRow
    <3> QED BY <3>1, <3>2
  <2> QED BY <2>1 DEF DecidedOnRow, Succeeds, Sound, Open
<1>8. HeldAuthority'
  <2>1. ASSUME NEW o \in Commands, Shares(o)'
        PROVE  /\ Current(authority.relationship, tx'[o].grant.relationship)
               /\ tx'[o].action \in BuyerActions =>
                    Current(authority.membership, tx'[o].grant.membership)
    <3>1. CASE o = c
      BY <1>1, <1>2, <2>1, <3>1 DEF Shares
    <3>2. CASE o # c
      BY <1>1, <2>1, <3>2 DEF Shares, LifecycleInv, HeldAuthority
    <3> QED BY <3>1, <3>2
  <2> QED BY <1>2, <2>1 DEF HeldAuthority, Current
<1>9. Reached' /\ OneCommandPerVersion' /\ \A f \in Rfqs : Sound(rfq[f])'
  BY <1>2 DEF LifecycleInv, Reached, OneCommandPerVersion, Sound, Open
<1> QED BY <1>4, <1>5, <1>6, <1>7, <1>8, <1>9 DEF LifecycleInv

\* The next place of a transaction that keeps its local state.
LEMMA NextPlace ==
  ASSUME NEW t \in Transaction, NEW at \in Places \ {"idle", "ended"}
  PROVE  LET new == [t EXCEPT !.at = at] IN
         /\ new \in Transaction /\ Same(t, new) /\ new.at = at
         /\ new.grant = t.grant /\ new.next = t.next
BY DEF Transaction, Same

LEMMA ContinueKeeps ==
  ASSUME LifecycleInv, NEW c \in Commands, Continue(c), ~Commit(c)
  PROVE  LifecycleInv'
<1>0. /\ tx[c] \in Transaction /\ now \in Nat /\ aborts \in Nat
      /\ authority.relationship.revision \in Nat /\ authority.membership.revision \in Nat
  BY DEF LifecycleInv, LifecycleTypes, Row
<1>e. ASSUME End(c), Quiet PROVE LifecycleInv'
  BY <1>0, <1>e, EndKeeps DEF Quiet
<1>1. CASE LockKey(c)
  <2>1. Active(c) /\ tx[c].at = "begun" /\ Quiet
    BY <1>1 DEF LockKey, Active
  <2>2. CASE \E at \in {"locked", "keyed"} :
               /\ Go(c, [tx[c] EXCEPT !.at = at])
               /\ tx[c].action # "RFQ_CREATE" => at = "keyed"
    <3>1. PICK at \in {"locked", "keyed"} :
               /\ Go(c, [tx[c] EXCEPT !.at = at])
               /\ tx[c].action # "RFQ_CREATE" => at = "keyed"
      BY <2>2
    <3>2. at \in Places \ {"idle", "ended"}
      BY DEF Places
    <3> DEFINE new == [tx[c] EXCEPT !.at = at]
    <3>3. /\ new \in Transaction /\ Same(tx[c], new) /\ new.at = at /\ Go(c, new)
      BY <1>0, <3>1, <3>2, NextPlace
    <3>4. new.action = tx[c].action
      BY <3>3 DEF Same
    <3> HIDE DEF new
    <3> QED BY <2>1, <3>1, <3>3, <3>4, ProceedKeeps DEF Holding
  <2> QED BY <1>1, <1>e, <2>1, <2>2 DEF LockKey
<1>2. CASE LockRequest(c)
  <2> DEFINE new == [tx[c] EXCEPT !.at = "parent"]
  <2>1. Active(c) /\ Quiet /\ RequestFree(c) /\ Go(c, new)
    BY <1>2 DEF LockRequest, Active
  <2>2. "parent" \in Places \ {"idle", "ended"}
    BY DEF Places
  <2>3. new \in Transaction /\ Same(tx[c], new) /\ new.at = "parent"
    BY <1>0, <2>2, NextPlace
  <2> HIDE DEF new
  <2> QED BY <2>1, <2>3, ProceedKeeps
<1>3. CASE LockRow(c)
  <2> DEFINE new == [tx[c] EXCEPT !.at = "locked"]
  <2>1. Active(c) /\ Quiet /\ tx[c].at = "parent" /\ Go(c, new)
    BY <1>3 DEF LockRow, Active
  <2>2. "locked" \in Places \ {"idle", "ended"}
    BY DEF Places
  <2>3. new \in Transaction /\ Same(tx[c], new) /\ new.at = "locked"
    BY <1>0, <2>2, NextPlace
  <2>4. new.action # "RFQ_CREATE" => HasRequest(c)
    BY <2>1, <2>3 DEF HasRequest, Same
  <2> HIDE DEF new
  <2> QED BY <2>1, <2>3, <2>4, ProceedKeeps
<1>4. CASE Authorize(c)
  <2>1. ASSUME NEW a \in 1..authority.relationship.revision, NEW b \in 1..authority.membership.revision,
               NEW e \in now + 1 .. now + MaxLife, tx[c].at = "locked", Quiet,
               Go(c, [tx[c] EXCEPT !.at = "granted",
                        !.grant = [relationship |-> a, membership |-> b, expires |-> e]])
        PROVE  LifecycleInv'
    <3> DEFINE grant == [relationship |-> a, membership |-> b, expires |-> e]
               new == [tx[c] EXCEPT !.at = "granted", !.grant = grant]
    <3>1. a \in Nat /\ b \in Nat /\ e \in Nat
      BY <1>0, LifecycleAssumption
    <3>2. grant \in Grant
      BY <3>1 DEF Grant
    <3>3. Go(c, new)
      BY <2>1
    <3> HIDE DEF grant
    <3>4. new \in Transaction /\ Same(tx[c], new) /\ new.at = "granted"
      BY <1>0, <3>2 DEF Transaction, Places, Same
    <3>5. Active(c) /\ (new.action # "RFQ_CREATE" => HasRequest(c))
      BY <2>1, <3>4 DEF Active, HasRequest, Same
    <3> HIDE DEF new
    <3> QED BY <2>1, <3>3, <3>4, <3>5, ProceedKeeps
  <2> QED BY <1>4, <1>e, <2>1 DEF Authorize
<1>5. CASE Clear(c)
  <2> DEFINE new == [tx[c] EXCEPT !.at = "cleared", !.stamp = now]
  <2>1. CASE Authorized(tx[c]) /\ Go(c, new)
    <3>1. Active(c) /\ Quiet /\ tx[c].at = "granted"
      BY <1>5 DEF Clear, Active
    <3>2. /\ new \in Transaction /\ Same(tx[c], new) /\ new.at = "cleared"
          /\ new.grant = tx[c].grant
      BY <1>0 DEF Transaction, Places, Same
    <3>3. new.action # "RFQ_CREATE" => HasRequest(c)
      BY <3>1, <3>2 DEF HasRequest, Same
    <3> HIDE DEF new
    <3> QED BY <2>1, <3>1, <3>2, <3>3, ProceedKeeps DEF Authorized
  <2> QED BY <1>5, <1>e, <2>1 DEF Clear
<1>6. CASE Apply(c)
  <2>1. Active(c) /\ Quiet /\ tx[c].at = "cleared"
    BY <1>6 DEF Apply, Active
  <2>2. ASSUME NEW n \in Results(tx[c]), Go(c, [tx[c] EXCEPT !.at = "applied", !.next = n])
        PROVE  LifecycleInv'
    <3> DEFINE new == [tx[c] EXCEPT !.at = "applied", !.next = n]
    <3>1. n \in Request /\ Succeeds(tx[c], rfq[tx[c].f], n)
      BY <2>1, <2>2, ResultsSucceed
    <3>2. /\ new \in Transaction /\ Same(tx[c], new) /\ new.at = "applied"
          /\ new.grant = tx[c].grant /\ new.next = n
      BY <1>0, <3>1 DEF Transaction, Places, Same
    <3>3. Go(c, new)
      BY <2>2
    <3>4. /\ new.action # "RFQ_CREATE" => HasRequest(c)
          /\ Shares(c)
      BY <2>1, <3>2 DEF HasRequest, Same, Shares
    <3>5. /\ Current(authority.relationship, new.grant.relationship)
          /\ tx[c].action \in BuyerActions => Current(authority.membership, new.grant.membership)
      BY <3>2, <3>4 DEF LifecycleInv, HeldAuthority
    <3> HIDE DEF new
    <3> QED BY <2>1, <3>1, <3>2, <3>3, <3>4, <3>5, ProceedKeeps
  <2> QED BY <1>6, <1>e, <2>1, <2>2 DEF Apply
<1>7. CASE Recheck(c)
  <2> DEFINE new == [tx[c] EXCEPT !.at = "rechecked"]
  <2>1. CASE Go(c, new)
    <3>1. Active(c) /\ Quiet /\ tx[c].at = "applied"
      BY <1>7 DEF Recheck, Active
    <3>2. "rechecked" \in Places \ {"idle", "ended"}
      BY DEF Places
    <3>3. /\ new \in Transaction /\ Same(tx[c], new) /\ new.at = "rechecked"
          /\ new.grant = tx[c].grant /\ new.next = tx[c].next
      BY <1>0, <3>2, NextPlace
    <3>4. /\ new.action # "RFQ_CREATE" => HasRequest(c)
          /\ Shares(c) /\ Decided(c)
      BY <3>1, <3>3 DEF HasRequest, Same, Shares, Decided
    <3>5. /\ Current(authority.relationship, new.grant.relationship)
          /\ tx[c].action \in BuyerActions => Current(authority.membership, new.grant.membership)
          /\ Succeeds(tx[c], rfq[tx[c].f], new.next)
      BY <3>3, <3>4 DEF LifecycleInv, HeldAuthority, DecidedOnRow
    <3> HIDE DEF new
    <3> QED BY <2>1, <3>1, <3>3, <3>4, <3>5, ProceedKeeps
  <2> QED BY <1>7, <1>e, <2>1 DEF Recheck
<1> QED BY <1>1, <1>2, <1>3, <1>4, <1>5, <1>6, <1>7 DEF Continue

LEMMA ArriveKeeps == ASSUME LifecycleInv, NEW c \in Commands, Arrive(c) PROVE LifecycleInv'
<1>0. tx[c].at = "idle" /\ Quiet /\ \A f \in Rfqs : rfq[f] \in Request /\ Sound(rfq[f])
  BY DEF Arrive, LifecycleInv, LifecycleTypes
<1>1. PICK action \in Actions, k \in Keys, f \in Rfqs :
        LET new == [Idle EXCEPT !.at = "begun", !.action = action, !.key = k, !.f = f] IN
        \/ /\ action = "RFQ_CREATE"
           /\ rfq[f].version = 0 /\ \A o \in Others(c) : tx[o].f # f
           /\ Go(c, new)
        \/ /\ action \in {"RFQ_SUBMIT", "RFQ_REVIEW", "RFQ_DECLINE", "RFQ_WITHDRAW",
                          "RFQ_EXPIRE", "RFQ_CLOSE"}
           /\ \E v \in Expected(rfq[f]) : Go(c, [new EXCEPT !.v = v])
        \/ /\ action = "QUOTATION_ISSUE"
           /\ \E v \in Expected(rfq[f]), q \in Offers :
                /\ rfq[f].offer[q].version = 0
                /\ \A o \in Others(c) : <<tx[o].f, tx[o].q>> # <<f, q>>
                /\ Go(c, [new EXCEPT !.v = v, !.q = q])
        \/ /\ action \in {"QUOTATION_REJECT", "QUOTATION_WITHDRAW", "QUOTATION_EXPIRE"}
           /\ \E q \in Offers : \E v \in Expected(rfq[f].offer[q]) :
                Go(c, [new EXCEPT !.v = v, !.q = q])
  BY DEF Arrive
<1> DEFINE Came(new) ==
      /\ new \in Transaction /\ new.at = "begun" /\ new.action = action /\ new.key = k /\ new.f = f
      /\ new.q \in Offers <=> action \in OfferActions
      /\ action = "RFQ_CREATE" => rfq[f].version = 0 /\ \A o \in Others(c) : tx[o].f # f
      /\ action # "RFQ_CREATE" => rfq[f].version > 0
      /\ action = "QUOTATION_ISSUE" => /\ rfq[f].offer[new.q].version = 0
                                       /\ \A o \in Others(c) : <<tx[o].f, tx[o].q>> # <<f, new.q>>
      /\ action \in OfferActions \ {"QUOTATION_ISSUE"} => rfq[f].offer[new.q].version > 0
<1>2. /\ Idle \in Transaction /\ "begun" \in Places /\ None \notin Offers
      /\ Idle.q = None /\ action # "none"
  BY IdleTyped, LifecycleAssumption
     DEF Places, Idle, Actions, BuyerActions, SystemActions, SellerActions
<1> DEFINE plain == [Idle EXCEPT !.at = "begun", !.action = action, !.key = k, !.f = f]
<1>3. /\ plain \in Transaction /\ plain.at = "begun" /\ plain.action = action
      /\ plain.key = k /\ plain.f = f /\ plain.q = None
  BY <1>2 DEF Transaction
<1>4. PICK new : Go(c, new) /\ Came(new)
  <2>0. ASSUME NEW row, row.version \in Nat, NEW v \in Expected(row)
        PROVE  v \in Nat /\ row.version > 0
    BY <2>0 DEF Expected
  <2>1. rfq[f].version \in Nat /\ \A q \in Offers : rfq[f].offer[q].version \in Nat
    BY <1>0 DEF Request, Offer
  <2> HIDE DEF plain
  <2>2. ASSUME NEW v \in Nat
        PROVE  LET new == [plain EXCEPT !.v = v] IN
               /\ new \in Transaction /\ new.at = "begun" /\ new.action = action
               /\ new.key = k /\ new.f = f /\ new.q = None
    BY <1>3 DEF Transaction
  <2>b. ASSUME NEW v \in Nat, NEW q \in Offers
        PROVE  LET new == [plain EXCEPT !.v = v, !.q = q] IN
               /\ new \in Transaction /\ new.at = "begun" /\ new.action = action
               /\ new.key = k /\ new.f = f /\ new.q = q
    BY <1>3 DEF Transaction
  <2>3. CASE action = "RFQ_CREATE"
    <3>1. /\ rfq[f].version = 0 /\ \A o \in Others(c) : tx[o].f # f
          /\ Go(c, plain)
      BY <1>1, <2>3 DEF plain
    <3>2. Came(plain)
      BY <1>2, <1>3, <2>3, <3>1 DEF OfferActions
    <3> HIDE DEF Came
    <3> QED BY <3>1, <3>2
  <2>4. CASE action \in {"RFQ_SUBMIT", "RFQ_REVIEW", "RFQ_DECLINE", "RFQ_WITHDRAW",
                         "RFQ_EXPIRE", "RFQ_CLOSE"}
    <3>1. PICK v \in Expected(rfq[f]) : Go(c, [plain EXCEPT !.v = v])
      BY <1>1, <2>4 DEF plain
    <3>2. v \in Nat /\ rfq[f].version > 0
      BY <2>0, <2>1
    <3>3. Came([plain EXCEPT !.v = v])
      BY <1>2, <2>2, <2>4, <3>2 DEF OfferActions
    <3> HIDE DEF Came
    <3> QED BY <3>1, <3>2, <3>3
  <2>5. CASE action = "QUOTATION_ISSUE"
    <3>1. PICK v \in Expected(rfq[f]), q \in Offers :
             /\ rfq[f].offer[q].version = 0
             /\ \A o \in Others(c) : <<tx[o].f, tx[o].q>> # <<f, q>>
             /\ Go(c, [plain EXCEPT !.v = v, !.q = q])
      BY <1>1, <2>5 DEF plain
    <3>2. v \in Nat /\ rfq[f].version > 0
      BY <2>0, <2>1
    <3>3. Came([plain EXCEPT !.v = v, !.q = q])
      BY <1>2, <2>5, <2>b, <3>1, <3>2 DEF OfferActions
    <3> HIDE DEF Came
    <3> QED BY <3>1, <3>2, <3>3
  <2>6. CASE action \in {"QUOTATION_REJECT", "QUOTATION_WITHDRAW", "QUOTATION_EXPIRE"}
    <3>1. PICK q \in Offers : \E v \in Expected(rfq[f].offer[q]) : Go(c, [plain EXCEPT !.v = v, !.q = q])
      BY <1>1, <2>6 DEF plain
    <3>2. PICK v \in Expected(rfq[f].offer[q]) : Go(c, [plain EXCEPT !.v = v, !.q = q])
      BY <3>1
    <3>3. v \in Nat /\ rfq[f].offer[q].version > 0
      BY <2>0, <2>1
    <3>4. rfq[f].version > 0
      BY <1>0, <2>1, <3>3 DEF Sound
    <3>5. Came([plain EXCEPT !.v = v, !.q = q])
      BY <1>2, <2>6, <2>b, <3>3, <3>4 DEF OfferActions
    <3> HIDE DEF Came
    <3> QED BY <3>2, <3>3, <3>5
  <2> QED BY <2>3, <2>4, <2>5, <2>6 DEF Actions, BuyerActions, SystemActions, SellerActions
<1> HIDE DEF plain
<1>5. Go(c, new) /\ Came(new)
  BY <1>4
<1>6. /\ tx' \in [Commands -> Transaction] /\ tx'[c] = new
      /\ \A o \in Commands \ {c} : tx'[o] = tx[o]
      /\ UNCHANGED <<rfq, receipt, authority, now, edits, aborts>>
  BY <1>0, <1>5, Goes DEF Quiet
<1>7. /\ ~HasRequest(c)' /\ ~Shares(c)' /\ ~Decided(c)'
      /\ \A o \in Commands \ {c} :
           /\ Active(o)' <=> Active(o)
           /\ Decided(o)' <=> Decided(o)
           /\ Shares(o)' <=> Shares(o)
           /\ HasRequest(o)' <=> HasRequest(o)
  BY <1>5, <1>6 DEF HasRequest, Shares, Decided, Active
<1>8. LifecycleTypes'
  BY <1>5, <1>6, <1>7 DEF LifecycleInv, LifecycleTypes, Concerns
<1>9. ASSUME NEW o \in Commands \ {c}, Active(o), tx[o].f = f
      PROVE  action # "RFQ_CREATE" /\ tx[o].action # "RFQ_CREATE"
  <2>1. tx[o].action = "RFQ_CREATE" => rfq[f].version = 0
    BY <1>9 DEF LifecycleInv, CreatesNew
  <2>2. rfq[f].version \in Nat
    BY <1>0 DEF Request
  <2> QED BY <1>5, <1>9, <2>1, <2>2 DEF Others
<1>10. OneHolder'
  BY <1>5, <1>6, <1>7, <1>9 DEF LifecycleInv, OneHolder
<1>11. CreatesNew'
  BY <1>5, <1>6, <1>7 DEF LifecycleInv, CreatesNew
<1>12. IssuesNew'
  <2>1. ASSUME NEW o \in Commands \ {c}, Active(o), tx[o].action = "QUOTATION_ISSUE"
        PROVE  <<f, new.q>> # <<tx[o].f, tx[o].q>>
    <3>1. rfq[tx[o].f].offer[tx[o].q].version = 0 /\ tx[o].q \in Offers
      BY <2>1 DEF LifecycleInv, IssuesNew, LifecycleTypes, Concerns, OfferActions
    <3>2. CASE action = "QUOTATION_ISSUE"
      BY <1>5, <3>2 DEF Others
    <3>3. CASE action \in OfferActions \ {"QUOTATION_ISSUE"}
      BY <1>5, <3>1, <3>3
    <3>4. CASE action \notin OfferActions
      BY <1>5, <3>1, <3>4
    <3> QED BY <3>2, <3>3, <3>4
  <2>2. action = "QUOTATION_ISSUE" =>
          /\ rfq[f].offer[new.q].version = 0
          /\ \A o \in Commands \ {c} : <<tx[o].f, tx[o].q>> # <<f, new.q>>
    BY <1>5 DEF Others
  <2>3. new.f = f /\ new.action = action
    BY <1>5
  <2> HIDE DEF Came
  <2> QED BY <1>6, <1>7, <2>1, <2>2, <2>3 DEF LifecycleInv, IssuesNew
<1>13. DecidedOnRow' /\ HeldAuthority'
  BY <1>6, <1>7 DEF LifecycleInv, DecidedOnRow, HeldAuthority
<1>14. Reached' /\ OneCommandPerVersion' /\ \A r \in Rfqs : Sound(rfq[r])'
  BY <1>6 DEF LifecycleInv, Reached, OneCommandPerVersion, Sound, Open
<1> QED BY <1>8, <1>10, <1>11, <1>12, <1>13, <1>14 DEF LifecycleInv

\* The commit of one command leaves what the others hold.
LEMMA CommitKeeps == ASSUME LifecycleInv, NEW c \in Commands, Commit(c) PROVE LifecycleInv'
<1> DEFINE f == tx[c].f
           r == rfq[tx[c].f]
           n == tx[c].next
           version == IF tx[c].q = None THEN n.version ELSE n.offer[tx[c].q].version
           record == [digest |-> Digest(tx[c]), f |-> f, q |-> tx[c].q, version |-> version]
<1>0. /\ Active(c) /\ Decided(c) /\ tx[c] \in Transaction /\ f \in Rfqs /\ tx[c].key \in Keys
      /\ tx[c].q \in Offers \cup {None} /\ n \in Request /\ r \in Request
      /\ Succeeds(tx[c], r, n)
  BY DEF Commit, Active, Decided, LifecycleInv, LifecycleTypes, Concerns, DecidedOnRow, Transaction
<1>1. /\ tx' \in [Commands -> Transaction] /\ tx'[c].at = "ended"
      /\ \A o \in Commands \ {c} : tx'[o] = tx[o]
      /\ UNCHANGED <<authority, now, edits, aborts>>
  BY Goes, IdleTyped DEF End, Commit
<1>2. /\ rfq' = [rfq EXCEPT ![f] = n]
      /\ receipt' = [receipt EXCEPT ![tx[c].key] = record]
  BY DEF Commit
<1> HIDE DEF r, n, f
<1>3. /\ rfq' \in [Rfqs -> Request] /\ rfq'[f] = n
      /\ \A g \in Rfqs \ {f} : rfq'[g] = rfq[g]
  BY <1>0, <1>2 DEF LifecycleInv, LifecycleTypes
<1>4. version \in Nat
  BY <1>0 DEF Request, Offer
<1> HIDE DEF version
<1>5. record \in Receipt /\ record.f = f /\ record.q = tx[c].q /\ record.version = version
  BY <1>0, <1>4 DEF Receipt
<1> HIDE DEF record
<1>6. /\ receipt' \in [Keys -> Receipt \cup {None}] /\ receipt'[tx[c].key] = record
      /\ \A k \in Keys \ {tx[c].key} : receipt'[k] = receipt[k]
  BY <1>0, <1>2, <1>5 DEF LifecycleInv, LifecycleTypes
<1>7. /\ ~Active(c)' /\ ~Decided(c)' /\ ~Shares(c)' /\ ~HasRequest(c)'
      /\ \A o \in Commands \ {c} :
           /\ Active(o)' <=> Active(o)
           /\ Decided(o)' <=> Decided(o)
           /\ Shares(o)' <=> Shares(o)
           /\ HasRequest(o)' <=> HasRequest(o)
  BY <1>1 DEF Active, Decided, Shares, HasRequest
<1>8. LifecycleTypes'
  BY <1>1, <1>3, <1>6, <1>7 DEF LifecycleInv, LifecycleTypes, Concerns
<1>9. OneHolder'
  BY <1>1, <1>7 DEF LifecycleInv, OneHolder
<1>10. ASSUME NEW o \in Commands \ {c}, Active(o), tx[o].f = f
       PROVE  tx[o].action # "RFQ_CREATE" /\ ~Decided(o) /\ tx[c].action # "RFQ_CREATE"
  <2>1. /\ tx[o].action # "RFQ_CREATE" /\ tx[c].action # "RFQ_CREATE"
        /\ ~(HasRequest(c) /\ HasRequest(o))
    BY <1>0, <1>10 DEF LifecycleInv, OneHolder, f
  <2>2. HasRequest(c)
    BY <1>0, <2>1 DEF HasRequest, Decided
  <2> QED BY <2>1, <2>2 DEF HasRequest, Decided
<1>11. CreatesNew'
  <2>1. ASSUME NEW o \in Commands \ {c}, Active(o), tx[o].action = "RFQ_CREATE"
        PROVE  rfq'[tx[o].f].version = 0
    <3>1. tx[o].f \in Rfqs \ {f} /\ rfq[tx[o].f].version = 0
      BY <1>10, <2>1 DEF LifecycleInv, CreatesNew, LifecycleTypes, Concerns
    <3> QED BY <1>3, <3>1
  <2> QED BY <1>1, <1>7, <2>1 DEF CreatesNew
<1>12. IssuesNew'
  <2>1. ASSUME NEW o \in Commands \ {c}, Active(o), tx[o].action = "QUOTATION_ISSUE"
        PROVE  rfq'[tx[o].f].offer[tx[o].q].version = 0
    <3>1. /\ rfq[tx[o].f].offer[tx[o].q].version = 0
          /\ tx[o].f \in Rfqs /\ tx[o].q \in Offers
          /\ <<tx[c].f, tx[c].q>> # <<tx[o].f, tx[o].q>>
      BY <1>0, <2>1 DEF LifecycleInv, IssuesNew, LifecycleTypes, Concerns, OfferActions
    <3>2. CASE tx[o].f = f
      <4>1. tx[o].q # tx[c].q /\ r.offer[tx[o].q].version = 0
        BY <3>1, <3>2 DEF f, r
      <4>2. n.offer[tx[o].q].version = 0
        BY <1>0, <3>1, <4>1 DEF Succeeds
      <4> QED BY <1>3, <3>2, <4>2
    <3>3. CASE tx[o].f # f
      BY <1>3, <3>1, <3>3
    <3> QED BY <3>2, <3>3
  <2> QED BY <1>1, <1>7, <2>1 DEF LifecycleInv, IssuesNew
<1>13. DecidedOnRow'
  <2>1. ASSUME NEW o \in Commands \ {c}, Decided(o)
        PROVE  rfq'[tx[o].f] = rfq[tx[o].f] /\ Succeeds(tx[o], rfq[tx[o].f], tx[o].next)
    <3>1. Active(o)
      BY <2>1 DEF Active, Decided
    <3>2. tx[o].f \in Rfqs /\ tx[o].f # f
      BY <1>10, <2>1, <3>1 DEF LifecycleInv, LifecycleTypes, Concerns
    <3> QED BY <1>3, <2>1, <3>2 DEF LifecycleInv, DecidedOnRow
  <2>2. \A o \in Commands : Decided(o)' => Succeeds(tx'[o], rfq'[tx'[o].f], tx'[o].next)
    BY <1>1, <1>7, <2>1
  <2> QED BY <2>2 DEF DecidedOnRow, Succeeds, Sound, Open
<1>14. HeldAuthority'
  BY <1>1, <1>7 DEF LifecycleInv, HeldAuthority, Current
<1>15. \A g \in Rfqs : Sound(rfq[g])'
  <2>1. \A g \in Rfqs : Sound(rfq'[g])
    BY <1>0, <1>3 DEF LifecycleInv, Succeeds
  <2> QED BY <2>1 DEF Sound, Open
<1>16. \A g \in Rfqs : /\ rfq'[g].version >= rfq[g].version
                       /\ \A q \in Offers : rfq'[g].offer[q].version >= rfq[g].offer[q].version
  <2>1. \A g \in Rfqs : rfq[g].version \in Nat /\ \A q \in Offers : rfq[g].offer[q].version \in Nat
    BY DEF LifecycleInv, LifecycleTypes, Request, Offer
  <2> QED BY <1>0, <1>3, <2>1 DEF Succeeds, r, f
<1> DEFINE reaches(row, k) == IF k.q = None THEN row[k.f].version ELSE row[k.f].offer[k.q].version
<1>17. ASSUME NEW k \in Keys \ {tx[c].key}, receipt[k] # None
       PROVE  /\ receipt[k].f \in Rfqs /\ receipt[k].q \in Offers \cup {None}
              /\ receipt[k].version \in Nat
              /\ receipt[k].version <= reaches(rfq, receipt[k])
              /\ reaches(rfq, receipt[k]) \in Nat
              /\ reaches(rfq', receipt[k]) \in Nat
              /\ receipt[k].version <= reaches(rfq', receipt[k])
  <2>1. receipt[k] \in Receipt
    BY <1>17 DEF LifecycleInv, LifecycleTypes
  <2>2. receipt[k].f \in Rfqs /\ receipt[k].q \in Offers \cup {None} /\ receipt[k].version \in Nat
    BY <2>1 DEF Receipt
  <2>3. receipt[k].version <= reaches(rfq, receipt[k])
    BY <1>17 DEF LifecycleInv, Reached
  <2>4. reaches(rfq, receipt[k]) \in Nat /\ reaches(rfq', receipt[k]) \in Nat
    BY <1>3, <2>2 DEF LifecycleInv, LifecycleTypes, Request, Offer
  <2>5. reaches(rfq, receipt[k]) <= reaches(rfq', receipt[k])
    BY <1>16, <2>2
  <2> HIDE DEF reaches
  <2> QED BY <2>2, <2>3, <2>4, <2>5
<1>18. version = reaches(rfq', record)
  BY <1>3, <1>5 DEF version
<1>19. Reached'
  <2>1. ASSUME NEW k \in Keys, receipt'[k] # None
        PROVE  receipt'[k].version <= reaches(rfq', receipt'[k])
    <3>1. CASE k = tx[c].key
      BY <1>4, <1>5, <1>6, <1>18, <3>1
    <3>2. CASE k # tx[c].key
      BY <1>6, <1>17, <2>1, <3>2
    <3> QED BY <3>1, <3>2
  <2> QED BY <2>1 DEF Reached
<1>20. version = reaches(rfq, record) + 1
  BY <1>0, <1>5, LifecycleAssumption DEF Succeeds, version, r, f
<1>21. OneCommandPerVersion'
  <2>1. ASSUME NEW k \in Keys \ {tx[c].key}, receipt[k] # None
        PROVE  <<receipt[k].f, receipt[k].q, receipt[k].version>> # <<record.f, record.q, record.version>>
    <3>1. receipt[k].f = record.f /\ receipt[k].q = record.q =>
            reaches(rfq, receipt[k]) = reaches(rfq, record)
      OBVIOUS
    <3> HIDE DEF reaches
    <3> QED BY <1>4, <1>5, <1>17, <1>20, <2>1, <3>1
  <2> HIDE DEF reaches
  <2> QED BY <1>6, <2>1 DEF LifecycleInv, OneCommandPerVersion
<1> QED BY <1>8, <1>9, <1>11, <1>12, <1>13, <1>14, <1>15, <1>19, <1>21 DEF LifecycleInv

----------------------------------------------------------------------------
(***************************************************************************)
(* The theorems.                                                           *)
(***************************************************************************)

LEMMA LifecycleBegins == Init => LifecycleInv
<1> SUFFICES ASSUME Init PROVE LifecycleInv
  OBVIOUS
<1>1. /\ NoOffer \in Offer /\ NoOffer.status = "none" /\ NoOffer.version = 0
  BY DEF NoOffer, Offer, OfferStatus
<1>2. ASSUME NEW f \in Rfqs PROVE rfq[f] \in Request /\ Sound(rfq[f])
  <2> DEFINE one == CHOOSE q \in Offers : TRUE
             issued == [status |-> "ISSUED", version |-> 1, until |-> 1]
  <2>1. one \in Offers
    BY LifecycleAssumption
  <2>2. issued \in Offer /\ issued.status = "ISSUED" /\ issued.version = 1
    BY DEF Offer, OfferStatus
  <2>3. \/ /\ rfq[f].status \in {"none", "DRAFT", "UNDER_REVIEW"} /\ rfq[f].version \in Nat
           /\ rfq[f].version = 0 => rfq[f].status = "none"
           /\ rfq[f].offer = [q \in Offers |-> NoOffer]
           /\ rfq[f] = [status |-> rfq[f].status, version |-> rfq[f].version, offer |-> rfq[f].offer]
        \/ rfq[f] = [status |-> "QUOTED", version |-> 4,
                     offer |-> [q \in Offers |-> IF q = one THEN issued ELSE NoOffer]]
    BY DEF Init, Earlier, Unborn
  <2> HIDE DEF one, issued
  <2>4. CASE /\ rfq[f].status \in {"none", "DRAFT", "UNDER_REVIEW"} /\ rfq[f].version \in Nat
             /\ rfq[f].version = 0 => rfq[f].status = "none"
             /\ rfq[f].offer = [q \in Offers |-> NoOffer]
             /\ rfq[f] = [status |-> rfq[f].status, version |-> rfq[f].version, offer |-> rfq[f].offer]
    <3>1. rfq[f] \in Request
      BY <1>1, <2>4 DEF Request, RequestStatus
    <3>2. \A q \in Offers : rfq[f].offer[q].status = "none" /\ rfq[f].offer[q].version = 0
      BY <1>1, <2>4
    <3> QED BY <2>4, <3>1, <3>2 DEF Sound, Open
  <2>5. CASE rfq[f] = [status |-> "QUOTED", version |-> 4,
                       offer |-> [q \in Offers |-> IF q = one THEN issued ELSE NoOffer]]
    <3>1. rfq[f] \in Request /\ rfq[f].status = "QUOTED" /\ rfq[f].version = 4
      BY <1>1, <2>2, <2>5 DEF Request, RequestStatus
    <3>2. \A q \in Offers : rfq[f].offer[q] = IF q = one THEN issued ELSE NoOffer
      BY <2>5
    <3>3. Open(rfq[f]) = {one}
      BY <1>1, <2>1, <2>2, <3>2 DEF Open
    <3> QED BY <1>1, <2>1, <2>2, <3>1, <3>2, <3>3 DEF Sound
  <2> QED BY <2>3, <2>4, <2>5
<1>3. rfq \in [Rfqs -> Request]
  BY <1>2 DEF Init
<1>4. \A c \in Commands : tx[c] = Idle /\ tx[c].at = "idle" /\ tx[c] \in Transaction
  BY IdleTyped DEF Init
<1>5. tx \in [Commands -> Transaction] /\ receipt \in [Keys -> Receipt \cup {None}]
  BY <1>4 DEF Init
<1>6. authority \in [{"relationship", "membership"} -> Row]
  <2>1. [status |-> "ACTIVE", revision |-> 1] \in Row
    BY DEF Row
  <2> QED BY <2>1 DEF Init
<1>7. \A c \in Commands : ~Active(c) /\ ~Decided(c) /\ ~Shares(c)
  BY <1>4 DEF Active, Decided, Shares
<1>8. LifecycleTypes
  BY <1>3, <1>5, <1>6, <1>7 DEF LifecycleTypes, Concerns, Init
<1>9. \A k \in Keys : receipt[k] = None
  BY DEF Init
<1> QED BY <1>2, <1>7, <1>8, <1>9 DEF LifecycleInv, OneHolder, CreatesNew, IssuesNew,
        DecidedOnRow, Reached, OneCommandPerVersion, HeldAuthority

\* A change of authority waits for the share locks of the commands it concerns.
LEMMA EditKeeps ==
  ASSUME LifecycleInv, NEW row \in {"relationship", "membership"}, Edit(row)
  PROVE  LifecycleInv'
<1>1. /\ UNCHANGED <<rfq, receipt, tx, now, aborts>> /\ edits' \in Nat
      /\ \A c \in Commands : Shares(c) => row = "membership" /\ tx[c].action \notin BuyerActions
  BY DEF Edit, LifecycleInv, LifecycleTypes
<1>2. PICK status \in {"ACTIVE", "SUSPENDED"} :
        authority' = [authority EXCEPT ![row] =
                        [status |-> status, revision |-> authority[row].revision + 1]]
  BY DEF Edit
<1>3. authority' \in [{"relationship", "membership"} -> Row]
  <2>1. [status |-> status, revision |-> authority[row].revision + 1] \in Row
    BY DEF LifecycleInv, LifecycleTypes, Row
  <2> QED BY <1>2, <2>1 DEF LifecycleInv, LifecycleTypes
<1>4. row = "membership" => authority'.relationship = authority.relationship
  BY <1>2 DEF LifecycleInv, LifecycleTypes
<1>5. HeldAuthority'
  BY <1>1, <1>4 DEF LifecycleInv, HeldAuthority, Shares, Current
<1>6. LifecycleTypes'
  BY <1>1, <1>3 DEF LifecycleInv, LifecycleTypes, Concerns, Active
<1> QED BY <1>1, <1>5, <1>6 DEF LifecycleInv, Sound, Open, OneHolder, Active, HasRequest,
        CreatesNew, IssuesNew, DecidedOnRow, Decided, Succeeds, Reached, OneCommandPerVersion

LEMMA LifecycleInductive == LifecycleInv /\ [Next]_vars => LifecycleInv'
<1> SUFFICES ASSUME LifecycleInv, [Next]_vars PROVE LifecycleInv'
  OBVIOUS
<1>1. ASSUME UNCHANGED <<rfq, receipt, authority, tx, edits, aborts>>, now' \in Nat
      PROVE  LifecycleInv'
  BY <1>1 DEF LifecycleInv, LifecycleTypes, Concerns, Sound, Open, OneHolder, Active, HasRequest,
     CreatesNew, IssuesNew, DecidedOnRow, Decided, Succeeds, Reached, OneCommandPerVersion,
     HeldAuthority, Shares, Current
<1>2. CASE UNCHANGED vars
  BY <1>1, <1>2 DEF vars, LifecycleInv, LifecycleTypes
<1>3. CASE Tick
  BY <1>1, <1>3 DEF Tick, LifecycleInv, LifecycleTypes
<1>4. ASSUME NEW c \in Commands, Arrive(c) \/ Continue(c) \/ Abort(c) PROVE LifecycleInv'
  <2>1. Abort(c) => End(c) /\ UNCHANGED <<rfq, receipt, authority, now, edits>> /\ aborts' \in Nat
    BY DEF Abort, LifecycleInv, LifecycleTypes
  <2> QED BY <1>4, <2>1, ArriveKeeps, ContinueKeeps, CommitKeeps, EndKeeps
<1> QED BY <1>2, <1>3, <1>4, EditKeeps DEF Next

\* What the locks of the commands keep true, for as long as they are held.
THEOREM LifecycleInvariant == Spec => []LifecycleInv
BY LifecycleBegins, LifecycleInductive, PTL DEF Spec

\* Every row, receipt and transaction has its type, and every command under way
\* concerns a request, and an offer when it is about one.
THEOREM LifecycleTypeCorrect == Spec => []LifecycleTypes
<1>1. LifecycleInv => LifecycleTypes
  BY DEF LifecycleInv
<1> QED BY <1>1, LifecycleInvariant, PTL

\* No command of buyer, seller or clock leaves an offer open behind a request
\* that has moved on, or a second one beside it (the guard trigger and the order
\* in which a command ends offers before it moves their request).
THEOREM OffersStand == Spec => []OffersStandWithTheirRequest
<1>1. LifecycleInv => OffersStandWithTheirRequest
  <2> SUFFICES ASSUME LifecycleInv, NEW f \in Rfqs
               PROVE  /\ Cardinality(Open(rfq[f])) <= 1
                      /\ Open(rfq[f]) # {} => rfq[f].status = "QUOTED"
                      /\ rfq[f].status \in {"QUOTED", "CLOSED"} =>
                           \E q \in Offers : rfq[f].offer[q].version > 0
    BY DEF OffersStandWithTheirRequest
  <2>1. Sound(rfq[f])
    BY DEF LifecycleInv
  <2>2. Open(rfq[f]) = {} \/ \E q : Open(rfq[f]) = {q}
    BY <2>1 DEF Sound
  <2>3. Cardinality(Open(rfq[f])) <= 1
    BY <2>2, FS_EmptySet, FS_Singleton
  <2> QED BY <2>1, <2>3 DEF Sound
<1> QED BY <1>1, LifecycleInvariant, PTL

\* Of any number of commands that expect one version of a row, one is applied:
\* the row lock makes the others find the version it left.
THEOREM VersionsAreTakenOnce == Spec => []OneCommandPerVersion
<1>1. LifecycleInv => OneCommandPerVersion
  BY DEF LifecycleInv
<1> QED BY <1>1, LifecycleInvariant, PTL

\* A change of relationship or membership is either seen by one of the two
\* checks of a command, or waits for its commit.
THEOREM CommitsAreAuthorized == Spec => CommitsUnderCurrentAuthority
<1>1. LifecycleInv /\ [Next]_vars =>
        [\A c \in Commands : tx[c].at = "rechecked" /\ rfq' # rfq /\ tx'[c].at = "ended" =>
           /\ Current(authority.relationship, tx[c].grant.relationship)
           /\ tx[c].action \in BuyerActions =>
                Current(authority.membership, tx[c].grant.membership)]_vars
  BY DEF LifecycleInv, HeldAuthority, Shares
<1> QED BY <1>1, LifecycleInvariant, PTL DEF Spec, CommitsUnderCurrentAuthority

================================================================================
