-------------------------- MODULE BuyerAuthorityProofs --------------------------
(***************************************************************************)
(* Theorems about who may act for a buyer organisation, for any number of  *)
(* requests, customers, keys and resolutions: the membership rows that     *)
(* invitations make, and the execution contexts resolved from them while   *)
(* invitations, revocations and edits run on.                              *)
(***************************************************************************)
EXTENDS BuyerContext, TLAPS

----------------------------------------------------------------------------
(***************************************************************************)
(* Membership: types.                                                      *)
(***************************************************************************)

Kinds == {"none", "invite", "resend", "accept", "revoke"}
PlacesOf ==
  [none   |-> {"none"},
   invite |-> {"asked", "admitted", "fresh", "clear", "created", "assigned", "recorded",
               "dropRole", "dropMember", "sent", "marking",
               "answered", "replayed", "refused", "failed", "gone"},
   resend |-> {"asked", "found", "fresh", "numbered", "rotated", "recorded", "sent",
               "restoring", "marking", "answered", "replayed", "refused", "failed", "gone"},
   accept |-> {"asked", "found", "sole", "open", "answered", "refused", "failed", "gone"},
   revoke |-> {"asked", "found", "answered", "refused", "failed", "gone"}]
Places == UNION {PlacesOf[k] : k \in Kinds}

Absentee == Customers \cup {None}
Membership ==
  [status : Status, email : Absentee, customer : Absentee, link : Links, from : Links,
   until : Links, roles : SUBSET Roles, revision : Nat]
MembershipRequest ==
  [may : SUBSET Kinds, kind : Kinds, at : Places, m : Links, who : Absentee,
   key : Keys \cup {None}, role : Roles \cup {None}, was : Links, nr : Nat]
Delivery == [m : Requests, nr : Nat, by : Requests, status : {"PENDING", "QUEUED", "FAILED"}]

\* The parameters a request came with are those of its kind, and it is at one of
\* the places of its kind.
InPlace(r) ==
  /\ request[r].at \in PlacesOf[request[r].kind]
  /\ request[r].may # {} => request[r].kind = "none"
  /\ request[r].kind = "invite" =>
       request[r].who \in Customers /\ request[r].role \in Roles
  /\ request[r].kind \in {"resend", "revoke"} => request[r].m \in Requests
  /\ request[r].kind = "accept" =>
       /\ request[r].who \in Customers /\ request[r].was \in Requests
       /\ request[r].at \in {"found", "sole", "open"} => request[r].m \in Requests

\* The rows of a membership have a last number.
HasLast(m) == Rows(m) # {} => \E d \in Rows(m) : \A e \in Rows(m) : e.nr <= d.nr

MembershipTypes ==
  /\ organisation \in [status : {"ACTIVE", "SUSPENDED"}, revision : Nat]
  /\ member \in [Requests -> Membership]
  /\ delivery \subseteq Delivery
  /\ mailed \subseteq Requests /\ lapsed \subseteq Requests
  /\ request \in [Requests -> MembershipRequest]
  /\ faults \in Nat /\ edits \in Nat
  /\ \A r \in Requests : InPlace(r)
  /\ \A m \in Requests : HasLast(m)

\* The request goes to another place of its kind.
LEMMA GoesTyped ==
  ASSUME MembershipTypes, NEW r \in Requests, NEW at \in PlacesOf[request[r].kind], Goto(r, at),
         request[r].kind = "accept" /\ at \in {"sole", "open"} => request[r].m \in Requests,
         request[r].kind = "accept" => at # "found"
  PROVE  request' \in [Requests -> MembershipRequest] /\ \A q \in Requests : InPlace(q)'
<1>1. at \in Places
  BY DEF MembershipTypes, MembershipRequest, Places
<1>2. request' \in [Requests -> MembershipRequest]
  BY <1>1 DEF MembershipTypes, MembershipRequest, Goto
<1>3. ASSUME NEW q \in Requests PROVE InPlace(q)'
  <2>1. CASE q = r
    BY <2>1 DEF MembershipTypes, MembershipRequest, Goto, InPlace
  <2>2. CASE q # r
    BY <2>2 DEF MembershipTypes, MembershipRequest, Goto, InPlace
  <2> QED BY <2>1, <2>2
<1> QED BY <1>2, <1>3

LEMMA UpdateTyped ==
  ASSUME MembershipTypes, NEW m \in Requests, NEW new \in Membership, Update(m, new)
  PROVE  /\ member' \in [Requests -> Membership]
         /\ member' = [member EXCEPT ![m] = Triggered(member[m], new)]
<1>1. member[m].revision \in Nat /\ member[m].revision + 1 \in Nat
  BY DEF MembershipTypes, Membership
<1> DEFINE revision == IF Authority(new) # Authority(member[m]) THEN member[m].revision + 1
                       ELSE member[m].revision
<1>2. revision \in Nat /\ Triggered(member[m], new) = [new EXCEPT !.revision = revision]
  BY <1>1 DEF Triggered
<1> HIDE DEF revision
<1>3. Triggered(member[m], new) \in Membership
  BY <1>2 DEF Membership
<1> QED BY <1>3 DEF MembershipTypes, Update

LEMMA SetRolesTyped ==
  ASSUME MembershipTypes, NEW m \in Requests, NEW roles \in SUBSET Roles, SetRoles(m, roles)
  PROVE  /\ member' \in [Requests -> Membership]
         /\ \A n \in Requests \ {m} : member'[n] = member[n]
         /\ member'[m] = [member[m] EXCEPT !.roles = roles, !.revision =
                            IF Exists(m) THEN member[m].revision + 1 ELSE member[m].revision]
<1> DEFINE revision == IF Exists(m) THEN member[m].revision + 1 ELSE member[m].revision
           new == [member[m] EXCEPT !.roles = roles, !.revision = revision]
<1>1. member[m] \in Membership
  BY DEF MembershipTypes
<1>2. revision \in Nat
  BY <1>1 DEF Membership
<1>3. member' = [member EXCEPT ![m] = new]
  BY <1>1 DEF MembershipTypes, Membership, SetRoles
<1> HIDE DEF revision
<1>4. new \in Membership
  BY <1>1, <1>2 DEF Membership
<1> HIDE DEF new
<1>5. /\ member' \in [Requests -> Membership] /\ member'[m] = new
      /\ \A n \in Requests \ {m} : member'[n] = member[n]
  BY <1>3, <1>4 DEF MembershipTypes
<1> QED BY <1>5 DEF new, revision

\* Numbers are compared; nothing else of the rows matters to the last one.
LEMMA AddedLast ==
  ASSUME MembershipTypes, NEW d \in Delivery, delivery' = delivery \cup {d}
  PROVE  delivery' \subseteq Delivery /\ \A m \in Requests : HasLast(m)'
<1>1. delivery' \subseteq Delivery
  BY DEF MembershipTypes
<1>2. ASSUME NEW m \in Requests PROVE HasLast(m)'
  <2>1. CASE d.m # m
    <3>1. Rows(m)' = Rows(m)
      BY <2>1 DEF Rows
    <3> QED BY <3>1 DEF HasLast, MembershipTypes
  <2>2. CASE d.m = m
    <3>1. Rows(m)' = Rows(m) \cup {d}
      BY <2>2 DEF Rows
    <3>2. \A e \in Rows(m) \cup {d} : e.nr \in Nat
      BY DEF Rows, MembershipTypes, Delivery
    <3>3. CASE Rows(m) = {}
      BY <3>1, <3>2, <3>3 DEF HasLast
    <3>4. CASE Rows(m) # {}
      <4>1. PICK e \in Rows(m) : \A f \in Rows(m) : f.nr <= e.nr
        BY <3>4 DEF HasLast, MembershipTypes
      <4>2. CASE d.nr <= e.nr
        BY <3>1, <3>2, <4>1, <4>2 DEF HasLast
      <4>3. CASE ~(d.nr <= e.nr)
        BY <3>1, <3>2, <4>1, <4>3 DEF HasLast
      <4> QED BY <4>2, <4>3
    <3> QED BY <3>3, <3>4
  <2> QED BY <2>1, <2>2
<1> QED BY <1>1, <1>2

LEMMA MarkedLast ==
  ASSUME MembershipTypes, NEW r \in Requests, NEW status \in {"QUEUED", "FAILED"}, Mark(r, status)
  PROVE  delivery' \subseteq Delivery /\ \A m \in Requests : HasLast(m)'
<1> DEFINE marked(d) == IF d.by = r THEN [d EXCEPT !.status = status] ELSE d
<1>1. \A d \in delivery : /\ marked(d) \in Delivery /\ marked(d).m = d.m
                          /\ marked(d).nr = d.nr /\ marked(d).by = d.by
  BY DEF MembershipTypes, Delivery
<1>2. delivery' = {marked(d) : d \in delivery}
  BY DEF Mark
<1> HIDE DEF marked
<1>3. delivery' \subseteq Delivery
  BY <1>1, <1>2
<1>4. ASSUME NEW m \in Requests PROVE HasLast(m)'
  <2>1. Rows(m)' = {marked(d) : d \in Rows(m)}
    BY <1>1, <1>2 DEF Rows
  <2>2. \A d \in Rows(m) : marked(d).nr = d.nr
    BY <1>1 DEF Rows
  <2>3. CASE Rows(m) = {}
    BY <2>1, <2>3 DEF HasLast
  <2>4. CASE Rows(m) # {}
    <3>1. PICK d \in Rows(m) : \A e \in Rows(m) : e.nr <= d.nr
      BY <2>4 DEF HasLast, MembershipTypes
    <3>2. marked(d) \in Rows(m)' /\ \A e \in Rows(m)' : e.nr <= marked(d).nr
      BY <2>1, <2>2, <3>1
    <3> QED BY <3>2 DEF HasLast
  <2> QED BY <2>3, <2>4
<1> QED BY <1>3, <1>4

\* The number of the last attempt is a number.
LEMMA LastTyped == ASSUME MembershipTypes, NEW m \in Requests PROVE LastAttempt(m) \in Nat
<1>1. CASE Rows(m) = {}
  BY <1>1 DEF LastAttempt
<1>2. CASE Rows(m) # {}
  <2> DEFINE numbers == {d.nr : d \in Rows(m)}
  <2>1. \E n \in numbers : \A d \in Rows(m) : d.nr <= n
    BY <1>2 DEF HasLast, MembershipTypes
  <2>2. numbers \subseteq Nat
    BY DEF Rows, MembershipTypes, Delivery
  <2>3. LastAttempt(m) = CHOOSE n \in numbers : \A d \in Rows(m) : d.nr <= n
    BY <1>2 DEF LastAttempt
  <2> HIDE DEF numbers
  <2> QED BY <2>1, <2>2, <2>3
<1> QED BY <1>1, <1>2

\* What a request may ask for, and where its first step takes it.
LEMMA ArriveTyped == ASSUME MembershipTypes, NEW r \in Requests, Arrive(r)
                     PROVE  /\ request' \in [Requests -> MembershipRequest]
                            /\ \A q \in Requests : InPlace(q)'
                            /\ \A q \in Requests \ {r} : request'[q] = request[q]
                            /\ request'[r].kind # "none" /\ request'[r].at = "asked"
<1> DEFINE Typed(new) ==
      /\ new \in MembershipRequest /\ new.may = {} /\ new.at = "asked"
      /\ new.kind \in Kinds \ {"none"}
      /\ new.kind = "invite" => new.who \in Customers /\ new.role \in Roles
      /\ new.kind \in {"resend", "revoke"} => new.m \in Requests
      /\ new.kind = "accept" => new.who \in Customers /\ new.was \in Requests
<1>0. /\ "asked" \in Places /\ None \in Links /\ None \in Absentee
      /\ {"invite", "resend", "accept", "revoke"} \subseteq Kinds
      /\ Requests \subseteq Links /\ Customers \subseteq Absentee /\ InviteRoles \subseteq Roles
  BY MembershipAssumption DEF Kinds, Places, PlacesOf, Links, Absentee
<1>1. PICK new : request' = [request EXCEPT ![r] = new] /\ Typed(new)
  <2> USE DEF MembershipRequest, NoRequest
  <2>1. CASE \E c \in Customers, k \in Keys, role \in InviteRoles :
               request' = [request EXCEPT ![r] =
                 [NoRequest EXCEPT !.kind = "invite", !.at = "asked", !.m = r,
                                   !.who = c, !.key = k, !.role = role]]
    <3>1. ASSUME NEW c \in Customers, NEW k \in Keys, NEW role \in InviteRoles
          PROVE  Typed([NoRequest EXCEPT !.kind = "invite", !.at = "asked", !.m = r,
                                         !.who = c, !.key = k, !.role = role])
      BY <1>0
    <3> HIDE DEF Typed
    <3> QED BY <2>1, <3>1
  <2>2. CASE \E m \in Requests, k \in Keys :
               request' = [request EXCEPT ![r] =
                 [NoRequest EXCEPT !.kind = "resend", !.at = "asked", !.m = m, !.key = k]]
    <3>1. ASSUME NEW m \in Requests, NEW k \in Keys
          PROVE  Typed([NoRequest EXCEPT !.kind = "resend", !.at = "asked", !.m = m, !.key = k])
      BY <1>0
    <3> HIDE DEF Typed
    <3> QED BY <2>2, <3>1
  <2>3. CASE \E m \in Requests :
               request' = [request EXCEPT ![r] =
                 [NoRequest EXCEPT !.kind = "revoke", !.at = "asked", !.m = m]]
    <3>1. ASSUME NEW m \in Requests
          PROVE  Typed([NoRequest EXCEPT !.kind = "revoke", !.at = "asked", !.m = m])
      BY <1>0
    <3> HIDE DEF Typed
    <3> QED BY <2>3, <3>1
  <2>4. CASE \E l \in mailed, c \in Customers :
               request' = [request EXCEPT ![r] =
                 [NoRequest EXCEPT !.kind = "accept", !.at = "asked", !.who = c, !.was = l]]
    <3>1. ASSUME NEW l \in mailed, NEW c \in Customers
          PROVE  Typed([NoRequest EXCEPT !.kind = "accept", !.at = "asked", !.who = c, !.was = l])
      BY <1>0 DEF MembershipTypes
    <3> HIDE DEF Typed
    <3> QED BY <2>4, <3>1
  <2> HIDE DEF Typed, NoRequest, MembershipRequest
  <2> QED BY <2>1, <2>2, <2>3, <2>4 DEF Arrive
<1>2. request' \in [Requests -> MembershipRequest]
  BY <1>1 DEF MembershipTypes
<1>3. ASSUME NEW q \in Requests PROVE InPlace(q)'
  <2>1. CASE q = r
    <3>1. "asked" \in PlacesOf[new.kind]
      BY <1>1 DEF Kinds, PlacesOf
    <3> QED BY <1>1, <2>1, <3>1 DEF MembershipTypes, InPlace
  <2>2. CASE q # r
    BY <1>1, <2>2 DEF MembershipTypes, InPlace
  <2> QED BY <2>1, <2>2
<1>4. /\ \A q \in Requests \ {r} : request'[q] = request[q]
      /\ request'[r].kind # "none" /\ request'[r].at = "asked"
  BY <1>1 DEF MembershipTypes
<1> QED BY <1>2, <1>3, <1>4

\* Every step of a request keeps the types.
LEMMA StepTyped == ASSUME MembershipTypes, NEW r \in Requests, Step(r) PROVE MembershipTypes'
<1>0. /\ member[r] \in Membership /\ request[r] \in MembershipRequest /\ InPlace(r)
      /\ r \in Links /\ None \in Links /\ None \in Absentee
      /\ Requests \subseteq Links /\ Customers \subseteq Absentee
  BY DEF MembershipTypes, Links, Absentee
<1>f. Fault \/ NoFault => faults' \in Nat
  BY DEF Fault, NoFault, MembershipTypes
<1>q. ASSUME UNCHANGED <<delivery>> PROVE \A m \in Requests : HasLast(m)'
  <2>1. \A m \in Requests : Rows(m)' = Rows(m)
    BY <1>q DEF Rows
  <2> QED BY <2>1 DEF HasLast, MembershipTypes
<1>g. ASSUME NEW at \in PlacesOf[request[r].kind] \ {"sole", "open", "found"}, Goto(r, at)
      PROVE  request' \in [Requests -> MembershipRequest] /\ \A q \in Requests : InPlace(q)'
  BY <1>g, GoesTyped
<1>1. ASSUME Arrive(r) PROVE MembershipTypes'
  BY <1>1, <1>q, ArriveTyped DEF Arrive, MembershipTypes
<1>2. ASSUME Crash(r) PROVE MembershipTypes'
  <2>1. "gone" \in PlacesOf[request[r].kind]
    BY <1>0, <1>2 DEF Crash, Over, InPlace, MembershipRequest, Kinds, PlacesOf
  <2> QED BY <1>2, <1>f, <1>g, <1>q, <2>1 DEF Crash, MembershipTypes
<1>3. ASSUME \/ InviteOrganisation(r) \/ InviteReplay(r) \/ InviteExisting(r)
      PROVE  MembershipTypes'
  <2>1. PICK at \in {"admitted", "refused", "fresh", "replayed", "clear"} : Goto(r, at)
    BY <1>3 DEF InviteOrganisation, InviteReplay, InviteExisting
  <2>2. at \in PlacesOf[request[r].kind] \ {"sole", "open", "found"}
    BY <1>3 DEF InviteOrganisation, InviteReplay, InviteExisting, Is, PlacesOf
  <2>3. UNCHANGED <<organisation, member, delivery, mailed, lapsed, faults, edits>>
    BY <1>3 DEF InviteOrganisation, InviteReplay, InviteExisting
  <2> QED BY <1>g, <1>q, <2>1, <2>2, <2>3 DEF MembershipTypes
<1>4. ASSUME InviteCreate(r) PROVE MembershipTypes'
  <2>1. PICK at \in {"created", "failed"} : Goto(r, at)
    BY <1>4 DEF InviteCreate
  <2>2. at \in PlacesOf[request[r].kind] \ {"sole", "open", "found"}
    BY <1>4 DEF InviteCreate, Is, PlacesOf
  <2>3. request[r].who \in Absentee
    BY <1>0, <1>4 DEF InviteCreate, Is, InPlace
  <2>4. [NoMember EXCEPT !.status = "INVITED", !.email = request[r].who,
                         !.link = r, !.revision = 1] \in Membership
    BY <1>0, <2>3 DEF NoMember, Membership, Status
  <2>5. member' \in [Requests -> Membership]
    BY <1>4, <2>4 DEF InviteCreate, MembershipTypes
  <2> QED BY <1>4, <1>f, <1>g, <1>q, <2>1, <2>2, <2>5 DEF InviteCreate, MembershipTypes
<1>5. ASSUME InviteRole(r) \/ DropRole(r) PROVE MembershipTypes'
  <2>1. PICK at \in {"assigned", "dropMember", "failed"} : Goto(r, at)
    BY <1>5 DEF InviteRole, DropRole
  <2>2. at \in PlacesOf[request[r].kind] \ {"sole", "open", "found"}
    BY <1>5 DEF InviteRole, DropRole, Is, PlacesOf
  <2>3. {request[r].role} \in SUBSET Roles
    BY <1>0, <1>5 DEF InviteRole, DropRole, Is, InPlace
  <2>4. member' \in [Requests -> Membership]
    BY <1>5, <2>3, SetRolesTyped DEF InviteRole, DropRole, MembershipTypes
  <2> QED BY <1>5, <1>f, <1>g, <1>q, <2>1, <2>2, <2>4 DEF InviteRole, DropRole, MembershipTypes
<1>6. ASSUME DropMember(r) PROVE MembershipTypes'
  <2>1. "failed" \in PlacesOf[request[r].kind] \ {"sole", "open", "found"}
    BY <1>6 DEF DropMember, Is, PlacesOf
  <2>2. NoMember \in Membership
    BY <1>0 DEF NoMember, Membership, Status
  <2>3. member' \in [Requests -> Membership]
    BY <1>6, <2>2 DEF DropMember, MembershipTypes
  <2> QED BY <1>6, <1>f, <1>g, <1>q, <2>1, <2>3 DEF DropMember, MembershipTypes
<1>7. ASSUME InviteRecord(r) \/ ResendRecord(r) PROVE MembershipTypes'
  <2>1. PICK at \in {"recorded", "dropRole", "failed"} :
          Goto(r, at) /\ (at = "dropRole" => request[r].kind = "invite")
    BY <1>7 DEF InviteRecord, ResendRecord, Is
  <2>2. at \in PlacesOf[request[r].kind] \ {"sole", "open", "found"}
    BY <1>7, <2>1 DEF InviteRecord, ResendRecord, Is, PlacesOf
  <2>3. delivery' \subseteq Delivery /\ \A m \in Requests : HasLast(m)'
    <3>1. CASE UNCHANGED delivery
      BY <3>1, <1>q DEF MembershipTypes
    <3>2. CASE delivery' = delivery \cup {[m |-> r, nr |-> 1, by |-> r, status |-> "PENDING"]}
      <4>1. [m |-> r, nr |-> 1, by |-> r, status |-> "PENDING"] \in Delivery
        BY DEF Delivery
      <4> QED BY <3>2, <4>1, AddedLast
    <3>3. CASE /\ ResendRecord(r)
               /\ delivery' = delivery \cup
                    {[m |-> request[r].m, nr |-> request[r].nr, by |-> r, status |-> "PENDING"]}
      <4>1. request[r].m \in Requests /\ request[r].nr \in Nat
        BY <1>0, <3>3 DEF ResendRecord, Is, InPlace, MembershipRequest
      <4>2. [m |-> request[r].m, nr |-> request[r].nr, by |-> r, status |-> "PENDING"] \in Delivery
        BY <4>1 DEF Delivery
      <4> QED BY <3>3, <4>2, AddedLast
    <3> QED BY <1>7, <3>1, <3>2, <3>3 DEF InviteRecord, ResendRecord
  <2>4. UNCHANGED <<organisation, member, mailed, lapsed, edits>> /\ faults' \in Nat
    BY <1>7, <1>f DEF InviteRecord, ResendRecord
  <2> QED BY <1>g, <2>1, <2>2, <2>3, <2>4 DEF MembershipTypes
<1>8. ASSUME ResendFind(r) PROVE MembershipTypes'
  <2>1. /\ request[r].kind = "resend" /\ request[r].m \in Requests
        /\ member[request[r].m].link \in Links
    BY <1>0, <1>8 DEF ResendFind, Is, InPlace, MembershipTypes, Membership
  <2>2. {"found", "refused"} \subseteq Places /\ {"found", "refused"} \subseteq PlacesOf["resend"]
    BY DEF Places, PlacesOf, Kinds
  <2> DEFINE link == member[request[r].m].link
  <2>3. \/ request' = [request EXCEPT ![r] = [request[r] EXCEPT !.at = "found", !.was = link]]
        \/ request' = [request EXCEPT ![r] = [request[r] EXCEPT !.at = "refused"]]
    BY <1>8 DEF ResendFind, MembershipTypes, MembershipRequest
  <2>4. link \in Links
    BY <2>1
  <2> HIDE DEF link
  <2> DEFINE found == [request[r] EXCEPT !.at = "found", !.was = link]
             refused == [request[r] EXCEPT !.at = "refused"]
  <2>a. /\ found \in MembershipRequest /\ found.at = "found" /\ found.may = request[r].may
        /\ found.kind = "resend" /\ found.m = request[r].m
        /\ refused \in MembershipRequest /\ refused.at = "refused" /\ refused.may = request[r].may
        /\ refused.kind = "resend" /\ refused.m = request[r].m
    BY <1>0, <2>1, <2>2, <2>4 DEF MembershipRequest
  <2>b. PICK new \in {found, refused} : request' = [request EXCEPT ![r] = new]
    BY <2>3
  <2>c. /\ new \in MembershipRequest /\ new.at \in {"found", "refused"} /\ new.may = request[r].may
        /\ new.kind = "resend" /\ new.m = request[r].m
    BY <2>a, <2>b
  <2> HIDE DEF found, refused
  <2>5. request' \in [Requests -> MembershipRequest]
    BY <2>b, <2>c DEF MembershipTypes
  <2>6. ASSUME NEW q \in Requests PROVE InPlace(q)'
    <3>1. CASE q = r
      BY <1>0, <2>1, <2>2, <2>b, <2>c, <3>1 DEF MembershipTypes, InPlace
    <3>2. CASE q # r
      BY <2>b, <3>2 DEF MembershipTypes, InPlace
    <3> QED BY <3>1, <3>2
  <2> QED BY <1>8, <1>q, <2>5, <2>6 DEF ResendFind, MembershipTypes
<1>9. ASSUME ResendReplay(r) PROVE MembershipTypes'
  <2>1. PICK at \in {"fresh", "replayed", "refused"} : Goto(r, at)
    BY <1>9 DEF ResendReplay
  <2>2. at \in PlacesOf[request[r].kind] \ {"sole", "open", "found"}
    BY <1>9 DEF ResendReplay, Is, PlacesOf
  <2> QED BY <1>9, <1>g, <1>q, <2>1, <2>2 DEF ResendReplay, MembershipTypes
<1>10. ASSUME ResendNumber(r) PROVE MembershipTypes'
  <2>1. request[r].kind = "resend" /\ LastAttempt(request[r].m) + 1 \in Nat
    <3>1. request[r].kind = "resend" /\ request[r].m \in Requests
      BY <1>0, <1>10 DEF ResendNumber, Is, InPlace
    <3> QED BY <3>1, LastTyped
  <2>2. "numbered" \in Places /\ "numbered" \in PlacesOf["resend"]
    BY DEF Places, PlacesOf, Kinds
  <2> DEFINE nr == LastAttempt(request[r].m) + 1
  <2>3. request' = [request EXCEPT ![r] = [request[r] EXCEPT !.at = "numbered", !.nr = nr]]
    BY <1>10 DEF ResendNumber, MembershipTypes, MembershipRequest
  <2> HIDE DEF nr
  <2>4. request' \in [Requests -> MembershipRequest]
    BY <1>0, <2>1, <2>2, <2>3 DEF MembershipTypes, MembershipRequest, nr
  <2>5. ASSUME NEW q \in Requests PROVE InPlace(q)'
    BY <1>0, <2>1, <2>2, <2>3 DEF MembershipTypes, MembershipRequest, InPlace
  <2> QED BY <1>10, <1>q, <2>4, <2>5 DEF ResendNumber, MembershipTypes
<1>11. ASSUME ResendRotate(r) \/ ResendRestore(r) PROVE MembershipTypes'
  <2>1. PICK at \in {"rotated", "failed", "marking"} : Goto(r, at)
    BY <1>11 DEF ResendRotate, ResendRestore
  <2>2. at \in PlacesOf[request[r].kind] \ {"sole", "open", "found"}
    BY <1>11 DEF ResendRotate, ResendRestore, Is, PlacesOf
  <2>3. request[r].m \in Requests /\ request[r].was \in Links
    BY <1>0, <1>11 DEF ResendRotate, ResendRestore, Is, InPlace, MembershipRequest
  <2>4. \A l \in Links : [member[request[r].m] EXCEPT !.link = l] \in Membership
    BY <2>3 DEF MembershipTypes, Membership
  <2>5. member' \in [Requests -> Membership]
    BY <1>0, <1>11, <2>3, <2>4, UpdateTyped DEF ResendRotate, ResendRestore, MembershipTypes
  <2> QED BY <1>11, <1>f, <1>g, <1>q, <2>1, <2>2, <2>5 DEF ResendRotate, ResendRestore, MembershipTypes
<1>12. ASSUME Notify(r) PROVE MembershipTypes'
  <2>1. PICK at \in {"sent", "restoring", "marking"} : Goto(r, at) /\ (at = "restoring" => request[r].kind = "resend")
    BY <1>12 DEF Notify
  <2>2. request[r].kind \in {"invite", "resend"}
    BY <1>0, <1>12 DEF Notify, InPlace, MembershipRequest, Kinds, PlacesOf
  <2>3. at \in PlacesOf[request[r].kind] \ {"sole", "open", "found"}
    BY <2>1, <2>2 DEF PlacesOf
  <2>4. mailed' \subseteq Requests
    BY <1>12 DEF Notify, MembershipTypes
  <2> QED BY <1>12, <1>f, <1>g, <1>q, <2>1, <2>3, <2>4 DEF Notify, MembershipTypes
<1>13. ASSUME MarkQueued(r) \/ MarkFailed(r) PROVE MembershipTypes'
  <2>1. PICK at \in {"answered", "restoring", "marking", "failed"} :
          Goto(r, at) /\ (at = "restoring" => request[r].kind = "resend")
    BY <1>13 DEF MarkQueued, MarkFailed
  <2>2. request[r].kind \in {"invite", "resend"}
    BY <1>0, <1>13 DEF MarkQueued, MarkFailed, InPlace, MembershipRequest, Kinds, PlacesOf
  <2>3. at \in PlacesOf[request[r].kind] \ {"sole", "open", "found"}
    BY <2>1, <2>2 DEF PlacesOf
  <2>4. delivery' \subseteq Delivery /\ \A m \in Requests : HasLast(m)'
    BY <1>13, <1>q, MarkedLast DEF MarkQueued, MarkFailed, MembershipTypes
  <2> QED BY <1>13, <1>f, <1>g, <2>1, <2>3, <2>4 DEF MarkQueued, MarkFailed, MembershipTypes
<1>14. ASSUME AcceptFind(r) PROVE MembershipTypes'
  <2> DEFINE found == {m \in Requests : member[m].status = "INVITED" /\ member[m].link = request[r].was}
             one == CHOOSE m \in found : TRUE
  <2>1. request[r].kind = "accept"
    BY <1>14 DEF AcceptFind, Is
  <2>2. {"found", "refused"} \subseteq Places /\ {"found", "refused"} \subseteq PlacesOf["accept"]
    BY DEF Places, PlacesOf, Kinds
  <2>3. \/ one \in Requests /\ request' = [request EXCEPT ![r].at = "found", ![r].m = one]
        \/ request' = [request EXCEPT ![r].at = "refused"]
    BY <1>14 DEF AcceptFind
  <2> HIDE DEF one
  <2>4. request' \in [Requests -> MembershipRequest]
    BY <1>0, <2>1, <2>2, <2>3 DEF MembershipTypes, MembershipRequest
  <2>5. ASSUME NEW q \in Requests PROVE InPlace(q)'
    BY <1>0, <2>1, <2>2, <2>3 DEF MembershipTypes, MembershipRequest, InPlace
  <2> QED BY <1>14, <1>q, <2>4, <2>5 DEF AcceptFind, MembershipTypes
<1>15. ASSUME AcceptOnce(r) \/ AcceptOrganisation(r) PROVE MembershipTypes'
  <2>1. PICK at \in {"sole", "open", "refused"} : Goto(r, at)
    BY <1>15 DEF AcceptOnce, AcceptOrganisation
  <2>2. at \in PlacesOf[request[r].kind] /\ request[r].m \in Requests
    BY <1>0, <1>15, <2>1 DEF AcceptOnce, AcceptOrganisation, Is, PlacesOf, InPlace
  <2>3. request' \in [Requests -> MembershipRequest] /\ \A q \in Requests : InPlace(q)'
    BY <2>1, <2>2, GoesTyped
  <2> QED BY <1>15, <1>q, <2>3 DEF AcceptOnce, AcceptOrganisation, MembershipTypes
<1>16. ASSUME AcceptWrite(r) \/ RevokeWrite(r) PROVE MembershipTypes'
  <2>1. PICK at \in {"answered", "failed"} : Goto(r, at)
    BY <1>16 DEF AcceptWrite, RevokeWrite
  <2>2. /\ at \in PlacesOf[request[r].kind] \ {"sole", "open", "found"}
        /\ request[r].m \in Requests /\ request[r].who \in Absentee
    BY <1>0, <1>16 DEF AcceptWrite, RevokeWrite, Is, PlacesOf, InPlace, MembershipRequest
  <2>3. LET m == request[r].m IN
        /\ [member[m] EXCEPT !.customer = request[r].who, !.status = "ACTIVE",
                             !.link = None, !.from = r] \in Membership
        /\ [member[m] EXCEPT !.status = "REVOKED", !.link = None, !.until = r] \in Membership
    BY <1>0, <2>2 DEF MembershipTypes, Membership, Status
  <2>4. member' \in [Requests -> Membership]
    BY <1>16, <2>2, <2>3, UpdateTyped DEF AcceptWrite, RevokeWrite, MembershipTypes
  <2> QED BY <1>16, <1>f, <1>g, <1>q, <2>1, <2>2, <2>4 DEF AcceptWrite, RevokeWrite, MembershipTypes
<1>17. ASSUME RevokeFind(r) PROVE MembershipTypes'
  <2>1. PICK at \in {"found", "refused"} : Goto(r, at)
    BY <1>17 DEF RevokeFind
  <2>2. at \in PlacesOf[request[r].kind] /\ request[r].kind # "accept"
    BY <1>17 DEF RevokeFind, Is, PlacesOf
  <2>3. request' \in [Requests -> MembershipRequest] /\ \A q \in Requests : InPlace(q)'
    BY <2>1, <2>2, GoesTyped
  <2> QED BY <1>17, <1>q, <2>3 DEF RevokeFind, MembershipTypes
<1> QED BY <1>1, <1>2, <1>3, <1>4, <1>5, <1>6, <1>7, <1>8, <1>9, <1>10, <1>11, <1>12, <1>13,
           <1>14, <1>15, <1>16, <1>17 DEF Step

----------------------------------------------------------------------------
(***************************************************************************)
(* Membership: what is known of the rows.                                  *)
(***************************************************************************)

\* An invite is past the creation of its row: the row will not be created again.
Inserted(r) == request[r].kind = "invite" /\ request[r].at \notin {"asked", "admitted", "fresh", "clear"}

\* A row is that of an invite past its creation; an invite under way has its row.
RowLife(r) ==
  /\ Exists(r) => Inserted(r) /\ member[r].revision >= 1
  /\ ~Exists(r) => member[r] = NoMember
  /\ /\ request[r].kind = "invite"
     /\ request[r].at \in {"created", "assigned", "recorded", "dropRole", "dropMember", "sent", "marking"}
     => Exists(r)

\* A link was mailed by a request that had recorded it, and the row of a mailed
\* invitation is never dropped by its own request.
MailLife(r) ==
  r \in mailed =>
    /\ request[r].kind \in {"invite", "resend"}
    /\ request[r].at \in {"sent", "restoring", "marking", "answered", "failed", "gone"}
    /\ request[r].kind = "invite" => Exists(r)

\* The unique index on the keys of invites.
KeyOfOneRow ==
  \A m, n \in Requests :
    Exists(m) /\ Exists(n) /\ request[m].key = request[n].key => m = n

\* The rows of the attempts: who recorded them, and the unique index on their keys.
AttemptLife ==
  /\ \A d \in delivery :
       /\ request[d.by].kind \in {"invite", "resend"}
       /\ request[d.by].at \in {"recorded", "sent", "restoring", "marking", "answered", "failed", "gone"}
  /\ \A r \in Requests :
       /\ request[r].kind = "resend"
       /\ r \in mailed \/ request[r].at \in {"recorded", "sent", "restoring", "marking"}
       => \E d \in delivery : d.by = r
  /\ \A d, e \in delivery :
       /\ request[d.by].kind = "resend" /\ request[e.by].kind = "resend"
       /\ request[d.by].key = request[e.by].key
       => d.by = e.by

MembershipInv ==
  /\ MembershipTypes
  /\ \A r \in Requests : RowLife(r) /\ MailLife(r)
  /\ KeyOfOneRow /\ AttemptLife
  /\ OneSeatEach

\* What a step does to the requests: only its own, which keeps its parameters
\* once it has arrived and does not fall back behind its row.
Onward(r) ==
  /\ \A q \in Requests \ {r} : request'[q] = request[q]
  /\ \/ /\ request[r].kind = "none" /\ request'[r].kind # "none" /\ request'[r].at = "asked"
        /\ UNCHANGED <<member, delivery, mailed>>
     \/ /\ request'[r].kind = request[r].kind /\ request'[r].key = request[r].key
        /\ request[r].kind # "none"

LEMMA GoesOnward ==
  ASSUME MembershipTypes, NEW r \in Requests, request[r].kind # "none", NEW at, Goto(r, at)
  PROVE  Onward(r) /\ request'[r].at = at
BY DEF MembershipTypes, MembershipRequest, Goto, Onward

LEMMA StepOnward == ASSUME MembershipTypes, NEW r \in Requests, Step(r) PROVE Onward(r)
<1>0. /\ request[r] \in MembershipRequest /\ InPlace(r)
      /\ request[r].at # "none" => request[r].kind # "none"
  BY DEF MembershipTypes, InPlace, PlacesOf, MembershipRequest, Kinds
<1>1. CASE Arrive(r)
  <2>1. request[r].kind = "none"
    BY <1>0, <1>1 DEF Arrive, InPlace
  <2>2. UNCHANGED <<member, delivery, mailed>>
    BY <1>1 DEF Arrive
  <2> QED BY <1>1, <2>1, <2>2, ArriveTyped DEF Onward
<1>2. CASE ~Arrive(r)
  <2>1. CASE \E at : Goto(r, at)
    <3>1. request[r].kind # "none"
      BY <1>0, <1>2 DEF Step, Crash, Over, Is, InviteOrganisation, InviteReplay,
         InviteExisting, InviteCreate, InviteRole, InviteRecord, DropRole, DropMember,
         ResendFind, ResendReplay, ResendNumber, ResendRotate, ResendRecord, ResendRestore,
         Notify, MarkQueued, MarkFailed, AcceptFind, AcceptOnce, AcceptOrganisation,
         AcceptWrite, RevokeFind, RevokeWrite
    <3> QED BY <2>1, <3>1, GoesOnward
  <2>2. CASE ResendFind(r)
    BY <1>0, <2>2 DEF ResendFind, Is, Onward, MembershipTypes, MembershipRequest
  <2>3. CASE ResendNumber(r)
    BY <1>0, <2>3 DEF ResendNumber, Is, Onward, MembershipTypes, MembershipRequest
  <2>4. CASE AcceptFind(r)
    BY <1>0, <2>4 DEF AcceptFind, Is, Onward, MembershipTypes, MembershipRequest
  <2>5. \/ ResendFind(r) \/ ResendNumber(r) \/ AcceptFind(r) \/ \E at : Goto(r, at)
    BY <1>2 DEF Step, Crash, InviteOrganisation, InviteReplay,
         InviteExisting, InviteCreate, InviteRole, InviteRecord, DropRole, DropMember,
         ResendReplay, ResendRotate, ResendRecord, ResendRestore,
         Notify, MarkQueued, MarkFailed, AcceptOnce, AcceptOrganisation,
         AcceptWrite, RevokeFind, RevokeWrite
  <2> QED BY <2>1, <2>2, <2>3, <2>4, <2>5
<1> QED BY <1>1, <1>2

\* The places a step of the request may lead to.
Early == {"asked", "admitted", "fresh", "clear"}
Working == {"created", "assigned", "recorded", "dropRole", "dropMember", "sent", "marking"}
Recorded == {"recorded", "sent", "restoring", "marking"}
Ended == {"answered", "failed", "gone"}

\* Steps that write nothing but the request.
Looks(r) ==
  \/ Crash(r) \/ InviteOrganisation(r) \/ InviteReplay(r) \/ InviteExisting(r)
  \/ ResendFind(r) \/ ResendReplay(r) \/ ResendNumber(r) \/ AcceptFind(r) \/ AcceptOnce(r)
  \/ AcceptOrganisation(r) \/ RevokeFind(r)

\* Where such a step leads: it records nothing, mails nothing and begins no row.
LEMMA LooksAround ==
  ASSUME MembershipTypes, NEW r \in Requests, Looks(r)
  PROVE  /\ UNCHANGED <<member, delivery, mailed>>
         /\ \/ request'[r].at = "gone"
            \/ /\ request[r].at \notin Working \cup Recorded \cup Ended
               /\ request'[r].at \notin Working \cup Recorded \cup Ended
               /\ request[r].kind = "invite" => request[r].at \in Early
<1>1. UNCHANGED <<member, delivery, mailed>>
  BY DEF Looks, Crash, InviteOrganisation, InviteReplay, InviteExisting, ResendFind,
         ResendReplay, ResendNumber, AcceptFind, AcceptOnce, AcceptOrganisation, RevokeFind
<1> USE DEF Working, Recorded, Ended, Early, MembershipTypes, MembershipRequest
<1>2. CASE Crash(r) \/ InviteOrganisation(r) \/ InviteReplay(r) \/ InviteExisting(r)
  BY <1>1, <1>2 DEF Crash, InviteOrganisation, InviteReplay, InviteExisting, Goto, Is
<1>3. CASE ResendFind(r) \/ ResendReplay(r) \/ ResendNumber(r)
  BY <1>1, <1>3 DEF ResendFind, ResendReplay, ResendNumber, Goto, Is
<1>4. CASE AcceptFind(r) \/ AcceptOnce(r) \/ AcceptOrganisation(r) \/ RevokeFind(r)
  BY <1>1, <1>4 DEF AcceptFind, AcceptOnce, AcceptOrganisation, RevokeFind, Goto, Is
<1> QED BY <1>2, <1>3, <1>4 DEF Looks

\* A row once inserted is not inserted again.
LEMMA StaysInserted ==
  ASSUME MembershipTypes, NEW r \in Requests, Step(r)
  PROVE  \A q \in Requests : Inserted(q) => Inserted(q)'
<1>1. Onward(r)
  BY StepOnward
<1>2. ASSUME Inserted(r) PROVE Inserted(r)'
  <2>1. request[r].kind = "invite" /\ request[r].at \notin Early
    BY <1>2 DEF Inserted, Early
  <2>2. request'[r].kind = "invite"
    BY <1>1, <2>1 DEF Onward
  <2>3. request'[r].at \notin Early
    <3>1. CASE Looks(r)
      BY <2>1, <3>1, LooksAround DEF Early
    <3>2. CASE Arrive(r)
      BY <2>1, <3>2 DEF Arrive, MembershipTypes, InPlace
    <3>3. CASE ~Looks(r) /\ ~Arrive(r)
      <4>1. ~InviteCreate(r)
        BY <2>1 DEF InviteCreate, Is, Early
      <4>2. \E at : Goto(r, at) /\ at \notin Early
        BY <3>3, <4>1 DEF Step, Looks, InviteRole, InviteRecord, DropRole, DropMember,
           ResendRotate, ResendRecord, ResendRestore, Notify, MarkQueued, MarkFailed,
           AcceptWrite, RevokeWrite, Early
      <4> QED BY <4>2 DEF Goto, MembershipTypes
    <3> QED BY <3>1, <3>2, <3>3
  <2> QED BY <2>2, <2>3 DEF Inserted, Early
<1>3. ASSUME NEW q \in Requests \ {r}, Inserted(q) PROVE Inserted(q)'
  BY <1>1, <1>3 DEF Onward, Inserted
<1> QED BY <1>2, <1>3

\* A step that neither begins nor drops a row keeps what is known of the rows.
LEMMA RowsKept ==
  ASSUME MembershipInv, MembershipTypes', NEW r \in Requests, Step(r),
         \A m \in Requests :
           /\ Exists(m)' <=> Exists(m)
           /\ ~Exists(m) => member'[m] = member[m]
           /\ member'[m].revision >= member[m].revision,
         request'[r].kind = "invite" /\ request'[r].at \in Working => Exists(r)
  PROVE  (\A q \in Requests : RowLife(q)') /\ KeyOfOneRow'
<1>1. /\ Onward(r)
      /\ \A q \in Requests : Inserted(q) => Inserted(q)'
  BY StepOnward, StaysInserted DEF MembershipInv
<1>2. ASSUME NEW q \in Requests PROVE RowLife(q)'
  <2>1. RowLife(q) /\ member[q].revision \in Nat /\ member'[q].revision \in Nat
    BY DEF MembershipInv, MembershipTypes, Membership
  <2>2. Exists(q)' => Inserted(q)' /\ member'[q].revision >= 1
    BY <1>1, <2>1 DEF RowLife
  <2>3. ~Exists(q)' => member'[q] = NoMember
    BY <2>1 DEF RowLife
  <2>4. request'[q].kind = "invite" /\ request'[q].at \in Working => Exists(q)'
    BY <1>1, <2>1 DEF RowLife, Onward, Working
  <2> QED BY <2>2, <2>3, <2>4 DEF RowLife, Working
<1>3. \A m \in Requests : Exists(m) => request'[m].key = request[m].key
  BY <1>1 DEF Onward, MembershipInv, RowLife, Inserted
<1>4. KeyOfOneRow'
  BY <1>3 DEF KeyOfOneRow, MembershipInv
<1> QED BY <1>2, <1>4

MailPlaces == {"sent", "restoring", "marking", "answered", "failed", "gone"}

LEMMA MailKept ==
  ASSUME MembershipInv, NEW r \in Requests, Onward(r), mailed' \subseteq mailed \cup {r},
         \A m \in Requests : Exists(m) => Exists(m)' \/ (m = r /\ m \notin mailed'),
         r \in mailed' => /\ request[r].kind \in {"invite", "resend"}
                          /\ request'[r].at \in MailPlaces
                          /\ request[r].kind = "invite" => Exists(r)
  PROVE  \A q \in Requests : MailLife(q)'
<1>1. ASSUME NEW q \in Requests, q \in mailed' PROVE MailLife(q)'
  <2>1. CASE q = r
    <3>1. request'[r].kind = request[r].kind
      BY <1>1, <2>1 DEF Onward
    <3> QED BY <1>1, <2>1, <3>1 DEF MailLife, MailPlaces
  <2>2. CASE q # r
    <3>1. q \in mailed /\ MailLife(q) /\ request'[q] = request[q]
      BY <1>1, <2>2 DEF Onward, MembershipInv
    <3> QED BY <2>2, <3>1 DEF MailLife
  <2> QED BY <2>1, <2>2
<1> QED BY <1>1 DEF MailLife

AttemptPlaces == Recorded \cup Ended

LEMMA AttemptsKept ==
  ASSUME MembershipInv, NEW r \in Requests, Onward(r), delivery' \subseteq Delivery,
         \A d \in delivery' : d.by = r \/ \E e \in delivery : e.by = d.by,
         \A e \in delivery : \E d \in delivery' : d.by = e.by,
         mailed' \subseteq mailed \cup {r},
         \A d \in delivery' : d.by = r =>
           request[r].kind \in {"invite", "resend"} /\ request'[r].at \in AttemptPlaces,
         request[r].kind = "resend" /\ (r \in mailed' \/ request'[r].at \in Recorded) =>
           \E d \in delivery' : d.by = r,
         \/ \E e \in delivery : e.by = r
         \/ request[r].kind = "resend" => Resent(request[r].key) = {}
         \/ \A d \in delivery' : d.by # r
  PROVE  AttemptLife'
<1>1. ASSUME NEW d \in delivery'
      PROVE  /\ request'[d.by].kind \in {"invite", "resend"}
             /\ request'[d.by].at \in AttemptPlaces
             /\ request'[d.by].kind = request[d.by].kind /\ request'[d.by].key = request[d.by].key
             /\ d.by \in Requests
  <2>1. CASE d.by = r
    <3>1. request'[r].kind = request[r].kind /\ request'[r].key = request[r].key
      BY <2>1 DEF Onward
    <3> QED BY <2>1, <3>1
  <2>2. CASE d.by # r
    <3>1. PICK e \in delivery : e.by = d.by
      BY <2>2
    <3>2. request'[d.by] = request[d.by] /\ d.by \in Requests
      BY <2>2 DEF Onward, Delivery
    <3> QED BY <3>1, <3>2 DEF AttemptLife, MembershipInv, AttemptPlaces, Recorded, Ended
  <2> QED BY <2>1, <2>2
<1>2. ASSUME NEW q \in Requests, request'[q].kind = "resend",
             q \in mailed' \/ request'[q].at \in Recorded
      PROVE  \E d \in delivery' : d.by = q
  <2>1. CASE q = r
    <3>1. request[r].kind = "resend" \/ (r \notin mailed' /\ request'[r].at = "asked")
      BY <1>2, <2>1 DEF Onward, MembershipInv, MailLife
    <3>2. "asked" \notin Recorded
      BY DEF Recorded
    <3> QED BY <1>2, <2>1, <3>1, <3>2
  <2>2. CASE q # r
    <3>1. \E e \in delivery : e.by = q
      BY <1>2, <2>2 DEF Onward, AttemptLife, MembershipInv, Recorded
    <3> QED BY <3>1
  <2> QED BY <2>1, <2>2
<1>3. ASSUME NEW d \in delivery', NEW e \in delivery',
             request'[d.by].kind = "resend", request'[e.by].kind = "resend",
             request'[d.by].key = request'[e.by].key
      PROVE  d.by = e.by
  <2>1. /\ request[d.by].kind = "resend" /\ request[e.by].kind = "resend"
        /\ request[d.by].key = request[e.by].key
    BY <1>1, <1>3
  <2>2. CASE (\E f \in delivery : f.by = d.by) /\ (\E g \in delivery : g.by = e.by)
    BY <2>1, <2>2 DEF AttemptLife, MembershipInv
  <2>3. CASE d.by = r /\ ~(\E f \in delivery : f.by = d.by)
    <3>1. Resent(request[r].key) = {}
      BY <2>1, <2>3
    <3>2. ~(\E g \in delivery : g.by = e.by)
      BY <2>1, <2>3, <3>1 DEF Resent
    <3> QED BY <2>3, <3>2
  <2>4. CASE e.by = r /\ ~(\E f \in delivery : f.by = e.by)
    <3>1. Resent(request[r].key) = {}
      BY <2>1, <2>4
    <3>2. ~(\E g \in delivery : g.by = d.by)
      BY <2>1, <2>4, <3>1 DEF Resent
    <3> QED BY <2>4, <3>2
  <2> QED BY <2>2, <2>3, <2>4
<1> QED BY <1>1, <1>2, <1>3 DEF AttemptLife, AttemptPlaces, Recorded, Ended

LEMMA SeatsKept ==
  ASSUME MembershipInv,
         \/ \A m \in Requests : member'[m].customer \in {member[m].customer, None}
         \/ \E m \in Requests : /\ \A n \in Requests \ {m} : member'[n] = member[n]
                                /\ ~Seated(member'[m].customer, m)
  PROVE  OneSeatEach'
BY DEF MembershipInv, OneSeatEach, Seated

\* A row that stays changes its revision when the trigger finds a change.
LEMMA UpdateKeeps ==
  ASSUME MembershipTypes, NEW m \in Requests, Exists(m), NEW new \in Membership,
         new.status # "none", new.revision = member[m].revision, Update(m, new)
  PROVE  /\ \A n \in Requests \ {m} : member'[n] = member[n]
         /\ member'[m].customer = new.customer /\ member'[m].roles = new.roles
         /\ member'[m].status = new.status /\ member'[m].from = new.from
         /\ member'[m].until = new.until
         /\ \/ member'[m].revision = member[m].revision + 1
            \/ /\ member'[m].revision = member[m].revision
               /\ Authority(new) = Authority(member[m])
         /\ Exists(m)'
         /\ \A n \in Requests :
              /\ Exists(n)' <=> Exists(n)
              /\ ~Exists(n) => member'[n] = member[n]
              /\ member'[n].revision >= member[n].revision
<1> DEFINE revision == IF Authority(new) # Authority(member[m]) THEN member[m].revision + 1
                       ELSE member[m].revision
<1>1. member[m].revision \in Nat
  BY DEF MembershipTypes, Membership
<1>2. /\ revision = member[m].revision + 1 \/ (revision = member[m].revision /\ Authority(new) = Authority(member[m]))
      /\ revision \in Nat /\ Triggered(member[m], new) = [new EXCEPT !.revision = revision]
  BY <1>1 DEF Triggered
<1> HIDE DEF revision
<1>3. member' = [member EXCEPT ![m] = [new EXCEPT !.revision = revision]]
  BY <1>2, UpdateTyped
<1>4. /\ \A n \in Requests \ {m} : member'[n] = member[n]
      /\ member'[m] = [new EXCEPT !.revision = revision]
  BY <1>3 DEF MembershipTypes
<1>5. /\ member'[m].customer = new.customer /\ member'[m].roles = new.roles
      /\ member'[m].status = new.status /\ member'[m].from = new.from
      /\ member'[m].until = new.until /\ member'[m].revision = revision
  BY <1>4 DEF Membership
<1>6. Exists(m)'
  BY <1>5 DEF Exists
<1>7. \A n \in Requests \ {m} : (Exists(n)' <=> Exists(n)) /\ member'[n].revision = member[n].revision
  BY <1>4 DEF Exists
<1>8. \A n \in Requests : member[n].revision \in Nat
  BY DEF MembershipTypes, Membership
<1>9. member'[m].revision >= member[m].revision
  BY <1>1, <1>2, <1>5
<1>10. \A n \in Requests :
         /\ Exists(n)' <=> Exists(n)
         /\ ~Exists(n) => member'[n] = member[n]
         /\ member'[n].revision >= member[n].revision
  <2>1. ASSUME NEW n \in Requests
        PROVE  /\ Exists(n)' <=> Exists(n)
               /\ ~Exists(n) => member'[n] = member[n]
               /\ member'[n].revision >= member[n].revision
    <3>1. CASE n = m
      BY <1>6, <1>9, <3>1
    <3>2. CASE n # m
      BY <1>4, <1>7, <1>8, <3>2
    <3> QED BY <3>1, <3>2
  <2> QED BY <2>1
<1>11. \/ member'[m].revision = member[m].revision + 1
       \/ /\ member'[m].revision = member[m].revision
          /\ Authority(new) = Authority(member[m])
  BY <1>2, <1>5
<1> QED BY <1>4, <1>5, <1>6, <1>10, <1>11

LEMMA SetRolesKeeps ==
  ASSUME MembershipTypes, NEW m \in Requests, Exists(m), NEW roles \in SUBSET Roles,
         SetRoles(m, roles)
  PROVE  /\ \A n \in Requests \ {m} : member'[n] = member[n]
         /\ member'[m].customer = member[m].customer
         /\ member'[m].status = member[m].status /\ member'[m].from = member[m].from
         /\ member'[m].until = member[m].until
         /\ member'[m].revision = member[m].revision + 1
         /\ Exists(m)'
         /\ \A n \in Requests :
              /\ Exists(n)' <=> Exists(n)
              /\ ~Exists(n) => member'[n] = member[n]
              /\ member'[n].revision >= member[n].revision
<1>1. \A n \in Requests : member[n].revision \in Nat /\ member[n] \in Membership
  BY DEF MembershipTypes, Membership
<1>2. /\ \A n \in Requests \ {m} : member'[n] = member[n]
      /\ member'[m] = [member[m] EXCEPT !.roles = roles, !.revision = member[m].revision + 1]
  BY SetRolesTyped
<1>3. /\ member'[m].customer = member[m].customer
      /\ member'[m].status = member[m].status /\ member'[m].from = member[m].from
      /\ member'[m].until = member[m].until
      /\ member'[m].revision = member[m].revision + 1
  BY <1>1, <1>2 DEF Membership
<1>4. \A n \in Requests : Exists(n)' <=> Exists(n)
  BY <1>2, <1>3 DEF Exists
<1>5. ASSUME NEW n \in Requests PROVE member'[n].revision >= member[n].revision
  <2>1. CASE n = m
    BY <1>1, <1>3, <2>1
  <2>2. CASE n # m
    BY <1>1, <1>2, <2>2
  <2> QED BY <2>1, <2>2
<1> QED BY <1>2, <1>3, <1>4, <1>5

\* A step that leaves delivery alone, and whose request is past its recording or
\* of another kind, keeps what is known of the attempts.
LEMMA AttemptsStay ==
  ASSUME MembershipInv, NEW r \in Requests, Onward(r), UNCHANGED delivery,
         mailed' \subseteq mailed \cup {r},
         \A d \in delivery : d.by = r => request'[r].at \in AttemptPlaces,
         request[r].kind = "resend" /\ (r \in mailed' \ mailed \/ request'[r].at \in Recorded)
           => request[r].at \in Recorded
  PROVE  AttemptLife'
<1>1. \A d \in delivery : d.by = r => request[r].kind \in {"invite", "resend"}
  BY DEF MembershipInv, AttemptLife
<1>2. request[r].kind = "resend" /\ (r \in mailed' \/ request'[r].at \in Recorded) =>
        \E d \in delivery : d.by = r
  BY DEF MembershipInv, AttemptLife, Recorded
<1>3. delivery' \subseteq Delivery
  BY DEF MembershipInv, MembershipTypes
<1>4. (\E e \in delivery : e.by = r) \/ (\A d \in delivery' : d.by # r)
  OBVIOUS
<1> QED BY <1>1, <1>2, <1>3, <1>4, AttemptsKept

LEMMA StepInv == ASSUME MembershipInv, NEW r \in Requests, Step(r) PROVE MembershipInv'
<1>t. /\ MembershipTypes /\ MembershipTypes'
  BY StepTyped DEF MembershipInv
<1>o. Onward(r)
  BY <1>t, StepOnward
<1>0. /\ request[r] \in MembershipRequest /\ InPlace(r) /\ RowLife(r) /\ MailLife(r)
      /\ member[r] \in Membership
      /\ \A d \in delivery : d.by = r =>
           request[r].kind \in {"invite", "resend"} /\ request[r].at \in AttemptPlaces
      /\ \A m \in Requests : member[m].revision \in Nat
  BY <1>t DEF MembershipInv, MembershipTypes, Membership, AttemptLife, AttemptPlaces, Recorded, Ended
<1>r. ASSUME NEW at, Goto(r, at) PROVE request'[r].at = at
  BY <1>r, <1>t DEF Goto, MembershipTypes, MembershipRequest
<1>s. ASSUME UNCHANGED member PROVE OneSeatEach'
  BY <1>s, SeatsKept
<1>m. ASSUME UNCHANGED member
      PROVE  \A m \in Requests :
               /\ Exists(m)' <=> Exists(m)
               /\ ~Exists(m) => member'[m] = member[m]
               /\ member'[m].revision >= member[m].revision
  BY <1>0, <1>m DEF Exists
<1>k. ASSUME \A m \in Requests : Exists(m)' <=> Exists(m), UNCHANGED mailed,
             r \in mailed => request'[r].at \in MailPlaces
      PROVE  \A q \in Requests : MailLife(q)'
  BY <1>k, <1>0, <1>o, MailKept DEF MailLife
<1>1. ASSUME Looks(r) \/ Arrive(r) PROVE MembershipInv'
  <2>1. UNCHANGED <<member, delivery, mailed>>
    BY <1>1, <1>t, LooksAround DEF Arrive
  <2>2. \/ request'[r].at = "gone"
        \/ /\ request[r].at \notin Working \cup Recorded \cup Ended
           /\ request'[r].at \notin Working \cup Recorded \cup Ended
    <3>1. CASE Looks(r)
      BY <3>1, <1>t, LooksAround
    <3>2. CASE Arrive(r)
      <4>1. request'[r].at = "asked"
        BY <3>2, <1>t, ArriveTyped
      <4>2. request[r].kind = "none"
        BY <3>2, <1>0 DEF Arrive, InPlace
      <4>3. request[r].at = "none"
        BY <1>0, <4>2 DEF InPlace, PlacesOf
      <4> QED BY <4>1, <4>3 DEF Working, Recorded, Ended
    <3> QED BY <1>1, <3>1, <3>2
  <2>3. r \in mailed => request'[r].at \in MailPlaces
    BY <1>0, <2>2 DEF MailLife, MailPlaces, Recorded, Ended, Working
  <2>4. \A d \in delivery : d.by = r => request'[r].at \in AttemptPlaces
    BY <1>0, <2>2 DEF AttemptPlaces, Ended
  <2>5. request'[r].at \notin Working \cup Recorded
    BY <2>2 DEF Working, Recorded
  <2>6. (\A q \in Requests : RowLife(q)') /\ KeyOfOneRow'
    BY <1>m, <1>t, <2>1, <2>5, RowsKept
  <2>7. \A q \in Requests : MailLife(q)'
    BY <1>k, <1>m, <2>1, <2>3
  <2>8. AttemptLife'
    BY <1>o, <2>1, <2>4, <2>5, AttemptsStay
  <2> QED BY <1>s, <1>t, <2>1, <2>6, <2>7, <2>8 DEF MembershipInv
<1>2. ASSUME InviteCreate(r) PROVE MembershipInv'
  <2>0. request[r].kind = "invite" /\ request[r].at = "clear"
    BY <1>2 DEF InviteCreate, Is
  <2>1. /\ r \notin mailed /\ member[r] = NoMember /\ ~Exists(r)
        /\ \A d \in delivery : d.by # r
        /\ UNCHANGED <<delivery, mailed>>
    BY <1>0, <1>2, <2>0 DEF MailLife, RowLife, Inserted, AttemptPlaces, Recorded, Ended, InviteCreate
  <2>2. AttemptLife'
    BY <1>o, <2>0, <2>1, AttemptsStay
  <2>3. CASE UNCHANGED member /\ Goto(r, "failed")
    <3>1. request'[r].at \notin Working
      BY <1>r, <2>3 DEF Working
    <3>2. (\A q \in Requests : RowLife(q)') /\ KeyOfOneRow'
      BY <1>m, <1>t, <2>3, <3>1, RowsKept
    <3>3. \A q \in Requests : MailLife(q)'
      BY <1>k, <1>m, <2>1, <2>3
    <3> QED BY <1>s, <1>t, <2>2, <2>3, <3>2, <3>3 DEF MembershipInv
  <2>4. CASE /\ Invited(request[r].key) = {} /\ Goto(r, "created")
             /\ member' = [member EXCEPT ![r] =
                  [NoMember EXCEPT !.status = "INVITED", !.email = request[r].who,
                                   !.link = r, !.revision = 1]]
    <3>1. /\ member'[r].status = "INVITED" /\ member'[r].revision = 1 /\ member'[r].customer = None
          /\ \A n \in Requests \ {r} : member'[n] = member[n]
      BY <1>t, <2>4 DEF MembershipTypes, NoMember
    <3>2. /\ request'[r].at = "created" /\ request'[r].kind = "invite"
          /\ request'[r].key = request[r].key
      BY <1>o, <1>r, <2>0, <2>4 DEF Onward
    <3>3. RowLife(r)'
      BY <3>1, <3>2 DEF RowLife, Exists, Inserted
    <3>4. \A q \in Requests \ {r} : RowLife(q)'
      BY <1>o, <3>1 DEF MembershipInv, RowLife, Exists, Inserted, Onward
    <3>5. KeyOfOneRow'
      <4>1. \A m \in Requests \ {r} : Exists(m)' =>
              Exists(m) /\ request'[m].key = request[m].key /\ request[m].key # request[r].key
        BY <1>o, <2>4, <3>1 DEF Onward, Exists, Invited
      <4> QED BY <3>2, <4>1 DEF KeyOfOneRow, MembershipInv
    <3>6. \A m \in Requests : Exists(m) => Exists(m)'
      BY <3>1 DEF Exists
    <3>7. \A q \in Requests : MailLife(q)'
      BY <1>o, <2>1, <3>6, MailKept
    <3>8. OneSeatEach'
      BY <3>1, SeatsKept
    <3> QED BY <1>t, <2>2, <3>3, <3>4, <3>5, <3>7, <3>8 DEF MembershipInv
  <2> QED BY <1>2, <2>3, <2>4 DEF InviteCreate
<1>3. ASSUME InviteRole(r) \/ DropRole(r) PROVE MembershipInv'
  <2>0. /\ request[r].kind = "invite" /\ request[r].at \in {"created", "dropRole"}
        /\ Exists(r)
    BY <1>0, <1>3 DEF InviteRole, DropRole, Is, RowLife
  <2>1. /\ r \notin mailed /\ \A d \in delivery : d.by # r
        /\ UNCHANGED <<delivery, mailed>>
    BY <1>0, <1>3, <2>0 DEF MailLife, AttemptPlaces, Recorded, Ended, InviteRole, DropRole
  <2>2. AttemptLife'
    BY <1>o, <2>0, <2>1, AttemptsStay
  <2>3. UNCHANGED member \/ \E roles \in SUBSET Roles : SetRoles(r, roles)
    <3>1. {request[r].role} \in SUBSET Roles
      BY <1>0, <2>0 DEF InPlace
    <3> QED BY <1>3, <3>1 DEF InviteRole, DropRole
  <2>4. /\ \A m \in Requests :
             /\ Exists(m)' <=> Exists(m)
             /\ ~Exists(m) => member'[m] = member[m]
             /\ member'[m].revision >= member[m].revision
        /\ \A m \in Requests : member'[m].customer = member[m].customer
    <3>1. CASE UNCHANGED member
      BY <1>m, <3>1
    <3>2. ASSUME NEW roles \in SUBSET Roles, SetRoles(r, roles)
          PROVE  /\ \A m \in Requests :
                      /\ Exists(m)' <=> Exists(m)
                      /\ ~Exists(m) => member'[m] = member[m]
                      /\ member'[m].revision >= member[m].revision
                 /\ \A m \in Requests : member'[m].customer = member[m].customer
      BY <1>t, <2>0, <3>2, SetRolesKeeps
    <3> QED BY <2>3, <3>1, <3>2
  <2>5. (\A q \in Requests : RowLife(q)') /\ KeyOfOneRow'
    BY <1>t, <2>0, <2>4, RowsKept
  <2>6. \A q \in Requests : MailLife(q)'
    BY <1>k, <2>1, <2>4
  <2>7. OneSeatEach'
    BY <2>4, SeatsKept
  <2> QED BY <1>t, <2>2, <2>5, <2>6, <2>7 DEF MembershipInv
<1>4. ASSUME DropMember(r) PROVE MembershipInv'
  <2>0. /\ request[r].kind = "invite" /\ request[r].at = "dropMember" /\ request'[r].at = "failed"
    BY <1>4, <1>r DEF DropMember, Is
  <2>1. /\ r \notin mailed /\ \A d \in delivery : d.by # r
        /\ UNCHANGED <<delivery, mailed>>
    BY <1>0, <1>4, <2>0 DEF MailLife, AttemptPlaces, Recorded, Ended, DropMember
  <2>2. AttemptLife'
    BY <1>o, <2>0, <2>1, AttemptsStay
  <2>3. /\ \A n \in Requests \ {r} : member'[n] = member[n]
        /\ member'[r] \in {member[r], NoMember}
    BY <1>4, <1>t DEF DropMember, MembershipTypes
  <2>4. ~Exists(r)' => member'[r] = NoMember
    BY <1>0, <2>3 DEF Exists, NoMember, RowLife
  <2>5. Exists(r)' => member'[r] = member[r] /\ Exists(r)
    BY <2>3 DEF Exists, NoMember
  <2>6. RowLife(r)'
    BY <1>0, <1>o, <2>0, <2>4, <2>5 DEF RowLife, Onward, Inserted
  <2>7. \A q \in Requests \ {r} : RowLife(q)'
    BY <1>o, <2>3 DEF MembershipInv, RowLife, Exists, Inserted, Onward
  <2>8. KeyOfOneRow'
    <3>1. \A m \in Requests : Exists(m)' => Exists(m)
      BY <2>3, <2>5 DEF Exists
    <3>2. \A m \in Requests : request'[m].key = request[m].key
      BY <1>o, <2>0 DEF Onward
    <3> QED BY <3>1, <3>2 DEF KeyOfOneRow, MembershipInv
  <2>9. \A m \in Requests : Exists(m) => Exists(m)' \/ (m = r /\ m \notin mailed')
    BY <2>1, <2>3 DEF Exists
  <2>10. \A q \in Requests : MailLife(q)'
    BY <1>o, <2>1, <2>9, MailKept
  <2>11. OneSeatEach'
    <3>1. \A m \in Requests : member'[m].customer \in {member[m].customer, None}
      BY <2>3 DEF NoMember
    <3> QED BY <3>1, SeatsKept
  <2> QED BY <1>t, <2>2, <2>6, <2>7, <2>8, <2>10, <2>11 DEF MembershipInv
<1>5. ASSUME InviteRecord(r) \/ ResendRecord(r) PROVE MembershipInv'
  <2>0. /\ \/ request[r].kind = "invite" /\ request[r].at = "assigned"
           \/ request[r].kind = "resend" /\ request[r].at = "rotated"
        /\ UNCHANGED <<member, mailed>>
    BY <1>5 DEF InviteRecord, ResendRecord, Is
  <2>1. r \notin mailed /\ \A d \in delivery : d.by # r
    BY <1>0, <2>0 DEF MailLife, AttemptPlaces, Recorded, Ended
  <2>2. request[r].kind = "invite" => Exists(r)
    BY <1>0, <2>0 DEF RowLife
  <2>3. request'[r].kind = request[r].kind
    BY <1>o, <2>0 DEF Onward
  <2>4. (\A q \in Requests : RowLife(q)') /\ KeyOfOneRow'
    BY <1>m, <1>t, <2>0, <2>2, <2>3, RowsKept
  <2>5. \A q \in Requests : MailLife(q)'
    BY <1>k, <1>m, <2>0, <2>1
  <2>6. AttemptLife'
    <3>1. CASE UNCHANGED delivery /\ (Goto(r, "dropRole") \/ Goto(r, "failed"))
      <4>1. request'[r].at \notin Recorded
        BY <1>r, <3>1 DEF Recorded
      <4> QED BY <1>o, <2>0, <2>1, <3>1, <4>1, AttemptsStay
    <3>2. CASE /\ Goto(r, "recorded")
               /\ request[r].kind = "resend" => Resent(request[r].key) = {}
               /\ \E d : d.by = r /\ delivery' = delivery \cup {d}
      <4>1. PICK d : d.by = r /\ delivery' = delivery \cup {d}
        BY <3>2
      <4>2. request'[r].at = "recorded" /\ delivery' \subseteq Delivery
        BY <1>r, <1>t, <3>2 DEF MembershipTypes
      <4> QED BY <1>o, <2>0, <3>2, <4>1, <4>2, AttemptsKept DEF AttemptPlaces, Recorded
    <3>3. CASE InviteRecord(r)
      BY <2>0, <3>1, <3>2, <3>3 DEF InviteRecord, Is
    <3>4. CASE ResendRecord(r)
      BY <2>0, <3>1, <3>2, <3>4 DEF ResendRecord, Is
    <3> QED BY <1>5, <3>3, <3>4
  <2> QED BY <1>s, <1>t, <2>0, <2>4, <2>5, <2>6 DEF MembershipInv
<1>6. ASSUME ResendRotate(r) \/ ResendRestore(r) PROVE MembershipInv'
  <2>a. /\ request[r].kind = "resend" /\ request[r].m \in Requests
        /\ request[r].was \in Links /\ r \in Links
        /\ UNCHANGED <<delivery, mailed>>
    BY <1>0, <1>6 DEF ResendRotate, ResendRestore, Is, InPlace, MembershipRequest, Links
  <2>b. \/ request[r].at = "numbered" /\ request'[r].at \in {"rotated", "failed"}
        \/ request[r].at = "restoring" /\ request'[r].at = "marking"
    BY <1>6, <1>r DEF ResendRotate, ResendRestore, Is
  <2>c. request'[r].kind = "resend"
    BY <1>o, <2>a DEF Onward
  <2>0. /\ request[r].kind = "resend" /\ request[r].m \in Requests
        /\ request[r].was \in Links /\ r \in Links
        /\ request'[r].kind = "resend"
        /\ UNCHANGED <<delivery, mailed>>
        /\ \/ request[r].at = "numbered" /\ request'[r].at \in {"rotated", "failed"}
           \/ request[r].at = "restoring" /\ request'[r].at = "marking"
    BY <2>a, <2>b, <2>c
  <2>1. \/ UNCHANGED member
        \/ \E m \in Requests, l \in Links : Exists(m) /\ Update(m, [member[m] EXCEPT !.link = l])
    BY <1>6, <2>0 DEF ResendRotate, ResendRestore
  <2>2. /\ \A m \in Requests :
             /\ Exists(m)' <=> Exists(m)
             /\ ~Exists(m) => member'[m] = member[m]
             /\ member'[m].revision >= member[m].revision
        /\ \A m \in Requests : member'[m].customer = member[m].customer
    <3>1. CASE UNCHANGED member
      BY <1>m, <3>1
    <3>2. ASSUME NEW m \in Requests, NEW l \in Links, Exists(m),
                 Update(m, [member[m] EXCEPT !.link = l])
          PROVE  /\ \A n \in Requests :
                      /\ Exists(n)' <=> Exists(n)
                      /\ ~Exists(n) => member'[n] = member[n]
                      /\ member'[n].revision >= member[n].revision
                 /\ \A n \in Requests : member'[n].customer = member[n].customer
      <4> DEFINE new == [member[m] EXCEPT !.link = l]
      <4>1. /\ new \in Membership /\ new.status # "none" /\ new.revision = member[m].revision
            /\ new.customer = member[m].customer
        BY <1>t, <3>2 DEF MembershipTypes, Membership, Exists
      <4>2. Update(m, new)
        BY <3>2
      <4> HIDE DEF new
      <4> QED BY <1>t, <3>2, <4>1, <4>2, UpdateKeeps
    <3> QED BY <2>1, <3>1, <3>2
  <2>3. (\A q \in Requests : RowLife(q)') /\ KeyOfOneRow'
    BY <1>t, <2>0, <2>2, RowsKept
  <2>4. \A q \in Requests : MailLife(q)'
    BY <1>0, <1>k, <2>0, <2>2 DEF MailLife, MailPlaces
  <2>5. OneSeatEach'
    BY <2>2, SeatsKept
  <2>6. AttemptLife'
    BY <1>0, <1>o, <2>0, AttemptsStay DEF AttemptPlaces, Recorded, Ended
  <2> QED BY <1>t, <2>3, <2>4, <2>5, <2>6 DEF MembershipInv
<1>7. ASSUME Notify(r) PROVE MembershipInv'
  <2>0. /\ request[r].at = "recorded" /\ request[r].kind \in {"invite", "resend"}
        /\ request'[r].at \in {"sent", "restoring", "marking"}
        /\ UNCHANGED <<member, delivery>> /\ mailed' \subseteq mailed \cup {r}
    BY <1>0, <1>7, <1>r DEF Notify, InPlace, PlacesOf, MembershipRequest, Kinds
  <2>1. request[r].kind = "invite" => Exists(r)
    BY <1>0, <2>0 DEF RowLife
  <2>2. request'[r].kind = request[r].kind
    BY <1>o, <2>0 DEF Onward
  <2>3. (\A q \in Requests : RowLife(q)') /\ KeyOfOneRow'
    BY <1>m, <1>t, <2>0, <2>1, <2>2, RowsKept
  <2>4. \A q \in Requests : MailLife(q)'
    BY <1>m, <1>o, <2>0, <2>1, MailKept DEF MailPlaces
  <2>5. AttemptLife'
    BY <1>o, <2>0, AttemptsStay DEF AttemptPlaces, Recorded
  <2> QED BY <1>s, <1>t, <2>0, <2>3, <2>4, <2>5 DEF MembershipInv
<1>8. ASSUME MarkQueued(r) \/ MarkFailed(r) PROVE MembershipInv'
  <2>0. /\ request[r].at \in {"sent", "marking"} /\ request[r].kind \in {"invite", "resend"}
        /\ request'[r].at \in {"answered", "restoring", "marking", "failed"}
        /\ UNCHANGED <<member, mailed>>
    BY <1>0, <1>8, <1>r DEF MarkQueued, MarkFailed, InPlace, PlacesOf, MembershipRequest, Kinds
  <2>1. request[r].kind = "invite" => Exists(r)
    BY <1>0, <2>0 DEF RowLife
  <2>2. request'[r].kind = request[r].kind
    BY <1>o, <2>0 DEF Onward
  <2>3. (\A q \in Requests : RowLife(q)') /\ KeyOfOneRow'
    BY <1>m, <1>t, <2>0, <2>1, <2>2, RowsKept
  <2>4. \A q \in Requests : MailLife(q)'
    BY <1>k, <1>m, <2>0 DEF MailPlaces
  <2>5. request'[r].at \in AttemptPlaces
    BY <2>0 DEF AttemptPlaces, Recorded, Ended
  <2>6. AttemptLife'
    <3>1. CASE UNCHANGED delivery
      BY <1>o, <2>0, <2>5, <3>1, AttemptsStay DEF Recorded
    <3>2. ASSUME NEW status \in {"QUEUED", "FAILED"}, Mark(r, status) PROVE AttemptLife'
      <4> DEFINE marked(d) == IF d.by = r THEN [d EXCEPT !.status = status] ELSE d
      <4>1. \A d \in delivery : marked(d).by = d.by
        BY <1>t DEF MembershipTypes, Delivery
      <4>2. delivery' = {marked(d) : d \in delivery}
        BY <3>2 DEF Mark
      <4> HIDE DEF marked
      <4>3. delivery' \subseteq Delivery
        BY <1>t DEF MembershipTypes
      <4>4. /\ \A d \in delivery' : \E e \in delivery : e.by = d.by
            /\ \A e \in delivery : \E d \in delivery' : d.by = e.by
        BY <4>1, <4>2
      <4>5. request[r].kind = "resend" => \E e \in delivery : e.by = r
        BY <2>0 DEF MembershipInv, AttemptLife
      <4>6. (\E e \in delivery : e.by = r) \/ (\A d \in delivery' : d.by # r)
        BY <4>4
      <4> QED BY <1>o, <2>0, <2>5, <4>3, <4>4, <4>5, <4>6, AttemptsKept
    <3> QED BY <1>8, <3>1, <3>2 DEF MarkQueued, MarkFailed
  <2> QED BY <1>s, <1>t, <2>0, <2>3, <2>4, <2>6 DEF MembershipInv
<1>9. ASSUME AcceptWrite(r) \/ RevokeWrite(r) PROVE MembershipInv'
  <2>0. /\ request[r].kind \in {"accept", "revoke"} /\ request[r].m \in Requests
        /\ request'[r].kind = request[r].kind /\ request'[r].at \in {"answered", "failed"}
        /\ UNCHANGED <<delivery, mailed>>
    BY <1>0, <1>o, <1>9, <1>r DEF AcceptWrite, RevokeWrite, Is, InPlace, Onward
  <2> DEFINE m == request[r].m
             accepted == [member[m] EXCEPT !.customer = request[r].who, !.status = "ACTIVE",
                                           !.link = None, !.from = r]
             revoked == [member[m] EXCEPT !.status = "REVOKED", !.link = None, !.until = r]
  <2>1. /\ accepted \in Membership /\ accepted.status # "none"
        /\ accepted.revision = member[m].revision /\ accepted.customer = request[r].who
        /\ revoked \in Membership /\ revoked.status # "none"
        /\ revoked.revision = member[m].revision /\ revoked.customer = member[m].customer
    <3>1. /\ member[m] \in Membership /\ request[r].who \in Absentee
          /\ r \in Links /\ None \in Links
      BY <1>0, <1>t, <2>0 DEF MembershipTypes, MembershipRequest, Links
    <3> HIDE DEF m
    <3> QED BY <3>1 DEF Membership, Status
  <2>2. \/ UNCHANGED member
        \/ Exists(m) /\ ~Seated(request[r].who, m) /\ Update(m, accepted)
        \/ Exists(m) /\ Update(m, revoked)
    BY <1>9 DEF AcceptWrite, RevokeWrite
  <2> HIDE DEF accepted, revoked
  <2>3. /\ \A n \in Requests :
             /\ Exists(n)' <=> Exists(n)
             /\ ~Exists(n) => member'[n] = member[n]
             /\ member'[n].revision >= member[n].revision
        /\ OneSeatEach'
    <3>1. CASE UNCHANGED member
      BY <1>m, <1>s, <3>1
    <3>2. CASE Exists(m) /\ ~Seated(request[r].who, m) /\ Update(m, accepted)
      BY <1>t, <2>0, <2>1, <3>2, UpdateKeeps, SeatsKept
    <3>3. CASE Exists(m) /\ Update(m, revoked)
      BY <1>t, <2>0, <2>1, <3>3, UpdateKeeps, SeatsKept
    <3> QED BY <2>2, <3>1, <3>2, <3>3
  <2>4. (\A q \in Requests : RowLife(q)') /\ KeyOfOneRow'
    BY <1>t, <2>0, <2>3, RowsKept
  <2>5. \A q \in Requests : MailLife(q)'
    BY <1>0, <1>k, <2>0, <2>3 DEF MailLife, MailPlaces
  <2>6. AttemptLife'
    BY <1>0, <1>o, <2>0, AttemptsStay DEF AttemptPlaces, Ended
  <2> QED BY <1>t, <2>3, <2>4, <2>5, <2>6 DEF MembershipInv
<1> QED BY <1>1, <1>2, <1>3, <1>4, <1>5, <1>6, <1>7, <1>8, <1>9 DEF Step, Looks

\* What the steps outside the requests do to the rows.
Edits(m) == (EditRole(m) \/ EditStatus(m)) /\ m \in Requests
Elsewhere == OrganisationStatus \/ \E l \in Requests : Lapse(l)

LEMMA ElsewhereInv == ASSUME MembershipInv, Elsewhere PROVE MembershipInv'
<1>1. UNCHANGED <<member, delivery, mailed, request>>
  BY DEF Elsewhere, OrganisationStatus, Lapse
<1>2. /\ organisation' \in [status : {"ACTIVE", "SUSPENDED"}, revision : Nat]
      /\ lapsed' \subseteq Requests /\ faults' \in Nat /\ edits' \in Nat
  BY DEF Elsewhere, OrganisationStatus, Lapse, MembershipInv, MembershipTypes
<1>3. MembershipTypes'
  BY <1>1, <1>2 DEF MembershipInv, MembershipTypes, InPlace, HasLast, Rows
<1> QED
  BY <1>1, <1>3 DEF MembershipInv, RowLife, Exists, Inserted, MailLife, KeyOfOneRow, AttemptLife, OneSeatEach

LEMMA EditsTyped ==
  ASSUME MembershipInv, NEW m \in Requests, Edits(m)
  PROVE  /\ \/ \E roles \in SUBSET Roles : SetRoles(m, roles)
            \/ \E status \in {"ACTIVE", "SUSPENDED"} : Update(m, [member[m] EXCEPT !.status = status])
         /\ Exists(m) /\ edits' \in Nat
         /\ UNCHANGED <<organisation, delivery, mailed, lapsed, request, faults, contextVars>>
<1>1. member[m].roles \subseteq Roles /\ edits \in Nat
  BY DEF MembershipInv, MembershipTypes, Membership
<1>2. CASE EditRole(m)
  <2>1. PICK role \in Roles :
          SetRoles(m, IF role \in member[m].roles THEN member[m].roles \ {role}
                      ELSE member[m].roles \cup {role})
    BY <1>2 DEF EditRole
  <2>2. \E roles \in SUBSET Roles : SetRoles(m, roles)
    BY <1>1, <2>1
  <2> QED BY <1>1, <1>2, <2>2 DEF EditRole
<1>3. CASE EditStatus(m)
  <2>1. Exists(m)
    BY <1>3 DEF EditStatus, Exists
  <2>2. \E status \in {"ACTIVE", "SUSPENDED"} : Update(m, [member[m] EXCEPT !.status = status])
    BY <1>3 DEF EditStatus
  <2> QED BY <1>1, <1>3, <2>1, <2>2 DEF EditStatus
<1> QED BY <1>2, <1>3 DEF Edits

LEMMA EditsInv == ASSUME MembershipInv, NEW m \in Requests, Edits(m) PROVE MembershipInv'
<1>t. MembershipTypes
  BY DEF MembershipInv
<1>1. /\ Exists(m) /\ edits' \in Nat
      /\ UNCHANGED <<organisation, delivery, mailed, lapsed, request, faults>>
  BY EditsTyped
<1>2. /\ member' \in [Requests -> Membership]
      /\ \A n \in Requests :
           /\ Exists(n)' <=> Exists(n)
           /\ ~Exists(n) => member'[n] = member[n]
           /\ member'[n].revision >= member[n].revision
           /\ member'[n].customer = member[n].customer
  <2>1. ASSUME NEW roles \in SUBSET Roles, SetRoles(m, roles)
        PROVE  /\ member' \in [Requests -> Membership]
               /\ \A n \in Requests :
                    /\ Exists(n)' <=> Exists(n)
                    /\ ~Exists(n) => member'[n] = member[n]
                    /\ member'[n].revision >= member[n].revision
                    /\ member'[n].customer = member[n].customer
    BY <1>t, <1>1, <2>1, SetRolesTyped, SetRolesKeeps
  <2>2. ASSUME NEW status \in {"ACTIVE", "SUSPENDED"}, Update(m, [member[m] EXCEPT !.status = status])
        PROVE  /\ member' \in [Requests -> Membership]
               /\ \A n \in Requests :
                    /\ Exists(n)' <=> Exists(n)
                    /\ ~Exists(n) => member'[n] = member[n]
                    /\ member'[n].revision >= member[n].revision
                    /\ member'[n].customer = member[n].customer
    <3> DEFINE new == [member[m] EXCEPT !.status = status]
    <3>1. /\ new \in Membership /\ new.status # "none" /\ new.revision = member[m].revision
          /\ new.customer = member[m].customer
      BY <1>t DEF MembershipTypes, Membership, Status
    <3>2. Update(m, new)
      BY <2>2
    <3> HIDE DEF new
    <3> QED BY <1>t, <1>1, <3>1, <3>2, UpdateTyped, UpdateKeeps
  <2> QED BY <2>1, <2>2, EditsTyped
<1>3. MembershipTypes'
  BY <1>t, <1>1, <1>2 DEF MembershipTypes, InPlace, HasLast, Rows
<1>4. ASSUME NEW q \in Requests PROVE RowLife(q)' /\ MailLife(q)'
  <2>1. RowLife(q) /\ MailLife(q) /\ member[q].revision \in Nat /\ member'[q].revision \in Nat
    BY <1>t, <1>2 DEF MembershipInv, MembershipTypes, Membership
  <2>2. Inserted(q)' <=> Inserted(q)
    BY <1>1 DEF Inserted
  <2>3. RowLife(q)'
    BY <1>1, <1>2, <2>1, <2>2 DEF RowLife
  <2>4. MailLife(q)'
    BY <1>1, <1>2, <2>1 DEF MailLife
  <2> QED BY <2>3, <2>4
<1>5. KeyOfOneRow' /\ AttemptLife'
  BY <1>1, <1>2 DEF MembershipInv, KeyOfOneRow, AttemptLife
<1>6. OneSeatEach'
  BY <1>2, SeatsKept
<1> QED BY <1>3, <1>4, <1>5, <1>6 DEF MembershipInv

LEMMA BeginsInv == ASSUME NEW h \in Histories, Begins(h) PROVE MembershipInv
<1>1. \A r \in Requests :
        /\ h.ask[r] \in SUBSET {"invite", "resend", "accept", "revoke"}
        /\ request[r] = [NoRequest EXCEPT !.may = h.ask[r]]
        /\ member[r] = NoMember
  BY MembershipAssumption DEF Begins
<1>2. \A r \in Requests : /\ request[r] \in MembershipRequest
                          /\ request[r].kind = "none" /\ request[r].at = "none"
  <2>1. "none" \in Places /\ {"invite", "resend", "accept", "revoke"} \subseteq Kinds /\ "none" \in Kinds
    BY DEF Places, PlacesOf, Kinds
  <2> DEFINE fresh(may) == [NoRequest EXCEPT !.may = may]
  <2>2. ASSUME NEW may \in SUBSET Kinds
        PROVE  /\ fresh(may) \in MembershipRequest
               /\ fresh(may).kind = "none" /\ fresh(may).at = "none"
    BY <2>1 DEF NoRequest, MembershipRequest, Links, Absentee
  <2>3. \A r \in Requests : h.ask[r] \in SUBSET Kinds /\ request[r] = fresh(h.ask[r])
    BY <1>1, <2>1
  <2> HIDE DEF fresh
  <2> QED BY <2>2, <2>3
<1>3. NoMember \in Membership /\ NoMember.status = "none" /\ NoMember.customer = None
  BY DEF NoMember, Membership, Status, Links, Absentee
<1>4. request \in [Requests -> MembershipRequest] /\ member \in [Requests -> Membership]
  BY <1>1, <1>2, <1>3 DEF Begins
<1>5. MembershipTypes
  BY <1>2, <1>4, MembershipAssumption
     DEF Begins, MembershipTypes, InPlace, PlacesOf, HasLast, Rows
<1>6. \A r \in Requests : ~Exists(r)
  BY <1>1, <1>3 DEF Exists
<1>7. \A r \in Requests : RowLife(r) /\ MailLife(r)
  BY <1>1, <1>2, <1>6 DEF RowLife, MailLife, Begins
<1>8. KeyOfOneRow /\ AttemptLife
  BY <1>2, <1>6 DEF KeyOfOneRow, AttemptLife, Begins
<1>9. OneSeatEach
  BY <1>1, <1>3 DEF OneSeatEach
<1> QED BY <1>5, <1>7, <1>8, <1>9 DEF MembershipInv

\* A key belongs to one row or one recorded attempt, and each mails one link.
LEMMA MailsOnce == MembershipInv => OneMailPerKey
<1>1. SUFFICES ASSUME MembershipInv, NEW r \in mailed, NEW s \in mailed,
                      request[r].kind = request[s].kind, request[r].key = request[s].key
               PROVE  r = s
  BY DEF OneMailPerKey
<1>2. r \in Requests /\ s \in Requests /\ MailLife(r) /\ MailLife(s)
  BY <1>1 DEF MembershipInv, MembershipTypes
<1>3. CASE request[r].kind = "invite"
  BY <1>1, <1>2, <1>3 DEF MembershipInv, MailLife, KeyOfOneRow
<1>4. CASE request[r].kind = "resend"
  <2>1. \A q \in {r, s} : \E d \in delivery : d.by = q
    BY <1>1, <1>2, <1>4 DEF MembershipInv, AttemptLife
  <2>2. PICK d \in delivery, e \in delivery : d.by = r /\ e.by = s
    BY <2>1
  <2> QED BY <1>1, <1>4, <2>2 DEF MembershipInv, AttemptLife
<1> QED BY <1>2, <1>3, <1>4 DEF MailLife

----------------------------------------------------------------------------
(***************************************************************************)
(* What one step may do to one row.                                        *)
(***************************************************************************)

Facts(row) == <<row.status, row.customer, row.from, row.until, row.roles, row.revision>>

\* Nothing an authority check reads; or a counted change, which opens no closed
\* interval; or the row goes; or it is created.
RowStep(m) ==
  \/ Facts(member'[m]) = Facts(member[m])
  \/ /\ Exists(m) /\ Exists(m)'
     /\ member'[m].revision = member[m].revision + 1
     /\ member[m].until # None => member'[m].until # None
  \/ member'[m] = NoMember
  \/ ~Exists(m) /\ ~Inserted(m)

LEMMA UpdateRow ==
  ASSUME MembershipTypes, NEW m \in Requests, Exists(m), NEW new \in Membership,
         new.status # "none", new.revision = member[m].revision, Update(m, new),
         new.roles = member[m].roles, member[m].until # None => new.until # None
  PROVE  \A n \in Requests : RowStep(n)
<1>1. /\ \A n \in Requests \ {m} : member'[n] = member[n]
      /\ member'[m].customer = new.customer /\ member'[m].roles = new.roles
      /\ member'[m].status = new.status /\ member'[m].from = new.from
      /\ member'[m].until = new.until
      /\ \/ member'[m].revision = member[m].revision + 1
         \/ /\ member'[m].revision = member[m].revision
            /\ Authority(new) = Authority(member[m])
      /\ Exists(m)'
  BY UpdateKeeps
<1>2. RowStep(m)
  BY <1>1 DEF RowStep, Facts, Authority
<1> QED BY <1>1, <1>2 DEF RowStep

LEMMA SetRolesRow ==
  ASSUME MembershipTypes, NEW m \in Requests, Exists(m), NEW roles \in SUBSET Roles,
         SetRoles(m, roles)
  PROVE  \A n \in Requests : RowStep(n)
BY SetRolesKeeps DEF RowStep

LEMMA StepRow == ASSUME MembershipInv, NEW r \in Requests, Step(r)
                 PROVE  \A n \in Requests : RowStep(n)
<1>0. /\ MembershipTypes /\ request[r] \in MembershipRequest /\ InPlace(r) /\ RowLife(r)
  BY DEF MembershipInv, MembershipTypes
<1>u. ASSUME UNCHANGED member PROVE \A n \in Requests : RowStep(n)
  BY <1>u DEF RowStep
<1>1. ASSUME InviteCreate(r) PROVE \A n \in Requests : RowStep(n)
  <2>1. ~Exists(r) /\ ~Inserted(r)
    BY <1>0, <1>1 DEF InviteCreate, Is, RowLife, Inserted
  <2>2. \A n \in Requests \ {r} : member'[n] = member[n]
    BY <1>0, <1>1 DEF InviteCreate, MembershipTypes
  <2> QED BY <2>1, <2>2 DEF RowStep
<1>2. ASSUME InviteRole(r) \/ DropRole(r) PROVE \A n \in Requests : RowStep(n)
  <2>1. Exists(r) /\ {request[r].role} \in SUBSET Roles
    BY <1>0, <1>2 DEF InviteRole, DropRole, Is, RowLife, InPlace
  <2> QED BY <1>0, <1>2, <1>u, <2>1, SetRolesRow DEF InviteRole, DropRole
<1>3. ASSUME DropMember(r) PROVE \A n \in Requests : RowStep(n)
  <2>1. /\ \A n \in Requests \ {r} : member'[n] = member[n]
        /\ member'[r] \in {member[r], NoMember}
    BY <1>0, <1>3 DEF DropMember, MembershipTypes
  <2> QED BY <2>1 DEF RowStep
<1>4. ASSUME ResendRotate(r) \/ ResendRestore(r) PROVE \A n \in Requests : RowStep(n)
  <2>1. request[r].m \in Requests /\ request[r].was \in Links /\ r \in Links
    BY <1>0, <1>4 DEF ResendRotate, ResendRestore, Is, InPlace, MembershipRequest, Links
  <2>2. \/ UNCHANGED member
        \/ \E m \in Requests, l \in Links : Exists(m) /\ Update(m, [member[m] EXCEPT !.link = l])
    BY <1>4, <2>1 DEF ResendRotate, ResendRestore
  <2>3. ASSUME NEW m \in Requests, NEW l \in Links, Exists(m),
               Update(m, [member[m] EXCEPT !.link = l])
        PROVE  \A n \in Requests : RowStep(n)
    <3> DEFINE new == [member[m] EXCEPT !.link = l]
    <3>1. /\ new \in Membership /\ new.status # "none" /\ new.revision = member[m].revision
          /\ new.roles = member[m].roles /\ new.until = member[m].until
      BY <1>0, <2>3 DEF MembershipTypes, Membership, Exists
    <3>2. Update(m, new)
      BY <2>3
    <3> HIDE DEF new
    <3> QED BY <1>0, <2>3, <3>1, <3>2, UpdateRow
  <2> QED BY <1>u, <2>2, <2>3
<1>5. ASSUME AcceptWrite(r) \/ RevokeWrite(r) PROVE \A n \in Requests : RowStep(n)
  <2> DEFINE m == request[r].m
             accepted == [member[m] EXCEPT !.customer = request[r].who, !.status = "ACTIVE",
                                           !.link = None, !.from = r]
             revoked == [member[m] EXCEPT !.status = "REVOKED", !.link = None, !.until = r]
  <2>0. m \in Requests
    BY <1>0, <1>5 DEF AcceptWrite, RevokeWrite, Is, InPlace
  <2>1. /\ accepted \in Membership /\ accepted.status # "none"
        /\ accepted.revision = member[m].revision /\ accepted.roles = member[m].roles
        /\ accepted.until = member[m].until
        /\ revoked \in Membership /\ revoked.status # "none"
        /\ revoked.revision = member[m].revision /\ revoked.roles = member[m].roles
        /\ revoked.until = r
    <3>1. /\ member[m] \in Membership /\ request[r].who \in Absentee
          /\ r \in Links /\ None \in Links
      BY <1>0, <2>0 DEF MembershipTypes, MembershipRequest, Links
    <3> HIDE DEF m
    <3> QED BY <3>1 DEF Membership, Status
  <2>2. \/ UNCHANGED member
        \/ Exists(m) /\ Update(m, accepted)
        \/ Exists(m) /\ Update(m, revoked)
    BY <1>5 DEF AcceptWrite, RevokeWrite
  <2>3. r # None
    BY MembershipAssumption
  <2> HIDE DEF accepted, revoked, m
  <2> QED BY <1>0, <1>u, <2>0, <2>1, <2>2, <2>3, UpdateRow
<1>6. ASSUME \/ Arrive(r) \/ Looks(r) \/ InviteRecord(r) \/ ResendRecord(r) \/ Notify(r)
             \/ MarkQueued(r) \/ MarkFailed(r)
      PROVE  UNCHANGED member
  BY <1>0, <1>6, LooksAround
     DEF Arrive, InviteRecord, ResendRecord, Notify, MarkQueued, MarkFailed
<1> QED BY <1>1, <1>2, <1>3, <1>4, <1>5, <1>6, <1>u DEF Step, Looks

LEMMA EditsRow == ASSUME MembershipInv, NEW m \in Requests, Edits(m)
                  PROVE  \A n \in Requests : RowStep(n)
<1>0. MembershipTypes /\ Exists(m)
  BY EditsTyped DEF MembershipInv
<1>1. ASSUME NEW status \in {"ACTIVE", "SUSPENDED"}, Update(m, [member[m] EXCEPT !.status = status])
      PROVE  \A n \in Requests : RowStep(n)
  <2> DEFINE new == [member[m] EXCEPT !.status = status]
  <2>1. /\ new \in Membership /\ new.status # "none" /\ new.revision = member[m].revision
        /\ new.roles = member[m].roles /\ new.until = member[m].until
    BY <1>0 DEF MembershipTypes, Membership, Status
  <2>2. Update(m, new)
    BY <1>1
  <2> HIDE DEF new
  <2> QED BY <1>0, <2>1, <2>2, UpdateRow
<1> QED BY <1>0, <1>1, EditsTyped, SetRolesRow

\* A closed interval stays closed.
LEMMA ClosedStays ==
  ASSUME MembershipInv, NEW m \in Requests, RowStep(m), member[m].until # None
  PROVE  ~InEffect(member'[m])
<1>1. Exists(m)
  BY DEF MembershipInv, RowLife, NoMember
<1> QED BY <1>1 DEF RowStep, Facts, InEffect, NoMember

\* How a row's status and the end of its interval may move: they stay; the row goes or
\* is created; an acceptance at its last call makes it ACTIVE; a revocation closes it;
\* an administrator suspends or restores an active member.
Standing(m) ==
  \/ member'[m].status = member[m].status /\ member'[m].until = member[m].until
  \/ member'[m] = NoMember
  \/ ~Exists(m) /\ member'[m].until = None
  \/ /\ \E r \in Requests :
          Is(r, "accept", "open") /\ Is(r, "accept", "answered")' /\ request[r].m = m
     /\ member'[m].status = "ACTIVE"
  \/ member'[m].status = "REVOKED"
  \/ {member[m].status, member'[m].status} \subseteq {"ACTIVE", "SUSPENDED"}

LEMMA StepStanding == ASSUME MembershipInv, NEW r \in Requests, Step(r)
                      PROVE  \A m \in Requests : Standing(m)
<1>0. /\ MembershipTypes /\ request[r] \in MembershipRequest /\ InPlace(r) /\ RowLife(r)
  BY DEF MembershipInv, MembershipTypes
<1>u. ASSUME UNCHANGED member PROVE \A m \in Requests : Standing(m)
  BY <1>u DEF Standing
<1>1. ASSUME InviteCreate(r) PROVE \A m \in Requests : Standing(m)
  <2>1. ~Exists(r)
    BY <1>0, <1>1 DEF InviteCreate, Is, RowLife, Inserted
  <2>2. /\ \A m \in Requests \ {r} : member'[m] = member[m]
        /\ member'[r] = member[r] \/ member'[r].until = None
    BY <1>0, <1>1 DEF InviteCreate, MembershipTypes, NoMember
  <2> QED BY <2>1, <2>2 DEF Standing
<1>2. ASSUME InviteRole(r) \/ DropRole(r) PROVE \A m \in Requests : Standing(m)
  <2>1. Exists(r) /\ {request[r].role} \in SUBSET Roles
    BY <1>0, <1>2 DEF InviteRole, DropRole, Is, RowLife, InPlace
  <2>2. ASSUME NEW roles \in SUBSET Roles, SetRoles(r, roles) PROVE \A m \in Requests : Standing(m)
    BY <1>0, <2>1, <2>2, SetRolesKeeps DEF Standing
  <2> QED BY <1>2, <1>u, <2>1, <2>2 DEF InviteRole, DropRole
<1>3. ASSUME DropMember(r) PROVE \A m \in Requests : Standing(m)
  <2>1. /\ \A m \in Requests \ {r} : member'[m] = member[m]
        /\ member'[r] \in {member[r], NoMember}
    BY <1>0, <1>3 DEF DropMember, MembershipTypes
  <2> QED BY <2>1 DEF Standing
<1>4. ASSUME ResendRotate(r) \/ ResendRestore(r) PROVE \A m \in Requests : Standing(m)
  <2>1. request[r].m \in Requests /\ request[r].was \in Links /\ r \in Links
    BY <1>0, <1>4 DEF ResendRotate, ResendRestore, Is, InPlace, MembershipRequest, Links
  <2>2. \/ UNCHANGED member
        \/ \E m \in Requests, l \in Links : Exists(m) /\ Update(m, [member[m] EXCEPT !.link = l])
    BY <1>4, <2>1 DEF ResendRotate, ResendRestore
  <2>3. ASSUME NEW m \in Requests, NEW l \in Links, Exists(m),
               Update(m, [member[m] EXCEPT !.link = l])
        PROVE  \A n \in Requests : Standing(n)
    <3> DEFINE new == [member[m] EXCEPT !.link = l]
    <3>1. /\ new \in Membership /\ new.status # "none" /\ new.revision = member[m].revision
          /\ new.status = member[m].status /\ new.until = member[m].until
      BY <1>0, <2>3 DEF MembershipTypes, Membership, Exists
    <3>2. Update(m, new)
      BY <2>3
    <3> HIDE DEF new
    <3>3. /\ \A n \in Requests \ {m} : member'[n] = member[n]
          /\ member'[m].status = member[m].status /\ member'[m].until = member[m].until
      BY <1>0, <2>3, <3>1, <3>2, UpdateKeeps
    <3> QED BY <3>3 DEF Standing
  <2> QED BY <1>u, <2>2, <2>3
<1>5. ASSUME AcceptWrite(r) PROVE \A n \in Requests : Standing(n)
  <2> DEFINE m == request[r].m
             new == [member[m] EXCEPT !.customer = request[r].who, !.status = "ACTIVE",
                                      !.link = None, !.from = r]
  <2>1. m \in Requests
    BY <1>0, <1>5 DEF AcceptWrite, Is, InPlace
  <2>2. /\ new \in Membership /\ new.status = "ACTIVE" /\ new.revision = member[m].revision
    <3>1. member[m] \in Membership /\ request[r].who \in Absentee /\ r \in Links /\ None \in Links
      BY <1>0, <2>1 DEF MembershipTypes, MembershipRequest, Links
    <3> HIDE DEF m
    <3> QED BY <3>1 DEF Membership, Status
  <2>3. CASE Exists(m) /\ Update(m, new) /\ Goto(r, "answered")
    <3> HIDE DEF new
    <3>1. /\ \A n \in Requests \ {m} : member'[n] = member[n]
          /\ member'[m].status = "ACTIVE"
      BY <1>0, <2>1, <2>2, <2>3, UpdateKeeps
    <3>2. Is(r, "accept", "open") /\ Is(r, "accept", "answered")'
      BY <1>0, <1>5, <2>3 DEF AcceptWrite, Is, Goto, MembershipTypes, MembershipRequest
    <3> QED BY <3>1, <3>2 DEF Standing
  <2> QED BY <1>5, <1>u, <2>3 DEF AcceptWrite
<1>6. ASSUME RevokeWrite(r) PROVE \A n \in Requests : Standing(n)
  <2> DEFINE m == request[r].m
             new == [member[m] EXCEPT !.status = "REVOKED", !.link = None, !.until = r]
  <2>1. m \in Requests
    BY <1>0, <1>6 DEF RevokeWrite, Is, InPlace
  <2>2. new \in Membership /\ new.status = "REVOKED" /\ new.revision = member[m].revision
    <3>1. member[m] \in Membership /\ r \in Links /\ None \in Links
      BY <1>0, <2>1 DEF MembershipTypes, Links
    <3> HIDE DEF m
    <3> QED BY <3>1 DEF Membership, Status
  <2>3. CASE Exists(m) /\ Update(m, new)
    <3> HIDE DEF new
    <3>1. /\ \A n \in Requests \ {m} : member'[n] = member[n]
          /\ member'[m].status = "REVOKED"
      BY <1>0, <2>1, <2>2, <2>3, UpdateKeeps
    <3> QED BY <3>1 DEF Standing
  <2> QED BY <1>6, <1>u, <2>3 DEF RevokeWrite
<1>7. ASSUME \/ Arrive(r) \/ Looks(r) \/ InviteRecord(r) \/ ResendRecord(r) \/ Notify(r)
             \/ MarkQueued(r) \/ MarkFailed(r)
      PROVE  UNCHANGED member
  BY <1>0, <1>7, LooksAround
     DEF Arrive, InviteRecord, ResendRecord, Notify, MarkQueued, MarkFailed
<1> QED BY <1>1, <1>2, <1>3, <1>4, <1>5, <1>6, <1>7, <1>u DEF Step, Looks

LEMMA EditsStanding == ASSUME MembershipInv, NEW m \in Requests, Edits(m)
                       PROVE  \A n \in Requests : Standing(n)
<1>0. MembershipTypes /\ Exists(m)
  BY EditsTyped DEF MembershipInv
<1>1. CASE EditRole(m)
  <2>1. PICK role \in Roles :
          SetRoles(m, IF role \in member[m].roles THEN member[m].roles \ {role}
                      ELSE member[m].roles \cup {role})
    BY <1>1 DEF EditRole
  <2>2. PICK roles \in SUBSET Roles : SetRoles(m, roles)
    BY <1>0, <2>1 DEF MembershipTypes, Membership
  <2> QED BY <1>0, <2>2, SetRolesKeeps DEF Standing
<1>2. CASE EditStatus(m)
  <2>1. PICK status \in {"ACTIVE", "SUSPENDED"} : Update(m, [member[m] EXCEPT !.status = status])
    BY <1>2 DEF EditStatus
  <2> DEFINE new == [member[m] EXCEPT !.status = status]
  <2>2. new \in Membership /\ new.status = status /\ new.revision = member[m].revision
    BY <1>0 DEF MembershipTypes, Membership, Status
  <2>3. Update(m, new) /\ member[m].status \in {"ACTIVE", "SUSPENDED"}
    BY <1>2, <2>1 DEF EditStatus
  <2> HIDE DEF new
  <2>4. /\ \A n \in Requests \ {m} : member'[n] = member[n]
        /\ member'[m].status = status
    BY <1>0, <2>2, <2>3, UpdateKeeps
  <2> QED BY <2>3, <2>4 DEF Standing
<1> QED BY <1>1, <1>2 DEF Edits

----------------------------------------------------------------------------
(***************************************************************************)
(* Contexts: what a resolution may rely on.                                *)
(***************************************************************************)

ResolutionPlaces ==
  {"new", "asked", "called", "known", "assured", "named", "proved", "related", "member",
   "roled", "attested", "issued", "refused"}
Resolution ==
  [at : ResolutionPlaces, who : Absentee, until : Nat, started : Nat, relation : Nat, m : Links,
   revision : Nat, roles : SUBSET Roles, whole : BOOLEAN, attested : Nat,
   again : SUBSET {"organisation", "member"}, expires : Nat]

ContextTypes == now \in Nat /\ resolution \in [Resolutions -> Resolution]

\* The relationship read has not changed while its revision stands.
KnowsRelation(x) ==
  resolution[x].at \in {"related", "member", "roled", "attested", "issued"} =>
    /\ organisation.revision >= resolution[x].relation
    /\ organisation.revision = resolution[x].relation => Related

\* Nor has the membership read; a row that was dropped does not come back.
KnowsMembership(x) ==
  LET res == resolution[x] IN
  res.at \in {"member", "roled", "attested", "issued"} =>
    /\ res.m \in Requests /\ Inserted(res.m) /\ res.revision >= 1
    /\ Exists(res.m) => member[res.m].revision >= res.revision
    /\ member[res.m].revision = res.revision =>
         Usable(res.m) /\ member[res.m].customer = res.who

\* What was not true together when the roles were read shows in a revision for
\* ever, so that one of the second reads refuses.
KnowsRoles(x) ==
  LET res == resolution[x] IN
  res.at \in {"roled", "attested", "issued"} =>
    /\ member[res.m].revision = res.revision => member[res.m].roles = res.roles
    /\ ~res.whole =>
         \/ organisation.revision # res.relation /\ "organisation" \notin res.again
         \/ member[res.m].revision # res.revision /\ "member" \notin res.again

ReadTwice(x) ==
  /\ resolution[x].at = "issued" => resolution[x].again = {"organisation", "member"}
  /\ resolution[x].at \notin {"attested", "issued", "refused"} => resolution[x].again = {}

ContextInv ==
  /\ MembershipInv /\ ContextTypes
  /\ \A x \in Resolutions :
       KnowsRelation(x) /\ KnowsMembership(x) /\ KnowsRoles(x) /\ ReadTwice(x)
\* What becomes of the rows leaves every resolution right about what it knows.
LEMMA RowsMoveOn ==
  ASSUME ContextInv, MembershipInv', UNCHANGED contextVars,
         \A m \in Requests : RowStep(m) /\ (Inserted(m) => Inserted(m)'),
         \/ UNCHANGED organisation
         \/ organisation'.revision = organisation.revision + 1
  PROVE  ContextInv'
<1>1. resolution' = resolution /\ now' = now
  BY DEF contextVars
<1>2. ASSUME NEW x \in Resolutions
      PROVE  KnowsRelation(x)' /\ KnowsMembership(x)' /\ KnowsRoles(x)' /\ ReadTwice(x)'
  <2>0. PICK res \in Resolution : res = resolution[x] /\ resolution'[x] = res
    BY <1>1 DEF ContextInv, ContextTypes
  <2>1. /\ res = resolution[x] /\ resolution'[x] = res /\ organisation.revision \in Nat
        /\ KnowsRelation(x) /\ KnowsMembership(x) /\ KnowsRoles(x) /\ ReadTwice(x)
    BY <2>0 DEF ContextInv, MembershipInv, MembershipTypes
  <2>2. res.relation \in Nat /\ res.revision \in Nat /\ res.m \in Links
    BY DEF Resolution
  <2>3. KnowsRelation(x)'
    BY <2>1, <2>2 DEF KnowsRelation, Related
  <2>4. ReadTwice(x)'
    BY <2>1 DEF ReadTwice
  <2>5. ASSUME res.at \in {"member", "roled", "attested", "issued"}
        PROVE  /\ res.m \in Requests /\ Inserted(res.m)' /\ res.revision >= 1
               /\ Exists(res.m)' => member'[res.m].revision >= res.revision
               /\ \/ Facts(member'[res.m]) = Facts(member[res.m])
                  \/ member'[res.m].revision # res.revision
               /\ member[res.m].revision # res.revision => member'[res.m].revision # res.revision
    <3>1. /\ res.m \in Requests /\ Inserted(res.m) /\ res.revision >= 1
          /\ Exists(res.m) => member[res.m].revision >= res.revision
      BY <2>1, <2>5 DEF KnowsMembership
    <3>2. member[res.m].revision \in Nat /\ RowStep(res.m)
      BY <3>1 DEF ContextInv, MembershipInv, MembershipTypes, Membership
    <3>3. CASE Facts(member'[res.m]) = Facts(member[res.m])
      BY <3>1, <3>3 DEF Facts, Exists
    <3>4. CASE /\ Exists(res.m) /\ Exists(res.m)'
               /\ member'[res.m].revision = member[res.m].revision + 1
      BY <2>2, <3>1, <3>2, <3>4
    <3>5. CASE member'[res.m] = NoMember
      BY <2>2, <3>1, <3>5 DEF NoMember, Exists
    <3> QED BY <3>1, <3>2, <3>3, <3>4, <3>5 DEF RowStep
  <2>6. KnowsMembership(x)'
    BY <2>1, <2>5 DEF KnowsMembership, Facts, Usable, InEffect
  <2>7. ASSUME res.at \in {"roled", "attested", "issued"}
        PROVE  organisation.revision # res.relation => organisation'.revision # res.relation
    BY <2>1, <2>2, <2>7 DEF KnowsRelation
  <2>8. KnowsRoles(x)'
    <3> SUFFICES ASSUME res.at \in {"roled", "attested", "issued"}
                 PROVE  /\ member'[res.m].revision = res.revision => member'[res.m].roles = res.roles
                        /\ ~res.whole =>
                             \/ organisation'.revision # res.relation /\ "organisation" \notin res.again
                             \/ member'[res.m].revision # res.revision /\ "member" \notin res.again
      BY <2>1 DEF KnowsRoles
    <3>1. /\ member[res.m].revision = res.revision => member[res.m].roles = res.roles
          /\ ~res.whole =>
               \/ organisation.revision # res.relation /\ "organisation" \notin res.again
               \/ member[res.m].revision # res.revision /\ "member" \notin res.again
      BY <2>1 DEF KnowsRoles
    <3> QED BY <2>5, <2>7, <3>1 DEF Facts
  <2> QED BY <2>3, <2>4, <2>6, <2>8
<1>3. ContextTypes'
  BY <1>1 DEF ContextInv, ContextTypes
<1> QED BY <1>2, <1>3 DEF ContextInv

\* The knowledge a resolution with this local state would have.
Right(res) ==
  /\ res \in Resolution
  /\ res.at \in {"related", "member", "roled", "attested", "issued"} =>
       /\ organisation.revision >= res.relation
       /\ organisation.revision = res.relation => Related
  /\ res.at \in {"member", "roled", "attested", "issued"} =>
       /\ res.m \in Requests /\ Inserted(res.m) /\ res.revision >= 1
       /\ Exists(res.m) => member[res.m].revision >= res.revision
       /\ member[res.m].revision = res.revision =>
            Usable(res.m) /\ member[res.m].customer = res.who
  /\ res.at \in {"roled", "attested", "issued"} =>
       /\ member[res.m].revision = res.revision => member[res.m].roles = res.roles
       /\ ~res.whole =>
            \/ organisation.revision # res.relation /\ "organisation" \notin res.again
            \/ member[res.m].revision # res.revision /\ "member" \notin res.again
  /\ res.at = "issued" => res.again = {"organisation", "member"}
  /\ res.at \notin {"attested", "issued", "refused"} => res.again = {}

LEMMA RightIsKnown ==
  ASSUME NEW x \in Resolutions
  PROVE  /\ resolution[x] \in Resolution /\ KnowsRelation(x) /\ KnowsMembership(x)
              /\ KnowsRoles(x) /\ ReadTwice(x)
         <=> Right(resolution[x])
BY DEF Right, KnowsRelation, KnowsMembership, KnowsRoles, ReadTwice

\* A step of a resolution to a state it is right about.
LEMMA ReadsRight ==
  ASSUME ContextInv, NEW x \in Resolutions, NEW new, Reads(x, new), Right(new)
  PROVE  ContextInv'
<1>1. /\ UNCHANGED <<organisation, member, request, now>> /\ UNCHANGED vars
      /\ resolution' = [resolution EXCEPT ![x] = new]
  BY DEF Reads, vars
<1>2. /\ resolution' \in [Resolutions -> Resolution] /\ resolution'[x] = new
      /\ \A y \in Resolutions \ {x} : resolution'[y] = resolution[y]
  BY <1>1 DEF ContextInv, ContextTypes, Right
<1>3. MembershipInv'
  BY <1>1 DEF vars, ContextInv, MembershipInv, MembershipTypes, InPlace, HasLast, Rows, RowLife,
     MailLife, KeyOfOneRow, AttemptLife, OneSeatEach, Exists, Inserted
<1>4. \A y \in Resolutions : Right(resolution[y])'
  <2>1. \A y \in Resolutions : Right(resolution'[y])
    BY <1>2, RightIsKnown DEF ContextInv, ContextTypes
  <2>2. ASSUME NEW y \in Resolutions PROVE Right(resolution[y])'
    BY <1>1, <2>1 DEF Right, Related, Inserted, Exists, Usable
  <2> QED BY <2>2
<1>5. \A y \in Resolutions : (KnowsRelation(y) /\ KnowsMembership(y) /\ KnowsRoles(y) /\ ReadTwice(y))'
  BY <1>4 DEF Right, KnowsRelation, KnowsMembership, KnowsRoles, ReadTwice
<1> QED BY <1>1, <1>2, <1>3, <1>5 DEF ContextInv, ContextTypes

LEMMA LeastOfTwo ==
  ASSUME NEW a \in Nat, NEW b \in Nat
  PROVE  /\ Least({a, b}) \in Nat /\ Least({a, b}) <= a /\ Least({a, b}) <= b
         /\ Least({a, b}) \in {a, b}
<1>1. \E e \in {a, b} : \A f \in {a, b} : e <= f
  <2>1. CASE a <= b
    BY <2>1
  <2>2. CASE b <= a
    BY <2>2
  <2> QED BY <2>1, <2>2
<1>2. Least({a, b}) \in {a, b} /\ \A f \in {a, b} : Least({a, b}) <= f
  BY <1>1 DEF Least
<1> QED BY <1>2


LEMMA VerifiedRight ==
  ASSUME ContextInv, NEW x \in Resolutions, NEW ends \in SUBSET Nat,
         NEW from \in {"asked", "called", "known", "assured", "named"},
         NEW to \in {"called", "known", "assured", "named", "proved"},
         Verified(x, from, to, ends)
  PROVE  \E new : Reads(x, new) /\ Right(new)
<1>1. Right(resolution[x]) /\ resolution[x] \in Resolution /\ resolution[x].at = from
  BY RightIsKnown DEF ContextInv, ContextTypes, Verified
<1>2. CASE Refused(x)
  <2>1. Right([resolution[x] EXCEPT !.at = "refused"])
    BY <1>1 DEF Right, Resolution, ResolutionPlaces
  <2> QED BY <1>2, <2>1 DEF Refused
<1>3. ASSUME NEW e \in ends,
             Reads(x, [resolution[x] EXCEPT !.at = to, !.until = Least({resolution[x].until, e})])
      PROVE  \E new : Reads(x, new) /\ Right(new)
  <2>1. Least({resolution[x].until, e}) \in Nat
    BY <1>1, LeastOfTwo DEF Resolution
  <2> DEFINE until == Least({resolution[x].until, e})
  <2> HIDE DEF until
  <2>2. Right([resolution[x] EXCEPT !.at = to, !.until = until])
    BY <1>1, <2>1 DEF Right, Resolution, ResolutionPlaces, until
  <2> QED BY <1>3, <2>2 DEF until
<1> QED BY <1>2, <1>3 DEF Verified

LEMMA ResolveRight ==
  ASSUME ContextInv, NEW x \in Resolutions, Resolve(x)
  PROVE  \E new : Reads(x, new) /\ Right(new)
<1>0. /\ resolution[x] \in Resolution /\ Right(resolution[x]) /\ now \in Nat
      /\ MembershipInv /\ MembershipTypes
      /\ organisation.revision \in Nat
      /\ Later \in SUBSET Nat /\ resolution[x].started .. MaxNow + 1 \in SUBSET Nat
      /\ now .. MaxNow + 1 \in SUBSET Nat
  <2>1. /\ resolution[x] \in Resolution /\ Right(resolution[x]) /\ now \in Nat
        /\ MembershipInv /\ MembershipTypes /\ organisation.revision \in Nat
    BY RightIsKnown DEF ContextInv, ContextTypes, MembershipInv, MembershipTypes
  <2>2. resolution[x].started \in Nat
    BY <2>1 DEF Resolution
  <2> QED BY <2>1, <2>2, ContextAssumption DEF Later
<1>r. ASSUME Refused(x) PROVE \E new : Reads(x, new) /\ Right(new)
  <2>1. Right([resolution[x] EXCEPT !.at = "refused"])
    BY <1>0 DEF Right, Resolution, ResolutionPlaces
  <2> QED BY <1>r, <2>1 DEF Refused
<1>1. CASE Begin(x)
  <2>1. PICK c \in Customers : Reads(x, [NoResolution EXCEPT !.at = "asked", !.who = c,
                                          !.started = now, !.until = now + Lifetime])
    BY <1>1 DEF Begin
  <2>2. now + Lifetime \in Nat
    BY <1>0, ContextAssumption
  <2>3. Right([NoResolution EXCEPT !.at = "asked", !.who = c, !.started = now,
                                   !.until = now + Lifetime])
    BY <1>0, <2>2 DEF NoResolution, Right, Resolution, ResolutionPlaces, Absentee, Links
  <2> QED BY <2>1, <2>3
<1>2. CASE VerifyCaller(x) \/ VerifyToken(x) \/ ResolvePrincipal(x) \/ BindEstate(x)
  BY <1>0, <1>2, VerifiedRight DEF VerifyCaller, VerifyToken, ResolvePrincipal, BindEstate
<1>3. CASE Assure(x)
  <2>1. CASE Verified(x, "known", "assured", resolution[x].started .. MaxNow + 1)
    BY <1>0, <2>1, VerifiedRight
  <2>2. CASE /\ resolution[x].at = "known"
             /\ Reads(x, [resolution[x] EXCEPT !.at = "assured"])
    <3>1. Right([resolution[x] EXCEPT !.at = "assured"])
      BY <1>0, <2>2 DEF Right, Resolution, ResolutionPlaces
    <3> QED BY <2>2, <3>1
  <2> QED BY <1>3, <2>1, <2>2 DEF Assure
<1>4. CASE ReadOrganisation(x)
  <2>1. CASE /\ Related /\ resolution[x].at = "proved"
             /\ Reads(x, [resolution[x] EXCEPT !.at = "related", !.relation = organisation.revision])
    <3> DEFINE new == [resolution[x] EXCEPT !.at = "related", !.relation = organisation.revision]
    <3>1. resolution[x].again = {}
      BY <1>0, <2>1 DEF Right
    <3>2. /\ new \in Resolution /\ new.at = "related" /\ new.relation = organisation.revision
          /\ new.again = {}
      BY <1>0, <3>1 DEF Resolution, ResolutionPlaces
    <3>3. organisation.revision >= organisation.revision
      BY <1>0
    <3> HIDE DEF new
    <3>4. Right(new)
      BY <2>1, <3>2, <3>3 DEF Right
    <3> QED BY <2>1, <3>4 DEF new
  <2> QED BY <1>r, <1>4, <2>1 DEF ReadOrganisation
<1>5. CASE ReadMembership(x)
  <2>1. ASSUME NEW m \in Requests, RowsOf(resolution[x].who) = {m}, Usable(m),
               resolution[x].at = "related",
               Reads(x, [resolution[x] EXCEPT !.at = "member", !.m = m,
                                              !.revision = member[m].revision])
        PROVE  \E new : Reads(x, new) /\ Right(new)
    <3>1. member[m].customer = resolution[x].who
      BY <2>1 DEF RowsOf
    <3>2. Exists(m) /\ RowLife(m) /\ m \in Links
      BY <1>0, <2>1 DEF Usable, Exists, MembershipInv, Links
    <3>3. Inserted(m) /\ member[m].revision >= 1 /\ member[m].revision \in Nat
      BY <1>0, <3>2 DEF RowLife, MembershipTypes, Membership
    <3> DEFINE new == [resolution[x] EXCEPT !.at = "member", !.m = m,
                                            !.revision = member[m].revision]
    <3>4. /\ resolution[x].again = {}
          /\ organisation.revision >= resolution[x].relation
          /\ organisation.revision = resolution[x].relation => Related
      BY <1>0, <2>1 DEF Right
    <3>5. /\ new \in Resolution /\ new.at = "member" /\ new.m = m /\ new.who = resolution[x].who
          /\ new.revision = member[m].revision /\ new.relation = resolution[x].relation
          /\ new.again = {}
      BY <1>0, <3>2, <3>3, <3>4 DEF Resolution, ResolutionPlaces
    <3> HIDE DEF new
    <3>6. Right(new)
      BY <2>1, <3>1, <3>3, <3>4, <3>5 DEF Right
    <3> QED BY <2>1, <3>6 DEF new
  <2>2. CASE \E m \in Requests : RowsOf(resolution[x].who) = {m} /\ Usable(m)
    <3>1. PICK m \in Requests : RowsOf(resolution[x].who) = {m} /\ Usable(m)
      BY <2>2
    <3>2. /\ resolution[x].at = "related"
          /\ Reads(x, [resolution[x] EXCEPT !.at = "member", !.m = m,
                                            !.revision = member[m].revision])
      BY <1>5, <2>2, <3>1 DEF ReadMembership
    <3> QED BY <2>1, <3>1, <3>2
  <2>3. CASE ~\E m \in Requests : RowsOf(resolution[x].who) = {m} /\ Usable(m)
    BY <1>r, <1>5, <2>3 DEF ReadMembership
  <2> QED BY <2>2, <2>3
<1>6. CASE ReadRoles(x)
  <2> DEFINE res == resolution[x]
             new == [res EXCEPT !.at = "roled", !.roles = member[res.m].roles, !.whole = Together(res)]
  <2>0. res \in Resolution /\ Right(res)
    BY <1>0
  <2>1. CASE res.at = "member" /\ Reads(x, new)
    <3>1. /\ res.m \in Requests /\ res.again = {}
          /\ organisation.revision = res.relation => Related
          /\ member[res.m].revision = res.revision => Usable(res.m)
      BY <2>0, <2>1 DEF Right
    <3>2. member[res.m].roles \in SUBSET Roles /\ Together(res) \in BOOLEAN
      BY <1>0, <3>1 DEF MembershipTypes, Membership, Together
    <3>3. ~Together(res) => \/ organisation.revision # res.relation
                            \/ member[res.m].revision # res.revision
      BY <3>1 DEF Together
    <3>4. /\ new \in Resolution /\ new.at = "roled" /\ new.roles = member[res.m].roles
          /\ (new.whole <=> Together(res)) /\ new.who = res.who
          /\ new.relation = res.relation /\ new.m = res.m /\ new.revision = res.revision
          /\ new.again = {}
      BY <2>0, <3>1, <3>2 DEF Resolution, ResolutionPlaces
    <3> HIDE DEF new, res
    <3>5. Right(new)
      BY <2>0, <2>1, <3>1, <3>3, <3>4 DEF Right
    <3> QED BY <2>1, <3>5
  <2> QED BY <1>r, <1>6, <2>1 DEF ReadRoles
<1>7. CASE Attest(x)
  <2>1. ASSUME NEW e \in now .. MaxNow + 1, resolution[x].at = "roled",
               Reads(x, [resolution[x] EXCEPT !.at = "attested", !.attested = e])
        PROVE  \E new : Reads(x, new) /\ Right(new)
    <3>1. e \in Nat
      BY <1>0
    <3>2. Right([resolution[x] EXCEPT !.at = "attested", !.attested = e])
      BY <1>0, <2>1, <3>1 DEF Right, Resolution, ResolutionPlaces
    <3> QED BY <2>1, <3>2
  <2> QED BY <1>r, <1>7, <2>1 DEF Attest
<1>8. CASE ReadOrganisationAgain(x) \/ ReadMembershipAgain(x)
  <2> DEFINE res == resolution[x]
             new(read) == [res EXCEPT !.again = res.again \cup {read}]
  <2>0. res \in Resolution /\ Right(res) /\ res.at = "attested"
    BY <1>0, <1>8 DEF ReadOrganisationAgain, ReadMembershipAgain
  <2>1. \A read \in {"organisation", "member"} :
          /\ new(read) \in Resolution /\ new(read).at = "attested" /\ new(read).who = res.who
          /\ new(read).relation = res.relation /\ new(read).m = res.m
          /\ new(read).revision = res.revision /\ new(read).roles = res.roles
          /\ new(read).whole = res.whole /\ new(read).again = res.again \cup {read}
    BY <2>0 DEF Resolution, ResolutionPlaces
  <2>2. \/ Refused(x)
        \/ organisation.revision = res.relation /\ Reads(x, new("organisation"))
        \/ member[res.m].revision = res.revision /\ Reads(x, new("member"))
    BY <1>8 DEF ReadOrganisationAgain, ReadMembershipAgain
  <2> HIDE DEF new, res
  <2>3. CASE organisation.revision = res.relation /\ Reads(x, new("organisation"))
    <3>1. Right(new("organisation"))
      BY <2>0, <2>1, <2>3 DEF Right
    <3> QED BY <2>3, <3>1
  <2>4. CASE member[res.m].revision = res.revision /\ Reads(x, new("member"))
    <3>1. Right(new("member"))
      BY <2>0, <2>1, <2>4 DEF Right
    <3> QED BY <2>4, <3>1
  <2> QED BY <1>r, <2>2, <2>3, <2>4
<1>9. CASE Issue(x)
  <2> DEFINE earliest == Least(Expiries(resolution[x]))
  <2>1. earliest \in Nat
    BY <1>0, LeastOfTwo DEF Expiries, Resolution
  <2>2. CASE /\ resolution[x].at = "attested" /\ resolution[x].again = {"organisation", "member"}
             /\ Reads(x, [resolution[x] EXCEPT !.at = "issued", !.expires = earliest])
    <3> HIDE DEF earliest
    <3>1. Right([resolution[x] EXCEPT !.at = "issued", !.expires = earliest])
      BY <1>0, <2>1, <2>2 DEF Right, Resolution, ResolutionPlaces
    <3> QED BY <2>2, <3>1
  <2> QED BY <1>r, <1>9, <2>2 DEF Issue
<1> QED BY <1>1, <1>2, <1>3, <1>4, <1>5, <1>6, <1>7, <1>8, <1>9 DEF Resolve

LEMMA ContextBegins == ContextInit => ContextInv
<1>1. SUFFICES ASSUME ContextInit PROVE ContextInv
  OBVIOUS
<1>2. MembershipInv
  BY <1>1, BeginsInv DEF ContextInit
<1>3. \A x \in Resolutions : resolution[x] \in {NoResolution, [NoResolution EXCEPT !.at = "refused"]}
  BY <1>1 DEF ContextInit
<1>4. /\ NoResolution \in Resolution /\ NoResolution.at = "new" /\ NoResolution.again = {}
      /\ [NoResolution EXCEPT !.at = "refused"] \in Resolution
      /\ [NoResolution EXCEPT !.at = "refused"].at = "refused"
  BY DEF NoResolution, Resolution, ResolutionPlaces, Absentee, Links
<1>5. ContextTypes
  BY <1>1, <1>4 DEF ContextInit, ContextTypes
<1>6. \A x \in Resolutions : Right(resolution[x])
  BY <1>3, <1>4 DEF Right
<1> QED BY <1>2, <1>5, <1>6, RightIsKnown DEF ContextInv

\* Each way the rows may move while a resolution waits.
LEMMA ContextSteps ==
  ASSUME ContextInv, ContextNext
  PROVE  /\ ContextInv'
         /\ \A m \in Requests : RowStep(m)
<1>0. MembershipInv /\ organisation.revision \in Nat
  BY DEF ContextInv, MembershipInv, MembershipTypes
<1>1. ASSUME NEW r \in Requests, Step(r), UNCHANGED contextVars
      PROVE  ContextInv' /\ \A m \in Requests : RowStep(m)
  <2>1. MembershipInv' /\ \A m \in Requests : RowStep(m) /\ (Inserted(m) => Inserted(m)')
    BY <1>0, <1>1, StepInv, StepRow, StaysInserted DEF MembershipInv
  <2>2. UNCHANGED organisation
    BY <1>1 DEF Step, Arrive, Crash, InviteOrganisation, InviteReplay, InviteExisting,
       InviteCreate, InviteRole, InviteRecord, DropRole, DropMember, ResendFind, ResendReplay,
       ResendNumber, ResendRotate, ResendRecord, ResendRestore, Notify, MarkQueued, MarkFailed,
       AcceptFind, AcceptOnce, AcceptOrganisation, AcceptWrite, RevokeFind, RevokeWrite
  <2> QED BY <1>1, <2>1, <2>2, RowsMoveOn
<1>2. ASSUME Elsewhere, UNCHANGED contextVars
      PROVE  ContextInv' /\ \A m \in Requests : RowStep(m)
  <2>1. MembershipInv'
    BY <1>0, <1>2, ElsewhereInv
  <2>2. /\ UNCHANGED <<member, request>>
        /\ UNCHANGED organisation \/ organisation'.revision = organisation.revision + 1
    BY <1>2 DEF Elsewhere, OrganisationStatus, Lapse
  <2>3. \A m \in Requests : RowStep(m) /\ (Inserted(m) => Inserted(m)')
    BY <2>2 DEF RowStep, Inserted
  <2> QED BY <1>2, <2>1, <2>2, <2>3, RowsMoveOn
<1>3. ASSUME NEW m \in Requests, EditRole(m) \/ EditStatus(m)
      PROVE  ContextInv' /\ \A n \in Requests : RowStep(n)
  <2>1. MembershipInv' /\ \A n \in Requests : RowStep(n)
    BY <1>0, <1>3, EditsInv, EditsRow DEF Edits
  <2>2. UNCHANGED <<organisation, request, contextVars>>
    BY <1>0, <1>3, EditsTyped DEF Edits
  <2>3. \A n \in Requests : Inserted(n) => Inserted(n)'
    BY <2>2 DEF Inserted
  <2> QED BY <2>1, <2>2, <2>3, RowsMoveOn
<1>4. ASSUME NEW x \in Resolutions, Resolve(x)
      PROVE  ContextInv' /\ \A m \in Requests : RowStep(m)
  <2>1. PICK new : Reads(x, new) /\ Right(new)
    BY <1>4, ResolveRight
  <2>2. ContextInv'
    BY <2>1, ReadsRight
  <2> QED BY <2>1, <2>2 DEF Reads, vars, RowStep
<1>5. ASSUME Tick PROVE ContextInv' /\ \A m \in Requests : RowStep(m)
  <2>1. /\ UNCHANGED <<organisation, member, delivery, mailed, lapsed, request, faults, edits>>
        /\ UNCHANGED resolution /\ now' \in Nat
    BY <1>5 DEF Tick, vars, ContextInv, ContextTypes
  <2>2. MembershipInv'
    BY <2>1 DEF ContextInv, MembershipInv, MembershipTypes, InPlace, HasLast, Rows, RowLife,
       MailLife, KeyOfOneRow, AttemptLife, OneSeatEach, Exists, Inserted
  <2>3. \A x \in Resolutions : (KnowsRelation(x) /\ KnowsMembership(x) /\ KnowsRoles(x) /\ ReadTwice(x))'
    BY <2>1 DEF ContextInv, KnowsRelation, KnowsMembership, KnowsRoles, ReadTwice,
       Related, Inserted, Exists, Usable
  <2> QED BY <2>1, <2>2, <2>3 DEF ContextInv, ContextTypes, RowStep
<1> QED BY <1>1, <1>2, <1>3, <1>4, <1>5 DEF ContextNext, MembershipNext, Elsewhere

LEMMA ContextInductive == ContextInv /\ [ContextNext]_<<vars, contextVars>> => ContextInv'
<1>1. CASE UNCHANGED <<vars, contextVars>>
  BY <1>1 DEF vars, contextVars, ContextInv, ContextTypes, KnowsRelation, KnowsMembership,
     KnowsRoles, ReadTwice, Related, Usable, MembershipInv, MembershipTypes, InPlace, HasLast,
     Rows, RowLife, MailLife, KeyOfOneRow, AttemptLife, OneSeatEach, Exists, Inserted
<1> QED BY <1>1, ContextSteps

\* A closed interval belongs to no invitation still open.
Shut == \A m \in Requests : member[m].until # None => member[m].status # "INVITED"

\* Every step moves a row's standing in one of those ways, and no acceptance finds a
\* row whose interval is closed.
LEMMA StandingSteps ==
  ASSUME ContextInv, Shut, ContextNext
  PROVE  /\ \A m \in Requests : Standing(m)
         /\ \A m, r \in Requests :
              /\ member[m].until # None
              /\ Is(r, "accept", "asked") /\ Is(r, "accept", "found")'
              => request'[r].m # m
<1> DEFINE Finds(r) == Is(r, "accept", "asked") /\ Is(r, "accept", "found")'
           Goal == /\ \A m \in Requests : Standing(m)
                   /\ \A m, r \in Requests :
                        member[m].until # None /\ Finds(r) => request'[r].m # m
<1>0. MembershipInv /\ MembershipTypes
  BY DEF ContextInv, MembershipInv
<1>q. ASSUME UNCHANGED request PROVE \A r \in Requests : ~Finds(r)
  BY <1>q DEF Is
<1>1. ASSUME NEW q \in Requests, Step(q) PROVE Goal
  <2>1. \A m \in Requests : Standing(m)
    BY <1>0, <1>1, StepStanding
  <2>2. ASSUME NEW m \in Requests, NEW r \in Requests, member[m].until # None, Finds(r)
        PROVE  request'[r].m # m
    <3>1. r = q
      BY <1>0, <1>1, <2>2, StepOnward DEF Onward, Is
    <3>2. AcceptFind(q)
      <4>1. request[q].kind = "accept" /\ request[q].at = "asked"
        BY <2>2, <3>1 DEF Is
      <4>2. ~Arrive(q)
        BY <1>0, <4>1 DEF Arrive, InPlace, MembershipTypes
      <4>3. ~Crash(q)
        <5>1. Crash(q) => request'[q].at = "gone"
          BY <1>0, <4>1, GoesOnward DEF Crash
        <5> QED BY <2>2, <3>1, <5>1 DEF Is
      <4> QED
        BY <1>1, <4>1, <4>2, <4>3
           DEF Step, Is, InviteOrganisation, InviteReplay, InviteExisting, InviteCreate,
           InviteRole, InviteRecord, DropRole, DropMember, ResendFind, ResendReplay,
           ResendNumber, ResendRotate, ResendRecord, ResendRestore, Notify, MarkQueued,
           MarkFailed, AcceptOnce, AcceptOrganisation, AcceptWrite, RevokeFind, RevokeWrite
    <3> DEFINE found == {n \in Requests :
                           member[n].status = "INVITED" /\ member[n].link = request[q].was}
    <3>3. found # {} /\ request'[q].m = CHOOSE n \in found : TRUE
      BY <1>0, <2>2, <3>1, <3>2 DEF AcceptFind, Is, MembershipTypes, MembershipRequest
    <3>4. member[request'[q].m].status = "INVITED"
      BY <3>3
    <3> QED BY <2>2, <3>1, <3>4 DEF Shut
  <2> QED BY <2>1, <2>2
<1>2. ASSUME UNCHANGED <<member, request>> PROVE Goal
  BY <1>2, <1>q DEF Standing
<1>3. ASSUME NEW m \in Requests, EditRole(m) \/ EditStatus(m) PROVE Goal
  <2>1. \A n \in Requests : Standing(n)
    BY <1>0, <1>3, EditsStanding DEF Edits
  <2>2. UNCHANGED request
    BY <1>0, <1>3, EditsTyped DEF Edits
  <2> QED BY <2>1, <2>2, <1>q
<1>4. ASSUME NEW x \in Resolutions, Resolve(x) PROVE UNCHANGED <<member, request>>
  BY <1>4, ResolveRight DEF Reads, vars
<1>5. ASSUME Elsewhere \/ Tick PROVE UNCHANGED <<member, request>>
  BY <1>5 DEF Elsewhere, OrganisationStatus, Lapse, Tick, vars
<1> HIDE DEF Goal
<1>6. Goal
  BY <1>1, <1>2, <1>3, <1>4, <1>5 DEF ContextNext, MembershipNext, Elsewhere
<1> QED BY <1>6 DEF Goal

LEMMA ShutInductive == ContextInv /\ Shut /\ [ContextNext]_<<vars, contextVars>> => Shut'
<1>1. ASSUME Shut, UNCHANGED <<vars, contextVars>> PROVE Shut'
  BY <1>1 DEF vars, Shut
<1>2. ASSUME ContextInv, Shut, ContextNext PROVE Shut'
  <2> SUFFICES ASSUME NEW m \in Requests, member'[m].until # None
               PROVE  member'[m].status # "INVITED"
    BY DEF Shut
  <2>1. Standing(m) /\ (member[m].until # None => member[m].status # "INVITED")
    BY <1>2, StandingSteps DEF Shut
  <2>2. member'[m] # NoMember
    BY DEF NoMember
  <2> QED BY <2>1, <2>2 DEF Standing
<1> QED BY <1>1, <1>2

----------------------------------------------------------------------------
(***************************************************************************)
(* The theorems.                                                           *)
(***************************************************************************)

\* What the resolutions rely on holds throughout, however the requests, the
\* edits and the clock interleave with their reads.
THEOREM ContextInvariant == ContextSpec => []ContextInv
BY ContextBegins, ContextInductive, PTL DEF ContextSpec

\* Every row, delivery and request of the members' routes has its type, and
\* every request is at a place of its own route.
THEOREM MembershipTypeCorrect == ContextSpec => []MembershipTypes
<1>1. ContextInv => MembershipTypes
  BY DEF ContextInv, MembershipInv
<1> QED BY <1>1, ContextInvariant, PTL

\* However many invitations to one address are accepted at once, the unique
\* index leaves a customer one seat (accept/route.ts reads before it writes).
THEOREM SeatsAreHeldOnce == ContextSpec => []OneSeatEach
<1>1. ContextInv => OneSeatEach
  BY DEF ContextInv, MembershipInv
<1> QED BY <1>1, ContextInvariant, PTL

\* A repeated invite or resend mails no second link, for any number of callers
\* that send the same key, at once or one after the other's crash.
THEOREM KeysMailOnce == ContextSpec => []OneMailPerKey
<1>1. ContextInv => OneMailPerKey
  BY MailsOnce DEF ContextInv
<1> QED BY <1>1, ContextInvariant, PTL

\* A revocation closes a membership's interval for good and hides the invitation from
\* every later acceptance.  A revoked row becomes usable to the member routes again, which
\* test its status alone, only by an acceptance already past its reads: that hole is
\* real (accept/route.ts:85 updates by id), and there is no other.
THEOREM ReinstatedByOvertakenAcceptOnly == ContextSpec => OnlyAnOvertakenAcceptReinstates
<1>1. ContextInit => Shut
  BY DEF ContextInit, Begins, NoMember, Shut
<1>2. ContextInv /\ Shut /\ [ContextNext]_<<vars, contextVars>> =>
        [\A m \in Requests : member[m].until # None =>
           /\ ~InEffect(member'[m])
           /\ \A r \in Requests :
                Is(r, "accept", "asked") /\ Is(r, "accept", "found")' => request'[r].m # m
           /\ member[m].status = "REVOKED" /\ member'[m].status \notin {"REVOKED", "none"} =>
                \E r \in Requests : /\ Is(r, "accept", "open") /\ Is(r, "accept", "answered")'
                                    /\ request[r].m = m
        ]_vars
  <2>1. ASSUME ContextInv, Shut, ContextNext, NEW m \in Requests, member[m].until # None
        PROVE  /\ ~InEffect(member'[m])
               /\ \A r \in Requests :
                    Is(r, "accept", "asked") /\ Is(r, "accept", "found")' => request'[r].m # m
               /\ member[m].status = "REVOKED" /\ member'[m].status \notin {"REVOKED", "none"} =>
                    \E r \in Requests : /\ Is(r, "accept", "open") /\ Is(r, "accept", "answered")'
                                        /\ request[r].m = m
    <3>1. ~InEffect(member'[m])
      BY <2>1, ContextSteps, ClosedStays DEF ContextInv
    <3>2. \A r \in Requests :
            Is(r, "accept", "asked") /\ Is(r, "accept", "found")' => request'[r].m # m
      BY <2>1, StandingSteps
    <3>3. ASSUME member[m].status = "REVOKED", member'[m].status \notin {"REVOKED", "none"}
          PROVE  \E r \in Requests : /\ Is(r, "accept", "open") /\ Is(r, "accept", "answered")'
                                     /\ request[r].m = m
      <4>1. Standing(m)
        BY <2>1, StandingSteps
      <4> QED BY <3>3, <4>1 DEF Standing, NoMember, Exists
    <3> QED BY <3>1, <3>2, <3>3
  <2> QED BY <2>1 DEF vars
<1> QED BY <1>1, <1>2, ContextInvariant, ShutInductive, PTL
        DEF ContextSpec, OnlyAnOvertakenAcceptReinstates

\* An issued context states facts that were true at one instant, although each
\* was read by another call: what changed in between shows in a revision, and
\* one of the second reads refuses.
THEOREM ContextsAreWhole == ContextSpec => []IssuedFromOneMoment
<1>1. ContextInv => IssuedFromOneMoment
  <2> SUFFICES ASSUME ContextInv, NEW x \in Resolutions, resolution[x].at = "issued"
               PROVE  resolution[x].whole
    BY DEF IssuedFromOneMoment, Issued
  <2>1. KnowsRoles(x) /\ resolution[x].again = {"organisation", "member"}
    BY DEF ContextInv, ReadTwice
  <2> QED BY <2>1 DEF KnowsRoles
<1> QED BY <1>1, ContextInvariant, PTL

\* The revisions in a context are as good as the facts in it, for as long as
\* they stand.
THEOREM ContextsAreVouchedFor == ContextSpec => []RevisionsVouch
<1>1. ContextInv => RevisionsVouch
  BY DEF ContextInv, RevisionsVouch, Issued, KnowsRelation, KnowsMembership, KnowsRoles
<1> QED BY <1>1, ContextInvariant, PTL

\* The end of a context is the least of the ends of its evidence, and lies ahead.
LEMMA IssuedInTime ==
  ASSUME ContextInv, ContextNext, NEW x \in Resolutions, ~Issued(x), Issued(x)'
  PROVE  LET res == resolution[x] IN
         /\ now < res.attested /\ resolution'[x].expires <= res.attested
         /\ now < res.until /\ resolution'[x].expires <= res.until
<1>0. /\ resolution \in [Resolutions -> Resolution] /\ now \in Nat
      /\ resolution[x].until \in Nat /\ resolution[x].attested \in Nat
  BY DEF ContextInv, ContextTypes, Resolution
<1>1. PICK y \in Resolutions : Resolve(y)
  BY DEF ContextNext, EditRole, EditStatus, Tick, contextVars, Issued
<1>2. ASSUME NEW z \in Resolutions, NEW new, Reads(z, new) PROVE new.at = "issued" /\ z = x
  <2>1. resolution' = [resolution EXCEPT ![z] = new]
    BY <1>2 DEF Reads
  <2> QED BY <1>0, <2>1 DEF Issued
<1>3. resolution[y] \in Resolution
  BY <1>0
<1>a. ASSUME NEW at,
             Reads(y, [resolution[y] EXCEPT !.at = at])
      PROVE  at = "issued"
  <2> DEFINE new == [resolution[y] EXCEPT !.at = at]
  <2>1. new.at = at /\ Reads(y, new)
    BY <1>3, <1>a DEF Resolution
  <2> HIDE DEF new
  <2> QED BY <1>2, <2>1
<1>b. ASSUME NEW at, NEW until,
             Reads(y, [resolution[y] EXCEPT !.at = at, !.until = until])
      PROVE  at = "issued"
  <2> DEFINE new == [resolution[y] EXCEPT !.at = at, !.until = until]
  <2>1. new.at = at /\ Reads(y, new)
    BY <1>3, <1>b DEF Resolution
  <2> HIDE DEF new
  <2> QED BY <1>2, <2>1
<1>c. ASSUME NEW at, NEW relation,
             Reads(y, [resolution[y] EXCEPT !.at = at, !.relation = relation])
      PROVE  at = "issued"
  <2> DEFINE new == [resolution[y] EXCEPT !.at = at, !.relation = relation]
  <2>1. new.at = at /\ Reads(y, new)
    BY <1>3, <1>c DEF Resolution
  <2> HIDE DEF new
  <2> QED BY <1>2, <2>1
<1>d. ASSUME NEW at, NEW m, NEW revision,
             Reads(y, [resolution[y] EXCEPT !.at = at, !.m = m, !.revision = revision])
      PROVE  at = "issued"
  <2> DEFINE new == [resolution[y] EXCEPT !.at = at, !.m = m, !.revision = revision]
  <2>1. new.at = at /\ Reads(y, new)
    BY <1>3, <1>d DEF Resolution
  <2> HIDE DEF new
  <2> QED BY <1>2, <2>1
<1>e. ASSUME NEW at, NEW roles, NEW whole,
             Reads(y, [resolution[y] EXCEPT !.at = at, !.roles = roles, !.whole = whole])
      PROVE  at = "issued"
  <2> DEFINE new == [resolution[y] EXCEPT !.at = at, !.roles = roles, !.whole = whole]
  <2>1. new.at = at /\ Reads(y, new)
    BY <1>3, <1>e DEF Resolution
  <2> HIDE DEF new
  <2> QED BY <1>2, <2>1
<1>f. ASSUME NEW at, NEW attested,
             Reads(y, [resolution[y] EXCEPT !.at = at, !.attested = attested])
      PROVE  at = "issued"
  <2> DEFINE new == [resolution[y] EXCEPT !.at = at, !.attested = attested]
  <2>1. new.at = at /\ Reads(y, new)
    BY <1>3, <1>f DEF Resolution
  <2> HIDE DEF new
  <2> QED BY <1>2, <2>1
<1>g. ASSUME NEW at, NEW who, NEW started, NEW until,
             Reads(y, [NoResolution EXCEPT !.at = at, !.who = who, !.started = started,
                                                         !.until = until])
      PROVE  at = "issued"
  <2> DEFINE new == [NoResolution EXCEPT !.at = at, !.who = who, !.started = started,
                                                         !.until = until]
  <2>1. new.at = at /\ Reads(y, new)
    BY <1>3, <1>g DEF NoResolution
  <2> HIDE DEF new
  <2> QED BY <1>2, <2>1
<1>h. ASSUME NEW again,
             Reads(y, [resolution[y] EXCEPT !.again = again])
      PROVE  resolution[y].at = "issued"
  <2> DEFINE new == [resolution[y] EXCEPT !.again = again]
  <2>1. new.at = resolution[y].at /\ Reads(y, new)
    BY <1>3, <1>h DEF Resolution
  <2> HIDE DEF new
  <2> QED BY <1>2, <2>1
<1>4. ~Refused(y)
  BY <1>a DEF Refused
<1>i. Issue(y)
  <2>1. ASSUME NEW from, NEW to \in {"called", "known", "assured", "named", "proved"}, NEW ends,
               Verified(y, from, to, ends)
        PROVE  FALSE
    BY <1>b, <1>4, <2>1 DEF Verified
  <2>2. ~VerifyCaller(y) /\ ~VerifyToken(y) /\ ~ResolvePrincipal(y) /\ ~BindEstate(y)
    BY <2>1 DEF VerifyCaller, VerifyToken, ResolvePrincipal, BindEstate
  <2>3. ~Assure(y)
    BY <1>a, <2>1 DEF Assure
  <2>4. ~Begin(y)
    BY <1>g DEF Begin
  <2>5. ~ReadOrganisation(y) /\ ~ReadMembership(y) /\ ~ReadRoles(y) /\ ~Attest(y)
    BY <1>c, <1>d, <1>e, <1>f, <1>4 DEF ReadOrganisation, ReadMembership, ReadRoles, Attest
  <2>6. ~ReadOrganisationAgain(y) /\ ~ReadMembershipAgain(y)
    BY <1>h, <1>4 DEF ReadOrganisationAgain, ReadMembershipAgain
  <2> QED BY <1>1, <2>2, <2>3, <2>4, <2>5, <2>6 DEF Resolve
<1> DEFINE earliest == Least({resolution[y].until, resolution[y].attested})
<1>5. /\ earliest > now
      /\ Reads(y, [resolution[y] EXCEPT !.at = "issued", !.expires = earliest])
  BY <1>4, <1>i DEF Issue, Expiries
<1>6. y = x
  BY <1>2, <1>5
<1>7. /\ earliest \in Nat /\ earliest <= resolution[x].until /\ earliest <= resolution[x].attested
  BY <1>0, <1>6, LeastOfTwo
<1> HIDE DEF earliest
<1>8. resolution'[x].expires = earliest
  BY <1>0, <1>5, <1>6 DEF Reads, Resolution
<1> QED BY <1>0, <1>5, <1>7, <1>8

\* No context is issued past the end of any evidence it rests on, nor for longer.
THEOREM ContextsEndInTime == ContextSpec => NeverOutlivesItsEvidence
<1>1. ContextInv /\ [ContextNext]_<<vars, contextVars>> =>
        [\A x \in Resolutions : ~Issued(x) /\ Issued(x)' =>
           LET res == resolution[x] IN
           /\ now < res.attested /\ resolution'[x].expires <= res.attested
           /\ now < res.until /\ resolution'[x].expires <= res.until]_<<vars, contextVars>>
  BY IssuedInTime
<1> QED BY <1>1, ContextInvariant, PTL DEF ContextSpec, NeverOutlivesItsEvidence

================================================================================
