---------------------------- MODULE MembersProofs ----------------------------
(***************************************************************************)
(* Members, for every organization, every number of requests and every     *)
(* number of rows: the variables keep their types, an organization loses   *)
(* its last owner only by a request that counted too early, a user has a   *)
(* second row only by acceptances that crossed, and an invitation admits a *)
(* second time only to such acceptances or after one that died.            *)
(***************************************************************************)
EXTENDS Members, FiniteSetTheorems, TLAPS

\* A request that changes roles has a change to make.
Busy == \A q \in Requests : req[q].pc \in {"check", "set"} => req[q].todo # <<>>

\* Another owner than `id`.
Another(id) == \E x \in Owners : x # id

\* A request whose count is not stale leaves an owner.
Sound == \A q \in Requests \ stale :
  /\ req[q].pc = "set" =>
       \/ Head(req[q].todo).id \notin Owners
       \/ Head(req[q].todo).role = "owner"
       \/ Another(Head(req[q].todo).id)
  /\ req[q].pc = "delete" => req[q].id \notin Owners \/ Another(req[q].id)

IInv == TypeOK /\ Busy /\ Sound

-----------------------------------------------------------------------------
\* An owner is the only one, or there is another.
LEMMA OnlyOrAnother ==
  ASSUME NEW id \in Owners, Cardinality(Owners) # 1
  PROVE  Another(id)
<1>1. SUFFICES ASSUME ~Another(id) PROVE FALSE
  OBVIOUS
<1>2. Owners = {id}
  BY <1>1 DEF Another
<1>3. Cardinality({id}) = 1
  BY FS_Singleton
<1> QED BY <1>2, <1>3

LEMMA IdleType == Idle \in Request /\ Idle.pc = "idle" /\ Idle.todo = <<>>
<1>1. /\ (CHOOSE id \in Ids : TRUE) \in Ids
      /\ (CHOOSE i \in Invites : TRUE) \in Invites
      /\ (CHOOSE u \in Users : TRUE) \in Users
  BY ConstantsAssumption
<1>2. <<>> \in Seq(Change)
  OBVIOUS
<1> QED BY <1>1, <1>2 DEF Idle, Request

\* The three ways a request moves on.
PCs == {"idle", "check", "set", "target", "count", "delete",
        "invitation", "expire", "list", "add", "spend"}

LEMMA GotoType ==
  ASSUME TypeOK, Busy, NEW q \in Requests, NEW pc \in PCs, Goto(q, pc),
         pc \in {"check", "set"} => req[q].todo # <<>>
  PROVE  req' \in [Requests -> Request] /\ Busy'
BY DEF TypeOK, Busy, Goto, Request, PCs

LEMMA PutType ==
  ASSUME TypeOK, Busy, NEW q \in Requests, NEW r \in Request,
         r.pc \in {"check", "set"} => r.todo # <<>>, req' = [req EXCEPT ![q] = r]
  PROVE  req' \in [Requests -> Request] /\ Busy'
BY DEF TypeOK, Busy

LEMMA AnswerType ==
  ASSUME TypeOK, Busy, NEW q \in Requests, Answer(q)
  PROVE  req' \in [Requests -> Request] /\ Busy'
BY IdleType, PutType DEF Answer

LEMMA BeginType ==
  ASSUME TypeOK, Busy, NEW q \in Requests, NEW r \in Request,
         r.pc \in {"check", "set"} => r.todo # <<>>, Begin(q, r)
  PROVE  TypeOK' /\ Busy'
<1>1. req' \in [Requests -> Request] /\ Busy'
  BY PutType DEF Begin
<1>2. begun' \in 0..MaxRequests
  BY ConstantsAssumption DEF Begin, TypeOK
<1> QED BY <1>1, <1>2 DEF Begin, TypeOK, history

-----------------------------------------------------------------------------
LEMMA TypeInit == Init => TypeOK /\ Busy
<1> SUFFICES ASSUME Init PROVE TypeOK /\ Busy
  OBVIOUS
<1>1. (CHOOSE u \in Users : TRUE) \in Users
  BY ConstantsAssumption
<1>2. member \in [Ids -> Row]
  BY ConstantsAssumption DEF Init
<1>3. req \in [Requests -> Request] /\ Busy
  BY IdleType DEF Init, Busy
<1>4. invitation \in [Invites -> Invitation]
  BY <1>1 DEF Init, Invitation, Statuses, Roles
<1> QED BY <1>2, <1>3, <1>4, ConstantsAssumption DEF Init, TypeOK

\* Every step keeps the types, and the changes a request has to make.
LEMMA TypeStep == TypeOK /\ Busy /\ [Next]_vars => TypeOK' /\ Busy'
<1> SUFFICES ASSUME TypeOK, Busy, [Next]_vars PROVE TypeOK' /\ Busy'
  OBVIOUS
<1> USE DEF history
<1>1. ASSUME NEW q \in Requests, UpdateRole(q) PROVE TypeOK' /\ Busy'
  <2>1. PICK id \in Ids, role \in Roles :
          Begin(q, [Idle EXCEPT !.pc = "check", !.todo = <<[id |-> id, role |-> role]>>])
    BY <1>1 DEF UpdateRole
  <2>2. <<[id |-> id, role |-> role]>> \in Seq(Change) /\ <<[id |-> id, role |-> role]>> # <<>>
    BY DEF Change
  <2>3. [Idle EXCEPT !.pc = "check", !.todo = <<[id |-> id, role |-> role]>>] \in Request
    BY <2>2, IdleType DEF Request
  <2>4. [Idle EXCEPT !.pc = "check", !.todo = <<[id |-> id, role |-> role]>>].todo # <<>>
    BY <2>2, IdleType DEF Request
  <2> QED BY <2>1, <2>3, <2>4, BeginType
<1>2. ASSUME NEW q \in Requests, Transfer(q) PROVE TypeOK' /\ Busy'
  <2>1. PICK self \in Owners, id \in Ids :
          Begin(q, [Idle EXCEPT !.pc = "check",
                 !.todo = <<[id |-> id, role |-> "owner"], [id |-> self, role |-> "admin"]>>])
    BY <1>2 DEF Transfer
  <2> DEFINE todo == <<[id |-> id, role |-> "owner"], [id |-> self, role |-> "admin"]>>
  <2>2. todo \in Seq(Change) /\ todo # <<>>
    <3>1. self \in Ids
      BY DEF Owners
    <3> QED BY <3>1 DEF Change, Roles
  <2> HIDE DEF todo
  <2>3. [Idle EXCEPT !.pc = "check", !.todo = todo] \in Request
    BY <2>2, IdleType DEF Request
  <2>4. [Idle EXCEPT !.pc = "check", !.todo = todo].todo # <<>>
    BY <2>2, IdleType DEF Request
  <2> QED BY <2>1, <2>3, <2>4, BeginType DEF todo
<1>3. ASSUME NEW q \in Requests, Check(q) PROVE TypeOK' /\ Busy'
  <2>1. req' \in [Requests -> Request] /\ Busy'
    BY <1>3, GotoType, AnswerType DEF Check, PCs, Busy
  <2> QED BY <1>3, <2>1 DEF Check, TypeOK
<1>4. ASSUME NEW q \in Requests, SetRole(q) PROVE TypeOK' /\ Busy'
  <2>1. req[q].pc = "set" /\ req[q] \in Request
    BY <1>4 DEF SetRole, TypeOK
  <2>2. /\ req[q].todo \in Seq(Change)
        /\ req[q].todo # <<>>
        /\ Head(req[q].todo) \in Change
        /\ Tail(req[q].todo) \in Seq(Change)
    BY <2>1 DEF Busy, Request
  <2>3. member' \in [Ids -> Row]
    <3>1. Head(req[q].todo).role \in Roles
      BY <2>2 DEF Change
    <3>2. \A id \in Ids : [member[id] EXCEPT !.role = Head(req[q].todo).role] \in Row
      BY <3>1 DEF TypeOK, Row
    <3>3. \/ member' = member
          \/ member' = [member EXCEPT ![Head(req[q].todo).id] =
                          [member[Head(req[q].todo).id] EXCEPT !.role = Head(req[q].todo).role]]
      BY <1>4 DEF SetRole
    <3>4. Head(req[q].todo).id \in Ids
      BY <2>2 DEF Change
    <3> DEFINE id == Head(req[q].todo).id
               row == [member[id] EXCEPT !.role = Head(req[q].todo).role]
    <3>5. row \in Row
      BY <3>2, <3>4
    <3>6. member' = member \/ member' = [member EXCEPT ![id] = row]
      BY <3>3
    <3> HIDE DEF id, row
    <3> QED BY <3>5, <3>6 DEF TypeOK
  <2>4. stale' \subseteq Requests
    BY <1>4 DEF SetRole, Overtakes, TypeOK
  <2>5. CASE Tail(req[q].todo) = <<>>
    <3>1. Answer(q)
      BY <1>4, <2>5 DEF SetRole, Answer
    <3> QED BY <1>4, <2>3, <2>4, <3>1, AnswerType DEF SetRole, TypeOK
  <2>6. CASE Tail(req[q].todo) # <<>>
    <3> DEFINE todo == Tail(req[q].todo)
    <3>1. req' = [req EXCEPT ![q].pc = "check", ![q].todo = todo]
      BY <1>4, <2>6 DEF SetRole
    <3>2. todo \in Seq(Change) /\ todo # <<>>
      BY <2>2, <2>6
    <3>3. req' \in [Requests -> Request] /\ Busy'
      <4> HIDE DEF todo
      <4> QED BY <3>1, <3>2 DEF TypeOK, Busy, Request
    <3> QED BY <1>4, <2>3, <2>4, <3>3 DEF SetRole, TypeOK
  <2> QED BY <2>5, <2>6
<1>5. ASSUME NEW q \in Requests, Remove(q) PROVE TypeOK' /\ Busy'
  <2>1. PICK id \in Ids : Begin(q, [Idle EXCEPT !.pc = "target", !.id = id])
    BY <1>5 DEF Remove
  <2>2. [Idle EXCEPT !.pc = "target", !.id = id] \in Request
    BY IdleType DEF Request
  <2>3. [Idle EXCEPT !.pc = "target", !.id = id].pc = "target"
    BY IdleType DEF Request
  <2> QED BY <2>1, <2>2, <2>3, BeginType
<1>6. ASSUME NEW q \in Requests, ReadTarget(q) PROVE TypeOK' /\ Busy'
  <2>1. req' \in [Requests -> Request] /\ Busy'
    BY <1>6, GotoType, AnswerType DEF ReadTarget, PCs
  <2> QED BY <1>6, <2>1 DEF ReadTarget, TypeOK
<1>7. ASSUME NEW q \in Requests, CountOwners(q) PROVE TypeOK' /\ Busy'
  <2>1. req' \in [Requests -> Request] /\ Busy'
    BY <1>7, GotoType, AnswerType DEF CountOwners, PCs
  <2> QED BY <1>7, <2>1 DEF CountOwners, TypeOK
<1>8. ASSUME NEW q \in Requests, DeleteRow(q) PROVE TypeOK' /\ Busy'
  <2>1. req' \in [Requests -> Request] /\ Busy'
    BY <1>8, AnswerType DEF DeleteRow
  <2>2. member' \in [Ids -> Row]
    BY <1>8 DEF DeleteRow, TypeOK, Row
  <2>3. stale' \subseteq Requests
    BY <1>8 DEF DeleteRow, Overtakes, TypeOK
  <2> QED BY <1>8, <2>1, <2>2, <2>3 DEF DeleteRow, TypeOK
<1>9. ASSUME NEW q \in Requests, Accept(q) PROVE TypeOK' /\ Busy'
  <2>1. PICK i \in Invites, u \in Users :
          Begin(q, [Idle EXCEPT !.pc = "invitation", !.invite = i, !.user = u])
    BY <1>9 DEF Accept
  <2>2. [Idle EXCEPT !.pc = "invitation", !.invite = i, !.user = u] \in Request
    BY IdleType DEF Request
  <2>3. [Idle EXCEPT !.pc = "invitation", !.invite = i, !.user = u].pc = "invitation"
    BY IdleType DEF Request
  <2> QED BY <2>1, <2>2, <2>3, BeginType
<1>10. ASSUME NEW q \in Requests, ReadInvitation(q) PROVE TypeOK' /\ Busy'
  <2>1. req' \in [Requests -> Request] /\ Busy'
    BY <1>10, GotoType, AnswerType DEF ReadInvitation, PCs
  <2>2. rivals' \in [Invites -> Nat]
    BY <1>10 DEF ReadInvitation, TypeOK
  <2> QED BY <1>10, <2>1, <2>2 DEF ReadInvitation, TypeOK
<1>11. ASSUME NEW q \in Requests, MarkExpired(q) PROVE TypeOK' /\ Busy'
  <2>1. req' \in [Requests -> Request] /\ Busy'
    BY <1>11, AnswerType DEF MarkExpired
  <2>2. invitation' \in [Invites -> Invitation]
    BY <1>11 DEF MarkExpired, Mark, TypeOK, Invitation, Statuses
  <2> QED BY <1>11, <2>1, <2>2 DEF MarkExpired, TypeOK
<1>12. ASSUME NEW q \in Requests, ListMembers(q) PROVE TypeOK' /\ Busy'
  <2>1. req' \in [Requests -> Request] /\ Busy'
    BY <1>12, GotoType, AnswerType DEF ListMembers, PCs
  <2>2. crossed' \in [Users -> Nat]
    BY <1>12 DEF ListMembers, TypeOK
  <2> QED BY <1>12, <2>1, <2>2 DEF ListMembers, TypeOK
<1>13. ASSUME NEW q \in Requests, AddMember(q) PROVE TypeOK' /\ Busy'
  <2>1. req' \in [Requests -> Request] /\ Busy'
    BY <1>13, GotoType, AnswerType DEF AddMember, PCs
  <2>2. req[q].invite \in Invites /\ req[q].user \in Users
    BY DEF TypeOK, Request
  <2>3. invitation[req[q].invite].role \in Roles
    BY <2>2 DEF TypeOK, Invitation
  <2>4. member' \in [Ids -> Row] /\ admitted' \in [Invites -> Nat]
    <3>1. [at |-> "member", user |-> req[q].user,
           role |-> invitation[req[q].invite].role] \in Row
      BY <2>2, <2>3 DEF Row
    <3> DEFINE row == [at |-> "member", user |-> req[q].user,
                       role |-> invitation[req[q].invite].role]
    <3>4. member' = member \/ \E id \in Ids : member' = [member EXCEPT ![id] = row]
      BY <1>13 DEF AddMember
    <3>2. member' \in [Ids -> Row]
      <4>1. row \in Row
        BY <3>1
      <4> HIDE DEF row
      <4> QED BY <3>4, <4>1 DEF TypeOK
    <3>3. admitted' \in [Invites -> Nat]
      BY <1>13, <2>2 DEF AddMember, TypeOK
    <3> QED BY <3>2, <3>3
  <2> QED BY <1>13, <2>1, <2>4 DEF AddMember, TypeOK
<1>14. ASSUME NEW q \in Requests, MarkAccepted(q) PROVE TypeOK' /\ Busy'
  <2>1. req' \in [Requests -> Request] /\ Busy'
    BY <1>14, AnswerType DEF MarkAccepted
  <2>2. invitation' \in [Invites -> Invitation]
    BY <1>14 DEF MarkAccepted, Mark, TypeOK, Invitation, Statuses
  <2> QED BY <1>14, <2>1, <2>2 DEF MarkAccepted, TypeOK
<1>15. ASSUME NEW q \in Requests, Die(q) PROVE TypeOK' /\ Busy'
  <2>1. req' \in [Requests -> Request] /\ Busy'
    BY <1>15, AnswerType DEF Die
  <2>2. cut' \in [Invites -> Nat]
    <3>1. req[q].invite \in Invites
      BY DEF TypeOK, Request
    <3>2. cut[req[q].invite] + 1 \in Nat
      BY <3>1 DEF TypeOK
    <3> QED BY <1>15, <3>1, <3>2 DEF Die, TypeOK
  <2> QED BY <1>15, <2>1, <2>2 DEF Die, TypeOK
<1>16. ASSUME NEW i \in Invites, CreateInvitation(i) PROVE TypeOK' /\ Busy'
  <2>1. invitation' \in [Invites -> Invitation]
    BY <1>16 DEF CreateInvitation, TypeOK, Invitation, Statuses
  <2> QED BY <1>16, <2>1 DEF CreateInvitation, TypeOK, Busy
<1>17. ASSUME NEW i \in Invites, Revoke(i) \/ Expire(i) PROVE TypeOK' /\ Busy'
  <2>1. invitation' \in [Invites -> Invitation] /\ late' \subseteq Invites
    BY <1>17 DEF Revoke, Expire, TypeOK, Invitation, Statuses
  <2> QED BY <1>17, <2>1 DEF Revoke, Expire, TypeOK, Busy
<1>18. ASSUME DeleteOrganization PROVE TypeOK' /\ Busy'
  <2>1. member' \in [Ids -> Row]
    BY <1>18 DEF DeleteOrganization, TypeOK, Row
  <2>2. invitation' \in [Invites -> Invitation]
    BY <1>18 DEF DeleteOrganization, TypeOK, Invitation, Statuses
  <2> QED BY <1>18, <2>1, <2>2 DEF DeleteOrganization, TypeOK, Busy
<1>19. CASE UNCHANGED vars
  BY <1>19 DEF vars, TypeOK, Busy
<1> QED BY <1>1, <1>2, <1>3, <1>4, <1>5, <1>6, <1>7, <1>8, <1>9, <1>10, <1>11, <1>12,
         <1>13, <1>14, <1>15, <1>16, <1>17, <1>18, <1>19 DEF Next, RequestStep

\* The variables keep their types: organization, members, invitations, the requests in
\* progress and what the histories count.
THEOREM TypeCorrect == Spec => []TypeOK
<1>1. TypeOK /\ Busy /\ [Next]_vars => TypeOK' /\ Busy'
  BY TypeStep
<1> QED BY TypeInit, <1>1, PTL DEF Spec

-----------------------------------------------------------------------------
\* What becomes of the request that moves.
LEMMA GotoMoves ==
  ASSUME TypeOK, NEW q \in Requests, NEW pc, Goto(q, pc)
  PROVE  \E r : /\ req' = [req EXCEPT ![q] = r]
               /\ r.pc = pc /\ r.invite = req[q].invite /\ r.user = req[q].user
<1> DEFINE r == [req[q] EXCEPT !.pc = pc]
<1>1. req' = [req EXCEPT ![q] = r]
  BY DEF Goto
<1>2. req[q] \in Request
  BY DEF TypeOK
<1>3. r.pc = pc /\ r.invite = req[q].invite /\ r.user = req[q].user
  BY <1>2 DEF Request
<1> QED BY <1>1, <1>3

LEMMA AnswerMoves ==
  ASSUME NEW q, Answer(q)
  PROVE  \E r : req' = [req EXCEPT ![q] = r] /\ r.pc = "idle"
BY IdleType DEF Answer

\* A request that comes accepts an invitation that has been made, or none.
LEMMA BeginMoves ==
  ASSUME NEW q \in Requests, UpdateRole(q) \/ Transfer(q) \/ Remove(q) \/ Accept(q)
  PROVE  \E r : /\ Begin(q, r)
               /\ \/ r.pc \in {"check", "target"}
                  \/ r.pc = "invitation" /\ invitation[r.invite].status # "absent"
<1>1. CASE UpdateRole(q)
  <2>1. PICK id \in Ids, role \in Roles :
          Begin(q, [Idle EXCEPT !.pc = "check", !.todo = <<[id |-> id, role |-> role]>>])
    BY <1>1 DEF UpdateRole
  <2>2. [Idle EXCEPT !.pc = "check", !.todo = <<[id |-> id, role |-> role]>>].pc = "check"
    BY IdleType DEF Request
  <2> QED BY <2>1, <2>2
<1>2. CASE Transfer(q)
  <2>1. PICK self \in Owners, id \in Ids :
          Begin(q, [Idle EXCEPT !.pc = "check",
             !.todo = <<[id |-> id, role |-> "owner"], [id |-> self, role |-> "admin"]>>])
    BY <1>2 DEF Transfer
  <2> DEFINE todo == <<[id |-> id, role |-> "owner"], [id |-> self, role |-> "admin"]>>
  <2>2. [Idle EXCEPT !.pc = "check", !.todo = todo].pc = "check"
    BY IdleType DEF Request
  <2> QED BY <2>1, <2>2
<1>3. CASE Remove(q)
  <2>1. PICK id \in Ids : Begin(q, [Idle EXCEPT !.pc = "target", !.id = id])
    BY <1>3 DEF Remove
  <2>2. [Idle EXCEPT !.pc = "target", !.id = id].pc = "target"
    BY IdleType DEF Request
  <2> QED BY <2>1, <2>2
<1>4. CASE Accept(q)
  <2>1. PICK i \in Invites, u \in Users :
          /\ invitation[i].status # "absent"
          /\ Begin(q, [Idle EXCEPT !.pc = "invitation", !.invite = i, !.user = u])
    BY <1>4 DEF Accept
  <2> DEFINE r == [Idle EXCEPT !.pc = "invitation", !.invite = i, !.user = u]
  <2>2. r.pc = "invitation" /\ r.invite = i
    BY IdleType DEF Request
  <2> QED BY <2>1, <2>2
<1> QED BY <1>1, <1>2, <1>3, <1>4

LEMMA SetRoleMoves ==
  ASSUME TypeOK, NEW q \in Requests, SetRole(q)
  PROVE  \E r : req' = [req EXCEPT ![q] = r] /\ r.pc \in {"idle", "check"}
<1>1. CASE Tail(req[q].todo) = <<>>
  BY <1>1, AnswerMoves DEF SetRole
<1>2. CASE Tail(req[q].todo) # <<>>
  <2> DEFINE todo == Tail(req[q].todo)
             r == [req[q] EXCEPT !.pc = "check", !.todo = todo]
  <2>1. req' = [req EXCEPT ![q] = r]
    BY <1>2 DEF SetRole
  <2>2. r.pc = "check"
    <3> HIDE DEF todo
    <3> QED BY DEF TypeOK, Request
  <2> QED BY <2>1, <2>2
<1> QED BY <1>1, <1>2

-----------------------------------------------------------------------------
(***************************************************************************)
(* The last owner.                                                         *)
(***************************************************************************)

\* What Sound says of one request.
Safe(q) ==
  /\ req[q].pc = "set" =>
       \/ Head(req[q].todo).id \notin Owners
       \/ Head(req[q].todo).role = "owner"
       \/ Another(Head(req[q].todo).id)
  /\ req[q].pc = "delete" => req[q].id \notin Owners \/ Another(req[q].id)

\* A request that stands still is as safe as it was while the owners are the same.
LEMMA SafeKept ==
  ASSUME NEW q \in Requests, Safe(q), req'[q] = req[q], Owners' = Owners
  PROVE  Safe(q)'
BY DEF Safe, Another

\* So is every request, when one that counts nothing moves on.
LEMMA OneMoves ==
  ASSUME TypeOK, Sound, NEW q \in Requests, NEW r, req' = [req EXCEPT ![q] = r],
         Owners' = Owners, stale \subseteq stale' \cup {q}, q \notin stale' => Safe(q)'
  PROVE  Sound'
<1> SUFFICES ASSUME NEW p \in Requests \ stale' PROVE Safe(p)'
  BY DEF Sound, Safe
<1>1. CASE p = q
  BY <1>1
<1>2. CASE p # q
  <2>1. Safe(p)
    BY <1>2 DEF Sound, Safe
  <2>2. req'[p] = req[p]
    BY <1>2 DEF TypeOK
  <2> QED BY <2>1, <2>2, SafeKept
<1> QED BY <1>1, <1>2

LEMMA OthersStand ==
  ASSUME TypeOK, Sound, NEW q \in Requests, NEW r, req' = [req EXCEPT ![q] = r],
         r.pc \notin {"set", "delete"}, Owners' = Owners, stale' = stale
  PROVE  Sound'
<1>1. Safe(q)'
  BY DEF Safe, TypeOK
<1> QED BY <1>1, OneMoves

\* A write that changes the owners makes every other request stale.
LEMMA Overtaken ==
  ASSUME TypeOK, Sound, NEW q \in Requests, NEW r, req' = [req EXCEPT ![q] = r],
         r.pc \notin {"set", "delete"}, Overtakes(q)
  PROVE  Sound'
<1>1. Safe(q)'
  BY DEF Safe, TypeOK
<1>2. CASE Owners' = Owners
  BY <1>1, <1>2, OneMoves DEF Overtakes
<1>3. CASE Owners' # Owners
  <2>1. Requests \ stale' \subseteq {q}
    BY <1>3 DEF Overtakes
  <2> QED BY <1>1, <2>1 DEF Sound, Safe
<1> QED BY <1>2, <1>3

LEMMA SameOwners == UNCHANGED member => Owners' = Owners
BY DEF Owners, IsMember

LEMMA SoundStep == TypeOK /\ Busy /\ Sound /\ [Next]_vars => Sound'
<1> SUFFICES ASSUME TypeOK, Busy, Sound, [Next]_vars PROVE Sound'
  OBVIOUS
<1>0. Idle.pc \notin {"set", "delete"}
  BY IdleType
<1>1. ASSUME NEW q \in Requests, UpdateRole(q) \/ Transfer(q) \/ Remove(q) \/ Accept(q)
      PROVE  Sound'
  <2>1. PICK r : Begin(q, r) /\ r.pc \notin {"set", "delete"}
    BY <1>1, BeginMoves
  <2> QED BY <2>1, SameOwners, OthersStand DEF Begin
<1>2. ASSUME NEW q \in Requests, Check(q) PROVE Sound'
  <2>1. Owners' = Owners /\ q \notin stale' /\ stale \subseteq stale' \cup {q}
    BY <1>2, SameOwners DEF Check
  <2> DEFINE c == Head(req[q].todo)
  <2>2. CASE Answer(q)
    <3>1. Safe(q)'
      BY <1>0, <2>2 DEF Answer, Safe, TypeOK
    <3> QED BY <2>1, <2>2, <3>1, OneMoves DEF Answer
  <2>3. CASE Goto(q, "set") /\ ~(OneOwnerLeft(c.id) /\ c.role # "owner")
    <3>1. req[q] \in Request /\ req' = [req EXCEPT ![q] = [req[q] EXCEPT !.pc = "set"]]
      BY <2>3 DEF Goto, TypeOK
    <3>2. req'[q].pc = "set" /\ req'[q].todo = req[q].todo
      BY <3>1 DEF TypeOK, Request
    <3>3. c.id \notin Owners \/ c.role = "owner" \/ Another(c.id)
      BY <2>3, OnlyOrAnother DEF OneOwnerLeft
    <3>4. Safe(q)'
      BY <2>1, <3>2, <3>3 DEF Safe, Another
    <3> QED BY <2>1, <3>1, <3>4, OneMoves
  <2> QED BY <1>2, <2>2, <2>3 DEF Check
<1>3. ASSUME NEW q \in Requests, SetRole(q) PROVE Sound'
  <2>1. CASE Tail(req[q].todo) = <<>>
    BY <1>3, <1>0, <2>1, Overtaken DEF SetRole, Answer
  <2>2. CASE Tail(req[q].todo) # <<>>
    <3> DEFINE todo == Tail(req[q].todo)
               r == [req[q] EXCEPT !.pc = "check", !.todo = todo]
    <3>1. req' = [req EXCEPT ![q] = r]
      BY <1>3, <2>2 DEF SetRole
    <3>2. r.pc = "check"
      <4> HIDE DEF todo
      <4> QED BY DEF TypeOK, Request
    <3> HIDE DEF r
    <3> QED BY <1>3, <3>1, <3>2, Overtaken DEF SetRole
  <2> QED BY <2>1, <2>2
<1>4. ASSUME NEW q \in Requests, ReadTarget(q) \/ CountOwners(q) PROVE Sound'
  <2>1. Owners' = Owners /\ q \notin stale' /\ stale \subseteq stale' \cup {q}
    BY <1>4, SameOwners DEF ReadTarget, CountOwners
  <2>2. CASE Answer(q)
    <3>1. Safe(q)'
      BY <1>0, <2>2 DEF Answer, Safe, TypeOK
    <3> QED BY <2>1, <2>2, <3>1, OneMoves DEF Answer
  <2>3. CASE Goto(q, "count")
    <3>1. req[q] \in Request /\ req' = [req EXCEPT ![q] = [req[q] EXCEPT !.pc = "count"]]
      BY <2>3 DEF Goto, TypeOK
    <3>2. Safe(q)'
      BY <3>1 DEF Safe, TypeOK, Request
    <3> QED BY <2>1, <3>1, <3>2, OneMoves
  <2>4. CASE Goto(q, "delete") /\ (req[q].id \notin Owners \/ Cardinality(Owners) # 1)
    <3>1. req[q] \in Request /\ req' = [req EXCEPT ![q] = [req[q] EXCEPT !.pc = "delete"]]
      BY <2>4 DEF Goto, TypeOK
    <3>2. req'[q].pc = "delete" /\ req'[q].id = req[q].id
      BY <3>1 DEF TypeOK, Request
    <3>3. req[q].id \notin Owners \/ Another(req[q].id)
      BY <2>4, OnlyOrAnother
    <3>4. Safe(q)'
      BY <2>1, <3>2, <3>3 DEF Safe, Another
    <3> QED BY <2>1, <3>1, <3>4, OneMoves
  <2> QED BY <1>4, <2>2, <2>3, <2>4 DEF ReadTarget, CountOwners
<1>5. ASSUME NEW q \in Requests, DeleteRow(q) PROVE Sound'
  BY <1>5, <1>0, Overtaken DEF DeleteRow, Answer
<1>6. ASSUME NEW q \in Requests, ReadInvitation(q) \/ ListMembers(q) PROVE Sound'
  <2>1. Owners' = Owners /\ stale' = stale
    BY <1>6, SameOwners DEF ReadInvitation, ListMembers
  <2>2. CASE Answer(q)
    BY <1>0, <2>1, <2>2, OthersStand DEF Answer
  <2>3. ASSUME NEW pc \in {"expire", "list", "spend", "add"}, Goto(q, pc) PROVE Sound'
    <3>1. req' = [req EXCEPT ![q] = [req[q] EXCEPT !.pc = pc]] /\ req[q] \in Request
      BY <2>3 DEF Goto, TypeOK
    <3>2. [req[q] EXCEPT !.pc = pc].pc = pc
      BY <3>1 DEF Request
    <3> QED BY <2>1, <3>1, <3>2, OthersStand
  <2> QED BY <1>6, <2>2, <2>3 DEF ReadInvitation, ListMembers
<1>7. ASSUME NEW q \in Requests, MarkExpired(q) \/ MarkAccepted(q) \/ Die(q) PROVE Sound'
  BY <1>7, <1>0, SameOwners, OthersStand DEF MarkExpired, MarkAccepted, Die, Answer
<1>8. ASSUME NEW q \in Requests, AddMember(q) PROVE Sound'
  <2>1. stale' = stale
    BY <1>8 DEF AddMember
  <2>2. req[q].invite \in Invites
    BY DEF TypeOK, Request
  <2>3. invitation[req[q].invite].role # "owner"
    BY <2>2 DEF TypeOK, Invitation
  <2>4. Owners' = Owners
    <3>1. CASE ~org
      BY <1>8, <3>1, SameOwners DEF AddMember
    <3>2. CASE org
      <4> DEFINE row == [at |-> "member", user |-> req[q].user,
                         role |-> invitation[req[q].invite].role]
      <4>1. PICK id \in Ids : ~Known(id) /\ member' = [member EXCEPT ![id] = row]
        BY <1>8, <3>2 DEF AddMember
      <4>2. id \notin Owners
        BY <4>1 DEF Owners, IsMember, Known
      <4>3. row.role # "owner"
        BY <2>3
      <4> HIDE DEF row
      <4> QED BY <4>1, <4>2, <4>3 DEF Owners, IsMember, TypeOK
    <3> QED BY <3>1, <3>2
  <2>5. CASE Answer(q)
    BY <1>0, <2>1, <2>4, <2>5, OthersStand DEF Answer
  <2>6. CASE Goto(q, "spend")
    <3>1. req' = [req EXCEPT ![q] = [req[q] EXCEPT !.pc = "spend"]] /\ req[q] \in Request
      BY <2>6 DEF Goto, TypeOK
    <3>2. [req[q] EXCEPT !.pc = "spend"].pc = "spend"
      BY <3>1 DEF Request
    <3> QED BY <2>1, <2>4, <3>1, <3>2, OthersStand
  <2> QED BY <1>8, <2>5, <2>6 DEF AddMember
<1>9. ASSUME NEW i \in Invites, CreateInvitation(i) \/ Revoke(i) \/ Expire(i) PROVE Sound'
  BY <1>9, SameOwners DEF CreateInvitation, Revoke, Expire, Sound, Another
<1>10. ASSUME DeleteOrganization PROVE Sound'
  <2>1. Owners' = {}
    BY <1>10 DEF DeleteOrganization, Owners, IsMember, Known, TypeOK, Row
  <2> QED BY <1>10, <2>1 DEF DeleteOrganization, Sound
<1>11. CASE UNCHANGED vars
  BY <1>11, SameOwners DEF vars, Sound, Another
<1> QED BY <1>1, <1>2, <1>3, <1>4, <1>5, <1>6, <1>7, <1>8, <1>9, <1>10, <1>11
        DEF Next, RequestStep

LEMMA IInvAlways == Spec => []IInv
<1>1. Init => IInv
  BY TypeInit, IdleType DEF Init, IInv, Sound
<1>2. IInv /\ [Next]_vars => IInv'
  BY TypeStep, SoundStep DEF IInv
<1> QED BY <1>1, <1>2, PTL DEF Spec

\* The step that takes the last owner is the write of a request whose count is stale.
LEMMA LosingStep ==
  ASSUME IInv, [Next]_vars, org', Owners # {}, Owners' = {}
  PROVE  \E q \in stale : req'[q] # req[q]
<1> USE DEF IInv
<1>0. PICK o : o \in Owners
  OBVIOUS
<1>1. ASSUME NEW q \in Requests, SetRole(q) PROVE q \in stale /\ req'[q] # req[q]
  <2> DEFINE c == Head(req[q].todo)
  <2>1. req[q].pc = "set" /\ req[q].todo # <<>> /\ req[q] \in Request
    BY <1>1 DEF SetRole, Busy, TypeOK
  <2>2. req'[q].pc # "set"
    <3>1. CASE Tail(req[q].todo) = <<>>
      BY <1>1, <3>1, IdleType DEF SetRole, Answer, TypeOK
    <3>2. CASE Tail(req[q].todo) # <<>>
      <4> DEFINE todo == Tail(req[q].todo)
      <4>1. req' = [req EXCEPT ![q].pc = "check", ![q].todo = todo]
        BY <1>1, <3>2 DEF SetRole
      <4> HIDE DEF todo
      <4> QED BY <4>1 DEF TypeOK, Request
    <3> QED BY <3>1, <3>2
  <2>3. ASSUME q \notin stale PROVE FALSE
    <3>1. c.id \notin Owners \/ c.role = "owner" \/ Another(c.id)
      BY <2>1, <2>3 DEF Sound
    <3>2. CASE Another(c.id) \/ c.id \notin Owners
      <4>1. PICK x \in Owners : x # c.id
        BY <1>0, <3>2 DEF Another
      <4>2. member'[x] = member[x]
        BY <1>1, <4>1 DEF SetRole, TypeOK, Owners
      <4> QED BY <4>1, <4>2 DEF Owners, IsMember
    <3>3. CASE c.id \in Owners /\ c.role = "owner"
      <4>1. member' = [member EXCEPT ![c.id].role = c.role]
        BY <1>1, <3>3 DEF SetRole, Owners
      <4>2. c.id \in Ids /\ member[c.id] \in Row
        BY <3>3 DEF Owners, TypeOK
      <4>3. member'[c.id] = [member[c.id] EXCEPT !.role = "owner"]
        BY <3>3, <4>1, <4>2 DEF TypeOK
      <4> HIDE DEF c
      <4>4. c.id \in Owners'
        BY <3>3, <4>2, <4>3 DEF Owners, IsMember, Row
      <4> QED BY <4>4
    <3> QED BY <3>1, <3>2, <3>3
  <2> QED BY <2>1, <2>2, <2>3
<1>2. ASSUME NEW q \in Requests, DeleteRow(q) PROVE q \in stale /\ req'[q] # req[q]
  <2>1. req[q].pc = "delete"
    BY <1>2 DEF DeleteRow
  <2>2. req'[q].pc = "idle"
    BY <1>2, IdleType DEF DeleteRow, Answer, TypeOK
  <2>3. ASSUME q \notin stale PROVE FALSE
    <3>1. req[q].id \notin Owners \/ Another(req[q].id)
      BY <2>1, <2>3 DEF Sound
    <3>2. PICK x \in Owners : x # req[q].id
      BY <1>0, <3>1 DEF Another
    <3>3. member'[x] = member[x]
      BY <1>2, <3>2 DEF DeleteRow, TypeOK, Owners
    <3> QED BY <3>2, <3>3 DEF Owners, IsMember
  <2> QED BY <2>1, <2>2, <2>3
<1>3. ASSUME NEW q \in Requests, AddMember(q) PROVE FALSE
  <2>1. o \in Ids /\ Known(o)
    BY <1>0 DEF Owners, IsMember, Known
  <2>2. member'[o] = member[o]
    BY <1>3, <2>1 DEF AddMember, TypeOK
  <2> QED BY <1>0, <2>2 DEF Owners, IsMember
<1>4. Owners' # Owners
  BY <1>0
<1>5. ~UNCHANGED member
  BY <1>4, SameOwners
<1>6. ~DeleteOrganization
  BY DEF DeleteOrganization
<1>7. \E q \in Requests : SetRole(q) \/ DeleteRow(q) \/ AddMember(q)
  BY <1>5, <1>6 DEF Next, RequestStep, vars, UpdateRole, Transfer, Remove, Accept, Begin,
     Check, ReadTarget, CountOwners, ReadInvitation, MarkExpired, ListMembers,
     MarkAccepted, Die, CreateInvitation, Revoke, Expire
<1> QED BY <1>1, <1>2, <1>3, <1>7 DEF TypeOK

\* An organization that exists loses its last owner only to a race: by the write of a
\* request that counted the owners, who were changed by another one since.
THEOREM LastOwnerOnlyByRace == Spec => LastOwnerLostByRace
<1>1. IInv /\ [Next]_vars =>
        [org' /\ Owners # {} /\ Owners' = {} => \E q \in stale : req'[q] # req[q]]_vars
  BY LosingStep
<1> QED BY IInvAlways, <1>1, PTL DEF Spec, LastOwnerLostByRace

-----------------------------------------------------------------------------
(***************************************************************************)
(* Rows and admissions are counted together with the acceptances that are  *)
(* about to make them.                                                     *)
(***************************************************************************)

\* The acceptances about to add a user; those of an invitation that are about to come in
\* by it, to mark it, or somewhere in between.
Adding(u)  == {q \in Requests : req[q].pc = "add" /\ req[q].user = u}
Coming(i)  == {q \in Requests : req[q].pc \in {"list", "add"} /\ req[q].invite = i}
Marking(i) == {q \in Requests : req[q].pc = "spend" /\ req[q].invite = i}
Around(i)  == {q \in Requests : /\ req[q].pc \in {"invitation", "expire", "list", "add", "spend"}
                               /\ req[q].invite = i}

\* What a user has, and is about to have.
RowsAndAdds == \A u \in Users : Cardinality(RowsOf(u)) + Cardinality(Adding(u)) <= 1 + crossed[u]

\* What an invitation has let in, and is about to: while it is pending, each admission is
\* by an acceptance that is about to mark it or died before it did.  Nobody accepts an
\* invitation before it is there.
Admitted(i) ==
  /\ admitted[i] + Cardinality(Coming(i)) <= 1 + rivals[i] + cut[i]
  /\ invitation[i].status = "pending" => admitted[i] <= cut[i] + Cardinality(Marking(i))
  /\ invitation[i].status = "absent" => admitted[i] = 0 /\ Around(i) = {}
Admissions == \A i \in Invites : Admitted(i)

LEMMA Sizes ==
  ASSUME NEW U, IsFiniteSet(U), NEW S \in SUBSET U, NEW T \in SUBSET U, NEW x
  PROVE  /\ Cardinality(S) \in Nat /\ Cardinality(T) \in Nat
         /\ S \subseteq T => Cardinality(S) <= Cardinality(T)
         /\ S \subseteq T \cup {x} => Cardinality(S) <= Cardinality(T) + 1
         /\ x \in T /\ S \subseteq T \ {x} => Cardinality(S) + 1 <= Cardinality(T)
<1>1. IsFiniteSet(S) /\ IsFiniteSet(T)
  BY FS_Subset
<1>2. Cardinality(S) \in Nat /\ Cardinality(T) \in Nat
  BY <1>1, FS_CardinalityType
<1>3. S \subseteq T => Cardinality(S) <= Cardinality(T)
  BY <1>1, FS_Subset
<1>4. ASSUME S \subseteq T \cup {x} PROVE Cardinality(S) <= Cardinality(T) + 1
  <2>1. IsFiniteSet(T \cup {x}) /\ Cardinality(T \cup {x}) <= Cardinality(T) + 1
    BY <1>1, <1>2, FS_AddElement
  <2>2. Cardinality(S) <= Cardinality(T \cup {x})
    BY <1>4, <2>1, FS_Subset
  <2>3. Cardinality(T \cup {x}) \in Nat
    BY <2>1, FS_CardinalityType
  <2> QED BY <1>2, <2>1, <2>2, <2>3
<1>5. ASSUME x \in T, S \subseteq T \ {x} PROVE Cardinality(S) + 1 <= Cardinality(T)
  <2>1. IsFiniteSet(T \ {x}) /\ Cardinality(T \ {x}) = Cardinality(T) - 1
    BY <1>1, <1>5, FS_RemoveElement
  <2>2. Cardinality(S) <= Cardinality(T \ {x})
    BY <1>5, <2>1, FS_Subset
  <2> QED BY <1>2, <2>1, <2>2
<1> QED BY <1>2, <1>3, <1>4, <1>5

\* Only the request that moves enters or leaves the sets that are counted.
LEMMA OneEnters ==
  ASSUME TypeOK, NEW q \in Requests, NEW r, req' = [req EXCEPT ![q] = r]
  PROVE  /\ \A u \in Users :
              /\ Adding(u) \ {q} = Adding(u)' \ {q}
              /\ q \in Adding(u)' <=> r.pc = "add" /\ r.user = u
         /\ \A i \in Invites :
              /\ Coming(i) \ {q} = Coming(i)' \ {q}
              /\ q \in Coming(i)' <=> r.pc \in {"list", "add"} /\ r.invite = i
              /\ Marking(i) \ {q} = Marking(i)' \ {q}
              /\ q \in Marking(i)' <=> r.pc = "spend" /\ r.invite = i
              /\ Around(i) \ {q} = Around(i)' \ {q}
              /\ q \in Around(i)' <=>
                   r.pc \in {"invitation", "expire", "list", "add", "spend"} /\ r.invite = i
<1>1. req'[q] = r /\ \A p \in Requests \ {q} : req'[p] = req[p]
  BY DEF TypeOK
<1> QED BY <1>1 DEF Adding, Coming, Marking, Around

-----------------------------------------------------------------------------
(* Rows.                                                                   *)

\* Nothing but an acceptance gives a user a row.
LEMMA RowsShrink ==
  ASSUME TypeOK, Busy,
         \/ UNCHANGED member
         \/ \E q \in Requests : SetRole(q) \/ DeleteRow(q)
         \/ DeleteOrganization
  PROVE  \A u \in Users : RowsOf(u)' \subseteq RowsOf(u)
<1>1. CASE UNCHANGED member
  BY <1>1 DEF RowsOf, IsMember
<1>2. ASSUME NEW q \in Requests, SetRole(q)
      PROVE  \A u \in Users : RowsOf(u)' \subseteq RowsOf(u)
  <2> DEFINE c == Head(req[q].todo)
  <2>1. member' = member \/ member' = [member EXCEPT ![c.id].role = c.role]
    BY <1>2 DEF SetRole
  <2> HIDE DEF c
  <2>2. \A id \in Ids : member'[id].at = member[id].at /\ member'[id].user = member[id].user
    BY <2>1 DEF TypeOK, Row
  <2> QED BY <2>2 DEF RowsOf, IsMember
<1>3. ASSUME NEW q \in Requests, DeleteRow(q)
      PROVE  \A u \in Users : RowsOf(u)' \subseteq RowsOf(u)
  <2>1. \A id \in Ids : \/ member'[id] = member[id]
                        \/ member'[id].at = "gone"
    BY <1>3 DEF DeleteRow, TypeOK, Row
  <2> QED BY <2>1 DEF RowsOf, IsMember
<1>4. CASE DeleteOrganization
  <2>1. \A id \in Ids : \/ member'[id] = member[id]
                        \/ member'[id].at = "gone"
    BY <1>4 DEF DeleteOrganization, TypeOK, Row
  <2> QED BY <2>1 DEF RowsOf, IsMember
<1> QED BY <1>1, <1>2, <1>3, <1>4

\* With fewer rows and no one more about to add, the bound stays.
LEMMA FewerAndFewer ==
  ASSUME TypeOK, RowsAndAdds, crossed' = crossed,
         \A u \in Users : RowsOf(u)' \subseteq RowsOf(u) /\ Adding(u)' \subseteq Adding(u)
  PROVE  RowsAndAdds'
<1> SUFFICES ASSUME NEW u \in Users
             PROVE  Cardinality(RowsOf(u)') + Cardinality(Adding(u)') <= 1 + crossed[u]
  BY DEF RowsAndAdds
<1>1. /\ RowsOf(u) \subseteq Ids /\ RowsOf(u)' \subseteq Ids
      /\ Adding(u) \subseteq Requests /\ Adding(u)' \subseteq Requests
  BY DEF RowsOf, Adding
<1>2. /\ Cardinality(RowsOf(u)') <= Cardinality(RowsOf(u))
      /\ Cardinality(RowsOf(u)') \in Nat /\ Cardinality(RowsOf(u)) \in Nat
  BY <1>1, Sizes, ConstantsAssumption
<1>3. /\ Cardinality(Adding(u)') <= Cardinality(Adding(u))
      /\ Cardinality(Adding(u)') \in Nat /\ Cardinality(Adding(u)) \in Nat
  BY <1>1, Sizes, ConstantsAssumption
<1>4. Cardinality(RowsOf(u)) + Cardinality(Adding(u)) <= 1 + crossed[u] /\ crossed[u] \in Nat
  BY DEF RowsAndAdds, TypeOK
<1> QED BY <1>2, <1>3, <1>4

LEMMA NoOneAdds ==
  ASSUME TypeOK, RowsAndAdds, NEW q \in Requests, NEW r, req' = [req EXCEPT ![q] = r],
         r.pc # "add", crossed' = crossed, \A u \in Users : RowsOf(u)' \subseteq RowsOf(u)
  PROVE  RowsAndAdds'
<1>1. ASSUME NEW u \in Users PROVE Adding(u)' \subseteq Adding(u)
  <2>1. Adding(u) \ {q} = Adding(u)' \ {q} /\ ~(q \in Adding(u)')
    BY OneEnters
  <2> QED BY <2>1
<1> QED BY <1>1, FewerAndFewer

\* Every step keeps the bound: an acceptance that finds nobody is counted in the place of
\* the row it will add, and one that finds another about to add is counted as crossed.
LEMMA RowsStep == TypeOK /\ Busy /\ RowsAndAdds /\ [Next]_vars => RowsAndAdds'
<1> SUFFICES ASSUME TypeOK, Busy, RowsAndAdds, [Next]_vars PROVE RowsAndAdds'
  OBVIOUS
<1> USE DEF history
<1>1. ASSUME NEW q \in Requests, UpdateRole(q) \/ Transfer(q) \/ Remove(q) \/ Accept(q)
      PROVE  RowsAndAdds'
  <2>1. PICK r : Begin(q, r) /\ r.pc # "add"
    BY <1>1, BeginMoves
  <2>2. req' = [req EXCEPT ![q] = r] /\ UNCHANGED <<member, crossed>>
    BY <2>1 DEF Begin
  <2> QED BY <2>1, <2>2, RowsShrink, NoOneAdds
<1>2. ASSUME NEW q \in Requests, SetRole(q) PROVE RowsAndAdds'
  <2>1. PICK r : req' = [req EXCEPT ![q] = r] /\ r.pc \in {"idle", "check"}
    BY <1>2, SetRoleMoves
  <2>2. crossed' = crossed /\ \A u \in Users : RowsOf(u)' \subseteq RowsOf(u)
    BY <1>2, RowsShrink DEF SetRole
  <2>3. r.pc # "add"
    BY <2>1
  <2> QED BY <2>1, <2>2, <2>3, NoOneAdds
<1>3. ASSUME NEW q \in Requests,
             DeleteRow(q) \/ MarkExpired(q) \/ MarkAccepted(q) \/ Die(q)
      PROVE  RowsAndAdds'
  <2>1. PICK r : req' = [req EXCEPT ![q] = r] /\ r.pc = "idle"
    BY <1>3, AnswerMoves DEF DeleteRow, MarkExpired, MarkAccepted, Die
  <2>2. UNCHANGED member \/ DeleteRow(q)
    BY <1>3 DEF MarkExpired, MarkAccepted, Die
  <2>3. crossed' = crossed /\ \A u \in Users : RowsOf(u)' \subseteq RowsOf(u)
    BY <1>3, <2>2, RowsShrink DEF DeleteRow, MarkExpired, MarkAccepted, Die
  <2> QED BY <2>1, <2>3, NoOneAdds
<1>4. ASSUME NEW q \in Requests,
             Check(q) \/ ReadTarget(q) \/ CountOwners(q) \/ ReadInvitation(q)
      PROVE  RowsAndAdds'
  <2>1. \/ Answer(q)
        \/ \E pc \in {"set", "count", "delete", "expire", "list"} : Goto(q, pc)
    BY <1>4 DEF Check, ReadTarget, CountOwners, ReadInvitation
  <2>2. PICK r : req' = [req EXCEPT ![q] = r] /\ r.pc # "add"
    BY <2>1, AnswerMoves, GotoMoves
  <2>3. UNCHANGED <<member, crossed>>
    BY <1>4 DEF Check, ReadTarget, CountOwners, ReadInvitation
  <2> QED BY <2>2, <2>3, RowsShrink, NoOneAdds
<1>5. ASSUME NEW q \in Requests, ListMembers(q) PROVE RowsAndAdds'
  <2> DEFINE v == req[q].user
  <2>1. UNCHANGED member /\ v \in Users
    BY <1>5 DEF ListMembers, TypeOK, Request
  <2>2. CASE Existing(v)
    <3>1. PICK r : req' = [req EXCEPT ![q] = r] /\ r.pc = "spend"
      BY <1>5, <2>2, GotoMoves DEF ListMembers
    <3>2. crossed' = crossed
      BY <1>5, <2>2 DEF ListMembers
    <3> QED BY <2>1, <3>1, <3>2, RowsShrink, NoOneAdds
  <2>3. CASE ~Existing(v)
    <3>1. PICK r : req' = [req EXCEPT ![q] = r] /\ r.pc = "add" /\ r.user = v
      BY <1>5, <2>3, GotoMoves DEF ListMembers
    <3>2. crossed' = IF Joining(q, v) = {} THEN crossed ELSE [crossed EXCEPT ![v] = @ + 1]
      BY <1>5, <2>3 DEF ListMembers
    <3>3. req[q].pc = "list"
      BY <1>5 DEF ListMembers
    <3> SUFFICES ASSUME NEW u \in Users
                 PROVE  Cardinality(RowsOf(u)') + Cardinality(Adding(u)') <= 1 + crossed'[u]
      BY DEF RowsAndAdds
    <3>4. RowsOf(u)' = RowsOf(u)
      BY <2>1 DEF RowsOf, IsMember
    <3>5. /\ Adding(u) \subseteq Requests /\ Adding(u)' \subseteq Requests
          /\ RowsOf(u) \subseteq Ids
      BY DEF Adding, RowsOf
    <3>6. /\ Cardinality(Adding(u)) \in Nat /\ Cardinality(Adding(u)') \in Nat
          /\ Cardinality(RowsOf(u)) \in Nat
      BY <3>5, Sizes, ConstantsAssumption
    <3>7. Adding(u) \ {q} = Adding(u)' \ {q} /\ (q \in Adding(u)' <=> u = v)
      BY <3>1, OneEnters
    <3>8. q \notin Adding(u)
      BY <3>3 DEF Adding
    <3>9. Cardinality(RowsOf(u)) + Cardinality(Adding(u)) <= 1 + crossed[u] /\ crossed[u] \in Nat
      BY DEF RowsAndAdds, TypeOK
    <3>10. CASE u # v
      <4>1. Adding(u)' = Adding(u)
        BY <3>7, <3>8, <3>10
      <4>2. crossed'[u] = crossed[u]
        BY <3>2, <3>10, <2>1 DEF TypeOK
      <4> QED BY <3>4, <3>9, <4>1, <4>2
    <3>11. CASE u = v /\ Joining(q, v) = {}
      <4>1. Adding(u) = {}
        BY <3>8, <3>11 DEF Adding, Joining
      <4>2. Adding(u)' = {q}
        BY <3>7, <3>11, <4>1
      <4>3. RowsOf(u) = {}
        BY <2>3, <3>11 DEF Existing
      <4>4. Cardinality({q}) = 1 /\ Cardinality({}) = 0
        BY FS_Singleton, FS_EmptySet
      <4>5. crossed' = crossed
        BY <3>2, <3>11
      <4>6. Cardinality(Adding(u)') = 1 /\ Cardinality(RowsOf(u)') = 0
        BY <3>4, <4>2, <4>3, <4>4
      <4> QED BY <3>9, <4>5, <4>6
    <3>12. CASE u = v /\ Joining(q, v) # {}
      <4>1. crossed'[u] = crossed[u] + 1
        BY <3>2, <3>12, <2>1 DEF TypeOK
      <4>2. Adding(u)' \subseteq Adding(u) \cup {q}
        BY <3>7
      <4>3. Cardinality(Adding(u)') <= Cardinality(Adding(u)) + 1
        BY <3>5, <4>2, Sizes, ConstantsAssumption
      <4> QED BY <3>4, <3>6, <3>9, <4>1, <4>3
    <3> QED BY <3>10, <3>11, <3>12
  <2> QED BY <2>2, <2>3
<1>6. ASSUME NEW q \in Requests, AddMember(q) PROVE RowsAndAdds'
  <2> DEFINE v == req[q].user
  <2>1. v \in Users /\ crossed' = crossed /\ req[q].pc = "add"
    BY <1>6 DEF AddMember, TypeOK, Request
  <2>2. CASE ~org
    <3>1. PICK r : req' = [req EXCEPT ![q] = r] /\ r.pc = "idle"
      BY <1>6, <2>2, AnswerMoves DEF AddMember
    <3>2. UNCHANGED member
      BY <1>6, <2>2 DEF AddMember
    <3> QED BY <2>1, <3>1, <3>2, RowsShrink, NoOneAdds
  <2>3. CASE org
    <3>1. PICK id \in Ids :
             /\ ~Known(id)
             /\ member' = [member EXCEPT ![id] = [at |-> "member", user |-> v,
                                                  role |-> invitation[req[q].invite].role]]
      BY <1>6, <2>3 DEF AddMember
    <3>2. PICK r : req' = [req EXCEPT ![q] = r] /\ r.pc = "spend"
      BY <1>6, <2>3, GotoMoves DEF AddMember
    <3> SUFFICES ASSUME NEW u \in Users
                 PROVE  Cardinality(RowsOf(u)') + Cardinality(Adding(u)') <= 1 + crossed[u]
      BY <2>1 DEF RowsAndAdds
    <3>3. /\ Adding(u) \subseteq Requests /\ Adding(u)' \subseteq Requests
          /\ RowsOf(u) \subseteq Ids /\ RowsOf(u)' \subseteq Ids
      BY DEF Adding, RowsOf
    <3>4. /\ Cardinality(Adding(u)) \in Nat /\ Cardinality(Adding(u)') \in Nat
          /\ Cardinality(RowsOf(u)) \in Nat /\ Cardinality(RowsOf(u)') \in Nat
      BY <3>3, Sizes, ConstantsAssumption
    <3>5. Adding(u) \ {q} = Adding(u)' \ {q} /\ ~(q \in Adding(u)')
      BY <3>2, OneEnters
    <3>6. q \in Adding(u) <=> u = v
      BY <2>1 DEF Adding
    <3>7. RowsOf(u)' \subseteq RowsOf(u) \cup {id} /\ (u # v => RowsOf(u)' \subseteq RowsOf(u))
      BY <3>1 DEF RowsOf, IsMember, TypeOK
    <3>8. Cardinality(RowsOf(u)) + Cardinality(Adding(u)) <= 1 + crossed[u] /\ crossed[u] \in Nat
      BY DEF RowsAndAdds, TypeOK
    <3>9. CASE u = v
      <4>1. Cardinality(RowsOf(u)') <= Cardinality(RowsOf(u)) + 1
        BY <3>3, <3>7, Sizes, ConstantsAssumption
      <4>2. q \in Adding(u) /\ Adding(u)' \subseteq Adding(u) \ {q}
        BY <3>5, <3>6, <3>9
      <4>3. Cardinality(Adding(u)') + 1 <= Cardinality(Adding(u))
        BY <3>3, <4>2, Sizes, ConstantsAssumption
      <4> QED BY <3>4, <3>8, <4>1, <4>3
    <3>10. CASE u # v
      <4>1. Cardinality(RowsOf(u)') <= Cardinality(RowsOf(u))
        BY <3>3, <3>7, <3>10, Sizes, ConstantsAssumption
      <4>2. Adding(u)' \subseteq Adding(u)
        BY <3>5
      <4>3. Cardinality(Adding(u)') <= Cardinality(Adding(u))
        BY <3>3, <4>2, Sizes, ConstantsAssumption
      <4> QED BY <3>4, <3>8, <4>1, <4>3
    <3> QED BY <3>9, <3>10
  <2> QED BY <2>2, <2>3
<1>7. CASE \/ \E i \in Invites : CreateInvitation(i) \/ Revoke(i) \/ Expire(i)
           \/ DeleteOrganization
           \/ UNCHANGED vars
  <2>1. UNCHANGED <<req, crossed>> /\ (UNCHANGED member \/ DeleteOrganization)
    BY <1>7 DEF CreateInvitation, Revoke, Expire, DeleteOrganization, vars
  <2>2. \A u \in Users : Adding(u)' = Adding(u)
    BY <2>1 DEF Adding
  <2> QED BY <2>1, <2>2, RowsShrink, FewerAndFewer
<1> QED BY <1>1, <1>2, <1>3, <1>4, <1>5, <1>6, <1>7 DEF Next, RequestStep

LEMMA RowsInit == Init => RowsAndAdds
<1> SUFFICES ASSUME Init, NEW u \in Users
             PROVE  Cardinality(RowsOf(u)) + Cardinality(Adding(u)) <= 1 + crossed[u]
  BY DEF RowsAndAdds
<1>1. Adding(u) = {}
  BY IdleType DEF Init, Adding
<1>2. \A a, b \in RowsOf(u) : a = b
  BY TeamsAssumption DEF Init, RowsOf, IsMember
<1>3. RowsOf(u) = {} \/ \E a : RowsOf(u) = {a}
  BY <1>2
<1>4. Cardinality(RowsOf(u)) \in {0, 1} /\ Cardinality(Adding(u)) = 0
  BY <1>1, <1>3, FS_EmptySet, FS_Singleton
<1> QED BY <1>4 DEF Init

\* A user has one row, and one more at most for each acceptance that looked for it while
\* another one was about to add it: an acceptance that is made again, after a death or
\* with another invitation, adds nothing (service.ts:272).
THEOREM RowsOnlyByCrossing == Spec => []OneRowPerUser
<1>1. RowsAndAdds /\ TypeOK => OneRowPerUser
  <2> SUFFICES ASSUME RowsAndAdds, TypeOK, NEW u \in Users
               PROVE  Cardinality(RowsOf(u)) <= 1 + crossed[u]
    BY DEF OneRowPerUser
  <2>1. RowsOf(u) \subseteq Ids /\ Adding(u) \subseteq Requests
    BY DEF RowsOf, Adding
  <2>2. Cardinality(RowsOf(u)) \in Nat /\ Cardinality(Adding(u)) \in Nat
    BY <2>1, Sizes, ConstantsAssumption
  <2> QED BY <2>2 DEF RowsAndAdds, TypeOK
<1>2. TypeOK /\ Busy /\ RowsAndAdds /\ [Next]_vars => TypeOK' /\ Busy' /\ RowsAndAdds'
  BY TypeStep, RowsStep
<1> QED BY TypeInit, RowsInit, <1>1, <1>2, PTL DEF Spec

-----------------------------------------------------------------------------
(* Admissions.                                                             *)

LEMMA Counts ==
  ASSUME NEW i
  PROVE  /\ Coming(i) \subseteq Requests /\ Marking(i) \subseteq Requests
         /\ Coming(i)' \subseteq Requests /\ Marking(i)' \subseteq Requests
         /\ Cardinality(Coming(i)) \in Nat /\ Cardinality(Marking(i)) \in Nat
         /\ Cardinality(Coming(i)') \in Nat /\ Cardinality(Marking(i)') \in Nat
<1>1. /\ Coming(i) \subseteq Requests /\ Marking(i) \subseteq Requests
      /\ Coming(i)' \subseteq Requests /\ Marking(i)' \subseteq Requests
  BY DEF Coming, Marking
<1> QED BY <1>1, Sizes, ConstantsAssumption

\* An invitation that is not withdrawn keeps its acceptances, and what it admitted.
LEMMA NothingAdmitted ==
  ASSUME TypeOK, NEW i \in Invites, Admitted(i), Coming(i)' \subseteq Coming(i),
         admitted'[i] = admitted[i], rivals'[i] = rivals[i], cut'[i] = cut[i],
         invitation'[i].status = "pending" =>
           /\ invitation[i].status \in {"pending", "absent"}
           /\ Marking(i) \subseteq Marking(i)' \/ invitation[i].status = "absent",
         invitation'[i].status = "absent" =>
           invitation[i].status = "absent" /\ Around(i)' = {}
  PROVE  Admitted(i)'
<1>1. /\ Cardinality(Coming(i)') <= Cardinality(Coming(i))
      /\ Cardinality(Coming(i)') \in Nat /\ Cardinality(Coming(i)) \in Nat
  BY Counts, Sizes, ConstantsAssumption
<1>2. admitted[i] \in Nat /\ rivals[i] \in Nat /\ cut[i] \in Nat
  BY DEF TypeOK
<1>3. admitted'[i] + Cardinality(Coming(i)') <= 1 + rivals'[i] + cut'[i]
  BY <1>1, <1>2 DEF Admitted
<1>4. ASSUME invitation'[i].status = "pending"
      PROVE  admitted'[i] <= cut'[i] + Cardinality(Marking(i)')
  <2>1. CASE invitation[i].status = "absent"
    BY <1>2, <2>1, Counts DEF Admitted
  <2>2. CASE invitation[i].status = "pending" /\ Marking(i) \subseteq Marking(i)'
    <3>1. Cardinality(Marking(i)) <= Cardinality(Marking(i)')
      BY <2>2, Counts, Sizes, ConstantsAssumption
    <3> QED BY <1>2, <2>2, <3>1, Counts DEF Admitted
  <2> QED BY <1>4, <2>1, <2>2
<1>5. invitation'[i].status = "absent" => admitted'[i] = 0 /\ Around(i)' = {}
  BY DEF Admitted
<1> QED BY <1>3, <1>4, <1>5 DEF Admitted

\* A step by a request that is not about to come in, nor to mark the invitation.
LEMMA OtherMoves ==
  ASSUME TypeOK, NEW i \in Invites, Admitted(i), NEW q \in Requests, NEW r,
         req' = [req EXCEPT ![q] = r], UNCHANGED <<invitation, admitted, rivals, cut>>,
         q \notin Marking(i), r.pc \in {"list", "add"} /\ r.invite = i => q \in Coming(i),
         r.pc \in {"invitation", "expire", "list", "add", "spend"} /\ r.invite = i
           => invitation[i].status # "absent"
  PROVE  Admitted(i)'
<1>1. /\ Coming(i) \ {q} = Coming(i)' \ {q}
      /\ q \in Coming(i)' <=> r.pc \in {"list", "add"} /\ r.invite = i
      /\ Marking(i) \ {q} = Marking(i)' \ {q}
      /\ Around(i) \ {q} = Around(i)' \ {q}
      /\ q \in Around(i)' <=> r.pc \in {"invitation", "expire", "list", "add", "spend"} /\ r.invite = i
  BY OneEnters
<1>2. Coming(i)' \subseteq Coming(i)
  BY <1>1
<1>3. Marking(i) \subseteq Marking(i)'
  BY <1>1
<1>4. invitation[i].status = "absent" => Around(i)' = {}
  BY <1>1 DEF Admitted
<1> QED BY <1>2, <1>3, <1>4, NothingAdmitted

\* Whoever is at an acceptance of an invitation has found it there.
LEMMA AroundIsThere ==
  ASSUME TypeOK, Admissions, NEW q \in Requests,
         req[q].pc \in {"invitation", "expire", "list", "add", "spend"}
  PROVE  req[q].invite \in Invites /\ invitation[req[q].invite].status # "absent"
<1>1. req[q].invite \in Invites
  BY DEF TypeOK, Request
<1>2. q \in Around(req[q].invite)
  BY DEF Around
<1> QED BY <1>1, <1>2 DEF Admissions, Admitted

\* An acceptance comes in, is about to come in, or dies when it was about to mark.
LEMMA ListAdmits ==
  ASSUME TypeOK, Admissions, NEW q \in Requests, ReadInvitation(q), Goto(q, "list")
  PROVE  Admissions'
<1> DEFINE j == req[q].invite
<1> USE DEF history
<1>1. req[q].pc = "invitation" /\ UNCHANGED <<invitation, admitted, cut>>
  BY DEF ReadInvitation
<1>2. j \in Invites /\ q \notin Marking(j) /\ q \notin Coming(j)
  BY <1>1 DEF TypeOK, Request, Marking, Coming
<1>3. req'[q].pc = "list" /\ req[q] \in Request
  BY DEF Goto, TypeOK, Request
<1>4. /\ Open(j)
      /\ rivals' = IF Accepting(q, j, {"list", "add", "spend"}) = {} THEN rivals
                   ELSE [rivals EXCEPT ![j] = @ + 1]
  <2>1. ~Answer(q)
    BY <1>3, IdleType DEF Answer, TypeOK
  <2>2. ~Goto(q, "expire")
    BY <1>3 DEF Goto, TypeOK, Request
  <2> QED BY <2>1, <2>2 DEF ReadInvitation
<1>5. PICK r : req' = [req EXCEPT ![q] = r] /\ r.pc = "list" /\ r.invite = j
  BY GotoMoves
<1> SUFFICES ASSUME NEW i \in Invites PROVE Admitted(i)'
  BY DEF Admissions
<1>6. Admitted(i)
  BY DEF Admissions
<1>7. CASE i # j
  <2>1. rivals'[i] = rivals[i]
    BY <1>2, <1>4, <1>7 DEF TypeOK
  <2>2. /\ Coming(i) \ {q} = Coming(i)' \ {q} /\ ~(q \in Coming(i)')
        /\ Marking(i) \ {q} = Marking(i)' \ {q} /\ q \notin Marking(i)
        /\ Around(i) \ {q} = Around(i)' \ {q} /\ ~(q \in Around(i)')
    BY <1>1, <1>5, <1>7, OneEnters DEF Marking
  <2>3. Coming(i)' \subseteq Coming(i) /\ Marking(i) \subseteq Marking(i)'
    BY <2>2
  <2>4. invitation[i].status = "absent" => Around(i)' = {}
    BY <1>6, <2>2 DEF Admitted
  <2> QED BY <1>1, <1>6, <2>1, <2>3, <2>4, NothingAdmitted
<1>8. CASE i = j
  <2>1. /\ Coming(i) \ {q} = Coming(i)' \ {q}
        /\ Marking(i) \ {q} = Marking(i)' \ {q}
        /\ ~(q \in Marking(i)')
    BY <1>5, OneEnters
  <2>2. Coming(i)' \subseteq Coming(i) \cup {q} /\ Marking(i)' = Marking(i)
    BY <1>2, <1>8, <2>1
  <2>3. Cardinality(Coming(i)') <= Cardinality(Coming(i)) + 1
    BY <2>2, Counts, Sizes, ConstantsAssumption
  <2>4. admitted[i] \in Nat /\ rivals[i] \in Nat /\ cut[i] \in Nat
    BY DEF TypeOK
  <2>5. admitted'[i] + Cardinality(Coming(i)') <= 1 + rivals'[i] + cut'[i]
    <3>1. CASE Accepting(q, j, {"list", "add", "spend"}) = {}
      <4>1. Coming(i) = {} /\ Marking(i) = {}
        BY <1>2, <1>8, <3>1 DEF Accepting, Coming, Marking
      <4>2. Cardinality(Coming(i)) = 0 /\ Cardinality(Marking(i)) = 0
        BY <4>1, FS_EmptySet
      <4>3. admitted[i] <= cut[i]
        BY <1>4, <1>6, <1>8, <2>4, <4>2 DEF Open, Admitted
      <4>4. rivals' = rivals
        BY <1>4, <3>1
      <4> QED BY <1>1, <2>3, <2>4, <4>2, <4>3, <4>4, Counts
    <3>2. CASE Accepting(q, j, {"list", "add", "spend"}) # {}
      <4>1. rivals'[i] = rivals[i] + 1
        BY <1>2, <1>4, <1>8, <3>2 DEF TypeOK
      <4> QED BY <1>1, <1>6, <2>3, <2>4, <4>1, Counts DEF Admitted
    <3> QED BY <3>1, <3>2
  <2>6. Cardinality(Marking(i)') = Cardinality(Marking(i))
    BY <2>2
  <2>7. invitation'[i].status = "pending"
    BY <1>1, <1>4, <1>8 DEF Open
  <2> QED BY <1>1, <1>6, <2>5, <2>6, <2>7 DEF Admitted
<1> QED BY <1>7, <1>8

LEMMA AddAdmits ==
  ASSUME TypeOK, Admissions, NEW q \in Requests, AddMember(q), org
  PROVE  Admissions'
<1> DEFINE j == req[q].invite
<1>1. /\ req[q].pc = "add" /\ UNCHANGED <<invitation, rivals, cut>>
      /\ admitted' = [admitted EXCEPT ![j] = @ + 1]
  BY DEF AddMember
<1>2. j \in Invites /\ invitation[j].status # "absent"
  BY <1>1, AroundIsThere
<1>3. PICK r : req' = [req EXCEPT ![q] = r] /\ r.pc = "spend" /\ r.invite = j
  BY GotoMoves DEF AddMember
<1> SUFFICES ASSUME NEW i \in Invites PROVE Admitted(i)'
  BY DEF Admissions
<1>4. Admitted(i)
  BY DEF Admissions
<1>5. /\ Coming(i) \ {q} = Coming(i)' \ {q} /\ ~(q \in Coming(i)')
      /\ Marking(i) \ {q} = Marking(i)' \ {q} /\ (q \in Marking(i)' <=> i = j)
      /\ Around(i) \ {q} = Around(i)' \ {q} /\ (q \in Around(i)' <=> i = j)
  BY <1>3, OneEnters
<1>6. q \notin Marking(i) /\ (q \in Coming(i) <=> i = j)
  BY <1>1 DEF Marking, Coming
<1>7. CASE i # j
  <2>1. admitted'[i] = admitted[i]
    BY <1>1, <1>2, <1>7 DEF TypeOK
  <2>2. Coming(i)' \subseteq Coming(i) /\ Marking(i) \subseteq Marking(i)'
    BY <1>5, <1>6
  <2>3. invitation[i].status = "absent" => Around(i)' = {}
    BY <1>4, <1>5, <1>7 DEF Admitted
  <2> QED BY <1>1, <1>4, <2>1, <2>2, <2>3, NothingAdmitted
<1>8. CASE i = j
  <2>1. q \in Coming(i) /\ Coming(i)' \subseteq Coming(i) \ {q}
    BY <1>5, <1>6, <1>8
  <2>2. Cardinality(Coming(i)') + 1 <= Cardinality(Coming(i))
    BY <2>1, Counts, Sizes, ConstantsAssumption
  <2>3. (q \in Marking(i)') /\ Marking(i) \subseteq Marking(i)' \ {q}
    BY <1>5, <1>6, <1>8
  <2>4. Cardinality(Marking(i)) + 1 <= Cardinality(Marking(i)')
    BY <2>3, Counts, Sizes, ConstantsAssumption
  <2>5. admitted'[i] = admitted[i] + 1
    BY <1>1, <1>2, <1>8 DEF TypeOK
  <2>6. admitted[i] \in Nat /\ rivals[i] \in Nat /\ cut[i] \in Nat
    BY DEF TypeOK
  <2>7. admitted'[i] + Cardinality(Coming(i)') <= 1 + rivals'[i] + cut'[i]
    BY <1>1, <1>4, <2>2, <2>5, <2>6, Counts DEF Admitted
  <2>8. invitation'[i].status = "pending" => admitted'[i] <= cut'[i] + Cardinality(Marking(i)')
    BY <1>1, <1>4, <2>4, <2>5, <2>6, Counts DEF Admitted
  <2> QED BY <1>1, <1>2, <1>8, <2>7, <2>8 DEF Admitted
<1> QED BY <1>7, <1>8

LEMMA DeathAdmits ==
  ASSUME TypeOK, Admissions, NEW q \in Requests, Die(q), req[q].pc = "spend"
  PROVE  Admissions'
<1> DEFINE j == req[q].invite
<1>1. cut' = [cut EXCEPT ![j] = @ + 1] /\ UNCHANGED <<invitation, admitted, rivals>>
  BY DEF Die
<1>2. j \in Invites /\ invitation[j].status # "absent"
  BY AroundIsThere
<1>3. PICK r : req' = [req EXCEPT ![q] = r] /\ r.pc = "idle"
  BY AnswerMoves DEF Die
<1> SUFFICES ASSUME NEW i \in Invites PROVE Admitted(i)'
  BY DEF Admissions
<1>4. Admitted(i)
  BY DEF Admissions
<1>5. /\ Coming(i) \ {q} = Coming(i)' \ {q} /\ ~(q \in Coming(i)')
      /\ Marking(i) \ {q} = Marking(i)' \ {q}
      /\ Around(i) \ {q} = Around(i)' \ {q} /\ ~(q \in Around(i)')
      /\ (q \in Marking(i) <=> i = j)
  BY <1>3, OneEnters DEF Marking
<1>6. CASE i # j
  <2>1. cut'[i] = cut[i]
    BY <1>1, <1>2, <1>6 DEF TypeOK
  <2>2. Coming(i)' \subseteq Coming(i) /\ Marking(i) \subseteq Marking(i)'
    BY <1>5, <1>6
  <2>3. invitation[i].status = "absent" => Around(i)' = {}
    BY <1>4, <1>5 DEF Admitted
  <2> QED BY <1>1, <1>4, <2>1, <2>2, <2>3, NothingAdmitted
<1>7. CASE i = j
  <2>1. Coming(i)' \subseteq Coming(i)
    BY <1>5
  <2>2. Cardinality(Coming(i)') <= Cardinality(Coming(i))
    BY <2>1, Counts, Sizes, ConstantsAssumption
  <2>3. Marking(i) \subseteq Marking(i)' \cup {q}
    BY <1>5
  <2>4. Cardinality(Marking(i)) <= Cardinality(Marking(i)') + 1
    BY <2>3, Counts, Sizes, ConstantsAssumption
  <2>5. cut'[i] = cut[i] + 1
    BY <1>1, <1>2, <1>7 DEF TypeOK
  <2>6. admitted[i] \in Nat /\ rivals[i] \in Nat /\ cut[i] \in Nat
    BY DEF TypeOK
  <2>7. admitted'[i] + Cardinality(Coming(i)') <= 1 + rivals'[i] + cut'[i]
    BY <1>1, <1>4, <2>2, <2>5, <2>6, Counts DEF Admitted
  <2>8. invitation'[i].status = "pending" => admitted'[i] <= cut'[i] + Cardinality(Marking(i)')
    BY <1>1, <1>4, <2>4, <2>5, <2>6, Counts DEF Admitted
  <2> QED BY <1>1, <1>2, <1>7, <2>7, <2>8 DEF Admitted
<1> QED BY <1>6, <1>7

\* Marking an invitation, whether it is still there or not, never leaves it pending.
LEMMA MarkAdmits ==
  ASSUME TypeOK, Admissions, NEW q \in Requests, MarkExpired(q) \/ MarkAccepted(q)
  PROVE  Admissions'
<1> DEFINE j == req[q].invite
<1> USE DEF history
<1>1. UNCHANGED <<admitted, rivals, cut>> /\ req[q].pc \in {"expire", "spend"}
  BY DEF MarkExpired, MarkAccepted
<1>2. j \in Invites /\ invitation[j].status # "absent"
  BY <1>1, AroundIsThere
<1>3. PICK r : req' = [req EXCEPT ![q] = r] /\ r.pc = "idle"
  BY AnswerMoves DEF MarkExpired, MarkAccepted
<1>4. PICK status \in {"expired", "accepted"} : Mark(j, status)
  BY DEF MarkExpired, MarkAccepted
<1>5. invitation'[j].status \notin {"pending", "absent"}
  BY <1>2, <1>4 DEF Mark, There, TypeOK, Invitation
<1>6. \A i \in Invites : i # j => invitation'[i] = invitation[i]
  BY <1>2, <1>4 DEF Mark, TypeOK
<1> SUFFICES ASSUME NEW i \in Invites PROVE Admitted(i)'
  BY DEF Admissions
<1>7. Admitted(i)
  BY DEF Admissions
<1>8. /\ Coming(i) \ {q} = Coming(i)' \ {q} /\ ~(q \in Coming(i)')
      /\ Marking(i) \ {q} = Marking(i)' \ {q}
      /\ Around(i) \ {q} = Around(i)' \ {q} /\ ~(q \in Around(i)')
  BY <1>3, OneEnters
<1>9. q \in Marking(i) => i = j
  BY DEF Marking
<1>10. Coming(i)' \subseteq Coming(i) /\ (i # j => Marking(i) \subseteq Marking(i)')
  BY <1>8, <1>9
<1>11. invitation'[i].status = "absent" => invitation[i].status = "absent" /\ Around(i)' = {}
  BY <1>5, <1>6, <1>7, <1>8 DEF Admitted
<1>12. invitation'[i].status = "pending" =>
         invitation[i].status = "pending" /\ Marking(i) \subseteq Marking(i)'
  BY <1>5, <1>6, <1>10
<1> QED BY <1>1, <1>7, <1>10, <1>11, <1>12, NothingAdmitted

\* So every step keeps the books of every invitation.
LEMMA AdmissionsStep == TypeOK /\ Busy /\ Admissions /\ [Next]_vars => Admissions'
<1> SUFFICES ASSUME TypeOK, Busy, Admissions, [Next]_vars PROVE Admissions'
  OBVIOUS
<1> USE DEF history
<1>1. ASSUME NEW q \in Requests, UpdateRole(q) \/ Transfer(q) \/ Remove(q) \/ Accept(q)
      PROVE  Admissions'
  <2>1. PICK r : /\ Begin(q, r)
                 /\ \/ r.pc \in {"check", "target"}
                    \/ r.pc = "invitation" /\ invitation[r.invite].status # "absent"
    BY <1>1, BeginMoves
  <2>2. /\ req' = [req EXCEPT ![q] = r] /\ req[q].pc = "idle"
        /\ UNCHANGED <<invitation, admitted, rivals, cut>>
    BY <2>1 DEF Begin
  <2>3. ASSUME NEW i \in Invites PROVE Admitted(i)'
    <3>1. Admitted(i) /\ q \notin Marking(i)
      BY <2>2 DEF Admissions, Marking
    <3> QED BY <2>1, <2>2, <3>1, OtherMoves
  <2> QED BY <2>3 DEF Admissions
<1>2. ASSUME NEW q \in Requests,
             SetRole(q) \/ Check(q) \/ ReadTarget(q) \/ CountOwners(q) \/ DeleteRow(q)
      PROVE  Admissions'
  <2>1. /\ req[q].pc \in {"set", "check", "target", "count", "delete"}
        /\ UNCHANGED <<invitation, admitted, rivals, cut>>
    BY <1>2 DEF SetRole, Check, ReadTarget, CountOwners, DeleteRow
  <2>2. PICK r : req' = [req EXCEPT ![q] = r] /\ r.pc \in {"idle", "check", "set", "count", "delete"}
    <3>1. \/ SetRole(q) \/ Answer(q)
          \/ Goto(q, "set") \/ Goto(q, "count") \/ Goto(q, "delete")
      BY <1>2 DEF Check, ReadTarget, CountOwners, DeleteRow
    <3>2. CASE SetRole(q)
      BY <3>2, SetRoleMoves
    <3>3. CASE Answer(q)
      BY <3>3, AnswerMoves
    <3>4. CASE Goto(q, "set") \/ Goto(q, "count") \/ Goto(q, "delete")
      BY <3>4, GotoMoves
    <3> QED BY <3>1, <3>2, <3>3, <3>4
  <2>3. ASSUME NEW i \in Invites PROVE Admitted(i)'
    <3>1. Admitted(i) /\ q \notin Marking(i)
      BY <2>1 DEF Admissions, Marking
    <3> QED BY <2>1, <2>2, <3>1, OtherMoves
  <2> QED BY <2>3 DEF Admissions
<1>3. ASSUME NEW q \in Requests, ReadInvitation(q) PROVE Admissions'
  <2>1. CASE Goto(q, "list")
    BY <1>3, <2>1, ListAdmits
  <2>2. CASE ~Goto(q, "list")
    <3>1. /\ req[q].pc = "invitation" /\ UNCHANGED <<invitation, admitted, rivals, cut>>
          /\ Answer(q) \/ Goto(q, "expire")
      BY <1>3, <2>2 DEF ReadInvitation
    <3>2. PICK r : /\ req' = [req EXCEPT ![q] = r]
                   /\ \/ r.pc = "idle"
                      \/ r.pc = "expire" /\ r.invite = req[q].invite
      <4>1. CASE Answer(q)
        <5>1. PICK r : req' = [req EXCEPT ![q] = r] /\ r.pc = "idle"
          BY <4>1, AnswerMoves
        <5> QED BY <5>1
      <4>2. CASE Goto(q, "expire")
        <5>1. PICK r : /\ req' = [req EXCEPT ![q] = r]
                       /\ r.pc = "expire" /\ r.invite = req[q].invite
          BY <4>2, GotoMoves
        <5> QED BY <5>1
      <4> QED BY <3>1, <4>1, <4>2
    <3>3. invitation[req[q].invite].status # "absent"
      BY <3>1, AroundIsThere
    <3>4. ASSUME NEW i \in Invites PROVE Admitted(i)'
      <4>1. Admitted(i) /\ q \notin Marking(i)
        BY <3>1 DEF Admissions, Marking
      <4> QED BY <3>1, <3>2, <3>3, <4>1, OtherMoves
    <3> QED BY <3>4 DEF Admissions
  <2> QED BY <2>1, <2>2
<1>4. ASSUME NEW q \in Requests, ListMembers(q) PROVE Admissions'
  <2>1. /\ req[q].pc = "list" /\ UNCHANGED <<invitation, admitted, rivals, cut>>
        /\ Goto(q, "spend") \/ Goto(q, "add")
    BY <1>4 DEF ListMembers
  <2>2. PICK r : /\ req' = [req EXCEPT ![q] = r]
                 /\ r.pc \in {"spend", "add"} /\ r.invite = req[q].invite
    BY <2>1, GotoMoves
  <2>3. invitation[req[q].invite].status # "absent"
    BY <2>1, AroundIsThere
  <2>4. ASSUME NEW i \in Invites PROVE Admitted(i)'
    <3>1. Admitted(i) /\ q \notin Marking(i)
      BY <2>1 DEF Admissions, Marking
    <3>2. r.invite = i => q \in Coming(i)
      BY <2>1, <2>2 DEF Coming
    <3> QED BY <2>1, <2>2, <2>3, <3>1, <3>2, OtherMoves
  <2> QED BY <2>4 DEF Admissions
<1>5. ASSUME NEW q \in Requests, AddMember(q) PROVE Admissions'
  <2>1. CASE org
    BY <1>5, <2>1, AddAdmits
  <2>2. CASE ~org
    <3>1. req[q].pc = "add" /\ UNCHANGED <<invitation, admitted, rivals, cut>> /\ Answer(q)
      BY <1>5, <2>2 DEF AddMember
    <3>2. PICK r : req' = [req EXCEPT ![q] = r] /\ r.pc = "idle"
      BY <3>1, AnswerMoves
    <3>3. ASSUME NEW i \in Invites PROVE Admitted(i)'
      <4>1. Admitted(i) /\ q \notin Marking(i)
        BY <3>1 DEF Admissions, Marking
      <4> QED BY <3>1, <3>2, <4>1, OtherMoves
    <3> QED BY <3>3 DEF Admissions
  <2> QED BY <2>1, <2>2
<1>6. ASSUME NEW q \in Requests, Die(q) PROVE Admissions'
  <2>1. CASE req[q].pc = "spend"
    BY <1>6, <2>1, DeathAdmits
  <2>2. CASE req[q].pc # "spend"
    <3>1. UNCHANGED <<invitation, admitted, rivals, cut>> /\ Answer(q)
      BY <1>6, <2>2 DEF Die
    <3>2. PICK r : req' = [req EXCEPT ![q] = r] /\ r.pc = "idle"
      BY <3>1, AnswerMoves
    <3>3. ASSUME NEW i \in Invites PROVE Admitted(i)'
      <4>1. Admitted(i) /\ q \notin Marking(i)
        BY <2>2 DEF Admissions, Marking
      <4> QED BY <3>1, <3>2, <4>1, OtherMoves
    <3> QED BY <3>3 DEF Admissions
  <2> QED BY <2>1, <2>2
<1>7. CASE \/ \E i \in Invites : CreateInvitation(i) \/ Revoke(i) \/ Expire(i)
           \/ DeleteOrganization
           \/ UNCHANGED vars
  <2>1. UNCHANGED <<req, admitted, rivals, cut>>
    BY <1>7 DEF CreateInvitation, Revoke, Expire, DeleteOrganization, vars
  <2>2. ASSUME NEW i \in Invites
        PROVE  /\ invitation'[i].status = "pending" =>
                    invitation[i].status \in {"pending", "absent"}
               /\ invitation'[i].status = "absent" => invitation[i].status = "absent"
    <3>1. CASE UNCHANGED invitation
      BY <3>1
    <3>2. ASSUME NEW j \in Invites, CreateInvitation(j)
          PROVE  /\ invitation'[i].status = "pending" =>
                      invitation[i].status \in {"pending", "absent"}
                 /\ invitation'[i].status = "absent" => invitation[i].status = "absent"
      BY <3>2 DEF CreateInvitation, TypeOK, Invitation
    <3>3. ASSUME NEW j \in Invites, Revoke(j)
          PROVE  /\ invitation'[i].status = "pending" => invitation[i].status = "pending"
                 /\ invitation'[i].status = "absent" => invitation[i].status = "absent"
      BY <3>3 DEF Revoke, TypeOK, Invitation
    <3>4. CASE DeleteOrganization
      BY <3>4 DEF DeleteOrganization, TypeOK, Invitation
    <3> QED BY <1>7, <3>1, <3>2, <3>3, <3>4 DEF Expire, vars
  <2>3. ASSUME NEW i \in Invites PROVE Admitted(i)'
    <3>1. Admitted(i)
      BY DEF Admissions
    <3>2. Coming(i)' = Coming(i) /\ Marking(i)' = Marking(i) /\ Around(i)' = Around(i)
      BY <2>1 DEF Coming, Marking, Around
    <3>3. invitation[i].status = "absent" => Around(i)' = {}
      BY <3>1, <3>2 DEF Admitted
    <3> QED BY <2>1, <2>2, <3>1, <3>2, <3>3, NothingAdmitted
  <2> QED BY <2>3 DEF Admissions
<1>8. CASE \E q \in Requests : MarkExpired(q) \/ MarkAccepted(q)
  BY <1>8, MarkAdmits
<1> QED BY <1>1, <1>2, <1>3, <1>4, <1>5, <1>6, <1>7, <1>8 DEF Next, RequestStep

LEMMA AdmissionsInit == Init => Admissions
<1> SUFFICES ASSUME Init, NEW i \in Invites PROVE Admitted(i)
  BY DEF Admissions
<1>1. Coming(i) = {} /\ Marking(i) = {} /\ Around(i) = {}
  BY IdleType DEF Init, Coming, Marking, Around
<1>2. Cardinality(Coming(i)) = 0 /\ Cardinality(Marking(i)) = 0
  BY <1>1, FS_EmptySet
<1>3. admitted[i] = 0 /\ rivals[i] = 0 /\ cut[i] = 0
  BY DEF Init
<1> QED BY <1>1, <1>2, <1>3 DEF Admitted

\* An invitation admits one user, and one more at most for each acceptance that read it
\* during another one and for each that died before it marked the invitation; and while
\* it is pending nobody has come in by it, but by an acceptance that is about to mark it
\* or died before it did (service.ts:270).
THEOREM SpentOnce == Spec => []InvitationSpent
<1>1. Admissions /\ TypeOK => InvitationSpent
  <2> SUFFICES ASSUME Admissions, TypeOK, NEW i \in Invites
               PROVE  /\ admitted[i] <= 1 + rivals[i] + cut[i]
                      /\ invitation[i].status = "pending" /\ admitted[i] > 0 /\ cut[i] = 0
                           => \E q \in Requests : req[q].pc = "spend" /\ req[q].invite = i
    BY DEF InvitationSpent
  <2>1. Admitted(i) /\ admitted[i] \in Nat /\ rivals[i] \in Nat /\ cut[i] \in Nat
    BY DEF Admissions, TypeOK
  <2>2. admitted[i] <= 1 + rivals[i] + cut[i]
    BY <2>1, Counts DEF Admitted
  <2>3. ASSUME invitation[i].status = "pending", admitted[i] > 0, cut[i] = 0
        PROVE  \E q \in Requests : req[q].pc = "spend" /\ req[q].invite = i
    <3>1. Cardinality(Marking(i)) # 0
      BY <2>1, <2>3, Counts DEF Admitted
    <3>2. Marking(i) # {}
      BY <3>1, FS_EmptySet
    <3> QED BY <3>2 DEF Marking
  <2> QED BY <2>2, <2>3
<1>2. TypeOK /\ Busy /\ Admissions /\ [Next]_vars => TypeOK' /\ Busy' /\ Admissions'
  BY TypeStep, AdmissionsStep
<1> QED BY TypeInit, AdmissionsInit, <1>1, <1>2, PTL DEF Spec
=============================================================================
