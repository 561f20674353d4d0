------------------------------- MODULE Members -------------------------------
(***************************************************************************)
(* packages/features/src/members/service.ts: the members of one            *)
(* organization, their roles and its invitations, and the actions of the   *)
(* team page (apps/web/app/routes/team.tsx) that call it.                  *)
(*                                                                         *)
(* Every statement is awaited and no transaction spans two: a role is      *)
(* changed, or a member removed, some time after the owners were counted,  *)
(* and an invitation is marked some time after it was read.  Who may do    *)
(* what is not decided here: the page asks for a role only before a        *)
(* transfer (team.tsx:144), which only an owner may begin; what else it    *)
(* keeps from others it keeps by hiding buttons, so any other request may  *)
(* come.  The audit trail is left out: a record that throws ends the       *)
(* request where Die does.                                                 *)
(***************************************************************************)
EXTENDS Naturals, FiniteSets, Sequences

CONSTANTS
  Users,
  Ids,          \* primary keys of member rows; they are not used again
  Invites,      \* primary keys of invitations
  Teams,        \* what the member table may hold to begin with
  Requests,     \* requests that may be in progress together
  MaxRequests   \* bound: requests that come

Roles == {"owner", "admin", "member"}
Row == [at : {"absent", "member", "gone"}, user : Users, role : Roles]

ASSUME ConstantsAssumption ==
  /\ IsFiniteSet(Ids) /\ Users # {} /\ Ids # {} /\ Invites # {}
  /\ Teams \subseteq [Ids -> Row]
  /\ IsFiniteSet(Requests) /\ MaxRequests \in Nat

\* A user has one row to begin with: onboarding adds its creator's (onboarding.server.ts:93),
\* the seed of the team page those of different users (members.server.ts:255).
ASSUME TeamsAssumption == \A team \in Teams : \A a, b \in Ids :
  team[a].at = "member" /\ team[b].at = "member" /\ team[a].user = team[b].user => a = b

VARIABLES
  org,         \* the organization exists
  member,      \* the member table
  invitation,  \* the invitation table
  late,        \* invitations past their expiresAt
  req,         \* the requests in progress
  begun,
  stale,       \* history: requests that counted owners, who have changed since
  crossed,     \* history: user -> acceptances that looked for it during another one
  admitted,    \* history: invitation -> rows it added
  rivals,      \* history: invitation -> acceptances that read it during another one
  cut          \* history: invitation -> acceptances that died before they marked it

history == <<crossed, admitted, rivals, cut>>
vars == <<org, member, invitation, late, req, begun, stale, history>>

-----------------------------------------------------------------------------
Statuses   == {"absent", "pending", "accepted", "expired", "revoked", "gone"}
Invitation == [status : Statuses, to : Users, role : Roles \ {"owner"}]
Change     == [id : Ids, role : Roles]

\* `todo` are the calls of updateRole still to make, the current one first.
Request == [pc : {"idle", "check", "set", "target", "count", "delete",
                  "invitation", "expire", "list", "add", "spend"},
            todo : Seq(Change), id : Ids, invite : Invites, user : Users]

Idle == [pc |-> "idle", todo |-> <<>>, id |-> CHOOSE id \in Ids : TRUE,
         invite |-> CHOOSE i \in Invites : TRUE, user |-> CHOOSE u \in Users : TRUE]

IsMember(id) == member[id].at = "member"
Owners       == {id \in Ids : IsMember(id) /\ member[id].role = "owner"}
RowsOf(u)    == {id \in Ids : IsMember(id) /\ member[id].user = u}
Known(id)    == member[id].at # "absent"

Goto(q, pc) == req' = [req EXCEPT ![q].pc = pc]
Answer(q)   == req' = [req EXCEPT ![q] = Idle]

Begin(q, r) ==
  /\ req[q].pc = "idle" /\ begun < MaxRequests
  /\ begun' = begun + 1
  /\ req' = [req EXCEPT ![q] = r]
  /\ UNCHANGED <<org, member, invitation, late, stale, history>>

-----------------------------------------------------------------------------
(* Roles and removals.                                                     *)

UpdateRole(q) == \E id \in Ids, role \in Roles :
  /\ Known(id)
  /\ Begin(q, [Idle EXCEPT !.pc = "check", !.todo = <<[id |-> id, role |-> role]>>])

\* The team page: promote the target, then step down, by the row that was read.
Transfer(q) == \E self \in Owners, id \in Ids :
  /\ Known(id)
  /\ Begin(q, [Idle EXCEPT !.pc = "check",
                 !.todo = <<[id |-> id, role |-> "owner"], [id |-> self, role |-> "admin"]>>])

\* removeMember and leaveOrganization, which differ in what they say.
Remove(q) == \E id \in Ids :
  Known(id) /\ Begin(q, [Idle EXCEPT !.pc = "target", !.id = id])

\* Mutant: any other member will do.
OneMemberLeft(id) == id \in Owners /\ Cardinality({x \in Ids : IsMember(x)}) = 1
OneOwnerLeft(id) == id \in Owners /\ Cardinality(Owners) = 1

\* updateRole lists the members, and refuses to demote the last owner.
Check(q) ==
  /\ req[q].pc = "check"
  /\ LET c == Head(req[q].todo)
     IN  IF ~IsMember(c.id) \/ (OneOwnerLeft(c.id) /\ c.role # "owner")
         THEN Answer(q) ELSE Goto(q, "set")
  /\ stale' = stale \ {q}
  /\ UNCHANGED <<org, member, invitation, late, begun, history>>

\* A write that changes who owns the organization: what others counted is stale.
Overtakes(q) ==
  stale' = IF Owners' = Owners THEN stale ELSE stale \cup (Requests \ {q})

SetRole(q) ==
  /\ req[q].pc = "set"
  /\ LET c == Head(req[q].todo)
     IN  member' = IF IsMember(c.id) THEN [member EXCEPT ![c.id].role = c.role] ELSE member
  /\ IF Tail(req[q].todo) = <<>> THEN Answer(q)
     ELSE req' = [req EXCEPT ![q].pc = "check", ![q].todo = Tail(@)]
  /\ Overtakes(q)
  /\ UNCHANGED <<org, invitation, late, begun, history>>

\* assertNotLastOwner: the row first, and the owners only if it is one of them.
ReadTarget(q) ==
  /\ req[q].pc = "target"
  /\ IF ~IsMember(req[q].id) THEN Answer(q)
     ELSE Goto(q, IF req[q].id \in Owners THEN "count" ELSE "delete")
  /\ stale' = stale \ {q}
  /\ UNCHANGED <<org, member, invitation, late, begun, history>>

CountOwners(q) ==
  /\ req[q].pc = "count"
  /\ IF Cardinality(Owners) = 1 THEN Answer(q) ELSE Goto(q, "delete")
  /\ stale' = stale \ {q}
  /\ UNCHANGED <<org, member, invitation, late, begun, history>>

DeleteRow(q) ==
  /\ req[q].pc = "delete"
  /\ member' = IF IsMember(req[q].id) THEN [member EXCEPT ![req[q].id].at = "gone"] ELSE member
  /\ Answer(q)
  /\ Overtakes(q)
  /\ UNCHANGED <<org, invitation, late, begun, history>>

\* Members and invitations go with it, by the foreign keys.
DeleteOrganization ==
  /\ org
  /\ org' = FALSE
  /\ member' = [id \in Ids |-> IF Known(id) THEN [member[id] EXCEPT !.at = "gone"] ELSE member[id]]
  /\ invitation' = [i \in Invites |-> IF invitation[i].status = "absent" THEN invitation[i]
                                      ELSE [invitation[i] EXCEPT !.status = "gone"]]
  /\ UNCHANGED <<late, req, begun, stale, history>>

-----------------------------------------------------------------------------
(* Invitations.                                                            *)

There(i) == invitation[i].status \notin {"absent", "gone"}

CreateInvitation(i) ==
  /\ org /\ invitation[i].status = "absent"
  /\ \E u \in Users, role \in Roles \ {"owner"} :
       invitation' = [invitation EXCEPT ![i] = [status |-> "pending", to |-> u, role |-> role]]
  /\ UNCHANGED <<org, member, late, req, begun, stale, history>>

\* Whatever its status: only the organization is compared.
Revoke(i) ==
  /\ There(i)
  /\ invitation' = [invitation EXCEPT ![i].status = "revoked"]
  /\ UNCHANGED <<org, member, late, req, begun, stale, history>>

Expire(i) ==
  /\ There(i)
  /\ late' = late \cup {i}
  /\ UNCHANGED <<org, member, invitation, req, begun, stale, history>>

Accept(q) == \E i \in Invites, u \in Users :
  /\ invitation[i].status # "absent"
  /\ Begin(q, [Idle EXCEPT !.pc = "invitation", !.invite = i, !.user = u])

\* The other acceptances of an invitation, or by a user, at some points.
Accepting(q, i, pcs) == {p \in Requests \ {q} : req[p].pc \in pcs /\ req[p].invite = i}
Joining(q, u)        == {p \in Requests \ {q} : req[p].pc = "add" /\ req[p].user = u}

\* Mutant: an invitation that was accepted still opens.
NotWithdrawn(i) == invitation[i].status \in {"pending", "accepted"}
Open(i) == invitation[i].status = "pending"

ReadInvitation(q) ==
  /\ req[q].pc = "invitation"
  /\ LET i == req[q].invite
     IN  \/ ~Open(i) /\ Answer(q) /\ UNCHANGED rivals
         \/ Open(i) /\ i \in late /\ Goto(q, "expire") /\ UNCHANGED rivals
         \* An address was given, and it is not the one invited.
         \/ /\ Open(i) /\ i \notin late /\ req[q].user # invitation[i].to
            /\ Answer(q) /\ UNCHANGED rivals
         \/ /\ Open(i) /\ i \notin late
            /\ Goto(q, "list")
            /\ rivals' = IF Accepting(q, i, {"list", "add", "spend"}) = {} THEN rivals
                         ELSE [rivals EXCEPT ![i] = @ + 1]
  /\ UNCHANGED <<org, member, invitation, late, begun, stale, crossed, admitted, cut>>

\* An update by id, of a row that may be gone.
Mark(i, status) ==
  invitation' = IF There(i) THEN [invitation EXCEPT ![i].status = status] ELSE invitation

MarkExpired(q) ==
  /\ req[q].pc = "expire"
  /\ Mark(req[q].invite, "expired")
  /\ Answer(q)
  /\ UNCHANGED <<org, member, late, begun, stale, history>>

\* Mutant: nobody is found.
NeverExisting(u) == FALSE
Existing(u) == RowsOf(u) # {}

ListMembers(q) ==
  /\ req[q].pc = "list"
  /\ LET u == req[q].user
     IN  \/ Existing(u) /\ Goto(q, "spend") /\ UNCHANGED crossed
         \/ /\ ~Existing(u) /\ Goto(q, "add")
            /\ crossed' = IF Joining(q, u) = {} THEN crossed ELSE [crossed EXCEPT ![u] = @ + 1]
  /\ UNCHANGED <<org, member, invitation, late, begun, stale, admitted, rivals, cut>>

\* The row refers to the organization: without it the insert throws.
AddMember(q) ==
  /\ req[q].pc = "add"
  /\ LET i == req[q].invite
     IN  \/ ~org /\ Answer(q) /\ UNCHANGED <<member, admitted>>
         \/ /\ org
            /\ \E id \in Ids :
                 /\ ~Known(id)
                 /\ member' = [member EXCEPT ![id] = [at |-> "member", user |-> req[q].user,
                                                      role |-> invitation[i].role]]
            /\ admitted' = [admitted EXCEPT ![i] = @ + 1]
            /\ Goto(q, "spend")
  /\ UNCHANGED <<org, invitation, late, begun, stale, crossed, rivals, cut>>

MarkAccepted(q) ==
  /\ req[q].pc = "spend"
  /\ Mark(req[q].invite, "accepted")
  /\ Answer(q)
  /\ UNCHANGED <<org, member, late, begun, stale, history>>

-----------------------------------------------------------------------------
\* A statement fails, the audit sink throws, or the process dies.
Die(q) ==
  /\ req[q].pc # "idle"
  /\ Answer(q)
  /\ cut' = IF req[q].pc = "spend" THEN [cut EXCEPT ![req[q].invite] = @ + 1] ELSE cut
  /\ UNCHANGED <<org, member, invitation, late, begun, stale, crossed, admitted, rivals>>

Init ==
  /\ org = TRUE
  /\ member \in Teams
  /\ invitation = [i \in Invites |-> [status |-> "absent", to |-> CHOOSE u \in Users : TRUE,
                                      role |-> "member"]]
  /\ late = {}
  /\ req = [q \in Requests |-> Idle]
  /\ begun = 0 /\ stale = {}
  /\ crossed = [u \in Users |-> 0]
  /\ admitted = [i \in Invites |-> 0] /\ rivals = [i \in Invites |-> 0]
  /\ cut = [i \in Invites |-> 0]

RequestStep(q) ==
  \/ UpdateRole(q) \/ Transfer(q) \/ Check(q) \/ SetRole(q)
  \/ Remove(q) \/ ReadTarget(q) \/ CountOwners(q) \/ DeleteRow(q)
  \/ Accept(q) \/ ReadInvitation(q) \/ MarkExpired(q) \/ ListMembers(q)
  \/ AddMember(q) \/ MarkAccepted(q) \/ Die(q)

Next ==
  \/ \E q \in Requests : RequestStep(q)
  \/ \E i \in Invites : CreateInvitation(i) \/ Revoke(i) \/ Expire(i)
  \/ DeleteOrganization

Spec == Init /\ [][Next]_vars

-----------------------------------------------------------------------------
(* Properties                                                              *)

\* Every variable has its type.
TypeOK ==
  /\ org \in BOOLEAN
  /\ member \in [Ids -> Row]
  /\ invitation \in [Invites -> Invitation]
  /\ late \subseteq Invites
  /\ req \in [Requests -> Request]
  /\ begun \in 0..MaxRequests
  /\ stale \subseteq Requests
  /\ crossed \in [Users -> Nat]
  /\ admitted \in [Invites -> Nat] /\ rivals \in [Invites -> Nat] /\ cut \in [Invites -> Nat]

\* An organization that exists loses its last owner only to a race: by the write of a
\* request that counted the owners, who were changed by another one since.  A transfer,
\* its failure half way, and any requests one after the other keep one (service.ts:10-11,
\* "an organization can never lose its last owner").
LastOwnerLostByRace ==
  [][org' /\ Owners # {} /\ Owners' = {} => \E q \in stale : req'[q] # req[q]]_vars

\* A user has one row, and one more at most for each acceptance that looked for it
\* while another one was about to add it: an acceptance that is made again, after a
\* death or with another invitation, adds nothing (service.ts:272, "Idempotent for a
\* user who is already a member").
OneRowPerUser == \A u \in Users : Cardinality(RowsOf(u)) <= 1 + crossed[u]

\* An invitation admits one user, and one more at most for each acceptance that read it
\* during another one and for each that died before it marked the invitation; and while
\* it is pending nobody has come in by it, but by an acceptance that is about to mark it
\* or died before it did (service.ts:270, "Rejects a missing/spent/expired invite").
InvitationSpent == \A i \in Invites :
  /\ admitted[i] <= 1 + rivals[i] + cut[i]
  /\ invitation[i].status = "pending" /\ admitted[i] > 0 /\ cut[i] = 0
       => \E q \in Requests : req[q].pc = "spend" /\ req[q].invite = i
=============================================================================
