-------------------------------- MODULE Owners --------------------------------
(***************************************************************************)
(* Who administers an organization.  The guards read the caller's row,     *)
(* the handler reads the target's row, counts the other owners where the   *)
(* target is one, and updates the target by its id: four accesses to the   *)
(* users table, between which other calls write it.                        *)
(*                                                                         *)
(* A call is stale once another call has written the table after it has    *)
(* found its target: the rules are promised to calls that are not.         *)
(***************************************************************************)
EXTENDS Requests

CONSTANT Users  \* identities of users rows

ASSUME OwnersAssumption == None \notin Users

VARIABLES user,     \* user[u]: a row of users
          userCall  \* userCall[c]: an API call

ownersVars == <<user, userCall>>

Roles == {"owner", "admin", "member"}

UserRecord == [status: {"absent", "invited", "active", "disabled"}, role: Roles]

UserOps == {"none", "inviteUser", "changeUserRole", "disableUser", "enableUser",
            "deleteAccount", "resetPassword"}

\* by: the role the guard found; next: the role that is asked for.
UserCallRecord ==
  [pc: {"idle", "find", "count", "write"}, op: UserOps, actor: Users \cup {None},
   by: Roles, target: Users \cup {None}, next: Roles, stale: BOOLEAN]

NoUserCall == [pc |-> "idle", op |-> "none", actor |-> None, by |-> "member", target |-> None,
               next |-> "member", stale |-> FALSE]

\* Among the types: what is written is written to a row, and only owners ask for owners.
OwnersTypeOK ==
  /\ user \in [Users -> UserRecord]
  /\ userCall \in [Calls -> UserCallRecord]
  /\ \A c \in Calls : userCall[c].pc # "idle" =>
       /\ userCall[c].actor \in Users /\ userCall[c].target \in Users
       /\ userCall[c].op # "none"

\* The owners that assertNotLastOwner counts.
IsOwner(u) == user[u].role = "owner" /\ user[u].status \in {"invited", "active"}

Owners == {u \in Users : IsOwner(u)}

\* registration has made the first owner.
OwnersInit ==
  /\ \E o \in Users :
       user = [u \in Users |-> IF u = o THEN [status |-> "active", role |-> "owner"]
                                        ELSE [status |-> "absent", role |-> "member"]]
  /\ userCall = [c \in Calls |-> NoUserCall]

UserCallAt(c, pc) == userCall[c].pc = pc

UserCallGoto(c, pc) == userCall' = [userCall EXCEPT ![c].pc = pc]

UserCallRespond(c) == userCall' = [userCall EXCEPT ![c] = NoUserCall]

\* The update of a row, and the end of the call.
WriteUser(c, row) ==
  /\ user' = [user EXCEPT ![userCall[c].target] = row]
  /\ userCall' = [d \in Calls |-> IF d = c THEN NoUserCall
                                  ELSE IF UserCallAt(d, "idle") THEN userCall[d]
                                  ELSE [userCall[d] EXCEPT !.stale = TRUE]]
-----------------------------------------------------------------------------
\* JwtAuthGuard and RolesGuard: the caller is active, and an owner or admin
\* where the route asks for one.
CanActivate(u, op) ==
  /\ user[u].status = "active"
  /\ op # "deleteAccount" => user[u].role \in {"owner", "admin"}

RequestUser(c, op, u, t, r) ==
  /\ UserCallAt(c, "idle") /\ CanActivate(u, op)
  /\ op \in UserOps \ {"none", "resetPassword"}
  /\ op = "deleteAccount" => t = u
  /\ op \notin {"changeUserRole", "inviteUser"} => r = "member"
  /\ userCall' = [userCall EXCEPT ![c] = [pc |-> "find", op |-> op, actor |-> u,
                                          by |-> user[u].role, target |-> t, next |-> r,
                                          stale |-> FALSE]]
  /\ UNCHANGED user

\* Bug: anybody who may change roles may change an owner's.
BoundaryDropped(by, role) == TRUE

\* assertOwnerRoleBoundary: what concerns owners is for owners.
AssertOwnerRoleBoundary(by, role) == role = "owner" => by = "owner"

\* inviteUser: the address is new.
Invite(c) ==
  /\ UserCallAt(c, "find") /\ userCall[c].op = "inviteUser"
  /\ IF /\ user[userCall[c].target].status = "absent"
        /\ AssertOwnerRoleBoundary(userCall[c].by, userCall[c].next)
     THEN WriteUser(c, [status |-> "invited", role |-> userCall[c].next])
     ELSE UserCallRespond(c) /\ UNCHANGED user

\* Whether the call takes an owner away.
TakesOwner(c) ==
  /\ user[userCall[c].target].role = "owner"
  /\ \/ userCall[c].op \in {"disableUser", "deleteAccount"}
     \/ userCall[c].op = "changeUserRole" /\ userCall[c].next # "owner"

\* What the handler may do to the target it has found.
Allowed(c) ==
  LET target == user[userCall[c].target]
  IN /\ target.status # "absent"
     /\ userCall[c].op # "deleteAccount" => AssertOwnerRoleBoundary(userCall[c].by, target.role)
     /\ userCall[c].op = "changeUserRole" =>
          /\ AssertOwnerRoleBoundary(userCall[c].by, userCall[c].next)
          /\ ~(userCall[c].target = userCall[c].actor /\ userCall[c].next = "owner")

FindUserInOrganization(c) ==
  /\ UserCallAt(c, "find") /\ userCall[c].op # "inviteUser"
  /\ IF ~Allowed(c) THEN UserCallRespond(c)
     ELSE userCall' = [userCall EXCEPT ![c].pc = IF TakesOwner(c) THEN "count" ELSE "write",
                                       ![c].stale = FALSE]
  /\ UNCHANGED user

\* Bug: owners who were disabled count.
CountDisabled(c) ==
  /\ UserCallAt(c, "count")
  /\ IF \E u \in Users \ {userCall[c].target} : user[u].role = "owner" /\ user[u].status # "absent"
     THEN UserCallGoto(c, "write") ELSE UserCallRespond(c)
  /\ UNCHANGED user

AssertNotLastOwner(c) ==
  /\ UserCallAt(c, "count")
  /\ IF Owners \ {userCall[c].target} # {} THEN UserCallGoto(c, "write") ELSE UserCallRespond(c)
  /\ UNCHANGED user

UpdateUser(c) ==
  LET row == user[userCall[c].target]
  IN /\ UserCallAt(c, "write")
     /\ \/ userCall[c].op = "changeUserRole" /\ WriteUser(c, [row EXCEPT !.role = userCall[c].next])
        \/ userCall[c].op \in {"disableUser", "deleteAccount"}
           /\ WriteUser(c, [row EXCEPT !.status = "disabled"])
        \/ userCall[c].op \in {"enableUser", "resetPassword"}
           /\ WriteUser(c, [row EXCEPT !.status = "active"])

\* Bug: a link that matches nobody is taken.
ResetAnybody(c, u) ==
  /\ UserCallAt(c, "idle")
  /\ userCall' = [userCall EXCEPT ![c] =
       [NoUserCall EXCEPT !.pc = "write", !.op = "resetPassword"]]
  /\ UNCHANGED user

\* AuthService.resetPassword, through the link of an invitation or a lost
\* password: it finds a user who is not disabled and makes the user active.
ResetPassword(c, u) ==
  /\ UserCallAt(c, "idle") /\ user[u].status \in {"invited", "active"}
  /\ userCall' = [userCall EXCEPT ![c] =
       [NoUserCall EXCEPT !.pc = "write", !.op = "resetPassword", !.actor = u, !.target = u]]
  /\ UNCHANGED user

OwnersNext ==
  \E c \in Calls :
    \/ \E op \in UserOps, u, t \in Users, r \in Roles : RequestUser(c, op, u, t, r)
    \/ \E u \in Users : ResetPassword(c, u)
    \/ Invite(c) \/ FindUserInOrganization(c) \/ AssertNotLastOwner(c) \/ UpdateUser(c)

OwnersSpec == OwnersInit /\ [][OwnersNext]_ownersVars
-----------------------------------------------------------------------------
\* The call that has made the step is over.
UserCallEnds(c) == userCall[c].pc # "idle" /\ userCall'[c].pc = "idle"

\* The organization loses its last owner, disabled owners aside, only to a call
\* that another call has overtaken: two owners who demote, disable or delete each
\* other or themselves (assertNotLastOwner, deleteAccount count before the update).
OwnerRemains ==
  [][Owners # {} /\ Owners' = {} => \E c \in Calls : UserCallEnds(c) /\ userCall[c].stale]_ownersVars

\* Somebody becomes an owner only through somebody else who was one when the
\* call began, by invitation or by a change of role.
OwnersAreNamedByOwners ==
  \A u \in Users : user[u].role # "owner" /\ user'[u].role = "owner" =>
    \E c \in Calls : UserCallEnds(c) /\ userCall[c].by = "owner" /\ userCall[c].actor # u

\* An owner is demoted, disabled or enabled by an owner or by the owner's own
\* doing, unless the call had read the target before it became an owner.
OwnersAnswerToOwners ==
  \A u \in Users : user[u].role = "owner" /\ user'[u] # user[u] =>
    \E c \in Calls :
      /\ UserCallEnds(c)
      /\ userCall[c].by = "owner" \/ userCall[c].actor = u \/ userCall[c].stale

\* Owners are made and unmade by owners, whatever other calls do between the
\* guard, the read of the target and its update (assertOwnerRoleBoundary).
OwnersRuleOwners == [][OwnersAreNamedByOwners /\ OwnersAnswerToOwners]_ownersVars
=============================================================================
