------------------------- MODULE AdministrationProofs -------------------------
(***************************************************************************)
(* What the calls of administrators may do to the rows of an organization, *)
(* for any number of them.  Every part rests on one argument: what a call  *)
(* has been allowed on the strength of what it has read still holds of the *)
(* rows as they are, unless another call has written them since.           *)
(***************************************************************************)
EXTENDS Administration, TLAPS

(***************************************************************************)
(* Owners: who may take owners away and make them.                         *)
(***************************************************************************)
\* Another owner remains when a fresh call takes one away.
OtherOwner ==
  \A c \in Calls : UserCallAt(c, "write") /\ ~userCall[c].stale /\ TakesOwner(c) =>
    Owners \ {userCall[c].target} # {}

\* Only an owner has been allowed to name somebody else.
NamedByOwner ==
  \A c \in Calls : userCall[c].pc \in {"count", "write"} /\ userCall[c].op = "changeUserRole" /\ userCall[c].next = "owner" =>
    userCall[c].by = "owner" /\ userCall[c].actor # userCall[c].target

\* Only owners, or the owner, have been allowed to touch an owner.
TouchedByOwner ==
  \A c \in Calls :
    userCall[c].pc \in {"count", "write"} /\ ~userCall[c].stale /\ user[userCall[c].target].role = "owner" =>
      userCall[c].by = "owner" \/ userCall[c].actor = userCall[c].target

\* Rows are never deleted: who was found is still there, and nobody else is an owner.
RowsStay ==
  /\ \A u \in Users : user[u].status = "absent" => user[u].role = "member"
  /\ \A c \in Calls :
       /\ userCall[c].pc # "idle" => user[userCall[c].actor].status # "absent"
       /\ userCall[c].pc \in {"count", "write"} => user[userCall[c].target].status # "absent"

\* Accounts are deleted by their users.
DeletedBySelf ==
  \A c \in Calls : userCall[c].op = "deleteAccount" => userCall[c].actor = userCall[c].target

OwnersInv == DeletedBySelf /\ RowsStay /\ OwnersTypeOK /\ OtherOwner /\ NamedByOwner /\ TouchedByOwner

LEMMA InitInv == OwnersInit => OwnersInv
<1> SUFFICES ASSUME OwnersInit PROVE OwnersInv
  OBVIOUS
<1>1. NoUserCall \in UserCallRecord
  BY DEF NoUserCall, UserCallRecord, Roles, UserOps
<1>2. user \in [Users -> UserRecord]
  BY DEF OwnersInit, UserRecord, Roles
<1>3. \A c \in Calls : userCall[c] = NoUserCall
  BY DEF OwnersInit
<1>5. \A u \in Users : user[u].status = "absent" => user[u].role = "member"
  BY DEF OwnersInit
<1>4. userCall \in [Calls -> UserCallRecord]
  BY <1>1 DEF OwnersInit
<1> QED
  BY <1>2, <1>3, <1>4, <1>5 DEF OwnersInv, OwnersTypeOK, OtherOwner, NamedByOwner, TouchedByOwner,
                          DeletedBySelf, RowsStay, UserCallAt, NoUserCall

\* A step that writes no row keeps the invariant if what it does to its own call is allowed.
LEMMA QuietStep ==
  ASSUME OwnersInv, NEW c \in Calls, NEW r \in UserCallRecord,
         UNCHANGED user, userCall' = [userCall EXCEPT ![c] = r],
         r.pc # "idle" => r.actor \in Users /\ r.target \in Users /\ r.op # "none",
         r.op = "deleteAccount" => r.actor = r.target,
         r.pc # "idle" => user[r.actor].status # "absent",
         r.pc \in {"count", "write"} => user[r.target].status # "absent",
         r.pc = "write" /\ ~r.stale /\ TakesOwner(c)' => Owners \ {r.target} # {},
         r.pc \in {"count", "write"} =>
           /\ r.op = "changeUserRole" /\ r.next = "owner" => r.by = "owner" /\ r.actor # r.target
           /\ ~r.stale /\ user[r.target].role = "owner" => r.by = "owner" \/ r.actor = r.target
  PROVE OwnersInv'
<1> USE DEF OwnersInv
<1>1. userCall'[c] = r /\ \A d \in Calls \ {c} : userCall'[d] = userCall[d]
  BY DEF OwnersTypeOK
<1>2. OwnersTypeOK'
  BY <1>1 DEF OwnersTypeOK
<1>3. Owners' = Owners
  BY DEF Owners, IsOwner
<1>4. OtherOwner'
  <2> SUFFICES ASSUME NEW d \in Calls, UserCallAt(d, "write")', ~userCall'[d].stale, TakesOwner(d)'
               PROVE Owners' \ {userCall'[d].target} # {}
    BY DEF OtherOwner
  <2>1. CASE d = c
    BY <2>1, <1>1, <1>3 DEF UserCallAt
  <2>2. CASE d # c
    BY <2>2, <1>1, <1>3 DEF UserCallAt, OtherOwner, TakesOwner
  <2> QED
    BY <2>1, <2>2
<1>5. NamedByOwner' /\ TouchedByOwner' /\ DeletedBySelf' /\ RowsStay'
  BY <1>1 DEF NamedByOwner, TouchedByOwner, DeletedBySelf, RowsStay
<1> QED
  BY <1>2, <1>4, <1>5

\* After a row is written every other call under way is stale.
LEMMA WriteStep ==
  ASSUME OwnersInv, NEW c \in Calls, NEW row \in UserRecord, UserCallAt(c, "find") \/ UserCallAt(c, "write"),
         WriteUser(c, row), row.status # "absent"
  PROVE OwnersInv'
<1> USE DEF OwnersInv
<1>1. NoUserCall \in UserCallRecord
  BY DEF NoUserCall, UserCallRecord, UserOps, Roles
<1>2. userCall'[c] = NoUserCall
  BY DEF WriteUser
<1>3. \A d \in Calls \ {c} :
        userCall'[d] = IF UserCallAt(d, "idle") THEN userCall[d] ELSE [userCall[d] EXCEPT !.stale = TRUE]
  BY DEF WriteUser
<1>4. \A d \in Calls \ {c} : /\ userCall'[d] \in UserCallRecord
                             /\ userCall'[d].pc = userCall[d].pc /\ userCall'[d].op = userCall[d].op
                             /\ userCall'[d].actor = userCall[d].actor /\ userCall'[d].by = userCall[d].by
                             /\ userCall'[d].target = userCall[d].target /\ userCall'[d].next = userCall[d].next
                             /\ userCall[d].pc # "idle" => userCall'[d].stale
  <2> TAKE d \in Calls \ {c}
  <2>1. CASE UserCallAt(d, "idle")
    BY <1>3, <2>1 DEF OwnersTypeOK, UserCallAt
  <2>2. CASE ~UserCallAt(d, "idle")
    <3>1. userCall'[d] = [userCall[d] EXCEPT !.stale = TRUE] /\ userCall[d] \in UserCallRecord
      BY <1>3, <2>2 DEF OwnersTypeOK
    <3> QED
      BY <3>1 DEF UserCallRecord
  <2> QED
    BY <2>1, <2>2
<1>5. OwnersTypeOK'
  <2>1. user' \in [Users -> UserRecord]
    BY DEF WriteUser, OwnersTypeOK
  <2>2. userCall' = [d \in Calls |-> userCall'[d]]
    BY DEF WriteUser
  <2>3. userCall' \in [Calls -> UserCallRecord]
    BY <1>1, <1>2, <1>4, <2>2
  <2>4. \A d \in Calls : userCall'[d].pc # "idle" =>
          userCall'[d].actor \in Users /\ userCall'[d].target \in Users /\ userCall'[d].op # "none"
    BY <1>2, <1>4 DEF OwnersTypeOK, NoUserCall
  <2> QED
    BY <2>1, <2>3, <2>4 DEF OwnersTypeOK
<1>10. \A d \in Calls : userCall'[d].pc = "idle" \/ userCall'[d].stale
  BY <1>2, <1>4 DEF NoUserCall
<1>6. OtherOwner'
  BY <1>10 DEF OtherOwner, UserCallAt
<1>12. TouchedByOwner'
  BY <1>10 DEF TouchedByOwner
<1>7. NamedByOwner' /\ DeletedBySelf'
  BY <1>2, <1>4 DEF NamedByOwner, DeletedBySelf, NoUserCall
<1>8. \A u \in Users : user[u].status # "absent" => user'[u].status # "absent"
  BY DEF WriteUser, OwnersTypeOK
<1>11. \A u \in Users : user'[u].status = "absent" => user'[u] = user[u]
  BY DEF WriteUser, OwnersTypeOK
<1>9. RowsStay'
  BY <1>2, <1>4, <1>8, <1>11 DEF RowsStay, OwnersTypeOK, NoUserCall
<1> QED
  BY <1>5, <1>6, <1>7, <1>9, <1>12

LEMMA InvStep == OwnersInv /\ [OwnersNext]_ownersVars => OwnersInv'
<1> SUFFICES ASSUME OwnersInv, [OwnersNext]_ownersVars PROVE OwnersInv'
  OBVIOUS
<1> USE OwnersAssumption DEF OwnersAssumption
<1>0. NoUserCall \in UserCallRecord /\ NoUserCall.pc = "idle" /\ NoUserCall.op = "none"
  BY DEF NoUserCall, UserCallRecord, UserOps, Roles
<1>1. ASSUME NEW c \in Calls, NEW op \in UserOps, NEW u \in Users, NEW t \in Users, NEW r \in Roles,
             RequestUser(c, op, u, t, r)
      PROVE OwnersInv'
  <2> DEFINE record == [pc |-> "find", op |-> op, actor |-> u, by |-> user[u].role,
                        target |-> t, next |-> r, stale |-> FALSE]
  <2>1. record \in UserCallRecord
    BY DEF UserCallRecord, OwnersInv, OwnersTypeOK, UserRecord
  <2>4. op = "deleteAccount" => t = u
    BY <1>1 DEF RequestUser
  <2>2. userCall' = [userCall EXCEPT ![c] = record] /\ UNCHANGED user /\ op # "none"
    BY <1>1 DEF RequestUser
  <2> HIDE DEF record
  <2>3. record.pc = "find" /\ record.actor = u /\ record.target = t /\ record.op = op
    BY DEF record
  <2>5. user[u].status # "absent"
    BY <1>1 DEF RequestUser, CanActivate
  <2> QED
    BY <2>1, <2>2, <2>3, <2>4, <2>5, QuietStep
<1>2. ASSUME NEW c \in Calls, NEW u \in Users, ResetPassword(c, u) PROVE OwnersInv'
  <2> DEFINE record == [NoUserCall EXCEPT !.pc = "write", !.op = "resetPassword", !.actor = u, !.target = u]
  <2>1. record \in UserCallRecord
    BY DEF UserCallRecord, NoUserCall, Roles, UserOps
  <2>2. userCall' = [userCall EXCEPT ![c] = record] /\ UNCHANGED user
    BY <1>2 DEF ResetPassword
  <2>3. record.pc = "write" /\ record.actor = u /\ record.target = u /\ record.op = "resetPassword"
    BY DEF NoUserCall
  <2> HIDE DEF record
  <2>4. userCall'[c] = record
    BY <2>2 DEF OwnersInv, OwnersTypeOK
  <2>5. ~TakesOwner(c)'
    BY <2>3, <2>4 DEF TakesOwner
  <2>6. user[u].status # "absent"
    BY <1>2 DEF ResetPassword
  <2> QED
    BY <2>1, <2>2, <2>3, <2>5, <2>6, QuietStep
<1>3. ASSUME NEW c \in Calls, UserCallRespond(c), UNCHANGED user PROVE OwnersInv'
  <2>1. userCall' = [userCall EXCEPT ![c] = NoUserCall]
    BY <1>3 DEF UserCallRespond
  <2> QED
    BY <1>0, <1>3, <2>1, QuietStep
<1>4. ASSUME NEW c \in Calls, Invite(c) PROVE OwnersInv'
  <2>1. CASE UserCallRespond(c) /\ UNCHANGED user
    BY <2>1, <1>3
  <2>2. CASE WriteUser(c, [status |-> "invited", role |-> userCall[c].next])
    <3>1. [status |-> "invited", role |-> userCall[c].next] \in UserRecord
      BY DEF UserRecord, OwnersInv, OwnersTypeOK, UserCallRecord
    <3> QED
      BY <1>4, <2>2, <3>1, WriteStep DEF Invite
  <2> QED
    BY <1>4, <2>1, <2>2 DEF Invite
<1>5. ASSUME NEW c \in Calls, FindUserInOrganization(c) PROVE OwnersInv'
  <2>1. CASE ~Allowed(c)
    BY <1>3, <1>5, <2>1 DEF FindUserInOrganization
  <2>2. CASE Allowed(c)
    <3> DEFINE record == [userCall[c] EXCEPT !.pc = IF TakesOwner(c) THEN "count" ELSE "write",
                                         !.stale = FALSE]
    <3>1. record \in UserCallRecord
      BY DEF OwnersInv, OwnersTypeOK, UserCallRecord
    <3>2. userCall' = [userCall EXCEPT ![c] = record] /\ UNCHANGED user
      BY <1>5, <2>2 DEF FindUserInOrganization, OwnersInv, OwnersTypeOK
    <3>3. /\ record.pc = IF TakesOwner(c) THEN "count" ELSE "write"
          /\ record.op = userCall[c].op /\ record.actor = userCall[c].actor /\ record.by = userCall[c].by
          /\ record.target = userCall[c].target /\ record.next = userCall[c].next
      BY DEF OwnersInv, OwnersTypeOK, UserCallRecord
    <3>4. userCall[c].actor \in Users /\ userCall[c].target \in Users /\ userCall[c].op # "none"
      BY <1>5 DEF FindUserInOrganization, UserCallAt, OwnersInv, OwnersTypeOK
    <3> HIDE DEF record
    <3>5. userCall'[c] = record
      BY <3>2 DEF OwnersInv, OwnersTypeOK
    <3>6. TakesOwner(c)' = TakesOwner(c)
      BY <3>2, <3>3, <3>5 DEF TakesOwner
    <3>7. record.op = "changeUserRole" /\ record.next = "owner" =>
            record.by = "owner" /\ record.actor # record.target
      BY <2>2, <3>3 DEF Allowed, AssertOwnerRoleBoundary
    <3>8. user[record.target].role = "owner" =>
            record.by = "owner" \/ record.op = "deleteAccount"
      BY <2>2, <3>3 DEF Allowed, AssertOwnerRoleBoundary
    <3>10. record.op = "deleteAccount" => record.actor = record.target
      BY <3>3 DEF OwnersInv, DeletedBySelf
    <3>9. record.pc = "write" => ~TakesOwner(c)'
      BY <3>3, <3>6
    <3>11. user[record.actor].status # "absent" /\ user[record.target].status # "absent"
      BY <1>5, <2>2, <3>3 DEF OwnersInv, RowsStay, Allowed, FindUserInOrganization, UserCallAt
    <3> QED
      BY <3>1, <3>2, <3>3, <3>4, <3>7, <3>8, <3>9, <3>10, <3>11, QuietStep
  <2> QED
    BY <2>1, <2>2
<1>6. ASSUME NEW c \in Calls, AssertNotLastOwner(c) PROVE OwnersInv'
  <2>1. CASE Owners \ {userCall[c].target} = {}
    BY <1>3, <1>6, <2>1 DEF AssertNotLastOwner
  <2>2. CASE Owners \ {userCall[c].target} # {}
    <3> DEFINE record == [userCall[c] EXCEPT !.pc = "write"]
    <3>1. record \in UserCallRecord
      BY DEF OwnersInv, OwnersTypeOK, UserCallRecord
    <3>2. userCall' = [userCall EXCEPT ![c] = record] /\ UNCHANGED user
      BY <1>6, <2>2 DEF AssertNotLastOwner, UserCallGoto, OwnersInv, OwnersTypeOK
    <3>3. /\ record.pc = "write" /\ record.op = userCall[c].op /\ record.actor = userCall[c].actor
          /\ record.by = userCall[c].by /\ record.target = userCall[c].target
          /\ record.next = userCall[c].next /\ record.stale = userCall[c].stale
      BY DEF OwnersInv, OwnersTypeOK, UserCallRecord
    <3>4. userCall[c].actor \in Users /\ userCall[c].target \in Users /\ userCall[c].op # "none"
      BY <1>6 DEF AssertNotLastOwner, UserCallAt, OwnersInv, OwnersTypeOK
    <3>5. userCall[c].pc = "count"
      BY <1>6 DEF AssertNotLastOwner, UserCallAt
    <3> HIDE DEF record
    <3>6. /\ record.op = "changeUserRole" /\ record.next = "owner" =>
               record.by = "owner" /\ record.actor # record.target
          /\ ~record.stale /\ user[record.target].role = "owner" =>
               record.by = "owner" \/ record.actor = record.target
          /\ record.op = "deleteAccount" => record.actor = record.target
      BY <3>3, <3>5 DEF OwnersInv, NamedByOwner, TouchedByOwner, DeletedBySelf
    <3>7. user[record.actor].status # "absent" /\ user[record.target].status # "absent"
      BY <3>3, <3>5 DEF OwnersInv, RowsStay
    <3> QED
      BY <2>2, <3>1, <3>2, <3>3, <3>4, <3>6, <3>7, QuietStep
  <2> QED
    BY <2>1, <2>2
<1>7. ASSUME NEW c \in Calls, UpdateUser(c) PROVE OwnersInv'
  <2>1. user[userCall[c].target] \in UserRecord /\ userCall[c].next \in Roles
    BY <1>7 DEF UpdateUser, UserCallAt, OwnersInv, OwnersTypeOK, UserCallRecord
  <2>3. user[userCall[c].target].status # "absent"
    BY <1>7 DEF UpdateUser, UserCallAt, OwnersInv, RowsStay
  <2>2. \E row \in UserRecord : row.status # "absent" /\ WriteUser(c, row)
    BY <1>7, <2>1, <2>3 DEF UpdateUser, UserRecord
  <2> QED
    BY <1>7, <2>2, WriteStep DEF UpdateUser
<1>8. CASE UNCHANGED ownersVars
  BY <1>8 DEF ownersVars, OwnersInv, OwnersTypeOK, OtherOwner, NamedByOwner, TouchedByOwner, DeletedBySelf, RowsStay, UserCallAt, TakesOwner,
              Owners, IsOwner
<1> QED
  BY <1>1, <1>2, <1>4, <1>5, <1>6, <1>7, <1>8 DEF OwnersNext

\* TypeOK: every call under way has a target, and the rows keep their types.
THEOREM OwnersTyped == OwnersSpec => []OwnersTypeOK
<1>1. OwnersInv => OwnersTypeOK
  BY DEF OwnersInv
<1> QED
  BY InitInv, InvStep, <1>1, PTL DEF OwnersSpec

\* The step that ends a call with a write, and what the row becomes.
LEMMA WriterEnds ==
  ASSUME OwnersTypeOK, NEW c \in Calls, NEW row, WriteUser(c, row), UserCallAt(c, "find") \/ UserCallAt(c, "write")
  PROVE /\ UserCallEnds(c) /\ userCall[c].target \in Users
        /\ user'[userCall[c].target] = row
        /\ \A u \in Users \ {userCall[c].target} : user'[u] = user[u]
BY DEF OwnersTypeOK, WriteUser, UserCallEnds, UserCallAt, NoUserCall

\* Steps that write no row.
LEMMA QuietUsers ==
  ASSUME [OwnersNext]_ownersVars, user' # user
  PROVE \E c \in Calls :
          \/ /\ UserCallAt(c, "find") /\ userCall[c].op = "inviteUser"
             /\ user[userCall[c].target].status = "absent"
             /\ AssertOwnerRoleBoundary(userCall[c].by, userCall[c].next)
             /\ WriteUser(c, [status |-> "invited", role |-> userCall[c].next])
          \/ UpdateUser(c)
BY DEF OwnersNext, ownersVars, RequestUser, ResetPassword, Invite, FindUserInOrganization, AssertNotLastOwner

\* OwnerRemains: the last owner is lost to overtaken calls only.
THEOREM LastOwnerRemains == OwnersSpec => OwnerRemains
<1>1. ASSUME OwnersInv, [OwnersNext]_ownersVars, Owners # {}, Owners' = {}
      PROVE \E c \in Calls : UserCallEnds(c) /\ userCall[c].stale
  <2>1. user' # user
    BY <1>1 DEF Owners, IsOwner
  <2> USE DEF OwnersInv
  <2>2. PICK o \in Users : IsOwner(o)
    BY <1>1 DEF Owners
  <2>3. \A u \in Users : ~IsOwner(u)'
    BY <1>1 DEF Owners
  <2>4. ASSUME NEW c \in Calls, UserCallAt(c, "find"), userCall[c].op = "inviteUser",
               user[userCall[c].target].status = "absent",
               WriteUser(c, [status |-> "invited", role |-> userCall[c].next])
        PROVE FALSE
    BY <1>1, <2>2, <2>3, <2>4, WriterEnds DEF IsOwner
  <2>5. ASSUME NEW c \in Calls, UpdateUser(c) PROVE UserCallEnds(c) /\ userCall[c].stale
    <3>1. PICK row : WriteUser(c, row)
      BY <2>5 DEF UpdateUser
    <3>2. UserCallEnds(c) /\ \A u \in Users \ {userCall[c].target} : user'[u] = user[u]
      BY <1>1, <2>5, <3>1, WriterEnds DEF UpdateUser
    <3>3. CASE ~TakesOwner(c)
      <4>1. o = userCall[c].target
        BY <2>2, <2>3, <3>2 DEF IsOwner
      <4>2. user[o] \in UserRecord /\ user[o].role = "owner"
        BY <1>1, <2>2 DEF OwnersTypeOK, IsOwner
      <4>3. ~(userCall[c].op \in {"disableUser", "deleteAccount"})
        BY <3>3, <4>1, <4>2 DEF TakesOwner
      <4>4. PICK new : /\ WriteUser(c, new)
                       /\ \/ userCall[c].next = "owner" /\ new = [user[o] EXCEPT !.role = userCall[c].next]
                          \/ new = [user[o] EXCEPT !.status = "active"]
        BY <2>5, <3>3, <4>1, <4>2, <4>3 DEF UpdateUser, TakesOwner
      <4>5. user'[o] = new
        BY <1>1, <2>5, <4>1, <4>4, WriterEnds DEF UpdateUser
      <4>6. new.role = "owner" /\ new.status \in {"invited", "active"}
        BY <2>2, <4>2, <4>4 DEF UserRecord, IsOwner
      <4> QED
        BY <2>3, <4>5, <4>6 DEF IsOwner
    <3>4. CASE TakesOwner(c) /\ ~userCall[c].stale
      <4>1. PICK other \in Owners : other # userCall[c].target
        BY <1>1, <2>5, <3>4 DEF OtherOwner, UpdateUser
      <4> QED
        BY <2>3, <3>2, <4>1 DEF Owners, IsOwner
    <3> QED
      BY <3>2, <3>3, <3>4 DEF OwnersTypeOK, UserCallRecord
  <2> QED
    BY <1>1, <2>1, <2>4, <2>5, QuietUsers
<1> QED
  BY InitInv, InvStep, <1>1, PTL DEF OwnersSpec, OwnerRemains

\* Nobody becomes an owner but through another one.
LEMMA OwnersNameOwners ==
  ASSUME OwnersInv, [OwnersNext]_ownersVars
  PROVE  OwnersAreNamedByOwners
<1>1. \A u \in Users : user[u].role # "owner" /\ user'[u].role = "owner" =>
              \E c \in Calls : UserCallEnds(c) /\ userCall[c].by = "owner" /\ userCall[c].actor # u
  <2> USE DEF OwnersInv
  <2> SUFFICES ASSUME NEW u \in Users, user[u].role # "owner", user'[u].role = "owner"
               PROVE \E c \in Calls : UserCallEnds(c) /\ userCall[c].by = "owner" /\ userCall[c].actor # u
    OBVIOUS
  <2>1. ASSUME NEW c \in Calls, UserCallAt(c, "find"), userCall[c].op = "inviteUser",
               user[userCall[c].target].status = "absent",
               AssertOwnerRoleBoundary(userCall[c].by, userCall[c].next),
               WriteUser(c, [status |-> "invited", role |-> userCall[c].next])
        PROVE UserCallEnds(c) /\ userCall[c].by = "owner" /\ userCall[c].actor # u
    <3>1. UserCallEnds(c) /\ u = userCall[c].target /\ userCall[c].next = "owner"
      BY <2>1, WriterEnds
    <3>2. user[userCall[c].actor].status # "absent"
      BY <2>1 DEF RowsStay, UserCallAt
    <3> QED
      BY <2>1, <3>1, <3>2 DEF AssertOwnerRoleBoundary
  <2>2. ASSUME NEW c \in Calls, UpdateUser(c)
        PROVE UserCallEnds(c) /\ userCall[c].by = "owner" /\ userCall[c].actor # u
    <3>1. PICK row :
            /\ WriteUser(c, row)
            /\ \/ /\ userCall[c].op = "changeUserRole"
                  /\ row = [user[userCall[c].target] EXCEPT !.role = userCall[c].next]
               \/ row = [user[userCall[c].target] EXCEPT !.status = "disabled"]
               \/ row = [user[userCall[c].target] EXCEPT !.status = "active"]
      BY <2>2 DEF UpdateUser
    <3>2. UserCallEnds(c) /\ u = userCall[c].target /\ row.role = "owner"
      BY <2>2, <3>1, WriterEnds DEF UpdateUser
    <3>3. userCall[c].op = "changeUserRole" /\ userCall[c].next = "owner"
      BY <3>1, <3>2 DEF OwnersTypeOK, UserRecord
    <3> QED
      BY <2>2, <3>2, <3>3 DEF NamedByOwner, UpdateUser, UserCallAt
  <2> QED
    BY <2>1, <2>2, QuietUsers
<1> QED
  BY <1>1 DEF OwnersAreNamedByOwners

\* Nobody else touches an owner, overtaken calls aside.
LEMMA OwnersTouchOwners ==
  ASSUME OwnersInv, [OwnersNext]_ownersVars
  PROVE  OwnersAnswerToOwners
<1>1. \A u \in Users : user[u].role = "owner" /\ user'[u] # user[u] =>
              \E c \in Calls : /\ UserCallEnds(c)
                               /\ userCall[c].by = "owner" \/ userCall[c].actor = u \/ userCall[c].stale
  <2> USE DEF OwnersInv
  <2> SUFFICES ASSUME NEW u \in Users, user[u].role = "owner", user'[u] # user[u]
               PROVE \E c \in Calls : /\ UserCallEnds(c)
                                      /\ userCall[c].by = "owner" \/ userCall[c].actor = u \/ userCall[c].stale
    OBVIOUS
  <2>1. ASSUME NEW c \in Calls, UserCallAt(c, "find"), user[userCall[c].target].status = "absent",
               WriteUser(c, [status |-> "invited", role |-> userCall[c].next])
        PROVE FALSE
    BY <2>1, WriterEnds DEF RowsStay, UserCallAt, OwnersTypeOK
  <2>2. ASSUME NEW c \in Calls, UpdateUser(c)
        PROVE UserCallEnds(c) /\ (userCall[c].by = "owner" \/ userCall[c].actor = u \/ userCall[c].stale)
    <3>1. PICK row : WriteUser(c, row)
      BY <2>2 DEF UpdateUser
    <3>2. UserCallEnds(c) /\ u = userCall[c].target
      BY <2>2, <3>1, WriterEnds DEF UpdateUser
    <3> QED
      BY <2>2, <3>2 DEF TouchedByOwner, UpdateUser, UserCallAt
  <2> QED
    BY <2>1, <2>2, QuietUsers
<1> QED
  BY <1>1 DEF OwnersAnswerToOwners

\* OwnersRuleOwners: owners are made and unmade by owners.
THEOREM OwnersRule == OwnersSpec => OwnersRuleOwners
<1>1. OwnersInv /\ [OwnersNext]_ownersVars => OwnersAreNamedByOwners /\ OwnersAnswerToOwners
  BY OwnersNameOwners, OwnersTouchOwners
<1> QED
  BY InitInv, InvStep, <1>1, PTL DEF OwnersSpec, OwnersRuleOwners
-----------------------------------------------------------------------------
(***************************************************************************)
(* Workflows: what one that is written or run may rely on.                 *)
(***************************************************************************)
\* What a call that nobody has overtaken has read is still so.
StillSo(r) ==
  /\ r.pc \in ReadBefore["workflow"] /\ r.op # "create" =>
       /\ r.op = "startRun" => workflow[r.workflow].status = "active" /\ ~r.sets
       /\ ~r.sets => workflow[r.workflow].vendor = r.vendor
  /\ r.pc \in ReadBefore["agent"] => "agent" \in support
  /\ r.pc \in ReadBefore["vendor"] => vendorRow[r.vendor] = "live"
  /\ r.pc \in ReadBefore["bundle"] /\ r.op = "startRun" => "bundle" \in support
  /\ r.pc \in ReadBefore["credential"] => IsSecretOf(r.vendor)
  /\ r.pc \in ReadBefore["grant"] => "grant" \in support

\* What a call is about is there, and is as it was read unless the call is stale.
Sound(r) ==
  /\ r.pc = "find" => r.workflow \in WorkflowRows /\ r.op \in {"update", "startRun"}
  /\ r.pc = "find" /\ r.op = "startRun" => r.vendor = None
  /\ r.pc \notin {"idle", "find"} => r.vendor \in VendorRows
  /\ r.pc \in ReadBefore["workflow"] => r.op \in {"create", "update", "startRun"}
  /\ r.pc \in ReadBefore["workflow"] /\ r.op # "create" =>
       r.workflow \in WorkflowRows /\ workflow[r.workflow].status # "absent"
  /\ ~r.stale => StillSo(r)

FlowInv == FlowTypeOK /\ \A c \in Calls : Sound(flowCall[c])

LEMMA Readers ==
  /\ ReadBefore["workflow"] = {"agent", "vendor", "bundle", "credential", "grant", "write"}
  /\ ReadBefore["agent"] = {"vendor", "bundle", "credential", "grant", "write"}
  /\ ReadBefore["vendor"] = {"bundle", "credential", "grant", "write"}
  /\ ReadBefore["bundle"] = {"credential", "grant", "write"}
  /\ ReadBefore["credential"] = {"grant", "write"}
  /\ ReadBefore["grant"] = {"write"}
  BY DEF ReadBefore

LEMMA FlowInitInv == FlowInit => FlowInv
<1> SUFFICES ASSUME FlowInit PROVE FlowInv
  OBVIOUS
<1>1. NoFlowCall \in FlowCallRecord
  BY DEF NoFlowCall, FlowCallRecord
<1>2. \A c \in Calls : flowCall[c] = NoFlowCall
  BY DEF FlowInit
<1>3. Sound(NoFlowCall)
  BY Readers DEF Sound, StillSo, NoFlowCall
<1>4. FlowTypeOK
  <2>1. PICK v \in VendorRows :
          /\ vendorRow = [u \in VendorRows |-> IF u = v THEN "live" ELSE "absent"]
          /\ secret = [vendor |-> v, live |-> TRUE]
    BY DEF FlowInit
  <2>2. /\ vendorRow \in [VendorRows -> {"absent", "live", "deleted", "gone"}]
        /\ VendorExists(secret.vendor)
    BY <2>1 DEF VendorExists
  <2>3. secret \in SecretRecord
    BY <2>1 DEF SecretRecord
  <2>4. /\ workflow \in [WorkflowRows -> WorkflowRecord]
        /\ \A w \in WorkflowRows : workflow[w].status = "absent"
    BY DEF FlowInit, NoWorkflow, WorkflowRecord
  <2>5. changes \in 0..MaxChanges
    BY WorkflowsAssumption DEF FlowInit
  <2>6. flowCall \in [Calls -> FlowCallRecord] /\ \A c \in Calls : flowCall[c].pc = "idle"
    BY <1>1 DEF FlowInit, NoFlowCall
  <2> QED
    BY <2>2, <2>3, <2>4, <2>5, <2>6 DEF FlowTypeOK, FlowInit
<1> QED
  BY <1>2, <1>3, <1>4 DEF FlowInv

\* A call that writes no row keeps the invariant if it is sound afterwards.
LEMMA QuietFlow ==
  ASSUME FlowInv, NEW c \in Calls, NEW r \in FlowCallRecord, Sound(r),
         UNCHANGED <<vendorRow, workflow, support, secret, changes>>,
         flowCall' = [flowCall EXCEPT ![c] = r]
  PROVE  FlowInv'
<1>1. flowCall' \in [Calls -> FlowCallRecord] /\ flowCall'[c] = r
      /\ \A d \in Calls \ {c} : flowCall'[d] = flowCall[d]
  BY DEF FlowInv, FlowTypeOK
<1>2. \A d \in Calls : Sound(flowCall'[d])
  BY <1>1 DEF FlowInv
<1>4. \A d \in Calls : Sound(flowCall[d])'
  BY <1>2 DEF Sound, StillSo, IsSecretOf
<1>5. \A d \in Calls : flowCall'[d].pc \notin {"idle", "find"} => flowCall'[d].vendor \in VendorRows
  BY <1>2 DEF Sound
<1>6. FlowTypeOK'
  BY <1>1, <1>5 DEF FlowInv, FlowTypeOK, VendorExists
<1> QED
  BY <1>4, <1>6 DEF FlowInv

\* The rows of FlowTypeOK.
RowsOK ==
  /\ vendorRow \in [VendorRows -> {"absent", "live", "deleted", "gone"}]
  /\ workflow \in [WorkflowRows -> WorkflowRecord]
  /\ support \in SUBSET Supports
  /\ secret \in SecretRecord
  /\ changes \in 0..MaxChanges
  /\ VendorExists(secret.vendor)
  /\ \A w \in WorkflowRows : workflow[w].status # "absent" =>
       workflow[w].vendor \in VendorRows /\ VendorExists(workflow[w].vendor)

\* A step that writes rows keeps the invariant if it makes every other call stale
\* for which something is no longer as it was read.
LEMMA WriteFlow ==
  ASSUME FlowInv, RowsOK', flowCall' = [d \in Calls |-> flowCall'[d]],
         \A w \in WorkflowRows : workflow[w].status # "absent" => workflow'[w].status # "absent",
         \A d \in Calls :
           \/ flowCall'[d] = NoFlowCall
           \/ flowCall'[d] = [flowCall[d] EXCEPT !.stale = TRUE]
           \/ flowCall'[d] = flowCall[d] /\ (~flowCall[d].stale => StillSo(flowCall[d])')
  PROVE  FlowInv'
<1>1. NoFlowCall \in FlowCallRecord /\ NoFlowCall.pc = "idle"
  BY DEF NoFlowCall, FlowCallRecord
<1>2. flowCall \in [Calls -> FlowCallRecord] /\ \A c \in Calls : Sound(flowCall[c])
  BY DEF FlowInv, FlowTypeOK
<1>3. \A d \in Calls : flowCall'[d] \in FlowCallRecord
  <2> TAKE d \in Calls
  <2>1. flowCall[d] \in FlowCallRecord
    BY <1>2
  <2>2. [flowCall[d] EXCEPT !.stale = TRUE] \in FlowCallRecord
    BY <2>1 DEF FlowCallRecord
  <2> QED
    BY <1>1, <2>1, <2>2
<1>4. ASSUME NEW d \in Calls PROVE Sound(flowCall[d])'
  <2>1. CASE flowCall'[d] = NoFlowCall
    BY <2>1, Readers DEF Sound, StillSo, NoFlowCall
  <2>2. CASE flowCall'[d] = [flowCall[d] EXCEPT !.stale = TRUE]
    <3>1. /\ flowCall'[d].pc = flowCall[d].pc /\ flowCall'[d].op = flowCall[d].op
          /\ flowCall'[d].workflow = flowCall[d].workflow
          /\ flowCall'[d].vendor = flowCall[d].vendor
          /\ flowCall'[d].stale
      BY <1>2, <2>2 DEF FlowCallRecord
    <3>2. Sound(flowCall[d])
      BY <1>2
    <3> QED
      BY <3>1, <3>2, Readers DEF Sound
  <2>3. CASE flowCall'[d] = flowCall[d] /\ (~flowCall[d].stale => StillSo(flowCall[d])')
    <3>1. Sound(flowCall[d])
      BY <1>2
    <3> QED
      BY <2>3, <3>1, Readers DEF Sound
  <2> QED
    BY <2>1, <2>2, <2>3
<1>5. flowCall' \in [Calls -> FlowCallRecord]
  BY <1>3
<1>6. \A d \in Calls : flowCall'[d].pc \notin {"idle", "find"} => flowCall'[d].vendor \in VendorRows
  BY <1>4 DEF Sound
<1> QED
  BY <1>4, <1>5, <1>6 DEF FlowInv, FlowTypeOK, RowsOK

\* A test keeps the invariant if the call has read what it goes on with.
LEMMA TestStep ==
  ASSUME FlowInv, NEW c \in Calls,
         NEW next \in {"vendor", "bundle", "credential", "grant", "write"},
         UNCHANGED <<vendorRow, workflow, support, secret, changes>>,
         \/ Sound([flowCall[c] EXCEPT !.pc = next]) /\ FlowCallGoto(c, next)
         \/ FlowCallRespond(c)
  PROVE  FlowInv'
<1>1. flowCall[c] \in FlowCallRecord
  BY DEF FlowInv, FlowTypeOK
<1>2. CASE Sound([flowCall[c] EXCEPT !.pc = next]) /\ FlowCallGoto(c, next)
  <2>1. flowCall' = [flowCall EXCEPT ![c] = [flowCall[c] EXCEPT !.pc = next]]
    BY <1>2 DEF FlowCallGoto, FlowInv, FlowTypeOK
  <2>2. [flowCall[c] EXCEPT !.pc = next] \in FlowCallRecord
    BY <1>1 DEF FlowCallRecord
  <2> QED
    BY <1>2, <2>1, <2>2, QuietFlow
<1>3. CASE FlowCallRespond(c)
  <2>1. NoFlowCall \in FlowCallRecord /\ Sound(NoFlowCall)
    BY Readers DEF NoFlowCall, FlowCallRecord, Sound, StillSo
  <2>2. flowCall' = [flowCall EXCEPT ![c] = NoFlowCall]
    BY <1>3 DEF FlowCallRespond
  <2> QED
    BY <2>1, <2>2, QuietFlow
<1> QED
  BY <1>2, <1>3

LEMMA FlowInvStep == FlowInv /\ [FlowNext]_flowVars => FlowInv'
<1> SUFFICES ASSUME FlowInv, [FlowNext]_flowVars PROVE FlowInv'
  OBVIOUS
<1>1. /\ flowCall \in [Calls -> FlowCallRecord]
      /\ \A c \in Calls : flowCall[c] \in FlowCallRecord /\ Sound(flowCall[c])
  BY DEF FlowInv, FlowTypeOK
<1>2. NoFlowCall \in FlowCallRecord /\ Sound(NoFlowCall)
  BY Readers DEF NoFlowCall, FlowCallRecord, Sound, StillSo
<1>3. RowsOK
  BY DEF FlowInv, FlowTypeOK, RowsOK
<1>4. CASE UNCHANGED flowVars
  <2>1. \A c \in Calls : Sound(flowCall[c])'
    BY <1>1, <1>4 DEF flowVars, Sound, StillSo, IsSecretOf
  <2> QED
    BY <1>4, <2>1 DEF FlowInv, FlowTypeOK, flowVars, VendorExists
<1>5. ASSUME NEW c \in Calls, FlowCallRespond(c),
             UNCHANGED <<vendorRow, workflow, support, secret, changes>>
      PROVE  FlowInv'
  BY <1>2, <1>5, QuietFlow DEF FlowCallRespond
<1>6. ASSUME NEW c \in Calls, NEW v \in VendorRows, CreateVendor(c, v),
             UNCHANGED <<workflow, support, secret, changes>>
      PROVE  FlowInv'
  <2>1. \A u \in VendorRows : vendorRow[u] = "live" => vendorRow'[u] = "live"
    BY <1>3, <1>6 DEF CreateVendor, RowsOK
  <2>2. RowsOK'
    BY <1>3, <1>6 DEF CreateVendor, RowsOK, VendorExists, SecretRecord
  <2>3. \A d \in Calls : flowCall'[d] = flowCall[d] /\ (~flowCall[d].stale => StillSo(flowCall[d])')
    BY <1>1, <1>6, <2>1, Readers DEF CreateVendor, Sound, StillSo, IsSecretOf
  <2> QED
    BY <1>1, <1>6, <2>2, <2>3, WriteFlow DEF CreateVendor
<1>7. ASSUME NEW c \in Calls, NEW v \in VendorRows, FindVendor(c, v),
             UNCHANGED <<workflow, support, secret, changes>>
      PROVE  FlowInv'
  <2> DEFINE r == [NoFlowCall EXCEPT !.pc = "count", !.op = "deleteVendor", !.vendor = v]
  <2>1. r \in FlowCallRecord /\ Sound(r)
    BY Readers DEF NoFlowCall, FlowCallRecord, FlowOps, Sound, StillSo
  <2>2. flowCall' = [flowCall EXCEPT ![c] = r]
    BY <1>7 DEF FindVendor
  <2> QED
    BY <1>7, <2>1, <2>2, QuietFlow DEF FindVendor
<1>8. ASSUME NEW c \in Calls, CountWorkflows(c), UNCHANGED <<workflow, support, secret, changes>>
      PROVE  FlowInv'
  <2> DEFINE pc == IF IsUsed(flowCall[c].vendor) THEN "softDelete" ELSE "hardDelete"
  <2> DEFINE r == [flowCall[c] EXCEPT !.pc = pc]
  <2>1. r \in FlowCallRecord
    BY <1>1 DEF FlowCallRecord
  <2>2. Sound(r)
    BY <1>1, <1>8, Readers DEF CountWorkflows, FlowCallAt, Sound, StillSo, FlowCallRecord
  <2>3. flowCall' = [flowCall EXCEPT ![c] = r]
    BY <1>1, <1>8 DEF CountWorkflows, FlowCallGoto
  <2> QED
    BY <1>8, <2>1, <2>2, <2>3, QuietFlow DEF CountWorkflows
<1>9. ASSUME NEW c \in Calls, NEW state \in {"deleted", "gone"}, NEW v \in VendorRows,
             vendorRow' = [vendorRow EXCEPT ![v] = state], VendorWritten(c, v),
             state = "gone" => ~IsUsed(v) /\ secret.vendor # v, VendorExists(v),
             UNCHANGED <<workflow, support, secret, changes>>
      PROVE  FlowInv'
  <2>1. RowsOK'
    BY <1>3, <1>9 DEF RowsOK, VendorExists, IsUsed, SecretRecord
  <2>2. flowCall' = [d \in Calls |->
          IF d = c THEN NoFlowCall
          ELSE IF flowCall[d].pc \in ReadBefore["vendor"] /\ flowCall[d].vendor = v
          THEN [flowCall[d] EXCEPT !.stale = TRUE] ELSE flowCall[d]]
    BY <1>9 DEF VendorWritten, Overtaken
  <2>3. \A u \in VendorRows : u # v => vendorRow'[u] = vendorRow[u]
    BY <1>3, <1>9 DEF RowsOK
  <2>4. ASSUME NEW d \in Calls
        PROVE  \/ flowCall'[d] = NoFlowCall
               \/ flowCall'[d] = [flowCall[d] EXCEPT !.stale = TRUE]
               \/ flowCall'[d] = flowCall[d] /\ (~flowCall[d].stale => StillSo(flowCall[d])')
    <3>1. CASE d # c /\ ~(flowCall[d].pc \in ReadBefore["vendor"] /\ flowCall[d].vendor = v)
      <4>1. flowCall'[d] = flowCall[d]
        BY <2>2, <3>1
      <4> QED
        BY <1>1, <1>9, <2>3, <3>1, <4>1, Readers DEF Sound, StillSo, IsSecretOf
    <3> QED
      BY <2>2, <3>1
  <2>5. flowCall' = [d \in Calls |-> flowCall'[d]]
    BY <2>2
  <2> QED
    BY <1>9, <2>1, <2>4, <2>5, WriteFlow
<1>10. ASSUME NEW c \in Calls, DeleteVendor(c), UNCHANGED <<workflow, support, secret, changes>>
       PROVE  FlowInv'
  <2>1. CASE \E v \in VendorRows : FindVendor(c, v)
    BY <1>7, <1>10, <2>1
  <2>2. CASE CountWorkflows(c)
    BY <1>8, <1>10, <2>2
  <2>3. CASE SoftDelete(c)
    <3>1. flowCall[c].vendor \in VendorRows
      BY <1>1, <2>3 DEF SoftDelete, FlowCallAt, Sound
    <3> QED
      BY <1>9, <1>10, <2>3, <3>1 DEF SoftDelete
  <2>4. CASE HardDelete(c)
    <3>1. flowCall[c].vendor \in VendorRows
      BY <1>1, <2>4 DEF HardDelete, FlowCallAt, Sound
    <3> QED
      BY <1>9, <1>10, <2>4, <3>1 DEF HardDelete
  <2> QED
    BY <1>10, <2>1, <2>2, <2>3, <2>4 DEF DeleteVendor
<1>11. ASSUME NEW c \in Calls, NEW v \in VendorRows, RequestCreate(c, v),
              UNCHANGED <<vendorRow, workflow, support, secret, changes>>
       PROVE  FlowInv'
  <2> DEFINE r == [NoFlowCall EXCEPT !.pc = "agent", !.op = "create", !.vendor = v]
  <2>1. r \in FlowCallRecord /\ Sound(r)
    BY Readers DEF NoFlowCall, FlowCallRecord, FlowOps, Sound, StillSo
  <2>2. flowCall' = [flowCall EXCEPT ![c] = r]
    BY <1>11 DEF RequestCreate
  <2> QED
    BY <1>11, <2>1, <2>2, QuietFlow
<1>12. ASSUME NEW c \in Calls, NEW op \in {"update", "startRun"}, NEW w \in WorkflowRows,
              NEW v \in VendorRows \cup {None}, RequestWorkflow(c, op, w, v),
              UNCHANGED <<vendorRow, workflow, support, secret, changes>>
       PROVE  FlowInv'
  <2> DEFINE r == [NoFlowCall EXCEPT !.pc = "find", !.op = op, !.workflow = w, !.vendor = v]
  <2>1. r \in FlowCallRecord /\ Sound(r)
    BY <1>12, Readers DEF RequestWorkflow, NoFlowCall, FlowCallRecord, FlowOps, Sound, StillSo
  <2>2. flowCall' = [flowCall EXCEPT ![c] = r]
    BY <1>12 DEF RequestWorkflow
  <2> QED
    BY <1>12, <2>1, <2>2, QuietFlow
<1>13. ASSUME NEW c \in Calls, FindWorkflow(c),
              UNCHANGED <<vendorRow, workflow, support, secret, changes>>
       PROVE  FlowInv'
  <2> DEFINE given == flowCall[c].vendor
  <2> DEFINE row == workflow[flowCall[c].workflow]
  <2> DEFINE r == [flowCall[c] EXCEPT !.pc = "agent",
                                      !.vendor = IF given = None THEN row.vendor ELSE given,
                                      !.sets = given # None]
  <2>1. CASE row.status = "absent" \/ (flowCall[c].op = "startRun" /\ row.status # "active")
    BY <1>5, <1>13, <2>1 DEF FindWorkflow
  <2>2. CASE ~(row.status = "absent" \/ (flowCall[c].op = "startRun" /\ row.status # "active"))
    <3>1. flowCall[c].workflow \in WorkflowRows /\ flowCall[c].op \in {"update", "startRun"}
      BY <1>1, <1>13 DEF FindWorkflow, FlowCallAt, Sound
    <3>2. row.vendor \in VendorRows
      BY <1>3, <2>2, <3>1 DEF RowsOK
    <3>3. r.vendor \in VendorRows
      BY <1>1, <3>2 DEF FlowCallRecord
    <3>4. r \in FlowCallRecord
      BY <1>1, <3>3 DEF FlowCallRecord
    <3>5. /\ r.pc = "agent" /\ r.op = flowCall[c].op /\ r.workflow = flowCall[c].workflow
          /\ ~r.sets => r.vendor = row.vendor
          /\ r.sets <=> given # None
      BY <1>1 DEF FlowCallRecord
    <3>6. flowCall[c].op = "startRun" => given = None
      BY <1>1, <1>13 DEF FindWorkflow, FlowCallAt, Sound
    <3>7. Sound(r)
      BY <2>2, <3>1, <3>3, <3>5, <3>6, Readers DEF Sound, StillSo
    <3>8. flowCall' = [flowCall EXCEPT ![c] = r]
      BY <1>1, <1>13, <2>2 DEF FindWorkflow
    <3> QED
      BY <1>13, <3>4, <3>7, <3>8, QuietFlow
  <2> QED
    BY <2>1, <2>2
<1>14. ASSUME NEW c \in Calls,
              \/ AssertActiveAgent(c) \/ AssertActiveVendor(c) \/ AssertActivePolicy(c)
              \/ AssertCredential(c) \/ AssertGrant(c),
              UNCHANGED <<vendorRow, workflow, support, secret, changes>>
       PROVE  FlowInv'
  <2> DEFINE to(next) == [flowCall[c] EXCEPT !.pc = next]
  <2>1. ASSUME NEW next \in {"vendor", "bundle", "credential", "grant", "write"}
        PROVE  /\ to(next).pc = next /\ to(next).op = flowCall[c].op
               /\ to(next).workflow = flowCall[c].workflow /\ to(next).vendor = flowCall[c].vendor
               /\ to(next).sets = flowCall[c].sets /\ to(next).stale = flowCall[c].stale
    BY <1>1 DEF FlowCallRecord
  <2>2. Sound(flowCall[c])
    BY <1>1
  <2>3. CASE AssertActiveAgent(c)
    <3>1. flowCall[c].pc = "agent"
      BY <2>3 DEF AssertActiveAgent, Test, FlowCallAt
    <3>2. "agent" \in support => Sound(to("vendor"))
      BY <2>1, <2>2, <3>1, Readers DEF Sound, StillSo
    <3>3. \/ Sound(to("vendor")) /\ FlowCallGoto(c, "vendor")
          \/ FlowCallRespond(c)
      BY <2>3, <3>2 DEF AssertActiveAgent, Test
    <3> QED
      BY <1>14, <3>3, TestStep
  <2>4. CASE AssertActiveVendor(c)
    <3> DEFINE next == IF flowCall[c].op = "startRun" THEN "bundle" ELSE "credential"
    <3>1. flowCall[c].pc = "vendor"
      BY <2>4 DEF AssertActiveVendor, Test, FlowCallAt
    <3>2. vendorRow[flowCall[c].vendor] = "live" => Sound(to(next))
      BY <2>1, <2>2, <3>1, Readers DEF Sound, StillSo
    <3>3. \/ Sound(to(next)) /\ FlowCallGoto(c, next)
          \/ FlowCallRespond(c)
      BY <2>4, <3>2 DEF AssertActiveVendor, Test
    <3> QED
      BY <1>14, <3>3, TestStep
  <2>5. CASE AssertActivePolicy(c)
    <3>1. flowCall[c].pc = "bundle"
      BY <2>5 DEF AssertActivePolicy, Test, FlowCallAt
    <3>2. "bundle" \in support => Sound(to("credential"))
      BY <2>1, <2>2, <3>1, Readers DEF Sound, StillSo
    <3>3. \/ Sound(to("credential")) /\ FlowCallGoto(c, "credential")
          \/ FlowCallRespond(c)
      BY <2>5, <3>2 DEF AssertActivePolicy, Test
    <3> QED
      BY <1>14, <3>3, TestStep
  <2>6. CASE AssertCredential(c)
    <3>1. flowCall[c].pc = "credential"
      BY <2>6 DEF AssertCredential, Test, FlowCallAt
    <3>2. IsSecretOf(flowCall[c].vendor) => Sound(to("grant"))
      BY <2>1, <2>2, <3>1, Readers DEF Sound, StillSo
    <3>3. \/ Sound(to("grant")) /\ FlowCallGoto(c, "grant")
          \/ FlowCallRespond(c)
      BY <2>6, <3>2 DEF AssertCredential, Test
    <3> QED
      BY <1>14, <3>3, TestStep
  <2>7. CASE AssertGrant(c)
    <3>1. flowCall[c].pc = "grant"
      BY <2>7 DEF AssertGrant, Test, FlowCallAt
    <3>2. "grant" \in support => Sound(to("write"))
      BY <2>1, <2>2, <3>1, Readers DEF Sound, StillSo
    <3>3. \/ Sound(to("write")) /\ FlowCallGoto(c, "write")
          \/ FlowCallRespond(c)
      BY <2>7, <3>2 DEF AssertGrant, Test
    <3> QED
      BY <1>14, <3>3, TestStep
  <2> QED
    BY <1>14, <2>3, <2>4, <2>5, <2>6, <2>7
<1>15. ASSUME NEW c \in Calls, NEW w \in WorkflowRows, CreateWorkflow(c, w),
              UNCHANGED <<vendorRow, support, secret, changes>>
       PROVE  FlowInv'
  <2>1. flowCall[c].vendor \in VendorRows
    BY <1>1, <1>15 DEF CreateWorkflow, FlowCallAt, Sound
  <2>2. \A u \in WorkflowRows : u # w => workflow'[u] = workflow[u]
    BY <1>3, <1>15 DEF CreateWorkflow, RowsOK
  <2>3. workflow'[w] = [status |-> "active", vendor |-> flowCall[c].vendor]
    BY <1>3, <1>15 DEF CreateWorkflow, RowsOK
  <2>4. workflow' \in [WorkflowRows -> WorkflowRecord]
    BY <1>3, <1>15, <2>1 DEF CreateWorkflow, RowsOK, WorkflowRecord
  <2>5. RowsOK'
    BY <1>3, <1>15, <2>1, <2>2, <2>3, <2>4 DEF CreateWorkflow, RowsOK, VendorExists, SecretRecord
  <2>6. \A d \in Calls : flowCall'[d] = IF d = c THEN NoFlowCall ELSE flowCall[d]
    BY <1>1, <1>15 DEF CreateWorkflow, FlowCallRespond
  <2>7. ASSUME NEW d \in Calls \ {c}, ~flowCall[d].stale PROVE StillSo(flowCall[d])'
    <3>1. flowCall[d].pc \in ReadBefore["workflow"] /\ flowCall[d].op # "create" =>
            flowCall[d].workflow \in WorkflowRows /\ flowCall[d].workflow # w
      BY <1>1, <1>15 DEF Sound, CreateWorkflow
    <3> QED
      BY <1>1, <1>15, <2>2, <2>6, <2>7, <3>1, Readers DEF Sound, StillSo, IsSecretOf
  <2>8. flowCall' = [d \in Calls |-> flowCall'[d]]
    BY <1>1, <1>15 DEF CreateWorkflow, FlowCallRespond
  <2>9. \A u \in WorkflowRows : workflow[u].status # "absent" => workflow'[u].status # "absent"
    BY <2>2, <2>3
  <2> QED
    BY <2>5, <2>6, <2>7, <2>8, <2>9, WriteFlow
<1>16. ASSUME NEW c \in Calls, UpdateWorkflow(c), UNCHANGED <<vendorRow, support, secret, changes>>
       PROVE  FlowInv'
  <2> DEFINE w == flowCall[c].workflow
  <2>1. w \in WorkflowRows /\ workflow[w].status # "absent" /\ flowCall[c].vendor \in VendorRows
    BY <1>1, <1>16, Readers DEF UpdateWorkflow, FlowCallAt, Sound
  <2>2. PICK status \in {workflow[w].status, "active", "inactive"} :
          workflow' = [workflow EXCEPT
                         ![w].status = status,
                         ![w].vendor = IF flowCall[c].sets THEN flowCall[c].vendor ELSE @]
    BY <1>16 DEF UpdateWorkflow
  <2>3. \A u \in WorkflowRows : u # w => workflow'[u] = workflow[u]
    BY <1>3, <2>2 DEF RowsOK
  <2>4. workflow'[w] = [status |-> status,
                        vendor |-> IF flowCall[c].sets THEN flowCall[c].vendor
                                   ELSE workflow[w].vendor]
    BY <1>3, <2>1, <2>2 DEF RowsOK, WorkflowRecord
  <2>5. status \in {"active", "inactive"}
    BY <1>3, <2>1, <2>2 DEF RowsOK, WorkflowRecord
  <2>6. workflow[w].vendor \in VendorRows /\ VendorExists(workflow[w].vendor)
    BY <1>3, <2>1 DEF RowsOK
  <2>7. flowCall[c].sets => VendorExists(flowCall[c].vendor)
    BY <1>16 DEF UpdateWorkflow
  <2>8. workflow' \in [WorkflowRows -> WorkflowRecord]
    BY <1>3, <2>1, <2>2, <2>4, <2>5, <2>6 DEF RowsOK, WorkflowRecord
  <2>9. RowsOK'
    BY <1>3, <1>16, <2>1, <2>3, <2>4, <2>6, <2>7, <2>8 DEF RowsOK, VendorExists, SecretRecord
  <2>10. flowCall' = [d \in Calls |->
           IF d = c THEN NoFlowCall
           ELSE IF flowCall[d].pc \in ReadBefore["workflow"] /\ flowCall[d].workflow = w
           THEN [flowCall[d] EXCEPT !.stale = TRUE] ELSE flowCall[d]]
    BY <1>16 DEF UpdateWorkflow, WorkflowWritten, Overtaken
  <2>11. ASSUME NEW d \in Calls
         PROVE  \/ flowCall'[d] = NoFlowCall
                \/ flowCall'[d] = [flowCall[d] EXCEPT !.stale = TRUE]
                \/ flowCall'[d] = flowCall[d] /\ (~flowCall[d].stale => StillSo(flowCall[d])')
    <3>1. CASE d # c /\ ~(flowCall[d].pc \in ReadBefore["workflow"] /\ flowCall[d].workflow = w)
      <4>1. flowCall'[d] = flowCall[d]
        BY <2>10, <3>1
      <4> QED
        BY <1>1, <1>16, <2>3, <3>1, <4>1, Readers DEF Sound, StillSo, IsSecretOf
    <3> QED
      BY <2>10, <3>1
  <2>12. flowCall' = [d \in Calls |-> flowCall'[d]]
    BY <2>10
  <2>13. \A u \in WorkflowRows : workflow[u].status # "absent" => workflow'[u].status # "absent"
    BY <2>3, <2>4, <2>5
  <2> QED
    BY <2>9, <2>11, <2>12, <2>13, WriteFlow
<1>17. ASSUME NEW x \in Supports, ChangeSupport(x), changes < MaxChanges, changes' = changes + 1,
              UNCHANGED <<vendorRow, workflow>>
       PROVE  FlowInv'
  <2>1. RowsOK'
    BY <1>3, <1>17, WorkflowsAssumption DEF ChangeSupport, RowsOK, VendorExists
  <2>2. flowCall' = [d \in Calls |->
          IF flowCall[d].pc \in ReadBefore[x] /\ (x = "bundle" => flowCall[d].op = "startRun")
          THEN [flowCall[d] EXCEPT !.stale = TRUE] ELSE flowCall[d]]
    BY <1>17 DEF ChangeSupport, Overtaken
  <2>3. \A y \in Supports \ {x} : y \in support' <=> y \in support
    BY <1>17 DEF ChangeSupport
  <2>4. ASSUME NEW d \in Calls
        PROVE  \/ flowCall'[d] = [flowCall[d] EXCEPT !.stale = TRUE]
               \/ flowCall'[d] = flowCall[d] /\ (~flowCall[d].stale => StillSo(flowCall[d])')
    <3>1. CASE ~(flowCall[d].pc \in ReadBefore[x] /\ (x = "bundle" => flowCall[d].op = "startRun"))
      <4>1. flowCall'[d] = flowCall[d]
        BY <2>2, <3>1
      <4> QED
        BY <1>1, <1>17, <2>3, <3>1, <4>1, Readers
        DEF ChangeSupport, Sound, StillSo, IsSecretOf, Supports
    <3> QED
      BY <2>2, <3>1
  <2>5. flowCall' = [d \in Calls |-> flowCall'[d]]
    BY <2>2
  <2> QED
    BY <1>17, <2>1, <2>4, <2>5, WriteFlow
<1>18. ASSUME NEW row \in SecretRecord, ChangeSecret(row), changes < MaxChanges,
              changes' = changes + 1, UNCHANGED <<vendorRow, workflow>>
       PROVE  FlowInv'
  <2>1. RowsOK'
    BY <1>3, <1>18, WorkflowsAssumption DEF ChangeSecret, RowsOK, VendorExists
  <2>2. flowCall' = [d \in Calls |->
          IF flowCall[d].pc \in ReadBefore["credential"]
          THEN [flowCall[d] EXCEPT !.stale = TRUE] ELSE flowCall[d]]
    BY <1>18 DEF ChangeSecret, Overtaken
  <2>3. ASSUME NEW d \in Calls
        PROVE  \/ flowCall'[d] = [flowCall[d] EXCEPT !.stale = TRUE]
               \/ flowCall'[d] = flowCall[d] /\ (~flowCall[d].stale => StillSo(flowCall[d])')
    <3>1. CASE flowCall[d].pc \notin ReadBefore["credential"]
      <4>1. flowCall'[d] = flowCall[d]
        BY <2>2, <3>1
      <4> QED
        BY <1>1, <1>18, <3>1, <4>1, Readers DEF ChangeSecret, Sound, StillSo, IsSecretOf
    <3> QED
      BY <2>2, <3>1
  <2>4. flowCall' = [d \in Calls |-> flowCall'[d]]
    BY <2>2
  <2> QED
    BY <1>18, <2>1, <2>3, <2>4, WriteFlow
<1>19. ASSUME NEW c \in Calls, StartRun(c) \/ FlowCallFails(c),
              UNCHANGED <<vendorRow, workflow, support, secret, changes>>
       PROVE  FlowInv'
  BY <1>5, <1>19 DEF StartRun, FlowCallFails
<1>20. CASE OthersWrite /\ UNCHANGED <<vendorRow, workflow>>
  BY <1>17, <1>18, <1>20 DEF OthersWrite
<1> QED
  BY <1>4, <1>6, <1>10, <1>11, <1>12, <1>13, <1>14, <1>15, <1>16, <1>19, <1>20 DEF FlowNext

\* Rows and calls have their types, and foreign keys hold.
THEOREM WorkflowsTyped == FlowSpec => []FlowTypeOK
<1>1. FlowInv => FlowTypeOK
  BY DEF FlowInv
<1> QED
  BY FlowInitInv, FlowInvStep, <1>1, PTL DEF FlowSpec

\* In a step from FlowInv, workflows that are written have what they need.
LEMMA WriteReady ==
  ASSUME FlowInv, [FlowNext]_flowVars PROVE WrittenWhenReady
<1> SUFFICES ASSUME NEW u \in WorkflowRows, workflow'[u] # workflow[u]
             PROVE  \E c \in Calls :
                      FlowCallEnds(c) /\ (flowCall[c].stale \/ Ready(workflow'[u].vendor))
  BY DEF WrittenWhenReady
<1>1. /\ flowCall \in [Calls -> FlowCallRecord]
      /\ \A c \in Calls : Sound(flowCall[c])
      /\ workflow \in [WorkflowRows -> WorkflowRecord]
  BY DEF FlowInv, FlowTypeOK
<1>2. PICK c \in Calls :
        /\ UNCHANGED <<vendorRow, support, secret>>
        /\ (\E w \in WorkflowRows : CreateWorkflow(c, w)) \/ UpdateWorkflow(c)
  BY DEF FlowNext, flowVars
<1>3. /\ flowCall[c].pc = "write"
      /\ ~flowCall[c].stale => /\ {"agent", "grant"} \subseteq support
                              /\ vendorRow[flowCall[c].vendor] = "live"
                              /\ IsSecretOf(flowCall[c].vendor)
  BY <1>1, <1>2, Readers DEF CreateWorkflow, UpdateWorkflow, FlowCallAt, Sound, StillSo
<1>4. ~flowCall[c].stale => Ready(flowCall[c].vendor)
  BY <1>3 DEF Ready
<1>5. CASE \E w \in WorkflowRows : CreateWorkflow(c, w)
  <2>1. PICK w \in WorkflowRows : CreateWorkflow(c, w)
    BY <1>5
  <2>2. workflow'[u].vendor = flowCall[c].vendor
    BY <1>1, <2>1 DEF CreateWorkflow
  <2>3. FlowCallEnds(c)
    BY <1>1, <1>3, <2>1 DEF FlowCallEnds, CreateWorkflow, FlowCallRespond, NoFlowCall
  <2> QED
    BY <1>4, <2>2, <2>3
<1>6. CASE UpdateWorkflow(c)
  <2> DEFINE w == flowCall[c].workflow
  <2>1. w \in WorkflowRows
    BY <1>1, <1>6, <1>3, Readers DEF UpdateWorkflow, Sound
  <2>2. u = w
    BY <1>1, <1>6, <2>1 DEF UpdateWorkflow
  <2>3. ~flowCall[c].stale /\ ~flowCall[c].sets => workflow[w].vendor = flowCall[c].vendor
    BY <1>1, <1>3, <1>6, Readers DEF UpdateWorkflow, Sound, StillSo
  <2>4. workflow'[w].vendor = IF flowCall[c].sets THEN flowCall[c].vendor ELSE workflow[w].vendor
    BY <1>1, <1>6, <2>1 DEF UpdateWorkflow, WorkflowRecord
  <2>5. FlowCallEnds(c)
    BY <1>1, <1>3, <1>6 DEF FlowCallEnds, UpdateWorkflow, WorkflowWritten, Overtaken, NoFlowCall
  <2> QED
    BY <1>4, <2>2, <2>3, <2>4, <2>5
<1> QED
  BY <1>2, <1>5, <1>6

\* In a state of FlowInv, a run that is started has what it needs.
LEMMA StartReady ==
  ASSUME FlowInv PROVE StartedWhenReady
<1> SUFFICES ASSUME NEW c \in Calls, StartRun(c), ~flowCall[c].stale
             PROVE  LET row == workflow[flowCall[c].workflow]
                    IN row.status = "active" /\ "bundle" \in support /\ Ready(row.vendor)
  BY DEF StartedWhenReady
<1>1. Sound(flowCall[c])
  BY DEF FlowInv
<1>2. flowCall[c].pc = "write" /\ flowCall[c].op = "startRun"
  BY DEF StartRun, FlowCallAt
<1> QED
  BY <1>1, <1>2, Readers DEF Sound, StillSo, Ready

\* Whatever the other calls and services write, a workflow that is written or run
\* has a live vendor, and an active agent with a grant of a credential of that
\* vendor, unless the call was overtaken after it had read one of these.
THEOREM WorkflowsReady == FlowSpec => WorkflowsAreReady
<1>1. FlowInv /\ [FlowNext]_flowVars => [WrittenWhenReady /\ StartedWhenReady]_flowVars
  BY WriteReady, StartReady
<1> QED
  BY FlowInitInv, FlowInvStep, <1>1, PTL DEF FlowSpec, WorkflowsAreReady

(***************************************************************************)
(* Agents: revoked ones, and how many active bundles one has.              *)
(***************************************************************************)
\* Whom a fresh call is about to pause, resume or revoke is not revoked.
FoundUnrevoked ==
  \A c \in Calls :
    AgentCallAt(c, "write") /\ agentCall[c].op \in AgentOps /\ ~agentCall[c].stale =>
      agent[agentCall[c].agent] # "revoked"

\* The policy of the call is going to be an active bundle of an agent.
WillClaim(c) ==
  Claims(agentCall[c].agent, Or(agentCall[c].kind, policy[agentCall[c].policy].kind),
         Or(agentCall[c].status, policy[agentCall[c].policy].status))

\* The agent that a fresh call is about to give an active bundle has no other.
NoOtherBundle ==
  \A c \in Calls :
    AgentCallAt(c, "write") /\ agentCall[c].op \in PolicyOps /\ ~agentCall[c].stale /\ WillClaim(c) =>
      ActiveBundlesOf(agentCall[c].agent) \subseteq {agentCall[c].policy}

\* Only calls on policies look for bundles; create gives every column.
ChecksPolicies ==
  \A c \in Calls :
    /\ AgentCallAt(c, "check") => agentCall[c].op \in PolicyOps
    /\ agentCall[c].op = "create" => agentCall[c].kind # Keep /\ agentCall[c].status # Keep

AgentsInv == AgentsTypeOK /\ ChecksPolicies /\ FoundUnrevoked /\ NoOtherBundle

\* At first there are no policies and no calls.
LEMMA AgentsInitInv == AgentsInit => AgentsInv
BY DEF AgentsInit, AgentsInv, AgentsTypeOK, ChecksPolicies, FoundUnrevoked, NoOtherBundle, AgentStatuses,
       PolicyRecord, PolicyKinds, NoPolicy, AgentCallRecord, NoAgentCall, AgentOps, PolicyOps, AgentCallAt,
       Keep

\* The step of a call that changes nothing but itself.
LEMMA AgentQuietStep ==
  ASSUME AgentsInv, NEW c \in Calls, NEW r \in AgentCallRecord,
         UNCHANGED <<agent, policy>>, agentCall' = [agentCall EXCEPT ![c] = r],
         r.pc # "idle" => \/ r.op \in AgentOps /\ r.agent \in Agents
                          \/ r.op \in PolicyOps /\ r.policy \in Policies,
         r.pc = "check" => r.op \in PolicyOps,
         r.op = "create" => r.kind # Keep /\ r.status # Keep,
         r.pc = "write" /\ r.op \in AgentOps /\ ~r.stale => agent[r.agent] # "revoked",
         r.pc = "write" /\ r.op \in PolicyOps /\ ~r.stale
           /\ Claims(r.agent, Or(r.kind, policy[r.policy].kind), Or(r.status, policy[r.policy].status))
           => ActiveBundlesOf(r.agent) \subseteq {r.policy}
  PROVE AgentsInv'
<1>1. agentCall'[c] = r /\ \A d \in Calls \ {c} : agentCall'[d] = agentCall[d]
  BY DEF AgentsInv, AgentsTypeOK
<1>2. AgentsTypeOK'
  <2>1. agentCall' \in [Calls -> AgentCallRecord]
    BY DEF AgentsInv, AgentsTypeOK
  <2> QED
    BY <1>1, <2>1 DEF AgentsInv, AgentsTypeOK
<1>4. NoOtherBundle'
  <2> SUFFICES ASSUME NEW d \in Calls, AgentCallAt(d, "write")', agentCall'[d].op \in PolicyOps,
                      ~agentCall'[d].stale, WillClaim(d)'
               PROVE ActiveBundlesOf(agentCall[d].agent)' \subseteq {agentCall'[d].policy}
    BY DEF NoOtherBundle
  <2>1. CASE d = c
    BY <2>1, <1>1 DEF AgentCallAt, WillClaim, ActiveBundlesOf
  <2>2. CASE d # c
    BY <2>2, <1>1 DEF AgentCallAt, WillClaim, AgentsInv, NoOtherBundle, ActiveBundlesOf
  <2> QED
    BY <2>1, <2>2
<1>5. ChecksPolicies' /\ FoundUnrevoked'
  BY <1>1 DEF ChecksPolicies, FoundUnrevoked, AgentsInv, AgentCallAt
<1> QED
  BY <1>2, <1>4, <1>5 DEF AgentsInv

\* After a write: what is said of fresh calls is to be shown of those that have not become stale.
LEMMA AgentWriteStep ==
  ASSUME AgentsInv, NEW c \in Calls,
         agent' \in [Agents -> AgentStatuses], policy' \in [Policies -> PolicyRecord],
         DOMAIN agentCall' = Calls, agentCall' = [d \in Calls |-> agentCall'[d]],
         agentCall'[c] = NoAgentCall,
         \A d \in Calls \ {c} :
           \/ agentCall'[d] = agentCall[d]
              /\ (agentCall[d].op \in AgentOps /\ AgentCallAt(d, "write") => agent'[agentCall[d].agent] = agent[agentCall[d].agent])
              /\ (agentCall[d].op \in PolicyOps /\ AgentCallAt(d, "write") => policy' = policy)
           \/ agentCall'[d] = [agentCall[d] EXCEPT !.stale = TRUE]
  PROVE AgentsInv'
<1>1. \A d \in Calls : agentCall[d] \in AgentCallRecord
  BY DEF AgentsInv, AgentsTypeOK
<1>2. NoAgentCall \in AgentCallRecord /\ NoAgentCall.pc = "idle" /\ NoAgentCall.op = "none"
  BY DEF NoAgentCall, AgentCallRecord, Keep
<1>3. \A d \in Calls \ {c} : /\ agentCall'[d] \in AgentCallRecord
                             /\ agentCall'[d].pc = agentCall[d].pc /\ agentCall'[d].op = agentCall[d].op
                             /\ agentCall'[d].agent = agentCall[d].agent
                             /\ agentCall'[d].policy = agentCall[d].policy
                             /\ agentCall'[d].kind = agentCall[d].kind
                             /\ agentCall'[d].status = agentCall[d].status
                             /\ agentCall'[d].stale \/ agentCall'[d] = agentCall[d]
  <2> TAKE d \in Calls \ {c}
  <2> agentCall[d] \in AgentCallRecord
    BY <1>1
  <2>1. CASE agentCall'[d] = agentCall[d]
    BY <2>1
  <2>2. CASE agentCall'[d] = [agentCall[d] EXCEPT !.stale = TRUE]
    BY <2>2 DEF AgentCallRecord
  <2> QED
    BY <2>1, <2>2
<1>4. AgentsTypeOK'
  <2>1. agentCall' \in [Calls -> AgentCallRecord]
    BY <1>2, <1>3
  <2>2. \A d \in Calls : agentCall'[d].pc # "idle" =>
          \/ agentCall'[d].op \in AgentOps /\ agentCall'[d].agent \in Agents
          \/ agentCall'[d].op \in PolicyOps /\ agentCall'[d].policy \in Policies
    BY <1>2, <1>3 DEF AgentsInv, AgentsTypeOK
  <2> QED
    BY <2>1, <2>2 DEF AgentsTypeOK
<1>5. ChecksPolicies'
  BY <1>2, <1>3 DEF AgentsInv, ChecksPolicies, AgentCallAt, PolicyOps
<1>6. FoundUnrevoked'
  <2> SUFFICES ASSUME NEW d \in Calls, AgentCallAt(d, "write")', agentCall'[d].op \in AgentOps, ~agentCall'[d].stale
               PROVE agent'[agentCall'[d].agent] # "revoked"
    BY DEF FoundUnrevoked
  <2>1. d # c /\ agentCall[d] = agentCall'[d]
    BY <1>2, <1>3 DEF AgentCallAt
  <2>2. agentCall[d] # [agentCall[d] EXCEPT !.stale = TRUE]
    BY <2>1, <1>1 DEF AgentCallRecord
  <2> QED
    BY <2>1, <2>2 DEF AgentsInv, FoundUnrevoked, AgentCallAt
<1>7. NoOtherBundle'
  <2> SUFFICES ASSUME NEW d \in Calls, AgentCallAt(d, "write")', agentCall'[d].op \in PolicyOps,
                      ~agentCall'[d].stale, WillClaim(d)'
               PROVE ActiveBundlesOf(agentCall[d].agent)' \subseteq {agentCall'[d].policy}
    BY DEF NoOtherBundle
  <2>1. d # c /\ agentCall[d] = agentCall'[d]
    BY <1>2, <1>3 DEF AgentCallAt
  <2>2. agentCall[d] # [agentCall[d] EXCEPT !.stale = TRUE]
    BY <2>1, <1>1 DEF AgentCallRecord
  <2>3. policy' = policy
    BY <2>1, <2>2 DEF AgentCallAt
  <2>4. WillClaim(d) /\ AgentCallAt(d, "write")
    BY <2>1, <2>3 DEF WillClaim, AgentCallAt
  <2>5. ActiveBundlesOf(agentCall[d].agent) \subseteq {agentCall[d].policy}
    BY <2>1, <2>4 DEF AgentsInv, NoOtherBundle
  <2> QED
    BY <2>1, <2>3, <2>5 DEF ActiveBundlesOf
<1> QED
  BY <1>4, <1>5, <1>6, <1>7 DEF AgentsInv

\* One step per action.
LEMMA AgentsStepInv == AgentsInv /\ [AgentsNext]_agentsVars => AgentsInv'
<1> SUFFICES ASSUME AgentsInv, [AgentsNext]_agentsVars PROVE AgentsInv'
  OBVIOUS
<1> \A c \in Calls : agentCall[c] \in AgentCallRecord
  BY DEF AgentsInv, AgentsTypeOK
<1> NoAgentCall \in AgentCallRecord /\ NoAgentCall.pc = "idle" /\ NoAgentCall.op = "none"
  BY DEF NoAgentCall, AgentCallRecord, Keep
<1>1. ASSUME NEW c \in Calls, NEW op \in AgentOps, NEW a \in Agents, RequestAgentStatus(c, op, a)
      PROVE AgentsInv'
  <2> DEFINE r == [NoAgentCall EXCEPT !.pc = "find", !.op = op, !.agent = a]
  <2>1. r \in AgentCallRecord /\ r.pc = "find" /\ r.op \in AgentOps /\ r.op # "create" /\ r.agent \in Agents
    BY DEF NoAgentCall, AgentCallRecord, AgentOps, Keep
  <2> QED
    BY <1>1, <2>1, AgentQuietStep DEF RequestAgentStatus
<1>2. ASSUME NEW c \in Calls, FindAgent(c) PROVE AgentsInv'
  <2> DEFINE r == IF May(agentCall[c].op, agent[agentCall[c].agent])
                  THEN [agentCall[c] EXCEPT !.pc = "write"] ELSE NoAgentCall
  <2>1. agentCall' = [agentCall EXCEPT ![c] = r] /\ UNCHANGED <<agent, policy>>
    BY <1>2 DEF FindAgent, AgentCallGoto, AgentCallRespond
  <2>2. CASE May(agentCall[c].op, agent[agentCall[c].agent])
    <3>1. r \in AgentCallRecord /\ r.pc = "write" /\ r.op = agentCall[c].op /\ r.agent = agentCall[c].agent
      BY <2>2 DEF AgentCallRecord
    <3>2. r.op \in AgentOps /\ r.op \notin PolicyOps /\ r.op # "create" /\ r.agent \in Agents
      BY <1>2, <3>1 DEF FindAgent, AgentCallAt, AgentsInv, AgentsTypeOK, AgentOps, PolicyOps
    <3> QED
      BY <2>1, <2>2, <3>1, <3>2, AgentQuietStep DEF May
  <2>3. CASE ~May(agentCall[c].op, agent[agentCall[c].agent])
    BY <2>1, <2>3, AgentQuietStep
  <2> QED
    BY <2>2, <2>3
<1>3. ASSUME NEW c \in Calls, SetStatus(c) PROVE AgentsInv'
  <2>1. agent' \in [Agents -> AgentStatuses]
    <3>1. agent \in [Agents -> AgentStatuses] /\ agentCall[c].op \in AgentOps /\ agentCall[c].agent \in Agents
      BY <1>3 DEF SetStatus, AgentCallAt, AgentsInv, AgentsTypeOK, AgentOps, PolicyOps
    <3> QED
      BY <1>3, <3>1 DEF SetStatus, AgentStatuses, AgentOps
  <2>2. /\ DOMAIN agentCall' = Calls /\ agentCall' = [d \in Calls |-> agentCall'[d]]
        /\ agentCall'[c] = NoAgentCall
        /\ UNCHANGED policy /\ policy \in [Policies -> PolicyRecord]
    BY <1>3 DEF SetStatus, AgentWritten, AgentsInv, AgentsTypeOK
  <2>3. ASSUME NEW d \in Calls \ {c}
        PROVE \/ agentCall'[d] = agentCall[d]
                 /\ (agentCall[d].op \in AgentOps /\ AgentCallAt(d, "write") =>
                       agent'[agentCall[d].agent] = agent[agentCall[d].agent])
              \/ agentCall'[d] = [agentCall[d] EXCEPT !.stale = TRUE]
    <3>1. CASE AgentCallAt(d, "write") /\ agentCall[d].op \in AgentOps /\ agentCall[d].agent = agentCall[c].agent
      BY <1>3, <3>1 DEF SetStatus, AgentWritten, AgentCallAt
    <3>2. CASE ~(AgentCallAt(d, "write") /\ agentCall[d].op \in AgentOps /\ agentCall[d].agent = agentCall[c].agent)
      BY <1>3, <3>2 DEF SetStatus, AgentWritten, AgentCallAt, AgentsInv, AgentsTypeOK
    <3> QED
      BY <3>1, <3>2
  <2> QED
    BY <2>1, <2>2, <2>3, AgentWriteStep
<1>4. ASSUME NEW c \in Calls, NEW p \in Policies, RequestPolicyUpdate(c, p) PROVE AgentsInv'
  <2> DEFINE r == [NoAgentCall EXCEPT !.pc = "find", !.op = "update", !.policy = p]
  <2>1. r \in AgentCallRecord /\ r.pc = "find" /\ r.op = "update" /\ r.op \in PolicyOps /\ r.policy \in Policies
    BY DEF NoAgentCall, AgentCallRecord, PolicyOps, Keep
  <2> QED
    BY <1>4, <2>1, AgentQuietStep DEF RequestPolicyUpdate
<1>5. ASSUME NEW c \in Calls, NEW p \in Policies, NEW a \in Agents \cup {None}, NEW kind \in PolicyKinds,
             NEW status \in {"active", "inactive"}, CreatePolicy(c, p, a, kind, status)
      PROVE AgentsInv'
  <2> DEFINE r == [pc |-> IF Claims(a, kind, status) THEN "check" ELSE "write", op |-> "create",
                   agent |-> a, policy |-> p, status |-> status, kind |-> kind, stale |-> FALSE]
  <2>1. r \in AgentCallRecord
    BY DEF AgentCallRecord, PolicyOps
  <2>2. r.op = "create" /\ r.op \in PolicyOps /\ r.op \notin AgentOps /\ r.policy \in Policies
    BY DEF AgentOps, PolicyOps
  <2>3. kind # Keep /\ status # Keep
    BY DEF PolicyKinds, Keep
  <2>4. r.pc = "write" => ~Claims(r.agent, Or(r.kind, policy[r.policy].kind), Or(r.status, policy[r.policy].status))
    BY <2>3 DEF Or
  <2>5. agentCall' = [agentCall EXCEPT ![c] = r] /\ UNCHANGED <<agent, policy>>
    BY <1>5 DEF CreatePolicy
  <2>6. r.kind # Keep /\ r.status # Keep
    BY <2>3
  <2> HIDE DEF r
  <2> QED
    BY <2>1, <2>2, <2>4, <2>5, <2>6, AgentQuietStep
<1>6. ASSUME NEW c \in Calls, NEW a \in Agents \cup {None}, NEW kind \in PolicyKinds \cup {Keep},
             NEW status \in {Keep, "active", "inactive"}, FindPolicy(c, a, kind, status)
      PROVE AgentsInv'
  <2> DEFINE row == policy[agentCall[c].policy]
             pc == IF Claims(a, Or(kind, row.kind), Or(status, row.status)) THEN "check" ELSE "write"
             r == [agentCall[c] EXCEPT !.pc = pc, !.agent = a, !.kind = kind, !.status = status]
  <2>1. pc \in {"check", "write"} /\ (pc = "write" => ~Claims(a, Or(kind, row.kind), Or(status, row.status)))
    OBVIOUS
  <2>2. agentCall' = [agentCall EXCEPT ![c] = r] /\ UNCHANGED <<agent, policy>>
    BY <1>6 DEF FindPolicy
  <2>3. agentCall[c].op = "update" /\ agentCall[c].policy \in Policies
    BY <1>6 DEF FindPolicy, AgentCallAt, AgentsInv, AgentsTypeOK, AgentOps
  <2> HIDE DEF pc
  <2>4. r \in AgentCallRecord /\ r.pc = pc /\ r.agent = a /\ r.kind = kind /\ r.status = status
        /\ r.op = agentCall[c].op /\ r.policy = agentCall[c].policy
    BY ZenonT(60), <2>1 DEF AgentCallRecord
  <2> HIDE DEF r
  <2> QED
    BY <2>1, <2>2, <2>3, <2>4, AgentQuietStep DEF AgentOps, PolicyOps
<1>7. ASSUME NEW c \in Calls, AssertOneActiveBundle(c) PROVE AgentsInv'
  <2> DEFINE others == ActiveBundlesOf(agentCall[c].agent) \ {agentCall[c].policy}
  <2>1. CASE others # {}
    BY <1>7, <2>1, AgentQuietStep DEF AssertOneActiveBundle, AgentCallRespond
  <2>2. CASE others = {}
    <3> DEFINE r == [agentCall[c] EXCEPT !.pc = "write", !.stale = FALSE]
    <3>1. agentCall' = [agentCall EXCEPT ![c] = r] /\ UNCHANGED <<agent, policy>>
      BY <1>7, <2>2 DEF AssertOneActiveBundle
    <3>2. r \in AgentCallRecord /\ r.pc = "write" /\ r.agent = agentCall[c].agent /\ r.policy = agentCall[c].policy
          /\ r.op = agentCall[c].op /\ r.kind = agentCall[c].kind /\ r.status = agentCall[c].status
      BY DEF AgentCallRecord
    <3>3. r.op \in PolicyOps /\ r.op \notin AgentOps /\ r.policy \in Policies
      BY <1>7, <3>2 DEF AssertOneActiveBundle, AgentCallAt, AgentsInv, AgentsTypeOK, ChecksPolicies, AgentOps, PolicyOps
    <3>4. r.op = "create" => r.kind # Keep /\ r.status # Keep
      BY <3>2 DEF AgentsInv, ChecksPolicies
    <3>5. ActiveBundlesOf(r.agent) \subseteq {r.policy}
      BY <2>2, <3>2
    <3> HIDE DEF r
    <3> QED
      BY <3>1, <3>2, <3>3, <3>4, <3>5, AgentQuietStep
  <2> QED
    BY <2>1, <2>2
<1>8. ASSUME NEW c \in Calls, WritePolicy(c) PROVE AgentsInv'
  <2>1. policy' \in [Policies -> PolicyRecord]
    <3>1. policy \in [Policies -> PolicyRecord] /\ agentCall[c].policy \in Policies
      BY <1>8 DEF WritePolicy, AgentCallAt, AgentsInv, AgentsTypeOK, AgentOps, PolicyOps
    <3>2. [status |-> Or(agentCall[c].status, policy[agentCall[c].policy].status),
           kind |-> Or(agentCall[c].kind, policy[agentCall[c].policy].kind),
           agent |-> agentCall[c].agent] \in PolicyRecord
      BY <3>1 DEF PolicyRecord, AgentCallRecord, Or, Keep
    <3> QED
      BY <1>8, <3>1, <3>2 DEF WritePolicy
  <2>2. /\ DOMAIN agentCall' = Calls /\ agentCall' = [d \in Calls |-> agentCall'[d]]
        /\ agentCall'[c] = NoAgentCall
        /\ UNCHANGED agent /\ agent \in [Agents -> AgentStatuses]
    BY <1>8 DEF WritePolicy, AgentWritten, AgentsInv, AgentsTypeOK
  <2>3. ASSUME NEW d \in Calls \ {c}
        PROVE \/ agentCall'[d] = agentCall[d] /\ ~(agentCall[d].op \in PolicyOps /\ AgentCallAt(d, "write"))
              \/ agentCall'[d] = [agentCall[d] EXCEPT !.stale = TRUE]
    BY <1>8 DEF WritePolicy, AgentWritten, AgentCallAt
  <2> QED
    BY <2>1, <2>2, <2>3, AgentWriteStep
<1>9. CASE UNCHANGED agentsVars
  BY <1>9 DEF agentsVars, ActiveBundlesOf, AgentsInv, AgentsTypeOK, ChecksPolicies, FoundUnrevoked,
              NoOtherBundle, WillClaim, AgentCallAt
<1> QED
  BY <1>1, <1>2, <1>3, <1>4, <1>5, <1>6, <1>7, <1>8, <1>9 DEF AgentsNext

\* The invariant of agents and policies holds (AgentsService, PoliciesService).
THEOREM AgentsInvariant == AgentsSpec => []AgentsInv
<1>1. AgentsInit => AgentsInv
  BY AgentsInitInv
<1>2. AgentsInv /\ [AgentsNext]_agentsVars => AgentsInv'
  BY AgentsStepInv
<1> QED
  BY <1>1, <1>2, PTL DEF AgentsSpec

\* Rows and calls have their types (AgentsService and PoliciesService).
THEOREM AgentsTyped == AgentsSpec => []AgentsTypeOK
BY AgentsInvariant, PTL DEF AgentsInv

\* A revoked agent leaves that status only through a call that had found it before
\* the revocation (assertCanPause, assertCanResume).
THEOREM RevocationHolds == AgentsSpec => RevokedStaysRevoked
<1>1. ASSUME AgentsInv, [AgentsNext]_agentsVars, NEW a \in Agents, agent[a] = "revoked", agent'[a] # "revoked"
      PROVE AgentCallEndsStale
  <2>1. PICK c \in Calls : SetStatus(c)
    <3>1. agent' # agent
      BY <1>1
    <3>2. \A c \in Calls :
            /\ \A op \in AgentOps, b \in Agents : ~RequestAgentStatus(c, op, b)
            /\ ~FindAgent(c) /\ ~AssertOneActiveBundle(c) /\ ~WritePolicy(c)
            /\ \A s \in Policies : ~RequestPolicyUpdate(c, s)
      BY <3>1 DEF RequestAgentStatus, FindAgent, RequestPolicyUpdate, AssertOneActiveBundle, WritePolicy
    <3>3. \A c, s, b, kind, status : ~CreatePolicy(c, s, b, kind, status) /\ ~FindPolicy(c, b, kind, status)
      BY <3>1 DEF CreatePolicy, FindPolicy
    <3> QED
      BY <1>1, <3>1, <3>2, <3>3 DEF AgentsNext, agentsVars
  <2>2. agentCall[c].agent = a /\ AgentCallAt(c, "write") /\ agentCall[c].op \in AgentOps
    BY <1>1, <2>1 DEF SetStatus, AgentsInv, AgentsTypeOK
  <2>3. agentCall[c].stale
    BY <1>1, <2>2 DEF AgentsInv, FoundUnrevoked, AgentsTypeOK, AgentCallRecord
  <2>4. AgentCallEnds(c)
    BY <2>1, <2>2 DEF SetStatus, AgentWritten, NoAgentCall, AgentCallEnds, AgentCallAt
  <2> QED
    BY <2>3, <2>4 DEF AgentCallEndsStale
<1>2. AgentsInv /\ [AgentsNext]_agentsVars =>
        [\A a \in Agents : agent[a] = "revoked" /\ agent'[a] # "revoked" => AgentCallEndsStale]_agentsVars
  BY <1>1
<1> QED
  BY <1>2, AgentsInvariant, PTL DEF AgentsSpec, RevokedStaysRevoked

\* An agent gets a second active bundle only through a call that another one on the
\* policies has overtaken (assertOneActiveBundle).
THEOREM BundlesStayAlone == AgentsSpec => OneActiveBundle
<1>1. ASSUME AgentsInv, [AgentsNext]_agentsVars, NEW a \in Agents, NEW p \in Policies, NEW q \in Policies,
             p # q, {p, q} \subseteq ActiveBundlesOf(a)', ~({p, q} \subseteq ActiveBundlesOf(a))
      PROVE AgentCallEndsStale
  <2>1. PICK c \in Calls : WritePolicy(c)
    <3>1. policy' # policy
      BY <1>1 DEF ActiveBundlesOf
    <3>2. \A c \in Calls :
            /\ \A op \in AgentOps, b \in Agents : ~RequestAgentStatus(c, op, b)
            /\ ~FindAgent(c) /\ ~AssertOneActiveBundle(c) /\ ~SetStatus(c)
            /\ \A s \in Policies : ~RequestPolicyUpdate(c, s)
      BY <3>1 DEF RequestAgentStatus, FindAgent, RequestPolicyUpdate, AssertOneActiveBundle, SetStatus
    <3>3. \A c, s, b, kind, status : ~CreatePolicy(c, s, b, kind, status) /\ ~FindPolicy(c, b, kind, status)
      BY <3>1 DEF CreatePolicy, FindPolicy
    <3> QED
      BY <1>1, <3>1, <3>2, <3>3 DEF AgentsNext, agentsVars
  <2>2. AgentCallAt(c, "write") /\ agentCall[c].op \in PolicyOps /\ agentCall[c].policy \in Policies
    BY <2>1, <1>1 DEF WritePolicy, AgentCallAt, AgentsInv, AgentsTypeOK, AgentOps, PolicyOps
  <2> DEFINE r == agentCall[c].policy
  <2>3. /\ \A s \in Policies \ {r} : policy'[s] = policy[s]
        /\ policy'[r].status = Or(agentCall[c].status, policy[r].status)
        /\ policy'[r].kind = Or(agentCall[c].kind, policy[r].kind)
        /\ policy'[r].agent = agentCall[c].agent
    BY <1>1, <2>1, <2>2 DEF WritePolicy, AgentsInv, AgentsTypeOK
  <2>4. r \in ActiveBundlesOf(a)'
    BY <1>1, <2>2, <2>3 DEF ActiveBundlesOf
  <2>5. agentCall[c].agent = a /\ WillClaim(c)
    BY <2>3, <2>4, AgentsAssumption DEF ActiveBundlesOf, WillClaim, Claims
  <2>6. ~(ActiveBundlesOf(a) \subseteq {r})
    <3>1. PICK s \in {p, q} : s # r
      BY <1>1
    <3> QED
      BY <1>1, <2>3, <3>1 DEF ActiveBundlesOf
  <2>7. agentCall[c].stale
    BY <1>1, <2>2, <2>5, <2>6 DEF AgentsInv, NoOtherBundle
  <2>8. AgentCallEnds(c)
    BY <2>1, <2>2 DEF WritePolicy, AgentWritten, NoAgentCall, AgentCallEnds, AgentCallAt
  <2> QED
    BY <2>7, <2>8 DEF AgentCallEndsStale
<1>2. AgentsInv /\ [AgentsNext]_agentsVars =>
        [\A a \in Agents : \A p, q \in Policies :
           p # q /\ {p, q} \subseteq ActiveBundlesOf(a)' /\ ~({p, q} \subseteq ActiveBundlesOf(a))
             => AgentCallEndsStale]_agentsVars
  BY <1>1
<1> QED
  BY <1>2, AgentsInvariant, PTL DEF AgentsSpec, OneActiveBundle

(***************************************************************************)
(* Vault: what a call under way has read still holds of the credential,    *)
(* or the call is stale.                                                   *)
(***************************************************************************)
\* The operations that name an agent.
InvolveAgent == {"grant", "revokeGrant", "decrypt"}

\* A call is about a credential that exists, at a step of its own handler.
CallNames(r) ==
  /\ r.pc # "idle" => /\ r.cred \in Credentials /\ r.op # "none"
                      /\ cred[r.cred].status # "absent"
                      /\ r.op \in InvolveAgent => r.agent \in Grantees
  /\ r.rotate => r.op = "update"
  /\ r.pc = "findGrant" => r.op \in InvolveAgent

\* A fresh call that changes or uses a credential has found it unrevoked, and the
\* version it is about to exceed is the one of the row.
CallFresh(r) ==
  /\ r.pc \in {"findGrant", "write", "create"} /\ r.op \in {"update", "grant", "decrypt"} /\ ~r.stale =>
       cred[r.cred].status # "revoked"
  /\ r.pc = "write" /\ r.rotate =>
       r.version < MaxVersion /\ (~r.stale => r.version = cred[r.cred].version)

\* decrypt has seen what there is now, and by its steps what it has asked for.
CallSaw(r) ==
  r.op = "decrypt" /\ r.pc # "idle" =>
    /\ IsLive(r.cred) \/ r.pc \in {"findGrant", "write"} => r.live
    /\ grant[r.cred][r.agent] = "live" \/ r.pc = "write" => r.granted

CallOK(r) == CallNames(r) /\ CallFresh(r) /\ CallSaw(r)

VaultInv ==
  /\ cred \in [Credentials -> CredentialRecord]
  /\ grant \in [Credentials -> [Grantees -> GrantStates]]
  /\ vaultCall \in [Calls -> VaultCallRecord]
  /\ \A c \in Calls : CallOK(vaultCall[c])

\* The record of a call that is over satisfies the invariant.
LEMMA NoCallIsOK == NoVaultCall \in VaultCallRecord /\ CallOK(NoVaultCall) /\ CallOK(NoVaultCall)'
BY VaultAssumption DEF NoVaultCall, VaultCallRecord, VaultOps, CallOK, CallNames, CallFresh, CallSaw

\* The step of a call that reads, or changes nothing but itself.
LEMMA VaultQuietStep ==
  ASSUME VaultInv, NEW c \in Calls, NEW r \in VaultCallRecord, CallOK(r),
         UNCHANGED <<cred, grant>>, vaultCall' = [vaultCall EXCEPT ![c] = r]
  PROVE VaultInv'
<1>1. vaultCall'[c] = r /\ \A d \in Calls \ {c} : vaultCall'[d] = vaultCall[d]
  BY DEF VaultInv
<1>2. \A d \in Calls : CallOK(vaultCall'[d])
  BY <1>1 DEF VaultInv
<1>3. \A d \in Calls : CallOK(vaultCall[d])'
  BY <1>2 DEF CallOK, CallNames, CallFresh, CallSaw, IsLive
<1> QED
  BY <1>3 DEF VaultInv

\* The step that writes credential k or its grants and ends the call.
LEMMA VaultWriteStep ==
  ASSUME VaultInv, NEW c \in Calls, NEW k \in Credentials,
         cred' \in [Credentials -> CredentialRecord], grant' \in [Credentials -> [Grantees -> GrantStates]],
         \A j \in Credentials \ {k} : cred'[j] = cred[j] /\ grant'[j] = grant[j],
         cred[k].status # "absent" => cred'[k].status # "absent",
         VaultWritten(c, k)
  PROVE VaultInv'
<1>1. vaultCall'[c] = NoVaultCall
  BY DEF VaultWritten
<1>2. ASSUME NEW d \in Calls \ {c} PROVE vaultCall'[d] \in VaultCallRecord /\ CallOK(vaultCall[d])'
  <2>1. vaultCall[d] \in VaultCallRecord /\ CallOK(vaultCall[d])
    BY DEF VaultInv
  <2>2. CASE vaultCall[d].pc = "idle" \/ vaultCall[d].cred # k \/ UNCHANGED <<cred, grant>>
    <3>1. vaultCall'[d] = vaultCall[d]
      BY <2>2 DEF VaultWritten
    <3> QED
      BY <2>1, <2>2, <3>1 DEF CallOK, CallNames, CallFresh, CallSaw, IsLive
  <2>3. CASE ~(vaultCall[d].pc = "idle" \/ vaultCall[d].cred # k \/ UNCHANGED <<cred, grant>>)
    <3> DEFINE r == vaultCall[d]
               live == r.live \/ (r.op = "decrypt" /\ cred'[k].status \in {"active", "rotated"})
               granted == r.granted \/ (r.op = "decrypt" /\ grant'[k][r.agent] = "live")
    <3>1. vaultCall'[d] = [r EXCEPT !.stale = TRUE, !.live = live, !.granted = granted]
      BY <2>3 DEF VaultWritten
    <3>2. live \in BOOLEAN /\ granted \in BOOLEAN
      OBVIOUS
    <3> HIDE DEF live, granted
    <3>3. vaultCall'[d] \in VaultCallRecord
      BY <2>1, <3>1, <3>2 DEF VaultCallRecord
    <3>4. /\ vaultCall'[d].pc = r.pc /\ vaultCall'[d].op = r.op /\ vaultCall'[d].cred = k
          /\ vaultCall'[d].agent = r.agent /\ vaultCall'[d].rotate = r.rotate
          /\ vaultCall'[d].version = r.version /\ vaultCall'[d].stale = TRUE
          /\ vaultCall'[d].live = live /\ vaultCall'[d].granted = granted
      BY <2>1, <2>3, <3>1 DEF VaultCallRecord
    <3>5. CallNames(vaultCall[d])' /\ CallFresh(vaultCall[d])'
      BY <2>1, <2>3, <3>4 DEF CallOK, CallNames, CallFresh
    <3>6. CallSaw(vaultCall[d])'
      BY <2>1, <2>3, <3>4 DEF CallOK, CallSaw, IsLive, live, granted
    <3> QED
      BY <3>3, <3>5, <3>6 DEF CallOK
  <2> QED
    BY <2>2, <2>3
<1>3. \A d \in Calls : vaultCall'[d] \in VaultCallRecord /\ CallOK(vaultCall[d])'
  BY <1>1, <1>2, NoCallIsOK
<1>4. vaultCall' = [d \in Calls |-> vaultCall'[d]]
  BY DEF VaultWritten
<1>5. vaultCall' \in [Calls -> VaultCallRecord]
  BY <1>3, <1>4
<1> QED
  BY <1>3, <1>5 DEF VaultInv

\* What the invariant says of one call.
LEMMA CallFields ==
  ASSUME VaultInv, NEW c \in Calls
  PROVE  /\ vaultCall[c] \in VaultCallRecord /\ CallOK(vaultCall[c])
         /\ vaultCall[c].pc # "idle" => vaultCall[c].cred \in Credentials
         /\ vaultCall[c].pc # "idle" /\ vaultCall[c].op \in InvolveAgent => vaultCall[c].agent \in Grantees
BY DEF VaultInv, CallOK, CallNames

\* What update writes.
LEMMA UpdateStep ==
  ASSUME VaultInv, NEW c \in Calls, UpdateCredential(c)
  PROVE  /\ VaultInv'
         /\ \A j \in Credentials \ {vaultCall[c].cred} : cred'[j] = cred[j]
         /\ vaultCall[c].rotate => cred'[vaultCall[c].cred].version = vaultCall[c].version + 1
<1> DEFINE call == vaultCall[c]
           k == call.cred
           vendor == IF call.vendor = None THEN cred[k].vendor ELSE call.vendor
           kept == [cred[k] EXCEPT !.vendor = vendor]
           version == call.version + 1
           row == IF call.rotate THEN [kept EXCEPT !.status = "rotated", !.version = version] ELSE kept
<1>1. call \in VaultCallRecord /\ CallOK(call) /\ k \in Credentials /\ call.pc = "write" /\ call.op = "update"
  BY CallFields DEF UpdateCredential, VaultCallAt
<1>2. cred[k] \in CredentialRecord /\ cred[k].status # "absent"
  BY <1>1 DEF VaultInv, CallOK, CallNames
<1>3. call.rotate => version \in 0..MaxVersion
  BY <1>1, VaultAssumption DEF CallOK, CallFresh, VaultCallRecord
<1>4. cred' = [cred EXCEPT ![k] = row]
  BY DEF UpdateCredential, NextKeyVersion
<1>5. kept \in CredentialRecord /\ kept.status # "absent"
  BY <1>1, <1>2 DEF CredentialRecord, VaultCallRecord
<1> HIDE DEF kept, version
<1>6. row \in CredentialRecord /\ row.status # "absent" /\ (call.rotate => row.version = version)
  BY <1>3, <1>5 DEF CredentialRecord
<1> HIDE DEF row
<1>7. cred' \in [Credentials -> CredentialRecord] /\ cred'[k] = row /\ \A j \in Credentials \ {k} : cred'[j] = cred[j]
  BY <1>1, <1>4, <1>6 DEF VaultInv
<1>8. UNCHANGED grant /\ VaultWritten(c, k)
  BY DEF UpdateCredential
<1>9. VaultInv'
  BY <1>1, <1>6, <1>7, <1>8, VaultWriteStep DEF VaultInv
<1> QED
  BY <1>6, <1>7, <1>9 DEF version

\* What grant and revokeGrant write.
LEMMA SetGrantStep ==
  ASSUME VaultInv, NEW c \in Calls, vaultCall[c].pc # "idle", vaultCall[c].op \in InvolveAgent,
         NEW state \in GrantStates, SetGrant(c, state)
  PROVE  /\ VaultInv'
         /\ \A j \in Credentials, a \in Grantees :
              grant'[j][a] = IF j = vaultCall[c].cred /\ a = vaultCall[c].agent THEN state ELSE grant[j][a]
<1>1. vaultCall[c].cred \in Credentials /\ vaultCall[c].agent \in Grantees
  BY CallFields
<1>2. grant \in [Credentials -> [Grantees -> GrantStates]] /\ cred \in [Credentials -> CredentialRecord]
  BY DEF VaultInv
<1>3. grant' \in [Credentials -> [Grantees -> GrantStates]]
  BY <1>1, <1>2 DEF SetGrant
<1>4. \A j \in Credentials \ {vaultCall[c].cred} : grant'[j] = grant[j]
  BY <1>1, <1>2 DEF SetGrant
<1>5. \A j \in Credentials, a \in Grantees :
        grant'[j][a] = IF j = vaultCall[c].cred /\ a = vaultCall[c].agent THEN state ELSE grant[j][a]
  BY <1>1, <1>2 DEF SetGrant
<1>6. UNCHANGED cred /\ VaultWritten(c, vaultCall[c].cred)
  BY DEF SetGrant
<1> QED
  BY <1>1, <1>2, <1>3, <1>4, <1>5, <1>6, VaultWriteStep

\* One step per action.
LEMMA VaultStepInv == VaultInv /\ [VaultNext]_vaultVars => VaultInv'
<1> SUFFICES ASSUME VaultInv, [VaultNext]_vaultVars PROVE VaultInv'
  OBVIOUS
<1>1. ASSUME NEW c \in Calls, NEW k \in Credentials, NEW v \in Vendors, CreateCredential(c, k, v)
      PROVE VaultInv'
  <2>1. /\ UNCHANGED <<grant, vaultCall>> /\ cred' \in [Credentials -> CredentialRecord]
        /\ \A j \in Credentials \ {k} : cred'[j] = cred[j]
    BY <1>1, VaultAssumption DEF CreateCredential, VaultInv, CredentialRecord
  <2>2. ASSUME NEW d \in Calls PROVE CallOK(vaultCall[d])'
    <3>1. CallOK(vaultCall[d]) /\ vaultCall'[d] = vaultCall[d]
      BY <2>1 DEF VaultInv
    <3>2. vaultCall[d].pc # "idle" => vaultCall[d].cred \in Credentials /\ vaultCall[d].cred # k
      BY <1>1, <3>1 DEF CreateCredential, CallOK, CallNames
    <3> QED
      BY <2>1, <3>1, <3>2 DEF CallOK, CallNames, CallFresh, CallSaw, IsLive
  <2> QED
    BY <2>1, <2>2 DEF VaultInv
<1>2. ASSUME NEW c \in Calls, NEW op \in VaultOps, NEW k \in Credentials, NEW a \in Grantees \cup {None},
             NEW v \in Vendors \cup {None}, NEW rotate \in BOOLEAN,
             RequestCredential(c, op, k, a, v, rotate)
      PROVE VaultInv'
  <2> DEFINE live == op = "decrypt" /\ IsLive(k)
             granted == op = "decrypt" /\ grant[k][a] = "live"
             r == [NoVaultCall EXCEPT !.pc = "find", !.op = op, !.cred = k, !.agent = a, !.vendor = v,
                     !.rotate = rotate, !.live = live, !.granted = granted]
  <2>1. live \in BOOLEAN /\ granted \in BOOLEAN
    OBVIOUS
  <2>2. UNCHANGED <<cred, grant>> /\ vaultCall' = [vaultCall EXCEPT ![c] = r]
    BY <1>2 DEF RequestCredential
  <2>3. /\ op # "none" /\ cred[k].status # "absent" /\ (rotate => op = "update")
        /\ op \in InvolveAgent => a \in Grantees
    BY <1>2 DEF RequestCredential, InvolveAgent
  <2> HIDE DEF live, granted
  <2>4. /\ r \in VaultCallRecord /\ r.pc = "find" /\ r.op = op /\ r.cred = k /\ r.agent = a
        /\ r.rotate = rotate /\ r.live = live /\ r.granted = granted
    BY ZenonT(60), <2>1, NoCallIsOK DEF VaultCallRecord, NoVaultCall
  <2> HIDE DEF r
  <2>5. CallOK(r)
    BY <2>3, <2>4 DEF CallOK, CallNames, CallFresh, CallSaw, live, granted
  <2> QED
    BY <2>2, <2>4, <2>5, VaultQuietStep
<1>3. ASSUME NEW c \in Calls, FindCredential(c) PROVE VaultInv'
  <2> DEFINE call == vaultCall[c]
             pc == IF call.op \in {"update", "revoke"} THEN "write" ELSE "findGrant"
             version == IF call.op = "update" THEN cred[call.cred].version ELSE 0
             r == [call EXCEPT !.pc = pc, !.version = version, !.stale = FALSE]
  <2>1. call.pc = "find" /\ call \in VaultCallRecord /\ CallOK(call) /\ call.cred \in Credentials
    BY <1>3, CallFields DEF FindCredential
  <2>2. CASE ~Accepts(c)
    BY <1>3, <2>2, NoCallIsOK, VaultQuietStep DEF FindCredential, VaultCallRespond
  <2>3. CASE Accepts(c)
    <3>1. UNCHANGED <<cred, grant>> /\ vaultCall' = [vaultCall EXCEPT ![c] = r]
      BY <1>3, <2>3 DEF FindCredential
    <3>2. pc \in {"write", "findGrant"} /\ version \in 0..MaxVersion /\ cred[call.cred] \in CredentialRecord
      BY <2>1, VaultAssumption DEF VaultInv, CredentialRecord
    <3>3. /\ r \in VaultCallRecord /\ r.pc = pc /\ r.version = version /\ r.stale = FALSE /\ r.op = call.op
          /\ r.cred = call.cred /\ r.agent = call.agent /\ r.rotate = call.rotate /\ r.live = call.live
          /\ r.granted = call.granted
      BY <2>1, <3>2 DEF VaultCallRecord
    <3> HIDE DEF r
    <3>4. CallNames(r)
      BY <2>1, <3>3 DEF CallOK, CallNames, VaultCallRecord, VaultOps, InvolveAgent
    <3>5. CallFresh(r)
      BY <2>1, <2>3, <3>3 DEF CallOK, CallNames, CallFresh, Accepts
    <3>6. CallSaw(r)
      BY <2>1, <2>3, <3>2, <3>3 DEF CallOK, CallNames, CallSaw, Accepts, IsLive, CredentialRecord
    <3> QED
      BY <3>1, <3>3, <3>4, <3>5, <3>6, VaultQuietStep DEF CallOK
  <2> QED
    BY <2>2, <2>3
<1>4. ASSUME NEW c \in Calls, FindGrant(c) PROVE VaultInv'
  <2>1. /\ vaultCall[c].pc = "findGrant" /\ vaultCall[c] \in VaultCallRecord /\ CallOK(vaultCall[c])
        /\ vaultCall[c].op \in InvolveAgent /\ UNCHANGED <<cred, grant>>
    BY <1>4, CallFields DEF FindGrant, CallOK, CallNames
  <2>2. ASSUME NEW pc \in {"write", "create"}, VaultCallGoto(c, pc),
               vaultCall[c].op = "decrypt" => GrantOf(c) = "live"
        PROVE VaultInv'
    <3> DEFINE r == [vaultCall[c] EXCEPT !.pc = pc]
    <3>1. /\ r \in VaultCallRecord /\ r.pc = pc /\ r.version = vaultCall[c].version /\ r.stale = vaultCall[c].stale
          /\ r.op = vaultCall[c].op /\ r.cred = vaultCall[c].cred /\ r.agent = vaultCall[c].agent
          /\ r.rotate = vaultCall[c].rotate /\ r.live = vaultCall[c].live /\ r.granted = vaultCall[c].granted
      BY <2>1 DEF VaultCallRecord
    <3>2. vaultCall' = [vaultCall EXCEPT ![c] = r]
      BY <2>2 DEF VaultCallGoto
    <3> HIDE DEF r
    <3>3. CallOK(r)
      BY <2>1, <2>2, <3>1 DEF CallOK, CallNames, CallFresh, CallSaw, GrantOf, InvolveAgent
    <3> QED
      BY <2>1, <3>1, <3>2, <3>3, VaultQuietStep
  <2>3. ASSUME VaultCallRespond(c) PROVE VaultInv'
    BY <2>1, <2>3, NoCallIsOK, VaultQuietStep DEF VaultCallRespond
  <2> QED
    BY <1>4, <2>1, <2>2, <2>3 DEF FindGrant, InvolveAgent
<1>5. ASSUME NEW c \in Calls, UpdateCredential(c) PROVE VaultInv'
  BY <1>5, UpdateStep
<1>6. ASSUME NEW c \in Calls, RevokeCredential(c) PROVE VaultInv'
  <2>1. vaultCall[c].cred \in Credentials
    BY <1>6, CallFields DEF RevokeCredential, VaultCallAt
  <2>2. /\ cred' \in [Credentials -> CredentialRecord] /\ cred'[vaultCall[c].cred].status = "revoked"
        /\ \A j \in Credentials \ {vaultCall[c].cred} : cred'[j] = cred[j]
    BY <1>6, <2>1 DEF RevokeCredential, VaultInv, CredentialRecord
  <2> QED
    BY <1>6, <2>1, <2>2, VaultWriteStep DEF RevokeCredential, VaultInv
<1>7. ASSUME NEW c \in Calls, UpdateGrant(c) \/ RevokeGrant(c) PROVE VaultInv'
  BY <1>7, SetGrantStep DEF UpdateGrant, RevokeGrant, VaultCallAt, InvolveAgent, GrantStates
<1>8. ASSUME NEW c \in Calls, CreateGrant(c) PROVE VaultInv'
  <2>1. CASE GrantOf(c) = "absent"
    BY <1>8, <2>1, SetGrantStep DEF CreateGrant, VaultCallAt, InvolveAgent, GrantStates
  <2>2. CASE GrantOf(c) # "absent"
    BY <1>8, <2>2, NoCallIsOK, VaultQuietStep DEF CreateGrant, VaultCallRespond
  <2> QED
    BY <2>1, <2>2
<1>9. ASSUME NEW c \in Calls, Decrypt(c) PROVE VaultInv'
  BY <1>9, NoCallIsOK, VaultQuietStep DEF Decrypt, VaultCallRespond
<1>10. CASE UNCHANGED vaultVars
  BY <1>10 DEF vaultVars, VaultInv, CallOK, CallNames, CallFresh, CallSaw, IsLive
<1> QED
  BY <1>1, <1>2, <1>3, <1>4, <1>5, <1>6, <1>7, <1>8, <1>9, <1>10 DEF VaultNext

\* The invariant of the vault holds (CredentialsService).
THEOREM VaultInvariant == VaultSpec => []VaultInv
<1>1. VaultInit => VaultInv
  <2> SUFFICES ASSUME VaultInit PROVE VaultInv
    OBVIOUS
  <2>1. cred \in [Credentials -> CredentialRecord] /\ grant \in [Credentials -> [Grantees -> GrantStates]]
    BY VaultAssumption DEF VaultInit, CredentialRecord, GrantStates
  <2> QED
    BY <2>1, NoCallIsOK DEF VaultInit, VaultInv
<1> QED
  BY <1>1, VaultStepInv, PTL DEF VaultSpec

\* Rows and calls have their types (CredentialsService).
THEOREM VaultTyped == VaultSpec => []VaultTypeOK
<1>1. VaultInv => VaultTypeOK
  BY DEF VaultInv, VaultTypeOK, CallOK, CallNames, InvolveAgent
<1> QED
  BY <1>1, VaultInvariant, PTL

\* A secret is handed out only if, since the worker asked, the credential has been
\* live and the agent of the run has held a grant of it (decryptForRun).
THEOREM SecretsNeedGrants == VaultSpec => SecretsAreForGrantees
<1>1. VaultInv => \A c \in Calls : VaultCallAt(c, "write", "decrypt") => vaultCall[c].live /\ vaultCall[c].granted
  BY DEF VaultInv, CallOK, CallSaw, VaultCallAt
<1>2. VaultInv /\ [VaultNext]_vaultVars =>
        [\A c \in Calls : VaultCallEnds(c) /\ VaultCallAt(c, "write", "decrypt") =>
           vaultCall[c].live /\ vaultCall[c].granted]_vaultVars
  BY <1>1
<1> QED
  BY <1>2, VaultInvariant, PTL DEF VaultSpec, SecretsAreForGrantees

\* Only the call that writes ends in the step, and it tells whether it is stale.
LEMMA VaultWriterEnds ==
  ASSUME NEW c \in Calls, NEW k, vaultCall[c].pc # "idle", VaultWritten(c, k)
  PROVE  /\ VaultCallEnds(c) /\ (vaultCall[c].stale => VaultCallEndsStale)
         /\ \A d \in Calls : VaultCallEnds(d) /\ vaultCall[d] \in VaultCallRecord => d = c
<1>1. VaultCallEnds(c)
  BY DEF VaultWritten, VaultCallEnds, NoVaultCall
<1>2. ASSUME NEW d \in Calls \ {c}, vaultCall[d] \in VaultCallRecord PROVE ~VaultCallEnds(d)
  <2>1. vaultCall'[d].pc = vaultCall[d].pc
    BY <1>2 DEF VaultWritten, VaultCallRecord
  <2> QED
    BY <2>1 DEF VaultCallEnds
<1> QED
  BY <1>1, <1>2 DEF VaultCallEndsStale

\* A write of a grant leaves the credentials that are revoked alone.
LEMMA GrantsOfRevoked ==
  ASSUME VaultInv, NEW k \in Credentials, NEW c \in Calls, NEW state \in GrantStates,
         vaultCall[c].pc \in {"write", "create"}, vaultCall[c].op \in InvolveAgent,
         state = "live" => vaultCall[c].op = "grant", SetGrant(c, state)
  PROVE  RevokedIsLeftAlone(k)
<1> SUFFICES ASSUME cred[k].status = "revoked", ~VaultCallEndsStale
             PROVE  \A a \in Grantees : grant'[k][a] = "live" => grant[k][a] = "live"
  BY DEF RevokedIsLeftAlone, SetGrant
<1>1. ~vaultCall[c].stale
  BY VaultWriterEnds DEF SetGrant
<1>2. CallFresh(vaultCall[c])
  BY CallFields DEF CallOK
<1>3. vaultCall[c].op = "grant" => vaultCall[c].cred # k
  BY <1>1, <1>2 DEF CallFresh
<1>4. \A a \in Grantees :
        grant'[k][a] = IF k = vaultCall[c].cred /\ a = vaultCall[c].agent THEN state ELSE grant[k][a]
  BY SetGrantStep
<1> QED
  BY <1>3, <1>4

\* Once revoked a credential is not used again, and every secret gets a version of its
\* own, unless another call has overtaken the one that writes (update, grant, revoke).
THEOREM CredentialsDoNotRelapse == VaultSpec => CredentialsMoveOn
<1>1. ASSUME VaultInv, [VaultNext]_vaultVars, NEW k \in Credentials
      PROVE RevokedIsLeftAlone(k) /\ VersionGrows(k)
  <2>1. \A d \in Calls : vaultCall[d] \in VaultCallRecord
    BY <1>1, CallFields
  <2>2. ASSUME NEW c \in Calls, UpdateCredential(c) PROVE RevokedIsLeftAlone(k) /\ VersionGrows(k)
    <3>1. /\ VaultCallAt(c, "write", "update") /\ VaultWritten(c, vaultCall[c].cred) /\ UNCHANGED grant
          /\ vaultCall[c].cred \in Credentials /\ CallFresh(vaultCall[c])
      BY <1>1, <2>2, CallFields DEF UpdateCredential, VaultCallAt, CallOK
    <3>2. /\ vaultCall[c].stale => VaultCallEndsStale
          /\ \A d \in Calls : VaultCallEnds(d) => d = c
      BY <2>1, <3>1, VaultWriterEnds DEF VaultCallAt
    <3>3. RevokedIsLeftAlone(k)
      <4>1. k # vaultCall[c].cred => cred'[k] = cred[k]
        BY <1>1, <2>2, UpdateStep
      <4>2. k = vaultCall[c].cred /\ cred[k].status = "revoked" => vaultCall[c].stale
        BY <2>1, <3>1 DEF CallFresh, VaultCallAt, VaultCallRecord
      <4> QED
        BY <3>1, <3>2, <4>1, <4>2 DEF RevokedIsLeftAlone
    <3>4. VersionGrows(k)
      <4> SUFFICES ASSUME vaultCall[c].rotate, vaultCall[c].cred = k, ~vaultCall[c].stale
                   PROVE  cred'[k].version > cred[k].version
        BY <2>1, <3>2 DEF VersionGrows, VaultCallRecord
      <4>1. cred'[k].version = vaultCall[c].version + 1
        BY <1>1, <2>2, UpdateStep
      <4>2. vaultCall[c].version = cred[k].version /\ vaultCall[c].version \in Nat
        BY <2>1, <3>1, VaultAssumption DEF CallFresh, VaultCallAt, VaultCallRecord
      <4> QED
        BY <4>1, <4>2
    <3> QED
      BY <3>3, <3>4
  <2>3. ASSUME NEW c \in Calls, UpdateGrant(c) PROVE RevokedIsLeftAlone(k) /\ VersionGrows(k)
    <3>1. RevokedIsLeftAlone(k)
      BY <1>1, <2>3, GrantsOfRevoked DEF UpdateGrant, VaultCallAt, InvolveAgent, GrantStates
    <3>2. VersionGrows(k)
      BY <2>1, <2>3, VaultWriterEnds DEF UpdateGrant, SetGrant, VaultCallAt, VersionGrows
    <3> QED
      BY <3>1, <3>2
  <2>4. ASSUME NEW c \in Calls, RevokeGrant(c) PROVE RevokedIsLeftAlone(k) /\ VersionGrows(k)
    <3>1. RevokedIsLeftAlone(k)
      BY <1>1, <2>4, GrantsOfRevoked DEF RevokeGrant, VaultCallAt, InvolveAgent, GrantStates
    <3>2. VersionGrows(k)
      BY <2>1, <2>4, VaultWriterEnds DEF RevokeGrant, SetGrant, VaultCallAt, VersionGrows
    <3> QED
      BY <3>1, <3>2
  <2>5. ASSUME NEW c \in Calls, CreateGrant(c), SetGrant(c, "live")
        PROVE RevokedIsLeftAlone(k) /\ VersionGrows(k)
    <3>1. RevokedIsLeftAlone(k)
      BY <1>1, <2>5, GrantsOfRevoked DEF CreateGrant, VaultCallAt, InvolveAgent, GrantStates
    <3>2. VersionGrows(k)
      BY <2>1, <2>5, VaultWriterEnds DEF CreateGrant, SetGrant, VaultCallAt, VersionGrows
    <3> QED
      BY <3>1, <3>2
  <2>6. ASSUME NEW c \in Calls, RevokeCredential(c) PROVE RevokedIsLeftAlone(k) /\ VersionGrows(k)
    <3>1. VersionGrows(k)
      BY <2>1, <2>6, VaultWriterEnds DEF RevokeCredential, VaultCallAt, VersionGrows
    <3>2. RevokedIsLeftAlone(k)
      <4>1. cred \in [Credentials -> CredentialRecord] /\ UNCHANGED grant
            /\ cred' = [cred EXCEPT ![vaultCall[c].cred].status = "revoked"]
        BY <1>1, <2>6 DEF VaultInv, RevokeCredential
      <4>2. cred'[k] = cred[k] \/ cred'[k] = [cred[k] EXCEPT !.status = "revoked"]
        BY <4>1
      <4>3. cred[k].status = "revoked" => cred'[k].status = "revoked" /\ cred'[k].version = cred[k].version
        BY <4>1, <4>2 DEF CredentialRecord
      <4> QED
        BY <4>1, <4>3 DEF RevokedIsLeftAlone
    <3> QED
      BY <3>1, <3>2
  <2>7. ASSUME NEW j \in Credentials, NEW v \in Vendors, NEW c \in Calls, CreateCredential(c, j, v)
        PROVE RevokedIsLeftAlone(k) /\ VersionGrows(k)
    <3>1. UNCHANGED <<grant, vaultCall>> /\ (cred[k].status = "revoked" => cred'[k] = cred[k])
      BY <1>1, <2>7 DEF CreateCredential, VaultInv
    <3> QED
      BY <3>1 DEF RevokedIsLeftAlone, VersionGrows, VaultCallEnds
  <2>8. ASSUME UNCHANGED <<cred, grant>>,
               \A d \in Calls : VaultCallEnds(d) => ~VaultCallAt(d, "write", "update")
        PROVE RevokedIsLeftAlone(k) /\ VersionGrows(k)
    BY <2>8 DEF RevokedIsLeftAlone, VersionGrows
  <2>9. ASSUME NEW c \in Calls, FindCredential(c) \/ FindGrant(c) \/ Decrypt(c)
                 \/ (CreateGrant(c) /\ VaultCallRespond(c) /\ UNCHANGED <<cred, grant>>)
        PROVE RevokedIsLeftAlone(k) /\ VersionGrows(k)
    <3>1. UNCHANGED <<cred, grant>> /\ ~VaultCallAt(c, "write", "update")
      BY <2>9 DEF FindCredential, FindGrant, Decrypt, CreateGrant, VaultCallAt
    <3>2. \A d \in Calls \ {c} : vaultCall'[d].pc = vaultCall[d].pc
      <4>1. vaultCall \in [Calls -> VaultCallRecord]
        BY <1>1 DEF VaultInv
      <4>2. CASE VaultCallRespond(c)
        BY <4>1, <4>2 DEF VaultCallRespond
      <4>3. CASE FindCredential(c)
        BY <4>1, <4>2, <4>3 DEF FindCredential
      <4>4. CASE FindGrant(c)
        <5>1. \A pc : VaultCallGoto(c, pc) => \A d \in Calls \ {c} : vaultCall'[d] = vaultCall[d]
          BY <4>1 DEF VaultCallGoto
        <5>2. vaultCall[c].op \in InvolveAgent
          BY <1>1, <4>4, CallFields DEF FindGrant, CallOK, CallNames
        <5> QED
          BY <4>2, <4>4, <5>1, <5>2 DEF FindGrant, InvolveAgent
      <4> QED
        BY <2>9, <4>2, <4>3, <4>4 DEF Decrypt
    <3> QED
      BY <2>8, <3>1, <3>2 DEF VaultCallEnds
  <2>10. ASSUME NEW c \in Calls, NEW op, NEW j, NEW a, NEW v, NEW rotate,
                RequestCredential(c, op, j, a, v, rotate)
         PROVE RevokedIsLeftAlone(k) /\ VersionGrows(k)
    <3>1. UNCHANGED <<cred, grant>> /\ vaultCall[c].pc = "idle"
      BY <2>10 DEF RequestCredential
    <3>2. \A d \in Calls \ {c} : vaultCall'[d] = vaultCall[d]
      BY <1>1, <2>10 DEF RequestCredential, VaultInv
    <3> QED
      BY <2>8, <3>1, <3>2 DEF VaultCallEnds
  <2>11. CASE UNCHANGED vaultVars
    BY <2>8, <2>11 DEF vaultVars, VaultCallEnds
  <2> QED
    BY <1>1, <2>2, <2>3, <2>4, <2>5, <2>6, <2>7, <2>9, <2>10, <2>11 DEF VaultNext, CreateGrant
<1>2. VaultInv /\ [VaultNext]_vaultVars =>
        [\A k \in Credentials : RevokedIsLeftAlone(k) /\ VersionGrows(k)]_vaultVars
  BY <1>1
<1> QED
  BY <1>2, VaultInvariant, PTL DEF VaultSpec, CredentialsMoveOn

(***************************************************************************)
(* Billing: the row is no newer than Stripe, and what a checkout or a      *)
(* webhook has read of it still holds, or it has been overtaken.           *)
(***************************************************************************)
\* What Stripe has sold, or says in an event, belongs to a customer that exists.
StripeIsSound ==
  /\ sold \subseteq created
  /\ \A s \in Subscriptions : subscription[s].version > 0 => subscription[s].customer \in created
  /\ \A e \in event : e.version \in 1..subscription[e.subscription].version

\* The row names a customer and a state of a subscription that exist.
RowIsSound ==
  /\ organization.customer \in created \cup {None}
  /\ organization.subscription # None =>
       organization.version \in 1..subscription[organization.subscription].version

\* A checkout that creates a customer has found none, which is so unless it is stale.
CheckoutHasRead ==
  \A c \in Calls :
    /\ checkout[c].pc \in {"update", "session"} => checkout[c].customer \in created
    /\ checkout[c].pc \in {"create", "update"} /\ ~checkout[c].stale => organization.customer = None

\* A webhook is about to store a state no older than the one in the row, unless it is stale.
WebhookHasRead ==
  \A w \in Webhooks : webhook[w].pc = "write" =>
    /\ webhook[w].subscription \in Subscriptions
    /\ webhook[w].version \in 1..subscription[webhook[w].subscription].version
    /\ ~webhook[w].stale /\ organization.subscription = webhook[w].subscription =>
         organization.version <= webhook[w].version

BillingInv == BillingTypeOK /\ StripeIsSound /\ RowIsSound /\ CheckoutHasRead /\ WebhookHasRead

\* The records of what is not under way.
LEMMA IdleRecords ==
  /\ IdleCheckout \in CheckoutRecord /\ IdleCheckout.pc = "idle"
  /\ IdleWebhook \in WebhookRecord /\ IdleWebhook.pc = "idle"
BY BillingAssumption DEF IdleCheckout, IdleWebhook, CheckoutRecord, WebhookRecord, Versions

\* A checkout takes a step that leaves the row alone.
LEMMA CheckoutStep ==
  ASSUME BillingInv, NEW c \in Calls, NEW r \in CheckoutRecord,
         checkout' = [checkout EXCEPT ![c] = r], UNCHANGED <<organization, subscription, event, webhook>>,
         created \subseteq created', created' \subseteq Customers, sold' \subseteq created',
         r.pc \in {"update", "session"} => r.customer \in created',
         r.pc \in {"create", "update"} /\ ~r.stale => organization.customer = None
  PROVE BillingInv'
<1>1. checkout'[c] = r /\ \A d \in Calls \ {c} : checkout'[d] = checkout[d]
  BY DEF BillingInv, BillingTypeOK
<1>2. BillingTypeOK'
  BY DEF BillingInv, BillingTypeOK
<1>3. StripeIsSound' /\ RowIsSound' /\ WebhookHasRead'
  BY DEF BillingInv, StripeIsSound, RowIsSound, WebhookHasRead
<1>4. CheckoutHasRead'
  BY <1>1 DEF BillingInv, CheckoutHasRead
<1> QED
  BY <1>2, <1>3, <1>4 DEF BillingInv

\* Whoever writes the row makes what the others have read old.
LEMMA RowStep ==
  ASSUME BillingInv, UNCHANGED <<created, sold, subscription, event>>,
         organization' \in OrganizationRecord, RowIsSound',
         DOMAIN checkout' = Calls, checkout' = [c \in Calls |-> checkout'[c]],
         DOMAIN webhook' = Webhooks, webhook' = [w \in Webhooks |-> webhook'[w]],
         \A c \in Calls :
           /\ checkout'[c] \in CheckoutRecord
           /\ checkout'[c].pc \in {"update", "session"} => checkout'[c].customer \in created
           /\ checkout'[c].pc \in {"create", "update"} => checkout'[c].stale,
         \A w \in Webhooks :
           /\ webhook'[w] \in WebhookRecord
           /\ webhook'[w].pc = "write" =>
                /\ webhook'[w].subscription = webhook[w].subscription
                /\ webhook'[w].version = webhook[w].version /\ webhook[w].pc = "write"
                /\ ~webhook'[w].stale => /\ webhook'[w] = webhook[w]
                                         /\ organization'.subscription = organization.subscription
                                         /\ organization'.version = organization.version
  PROVE BillingInv'
<1>1. BillingTypeOK'
  BY DEF BillingInv, BillingTypeOK
<1>2. StripeIsSound'
  BY DEF BillingInv, StripeIsSound
<1>3. CheckoutHasRead'
  BY DEF CheckoutHasRead
<1>4. WebhookHasRead'
  <2> SUFFICES ASSUME NEW w \in Webhooks, webhook'[w].pc = "write"
               PROVE  /\ webhook'[w].subscription \in Subscriptions
                      /\ webhook'[w].version \in 1..subscription[webhook'[w].subscription].version
                      /\ ~webhook'[w].stale /\ organization'.subscription = webhook'[w].subscription =>
                           organization'.version <= webhook'[w].version
    BY DEF WebhookHasRead
  <2>1. /\ webhook[w].subscription \in Subscriptions
        /\ webhook[w].version \in 1..subscription[webhook[w].subscription].version
        /\ ~webhook[w].stale /\ organization.subscription = webhook[w].subscription =>
             organization.version <= webhook[w].version
    BY DEF BillingInv, WebhookHasRead
  <2> QED
    BY <2>1
<1> QED
  BY <1>1, <1>2, <1>3, <1>4 DEF BillingInv

\* The effect of Overtake on one checkout and one webhook.
LEMMA OvertakenRecords ==
  ASSUME BillingInv
  PROVE  /\ \A c \in Calls : checkout[c] \in CheckoutRecord
               /\ [checkout[c] EXCEPT !.stale = TRUE] \in CheckoutRecord
               /\ [checkout[c] EXCEPT !.stale = TRUE].pc = checkout[c].pc
               /\ [checkout[c] EXCEPT !.stale = TRUE].customer = checkout[c].customer
               /\ [checkout[c] EXCEPT !.stale = TRUE].stale
         /\ \A w \in Webhooks : webhook[w] \in WebhookRecord
               /\ [webhook[w] EXCEPT !.stale = TRUE] \in WebhookRecord
               /\ [webhook[w] EXCEPT !.stale = TRUE].pc = webhook[w].pc
               /\ [webhook[w] EXCEPT !.stale = TRUE].subscription = webhook[w].subscription
               /\ [webhook[w] EXCEPT !.stale = TRUE].version = webhook[w].version
               /\ [webhook[w] EXCEPT !.stale = TRUE].stale
<1>1. \A c \in Calls : checkout[c] \in CheckoutRecord
  BY DEF BillingInv, BillingTypeOK
<1>2. \A w \in Webhooks : webhook[w] \in WebhookRecord
  BY DEF BillingInv, BillingTypeOK
<1>3. \A r \in CheckoutRecord : /\ [r EXCEPT !.stale = TRUE] \in CheckoutRecord
                                /\ [r EXCEPT !.stale = TRUE].pc = r.pc
                                /\ [r EXCEPT !.stale = TRUE].customer = r.customer
                                /\ [r EXCEPT !.stale = TRUE].stale
  BY DEF CheckoutRecord
<1>4. \A r \in WebhookRecord : /\ [r EXCEPT !.stale = TRUE] \in WebhookRecord
                               /\ [r EXCEPT !.stale = TRUE].pc = r.pc
                               /\ [r EXCEPT !.stale = TRUE].subscription = r.subscription
                               /\ [r EXCEPT !.stale = TRUE].version = r.version
                               /\ [r EXCEPT !.stale = TRUE].stale
  BY DEF WebhookRecord
<1> QED
  BY <1>1, <1>2, <1>3, <1>4

\* What Store writes is sound when the state is one the subscription has been in.
LEMMA StoreIsSound ==
  ASSUME BillingInv, NEW s \in Subscriptions, NEW version \in 1..subscription[s].version, Store(s, version),
         UNCHANGED <<created, subscription>>
  PROVE  organization' \in OrganizationRecord /\ RowIsSound' /\ Owns'
<1>1. subscription[s] \in SubscriptionRecord /\ subscription[s].version \in Nat /\ version \in Versions
  <2>1. subscription[s] \in SubscriptionRecord
    BY DEF BillingInv, BillingTypeOK
  <2>2. subscription[s].version \in 0..MaxState
    BY <2>1 DEF SubscriptionRecord, Versions
  <2> QED
    BY <2>1, <2>2, BillingAssumption DEF Versions
<1>2. subscription[s].customer \in created
  BY <1>1 DEF BillingInv, StripeIsSound
<1> QED
  BY <1>1, <1>2 DEF Store, OrganizationRecord, RowIsSound, SubscriptionRecord, Owns

\* One step per action.
LEMMA BillingStepInv == BillingInv /\ [BillingNext]_billingVars => BillingInv'
<1> SUFFICES ASSUME BillingInv, [BillingNext]_billingVars PROVE BillingInv'
  OBVIOUS
<1>1. ASSUME NEW c \in Calls, FindOrganization(c) PROVE BillingInv'
  <2> DEFINE r == [pc |-> IF organization.customer = None THEN "create" ELSE "session",
                   customer |-> organization.customer, stale |-> FALSE]
  <2>1. r \in CheckoutRecord
    BY DEF CheckoutRecord, BillingInv, BillingTypeOK, OrganizationRecord
  <2>2. r.pc \in {"update", "session"} => r.customer \in created
    BY DEF BillingInv, RowIsSound
  <2>3. r.pc \in {"create", "update"} => organization.customer = None
    OBVIOUS
  <2>4. checkout' = [checkout EXCEPT ![c] = r] /\ UNCHANGED <<organization, created, sold, subscription, event, webhook>>
    BY <1>1 DEF FindOrganization, Stripe
  <2> HIDE DEF r
  <2> QED
    BY <2>1, <2>2, <2>3, <2>4, CheckoutStep DEF BillingInv, BillingTypeOK
<1>2. ASSUME NEW c \in Calls, NEW x \in Customers, CreateCustomer(c, x) PROVE BillingInv'
  <2> DEFINE r == [checkout[c] EXCEPT !.pc = "update", !.customer = x]
  <2>1. /\ r \in CheckoutRecord /\ r.pc = "update" /\ r.customer = x /\ r.stale = checkout[c].stale
        /\ checkout[c].pc = "create"
    BY <1>2 DEF CreateCustomer, CheckoutRecord, BillingInv, BillingTypeOK
  <2>2. checkout' = [checkout EXCEPT ![c] = r] /\ created' = created \cup {x}
        /\ UNCHANGED <<organization, sold, subscription, event, webhook>>
    BY <1>2 DEF CreateCustomer
  <2>3. ~r.stale => organization.customer = None
    BY <2>1 DEF BillingInv, CheckoutHasRead
  <2> HIDE DEF r
  <2> QED
    BY <2>1, <2>2, <2>3, CheckoutStep DEF BillingInv, BillingTypeOK
<1>3. ASSUME NEW c \in Calls, StoreCustomer(c) PROVE BillingInv'
  <2>1. checkout[c].pc = "update" /\ checkout[c].customer \in created /\ created \subseteq Customers
    BY <1>3 DEF StoreCustomer, BillingInv, BillingTypeOK, CheckoutHasRead
  <2>2. organization' = [organization EXCEPT !.customer = checkout[c].customer] /\ organization \in OrganizationRecord
    BY <1>3 DEF StoreCustomer, BillingInv, BillingTypeOK
  <2>3. /\ organization' \in OrganizationRecord /\ organization'.subscription = organization.subscription
        /\ organization'.customer = checkout[c].customer /\ organization'.version = organization.version
    BY <2>1, <2>2 DEF OrganizationRecord
  <2>4. UNCHANGED <<created, sold, subscription, event, webhook>>
    BY <1>3 DEF StoreCustomer, Stripe
  <2>5. RowIsSound'
    BY <2>1, <2>3, <2>4 DEF BillingInv, RowIsSound
  <2>6. DOMAIN checkout' = Calls /\ checkout' = [d \in Calls |-> checkout'[d]]
    BY <1>3 DEF StoreCustomer
  <2>7. ASSUME NEW d \in Calls
        PROVE  /\ checkout'[d] \in CheckoutRecord
               /\ checkout'[d].pc \in {"update", "session"} => checkout'[d].customer \in created
               /\ checkout'[d].pc \in {"create", "update"} => checkout'[d].stale
    <3>1. CASE d = c
      <4>1. checkout'[d] = [checkout[c] EXCEPT !.pc = "session"] /\ checkout[c] \in CheckoutRecord
        BY <1>3, <3>1 DEF StoreCustomer, BillingInv, BillingTypeOK
      <4> QED
        BY <2>1, <4>1 DEF CheckoutRecord
    <3>2. CASE d # c /\ checkout[d].pc \in {"create", "update"}
      <4>1. checkout'[d] = [checkout[d] EXCEPT !.stale = TRUE]
        BY <1>3, <3>2 DEF StoreCustomer
      <4> QED
        BY <4>1, OvertakenRecords DEF BillingInv, CheckoutHasRead
    <3>3. CASE d # c /\ checkout[d].pc \notin {"create", "update"}
      <4>1. checkout'[d] = checkout[d]
        BY <1>3, <3>3 DEF StoreCustomer
      <4> QED
        BY <3>3, <4>1 DEF BillingInv, BillingTypeOK, CheckoutHasRead
    <3> QED
      BY <3>1, <3>2, <3>3
  <2>8. DOMAIN webhook = Webhooks /\ webhook = [w \in Webhooks |-> webhook[w]]
        /\ \A w \in Webhooks : webhook[w] \in WebhookRecord
    BY DEF BillingInv, BillingTypeOK
  <2> QED
    BY <2>2, <2>3, <2>4, <2>5, <2>6, <2>7, <2>8, RowStep
<1>4. ASSUME NEW c \in Calls, CreateSession(c) PROVE BillingInv'
  <2>1. checkout[c].customer \in created
    BY <1>4 DEF CreateSession, BillingInv, CheckoutHasRead
  <2> QED
    BY <1>4, <2>1, IdleRecords, CheckoutStep DEF CreateSession, BillingInv, BillingTypeOK
<1>5. ASSUME NEW c \in Calls, CheckoutFails(c) PROVE BillingInv'
  BY <1>5, IdleRecords, CheckoutStep DEF CheckoutFails, Stripe, BillingInv, BillingTypeOK
<1>6. ASSUME NEW s \in Subscriptions, NEW x \in Customers, NEW tagged \in BOOLEAN, Subscribe(s, x, tagged)
      PROVE BillingInv'
  <2> DEFINE new == [customer |-> x, tagged |-> tagged, version |-> 1]
             types == IF tagged THEN {"completed", "changed"} ELSE {"changed"}
             news == {[type |-> type, subscription |-> s, version |-> 1] : type \in types}
  <2>1. /\ subscription[s].version = 0 /\ x \in created
        /\ subscription' = [subscription EXCEPT ![s] = new] /\ event' = event \cup news
        /\ UNCHANGED <<organization, created, sold, checkout, webhook>>
    BY <1>6 DEF Subscribe
  <2>2. new \in SubscriptionRecord
    BY BillingAssumption DEF SubscriptionRecord, Versions
  <2>3. \A e \in news : e \in Events /\ e.subscription = s /\ e.version = 1
    BY BillingAssumption DEF Events, Versions
  <2>4. /\ subscription'[s] = new /\ \A t \in Subscriptions \ {s} : subscription'[t] = subscription[t]
        /\ subscription' \in [Subscriptions -> SubscriptionRecord]
    BY <2>1, <2>2 DEF BillingInv, BillingTypeOK
  <2> HIDE DEF news
  <2>5. BillingTypeOK'
    BY <2>1, <2>3, <2>4 DEF BillingInv, BillingTypeOK
  <2>6. \A e \in event : e \in Events /\ e.subscription \in Subscriptions /\ e.subscription # s
    BY <2>1 DEF BillingInv, BillingTypeOK, Events, StripeIsSound
  <2>7. StripeIsSound'
    BY <2>1, <2>3, <2>4, <2>6 DEF BillingInv, StripeIsSound
  <2>8. RowIsSound' /\ CheckoutHasRead'
    BY <2>1, <2>4 DEF BillingInv, BillingTypeOK, OrganizationRecord, RowIsSound, CheckoutHasRead
  <2>9. WebhookHasRead'
    BY <2>1, <2>4 DEF BillingInv, WebhookHasRead
  <2> QED
    BY <2>5, <2>7, <2>8, <2>9 DEF BillingInv
<1>7. ASSUME NEW s \in Subscriptions, Change(s) PROVE BillingInv'
  <2> DEFINE next == subscription[s].version + 1
             new == [type |-> "changed", subscription |-> s, version |-> next]
  <2>1. /\ subscription[s].version \in 1..(MaxState - 1)
        /\ subscription' = [subscription EXCEPT ![s].version = next] /\ event' = event \cup {new}
        /\ UNCHANGED <<organization, created, sold, checkout, webhook>>
    BY <1>7 DEF Change
  <2>2. next \in 1..MaxState /\ subscription[s].version \in Nat /\ subscription[s] \in SubscriptionRecord
    BY <2>1, BillingAssumption DEF BillingInv, BillingTypeOK
  <2>3. new \in Events
    BY <2>2 DEF Events, Versions
  <2>4. /\ \A t \in Subscriptions \ {s} : subscription'[t] = subscription[t]
        /\ subscription'[s] = [subscription[s] EXCEPT !.version = next]
    BY <2>1 DEF BillingInv, BillingTypeOK
  <2>5. /\ subscription'[s] \in SubscriptionRecord /\ subscription'[s].version = next
        /\ subscription'[s].customer = subscription[s].customer
    BY <2>2, <2>4 DEF SubscriptionRecord, Versions
  <2>6. subscription' \in [Subscriptions -> SubscriptionRecord]
    BY <2>1, <2>4, <2>5 DEF BillingInv, BillingTypeOK
  <2>7. BillingTypeOK'
    BY <2>1, <2>3, <2>6 DEF BillingInv, BillingTypeOK
  <2> HIDE DEF next
  <2>8. \A t \in Subscriptions : subscription[t].version \in Nat
    BY BillingAssumption DEF BillingInv, BillingTypeOK, SubscriptionRecord, Versions
  <2>9. \A t \in Subscriptions : \A n : n \in 1..subscription[t].version => n \in 1..subscription'[t].version
    <3> SUFFICES ASSUME NEW t \in Subscriptions, NEW n \in 1..subscription[t].version
                 PROVE  n \in 1..subscription'[t].version
      OBVIOUS
    <3>1. CASE t = s
      BY <2>2, <2>5, <3>1 DEF next
    <3>2. CASE t # s
      BY <2>4, <3>2
    <3> QED
      BY <3>1, <3>2
  <2>10. StripeIsSound'
    <3>1. \A e \in event : e.version \in 1..subscription'[e.subscription].version
      BY <2>9 DEF BillingInv, BillingTypeOK, StripeIsSound, Events
    <3>2. new.version \in 1..subscription'[new.subscription].version
      BY <2>2, <2>5
    <3>3. \A t \in Subscriptions : subscription'[t].version > 0 => subscription'[t].customer \in created
      BY <2>1, <2>4, <2>5 DEF BillingInv, StripeIsSound
    <3> HIDE DEF new
    <3> QED
      BY <2>1, <3>1, <3>2, <3>3 DEF BillingInv, StripeIsSound
  <2>11. RowIsSound' /\ CheckoutHasRead'
    BY <2>1, <2>9 DEF BillingInv, BillingTypeOK, OrganizationRecord, RowIsSound, CheckoutHasRead
  <2>12. WebhookHasRead'
    BY <2>1, <2>9 DEF BillingInv, WebhookHasRead
  <2> QED
    BY <2>7, <2>10, <2>11, <2>12 DEF BillingInv
<1>8. ASSUME NEW e \in event, HandleChange(e) PROVE BillingInv'
  <2>1. e.subscription \in Subscriptions /\ e.version \in 1..subscription[e.subscription].version
    BY DEF BillingInv, BillingTypeOK, Events, StripeIsSound
  <2>2. UNCHANGED <<created, sold, subscription, event>>
    BY <1>8 DEF HandleChange, Stripe
  <2>3. CASE Store(e.subscription, e.version) /\ Overtake
    <3>1. organization' \in OrganizationRecord /\ RowIsSound'
      BY <2>1, <2>2, <2>3, StoreIsSound
    <3>2. /\ DOMAIN checkout' = Calls /\ checkout' = [c \in Calls |-> checkout'[c]]
          /\ DOMAIN webhook' = Webhooks /\ webhook' = [w \in Webhooks |-> webhook'[w]]
      BY <2>3 DEF Overtake
    <3>3. \A c \in Calls :
            /\ checkout'[c] \in CheckoutRecord
            /\ checkout'[c].pc \in {"update", "session"} => checkout'[c].customer \in created
            /\ checkout'[c].pc \in {"create", "update"} => checkout'[c].stale
      BY <2>3, OvertakenRecords DEF Overtake, BillingInv, CheckoutHasRead
    <3>4. \A w \in Webhooks :
            /\ webhook'[w] \in WebhookRecord
            /\ webhook'[w].pc = "write" =>
                 /\ webhook'[w].subscription = webhook[w].subscription
                 /\ webhook'[w].version = webhook[w].version /\ webhook[w].pc = "write"
                 /\ webhook'[w].stale
      BY <2>3, OvertakenRecords DEF Overtake
    <3> QED
      BY <2>2, <3>1, <3>2, <3>3, <3>4, RowStep
  <2>4. CASE UNCHANGED <<organization, checkout, webhook>>
    BY <2>2, <2>4 DEF BillingInv, BillingTypeOK, StripeIsSound, RowIsSound, CheckoutHasRead, WebhookHasRead
  <2> QED
    BY <1>8, <2>3, <2>4 DEF HandleChange
<1>9. ASSUME NEW e \in event, NEW w \in Webhooks, Retrieve(w, e) PROVE BillingInv'
  <2> DEFINE r == [pc |-> "write", subscription |-> e.subscription,
                   version |-> subscription[e.subscription].version, stale |-> FALSE]
  <2>1. /\ e.subscription \in Subscriptions /\ e.version \in 1..subscription[e.subscription].version
        /\ subscription[e.subscription] \in SubscriptionRecord
    BY DEF BillingInv, BillingTypeOK, Events, StripeIsSound
  <2>2. subscription[e.subscription].version \in 0..MaxState
    BY <2>1 DEF SubscriptionRecord, Versions
  <2>3. r \in WebhookRecord /\ r.version \in 1..subscription[r.subscription].version
    BY <2>1, <2>2, BillingAssumption DEF WebhookRecord, Versions
  <2>4. webhook' = [webhook EXCEPT ![w] = r] /\ UNCHANGED <<organization, created, sold, subscription, event, checkout>>
    BY <1>9 DEF Retrieve, Stripe
  <2>5. organization.subscription = r.subscription => organization.version <= r.version
    BY <2>1, <2>2, BillingAssumption DEF BillingInv, RowIsSound
  <2>6. r.subscription \in Subscriptions /\ r.pc = "write"
    BY <2>1
  <2> HIDE DEF r
  <2>7. webhook'[w] = r /\ \A v \in Webhooks \ {w} : webhook'[v] = webhook[v]
    BY <2>4 DEF BillingInv, BillingTypeOK
  <2>8. BillingTypeOK'
    BY <2>3, <2>4 DEF BillingInv, BillingTypeOK
  <2>9. WebhookHasRead'
    BY <2>3, <2>4, <2>5, <2>6, <2>7 DEF BillingInv, WebhookHasRead
  <2> QED
    BY <2>4, <2>8, <2>9 DEF BillingInv, StripeIsSound, RowIsSound, CheckoutHasRead
<1>10. ASSUME NEW w \in Webhooks, StoreRetrieved(w) PROVE BillingInv'
  <2>1. /\ webhook[w].subscription \in Subscriptions
        /\ webhook[w].version \in 1..subscription[webhook[w].subscription].version
        /\ Store(webhook[w].subscription, webhook[w].version)
        /\ UNCHANGED <<created, sold, subscription, event>>
    BY <1>10 DEF StoreRetrieved, Stripe, BillingInv, WebhookHasRead
  <2>2. organization' \in OrganizationRecord /\ RowIsSound'
    BY <2>1, StoreIsSound
  <2>3. /\ DOMAIN checkout' = Calls /\ checkout' = [c \in Calls |-> checkout'[c]]
        /\ DOMAIN webhook' = Webhooks /\ webhook' = [v \in Webhooks |-> webhook'[v]]
    BY <1>10 DEF StoreRetrieved
  <2>4. \A c \in Calls :
          /\ checkout'[c] \in CheckoutRecord
          /\ checkout'[c].pc \in {"update", "session"} => checkout'[c].customer \in created
          /\ checkout'[c].pc \in {"create", "update"} => checkout'[c].stale
    BY <1>10, OvertakenRecords DEF StoreRetrieved, BillingInv, CheckoutHasRead
  <2>5. \A v \in Webhooks :
          /\ webhook'[v] \in WebhookRecord
          /\ webhook'[v].pc = "write" =>
               /\ webhook'[v].subscription = webhook[v].subscription
               /\ webhook'[v].version = webhook[v].version /\ webhook[v].pc = "write"
               /\ webhook'[v].stale
    BY <1>10, OvertakenRecords, IdleRecords DEF StoreRetrieved
  <2> QED
    BY <2>1, <2>2, <2>3, <2>4, <2>5, RowStep
<1>11. ASSUME NEW w \in Webhooks, WebhookFails(w) PROVE BillingInv'
  <2>1. /\ webhook' = [webhook EXCEPT ![w] = IdleWebhook]
        /\ UNCHANGED <<organization, created, sold, subscription, event, checkout>>
    BY <1>11 DEF WebhookFails, Stripe
  <2>2. webhook'[w] = IdleWebhook /\ \A v \in Webhooks \ {w} : webhook'[v] = webhook[v]
    BY <2>1 DEF BillingInv, BillingTypeOK
  <2>3. BillingTypeOK'
    BY <2>1, IdleRecords DEF BillingInv, BillingTypeOK
  <2>4. WebhookHasRead'
    BY <2>1, <2>2, IdleRecords DEF BillingInv, WebhookHasRead
  <2> QED
    BY <2>1, <2>3, <2>4 DEF BillingInv, StripeIsSound, RowIsSound, CheckoutHasRead
<1>12. CASE UNCHANGED billingVars
  BY <1>12 DEF billingVars, BillingInv, BillingTypeOK, StripeIsSound, RowIsSound, CheckoutHasRead, WebhookHasRead
<1> QED
  BY <1>1, <1>2, <1>3, <1>4, <1>5, <1>6, <1>7, <1>8, <1>9, <1>10, <1>11, <1>12 DEF BillingNext

\* The invariant of the subscription holds (BillingService).
THEOREM BillingInvariant == BillingSpec => []BillingInv
<1>1. BillingInit => BillingInv
  <2> SUFFICES ASSUME BillingInit PROVE BillingInv
    OBVIOUS
  <2>1. BillingTypeOK
    BY IdleRecords, BillingAssumption
       DEF BillingInit, BillingTypeOK, OrganizationRecord, SubscriptionRecord, Events, Versions
  <2>2. StripeIsSound /\ RowIsSound
    BY DEF BillingInit, StripeIsSound, RowIsSound
  <2>3. CheckoutHasRead /\ WebhookHasRead
    BY IdleRecords DEF BillingInit, CheckoutHasRead, WebhookHasRead
  <2> QED
    BY <2>1, <2>2, <2>3 DEF BillingInv
<1> QED
  BY <1>1, BillingStepInv, PTL DEF BillingSpec

\* Rows, events and calls have their types (BillingService).
THEOREM BillingTyped == BillingSpec => []BillingTypeOK
BY BillingInvariant, PTL DEF BillingInv

\* The row comes to name one customer and the subscription of another only through
\* a checkout that has been overtaken (createCheckout, updateOrganizationSubscription).
THEOREM CustomersPay == BillingSpec => CustomerOwnsSubscription
<1>1. ASSUME BillingInv, [BillingNext]_billingVars, Owns, ~Owns'
      PROVE \E c \in Calls : checkout[c].pc = "update" /\ checkout[c].stale /\ checkout'[c].pc = "session"
  <2>1. ASSUME NEW c \in Calls, StoreCustomer(c)
        PROVE  checkout[c].pc = "update" /\ checkout[c].stale /\ checkout'[c].pc = "session"
    <3>1. checkout[c].pc = "update" /\ checkout[c] \in CheckoutRecord /\ organization \in OrganizationRecord
      BY <1>1, <2>1 DEF StoreCustomer, BillingInv, BillingTypeOK
    <3>2. checkout'[c].pc = "session"
      BY <2>1, <3>1 DEF StoreCustomer, CheckoutRecord
    <3>3. organization'.subscription = organization.subscription /\ UNCHANGED subscription
      BY <2>1, <3>1 DEF StoreCustomer, OrganizationRecord, Stripe
    <3>4. organization.subscription \in Subscriptions
      BY <1>1, <3>1, <3>3 DEF Owns, OrganizationRecord
    <3>5. organization.customer = subscription[organization.subscription].customer
      BY <1>1, <3>4, BillingAssumption DEF Owns
    <3>6. subscription[organization.subscription].version > 0
      <4>1. organization.version \in 1..subscription[organization.subscription].version
        BY <1>1, <3>4, BillingAssumption DEF BillingInv, RowIsSound
      <4>2. subscription[organization.subscription].version \in 0..MaxState
        BY <1>1, <3>4 DEF BillingInv, BillingTypeOK, SubscriptionRecord, Versions
      <4> QED
        BY <4>1, <4>2, BillingAssumption
    <3>7. organization.customer \in Customers
      BY <1>1, <3>4, <3>5, <3>6 DEF BillingInv, BillingTypeOK, StripeIsSound
    <3>8. organization.customer # None
      BY <3>7, BillingAssumption
    <3>9. checkout[c].stale
      BY <1>1, <3>1, <3>8 DEF BillingInv, CheckoutHasRead, CheckoutRecord
    <3> QED
      BY <3>1, <3>2, <3>9
  <2>2. ASSUME UNCHANGED <<organization, subscription>> PROVE FALSE
    BY <1>1, <2>2 DEF Owns
  <2>3. ASSUME NEW s \in Subscriptions, NEW x \in Customers, NEW tagged \in BOOLEAN, Subscribe(s, x, tagged)
        PROVE  FALSE
    <3>1. /\ subscription[s].version = 0 /\ UNCHANGED organization
          /\ \A t \in Subscriptions \ {s} : subscription'[t] = subscription[t]
      BY <1>1, <2>3 DEF Subscribe, BillingInv, BillingTypeOK
    <3>2. organization.subscription # None => organization.subscription \in Subscriptions \ {s}
      BY <1>1, <3>1 DEF BillingInv, BillingTypeOK, OrganizationRecord, RowIsSound
    <3> QED
      BY <1>1, <3>1, <3>2 DEF Owns
  <2>4. ASSUME NEW s \in Subscriptions, Change(s) PROVE FALSE
    <3>1. UNCHANGED organization /\ subscription' = [subscription EXCEPT ![s].version = @ + 1]
          /\ organization \in OrganizationRecord /\ subscription \in [Subscriptions -> SubscriptionRecord]
      BY <1>1, <2>4 DEF Change, BillingInv, BillingTypeOK
    <3>2. ASSUME NEW t \in Subscriptions PROVE subscription'[t].customer = subscription[t].customer
      BY <3>1 DEF SubscriptionRecord
    <3> QED
      BY <1>1, <3>1, <3>2 DEF Owns, OrganizationRecord
  <2>5. ASSUME NEW e \in event, HandleChange(e) PROVE FALSE
    <3>1. e.subscription \in Subscriptions /\ e.version \in 1..subscription[e.subscription].version
      BY <1>1 DEF BillingInv, BillingTypeOK, Events, StripeIsSound
    <3> QED
      BY <1>1, <2>2, <2>5, <3>1, StoreIsSound DEF HandleChange, Stripe
  <2>6. ASSUME NEW w \in Webhooks, StoreRetrieved(w) PROVE FALSE
    <3>1. /\ webhook[w].subscription \in Subscriptions
          /\ webhook[w].version \in 1..subscription[webhook[w].subscription].version
      BY <1>1, <2>6 DEF StoreRetrieved, BillingInv, WebhookHasRead
    <3> QED
      BY <1>1, <2>6, <3>1, StoreIsSound DEF StoreRetrieved, Stripe
  <2>7. ASSUME NEW c \in Calls, FindOrganization(c) \/ CreateSession(c) \/ CheckoutFails(c)
                 \/ \E x \in Customers : CreateCustomer(c, x)
        PROVE FALSE
    BY <2>2, <2>7 DEF FindOrganization, CreateSession, CheckoutFails, CreateCustomer, Stripe
  <2>8. ASSUME NEW w \in Webhooks, WebhookFails(w) \/ \E e \in event : Retrieve(w, e) PROVE FALSE
    BY <2>2, <2>8 DEF WebhookFails, Retrieve, Stripe
  <2>9. CASE UNCHANGED billingVars
    BY <2>2, <2>9 DEF billingVars
  <2> QED
    BY <1>1, <2>1, <2>3, <2>4, <2>5, <2>6, <2>7, <2>8, <2>9 DEF BillingNext
<1>2. BillingInv /\ [BillingNext]_billingVars =>
        [Owns /\ ~Owns' => \E c \in Calls : checkout[c].pc = "update" /\ checkout[c].stale
                                               /\ checkout'[c].pc = "session"]_billingVars
  BY <1>1
<1> QED
  BY <1>2, BillingInvariant, PTL DEF BillingSpec, CustomerOwnsSubscription

\* A webhook of a completed checkout sets the row back to an earlier state of its
\* subscription only when it has been overtaken (handleCheckoutCompleted).
THEOREM CompletedLooksAhead == BillingSpec => CompletedNeverSetsBack
<1>1. ASSUME BillingInv, [BillingNext]_billingVars, NEW w \in Webhooks,
             webhook[w].pc = "write", webhook'[w].pc = "idle", ~webhook[w].stale,
             organization'.subscription = organization.subscription
      PROVE organization'.version >= organization.version
  <2>1. organization \in OrganizationRecord /\ organization.version \in Nat
    BY <1>1, BillingAssumption DEF BillingInv, BillingTypeOK, OrganizationRecord, Versions
  <2>2. ASSUME NEW v \in Webhooks, StoreRetrieved(v) PROVE organization'.version >= organization.version
    <3>1. v = w
      <4>1. v # w => webhook'[w].pc = webhook[w].pc
        BY <1>1, <2>2, OvertakenRecords DEF StoreRetrieved
      <4> QED
        BY <1>1, <4>1
    <3>2. organization'.subscription = webhook[w].subscription /\ organization'.version = webhook[w].version
      BY <2>2, <3>1 DEF StoreRetrieved, Store
    <3>3. organization.version <= webhook[w].version /\ webhook[w].version \in Nat
      BY <1>1, <3>2, BillingAssumption DEF BillingInv, BillingTypeOK, WebhookHasRead, WebhookRecord, Versions
    <3> QED
      BY <2>1, <3>2, <3>3
  <2>3. ASSUME UNCHANGED organization PROVE organization'.version >= organization.version
    BY <2>1, <2>3
  <2>4. ASSUME UNCHANGED webhook PROVE FALSE
    BY <1>1, <2>4
  <2>5. ASSUME NEW c \in Calls, FindOrganization(c) \/ StoreCustomer(c) \/ CreateSession(c) \/ CheckoutFails(c)
                 \/ \E x \in Customers : CreateCustomer(c, x)
        PROVE FALSE
    BY <2>4, <2>5 DEF FindOrganization, StoreCustomer, CreateSession, CheckoutFails, CreateCustomer
  <2>6. ASSUME NEW s \in Subscriptions, Change(s) \/ \E x \in Customers, tagged \in BOOLEAN : Subscribe(s, x, tagged)
        PROVE FALSE
    BY <2>4, <2>6 DEF Change, Subscribe
  <2>7. ASSUME NEW e \in event, HandleChange(e) PROVE organization'.version >= organization.version
    <3>1. Overtake => webhook'[w].pc = webhook[w].pc
      BY <1>1, OvertakenRecords DEF Overtake
    <3> QED
      BY <1>1, <2>3, <2>7, <3>1 DEF HandleChange
  <2>8. ASSUME NEW v \in Webhooks, WebhookFails(v) \/ \E e \in event : Retrieve(v, e)
        PROVE organization'.version >= organization.version
    BY <2>3, <2>8 DEF WebhookFails, Retrieve
  <2>9. CASE UNCHANGED billingVars
    BY <2>3, <2>9 DEF billingVars
  <2> QED
    BY <1>1, <2>2, <2>5, <2>6, <2>7, <2>8, <2>9 DEF BillingNext
<1>2. BillingInv /\ [BillingNext]_billingVars =>
        [\A w \in Webhooks : webhook[w].pc = "write" /\ webhook'[w].pc = "idle" =>
           \/ organization'.subscription # organization.subscription
           \/ organization'.version >= organization.version
           \/ webhook[w].stale]_billingVars
  BY <1>1
<1> QED
  BY <1>2, BillingInvariant, PTL DEF BillingSpec, CompletedNeverSetsBack
-----------------------------------------------------------------------------
(***************************************************************************)
(* The services side by side: a behaviour of Administration is a behaviour *)
(* of each service, the one that Init has chosen or one that stands still, *)
(* so everything above holds of it too.                                    *)
(***************************************************************************)
LEMMA EachService ==
  Spec => OwnersSpec /\ AgentsSpec /\ VaultSpec /\ BillingSpec /\ FlowSpec
<1>1. Init => OwnersInit /\ AgentsInit /\ VaultInit /\ BillingInit /\ FlowInit
  BY DEF Init
<1>2. [Next]_vars => /\ [OwnersNext]_ownersVars /\ [AgentsNext]_agentsVars
                     /\ [VaultNext]_vaultVars /\ [BillingNext]_billingVars /\ [FlowNext]_flowVars
  BY DEF Next, vars
<1> QED
  BY <1>1, <1>2, PTL DEF Spec, OwnersSpec, AgentsSpec, VaultSpec, BillingSpec, FlowSpec

\* Type correctness of the rows and the calls of administrators in all services.
THEOREM AdministrationTyped == Spec => []TypeOK
<1> DEFINE Chosen == service \in Services
<1>1. Init => Chosen
  BY DEF Init
<1>2. Chosen /\ [Next]_vars => Chosen'
  BY DEF Next, vars
<1>3. Chosen /\ OwnersTypeOK /\ AgentsTypeOK /\ VaultTypeOK /\ BillingTypeOK /\ FlowTypeOK
      => TypeOK
  BY DEF TypeOK
<1> HIDE DEF Chosen
<1>4. Spec => []Chosen
  BY <1>1, <1>2, PTL DEF Spec
<1> QED
  BY <1>3, <1>4, EachService, OwnersTyped, AgentsTyped, VaultTyped, BillingTyped, WorkflowsTyped, PTL

\* What administrators may do, in the service they use: the last owner remains,
\* owners answer to owners only, a revoked agent stays revoked, one bundle of policies
\* is active, secrets go to those with a grant, credentials do not relapse, workflows are ready,
\* a customer keeps a paid subscription, and a checkout is not set back.
THEOREM AdministrationIsSafe ==
  Spec => /\ OwnerRemains /\ OwnersRuleOwners
          /\ RevokedStaysRevoked /\ OneActiveBundle
          /\ SecretsAreForGrantees /\ CredentialsMoveOn
          /\ WorkflowsAreReady
          /\ CustomerOwnsSubscription /\ CompletedNeverSetsBack
BY EachService, LastOwnerRemains, OwnersRule, RevocationHolds, BundlesStayAlone,
   SecretsNeedGrants, CredentialsDoNotRelapse, WorkflowsReady, CustomersPay, CompletedLooksAhead
=============================================================================
