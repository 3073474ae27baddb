------------------------------- MODULE Account -------------------------------
(***************************************************************************)
(* One user's account and sessions, as the API keeps them: the user row    *)
(* (status, password, reset link, backup codes) and the refresh tokens.    *)
(* A call reads a row, awaits a hash or a write, and goes on with what it  *)
(* has read; only the consumption of a refresh token tests its update.     *)
(*                                                                         *)
(* A password is named by the order in which it was set; 0 is the          *)
(* placeholder of a user who was invited, which no input matches.  A       *)
(* session rests on the password its login was checked against.            *)
(***************************************************************************)
EXTENDS Naturals

CONSTANTS Tokens,        \* identities of refresh_tokens rows
          Codes,         \* the backup codes of the user
          Calls,         \* API calls in flight at once
          MaxPasswords,  \* bound: passwords the user has in turn
          MaxLinks,      \* bound: password reset links sent
          None           \* no token, no backup code

ASSUME AccountAssumption ==
  /\ None \notin Tokens \cup Codes
  /\ MaxPasswords \in Nat \ {0}
  /\ MaxLinks \in Nat

VARIABLES user,        \* the user row
          token,       \* token[t]: a refresh token
          challenges,  \* passwords for which a login challenge is under way
          links,       \* reset links sent so far
          call         \* call[c]: an API call

vars == <<user, token, challenges, links, call>>

Passwords == 0..MaxPasswords

UserRecord ==
  [status: {"active", "invited", "disabled"}, password: Passwords, reset: {"none", "sent"},
   mfa: {"off", "on"}, codes: SUBSET Codes]

TokenRecord ==
  [status: {"absent", "live", "revoked"}, parent: Tokens \cup {None}, password: Passwords]

Pcs == {"idle", "readCodes", "writeCodes", "consume", "readUser", "issue",
        "sendLink", "setPassword", "changePassword", "revokeAll"}

\* codes: the backup codes that recovery has read; code: the one it was given.
CallRecord ==
  [pc: Pcs, token: Tokens \cup {None}, password: Passwords, codes: SUBSET Codes,
   code: Codes \cup {None}]

Idle == [pc |-> "idle", token |-> None, password |-> 0, codes |-> {}, code |-> None]

\* Among the types: nobody has a session before there is a password.
TypeOK ==
  /\ user \in UserRecord
  /\ token \in [Tokens -> TokenRecord]
  /\ challenges \subseteq Passwords
  /\ links \in 0..MaxLinks
  /\ call \in [Calls -> CallRecord]
  /\ \A p \in challenges : p \in 1..user.password
  /\ \A t \in Tokens : token[t].status # "absent" => token[t].password \in 1..user.password

Init ==
  /\ \/ user \in [status: {"active"}, password: {1}, reset: {"none"}, mfa: {"off", "on"},
                    codes: {Codes}]
     \/ user = [status |-> "invited", password |-> 0, reset |-> "sent", mfa |-> "off", codes |-> {}]
  /\ token = [t \in Tokens |-> [status |-> "absent", parent |-> None, password |-> 0]]
  /\ challenges = {}
  /\ links = 0
  /\ call = [c \in Calls |-> Idle]

Live(t) == token[t].status = "live"

At(c, pc) == call[c].pc = pc

Begin(c, pc) == At(c, "idle") /\ call' = [call EXCEPT ![c].pc = pc]

Goto(c, pc) == call' = [call EXCEPT ![c].pc = pc]

Respond(c) == call' = [call EXCEPT ![c] = Idle]
-----------------------------------------------------------------------------
(***************************************************************************)
(* Sessions: AuthService, RefreshTokenService, MfaService.                 *)
(***************************************************************************)
\* Bug: the placeholder of an invited user counts as a password.
LoginPlaceholder(c) ==
  /\ At(c, "idle")
  /\ call' = [call EXCEPT ![c] = [Idle EXCEPT !.pc = "issue", !.password = user.password]]
  /\ UNCHANGED <<user, token, challenges, links>>

\* login with the right password: a session, or a challenge where MFA is on.
Login(c) ==
  /\ At(c, "idle") /\ user.status = "active" /\ user.password # 0
  /\ IF user.mfa = "on"
     THEN challenges' = challenges \cup {user.password} /\ UNCHANGED call
     ELSE /\ call' = [call EXCEPT ![c] = [Idle EXCEPT !.pc = "issue", !.password = user.password]]
          /\ UNCHANGED challenges
  /\ UNCHANGED <<user, token, links>>

\* completeMfaChallenge: the challenge names the user, not the password.
CompleteMfaChallenge(c, p) ==
  /\ At(c, "idle") /\ user.status = "active" /\ user.mfa = "on"
  /\ p \in challenges
  /\ call' = [call EXCEPT ![c] = [Idle EXCEPT !.pc = "issue", !.password = p]]
  /\ UNCHANGED <<user, token, challenges, links>>

CompleteMfaRecovery(c, p, k) ==
  /\ At(c, "idle") /\ user.status = "active" /\ user.mfa = "on"
  /\ p \in challenges
  /\ call' = [call EXCEPT ![c] =
                [Idle EXCEPT !.pc = "readCodes", !.password = p, !.code = k]]
  /\ UNCHANGED <<user, token, challenges, links>>

\* Bug: the code is not looked up in the stored list.
ReadAnyCode(c) ==
  /\ At(c, "readCodes")
  /\ call' = [call EXCEPT ![c].pc = "writeCodes", ![c].codes = user.codes]
  /\ UNCHANGED <<user, token, challenges, links>>

\* consumeBackupCode reads the list and looks for the code ...
ReadCodes(c) ==
  /\ At(c, "readCodes")
  /\ IF call[c].code \in user.codes
     THEN call' = [call EXCEPT ![c].pc = "writeCodes", ![c].codes = user.codes]
     ELSE Respond(c)
  /\ UNCHANGED <<user, token, challenges, links>>

\* ... and writes back what it has read, without the code.
WriteCodes(c) ==
  /\ At(c, "writeCodes")
  /\ user' = [user EXCEPT !.codes = call[c].codes \ {call[c].code}]
  /\ Goto(c, "issue")
  /\ UNCHANGED <<token, challenges, links>>

\* A challenge lives for five minutes.
ExpireChallenge(p) ==
  /\ p \in challenges
  /\ challenges' = challenges \ {p}
  /\ UNCHANGED <<user, token, links, call>>

\* refresh: consume finds the token in a transaction ...
Refresh(c, t) ==
  /\ At(c, "idle") /\ Live(t)
  /\ call' = [call EXCEPT ![c] =
                [Idle EXCEPT !.pc = "consume", !.token = t, !.password = token[t].password]]
  /\ UNCHANGED <<user, token, challenges, links>>

\* Bug: the number of updated rows is not looked at.
ConsumeUnchecked(c) ==
  /\ At(c, "consume")
  /\ token' = [token EXCEPT ![call[c].token].status = "revoked"]
  /\ Goto(c, "readUser")
  /\ UNCHANGED <<user, challenges, links>>

\* ... and revokes it on the condition that nobody has done so since.
Consume(c) ==
  /\ At(c, "consume")
  /\ IF Live(call[c].token)
     THEN /\ token' = [token EXCEPT ![call[c].token].status = "revoked"]
          /\ Goto(c, "readUser")
     ELSE Respond(c) /\ UNCHANGED token
  /\ UNCHANGED <<user, challenges, links>>

\* Bug: a refresh does not look at the status of the user.
ReadAnyUser(c) ==
  /\ At(c, "readUser")
  /\ Goto(c, "issue")
  /\ UNCHANGED <<user, token, challenges, links>>

ReadUser(c) ==
  /\ At(c, "readUser")
  /\ IF user.status = "active" THEN Goto(c, "issue") ELSE Respond(c)
  /\ UNCHANGED <<user, token, challenges, links>>

\* createAuthResult.
Issue(c, t) ==
  /\ At(c, "issue")
  /\ token[t].status = "absent"
  /\ token' = [token EXCEPT ![t] = [status |-> "live", parent |-> call[c].token,
                                    password |-> call[c].password]]
  /\ Respond(c)
  /\ UNCHANGED <<user, challenges, links>>

\* logout and revokeSession.
Revoke(t) ==
  /\ Live(t)
  /\ token' = [token EXCEPT ![t].status = "revoked"]
  /\ UNCHANGED <<user, challenges, links, call>>
-----------------------------------------------------------------------------
(***************************************************************************)
(* Passwords and the status of the user: AuthService and UsersService.     *)
(***************************************************************************)
ForgotPassword(c) ==
  /\ user.status # "disabled"
  /\ Begin(c, "sendLink")
  /\ UNCHANGED <<user, token, challenges, links>>

\* A new link replaces the one before.
SendLink(c) ==
  /\ At(c, "sendLink")
  /\ links < MaxLinks
  /\ links' = links + 1
  /\ user' = [user EXCEPT !.reset = "sent"]
  /\ Respond(c)
  /\ UNCHANGED <<token, challenges>>

\* resetPassword: the link is looked up, then the new password is hashed ...
ResetPassword(c) ==
  /\ user.reset = "sent" /\ user.status # "disabled"
  /\ Begin(c, "setPassword")
  /\ UNCHANGED <<user, token, challenges, links>>

\* ... and the row is updated by id: the user is active whatever it was.
SetPassword(c) ==
  /\ At(c, "setPassword")
  /\ user.password < MaxPasswords
  /\ user' = [user EXCEPT !.status = "active", !.password = @ + 1, !.reset = "none"]
  /\ Goto(c, "revokeAll")
  /\ UNCHANGED <<token, challenges, links>>

\* changeOwnPassword, by somebody who has logged in: the link sent before stays good.
ChangePassword(c) ==
  /\ user.status = "active"
  /\ \E t \in Tokens : token[t].status # "absent"
  /\ Begin(c, "changePassword")
  /\ UNCHANGED <<user, token, challenges, links>>

ChangePasswordWrite(c) ==
  /\ At(c, "changePassword")
  /\ user.password < MaxPasswords
  /\ user' = [user EXCEPT !.password = @ + 1]
  /\ Goto(c, "revokeAll")
  /\ UNCHANGED <<token, challenges, links>>

RevokeAll(c) ==
  /\ At(c, "revokeAll")
  /\ token' = [t \in Tokens |-> IF Live(t) THEN [token[t] EXCEPT !.status = "revoked"]
                                           ELSE token[t]]
  /\ Respond(c)
  /\ UNCHANGED <<user, challenges, links>>

\* disableUser leaves the tokens alone: every later use of them tests the status.
Disable ==
  /\ user' = [user EXCEPT !.status = "disabled"]
  /\ UNCHANGED <<token, challenges, links, call>>

Enable ==
  /\ user' = [user EXCEPT !.status = "active"]
  /\ UNCHANGED <<token, challenges, links, call>>

\* The process dies or the database refuses: the call ends where it is.
Fail(c) ==
  /\ ~At(c, "idle")
  /\ Respond(c)
  /\ UNCHANGED <<user, token, challenges, links>>

SessionStep(c) ==
  \/ Login(c) \/ ReadCodes(c) \/ WriteCodes(c) \/ Consume(c) \/ ReadUser(c)
  \/ \E p \in Passwords :
       CompleteMfaChallenge(c, p) \/ \E k \in Codes : CompleteMfaRecovery(c, p, k)
  \/ \E t \in Tokens : Refresh(c, t) \/ Issue(c, t)

PasswordStep(c) ==
  \/ ForgotPassword(c) \/ SendLink(c) \/ ResetPassword(c) \/ SetPassword(c)
  \/ ChangePassword(c) \/ ChangePasswordWrite(c) \/ RevokeAll(c)

Next ==
  \/ \E c \in Calls : SessionStep(c) \/ PasswordStep(c) \/ Fail(c)
  \/ \E p \in Passwords : ExpireChallenge(p)
  \/ \E t \in Tokens : Revoke(t)
  \/ Disable \/ Enable

Spec == Init /\ [][Next]_vars
-----------------------------------------------------------------------------
\* A refresh token is replaced at most once, and only after it was revoked,
\* however many refreshes, logouts and password changes meet (consume).
RotatedOnce ==
  \A t \in Tokens : token[t].parent # None =>
    /\ token[token[t].parent].status = "revoked"
    /\ \A s \in Tokens : token[s].parent = token[t].parent => s = t

\* pcs at which a call is bound to get a session without another test of the
\* password, and of the status of the user.
Granted == {"readCodes", "writeCodes", "readUser", "issue"}
PastStatusTest == {"readCodes", "writeCodes", "issue", "setPassword"}

Dead(p) ==
  /\ p < user.password
  /\ p \notin challenges
  /\ \A t \in Tokens : Live(t) => token[t].password # p
  /\ \A c \in Calls : call[c].pc \in Granted => call[c].password # p

\* Once a password is changed, its sessions are revoked and nobody is half way
\* through a login or a refresh that rests on it, no session ever rests on it
\* again (revokeAllForUser, consume).
DeadPasswordStaysDead == [][\A p \in Passwords : Dead(p) => Dead(p)']_vars

Spent(k) ==
  /\ k \notin user.codes
  /\ \A c \in Calls : At(c, "writeCodes") => k \notin call[c].codes

\* A backup code that is gone from the list and from every list that a recovery
\* has read never comes back and is never accepted again (consumeBackupCode).
SpentCodeStaysSpent ==
  [][\A k \in Codes :
       Spent(k) => Spent(k)' /\ \A c \in Calls : WriteCodes(c) => call[c].code # k]_vars

ShutOut ==
  /\ user.status = "disabled"
  /\ \A c \in Calls : call[c].pc \notin PastStatusTest

\* A disabled user gets no session and is not made active by anyone but an
\* administrator, once no call is under way that tested the status before
\* (refresh, resetPassword, completeMfaRecovery).
DisabledStaysShutOut ==
  [][ShutOut => Enable \/ (ShutOut' /\ \A t \in Tokens : Live(t)' => Live(t))]_vars
=============================================================================
