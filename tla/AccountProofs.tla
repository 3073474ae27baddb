---------------------------- MODULE AccountProofs ----------------------------
(***************************************************************************)
(* Theorems about Account, for any number of tokens, codes, calls,         *)
(* passwords and links.  The invariant says what a call in flight knows    *)
(* about the rows it has read: the password it goes on with was set, the   *)
(* token it has consumed is revoked and nobody else's to replace, and the  *)
(* list it is about to write was read with its code in it.                 *)
(***************************************************************************)
EXTENDS Account, TLAPS

\* A call that is bound to get a session rests on a password that was set.
PasswordsKnown ==
  \A c \in Calls : call[c].pc \in {"consume", "readUser", "issue", "readCodes", "writeCodes"}
                     => call[c].password \in 1..user.password

\* A refresh is about a token that exists, with the password of that token.
RefreshesNameTokens ==
  \A c \in Calls :
    /\ call[c].pc \notin {"consume", "readUser", "issue"} => call[c].token = None
    /\ call[c].pc \in {"consume", "readUser"} => call[c].token \in Tokens
    /\ call[c].token # None =>
         /\ token[call[c].token].status # "absent"
         /\ token[call[c].token].password = call[c].password

Replaces(c, t) == call[c].pc \in {"readUser", "issue"} /\ call[c].token = t

\* A consumed token is revoked, has no child yet, and one call replaces it.
OneReplacement ==
  \A c \in Calls, t \in Tokens : Replaces(c, t) =>
    /\ token[t].status = "revoked"
    /\ \A s \in Tokens : token[s].parent # t
    /\ \A d \in Calls : Replaces(d, t) => d = c

\* A recovery writes a list that it has read with its code in it.
CodesRead ==
  \A c \in Calls : At(c, "writeCodes") => call[c].code \in call[c].codes

TypeInv == TypeOK /\ PasswordsKnown

TokenInv == RefreshesNameTokens /\ OneReplacement /\ RotatedOnce

AccountInv == TypeInv /\ TokenInv /\ CodesRead

USE AccountAssumption

LEMMA InitTypes == Init => TypeInv
<1> SUFFICES ASSUME Init PROVE TypeInv
  OBVIOUS
<1> USE DEF Init
<1>1. user \in UserRecord
  <2>1. CASE user \in [status: {"active"}, password: {1}, reset: {"none"}, mfa: {"off", "on"},
                       codes: {Codes}]
    BY <2>1 DEF UserRecord, Passwords
  <2>2. CASE user = [status |-> "invited", password |-> 0, reset |-> "sent", mfa |-> "off",
                     codes |-> {}]
    BY <2>2 DEF UserRecord, Passwords
  <2> QED
    BY <2>1, <2>2
<1>2. token \in [Tokens -> TokenRecord]
  BY DEF TokenRecord, Passwords
<1>3. call \in [Calls -> CallRecord]
  BY DEF CallRecord, Idle, Pcs, Passwords
<1>4. PasswordsKnown
  BY DEF PasswordsKnown, Idle
<1> QED
  BY <1>1, <1>2, <1>3, <1>4 DEF TypeInv, TypeOK

\* What every action changes the call record to.
LEMMA IdleTyped == Idle \in CallRecord
  BY DEF Idle, CallRecord, Pcs, Passwords

LEMMA SessionTypes ==
  ASSUME TypeInv, NEW c \in Calls, SessionStep(c)
  PROVE  TypeInv'
<1> USE DEF TypeInv, TypeOK
<1>1. CASE Login(c)
  <2> USE <1>1 DEF Login, At, UserRecord, Passwords, PasswordsKnown
  <2>1. CASE user.mfa = "on"
    BY <2>1
  <2>2. CASE user.mfa # "on"
    <3>1. call' = [call EXCEPT ![c] = [Idle EXCEPT !.pc = "issue", !.password = user.password]]
      BY <2>2
    <3>2. [Idle EXCEPT !.pc = "issue", !.password = user.password] \in CallRecord
      BY DEF Idle, CallRecord, Pcs
    <3>3. call' \in [Calls -> CallRecord]
      BY <3>1, <3>2
    <3>4. UNCHANGED <<user, token, challenges, links>>
      BY <2>2
    <3>5. PasswordsKnown'
      BY <3>1, <3>4 DEF Idle
    <3> QED
      BY <3>3, <3>4, <3>5
  <2> QED
    BY <2>1, <2>2
<1>2. ASSUME NEW p \in Passwords, CompleteMfaChallenge(c, p) PROVE TypeInv'
  BY <1>2 DEF CompleteMfaChallenge, At, Idle, CallRecord, Pcs, Passwords, PasswordsKnown
<1>3. ASSUME NEW p \in Passwords, NEW k \in Codes, CompleteMfaRecovery(c, p, k) PROVE TypeInv'
  BY <1>3 DEF CompleteMfaRecovery, At, Idle, CallRecord, Pcs, Passwords, PasswordsKnown
<1>4. CASE ReadCodes(c)
  BY <1>4, IdleTyped DEF ReadCodes, Respond, At, Idle, CallRecord, UserRecord, Pcs, PasswordsKnown
<1>5. CASE WriteCodes(c)
  BY <1>5 DEF WriteCodes, Goto, At, CallRecord, UserRecord, Pcs, PasswordsKnown
<1>6. ASSUME NEW t \in Tokens, Refresh(c, t) PROVE TypeInv'
  BY <1>6 DEF Refresh, Live, At, Idle, CallRecord, TokenRecord, Pcs, Passwords, PasswordsKnown
<1>7. CASE Consume(c)
  <2> USE <1>7 DEF Consume, Live, Goto, Respond, At, PasswordsKnown
  <2>1. CASE Live(call[c].token)
    <3>1. token' \in [Tokens -> TokenRecord]
      BY <2>1 DEF TokenRecord
    <3>2. \A t \in Tokens : token'[t].status # "absent" => token'[t].password \in 1..user.password
      BY <2>1, call[c].token \in Tokens \cup {None} DEF TokenRecord, CallRecord
    <3>3. call' \in [Calls -> CallRecord]
      BY <2>1 DEF CallRecord, Pcs
    <3>4. PasswordsKnown'
      BY <2>1 DEF CallRecord
    <3> QED
      BY <2>1, <3>1, <3>2, <3>3, <3>4
  <2>2. CASE ~Live(call[c].token)
    <3>1. call' = [call EXCEPT ![c] = Idle] /\ UNCHANGED <<user, token, challenges, links>>
      BY <2>2
    <3> QED
      BY <3>1, IdleTyped DEF Idle
  <2> QED
    BY <2>1, <2>2
<1>8. CASE ReadUser(c)
  BY <1>8, IdleTyped DEF ReadUser, Goto, Respond, At, Idle, CallRecord, Pcs, PasswordsKnown
<1>9. ASSUME NEW t \in Tokens, Issue(c, t) PROVE TypeInv'
  BY <1>9, IdleTyped
  DEF Issue, Respond, At, Idle, CallRecord, TokenRecord, Passwords, PasswordsKnown
<1> QED
  BY <1>1, <1>2, <1>3, <1>4, <1>5, <1>6, <1>7, <1>8, <1>9 DEF SessionStep

LEMMA PasswordTypes ==
  ASSUME TypeInv, NEW c \in Calls, PasswordStep(c)
  PROVE  TypeInv'
<1> USE DEF TypeInv, TypeOK, At, PasswordsKnown
<1>1. CASE ForgotPassword(c)
  BY <1>1 DEF ForgotPassword, Begin, CallRecord, Pcs
<1>2. CASE SendLink(c)
  BY <1>2, IdleTyped DEF SendLink, Respond, Idle, UserRecord
<1>3. CASE ResetPassword(c)
  BY <1>3 DEF ResetPassword, Begin, CallRecord, Pcs
<1>4. CASE SetPassword(c)
  <2> USE <1>4 DEF SetPassword, Goto
  <2>1. user' \in UserRecord /\ user'.password = user.password + 1
    <3>1. user.password + 1 \in Passwords
      BY DEF UserRecord, Passwords
    <3> QED
      BY <3>1 DEF UserRecord
  <2>2. user.password \in Nat
    BY DEF UserRecord, Passwords
  <2>3. call' \in [Calls -> CallRecord]
    BY DEF CallRecord, Pcs
  <2>4. PasswordsKnown'
    BY <2>1, <2>2 DEF CallRecord, Passwords
  <2>5. \A t \in Tokens : token[t].password \in Nat
    BY DEF TokenRecord, Passwords
  <2> QED
    BY <2>1, <2>2, <2>3, <2>4, <2>5 DEF Passwords
<1>5. CASE ChangePassword(c)
  BY ZenonT(60), <1>5 DEF ChangePassword, Begin, CallRecord, Pcs
<1>6. CASE ChangePasswordWrite(c)
  BY <1>6 DEF ChangePasswordWrite, Goto, CallRecord, UserRecord, Passwords, Pcs
<1>7. CASE RevokeAll(c)
  BY <1>7, IdleTyped DEF RevokeAll, Live, Respond, Idle, TokenRecord
<1> QED
  BY <1>1, <1>2, <1>3, <1>4, <1>5, <1>6, <1>7 DEF PasswordStep

LEMMA NextTypes == TypeInv /\ [Next]_vars => TypeInv'
<1> SUFFICES ASSUME TypeInv, [Next]_vars PROVE TypeInv'
  OBVIOUS
<1> USE DEF TypeInv, TypeOK, PasswordsKnown
<1>1. CASE UNCHANGED vars
  BY <1>1 DEF vars
<1>2. ASSUME NEW c \in Calls, SessionStep(c) PROVE TypeInv'
  BY <1>2, SessionTypes
<1>3. ASSUME NEW c \in Calls, PasswordStep(c) PROVE TypeInv'
  BY <1>3, PasswordTypes
<1>4. ASSUME NEW c \in Calls, Fail(c) PROVE TypeInv'
  BY <1>4, IdleTyped DEF Fail, Respond, Idle
<1>5. ASSUME NEW p \in Passwords, ExpireChallenge(p) PROVE TypeInv'
  BY <1>5 DEF ExpireChallenge
<1>6. ASSUME NEW t \in Tokens, Revoke(t) PROVE TypeInv'
  BY <1>6 DEF Revoke, Live, TokenRecord
<1>7. CASE Disable
  BY <1>7 DEF Disable, UserRecord
<1>8. CASE Enable
  BY <1>8 DEF Enable, UserRecord
<1> QED
  BY <1>1, <1>2, <1>3, <1>4, <1>5, <1>6, <1>7, <1>8 DEF Next

\* Rows and calls have their types, and nobody has a session before there is a
\* password to log in with (login, inviteUser).
THEOREM TypeCorrect == Spec => []TypeOK
<1>1. TypeInv => TypeOK
  BY DEF TypeInv
<1> QED
  BY InitTypes, NextTypes, <1>1, PTL DEF Spec
-----------------------------------------------------------------------------
\* A call that is not about a token leaves what is known of the tokens alone.
LEMMA TokensLeftAlone ==
  ASSUME TypeInv, TokenInv, NEW c \in Calls, UNCHANGED token,
         call' \in [Calls -> CallRecord],
         \A d \in Calls \ {c} : call'[d] = call[d],
         call'[c].token = None, call'[c].pc \notin {"consume", "readUser"}
  PROVE  TokenInv'
<1> USE DEF TokenInv, TypeInv, TypeOK
<1>1. RefreshesNameTokens'
  BY DEF RefreshesNameTokens
<1>2. OneReplacement'
  <2>1. \A d \in Calls, t \in Tokens : Replaces(d, t)' => Replaces(d, t)
    BY DEF Replaces
  <2> QED
    BY <2>1 DEF OneReplacement
<1>3. RotatedOnce'
  BY DEF RotatedOnce
<1> QED
  BY <1>1, <1>2, <1>3

\* Revoking tokens never hurts.
LEMMA RevokingIsSafe ==
  ASSUME TypeInv, TokenInv, UNCHANGED call,
         token' \in [Tokens -> TokenRecord],
         \A t \in Tokens : /\ token'[t].parent = token[t].parent
                           /\ token'[t].password = token[t].password
                           /\ token'[t].status = token[t].status \/ token'[t].status = "revoked"
  PROVE  TokenInv'
<1> USE DEF TokenInv, TypeInv, TypeOK
<1>1. RefreshesNameTokens'
  BY DEF RefreshesNameTokens, CallRecord
<1>2. OneReplacement'
  BY DEF OneReplacement, Replaces
<1>3. RotatedOnce'
  BY DEF RotatedOnce, TokenRecord
<1> QED
  BY <1>1, <1>2, <1>3

LEMMA RotationSteps ==
  ASSUME TypeInv, TypeInv', TokenInv, NEW c \in Calls,
         \/ \E t \in Tokens : Refresh(c, t) \/ Issue(c, t)
         \/ Consume(c) \/ ReadUser(c)
  PROVE  TokenInv'
<1> USE DEF TokenInv, TypeInv, TypeOK
<1>1. ASSUME NEW t \in Tokens, Refresh(c, t) PROVE TokenInv'
  <2> USE <1>1 DEF Refresh, Live, At
  <2>1. RefreshesNameTokens'
    BY DEF RefreshesNameTokens, Idle
  <2>2. \A d \in Calls, s \in Tokens : Replaces(d, s)' => Replaces(d, s)
    BY DEF Replaces, Idle
  <2>3. OneReplacement'
    BY <2>2 DEF OneReplacement
  <2> QED
    BY <2>1, <2>3 DEF RotatedOnce
<1>2. CASE Consume(c) /\ ~Live(call[c].token)
  <2>1. call' = [call EXCEPT ![c] = Idle] /\ UNCHANGED token
    BY <1>2 DEF Consume, Respond
  <2> QED
    BY <2>1, TokensLeftAlone DEF Idle
<1>3. CASE Consume(c) /\ Live(call[c].token)
  <2> DEFINE s == call[c].token
  <2>1. /\ token' = [token EXCEPT ![s].status = "revoked"]
        /\ call' = [call EXCEPT ![c].pc = "readUser"]
        /\ call[c].pc = "consume" /\ s \in Tokens /\ token[s].status = "live"
    BY <1>3 DEF Consume, Goto, At, Live, RefreshesNameTokens
  <2>2. /\ \A t \in Tokens : token[t].parent # s
        /\ \A d \in Calls : ~Replaces(d, s)
    BY <2>1 DEF RotatedOnce, OneReplacement
  <2>3. RefreshesNameTokens'
    BY <2>1 DEF RefreshesNameTokens, CallRecord, TokenRecord
  <2>4. \A t \in Tokens : token'[t].parent = token[t].parent
                          /\ (token[t].status = "revoked" => token'[t].status = "revoked")
    BY <2>1 DEF TokenRecord
  <2>5. \A d \in Calls, t \in Tokens :
          Replaces(d, t)' => (d = c /\ t = s) \/ (d # c /\ t # s /\ Replaces(d, t))
    BY <2>1, <2>2 DEF Replaces, CallRecord
  <2>6. token'[s].status = "revoked"
    BY <2>1 DEF TokenRecord
  <2>7. OneReplacement'
    BY <2>2, <2>4, <2>5, <2>6 DEF OneReplacement
  <2>8. RotatedOnce'
    BY <2>4 DEF RotatedOnce, TokenRecord
  <2> QED
    BY <2>3, <2>7, <2>8
<1>4. CASE ReadUser(c)
  <2>1. CASE user.status = "active"
    <3>1. call' = [call EXCEPT ![c].pc = "issue"] /\ call[c].pc = "readUser" /\ UNCHANGED token
      BY <1>4, <2>1 DEF ReadUser, Goto, At
    <3>2. \A d \in Calls, t \in Tokens : Replaces(d, t)' => Replaces(d, t)
      BY <3>1 DEF Replaces, CallRecord
    <3>3. RefreshesNameTokens'
      BY <3>1 DEF RefreshesNameTokens, CallRecord
    <3>4. OneReplacement'
      BY <3>1, <3>2 DEF OneReplacement
    <3> QED
      BY <3>1, <3>3, <3>4 DEF RotatedOnce
  <2>2. CASE user.status # "active"
    <3>1. call' = [call EXCEPT ![c] = Idle] /\ UNCHANGED token
      BY <1>4, <2>2 DEF ReadUser, Respond
    <3> QED
      BY <3>1, TokensLeftAlone DEF Idle
  <2> QED
    BY <2>1, <2>2
<1>5. ASSUME NEW t \in Tokens, Issue(c, t) PROVE TokenInv'
  <2> DEFINE s == call[c].token
  <2>1. /\ token' = [token EXCEPT ![t] = [status |-> "live", parent |-> s,
                                          password |-> call[c].password]]
        /\ call' = [call EXCEPT ![c] = Idle]
        /\ call[c].pc = "issue" /\ token[t].status = "absent"
    BY <1>5 DEF Issue, Respond, At
  <2>2. s \in Tokens \cup {None}
    BY DEF CallRecord
  <2>3. s # None => /\ Replaces(c, s)
                    /\ token[s].status = "revoked"
                    /\ \A r \in Tokens : token[r].parent # s
                    /\ \A d \in Calls : Replaces(d, s) => d = c
    BY <2>1, <2>2 DEF Replaces, OneReplacement
  <2>4. \A d \in Calls, r \in Tokens : Replaces(d, r)' => d # c /\ Replaces(d, r)
    BY <2>1 DEF Replaces, Idle
  <2>5. \A r \in Tokens : r # t => token'[r] = token[r]
    BY <2>1
  <2>6. token'[t].parent = s
    BY <2>1
  <2>7. RefreshesNameTokens'
    BY <2>1, <2>5 DEF RefreshesNameTokens, CallRecord, Idle
  <2>8. OneReplacement'
    BY <2>1, <2>3, <2>4, <2>5, <2>6 DEF OneReplacement
  <2>9. RotatedOnce'
    <3> SUFFICES ASSUME NEW r \in Tokens, token'[r].parent # None
                 PROVE  /\ token'[token'[r].parent].status = "revoked"
                        /\ \A q \in Tokens : token'[q].parent = token'[r].parent => q = r
      BY DEF RotatedOnce
    <3>1. token'[r].parent \in Tokens
      BY DEF TokenRecord
    <3>2. CASE r = t
      BY <2>1, <2>3, <2>5, <2>6, <3>1, <3>2
    <3>3. CASE r # t
      <4>1. token'[r].parent = token[r].parent /\ token[token[r].parent].status = "revoked"
        BY <2>5, <3>1, <3>3 DEF RotatedOnce
      <4>2. token[r].parent # t /\ token[r].parent # s
        BY <2>1, <2>3, <3>1, <4>1
      <4> QED
        BY <2>5, <2>6, <3>1, <3>3, <4>1, <4>2 DEF RotatedOnce
    <3> QED
      BY <3>2, <3>3
  <2> QED
    BY <2>7, <2>8, <2>9
<1> QED
  BY <1>1, <1>2, <1>3, <1>4, <1>5

LEMMA InitInv == Init => AccountInv
<1> SUFFICES ASSUME Init PROVE AccountInv
  OBVIOUS
<1>1. TypeInv
  BY InitTypes
<1>2. TokenInv /\ CodesRead
  BY DEF Init, Idle, At, TokenInv, RefreshesNameTokens, OneReplacement, Replaces, RotatedOnce,
         CodesRead
<1> QED
  BY <1>1, <1>2 DEF AccountInv

LEMMA NextTokens ==
  ASSUME TypeInv, TypeInv', TokenInv, [Next]_vars
  PROVE  TokenInv'
<1> USE DEF TypeInv, TypeOK
<1>1. CASE UNCHANGED vars
  BY <1>1 DEF vars, TokenInv, RefreshesNameTokens, OneReplacement, Replaces, RotatedOnce
<1>2. ASSUME NEW c \in Calls, SessionStep(c) PROVE TokenInv'
  <2>1. CASE \/ \E t \in Tokens : Refresh(c, t) \/ Issue(c, t)
             \/ Consume(c) \/ ReadUser(c)
    BY <2>1, RotationSteps
  <2>2. CASE Login(c) /\ user.mfa = "on"
    BY <2>2 DEF Login, TokenInv, RefreshesNameTokens, OneReplacement, Replaces, RotatedOnce
  <2>3. CASE Login(c) /\ user.mfa # "on"
    <3>1. /\ call' = [call EXCEPT ![c] = [Idle EXCEPT !.pc = "issue", !.password = user.password]]
          /\ UNCHANGED token
      BY <2>3 DEF Login
    <3> QED
      BY <3>1, TokensLeftAlone DEF Idle
  <2>4. ASSUME NEW p \in Passwords, CompleteMfaChallenge(c, p) PROVE TokenInv'
    BY <2>4, TokensLeftAlone DEF CompleteMfaChallenge, Idle
  <2>5. ASSUME NEW p \in Passwords, NEW k \in Codes, CompleteMfaRecovery(c, p, k) PROVE TokenInv'
    BY <2>5, TokensLeftAlone DEF CompleteMfaRecovery, Idle
  <2>6. CASE ReadCodes(c) \/ WriteCodes(c)
    <3>1. call[c].token = None
      BY <2>6 DEF ReadCodes, WriteCodes, At, TokenInv, RefreshesNameTokens
    <3>2. CASE ReadCodes(c)
      BY <3>1, <3>2, TokensLeftAlone DEF ReadCodes, Respond, Idle, CallRecord
    <3>3. CASE WriteCodes(c)
      BY <3>1, <3>3, TokensLeftAlone DEF WriteCodes, Goto, CallRecord
    <3> QED
      BY <2>6, <3>2, <3>3
  <2> QED
    BY <1>2, <2>1, <2>2, <2>3, <2>4, <2>5, <2>6 DEF SessionStep
<1>3. ASSUME NEW c \in Calls, PasswordStep(c) PROVE TokenInv'
  <2>1. CASE ForgotPassword(c) \/ ResetPassword(c) \/ ChangePassword(c)
    BY <2>1, TokensLeftAlone
    DEF ForgotPassword, ResetPassword, ChangePassword, Begin, At, CallRecord, TokenInv,
        RefreshesNameTokens
  <2>2. CASE SendLink(c)
    BY <2>2, TokensLeftAlone DEF SendLink, Respond, Idle
  <2>3. CASE SetPassword(c) \/ ChangePasswordWrite(c)
    BY <2>3, TokensLeftAlone
    DEF SetPassword, ChangePasswordWrite, Goto, At, CallRecord, TokenInv, RefreshesNameTokens
  <2>4. CASE RevokeAll(c)
    <3>1. call[c].token = None /\ call' = [call EXCEPT ![c] = Idle]
      BY <2>4 DEF RevokeAll, Respond, At, TokenInv, RefreshesNameTokens
    <3>2. \A t \in Tokens : /\ token'[t].parent = token[t].parent
                            /\ token'[t].password = token[t].password
                            /\ token'[t].status = token[t].status \/ token'[t].status = "revoked"
      BY <2>4 DEF RevokeAll, Live, TokenRecord
    <3>3. RefreshesNameTokens'
      BY <3>1, <3>2 DEF TokenInv, RefreshesNameTokens, CallRecord, Idle
    <3>4. \A d \in Calls, t \in Tokens : Replaces(d, t)' => Replaces(d, t)
      BY <3>1 DEF Replaces, Idle
    <3>5. OneReplacement'
      BY <3>2, <3>4 DEF TokenInv, OneReplacement
    <3>6. RotatedOnce'
      BY <3>2 DEF TokenInv, RotatedOnce, TokenRecord
    <3> QED
      BY <3>3, <3>5, <3>6 DEF TokenInv
  <2> QED
    BY <1>3, <2>1, <2>2, <2>3, <2>4 DEF PasswordStep
<1>4. ASSUME NEW c \in Calls, Fail(c) PROVE TokenInv'
  BY <1>4, TokensLeftAlone DEF Fail, Respond, Idle
<1>5. ASSUME NEW t \in Tokens, Revoke(t) PROVE TokenInv'
  BY <1>5, RevokingIsSafe DEF Revoke, TokenRecord
<1>6. CASE \/ \E p \in Passwords : ExpireChallenge(p)
           \/ Disable \/ Enable
  BY <1>6
  DEF ExpireChallenge, Disable, Enable, TokenInv, RefreshesNameTokens, OneReplacement, Replaces,
      RotatedOnce
<1> QED
  BY <1>1, <1>2, <1>3, <1>4, <1>5, <1>6 DEF Next

LEMMA NextCodes ==
  ASSUME TypeInv, CodesRead, [Next]_vars
  PROVE  CodesRead'
<1> USE DEF TypeInv, TypeOK, CodesRead, At
<1>1. CASE UNCHANGED vars
  BY <1>1 DEF vars
<1>2. ASSUME NEW c \in Calls, SessionStep(c) PROVE CodesRead'
  <2>1. CASE Login(c)
    BY <2>1 DEF Login, Idle
  <2>2. ASSUME NEW p \in Passwords,
               CompleteMfaChallenge(c, p) \/ \E k \in Codes : CompleteMfaRecovery(c, p, k)
        PROVE  CodesRead'
    BY <2>2 DEF CompleteMfaChallenge, CompleteMfaRecovery, Idle
  <2>5. ASSUME NEW t \in Tokens, Refresh(c, t) PROVE CodesRead'
    BY <2>5 DEF Refresh, Idle
  <2>6. ASSUME NEW t \in Tokens, Issue(c, t) PROVE CodesRead'
    BY <2>6 DEF Issue, Respond, Idle
  <2>3. CASE ReadCodes(c)
    BY <2>3 DEF ReadCodes, Respond, Idle, CallRecord
  <2>4. CASE WriteCodes(c) \/ Consume(c) \/ ReadUser(c)
    BY <2>4 DEF WriteCodes, Consume, ReadUser, Goto, Respond, Idle, CallRecord
  <2> QED
    BY <1>2, <2>1, <2>2, <2>3, <2>4, <2>5, <2>6 DEF SessionStep
<1>3. ASSUME NEW c \in Calls, PasswordStep(c) PROVE CodesRead'
  BY <1>3
  DEF PasswordStep, ForgotPassword, SendLink, ResetPassword, SetPassword, ChangePassword,
      ChangePasswordWrite, RevokeAll, Begin, Goto, Respond, Idle, CallRecord
<1>4. ASSUME NEW c \in Calls, Fail(c) PROVE CodesRead'
  BY <1>4 DEF Fail, Respond, Idle
<1>5. CASE \/ \E p \in Passwords : ExpireChallenge(p)
           \/ \E t \in Tokens : Revoke(t)
           \/ Disable \/ Enable
  BY <1>5 DEF ExpireChallenge, Revoke, Disable, Enable
<1> QED
  BY <1>1, <1>2, <1>3, <1>4, <1>5 DEF Next

LEMMA AccountInvariant == Spec => []AccountInv
<1>1. AccountInv /\ [Next]_vars => AccountInv'
  <2> SUFFICES ASSUME AccountInv, [Next]_vars PROVE AccountInv'
    OBVIOUS
  <2>1. TypeInv'
    BY NextTypes DEF AccountInv
  <2> QED
    BY <2>1, NextTokens, NextCodes DEF AccountInv
<1> QED
  BY InitInv, <1>1, PTL DEF Spec

\* A refresh token is replaced at most once, whatever calls meet (consume).
THEOREM TokensRotateOnce == Spec => []RotatedOnce
<1>1. AccountInv => RotatedOnce
  BY DEF AccountInv, TokenInv
<1> QED
  BY AccountInvariant, <1>1, PTL
-----------------------------------------------------------------------------
\* No step brings a dead password back.
LEMMA DeadStays ==
  ASSUME AccountInv, [Next]_vars, NEW p \in Passwords, Dead(p)
  PROVE  Dead(p)'
<1> USE DEF AccountInv, TypeInv, TypeOK, Dead, Granted, Live, At
<1>1. CASE UNCHANGED vars
  BY <1>1 DEF vars
<1>2. ASSUME NEW c \in Calls, SessionStep(c) PROVE Dead(p)'
  <2>1. CASE Login(c)
    <3>1. CASE user.mfa = "on"
      BY <2>1, <3>1 DEF Login, UserRecord, Passwords
    <3>2. CASE user.mfa # "on"
      <4>1. /\ call' = [call EXCEPT ![c] = [Idle EXCEPT !.pc = "issue", !.password = user.password]]
            /\ UNCHANGED <<user, token, challenges>>
        BY <2>1, <3>2 DEF Login
      <4>2. user.password # p
        BY DEF UserRecord, Passwords
      <4> QED
        BY <4>1, <4>2 DEF Idle
    <3> QED
      BY <3>1, <3>2
  <2>2. ASSUME NEW q \in Passwords, CompleteMfaChallenge(c, q) PROVE Dead(p)'
    BY <2>2 DEF CompleteMfaChallenge, Idle
  <2>9. ASSUME NEW q \in Passwords, NEW k \in Codes, CompleteMfaRecovery(c, q, k)
        PROVE  Dead(p)'
    BY <2>9 DEF CompleteMfaRecovery, Idle
  <2>3. CASE ReadCodes(c)
    BY <2>3 DEF ReadCodes, Respond, Idle, CallRecord
  <2>4. CASE WriteCodes(c)
    BY <2>4 DEF WriteCodes, Goto, CallRecord, UserRecord
  <2>5. ASSUME NEW t \in Tokens, Refresh(c, t) PROVE Dead(p)'
    BY <2>5 DEF Refresh, Idle
  <2>6. CASE Consume(c)
    <3>1. CASE Live(call[c].token)
      <4>1. call[c].token # None /\ call[c].token \in Tokens
        BY <2>6 DEF Consume, TokenInv, RefreshesNameTokens
      <4>2. call[c].password # p
        BY <3>1, <4>1 DEF TokenInv, RefreshesNameTokens
      <4> QED
        BY <2>6, <3>1, <4>1, <4>2 DEF Consume, Goto, CallRecord, TokenRecord
    <3>2. CASE ~Live(call[c].token)
      BY <2>6, <3>2 DEF Consume, Respond, Idle
    <3> QED
      BY <3>1, <3>2
  <2>7. CASE ReadUser(c)
    BY <2>7 DEF ReadUser, Goto, Respond, Idle, CallRecord
  <2>8. ASSUME NEW t \in Tokens, Issue(c, t) PROVE Dead(p)'
    BY <2>8 DEF Issue, Respond, Idle
  <2> QED
    BY <1>2, <2>1, <2>2, <2>3, <2>4, <2>5, <2>6, <2>7, <2>8, <2>9 DEF SessionStep
<1>3. ASSUME NEW c \in Calls, PasswordStep(c) PROVE Dead(p)'
  <2>1. CASE ForgotPassword(c) \/ ResetPassword(c) \/ ChangePassword(c)
    BY <2>1 DEF ForgotPassword, ResetPassword, ChangePassword, Begin, CallRecord
  <2>2. CASE SendLink(c)
    BY <2>2 DEF SendLink, Respond, Idle, UserRecord
  <2>3. CASE SetPassword(c) \/ ChangePasswordWrite(c)
    <3>1. user'.password = user.password + 1 /\ user.password \in Nat
      <4>1. user.password \in Nat
        BY DEF UserRecord, Passwords
      <4>2. CASE SetPassword(c)
        BY <4>1, <4>2 DEF SetPassword, UserRecord
      <4>3. CASE ChangePasswordWrite(c)
        BY <4>1, <4>3 DEF ChangePasswordWrite, UserRecord
      <4> QED
        BY <2>3, <4>1, <4>2, <4>3
    <3>2. p < user'.password
      BY <3>1 DEF Passwords
    <3> QED
      BY <2>3, <3>2 DEF SetPassword, ChangePasswordWrite, Goto, CallRecord
  <2>4. CASE RevokeAll(c)
    BY <2>4 DEF RevokeAll, Respond, Idle, TokenRecord
  <2> QED
    BY <1>3, <2>1, <2>2, <2>3, <2>4 DEF PasswordStep
<1>4. ASSUME NEW c \in Calls, Fail(c) PROVE Dead(p)'
  BY <1>4 DEF Fail, Respond, Idle
<1>5. ASSUME NEW q \in Passwords, ExpireChallenge(q) PROVE Dead(p)'
  BY <1>5 DEF ExpireChallenge
<1>6. ASSUME NEW t \in Tokens, Revoke(t) PROVE Dead(p)'
  BY <1>6 DEF Revoke, TokenRecord
<1>7. CASE Disable \/ Enable
  BY <1>7 DEF Disable, Enable, UserRecord
<1> QED
  BY <1>1, <1>2, <1>3, <1>4, <1>5, <1>6, <1>7 DEF Next

\* Once a password is dead no session ever rests on it again
\* (resetPassword, changeOwnPassword, revokeAllForUser).
THEOREM DeadPasswordsStayDead == Spec => DeadPasswordStaysDead
<1>1. AccountInv /\ [Next]_vars => [\A p \in Passwords : Dead(p) => Dead(p)']_vars
  BY DeadStays
<1> QED
  BY AccountInvariant, <1>1, PTL DEF Spec, DeadPasswordStaysDead
-----------------------------------------------------------------------------
\* Only a recovery that had read a list with the code could bring it back.
LEMMA SpentStays ==
  ASSUME AccountInv, [Next]_vars, NEW k \in Codes, Spent(k)
  PROVE  Spent(k)' /\ \A c \in Calls : WriteCodes(c) => call[c].code # k
<1> USE DEF AccountInv, TypeInv, TypeOK, Spent, At
<1>1. \A c \in Calls : WriteCodes(c) => call[c].code # k
  BY DEF WriteCodes, CodesRead
<1>2. CASE UNCHANGED vars
  BY <1>1, <1>2 DEF vars
<1>3. ASSUME NEW c \in Calls, SessionStep(c) PROVE Spent(k)'
  <2>1. CASE Login(c)
    <3>1. user' = user /\ (call' = call \/ call' =
            [call EXCEPT ![c] = [Idle EXCEPT !.pc = "issue", !.password = user.password]])
      BY <2>1 DEF Login
    <3> QED
      BY <3>1 DEF Idle
  <2>2. ASSUME NEW q \in Passwords, CompleteMfaChallenge(c, q) PROVE Spent(k)'
    BY <2>2 DEF CompleteMfaChallenge, Idle
  <2>3. ASSUME NEW q \in Passwords, NEW j \in Codes, CompleteMfaRecovery(c, q, j)
        PROVE  Spent(k)'
    BY <2>3 DEF CompleteMfaRecovery, Idle
  <2>4. CASE ReadCodes(c)
    BY <2>4 DEF ReadCodes, Respond, Idle, CallRecord
  <2>5. CASE WriteCodes(c)
    BY <2>5 DEF WriteCodes, Goto, CallRecord, UserRecord
  <2>6. ASSUME NEW t \in Tokens, Refresh(c, t) PROVE Spent(k)'
    BY <2>6 DEF Refresh, Idle
  <2>7. CASE Consume(c) \/ ReadUser(c)
    <3>1. user' = user /\ (call' = [call EXCEPT ![c] = Idle]
                           \/ \E pc \in {"readUser", "issue"} : call' = [call EXCEPT ![c].pc = pc])
      BY <2>7 DEF Consume, ReadUser, Goto, Respond
    <3> QED
      BY <3>1 DEF Idle, CallRecord
  <2>8. ASSUME NEW t \in Tokens, Issue(c, t) PROVE Spent(k)'
    BY <2>8 DEF Issue, Respond, Idle
  <2> QED
    BY <1>3, <2>1, <2>2, <2>3, <2>4, <2>5, <2>6, <2>7, <2>8 DEF SessionStep
<1>4. ASSUME NEW c \in Calls, PasswordStep(c) PROVE Spent(k)'
  <2>1. CASE ForgotPassword(c) \/ ResetPassword(c) \/ ChangePassword(c)
    BY <2>1 DEF ForgotPassword, ResetPassword, ChangePassword, Begin, CallRecord
  <2>2. CASE SendLink(c)
    BY <2>2 DEF SendLink, Respond, Idle, UserRecord
  <2>3. CASE SetPassword(c)
    BY <2>3 DEF SetPassword, Goto, CallRecord, UserRecord
  <2>4. CASE ChangePasswordWrite(c)
    BY <2>4 DEF ChangePasswordWrite, Goto, CallRecord, UserRecord
  <2>5. CASE RevokeAll(c)
    BY <2>5 DEF RevokeAll, Respond, Idle
  <2> QED
    BY <1>4, <2>1, <2>2, <2>3, <2>4, <2>5 DEF PasswordStep
<1>5. ASSUME NEW c \in Calls, Fail(c) PROVE Spent(k)'
  BY <1>5 DEF Fail, Respond, Idle
<1>6. CASE \/ \E q \in Passwords : ExpireChallenge(q)
           \/ \E t \in Tokens : Revoke(t)
  BY <1>1, <1>6 DEF ExpireChallenge, Revoke
<1>7. CASE Disable \/ Enable
  BY <1>1, <1>7 DEF Disable, Enable, UserRecord
<1> QED
  BY <1>1, <1>2, <1>3, <1>4, <1>5, <1>6, <1>7 DEF Next

\* A spent backup code is never accepted again, nor put back on the list, once
\* no recovery that read the list before is under way (consumeBackupCode).
THEOREM SpentCodesStaySpent == Spec => SpentCodeStaysSpent
<1>1. AccountInv /\ [Next]_vars =>
        [\A k \in Codes :
           Spent(k) => Spent(k)' /\ \A c \in Calls : WriteCodes(c) => call[c].code # k]_vars
  BY SpentStays
<1> QED
  BY AccountInvariant, <1>1, PTL DEF Spec, SpentCodeStaysSpent

\* A disabled user is let in by enableUser only.
LEMMA ShutOutStays ==
  ASSUME AccountInv, [Next]_vars, ShutOut
  PROVE  Enable \/ (ShutOut' /\ \A t \in Tokens : Live(t)' => Live(t))
<1> USE DEF AccountInv, TypeInv, TypeOK, ShutOut, PastStatusTest, At, Live
<1> DEFINE Good == ShutOut' /\ \A t \in Tokens : Live(t)' => Live(t)
<1>1. CASE UNCHANGED vars
  BY <1>1 DEF vars
<1>2. ASSUME NEW c \in Calls, SessionStep(c) PROVE Good
  <2>1. ~Login(c) /\ ~ReadCodes(c) /\ ~WriteCodes(c) /\ \A t \in Tokens : ~Issue(c, t)
    BY DEF Login, ReadCodes, WriteCodes, Issue
  <2>2. \A q \in Passwords : /\ ~CompleteMfaChallenge(c, q)
                             /\ \A k \in Codes : ~CompleteMfaRecovery(c, q, k)
    BY DEF CompleteMfaChallenge, CompleteMfaRecovery
  <2>3. ASSUME NEW t \in Tokens, Refresh(c, t) PROVE Good
    BY <2>3 DEF Refresh, Idle
  <2>4. CASE Consume(c)
    <3>1. call' = [call EXCEPT ![c] = Idle] \/ call' = [call EXCEPT ![c].pc = "readUser"]
      BY <2>4 DEF Consume, Goto, Respond
    <3>2. user' = user /\ \A t \in Tokens : Live(t)' => Live(t)
      BY <2>4 DEF Consume, TokenRecord
    <3> QED
      BY <3>1, <3>2 DEF Idle, CallRecord
  <2>5. CASE ReadUser(c)
    BY <2>5 DEF ReadUser, Respond, Idle
  <2> QED
    BY <1>2, <2>1, <2>2, <2>3, <2>4, <2>5 DEF SessionStep
<1>3. ASSUME NEW c \in Calls, PasswordStep(c) PROVE Good
  <2>1. ~ForgotPassword(c) /\ ~ResetPassword(c) /\ ~SetPassword(c) /\ ~ChangePassword(c)
    BY DEF ForgotPassword, ResetPassword, SetPassword, ChangePassword
  <2>2. CASE SendLink(c)
    BY <2>2 DEF SendLink, Respond, Idle, UserRecord
  <2>3. CASE ChangePasswordWrite(c)
    BY <2>3 DEF ChangePasswordWrite, Goto, CallRecord, UserRecord
  <2>4. CASE RevokeAll(c)
    BY <2>4 DEF RevokeAll, Respond, Idle, TokenRecord
  <2> QED
    BY <1>3, <2>1, <2>2, <2>3, <2>4 DEF PasswordStep
<1>4. ASSUME NEW c \in Calls, Fail(c) PROVE Good
  BY <1>4 DEF Fail, Respond, Idle
<1>5. ASSUME NEW q \in Passwords, ExpireChallenge(q) PROVE Good
  BY <1>5 DEF ExpireChallenge
<1>6. ASSUME NEW t \in Tokens, Revoke(t) PROVE Good
  BY <1>6 DEF Revoke, TokenRecord
<1>7. CASE Disable
  BY <1>7 DEF Disable, UserRecord
<1> QED
  BY <1>1, <1>2, <1>3, <1>4, <1>5, <1>6, <1>7 DEF Next

\* A disabled user gets no session and stays disabled until enableUser, once no
\* call is under way that tested the status before (disableUser, refresh).
THEOREM DisabledUsersStayOut == Spec => DisabledStaysShutOut
<1>1. AccountInv /\ [Next]_vars =>
        [ShutOut => Enable \/ (ShutOut' /\ \A t \in Tokens : Live(t)' => Live(t))]_vars
  BY ShutOutStays
<1> QED
  BY AccountInvariant, <1>1, PTL DEF Spec, DisabledStaysShutOut
=============================================================================
