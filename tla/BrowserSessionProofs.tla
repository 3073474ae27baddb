-------------------------- MODULE BrowserSessionProofs --------------------------
(***************************************************************************)
(* What BrowserSession promises, for any number of sessions and requests.  *)
(***************************************************************************)
EXTENDS BrowserSession, TLAPS

\* Who holds what: only a login goes without a session, and a session that is
\* on its way to the browser is nobody's yet.
Holds ==
  /\ \A c \in Fetches : fetch[c].held # NoSession => row[fetch[c].held] # "absent"
  /\ \A c \in Fetches : fetch[c].new # NoSession => row[fetch[c].new] # "absent" /\ fetch[c].new # jar
  /\ \A c, d \in Fetches : fetch[c].new # NoSession => fetch[d].held # fetch[c].new
  /\ \A c, d \in Fetches : c # d /\ fetch[c].new # NoSession => fetch[c].new # fetch[d].new
  /\ \A c \in Fetches :
       (fetch[c].pc \in {"first", "consume", "issue", "refreshed"} \/ fetch[c].answer = "set") /\ fetch[c].held # NoSession
         => fetch[c].op \in {"refresh", "proxy"}
  /\ \A c \in Fetches : fetch[c].pc \in {"first", "consume", "issue", "refreshed"} /\ fetch[c].held = NoSession =>
       fetch[c].op = "login"
  /\ \A c \in Fetches : fetch[c].op = "login" => fetch[c].held = NoSession

\* A session that ends on its way to the browser has ended elsewhere.
FreshIsLive ==
  \A c \in Fetches : fetch[c].new # NoSession /\ row[fetch[c].new] = "revoked" => fetch[c].new \in orphaned

\* A request was refused because the session it holds is over.
RefusedIsDead ==
  \A c \in Fetches : fetch[c].answer = "refused" => fetch[c].held # NoSession /\ row[fetch[c].held] = "revoked"

\* What was signed out is dead, and what has used it before is marked.
SignedOutIsDead ==
  /\ \A s \in signedOut : row[s] = "revoked"
  /\ \A c \in Fetches :
       (fetch[c].pc \in {"issue", "refreshed"} \/ fetch[c].answer = "set") /\ fetch[c].held \in signedOut
         => c \in late

\* Only an answer sets the cookie.
AnswersFit == \A c \in Fetches : fetch[c].answer = "set" => fetch[c].pc = "answer"

\* The inductive invariant.
IInv == BrowserTypeOK /\ Holds /\ FreshIsLive /\ RefusedIsDead /\ SignedOutIsDead /\ AnswersFit /\ NoDeadCookie

LEMMA InitIInv == BrowserInit => IInv
<1> SUFFICES ASSUME BrowserInit PROVE IInv
    OBVIOUS
<1>1. \A c \in Fetches : fetch[c] = Idle
    BY DEF BrowserInit
<1>2. /\ Idle \in FetchRecord
      /\ Idle.pc = "idle" /\ Idle.op = "none" /\ Idle.held = NoSession /\ Idle.new = NoSession
      /\ Idle.answer = "keep"
    BY DEF Idle, FetchRecord, Ops, Answers
<1>3. BrowserTypeOK
    BY <1>1, <1>2 DEF BrowserInit, BrowserTypeOK
<1>4. Holds /\ FreshIsLive /\ RefusedIsDead /\ AnswersFit
    BY <1>1, <1>2 DEF Holds, FreshIsLive, RefusedIsDead, AnswersFit
<1>5. signedOut = {} /\ jar = NoSession
    BY DEF BrowserInit
<1>6. SignedOutIsDead
    BY <1>5 DEF SignedOutIsDead
<1>7. NoDeadCookie
    BY <1>5 DEF NoDeadCookie
<1>8. QED
    BY <1>3, <1>4, <1>6, <1>7 DEF IInv


\* The fields of the calls after a step that only moves one of them on.
LEMMA GotoFields ==
  ASSUME BrowserTypeOK, NEW c \in Fetches, Goto(c, "consume") \/ Goto(c, "issue")
  PROVE  /\ fetch' \in [Fetches -> FetchRecord]
         /\ Goto(c, "consume") => fetch'[c].pc = "consume"
         /\ Goto(c, "issue") => fetch'[c].pc = "issue"
         /\ fetch'[c].pc \in {"consume", "issue"}
         /\ fetch'[c].op = fetch[c].op /\ fetch'[c].held = fetch[c].held /\ fetch'[c].new = fetch[c].new
         /\ fetch'[c].answer = fetch[c].answer
         /\ \A d \in Fetches : d # c => fetch'[d] = fetch[d]
BY DEF BrowserTypeOK, Goto, FetchRecord

LEMMA AnswerFields ==
  ASSUME BrowserTypeOK, NEW c \in Fetches, NEW answer \in Answers, Answer(c, answer)
  PROVE  /\ fetch' \in [Fetches -> FetchRecord]
         /\ fetch'[c].pc = "answer" /\ fetch'[c].answer = answer
         /\ fetch'[c].op = fetch[c].op /\ fetch'[c].held = fetch[c].held /\ fetch'[c].new = fetch[c].new
         /\ \A d \in Fetches : d # c => fetch'[d] = fetch[d]
BY DEF BrowserTypeOK, Answer, FetchRecord

LEMMA IdleFields ==
  ASSUME BrowserTypeOK, NEW c \in Fetches, fetch' = [fetch EXCEPT ![c] = Idle]
  PROVE  /\ fetch' \in [Fetches -> FetchRecord]
         /\ fetch'[c].pc = "idle" /\ fetch'[c].answer = "keep" /\ fetch'[c].op = "none"
         /\ fetch'[c].held = NoSession /\ fetch'[c].new = NoSession
         /\ \A d \in Fetches : d # c => fetch'[d] = fetch[d]
<1>1. /\ Idle \in FetchRecord
      /\ Idle.pc = "idle" /\ Idle.op = "none" /\ Idle.held = NoSession /\ Idle.new = NoSession
      /\ Idle.answer = "keep"
    BY DEF Idle, FetchRecord, Ops, Answers
<1>2. QED
    BY <1>1 DEF BrowserTypeOK

LEMMA SendStep ==
  ASSUME IInv, NEW c \in Fetches, NEW op \in Ops, Send(c, op)
  PROVE  IInv'
<1> USE BrowserAssumption
<1>0. BrowserTypeOK /\ Holds /\ FreshIsLive /\ RefusedIsDead /\ SignedOutIsDead /\ AnswersFit /\ NoDeadCookie
    BY DEF IInv
<1>1. \A d \in Fetches : d # c => fetch'[d] = fetch[d]
    BY <1>0 DEF BrowserTypeOK, Send
<1>2. /\ fetch'[c].op = op /\ fetch'[c].held = (IF op = "login" THEN NoSession ELSE jar) /\ fetch'[c].new = NoSession
      /\ fetch'[c].pc = (IF op = "login" THEN "issue" ELSE IF jar = NoSession THEN "answer"
                        ELSE IF op = "logout" THEN "revoke" ELSE IF op = "refresh" THEN "consume" ELSE "first")
      /\ fetch'[c].answer = (IF jar = NoSession /\ op = "logout" THEN "signOut" ELSE "keep")
      /\ fetch' = [fetch EXCEPT ![c] = fetch'[c]]
      /\ fetch'[c] \in FetchRecord
    BY <1>0 DEF BrowserTypeOK, Send, FetchRecord, Idle, Ops, Answers
<1>3. fetch' \in [Fetches -> FetchRecord] /\ At(c, "idle") /\ UNCHANGED <<jar, row, over, denied, signedOut, late, orphaned>>
    BY <1>0, <1>2 DEF BrowserTypeOK, Send
<1>4. BrowserTypeOK'
    BY <1>0, <1>1, <1>2, <1>3 DEF BrowserTypeOK, FetchRecord, Holds, At, Ops
<1>5. Holds'
    BY <1>0, <1>1, <1>2, <1>3 DEF BrowserTypeOK, Holds, At, Ops
<1>6. FreshIsLive'
    BY <1>0, <1>1, <1>2, <1>3 DEF BrowserTypeOK, Holds, FreshIsLive, At, Ops
<1>7. RefusedIsDead'
    BY <1>0, <1>1, <1>2, <1>3 DEF BrowserTypeOK, RefusedIsDead, Holds, At, Ops
<1>8. SignedOutIsDead'
    BY <1>0, <1>1, <1>2, <1>3 DEF BrowserTypeOK, Holds, SignedOutIsDead, RefusedIsDead, AnswersFit, At, Ops
<1>9. AnswersFit'
    BY <1>0, <1>1, <1>2, <1>3 DEF AnswersFit, RefusedIsDead, At, Ops
<1>10. NoDeadCookie'
    BY <1>0, <1>1, <1>2, <1>3 DEF BrowserTypeOK, Holds, FreshIsLive, NoDeadCookie, Tells, At, RefusedIsDead, At, Ops
<1>11. QED
    BY <1>4, <1>5, <1>6, <1>7, <1>8, <1>9, <1>10 DEF IInv

LEMMA AcceptedStep ==
  ASSUME IInv, NEW c \in Fetches, Accepted(c)
  PROVE  IInv'
<1> USE BrowserAssumption
<1>0. BrowserTypeOK /\ Holds /\ FreshIsLive /\ RefusedIsDead /\ SignedOutIsDead /\ AnswersFit /\ NoDeadCookie
    BY DEF IInv
<1>1. At(c, "first") /\ Answer(c, "keep") /\ UNCHANGED <<jar, row, over, denied, signedOut, late, orphaned>>
    BY DEF Accepted
<1>2. "keep" \in Answers
    BY DEF Answers
<1>3. BrowserTypeOK'
    BY <1>0, <1>1, <1>2, AnswerFields DEF BrowserTypeOK, FetchRecord, Holds, At
<1>4. Holds'
    BY <1>0, <1>1, <1>2, AnswerFields DEF BrowserTypeOK, Holds, At
<1>5. FreshIsLive'
    BY <1>0, <1>1, <1>2, AnswerFields DEF BrowserTypeOK, Holds, FreshIsLive, At
<1>6. RefusedIsDead'
    BY <1>0, <1>1, <1>2, AnswerFields DEF BrowserTypeOK, RefusedIsDead, Holds, At
<1>7. SignedOutIsDead'
    BY <1>0, <1>1, <1>2, AnswerFields DEF BrowserTypeOK, Holds, SignedOutIsDead, RefusedIsDead, AnswersFit, At
<1>8. AnswersFit'
    BY <1>0, <1>1, <1>2, AnswerFields DEF AnswersFit, RefusedIsDead, At
<1>9. NoDeadCookie'
    BY <1>0, <1>1, <1>2, AnswerFields DEF BrowserTypeOK, Holds, FreshIsLive, NoDeadCookie, Tells, At, RefusedIsDead
<1>10. QED
    BY <1>3, <1>4, <1>5, <1>6, <1>7, <1>8, <1>9 DEF IInv

LEMMA RefusedStep ==
  ASSUME IInv, NEW c \in Fetches, Refused(c)
  PROVE  IInv'
<1> USE BrowserAssumption
<1>0. BrowserTypeOK /\ Holds /\ FreshIsLive /\ RefusedIsDead /\ SignedOutIsDead /\ AnswersFit /\ NoDeadCookie
    BY DEF IInv
<1>1. At(c, "first") /\ Goto(c, "consume") /\ UNCHANGED <<jar, row, over, denied, signedOut, late, orphaned>>
    BY DEF Refused
<1>2. BrowserTypeOK'
    BY <1>0, <1>1, GotoFields DEF BrowserTypeOK, FetchRecord, Holds, At
<1>3. Holds'
    BY <1>0, <1>1, GotoFields DEF BrowserTypeOK, Holds, At
<1>4. FreshIsLive'
    BY <1>0, <1>1, GotoFields DEF BrowserTypeOK, Holds, FreshIsLive, At
<1>5. RefusedIsDead'
    BY <1>0, <1>1, GotoFields DEF BrowserTypeOK, RefusedIsDead, Holds, At
<1>6. SignedOutIsDead'
    BY <1>0, <1>1, GotoFields DEF BrowserTypeOK, Holds, SignedOutIsDead, RefusedIsDead, AnswersFit, At
<1>7. AnswersFit'
    BY <1>0, <1>1, GotoFields DEF AnswersFit, RefusedIsDead, At
<1>8. NoDeadCookie'
    BY <1>0, <1>1, GotoFields DEF BrowserTypeOK, Holds, FreshIsLive, NoDeadCookie, Tells, At, RefusedIsDead
<1>9. QED
    BY <1>2, <1>3, <1>4, <1>5, <1>6, <1>7, <1>8 DEF IInv

LEMMA ConsumeStep ==
  ASSUME IInv, NEW c \in Fetches, Consume(c)
  PROVE  IInv'
<1> USE BrowserAssumption
<1>0. BrowserTypeOK /\ Holds /\ FreshIsLive /\ RefusedIsDead /\ SignedOutIsDead /\ AnswersFit /\ NoDeadCookie
    BY DEF IInv
<1>1. /\ fetch[c].held \in Sessions /\ At(c, "consume") /\ "refused" \in Answers
      /\ UNCHANGED <<jar, over, denied, signedOut, late, orphaned>>
    BY <1>0 DEF BrowserTypeOK, Consume, At, Answers
<1>2. CASE row[fetch[c].held] = "live"
  <2>1. Goto(c, "issue") /\ row' = [row EXCEPT ![fetch[c].held] = "revoked"]
    BY <1>2 DEF Consume
<2>2. BrowserTypeOK'
    BY <1>0, <1>1, <1>2, <2>1, GotoFields DEF BrowserTypeOK, FetchRecord, Holds, At
<2>3. Holds'
    BY <1>0, <1>1, <1>2, <2>1, GotoFields DEF BrowserTypeOK, Holds, At
<2>4. FreshIsLive'
    BY <1>0, <1>1, <1>2, <2>1, GotoFields DEF BrowserTypeOK, Holds, FreshIsLive, At
<2>5. RefusedIsDead'
    BY <1>0, <1>1, <1>2, <2>1, GotoFields DEF BrowserTypeOK, RefusedIsDead, Holds, At
<2>6. SignedOutIsDead'
    BY <1>0, <1>1, <1>2, <2>1, GotoFields DEF BrowserTypeOK, Holds, SignedOutIsDead, RefusedIsDead, AnswersFit, At
<2>7. AnswersFit'
    BY <1>0, <1>1, <1>2, <2>1, GotoFields DEF AnswersFit, RefusedIsDead, At
<2>8. NoDeadCookie'
    BY <1>0, <1>1, <1>2, <2>1, GotoFields DEF BrowserTypeOK, Holds, FreshIsLive, NoDeadCookie, Tells, At, RefusedIsDead
<2>9. QED
    BY <2>2, <2>3, <2>4, <2>5, <2>6, <2>7, <2>8 DEF IInv
<1>3. CASE row[fetch[c].held] # "live"
  <2>1. Answer(c, "refused") /\ row' = row
    BY <1>3 DEF Consume
<2>2. BrowserTypeOK'
    BY <1>0, <1>1, <1>3, <2>1, AnswerFields DEF BrowserTypeOK, FetchRecord, Holds, At
<2>3. Holds'
    BY <1>0, <1>1, <1>3, <2>1, AnswerFields DEF BrowserTypeOK, Holds, At
<2>4. FreshIsLive'
    BY <1>0, <1>1, <1>3, <2>1, AnswerFields DEF BrowserTypeOK, Holds, FreshIsLive, At
<2>5. RefusedIsDead'
    BY <1>0, <1>1, <1>3, <2>1, AnswerFields DEF BrowserTypeOK, RefusedIsDead, Holds, At
<2>6. SignedOutIsDead'
    BY <1>0, <1>1, <1>3, <2>1, AnswerFields DEF BrowserTypeOK, Holds, SignedOutIsDead, RefusedIsDead, AnswersFit, At
<2>7. AnswersFit'
    BY <1>0, <1>1, <1>3, <2>1, AnswerFields DEF AnswersFit, RefusedIsDead, At
<2>8. NoDeadCookie'
    BY <1>0, <1>1, <1>3, <2>1, AnswerFields DEF BrowserTypeOK, Holds, FreshIsLive, NoDeadCookie, Tells, At, RefusedIsDead
<2>9. QED
    BY <2>2, <2>3, <2>4, <2>5, <2>6, <2>7, <2>8 DEF IInv
<1>4. QED
    BY <1>2, <1>3

LEMMA IssueStep ==
  ASSUME IInv, NEW c \in Fetches, NEW n \in Sessions, Issue(c, n)
  PROVE  IInv'
<1> USE BrowserAssumption
<1>0. BrowserTypeOK /\ Holds /\ FreshIsLive /\ RefusedIsDead /\ SignedOutIsDead /\ AnswersFit /\ NoDeadCookie
    BY DEF IInv
<1>1. /\ fetch' \in [Fetches -> FetchRecord] /\ At(c, "issue")
      /\ fetch'[c].pc = "refreshed" /\ fetch'[c].new = n
      /\ fetch'[c].op = fetch[c].op /\ fetch'[c].held = fetch[c].held
      /\ fetch'[c].answer = fetch[c].answer
      /\ \A d \in Fetches : d # c => fetch'[d] = fetch[d]
    BY <1>0 DEF BrowserTypeOK, Issue, FetchRecord
<1>2. /\ row[n] = "absent" /\ row' = [row EXCEPT ![n] = "live"]
      /\ UNCHANGED <<jar, over, denied, signedOut, late, orphaned>>
    BY DEF Issue
<1>3. BrowserTypeOK'
    BY <1>0, <1>1, <1>2 DEF BrowserTypeOK, FetchRecord, Holds, At
<1>4. Holds'
    BY <1>0, <1>1, <1>2 DEF BrowserTypeOK, Holds, At
<1>5. FreshIsLive'
    BY <1>0, <1>1, <1>2 DEF BrowserTypeOK, Holds, FreshIsLive, At
<1>6. RefusedIsDead'
    BY <1>0, <1>1, <1>2 DEF BrowserTypeOK, RefusedIsDead, Holds, At
<1>7. SignedOutIsDead'
    BY <1>0, <1>1, <1>2 DEF BrowserTypeOK, Holds, SignedOutIsDead, RefusedIsDead, AnswersFit, At
<1>8. AnswersFit'
    BY <1>0, <1>1, <1>2 DEF AnswersFit, RefusedIsDead, At
<1>9. NoDeadCookie'
    BY <1>0, <1>1, <1>2 DEF BrowserTypeOK, Holds, FreshIsLive, NoDeadCookie, Tells, At, RefusedIsDead
<1>10. QED
    BY <1>3, <1>4, <1>5, <1>6, <1>7, <1>8, <1>9 DEF IInv

LEMMA ApiRefusesStep ==
  ASSUME IInv, NEW c \in Fetches, ApiRefuses(c)
  PROVE  IInv'
<1> USE BrowserAssumption
<1>0. BrowserTypeOK /\ Holds /\ FreshIsLive /\ RefusedIsDead /\ SignedOutIsDead /\ AnswersFit /\ NoDeadCookie
    BY DEF IInv
<1>1. PICK answer \in Answers : /\ Answer(c, answer)
                                /\ answer = IF fetch[c].op = "login" THEN "keep" ELSE "failed"
    BY DEF ApiRefuses, Answers
<1>2. fetch[c].pc \in {"consume", "issue"} /\ UNCHANGED <<jar, row, over, denied, signedOut, late, orphaned>>
    BY DEF ApiRefuses
<1>3. BrowserTypeOK'
    BY <1>0, <1>1, <1>2, AnswerFields DEF BrowserTypeOK, FetchRecord, Holds
<1>4. Holds'
    BY <1>0, <1>1, <1>2, AnswerFields DEF BrowserTypeOK, Holds
<1>5. FreshIsLive'
    BY <1>0, <1>1, <1>2, AnswerFields DEF BrowserTypeOK, Holds, FreshIsLive
<1>6. RefusedIsDead'
    BY <1>0, <1>1, <1>2, AnswerFields DEF BrowserTypeOK, RefusedIsDead, Holds
<1>7. SignedOutIsDead'
    BY <1>0, <1>1, <1>2, AnswerFields DEF BrowserTypeOK, Holds, SignedOutIsDead, RefusedIsDead, AnswersFit
<1>8. AnswersFit'
    BY <1>0, <1>1, <1>2, AnswerFields DEF AnswersFit, RefusedIsDead
<1>9. NoDeadCookie'
    BY <1>0, <1>1, <1>2, AnswerFields DEF BrowserTypeOK, Holds, FreshIsLive, NoDeadCookie, Tells, At, RefusedIsDead
<1>10. QED
    BY <1>3, <1>4, <1>5, <1>6, <1>7, <1>8, <1>9 DEF IInv

LEMMA WriteSessionStep ==
  ASSUME IInv, NEW c \in Fetches, WriteSession(c)
  PROVE  IInv'
<1> USE BrowserAssumption
<1>0. BrowserTypeOK /\ Holds /\ FreshIsLive /\ RefusedIsDead /\ SignedOutIsDead /\ AnswersFit /\ NoDeadCookie
    BY DEF IInv
<1>1. At(c, "refreshed") /\ Answer(c, "set") /\ UNCHANGED <<jar, row, over, denied, signedOut, late, orphaned>>
    BY DEF WriteSession
<1>2. "set" \in Answers
    BY DEF Answers
<1>3. BrowserTypeOK'
    BY <1>0, <1>1, <1>2, AnswerFields DEF BrowserTypeOK, FetchRecord, Holds, At
<1>4. Holds'
    BY <1>0, <1>1, <1>2, AnswerFields DEF BrowserTypeOK, Holds, At
<1>5. FreshIsLive'
    BY <1>0, <1>1, <1>2, AnswerFields DEF BrowserTypeOK, Holds, FreshIsLive, At
<1>6. RefusedIsDead'
    BY <1>0, <1>1, <1>2, AnswerFields DEF BrowserTypeOK, RefusedIsDead, Holds, At
<1>7. SignedOutIsDead'
    BY <1>0, <1>1, <1>2, AnswerFields DEF BrowserTypeOK, Holds, SignedOutIsDead, RefusedIsDead, AnswersFit, At
<1>8. AnswersFit'
    BY <1>0, <1>1, <1>2, AnswerFields DEF AnswersFit, RefusedIsDead, At
<1>9. NoDeadCookie'
    BY <1>0, <1>1, <1>2, AnswerFields DEF BrowserTypeOK, Holds, FreshIsLive, NoDeadCookie, Tells, At, RefusedIsDead
<1>10. QED
    BY <1>3, <1>4, <1>5, <1>6, <1>7, <1>8, <1>9 DEF IInv

LEMMA FetchThrowsStep ==
  ASSUME IInv, NEW c \in Fetches, FetchThrows(c)
  PROVE  IInv'
<1> USE BrowserAssumption
<1>0. BrowserTypeOK /\ Holds /\ FreshIsLive /\ RefusedIsDead /\ SignedOutIsDead /\ AnswersFit /\ NoDeadCookie
    BY DEF IInv
<1>1. /\ fetch[c].pc \in {"first", "consume", "issue", "refreshed"}
      /\ Answer(c, "keep") /\ UNCHANGED <<jar, row, over, denied, signedOut, late>>
      /\ orphaned' = IF HasConsumed(c) THEN orphaned \cup {fetch[c].held} ELSE orphaned
    BY DEF FetchThrows
<1>2. "keep" \in Answers
    BY DEF Answers
<1>3. BrowserTypeOK'
    BY <1>0, <1>1, <1>2, AnswerFields DEF BrowserTypeOK, FetchRecord, Holds, HasConsumed
<1>4. Holds'
    BY <1>0, <1>1, <1>2, AnswerFields DEF BrowserTypeOK, Holds, HasConsumed
<1>5. FreshIsLive'
    BY <1>0, <1>1, <1>2, AnswerFields DEF BrowserTypeOK, Holds, FreshIsLive, HasConsumed
<1>6. RefusedIsDead'
    BY <1>0, <1>1, <1>2, AnswerFields DEF BrowserTypeOK, RefusedIsDead, Holds, HasConsumed
<1>7. SignedOutIsDead'
    BY <1>0, <1>1, <1>2, AnswerFields DEF BrowserTypeOK, Holds, SignedOutIsDead, RefusedIsDead, AnswersFit, HasConsumed
<1>8. AnswersFit'
    BY <1>0, <1>1, <1>2, AnswerFields DEF AnswersFit, RefusedIsDead, HasConsumed
<1>9. NoDeadCookie'
    BY <1>0, <1>1, <1>2, AnswerFields DEF BrowserTypeOK, Holds, FreshIsLive, NoDeadCookie, Tells, At, RefusedIsDead, HasConsumed
<1>10. QED
    BY <1>3, <1>4, <1>5, <1>6, <1>7, <1>8, <1>9 DEF IInv

LEMMA LogoutStep ==
  ASSUME IInv, NEW c \in Fetches, Logout(c)
  PROVE  IInv'
<1> USE BrowserAssumption
<1>0. BrowserTypeOK /\ Holds /\ FreshIsLive /\ RefusedIsDead /\ SignedOutIsDead /\ AnswersFit /\ NoDeadCookie
    BY DEF IInv
<1>1. /\ fetch[c].held \in Sessions /\ At(c, "revoke") /\ Answer(c, "signOut") /\ "signOut" \in Answers
      /\ row' = [row EXCEPT ![fetch[c].held] = "revoked"]
      /\ signedOut' = signedOut \cup {fetch[c].held}
      /\ late' = late \cup {d \in Fetches : HasConsumed(d) /\ fetch[d].held = fetch[c].held}
      /\ denied' = denied \cup ({fetch[c].held} \ over)
      /\ UNCHANGED <<jar, over, orphaned>>
    BY <1>0 DEF BrowserTypeOK, Logout, At, Answers
<1>2. BrowserTypeOK'
    BY <1>0, <1>1, AnswerFields DEF BrowserTypeOK, FetchRecord, Holds, At, HasConsumed
<1>3. Holds'
    BY <1>0, <1>1, AnswerFields DEF BrowserTypeOK, Holds, At, HasConsumed
<1>4. FreshIsLive'
    BY <1>0, <1>1, AnswerFields DEF BrowserTypeOK, Holds, FreshIsLive, At, HasConsumed
<1>5. RefusedIsDead'
    BY <1>0, <1>1, AnswerFields DEF BrowserTypeOK, RefusedIsDead, Holds, At, HasConsumed
<1>6. SignedOutIsDead'
    BY <1>0, <1>1, AnswerFields DEF BrowserTypeOK, Holds, SignedOutIsDead, RefusedIsDead, AnswersFit, At, HasConsumed
<1>7. AnswersFit'
    BY <1>0, <1>1, AnswerFields DEF AnswersFit, RefusedIsDead, At, HasConsumed
<1>8. NoDeadCookie'
    BY <1>0, <1>1, AnswerFields DEF BrowserTypeOK, Holds, FreshIsLive, NoDeadCookie, Tells, At, RefusedIsDead, HasConsumed
<1>9. QED
    BY <1>2, <1>3, <1>4, <1>5, <1>6, <1>7, <1>8 DEF IInv

LEMMA LogoutThrowsStep ==
  ASSUME IInv, NEW c \in Fetches, LogoutThrows(c)
  PROVE  IInv'
<1> USE BrowserAssumption
<1>0. BrowserTypeOK /\ Holds /\ FreshIsLive /\ RefusedIsDead /\ SignedOutIsDead /\ AnswersFit /\ NoDeadCookie
    BY DEF IInv
<1>1. At(c, "revoke") /\ Answer(c, "signOut") /\ UNCHANGED <<jar, row, over, denied, signedOut, late, orphaned>>
    BY DEF LogoutThrows
<1>2. "signOut" \in Answers
    BY DEF Answers
<1>3. BrowserTypeOK'
    BY <1>0, <1>1, <1>2, AnswerFields DEF BrowserTypeOK, FetchRecord, Holds, At
<1>4. Holds'
    BY <1>0, <1>1, <1>2, AnswerFields DEF BrowserTypeOK, Holds, At
<1>5. FreshIsLive'
    BY <1>0, <1>1, <1>2, AnswerFields DEF BrowserTypeOK, Holds, FreshIsLive, At
<1>6. RefusedIsDead'
    BY <1>0, <1>1, <1>2, AnswerFields DEF BrowserTypeOK, RefusedIsDead, Holds, At
<1>7. SignedOutIsDead'
    BY <1>0, <1>1, <1>2, AnswerFields DEF BrowserTypeOK, Holds, SignedOutIsDead, RefusedIsDead, AnswersFit, At
<1>8. AnswersFit'
    BY <1>0, <1>1, <1>2, AnswerFields DEF AnswersFit, RefusedIsDead, At
<1>9. NoDeadCookie'
    BY <1>0, <1>1, <1>2, AnswerFields DEF BrowserTypeOK, Holds, FreshIsLive, NoDeadCookie, Tells, At, RefusedIsDead
<1>10. QED
    BY <1>3, <1>4, <1>5, <1>6, <1>7, <1>8, <1>9 DEF IInv

LEMMA ArriveStep ==
  ASSUME IInv, NEW c \in Fetches, Arrive(c)
  PROVE  IInv'
<1> USE BrowserAssumption
<1>0. BrowserTypeOK /\ Holds /\ FreshIsLive /\ RefusedIsDead /\ SignedOutIsDead /\ AnswersFit /\ NoDeadCookie
    BY DEF IInv
<1>1. /\ At(c, "answer") /\ UNCHANGED <<row, over, denied, signedOut, orphaned>>
      /\ late' = late \ {c}
      /\ fetch[c].answer = "keep" => jar' = jar
      /\ fetch[c].answer = "set" => jar' = fetch[c].new
      /\ fetch[c].answer \notin {"keep", "set"} => jar' = NoSession
    BY DEF Arrive
<1>2. fetch' = [fetch EXCEPT ![c] = Idle]
    BY DEF Arrive
<1>3. /\ fetch' \in [Fetches -> FetchRecord]
      /\ fetch'[c].pc = "idle" /\ fetch'[c].answer = "keep" /\ fetch'[c].op = "none"
      /\ fetch'[c].held = NoSession /\ fetch'[c].new = NoSession
      /\ \A d \in Fetches : d # c => fetch'[d] = fetch[d]
    BY <1>0, <1>2, IdleFields
<1>4. BrowserTypeOK'
    BY <1>0, <1>1, <1>3 DEF BrowserTypeOK, FetchRecord, Holds, At
<1>5. Holds'
    BY <1>0, <1>1, <1>3 DEF BrowserTypeOK, Holds, At
<1>6. FreshIsLive'
    BY <1>0, <1>1, <1>3 DEF BrowserTypeOK, Holds, FreshIsLive, At
<1>7. RefusedIsDead'
    BY <1>0, <1>1, <1>3 DEF BrowserTypeOK, RefusedIsDead, Holds, At
<1>8. SignedOutIsDead'
    BY <1>0, <1>1, <1>3 DEF BrowserTypeOK, Holds, SignedOutIsDead, RefusedIsDead, AnswersFit, At
<1>9. AnswersFit'
    BY <1>0, <1>1, <1>3 DEF AnswersFit, RefusedIsDead, At
<1>10. NoDeadCookie'
    BY <1>0, <1>1, <1>3 DEF BrowserTypeOK, Holds, FreshIsLive, NoDeadCookie, Tells, At, RefusedIsDead
<1>11. QED
    BY <1>4, <1>5, <1>6, <1>7, <1>8, <1>9, <1>10 DEF IInv

LEMMA LoseStep ==
  ASSUME IInv, NEW c \in Fetches, Lose(c)
  PROVE  IInv'
<1> USE BrowserAssumption
<1>0. BrowserTypeOK /\ Holds /\ FreshIsLive /\ RefusedIsDead /\ SignedOutIsDead /\ AnswersFit /\ NoDeadCookie
    BY DEF IInv
<1>1. /\ At(c, "answer") /\ UNCHANGED <<jar, row, over, denied, signedOut>>
      /\ late' = late \ {c}
      /\ orphaned' = orphaned \cup {s \in Sessions : s = fetch[c].held /\ row[s] = "revoked"}
    BY DEF Lose
<1>2. fetch' = [fetch EXCEPT ![c] = Idle]
    BY DEF Lose
<1>3. /\ fetch' \in [Fetches -> FetchRecord]
      /\ fetch'[c].pc = "idle" /\ fetch'[c].answer = "keep" /\ fetch'[c].op = "none"
      /\ fetch'[c].held = NoSession /\ fetch'[c].new = NoSession
      /\ \A d \in Fetches : d # c => fetch'[d] = fetch[d]
    BY <1>0, <1>2, IdleFields
<1>4. BrowserTypeOK'
    BY <1>0, <1>1, <1>3 DEF BrowserTypeOK, FetchRecord, Holds, At
<1>5. Holds'
    BY <1>0, <1>1, <1>3 DEF BrowserTypeOK, Holds, At
<1>6. FreshIsLive'
    BY <1>0, <1>1, <1>3 DEF BrowserTypeOK, Holds, FreshIsLive, At
<1>7. RefusedIsDead'
    BY <1>0, <1>1, <1>3 DEF BrowserTypeOK, RefusedIsDead, Holds, At
<1>8. SignedOutIsDead'
    BY <1>0, <1>1, <1>3 DEF BrowserTypeOK, Holds, SignedOutIsDead, RefusedIsDead, AnswersFit, At
<1>9. AnswersFit'
    BY <1>0, <1>1, <1>3 DEF AnswersFit, RefusedIsDead, At
<1>10. NoDeadCookie'
    BY <1>0, <1>1, <1>3 DEF BrowserTypeOK, Holds, FreshIsLive, NoDeadCookie, Tells, At, RefusedIsDead
<1>11. QED
    BY <1>4, <1>5, <1>6, <1>7, <1>8, <1>9, <1>10 DEF IInv

LEMMA ApiStep ==
  ASSUME IInv, NEW s \in Sessions, AccessExpires(s) \/ ApiRestarts
  PROVE  IInv'
<1> USE BrowserAssumption
<1>0. BrowserTypeOK /\ Holds /\ FreshIsLive /\ RefusedIsDead /\ SignedOutIsDead /\ AnswersFit /\ NoDeadCookie
    BY DEF IInv
<1>1. /\ UNCHANGED <<jar, row, fetch, signedOut, late, orphaned>>
      /\ over' \subseteq Sessions /\ denied' \subseteq Sessions
    BY <1>0 DEF AccessExpires, ApiRestarts, BrowserTypeOK
<1>2. BrowserTypeOK'
    BY <1>0, <1>1 DEF BrowserTypeOK, FetchRecord, Holds
<1>3. Holds'
    BY <1>0, <1>1 DEF BrowserTypeOK, Holds
<1>4. FreshIsLive'
    BY <1>0, <1>1 DEF BrowserTypeOK, Holds, FreshIsLive
<1>5. RefusedIsDead'
    BY <1>0, <1>1 DEF BrowserTypeOK, RefusedIsDead, Holds
<1>6. SignedOutIsDead'
    BY <1>0, <1>1 DEF BrowserTypeOK, Holds, SignedOutIsDead, RefusedIsDead, AnswersFit
<1>7. AnswersFit'
    BY <1>0, <1>1 DEF AnswersFit, RefusedIsDead
<1>8. NoDeadCookie'
    BY <1>0, <1>1 DEF BrowserTypeOK, Holds, FreshIsLive, NoDeadCookie, Tells, At, RefusedIsDead
<1>9. QED
    BY <1>2, <1>3, <1>4, <1>5, <1>6, <1>7, <1>8 DEF IInv

LEMMA RevokedElsewhereStep ==
  ASSUME IInv, NEW s \in Sessions, RevokedElsewhere(s)
  PROVE  IInv'
<1> USE BrowserAssumption
<1>0. BrowserTypeOK /\ Holds /\ FreshIsLive /\ RefusedIsDead /\ SignedOutIsDead /\ AnswersFit /\ NoDeadCookie
    BY DEF IInv
<1>1. /\ row[s] = "live" /\ row' = [row EXCEPT ![s] = "revoked"]
      /\ orphaned' = orphaned \cup {s}
      /\ UNCHANGED <<jar, over, denied, fetch, signedOut, late>>
    BY DEF RevokedElsewhere
<1>2. BrowserTypeOK'
    BY <1>0, <1>1 DEF BrowserTypeOK, FetchRecord, Holds
<1>3. Holds'
    BY <1>0, <1>1 DEF BrowserTypeOK, Holds
<1>4. FreshIsLive'
    BY <1>0, <1>1 DEF BrowserTypeOK, Holds, FreshIsLive
<1>5. RefusedIsDead'
    BY <1>0, <1>1 DEF BrowserTypeOK, RefusedIsDead, Holds
<1>6. SignedOutIsDead'
    BY <1>0, <1>1 DEF BrowserTypeOK, Holds, SignedOutIsDead, RefusedIsDead, AnswersFit
<1>7. AnswersFit'
    BY <1>0, <1>1 DEF AnswersFit, RefusedIsDead
<1>8. NoDeadCookie'
    BY <1>0, <1>1 DEF BrowserTypeOK, Holds, FreshIsLive, NoDeadCookie, Tells, At, RefusedIsDead
<1>9. QED
    BY <1>2, <1>3, <1>4, <1>5, <1>6, <1>7, <1>8 DEF IInv

LEMMA StepIInv == IInv /\ [BrowserNext]_browserVars => IInv'
<1> SUFFICES ASSUME IInv, [BrowserNext]_browserVars PROVE IInv'
    OBVIOUS
<1>1. ASSUME NEW c \in Fetches, NEW op \in Ops, Send(c, op) PROVE IInv'
    BY <1>1, SendStep
<1>2. ASSUME NEW c \in Fetches, Accepted(c) \/ Refused(c) \/ Consume(c) PROVE IInv'
    BY <1>2, AcceptedStep, RefusedStep, ConsumeStep
<1>3. ASSUME NEW c \in Fetches, NEW n \in Sessions, Issue(c, n) PROVE IInv'
    BY <1>3, IssueStep
<1>4. ASSUME NEW c \in Fetches, ApiRefuses(c) \/ WriteSession(c) \/ FetchThrows(c) PROVE IInv'
    BY <1>4, ApiRefusesStep, WriteSessionStep, FetchThrowsStep
<1>5. ASSUME NEW c \in Fetches, Logout(c) \/ LogoutThrows(c) PROVE IInv'
    BY <1>5, LogoutStep, LogoutThrowsStep
<1>6. ASSUME NEW c \in Fetches, Arrive(c) \/ Lose(c) PROVE IInv'
    BY <1>6, ArriveStep, LoseStep
<1>7. ASSUME NEW s \in Sessions, AccessExpires(s) \/ RevokedElsewhere(s) PROVE IInv'
    BY <1>7, ApiStep, RevokedElsewhereStep
<1>8. CASE ApiRestarts
  <2>1. CASE Sessions = {}
    BY <1>8, <2>1 DEF ApiRestarts, IInv, BrowserTypeOK
  <2>2. CASE Sessions # {}
    BY <1>8, <2>2, ApiStep
  <2>3. QED
    BY <2>1, <2>2
<1>9. CASE UNCHANGED browserVars
    BY <1>9 DEF browserVars, IInv, BrowserTypeOK, Holds, FreshIsLive, RefusedIsDead, SignedOutIsDead, AnswersFit,
                NoDeadCookie, Tells, At
<1>10. QED
    BY <1>1, <1>2, <1>3, <1>4, <1>5, <1>6, <1>7, <1>8, <1>9 DEF BrowserNext

LEMMA Invariance == BrowserSpec => []IInv
<1>1. BrowserInit => IInv
    BY InitIInv
<1>2. IInv /\ [BrowserNext]_browserVars => IInv'
    BY StepIInv
<1>3. QED
    BY <1>1, <1>2, PTL DEF BrowserSpec
-----------------------------------------------------------------------------
\* Sessions, cookies and requests have their types, and a request without a
\* session never gets to the API as one that has a session (readSessionFromRequest).
THEOREM SessionsTyped == BrowserSpec => []BrowserTypeOK
<1>1. IInv => BrowserTypeOK
    BY DEF IInv
<1>2. QED
    BY <1>1, Invariance, PTL

\* A session that is over stays in the cookie only as long as the answer that
\* says so is on its way, or because it was lost (proxyWithSession, refresh).
THEOREM NoDeadSessionInCookie == BrowserSpec => []NoDeadCookie
<1>1. IInv => NoDeadCookie
    BY DEF IInv
<1>2. QED
    BY <1>1, Invariance, PTL

\* Signing out is not undone by a refresh that comes after it (logout, consume).
THEOREM SignOutIsNotUndone == BrowserSpec => SignOutLasts
<1>1. IInv /\ [BrowserNext]_browserVars =>
        [\A c \in Fetches :
           At(c, "answer") /\ fetch[c].answer = "set" /\ fetch'[c].pc = "idle" /\ jar' = fetch[c].new
             => fetch[c].held \notin signedOut \/ c \in late]_browserVars
    BY DEF IInv, SignedOutIsDead
<1>2. QED
    BY <1>1, Invariance, PTL DEF BrowserSpec, SignOutLasts

\* A call that clears a live session, and not because the user signs out or the
\* API failed, was sent with an older cookie (refreshSession).
LEMMA ArriveClears ==
  ASSUME IInv, NEW c \in Fetches, Arrive(c), jar # NoSession, row[jar] = "live", jar' = NoSession
  PROVE  /\ At(c, "answer") /\ fetch'[c].pc = "idle"
         /\ fetch[c].answer \in {"signOut", "failed"} \/ fetch[c].held # jar
<1>1. /\ BrowserTypeOK /\ RefusedIsDead
    BY DEF IInv
<1>2. At(c, "answer") /\ fetch' = [fetch EXCEPT ![c] = Idle]
    BY DEF Arrive
<1>3. fetch'[c].pc = "idle"
    BY <1>1, <1>2, IdleFields
<1>4. fetch[c].answer \in Answers
    BY <1>1 DEF BrowserTypeOK, FetchRecord
<1>5. fetch[c].answer # "keep"
    BY DEF Arrive
<1>6. fetch[c].answer # "set"
    BY <1>1, BrowserAssumption DEF Arrive, BrowserTypeOK
<1>7. fetch[c].answer = "refused" => fetch[c].held # jar
    BY <1>1 DEF RefusedIsDead
<1>8. QED
    BY <1>2, <1>3, <1>4, <1>5, <1>6, <1>7 DEF Answers

\* A live session is cleared only by signing out, by a failure of the API, or by
\* a request that carried another cookie (clearSessionCookie).
THEOREM LiveSessionStays == BrowserSpec => LiveIsClearedOnlyIfOvertaken
<1> DEFINE Clears == jar # NoSession /\ row[jar] = "live" /\ jar' = NoSession
           Excused == \E c \in Fetches :
                        /\ At(c, "answer") /\ fetch'[c].pc = "idle"
                        /\ fetch[c].answer \in {"signOut", "failed"} \/ fetch[c].held # jar
<1>1. ASSUME IInv, BrowserNext, Clears PROVE Excused
  <2>1. PICK c \in Fetches : Arrive(c)
    BY <1>1 DEF BrowserNext, Send, Accepted, Refused, Consume, Issue, ApiRefuses, WriteSession, FetchThrows,
                Logout, LogoutThrows, Lose, AccessExpires, RevokedElsewhere, ApiRestarts
  <2>2. QED
    BY <1>1, <2>1, ArriveClears
<1>2. IInv /\ [BrowserNext]_browserVars => [Clears => Excused]_browserVars
    BY <1>1
<1>3. QED
    BY <1>2, Invariance, PTL DEF BrowserSpec, LiveIsClearedOnlyIfOvertaken
=============================================================================
