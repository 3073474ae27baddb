----------------------------- MODULE BrowserSession -----------------------------
(***************************************************************************)
(* The session cookie of one browser, which the web server (the BFF) keeps *)
(* for it, against the refresh tokens at the API.  A request carries the   *)
(* cookie as it was when the request was sent; where the API refuses the   *)
(* access token, the BFF rotates the refresh token and tries again; the    *)
(* answer may replace or clear the cookie.  Tabs send requests at once,    *)
(* and answers arrive in any order.                                        *)
(*                                                                         *)
(* A session is the pair of tokens of one login or rotation.  Passwords    *)
(* and challenges are in Account; the API's tests of the user are a        *)
(* failure that may always happen.                                         *)
(***************************************************************************)
CONSTANTS Sessions,  \* identities of refresh_tokens rows
          Fetches,   \* requests of the browser in flight at once
          NoSession  \* no cookie

ASSUME BrowserAssumption == NoSession \notin Sessions

VARIABLES jar,        \* the session in the cookie
          row,        \* row[s]: the refresh token at the API
          over,       \* sessions whose access token has expired
          denied,     \* sessions whose access token this API process refuses
          fetch,      \* fetch[c]: a request
          signedOut,  \* sessions that logout has had (read by the properties only)
          late,       \* fetches that used a session before it was signed out (likewise)
          orphaned    \* dead sessions of which no answer told (likewise)

browserVars == <<jar, row, over, denied, fetch, signedOut, late, orphaned>>

Ops == {"login", "logout", "refresh", "proxy"}

\* What the answer does to the cookie: nothing; the new session; or it is
\* cleared, as the token was refused, the refresh failed, or the user signs out.
Answers == {"keep", "set", "refused", "failed", "signOut"}

\* held: the session that was sent along; new: the one the API has issued.
FetchRecord ==
  [pc: {"idle", "first", "revoke", "consume", "issue", "refreshed", "answer"},
   op: Ops \cup {"none"}, held: Sessions \cup {NoSession}, new: Sessions \cup {NoSession},
   answer: Answers]

Idle == [pc |-> "idle", op |-> "none", held |-> NoSession, new |-> NoSession, answer |-> "keep"]

\* Among the types: only a login goes without a session, and what is set exists.
BrowserTypeOK ==
  /\ jar \in {s \in Sessions : row[s] # "absent"} \cup {NoSession}
  /\ row \in [Sessions -> {"absent", "live", "revoked"}]
  /\ over \subseteq Sessions /\ denied \subseteq Sessions
  /\ fetch \in [Fetches -> FetchRecord]
  /\ signedOut \subseteq Sessions /\ orphaned \subseteq Sessions /\ late \subseteq Fetches
  /\ \A c \in Fetches :
       /\ fetch[c].pc \in {"first", "revoke", "consume"} => fetch[c].held \in Sessions
       /\ fetch[c].pc = "refreshed" \/ fetch[c].answer = "set" => fetch[c].new \in Sessions

BrowserInit ==
  /\ jar = NoSession
  /\ row = [s \in Sessions |-> "absent"]
  /\ over = {} /\ denied = {} /\ signedOut = {} /\ late = {} /\ orphaned = {}
  /\ fetch = [c \in Fetches |-> Idle]

At(c, pc) == fetch[c].pc = pc

Goto(c, pc) == fetch' = [fetch EXCEPT ![c].pc = pc]

Answer(c, answer) == fetch' = [fetch EXCEPT ![c].pc = "answer", ![c].answer = answer]

\* The fetch has consumed the token of the session it holds.
HasConsumed(c) ==
  fetch[c].op \in {"refresh", "proxy"} /\ fetch[c].pc \in {"issue", "refreshed", "answer"}
-----------------------------------------------------------------------------
\* readSessionFromRequest: without a session, logout only clears the cookie, and
\* the rest is unauthorized.
Send(c, op) ==
  /\ At(c, "idle")
  /\ op \in Ops
  /\ fetch' = [fetch EXCEPT ![c] =
       [Idle EXCEPT !.op = op, !.held = IF op = "login" THEN NoSession ELSE jar,
         !.pc = CASE op = "login" -> "issue"
                  [] jar = NoSession /\ op # "login" -> "answer"
                  [] jar # NoSession /\ op = "logout" -> "revoke"
                  [] jar # NoSession /\ op = "refresh" -> "consume"
                  [] jar # NoSession /\ op = "proxy" -> "first",
         !.answer = IF jar = NoSession /\ op = "logout" THEN "signOut" ELSE "keep"]]
  /\ UNCHANGED <<jar, row, over, denied, signedOut, late, orphaned>>

\* The API does what it was asked; it never does with a token it refuses.
Accepted(c) ==
  /\ At(c, "first")
  /\ fetch[c].held \notin over \cup denied
  /\ Answer(c, "keep")
  /\ UNCHANGED <<jar, row, over, denied, signedOut, late, orphaned>>

\* Bug: a refused request ends the session.
RefusedEnds(c) ==
  /\ At(c, "first")
  /\ Answer(c, "refused")
  /\ UNCHANGED <<jar, row, over, denied, signedOut, late, orphaned>>

\* 401 or 403: the access token is refused, or the user may not do it.
Refused(c) ==
  /\ At(c, "first")
  /\ Goto(c, "consume")
  /\ UNCHANGED <<jar, row, over, denied, signedOut, late, orphaned>>

\* RefreshTokenService.consume, by a conditional update.
Consume(c) ==
  LET s == fetch[c].held
  IN /\ At(c, "consume")
     /\ IF row[s] = "live"
        THEN row' = [row EXCEPT ![s] = "revoked"] /\ Goto(c, "issue")
        ELSE UNCHANGED row /\ Answer(c, "refused")
     /\ UNCHANGED <<jar, over, denied, signedOut, late, orphaned>>

\* createAuthResult, of a login or of a rotation.
Issue(c, n) ==
  /\ At(c, "issue") /\ row[n] = "absent"
  /\ row' = [row EXCEPT ![n] = "live"]
  /\ fetch' = [fetch EXCEPT ![c].pc = "refreshed", ![c].new = n]
  /\ UNCHANGED <<jar, over, denied, signedOut, late, orphaned>>

\* The API answers with an error: too many requests, no database, a disabled
\* user. refreshSession makes no difference between errors; login passes it on.
ApiRefuses(c) ==
  /\ fetch[c].pc \in {"consume", "issue"}
  /\ Answer(c, IF fetch[c].op = "login" THEN "keep" ELSE "failed")
  /\ UNCHANGED <<jar, row, over, denied, signedOut, late, orphaned>>

\* Bug: the new session is written only if the request succeeds this time.
WriteIfOk(c) ==
  /\ At(c, "refreshed")
  /\ \/ Answer(c, "set")
     \/ fetch[c].op = "proxy" /\ Answer(c, "keep")
  /\ UNCHANGED <<jar, row, over, denied, signedOut, late, orphaned>>

\* The request is tried again where there is one, and whatever it is answered
\* goes out with the new session (writeSessionCookie).
WriteSession(c) ==
  /\ At(c, "refreshed")
  /\ Answer(c, "set")
  /\ UNCHANGED <<jar, row, over, denied, signedOut, late, orphaned>>

\* fetch throws: the BFF answers with an error and does not touch the cookie.
FetchThrows(c) ==
  /\ fetch[c].pc \in {"first", "consume", "issue", "refreshed"}
  /\ Answer(c, "keep")
  /\ orphaned' = IF HasConsumed(c) THEN orphaned \cup {fetch[c].held} ELSE orphaned
  /\ UNCHANGED <<jar, row, over, denied, signedOut, late>>

\* Bug: logout ends the access token only.
LogoutAccess(c) ==
  /\ At(c, "revoke")
  /\ denied' = denied \cup ({fetch[c].held} \ over)
  /\ signedOut' = signedOut \cup {fetch[c].held}
  /\ Answer(c, "signOut")
  /\ UNCHANGED <<jar, row, over, late, orphaned>>

\* AuthService.logout: the refresh token in the table, the access token, where it
\* is still good, in the memory of this process.
Logout(c) ==
  LET s == fetch[c].held
  IN /\ At(c, "revoke")
     /\ row' = [row EXCEPT ![s] = "revoked"]
     /\ denied' = denied \cup ({s} \ over)
     /\ signedOut' = signedOut \cup {s}
     /\ late' = late \cup {d \in Fetches : HasConsumed(d) /\ fetch[d].held = s}
     /\ Answer(c, "signOut")
     /\ UNCHANGED <<jar, over, orphaned>>

\* logout catches what fetch throws, and clears the cookie all the same.
LogoutThrows(c) ==
  /\ At(c, "revoke")
  /\ Answer(c, "signOut")
  /\ UNCHANGED <<jar, row, over, denied, signedOut, late, orphaned>>
-----------------------------------------------------------------------------
\* The browser: Set-Cookie takes effect when the answer arrives.
Arrive(c) ==
  /\ At(c, "answer")
  /\ jar' = CASE fetch[c].answer = "keep" -> jar
              [] fetch[c].answer = "set" -> fetch[c].new
              [] fetch[c].answer \notin {"keep", "set"} -> NoSession
  /\ fetch' = [fetch EXCEPT ![c] = Idle]
  /\ late' = late \ {c}
  /\ UNCHANGED <<row, over, denied, signedOut, orphaned>>

\* The page is gone, or the connection: the answer does not arrive.
Lose(c) ==
  /\ At(c, "answer")
  /\ orphaned' = orphaned \cup {s \in Sessions : s = fetch[c].held /\ row[s] = "revoked"}
  /\ fetch' = [fetch EXCEPT ![c] = Idle]
  /\ late' = late \ {c}
  /\ UNCHANGED <<jar, row, over, denied, signedOut>>

AccessExpires(s) ==
  /\ row[s] # "absent" /\ s \notin over
  /\ over' = over \cup {s}
  /\ denied' = denied \ {s}
  /\ UNCHANGED <<jar, row, fetch, signedOut, late, orphaned>>

\* The API process starts again and has forgotten whom it refuses.
ApiRestarts ==
  /\ denied # {} /\ denied' = {}
  /\ UNCHANGED <<jar, row, over, fetch, signedOut, late, orphaned>>

\* revokeAllForUser or revokeForUser, asked by somebody else.
RevokedElsewhere(s) ==
  /\ row[s] = "live"
  /\ row' = [row EXCEPT ![s] = "revoked"]
  /\ orphaned' = orphaned \cup {s}
  /\ UNCHANGED <<jar, over, denied, fetch, signedOut, late>>

BrowserNext ==
  \/ \E c \in Fetches :
       \/ \E op \in Ops : Send(c, op)
       \/ Accepted(c) \/ Refused(c) \/ Consume(c) \/ \E n \in Sessions : Issue(c, n)
       \/ ApiRefuses(c) \/ WriteSession(c) \/ FetchThrows(c)
       \/ Logout(c) \/ LogoutThrows(c) \/ Arrive(c) \/ Lose(c)
  \/ \E s \in Sessions : AccessExpires(s) \/ RevokedElsewhere(s)
  \/ ApiRestarts

BrowserSpec == BrowserInit /\ [][BrowserNext]_browserVars
-----------------------------------------------------------------------------
\* The fetch is going to tell the browser that the session it holds is over, or
\* has a new one for it.
Tells(c) ==
  \/ fetch[c].pc \in {"issue", "refreshed"}
  \/ At(c, "answer") /\ fetch[c].answer # "keep"

\* The cookie holds a session that cannot be renewed only until the answer that
\* says so arrives, unless that answer was lost or the session ended elsewhere:
\* no order of answers puts a used session back (proxyWithSession, refresh).
NoDeadCookie ==
  jar # NoSession /\ row[jar] = "revoked" =>
    jar \in orphaned \/ \E c \in Fetches : fetch[c].held = jar /\ Tells(c)

\* A session that is live is cleared from the browser only by signing out, by a
\* refresh that failed at the API, or by a request that was sent with an older
\* cookie than the one it clears (refreshSession, clearSessionCookie).
LiveIsClearedOnlyIfOvertaken ==
  [][jar # NoSession /\ row[jar] = "live" /\ jar' = NoSession =>
       \E c \in Fetches :
         /\ At(c, "answer") /\ fetch'[c].pc = "idle"
         /\ fetch[c].answer \in {"signOut", "failed"} \/ fetch[c].held # jar]_browserVars

\* Nobody is signed in again with what came out of a session that was signed out,
\* except by a refresh that had used it before logout came (logout, consume).
SignOutLasts ==
  [][\A c \in Fetches :
       At(c, "answer") /\ fetch[c].answer = "set" /\ fetch'[c].pc = "idle" /\ jar' = fetch[c].new
         => fetch[c].held \notin signedOut \/ c \in late]_browserVars
=============================================================================
