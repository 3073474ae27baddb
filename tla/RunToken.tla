------------------------------- MODULE RunToken -------------------------------
(***************************************************************************)
(* The token a worker callback shows to the internal API.  WorkflowQueue-  *)
(* Service issues one per job, for one run; execute puts it into the one   *)
(* InternalApiClient of the worker process and takes it out when the       *)
(* callback ends; every request shows what the client holds at that        *)
(* moment; InternalWorkerGuard compares it with the run of the request.    *)
(* The two queues of the worker share the client.                          *)
(***************************************************************************)
EXTENDS FiniteSets

CONSTANTS Runs,
          Queues,      \* the queues the worker polls, one callback at a time each
          Production,  \* TRUE: the guard refuses the shared secret
          None         \* no run token: the client falls back on the shared secret

ASSUME TokenAssumption ==
  /\ None \notin Runs
  /\ Production \in BOOLEAN

VARIABLES runToken,   \* InternalApiClient.runToken: the run it was issued for
          callback,   \* callback[q]: the run that the callback of q executes
          expired,    \* runs whose tokens are older than six hours
          disturbed,  \* queues whose callback has overlapped with another one
          refused     \* queues whose callback has had a request refused

vars == <<runToken, callback, expired, disturbed, refused>>

Busy == {q \in Queues : callback[q] # None}

\* The client holds a token only while a callback is at work.
TypeOK ==
  /\ runToken \in Runs \cup {None}
  /\ callback \in [Queues -> Runs \cup {None}]
  /\ expired \subseteq Runs
  /\ disturbed \subseteq Queues
  /\ refused \subseteq Queues
  /\ refused \subseteq Busy
  /\ Busy = {} => runToken = None

Init ==
  /\ runToken = None
  /\ callback = [q \in Queues |-> None]
  /\ expired = {} /\ disturbed = {} /\ refused = {}
-----------------------------------------------------------------------------
\* Bug: the token of the job is not put into the client.
ExecuteWithoutToken(q, r) ==
  /\ callback[q] = None
  /\ callback' = [callback EXCEPT ![q] = r]
  /\ disturbed' = IF Busy = {} THEN disturbed ELSE Busy \cup {q}
  /\ UNCHANGED <<runToken, expired, refused>>

\* execute: setRunToken, then the work.
Execute(q, r) ==
  /\ callback[q] = None
  /\ callback' = [callback EXCEPT ![q] = r]
  /\ runToken' = r
  /\ disturbed' = IF Busy = {} THEN disturbed ELSE Busy \cup {q}
  /\ UNCHANGED <<expired, refused>>

\* verifyWorkerRunToken, for a request about run r.
VerifyWorkerRunToken(r) == runToken = r /\ runToken \notin expired

\* The guard: a token of the run, or the shared secret outside production.
CanActivate(r) == VerifyWorkerRunToken(r) \/ (runToken = None /\ ~Production)

\* postJson.
Post(q) ==
  /\ callback[q] # None
  /\ refused' = IF CanActivate(callback[q]) THEN refused ELSE refused \cup {q}
  /\ UNCHANGED <<runToken, callback, expired, disturbed>>

\* Bug: a callback that returns early leaves its token behind.
FinishKeepsToken(q) ==
  /\ callback[q] # None
  /\ callback' = [callback EXCEPT ![q] = None]
  /\ disturbed' = disturbed \ {q}
  /\ refused' = refused \ {q}
  /\ UNCHANGED <<runToken, expired>>

\* finally: clearRunToken, whoever's token it is by now.
Finish(q) ==
  /\ callback[q] # None
  /\ callback' = [callback EXCEPT ![q] = None]
  /\ runToken' = None
  /\ disturbed' = disturbed \ {q}
  /\ refused' = refused \ {q}
  /\ UNCHANGED expired

\* The worker process dies and is started again.
Crash ==
  /\ callback' = [q \in Queues |-> None]
  /\ runToken' = None
  /\ disturbed' = {} /\ refused' = {}
  /\ UNCHANGED expired

\* A job waited, or its callback worked, for longer than its token lives.
Expire(r) ==
  /\ expired' = expired \cup {r}
  /\ UNCHANGED <<runToken, callback, disturbed, refused>>

Next ==
  \/ \E q \in Queues : Post(q) \/ Finish(q) \/ \E r \in Runs : Execute(q, r)
  \/ \E r \in Runs : Expire(r)
  \/ Crash

Spec == Init /\ [][Next]_vars
-----------------------------------------------------------------------------
\* A callback that runs alone from its start to its end is never refused while
\* its token lives, whatever the callbacks before it have left in the client
\* (setRunToken, clearRunToken).
RefusedOnlyIfDisturbed ==
  \A q \in refused : q \in disturbed \/ callback[q] \in expired
=============================================================================
