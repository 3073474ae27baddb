----------------------------- MODULE ApprovalGate -----------------------------
(***************************************************************************)
(* What the run lifecycle promises about actions at a vendor, without      *)
(* queues, handlers or statuses: a change is submitted only for a request  *)
(* an approver has granted in time, and a run that needs approval is       *)
(* reported as done only after a submission.  RunLifecycle implements it.  *)
(***************************************************************************)
EXTENDS Naturals

CONSTANTS Runs, Approvals,
          Gated,   \* the runs that change something at the vendor
          None

VARIABLES requestedFor,  \* the run an approval was requested for
          granted,       \* approvals granted before their expiry
          submissions,   \* submissions at the vendor per approval
          done           \* runs reported as completed

gateVars == <<requestedFor, granted, submissions, done>>

GateInit ==
  /\ requestedFor = [a \in Approvals |-> None]
  /\ granted = {}
  /\ submissions = [a \in Approvals |-> 0]
  /\ done = {}

Request(a, r) ==
  /\ requestedFor[a] = None
  /\ requestedFor' = [requestedFor EXCEPT ![a] = r]
  /\ UNCHANGED <<granted, submissions, done>>

Grant(a) ==
  /\ requestedFor[a] # None
  /\ granted' = granted \cup {a}
  /\ UNCHANGED <<requestedFor, submissions, done>>

Submit(a) ==
  /\ a \in granted
  /\ submissions' = [submissions EXCEPT ![a] = @ + 1]
  /\ UNCHANGED <<requestedFor, granted, done>>

Report(r) ==
  /\ r \in Gated => \E a \in granted : requestedFor[a] = r /\ submissions[a] > 0
  /\ done' = done \cup {r}
  /\ UNCHANGED <<requestedFor, granted, submissions>>

\* A report may be superseded: the receipt of a run is an upsert.
Retract(r) ==
  /\ done' = done \ {r}
  /\ UNCHANGED <<requestedFor, granted, submissions>>

GateNext ==
  \/ \E a \in Approvals : Grant(a) \/ Submit(a) \/ \E r \in Runs : Request(a, r)
  \/ \E r \in Runs : Report(r) \/ Retract(r)

GateSpec == GateInit /\ [][GateNext]_gateVars

=============================================================================
