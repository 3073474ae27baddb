----------------------------- MODULE RunLifecycle -----------------------------
(***************************************************************************)
(* The life of workflow runs, from POST /workflows/:id/runs to the         *)
(* receipt, across the processes that write it:                            *)
(*   - API handlers of users (start, cancel, approve, reject) and the      *)
(*     expiration sweep, one record of req per call in flight;             *)
(*   - the worker's two BullMQ callbacks, one per queue, one record of     *)
(*     exec each, with the internal API calls they wait for;               *)
(*   - the queues themselves (module JobQueue).                            *)
(* Nothing in this code holds a lock or a transaction on a run: a handler  *)
(* reads the row, awaits, and updates it by id.  Every await is a step     *)
(* boundary here, so a record's pc names the next database access.         *)
(***************************************************************************)
EXTENDS RunStatus, Naturals, FiniteSets

CONSTANTS Runs, Approvals,  \* identities of workflow_runs and approval_requests rows
          Requests,         \* API calls in flight at once
          Template,         \* Template[r]: what the run executes
          Expiries,         \* what expiresAt of a new approval request may be
          MaxAttempts, MaxStalls,  \* see JobQueue
          MaxFaults,        \* bound: crashes and database or network errors
          None              \* no run, no approval

ASSUME LifecycleAssumption ==
  /\ Template \in [Runs -> {"read_only", "plan_downgrade"}]
  /\ None \notin Runs \cup Approvals
  /\ Expiries \subseteq {"none", "future"}
  /\ MaxAttempts \in Nat \ {0}
  /\ MaxStalls \in Nat
  /\ MaxFaults \in Nat

VARIABLES run,        \* run[r]: the status column
          approval,   \* approval[a]: the row of an approval request
          receipt,    \* receipt[r]: finalStatus of the receipt of r
          submitted,  \* submitted[a]: downgrades clicked at the vendor for a
          delivered,  \* delivered[a]: times the worker was handed the resume job of a
          granted,    \* approvals an approver granted before their expiry
          jobs,       \* the BullMQ jobs
          exec,       \* exec[e]: the worker callback of queue e
          req,        \* req[q]: an API handler call
          faults      \* faults so far

vars == <<run, approval, receipt, submitted, delivered, granted, jobs, exec, req, faults>>

StartJob(r)  == <<"start", r>>
ResumeJob(a) == <<"resume", a>>
CancelJob(r) == <<"cancel", r>>

\* What only the properties read.
history == <<submitted, delivered, granted>>

JobIds == ({"start", "cancel"} \X Runs) \cup ({"resume"} \X Approvals)

Queue == INSTANCE JobQueue

Executors == {"workflow-runs", "workflow-resume"}

Request(status, r, expiresAt) ==
  [status |-> status, run |-> r, expiresAt |-> expiresAt, approvedAt |-> "none"]
NoApproval == Request(Absent, None, "none")

Callback(pc, r, a) == [pc |-> pc, run |-> r, approval |-> a, final |-> Absent]
IdleExec   == Callback("idle", None, None)
IdleReq    == [pc |-> "idle", run |-> None, approval |-> None, arg |-> Absent]
-----------------------------------------------------------------------------
ApprovalRecord ==
  [status: ApprovalStatuses \cup {Absent}, run: Runs \cup {None},
   expiresAt: {"none", "future", "passed"}, approvedAt: {"none", "in_time", "late"}]

ExecPcs == {"find", "checkApproval", "checkAgent", "markStarted", "checkCanceled", "work",
            "submit", "complete", "completeWrite", "requestApproval", "waitWrite",
            "createApproval", "deny", "fail", "failWrite", "receipt", "return"}

ReqPcs == {"enqueueStart", "cancelSignal", "cancelWrite", "decideRun", "decideWrite",
           "enqueueResume", "decideRunWrite", "expireWrite", "expireRun", "expireRunWrite"}

ExecRecord ==
  [pc: ExecPcs \cup {"idle"}, run: Runs \cup {None}, approval: Approvals \cup {None},
   final: ReceiptStatuses \cup {Absent}]

\* arg: the status a cancel handler has read, or the decision of an approver.
ReqRecord ==
  [pc: ReqPcs \cup {"idle"}, run: Runs \cup {None}, approval: Approvals \cup {None},
   arg: RunStatuses \cup ApprovalStatuses \cup {Absent}]

\* Every row, job and call has its type, and a call in flight names the rows it is about.
TypeOK ==
  /\ run \in [Runs -> RunStatuses \cup {Absent}]
  /\ approval \in [Approvals -> ApprovalRecord]
  /\ receipt \in [Runs -> ReceiptStatuses \cup {Absent}]
  /\ submitted \in [Approvals -> Nat]
  /\ delivered \in [Approvals -> Nat]
  /\ granted \subseteq Approvals
  /\ Queue!QueueTypeOK
  /\ exec \in [Executors -> ExecRecord]
  /\ req \in [Requests -> ReqRecord]
  /\ faults \in 0..MaxFaults
  /\ \A e \in Executors : exec[e].pc # "idle" => exec[e].run \in Runs
  /\ \A q \in Requests : req[q].pc # "idle" => req[q].run \in Runs

Init ==
  /\ run = [r \in Runs |-> Absent]
  /\ approval = [a \in Approvals |-> NoApproval]
  /\ receipt = [r \in Runs |-> Absent]
  /\ submitted = [a \in Approvals |-> 0]
  /\ delivered = [a \in Approvals |-> 0]
  /\ granted = {}
  /\ Queue!QueueInit
  /\ exec = [e \in Executors |-> IdleExec]
  /\ req = [q \in Requests |-> IdleReq]
  /\ faults = 0

SetRun(r, status) == run' = [run EXCEPT ![r] = status]

Fault == faults < MaxFaults /\ faults' = faults + 1
-----------------------------------------------------------------------------
(***************************************************************************)
(* The worker: WorkflowExecutorService under WorkerQueueService.           *)
(***************************************************************************)
Goto(e, pc) == exec' = [exec EXCEPT ![e].pc = pc]

GotoReceipt(e, final) == exec' = [exec EXCEPT ![e].pc = "receipt", ![e].final = final]

JobOf(e) == IF exec[e].approval = None THEN StartJob(exec[e].run) ELSE ResumeJob(exec[e].approval)

\* The callback returned: whatever it answered ("completed", "ignored" or
\* "skipped"), the job is completed.
Return(e) == Queue!Complete(JobOf(e)) /\ exec' = [exec EXCEPT ![e] = IdleExec]

\* Bug: the worker swallows the error of a callback.
SwallowError(e) == Return(e)

\* The callback threw.
Throw(e) == Queue!FailAttempt(JobOf(e)) /\ exec' = [exec EXCEPT ![e] = IdleExec]

TakeStart(r) ==
  LET e == "workflow-runs" IN
  /\ exec[e].pc = "idle"
  /\ Queue!Deliver(StartJob(r))
  /\ exec' = [exec EXCEPT ![e] = Callback("find", r, None)]
  /\ UNCHANGED <<run, approval, receipt, history, req, faults>>

TakeResume(a) ==
  LET e == "workflow-resume" IN
  /\ exec[e].pc = "idle"
  /\ Queue!Deliver(ResumeJob(a))
  /\ exec' = [exec EXCEPT ![e] = Callback("find", approval[a].run, a)]
  /\ delivered' = [delivered EXCEPT ![a] = @ + 1]
  /\ UNCHANGED <<run, approval, receipt, submitted, granted, req, faults>>

\* Bug: the job is executed whatever the status of its run.
FindAnyRun(e) ==
  /\ exec[e].pc = "find"
  /\ Goto(e, IF exec[e].approval = None THEN "markStarted" ELSE "checkApproval")
  /\ UNCHANGED <<run, approval, receipt, history, jobs, req, faults>>

\* findExecutableRun, and the guards in front of the try block.
FindExecutableRun(e) ==
  /\ exec[e].pc = "find"
  /\ IF IsTerminal(run[exec[e].run])
     THEN Return(e)
     ELSE /\ Goto(e, IF exec[e].approval = None THEN "markStarted" ELSE "checkApproval")
          /\ UNCHANGED jobs
  /\ UNCHANGED <<run, approval, receipt, history, req, faults>>

\* Bug: an approval granted after its expiry is taken as good.
AssertApprovedOnly(e) ==
  /\ exec[e].pc = "checkApproval"
  /\ Goto(e, IF approval[exec[e].approval].status = "approved" THEN "checkAgent" ELSE "fail")
  /\ UNCHANGED <<run, approval, receipt, history, jobs, req, faults>>

AssertApprovalCanResume(e) ==
  /\ exec[e].pc = "checkApproval"
  /\ LET a == approval[exec[e].approval] IN
     Goto(e, IF a.status = "approved" /\ a.approvedAt = "in_time" THEN "checkAgent" ELSE "fail")
  /\ UNCHANGED <<run, approval, receipt, history, jobs, req, faults>>

\* The agent may have been paused or revoked since the approval.
AssertAgentActiveForResume(e) ==
  /\ exec[e].pc = "checkAgent"
  /\ \E pc \in {"markStarted", "fail"} : Goto(e, pc)
  /\ UNCHANGED <<run, approval, receipt, history, jobs, req, faults>>

\* markStarted writes RUNNING over whatever status the row has by now.
MarkStarted(e) ==
  /\ exec[e].pc = "markStarted"
  /\ SetRun(exec[e].run, "running")
  /\ Goto(e, IF Template[exec[e].run] = "read_only" THEN "checkCanceled" ELSE "work")
  /\ UNCHANGED <<approval, receipt, history, jobs, req, faults>>

\* Only the invoice and renewal executors look for a cancellation.
CheckCanceled(e) ==
  /\ exec[e].pc = "checkCanceled"
  /\ IF run[exec[e].run] = "canceled" THEN Return(e) ELSE Goto(e, "work") /\ UNCHANGED jobs
  /\ UNCHANGED <<run, approval, receipt, history, req, faults>>

\* Bug: a resumed downgrade is completed without being submitted.
WorkWithoutSubmit(e) ==
  /\ exec[e].pc = "work"
  /\ Goto(e, IF Template[exec[e].run] = "read_only" \/ exec[e].approval # None
             THEN "complete" ELSE "requestApproval")
  /\ UNCHANGED <<run, approval, receipt, history, jobs, req, faults>>

\* Policy snapshot, credentials, login, and the reading or preparing at the
\* vendor, up to the first step that changes anything.
Work(e) ==
  /\ exec[e].pc = "work"
  /\ \/ exec[e].approval # None /\ Goto(e, "submit")
     \/ exec[e].approval = None /\ Template[exec[e].run] = "read_only" /\ Goto(e, "complete")
     \/ exec[e].approval = None /\ Template[exec[e].run] # "read_only" /\ Goto(e, "requestApproval")
  /\ UNCHANGED <<run, approval, receipt, history, jobs, req, faults>>

\* Bug: the connector repeats the click when the page is slow to confirm.
SubmitAndRetry(e) ==
  /\ exec[e].pc = "submit"
  /\ submitted' = [submitted EXCEPT ![exec[e].approval] = @ + 1]
  /\ \E pc \in {"submit", "complete"} : Goto(e, pc)
  /\ UNCHANGED <<run, approval, receipt, delivered, granted, jobs, req, faults>>

\* submitDowngrade clicks #submit-downgrade at the vendor.
SubmitDowngrade(e) ==
  /\ exec[e].pc = "submit"
  /\ submitted' = [submitted EXCEPT ![exec[e].approval] = @ + 1]
  /\ Goto(e, "complete")
  /\ UNCHANGED <<run, approval, receipt, delivered, granted, jobs, req, faults>>

\* completeRun in the API: only a running run may complete ...
CompleteRun(e) ==
  /\ exec[e].pc = "complete"
  /\ Goto(e, IF run[exec[e].run] = "running" THEN "completeWrite" ELSE "fail")
  /\ UNCHANGED <<run, approval, receipt, history, jobs, req, faults>>

\* ... but the update does not repeat the test.
CompleteRunWrite(e) ==
  /\ exec[e].pc = "completeWrite"
  /\ SetRun(exec[e].run, "completed")
  /\ GotoReceipt(e, "completed")
  /\ UNCHANGED <<approval, receipt, history, jobs, req, faults>>

\* createForRun in the API: the run is moved to waiting_for_approval unless it
\* is there already, then the request is created.
CreateApprovalForRun(e) ==
  /\ exec[e].pc = "requestApproval"
  /\ LET status == run[exec[e].run] IN
     Goto(e, CASE status = "waiting_for_approval"                 -> "createApproval"
               [] CanTransition(status, "waiting_for_approval") -> "waitWrite"
               [] OTHER                                         -> "fail")
  /\ UNCHANGED <<run, approval, receipt, history, jobs, req, faults>>

WaitForApprovalWrite(e) ==
  /\ exec[e].pc = "waitWrite"
  /\ SetRun(exec[e].run, "waiting_for_approval")
  /\ Goto(e, "createApproval")
  /\ UNCHANGED <<approval, receipt, history, jobs, req, faults>>

\* expiresAt is an optional field of the request, which the worker leaves out.
CreateApprovalWrite(e) ==
  /\ exec[e].pc = "createApproval"
  /\ \E a \in Approvals, expiresAt \in Expiries :
       /\ approval[a].status = Absent
       /\ approval' = [approval EXCEPT ![a] = Request("pending", exec[e].run, expiresAt)]
  /\ \/ Goto(e, "return")
     \/ Goto(e, "fail")     \* the notification or an audit event failed afterwards
  /\ UNCHANGED <<run, receipt, history, jobs, req, faults>>

\* Bug: the failure handler writes the receipt of a success.
ReceiptAlwaysCompleted(e) ==
  /\ exec[e].pc = "receipt"
  /\ receipt' = [receipt EXCEPT ![exec[e].run] = "completed"]
  /\ Goto(e, "return")
  /\ UNCHANGED <<run, approval, history, jobs, req, faults>>

\* WorkerReceiptService.createForRun: an upsert of the caller's final status.
CreateReceipt(e) ==
  /\ exec[e].pc = "receipt"
  /\ receipt' = [receipt EXCEPT ![exec[e].run] = exec[e].final]
  /\ Goto(e, "return")
  /\ UNCHANGED <<run, approval, history, jobs, req, faults>>

\* The browser is closed before the callback returns.
ReturnFromCallback(e) ==
  /\ exec[e].pc = "return"
  /\ Return(e)
  /\ UNCHANGED <<run, approval, receipt, history, req, faults>>

\* An error thrown in the try block lands in handle*Failure.
InTryBlock(e) ==
  \/ exec[e].pc \in {"checkApproval", "checkAgent", "markStarted", "checkCanceled", "work",
                     "submit", "complete", "completeWrite", "requestApproval", "waitWrite",
                     "createApproval"}
  \/ exec[e].pc = "receipt" /\ exec[e].final = "completed"

TryBlockThrows(e) ==
  /\ InTryBlock(e)
  /\ \/ Goto(e, "fail")
     \/ exec[e].pc = "work" /\ Goto(e, "deny")  \* POLICY_DENIED by the policy snapshot
  /\ UNCHANGED <<run, approval, receipt, history, jobs, req, faults>>

\* A policy denial is written without reading the run again.
PolicyDenied(e) ==
  /\ exec[e].pc = "deny"
  /\ SetRun(exec[e].run, "denied")
  /\ GotoReceipt(e, "denied")
  /\ UNCHANGED <<approval, receipt, history, jobs, req, faults>>

\* failRun in the API refuses a terminal run, and the refusal leaves the callback.
FailRun(e) ==
  /\ exec[e].pc = "fail"
  /\ IF IsTerminal(run[exec[e].run]) THEN Throw(e) ELSE Goto(e, "failWrite") /\ UNCHANGED jobs
  /\ UNCHANGED <<run, approval, receipt, history, req, faults>>

FailRunWrite(e) ==
  /\ exec[e].pc = "failWrite"
  /\ SetRun(exec[e].run, "failed")
  /\ GotoReceipt(e, "failed")
  /\ UNCHANGED <<approval, receipt, history, jobs, req, faults>>

\* A database or network error where nothing catches it.
UncaughtError(e) ==
  /\ exec[e].pc # "idle" /\ ~InTryBlock(e)
  /\ Fault
  /\ Throw(e)
  /\ UNCHANGED <<run, approval, receipt, history, req>>

\* The worker process dies with both callbacks.  An internal API call that is
\* past its read is left to finish first: the lock of a dead worker's job
\* outlives it (30 s), so no other delivery overlaps the call.
WorkerCrash ==
  /\ \E e \in Executors : exec[e].pc # "idle"
  /\ \A e \in Executors : exec[e].pc \notin {"completeWrite", "waitWrite", "createApproval",
                                             "failWrite"}
  /\ Fault
  /\ exec' = [e \in Executors |-> IdleExec]
  /\ UNCHANGED <<run, approval, receipt, history, jobs, req>>

Held(j) == \E e \in Executors : exec[e].pc # "idle" /\ JobOf(e) = j

\* Bug: only the worker of the workflow-runs queue looks for stalled jobs.
StalledStartJob(j) ==
  /\ jobs[j].state = "active" /\ ~Held(j) /\ j[1] = "start"
  /\ Queue!Stall(j)
  /\ UNCHANGED <<run, approval, receipt, history, exec, req, faults>>

StalledJob(j) ==
  /\ jobs[j].state = "active" /\ ~Held(j)
  /\ Queue!Stall(j)
  /\ UNCHANGED <<run, approval, receipt, history, exec, req, faults>>

\* Of the finished jobs that leave Redis only a resume job can be added again.
ForgetResumeJob(a) ==
  /\ Queue!Forget(ResumeJob(a))
  /\ UNCHANGED <<run, approval, receipt, history, exec, req, faults>>

ExecStep(e) ==
  \/ FindExecutableRun(e) \/ AssertApprovalCanResume(e) \/ AssertAgentActiveForResume(e)
  \/ MarkStarted(e) \/ CheckCanceled(e) \/ Work(e) \/ SubmitDowngrade(e)
  \/ CompleteRun(e) \/ CompleteRunWrite(e)
  \/ CreateApprovalForRun(e) \/ WaitForApprovalWrite(e) \/ CreateApprovalWrite(e)
  \/ CreateReceipt(e) \/ ReturnFromCallback(e)
  \/ TryBlockThrows(e) \/ PolicyDenied(e) \/ FailRun(e) \/ FailRunWrite(e)
-----------------------------------------------------------------------------
(***************************************************************************)
(* The API: calls of users and the expiration sweep.                       *)
(***************************************************************************)
Begin(q, pc, r, a, arg) ==
  /\ req[q].pc = "idle"
  /\ req' = [req EXCEPT ![q] = [pc |-> pc, run |-> r, approval |-> a, arg |-> arg]]

At(q, pc) == req[q].pc = pc

Continue(q, pc) == req' = [req EXCEPT ![q].pc = pc]

Respond(q) == req' = [req EXCEPT ![q] = IdleReq]

\* startRun: the row first, the job after the audit event.
StartRun(q, r) ==
  /\ run[r] = Absent
  /\ SetRun(r, "queued")
  /\ Begin(q, "enqueueStart", r, None, Absent)
  /\ UNCHANGED <<approval, receipt, history, jobs, exec, faults>>

EnqueueStart(q) ==
  /\ At(q, "enqueueStart")
  /\ Queue!AddIdempotent(StartJob(req[q].run))
  /\ Respond(q)
  /\ UNCHANGED <<run, approval, receipt, history, exec, faults>>

Cancel(q, r) ==
  /\ run[r] # Absent /\ CanTransition(run[r], "canceled")
  /\ Begin(q, "cancelSignal", r, None, run[r])
  /\ UNCHANGED <<run, approval, receipt, history, jobs, exec, faults>>

\* The queue is acted on by the status read before.
CancelSignal(q) ==
  /\ At(q, "cancelSignal")
  /\ IF req[q].arg = "queued"
     THEN Queue!RemoveWaiting(StartJob(req[q].run))
     ELSE Queue!AddIdempotent(CancelJob(req[q].run))
  /\ Continue(q, "cancelWrite")
  /\ UNCHANGED <<run, approval, receipt, history, exec, faults>>

CancelWrite(q) ==
  /\ At(q, "cancelWrite")
  /\ SetRun(req[q].run, "canceled")
  /\ Respond(q)
  /\ UNCHANGED <<approval, receipt, history, jobs, exec, faults>>

\* Bug: a request may be decided whatever its status.
DecideAny(q, a, decision) ==
  /\ approval[a].status # Absent
  /\ Begin(q, IF approval[a].expiresAt = "passed" THEN "expireWrite" ELSE "decideRun",
           approval[a].run, a, decision)
  /\ UNCHANGED <<run, approval, receipt, history, jobs, exec, faults>>

\* approve and reject up to assertPendingOrExpire.
Decide(q, a, decision) ==
  /\ approval[a].status = "pending"
  /\ Begin(q, IF approval[a].expiresAt = "passed" THEN "expireWrite" ELSE "decideRun",
           approval[a].run, a, decision)
  /\ UNCHANGED <<run, approval, receipt, history, jobs, exec, faults>>

Outcome(decision) == IF decision = "approved" THEN "running" ELSE "denied"

DecideRun(q) ==
  /\ At(q, "decideRun")
  /\ IF CanTransition(run[req[q].run], Outcome(req[q].arg))
     THEN Continue(q, "decideWrite") ELSE Respond(q)
  /\ UNCHANGED <<run, approval, receipt, history, jobs, exec, faults>>

\* Bug: the status of the run is written to the approval request.
DecideWriteOutcome(q) ==
  /\ At(q, "decideWrite")
  /\ approval' = [approval EXCEPT ![req[q].approval].status = Outcome(req[q].arg)]
  /\ Continue(q, "enqueueResume")
  /\ UNCHANGED <<run, receipt, history, jobs, exec, faults>>

DecideWrite(q) ==
  /\ At(q, "decideWrite")
  /\ LET a == req[q].approval
         late == approval[a].expiresAt = "passed" IN
     IF req[q].arg = "approved"
     THEN /\ approval' = [approval EXCEPT ![a].status = "approved",
                                          ![a].approvedAt = IF late THEN "late" ELSE "in_time"]
          /\ granted' = IF late THEN granted ELSE granted \cup {a}
          /\ Continue(q, "enqueueResume")
     ELSE /\ approval' = [approval EXCEPT ![a].status = req[q].arg]
          /\ Continue(q, "decideRunWrite")
          /\ UNCHANGED granted
  /\ UNCHANGED <<run, receipt, submitted, delivered, jobs, exec, faults>>

\* Bug: the worker is told of an approval only while the run still waits for it.
EnqueueResumeIfWaiting(q) ==
  /\ At(q, "enqueueResume")
  /\ IF run[req[q].run] = "waiting_for_approval"
     THEN Queue!AddIdempotent(ResumeJob(req[q].approval)) ELSE UNCHANGED jobs
  /\ Continue(q, "decideRunWrite")
  /\ UNCHANGED <<run, approval, receipt, history, exec, faults>>

EnqueueResume(q) ==
  /\ At(q, "enqueueResume")
  /\ Queue!AddIdempotent(ResumeJob(req[q].approval))
  /\ Continue(q, "decideRunWrite")
  /\ UNCHANGED <<run, approval, receipt, history, exec, faults>>

DecideRunWrite(q) ==
  /\ At(q, "decideRunWrite")
  /\ SetRun(req[q].run, Outcome(req[q].arg))
  /\ Respond(q)
  /\ UNCHANGED <<approval, receipt, history, jobs, exec, faults>>

\* expireDue reads the overdue requests, and expireApproval trusts what was read.
ExpireDue(q, a) ==
  /\ approval[a].status = "pending" /\ approval[a].expiresAt = "passed"
  /\ Begin(q, "expireWrite", approval[a].run, a, Absent)
  /\ UNCHANGED <<run, approval, receipt, history, jobs, exec, faults>>

ExpireWrite(q) ==
  /\ At(q, "expireWrite")
  /\ approval' = [approval EXCEPT ![req[q].approval].status = "expired"]
  /\ Continue(q, "expireRun")
  /\ UNCHANGED <<run, receipt, history, jobs, exec, faults>>

ExpireRun(q) ==
  /\ At(q, "expireRun")
  /\ IF run[req[q].run] = "waiting_for_approval"
     THEN Continue(q, "expireRunWrite") ELSE Respond(q)
  /\ UNCHANGED <<run, approval, receipt, history, jobs, exec, faults>>

ExpireRunWrite(q) ==
  /\ At(q, "expireRunWrite")
  /\ SetRun(req[q].run, "denied")
  /\ Respond(q)
  /\ UNCHANGED <<approval, receipt, history, jobs, exec, faults>>

\* The API process dies, or Redis or the database refuses the next step.
Abort(q) ==
  /\ req[q].pc # "idle"
  /\ Fault
  /\ Respond(q)
  /\ UNCHANGED <<run, approval, receipt, history, jobs, exec>>

\* The clock passes expiresAt.
DeadlinePasses(a) ==
  /\ approval[a].expiresAt = "future"
  /\ approval' = [approval EXCEPT ![a].expiresAt = "passed"]
  /\ UNCHANGED <<run, receipt, history, jobs, exec, req, faults>>

ReqStep(q) ==
  \/ EnqueueStart(q) \/ CancelSignal(q) \/ CancelWrite(q)
  \/ DecideRun(q) \/ DecideWrite(q) \/ EnqueueResume(q) \/ DecideRunWrite(q)
  \/ ExpireWrite(q) \/ ExpireRun(q) \/ ExpireRunWrite(q)

Call(q) ==
  \/ \E r \in Runs : StartRun(q, r) \/ Cancel(q, r)
  \/ \E a \in Approvals : ExpireDue(q, a) \/ \E d \in {"approved", "rejected"} : Decide(q, a, d)
-----------------------------------------------------------------------------
Next ==
  \/ \E q \in Requests : Call(q) \/ ReqStep(q) \/ Abort(q)
  \/ \E r \in Runs : TakeStart(r)
  \/ \E a \in Approvals : TakeResume(a) \/ ForgetResumeJob(a) \/ DeadlinePasses(a)
  \/ \E e \in Executors : ExecStep(e) \/ UncaughtError(e)
  \/ WorkerCrash
  \/ \E j \in JobIds : StalledJob(j)

Spec == Init /\ [][Next]_vars

\* A handler or callback that has begun goes on, the worker polls its queues
\* and BullMQ checks for stalled jobs.  Users, clocks and faults owe nothing.
FairSpec ==
  /\ Spec
  /\ \A q \in Requests : WF_vars(ReqStep(q))
  /\ \A e \in Executors : WF_vars(ExecStep(e))
  /\ \A r \in Runs : WF_vars(TakeStart(r))
  /\ \A a \in Approvals : WF_vars(TakeResume(a))
  /\ \A j \in JobIds : WF_vars(StalledJob(j))
-----------------------------------------------------------------------------
(***************************************************************************)
(* Properties.                                                             *)
(***************************************************************************)
\* pcs from which a status is written without the row being read again.
StaleExecPcs == {"checkApproval", "checkAgent", "markStarted", "checkCanceled", "work",
                 "submit", "deny", "completeWrite", "waitWrite", "failWrite"}

StaleReqPcs == {"cancelSignal", "cancelWrite", "decideWrite", "enqueueResume",
                "decideRunWrite", "expireRunWrite"}

Settled(r) ==
  /\ run[r] \in TerminalStatuses
  /\ \A e \in Executors : exec[e].run = r => exec[e].pc \notin StaleExecPcs
  /\ \A q \in Requests : req[q].run = r => req[q].pc \notin StaleReqPcs

\* A terminal run is final as soon as nobody acts on a reading of it from
\* before it ended: every path that writes a status tests it first, so only a
\* test that has gone stale can reopen a run or change how it ended
\* (assertCanTransition, findExecutableRun, completeRun, failRun, expireApproval).
SettledRunIsFinal ==
  [][\A r \in Runs : Settled(r) => run'[r] = run[r] /\ Settled(r)']_vars

ApprovalSettled(a) ==
  /\ approval[a].status \in {"approved", "rejected", "expired"}
  /\ \A q \in Requests :
       req[q].approval = a => req[q].pc \notin {"decideRun", "decideWrite", "expireWrite"}

\* A decided approval keeps its decision once no other decision that read it
\* as pending is under way (assertPendingOrExpire, expireApproval).
SettledApprovalIsFinal ==
  [][\A a \in Approvals :
       ApprovalSettled(a) => approval'[a].status = approval[a].status /\ ApprovalSettled(a)']_vars

\* Nothing is submitted at the vendor for an approval that no approver granted
\* before its expiry, whatever is retried, redelivered, expired or decided at
\* the same time (assertApprovalCanResume).
SubmittedOnlyIfGranted ==
  \A a \in Approvals : submitted[a] > 0 => a \in granted

Submitted(r) == \E a \in Approvals : approval[a].run = r /\ submitted[a] > 0

\* A plan downgrade is reported as done, by its status or by its receipt, only
\* if it was submitted at the vendor.
CompletedOnlyIfSubmitted ==
  \A r \in Runs :
    /\ Template[r] = "plan_downgrade"
    /\ "completed" \in {run[r], receipt[r]}
    => Submitted(r)

\* The vendor sees at most one submission for each time the queue hands the
\* worker the resume job: the callback itself never repeats the click.
SubmittedOncePerDelivery ==
  \A a \in Approvals : submitted[a] <= delivered[a]

\* A queued run that was never given a job, or has lost it, with no call about
\* to add one or to end the run.
LeftQueued(r) ==
  /\ run[r] = "queued" /\ jobs[StartJob(r)].state = "absent"
  /\ \A q \in Requests : req[q].run = r => req[q].pc \notin {"enqueueStart", "cancelWrite"}

\* A run that waits for a decision although no request for one is open or
\* granted, with no call and no start callback about to move it.
LeftWaiting(r) ==
  /\ run[r] = "waiting_for_approval"
  /\ \A a \in Approvals : approval[a].run = r => approval[a].status \in {"rejected", "expired"}
  /\ \A q \in Requests : req[q].run = r =>
       req[q].pc \notin {"enqueueResume", "decideRunWrite", "expireRun", "expireRunWrite"}
  /\ LET e == exec["workflow-runs"] IN
     e.run = r => e.pc \notin {"createApproval", "fail", "failWrite"}

\* A grant that the worker has not heard of, with no call about to tell it.
LeftGranted(a) ==
  /\ approval[a].status = "approved"
  /\ delivered[a] = 0 /\ jobs[ResumeJob(a)].state = "absent"
  /\ \A q \in Requests : req[q].approval = a => req[q].pc # "enqueueResume"

StrandedRuns   == {r \in Runs : LeftQueued(r) \/ LeftWaiting(r)}
StrandedGrants == {a \in Approvals : LeftGranted(a)}

\* However calls, the sweep and the callbacks overtake each other, only a crash
\* or an error strands a queued run, a waiting run or a grant, and each of them
\* at most one: a handler that stops between its writes has put no more than
\* one row ahead of what follows from it (startRun, cancel, approve, reject,
\* expireApproval, createForRun).
FaultsStrandOne ==
  Cardinality(StrandedRuns) + Cardinality(StrandedGrants) <= faults

\* A job is finished only when its run has left the queued status, unless the
\* job was given up: no run is left behind by a worker that says it is done.
CompletedJobLeftQueue ==
  \A r \in Runs : jobs[StartJob(r)].state = "completed" => run[r] # "queued"

\* No job starves: the worker finishes, gives up or loses every job it is given.
StartJobSettles ==
  \A r \in Runs : jobs[StartJob(r)].state = "waiting"
                    ~> jobs[StartJob(r)].state \notin {"waiting", "active"}

ResumeJobSettles ==
  \A a \in Approvals : jobs[ResumeJob(a)].state = "waiting"
                         ~> jobs[ResumeJob(a)].state \notin {"waiting", "active"}

\* The lifecycle implements the gate: behind queues, retries and races every
\* submission has a grant, and every report of a downgrade a submission.
Gate == INSTANCE ApprovalGate
  WITH Gated        <- {r \in Runs : Template[r] = "plan_downgrade"},
       requestedFor <- [a \in Approvals |-> approval[a].run],
       submissions  <- submitted,
       done         <- {r \in Runs : "completed" \in {run[r], receipt[r]}}

ImplementsGate == Gate!GateSpec
-----------------------------------------------------------------------------
(***************************************************************************)
(* What the repository's documents say and the code does not keep; each is *)
(* refuted by a run of its own.                                            *)
(***************************************************************************)
\* "Workflow terminal states cannot mutate."
TerminalStatesNeverMutate ==
  [][\A r \in Runs : run[r] \in TerminalStatuses => run'[r] = run[r]]_vars

\* "Retries must not repeat approved destructive actions unless idempotency
\* marker confirms not executed."
SubmittedAtMostOnce == \A a \in Approvals : submitted[a] <= 1

\* "Worker resumes.", "Run status becomes completed": an approved run comes to an end.
ApprovedRunEnds ==
  \A a \in Approvals : approval[a].status = "approved"
                         ~> approval[a].run # None /\ run[approval[a].run] \in TerminalStatuses
=============================================================================
