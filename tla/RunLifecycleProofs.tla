-------------------------- MODULE RunLifecycleProofs --------------------------
(***************************************************************************)
(* Theorems about RunLifecycle, for any number of runs, approvals, calls   *)
(* in flight, attempts and faults.                                         *)
(***************************************************************************)
EXTENDS RunLifecycle, TLAPS

(***************************************************************************)
(* TypeOK is not inductive: a delivered resume job gets its run from the   *)
(* approval row, and a decision in flight is written to the row it names.  *)
(* The rows, jobs and calls must name each other consistently.             *)
(***************************************************************************)
RowsInv ==
  /\ run \in [Runs -> RunStatuses \cup {Absent}]
  /\ approval \in [Approvals -> ApprovalRecord]
  /\ receipt \in [Runs -> ReceiptStatuses \cup {Absent}]
  /\ submitted \in [Approvals -> Nat]
  /\ delivered \in [Approvals -> Nat]
  /\ granted \subseteq Approvals
  /\ faults \in 0..MaxFaults
  \* only a created request names a run
  /\ \A a \in Approvals : approval[a].status = Absent <=> approval[a].run = None

\* A resume job exists only for a created request.
QueueInv ==
  /\ Queue!QueueTypeOK
  /\ \A a \in Approvals : jobs[ResumeJob(a)].state # "absent" => approval[a].status # Absent

\* A resume callback works on the run its approval was requested for; the
\* steps that need an approval are reached by resume callbacks only.
ExecInv ==
  /\ exec \in [Executors -> ExecRecord]
  /\ exec["workflow-runs"].approval = None
  /\ \A e \in Executors :
       /\ exec[e].pc # "idle" => exec[e].run \in Runs
       /\ exec[e].approval # None =>
            /\ approval[exec[e].approval].status # Absent
            /\ approval[exec[e].approval].run = exec[e].run
       /\ exec[e].pc \in {"checkApproval", "checkAgent", "submit"} => exec[e].approval # None
       /\ exec[e].pc = "receipt" => exec[e].final \in ReceiptStatuses

DecisionPcs == {"decideRun", "decideWrite", "enqueueResume", "decideRunWrite",
                "expireWrite", "expireRun", "expireRunWrite"}

Decisions == {"approved", "rejected"}

\* A decision in flight names a created request.
ReqInv ==
  /\ req \in [Requests -> ReqRecord]
  /\ \A q \in Requests :
       /\ req[q].pc # "idle" => req[q].run \in Runs
       /\ req[q].pc \in DecisionPcs =>
            req[q].approval \in Approvals /\ approval[req[q].approval].status # Absent
       /\ req[q].pc \in {"decideRun", "decideWrite", "enqueueResume", "decideRunWrite"} =>
            req[q].arg \in Decisions

TypeInv == RowsInv /\ QueueInv /\ ExecInv /\ ReqInv

\* No step takes a created request, or its run, away.
ApprovalsKept ==
  \A a \in Approvals :
    approval[a].status # Absent =>
      approval'[a].status # Absent /\ approval'[a].run = approval[a].run

LEMMA TypeInvGivesTypeOK == TypeInv => TypeOK
BY DEF TypeInv, RowsInv, QueueInv, ExecInv, ReqInv, TypeOK
-----------------------------------------------------------------------------
(* The queue. *)

JobStep(j) ==
  \/ Queue!AddIdempotent(j) \/ Queue!RemoveWaiting(j) \/ Queue!Deliver(j) \/ Queue!Complete(j)
  \/ Queue!FailAttempt(j) \/ Queue!Stall(j) \/ Queue!Forget(j)

\* Every operation of the queue keeps its type and touches one job.
LEMMA JobStepIsLocal ==
  ASSUME Queue!QueueTypeOK, NEW j \in JobIds, JobStep(j)
  PROVE  Queue!QueueTypeOK' /\ \A i \in JobIds \ {j} : jobs'[i] = jobs[i]
BY LifecycleAssumption
   DEF LifecycleAssumption, JobStep, Queue!QueueTypeOK, Queue!JobRecord, Queue!JobStates,
       Queue!NoJob, Queue!Job, Queue!AddIdempotent, Queue!RemoveWaiting, Queue!Deliver,
       Queue!Complete, Queue!FailAttempt, Queue!Stall, Queue!Forget

\* The ids of jobs of different kinds, and of different rows, are different.
LEMMA JobIdsDiffer ==
  /\ \A r \in Runs : StartJob(r) \in JobIds /\ CancelJob(r) \in JobIds
  /\ \A a \in Approvals : ResumeJob(a) \in JobIds
  /\ \A a \in Approvals, r \in Runs : ResumeJob(a) # StartJob(r) /\ ResumeJob(a) # CancelJob(r)
  /\ \A a, b \in Approvals : ResumeJob(a) = ResumeJob(b) => a = b
BY DEF JobIds, StartJob, CancelJob, ResumeJob

LEMMA JobStepKeeps ==
  ASSUME QueueInv, ApprovalsKept, NEW j \in JobIds, JobStep(j),
         \A a \in Approvals : j = ResumeJob(a) => approval[a].status # Absent
  PROVE  QueueInv'
<1>1. Queue!QueueTypeOK' /\ \A i \in JobIds \ {j} : jobs'[i] = jobs[i]
  BY JobStepIsLocal DEF QueueInv
<1> QED
  BY <1>1, JobIdsDiffer DEF QueueInv, ApprovalsKept

LEMMA JobsUntouched ==
  ASSUME QueueInv, ApprovalsKept, UNCHANGED jobs
  PROVE  QueueInv'
BY DEF QueueInv, ApprovalsKept, Queue!QueueTypeOK
-----------------------------------------------------------------------------
(* The callbacks. *)

LEMMA GotoKeeps ==
  ASSUME ExecInv, ApprovalsKept, NEW e \in Executors, exec[e].pc # "idle",
         NEW pc \in ExecPcs \ {"receipt"}, Goto(e, pc),
         pc \in {"checkApproval", "checkAgent", "submit"} => exec[e].approval # None
  PROVE  ExecInv'
BY DEF ExecInv, Goto, ExecRecord, ApprovalsKept

LEMMA GotoReceiptKeeps ==
  ASSUME ExecInv, ApprovalsKept, NEW e \in Executors, exec[e].pc # "idle",
         NEW final \in ReceiptStatuses, GotoReceipt(e, final)
  PROVE  ExecInv'
<1>0. exec \in [Executors -> ExecRecord]
  BY DEF ExecInv
<1>1. exec' \in [Executors -> ExecRecord]
  BY ZenonT(60), <1>0 DEF GotoReceipt, ExecRecord, ExecPcs
<1>2. /\ exec'[e].pc = "receipt" /\ exec'[e].final = final
      /\ exec'[e].run = exec[e].run /\ exec'[e].approval = exec[e].approval
  BY <1>0 DEF GotoReceipt, ExecRecord
<1>3. \A x \in Executors \ {e} : exec'[x] = exec[x]
  BY <1>0 DEF GotoReceipt
<1> QED
  BY <1>1, <1>2, <1>3 DEF ExecInv, ExecRecord, Executors, ApprovalsKept

LEMMA IdleKeeps ==
  ASSUME ExecInv, ApprovalsKept, NEW e \in Executors, exec' = [exec EXCEPT ![e] = IdleExec]
  PROVE  ExecInv'
BY DEF ExecInv, IdleExec, Callback, ExecRecord, Absent, ApprovalsKept

LEMMA ExecUntouched ==
  ASSUME ExecInv, ApprovalsKept, UNCHANGED exec
  PROVE  ExecInv'
BY DEF ExecInv, ExecRecord, ApprovalsKept

\* The job a callback holds is a job, and of a created request if of any.
LEMMA JobOfCallback ==
  ASSUME ExecInv, NEW e \in Executors, exec[e].pc # "idle"
  PROVE  /\ JobOf(e) \in JobIds
         /\ \A a \in Approvals : JobOf(e) = ResumeJob(a) => approval[a].status # Absent
BY JobIdsDiffer DEF ExecInv, ExecRecord, JobOf
-----------------------------------------------------------------------------
(* The API calls. *)

LEMMA BeginKeeps ==
  ASSUME ReqInv, ApprovalsKept, NEW q \in Requests,
         NEW pc \in ReqPcs, NEW r \in Runs, NEW a \in Approvals \cup {None},
         NEW arg \in RunStatuses \cup Decisions \cup {Absent}, Begin(q, pc, r, a, arg),
         pc \in DecisionPcs => a \in Approvals /\ approval[a].status # Absent,
         pc \in {"decideRun", "decideWrite", "enqueueResume", "decideRunWrite"} => arg \in Decisions
  PROVE  ReqInv'
BY DEF ReqInv, Begin, ReqRecord, ApprovalStatuses, Decisions, ApprovalsKept, DecisionPcs

LEMMA ContinueKeeps ==
  ASSUME ReqInv, ApprovalsKept, NEW q \in Requests, req[q].pc # "idle",
         NEW pc \in ReqPcs, Continue(q, pc),
         pc \in DecisionPcs => req[q].pc \in DecisionPcs,
         pc \in {"decideRun", "decideWrite", "enqueueResume", "decideRunWrite"} =>
           req[q].arg \in Decisions
  PROVE  ReqInv'
BY DEF ReqInv, Continue, ReqRecord, ApprovalsKept, DecisionPcs

LEMMA RespondKeeps ==
  ASSUME ReqInv, ApprovalsKept, NEW q \in Requests, Respond(q)
  PROVE  ReqInv'
BY DEF ReqInv, Respond, IdleReq, ReqRecord, Absent, ApprovalsKept, DecisionPcs

LEMMA ReqUntouched ==
  ASSUME ReqInv, ApprovalsKept, UNCHANGED req
  PROVE  ReqInv'
BY DEF ReqInv, ReqRecord, ApprovalsKept, DecisionPcs
-----------------------------------------------------------------------------
(* The rows. *)

LEMMA ApprovalUntouched ==
  ASSUME UNCHANGED approval
  PROVE  ApprovalsKept
BY DEF ApprovalsKept

LEMMA RowsUntouched ==
  ASSUME RowsInv, UNCHANGED <<run, approval, receipt, history, faults>>
  PROVE  RowsInv' /\ ApprovalsKept
BY DEF RowsInv, history, ApprovalsKept

LEMMA SetRunKeeps ==
  ASSUME RowsInv, NEW r \in Runs, NEW status \in RunStatuses, SetRun(r, status),
         UNCHANGED <<approval, receipt, history, faults>>
  PROVE  RowsInv' /\ ApprovalsKept
BY DEF RowsInv, SetRun, history, ApprovalsKept
-----------------------------------------------------------------------------
LEMMA TypeInit == Init => TypeInv
BY JobIdsDiffer, LifecycleAssumption
   DEF Init, TypeInv, RowsInv, QueueInv, ExecInv, ReqInv, LifecycleAssumption, NoApproval, Request,
       IdleExec, Callback, IdleReq, ApprovalRecord, ExecRecord, ReqRecord, DecisionPcs, Executors,
       Absent, Queue!QueueTypeOK, Queue!QueueInit, Queue!NoJob, Queue!Job, Queue!JobRecord,
       Queue!JobStates

-----------------------------------------------------------------------------
LEMMA ExecStepType ==
  ASSUME TypeInv, NEW e \in Executors, ExecStep(e) \/ UncaughtError(e)
  PROVE  TypeInv'
<1> USE DEF TypeInv
<1>r. exec[e].pc # "idle" => exec[e].run \in Runs
  BY DEF ExecInv
<1>1. CASE AssertApprovalCanResume(e)
  <2>1. RowsInv' /\ ApprovalsKept /\ QueueInv' /\ ReqInv'
    BY <1>1, RowsUntouched, JobsUntouched, ReqUntouched DEF AssertApprovalCanResume
  <2>2. PICK pc \in {"checkAgent", "fail"} : Goto(e, pc)
          /\ (pc \in {"checkAgent", "submit"} => exec[e].approval # None)
    BY <1>1 DEF AssertApprovalCanResume, ExecInv
  <2>3. exec[e].pc # "idle"
    BY <1>1 DEF AssertApprovalCanResume
  <2> QED
    BY <2>1, <2>2, <2>3, GotoKeeps DEF ExecPcs
<1>2. CASE AssertAgentActiveForResume(e)
  <2>1. RowsInv' /\ ApprovalsKept /\ QueueInv' /\ ReqInv'
    BY <1>2, RowsUntouched, JobsUntouched, ReqUntouched DEF AssertAgentActiveForResume
  <2>2. PICK pc \in {"markStarted", "fail"} : Goto(e, pc)
    BY <1>2 DEF AssertAgentActiveForResume, ExecInv
  <2>3. exec[e].pc # "idle"
    BY <1>2 DEF AssertAgentActiveForResume
  <2> QED
    BY <2>1, <2>2, <2>3, GotoKeeps DEF ExecPcs
<1>3. CASE Work(e)
  <2>1. RowsInv' /\ ApprovalsKept /\ QueueInv' /\ ReqInv'
    BY <1>3, RowsUntouched, JobsUntouched, ReqUntouched DEF Work
  <2>2. PICK pc \in {"submit", "complete", "requestApproval"} : Goto(e, pc)
          /\ (pc \in {"checkAgent", "submit"} => exec[e].approval # None)
    BY <1>3 DEF Work, ExecInv
  <2>3. exec[e].pc # "idle"
    BY <1>3 DEF Work
  <2> QED
    BY <2>1, <2>2, <2>3, GotoKeeps DEF ExecPcs
<1>4. CASE CompleteRun(e)
  <2>1. RowsInv' /\ ApprovalsKept /\ QueueInv' /\ ReqInv'
    BY <1>4, RowsUntouched, JobsUntouched, ReqUntouched DEF CompleteRun
  <2>2. PICK pc \in {"completeWrite", "fail"} : Goto(e, pc)
    BY <1>4 DEF CompleteRun, ExecInv
  <2>3. exec[e].pc # "idle"
    BY <1>4 DEF CompleteRun
  <2> QED
    BY <2>1, <2>2, <2>3, GotoKeeps DEF ExecPcs
<1>5. CASE CreateApprovalForRun(e)
  <2>1. RowsInv' /\ ApprovalsKept /\ QueueInv' /\ ReqInv'
    BY <1>5, RowsUntouched, JobsUntouched, ReqUntouched DEF CreateApprovalForRun
  <2>2. PICK pc \in {"createApproval", "waitWrite", "fail"} : Goto(e, pc)
    BY <1>5 DEF CreateApprovalForRun, ExecInv
  <2>3. exec[e].pc # "idle"
    BY <1>5 DEF CreateApprovalForRun
  <2> QED
    BY <2>1, <2>2, <2>3, GotoKeeps DEF ExecPcs
<1>6. CASE TryBlockThrows(e)
  <2>1. RowsInv' /\ ApprovalsKept /\ QueueInv' /\ ReqInv'
    BY <1>6, RowsUntouched, JobsUntouched, ReqUntouched DEF TryBlockThrows
  <2>2. PICK pc \in {"fail", "deny"} : Goto(e, pc)
    BY <1>6 DEF TryBlockThrows, ExecInv
  <2>3. exec[e].pc # "idle"
    BY <1>6 DEF TryBlockThrows, InTryBlock
  <2> QED
    BY <2>1, <2>2, <2>3, GotoKeeps DEF ExecPcs
<1>7. CASE MarkStarted(e)
  <2>1. RowsInv' /\ ApprovalsKept
    BY <1>7, <1>r, SetRunKeeps DEF MarkStarted, RunStatuses
  <2>2. QueueInv' /\ ReqInv'
    BY <1>7, <2>1, JobsUntouched, ReqUntouched DEF MarkStarted
  <2>3. ExecInv'
    BY <1>7, <2>1, GotoKeeps DEF MarkStarted, ExecPcs
  <2> QED
    BY <2>1, <2>2, <2>3
<1>8. CASE WaitForApprovalWrite(e)
  <2>1. RowsInv' /\ ApprovalsKept
    BY <1>8, <1>r, SetRunKeeps DEF WaitForApprovalWrite, RunStatuses
  <2>2. QueueInv' /\ ReqInv'
    BY <1>8, <2>1, JobsUntouched, ReqUntouched DEF WaitForApprovalWrite
  <2>3. ExecInv'
    BY <1>8, <2>1, GotoKeeps DEF WaitForApprovalWrite, ExecPcs
  <2> QED
    BY <2>1, <2>2, <2>3
<1>9. CASE CompleteRunWrite(e)
  <2>1. RowsInv' /\ ApprovalsKept
    BY <1>9, <1>r, SetRunKeeps DEF CompleteRunWrite, RunStatuses, TerminalStatuses
  <2>2. QueueInv' /\ ReqInv'
    BY <1>9, <2>1, JobsUntouched, ReqUntouched DEF CompleteRunWrite
  <2>3. ExecInv'
    BY <1>9, <2>1, GotoReceiptKeeps DEF CompleteRunWrite, ReceiptStatuses
  <2> QED
    BY <2>1, <2>2, <2>3
<1>10. CASE PolicyDenied(e)
  <2>1. RowsInv' /\ ApprovalsKept
    BY <1>10, <1>r, SetRunKeeps DEF PolicyDenied, RunStatuses, TerminalStatuses
  <2>2. QueueInv' /\ ReqInv'
    BY <1>10, <2>1, JobsUntouched, ReqUntouched DEF PolicyDenied
  <2>3. ExecInv'
    BY <1>10, <2>1, GotoReceiptKeeps DEF PolicyDenied, ReceiptStatuses
  <2> QED
    BY <2>1, <2>2, <2>3
<1>11. CASE FailRunWrite(e)
  <2>1. RowsInv' /\ ApprovalsKept
    BY <1>11, <1>r, SetRunKeeps DEF FailRunWrite, RunStatuses, TerminalStatuses
  <2>2. QueueInv' /\ ReqInv'
    BY <1>11, <2>1, JobsUntouched, ReqUntouched DEF FailRunWrite
  <2>3. ExecInv'
    BY <1>11, <2>1, GotoReceiptKeeps DEF FailRunWrite, ReceiptStatuses
  <2> QED
    BY <2>1, <2>2, <2>3
<1>12. CASE SubmitDowngrade(e)
  <2>0. exec[e].approval \in Approvals
    BY <1>12 DEF SubmitDowngrade, ExecInv, ExecRecord
  <2>1. RowsInv' /\ ApprovalsKept
    BY <1>12, <2>0 DEF SubmitDowngrade, RowsInv, ApprovalsKept
  <2>2. QueueInv' /\ ReqInv'
    BY <1>12, <2>1, JobsUntouched, ReqUntouched DEF SubmitDowngrade
  <2>3. ExecInv'
    BY <1>12, <2>1, GotoKeeps DEF SubmitDowngrade, ExecPcs
  <2> QED
    BY <2>1, <2>2, <2>3
<1>13. CASE CreateApprovalWrite(e)
  <2>1. PICK a \in Approvals, expiresAt \in Expiries :
          /\ approval[a].status = Absent
          /\ approval' = [approval EXCEPT ![a] = Request("pending", exec[e].run, expiresAt)]
    BY <1>13 DEF CreateApprovalWrite
  <2>2. exec[e].run \in Runs /\ exec[e].run # None
    BY <1>13, <1>r, LifecycleAssumption DEF CreateApprovalWrite, LifecycleAssumption
  <2>3. approval' \in [Approvals -> ApprovalRecord]
    BY <2>1, <2>2, LifecycleAssumption
       DEF RowsInv, Request, ApprovalRecord, ApprovalStatuses, LifecycleAssumption
  <2>4. RowsInv' /\ ApprovalsKept
    BY <1>13, <2>1, <2>2, <2>3
       DEF CreateApprovalWrite, RowsInv, Request, Absent, history, ApprovalsKept
  <2>5. QueueInv' /\ ReqInv'
    BY <1>13, <2>4, JobsUntouched, ReqUntouched DEF CreateApprovalWrite
  <2>6. ExecInv'
    BY <1>13, <2>4, GotoKeeps DEF CreateApprovalWrite, ExecPcs
  <2> QED
    BY <2>4, <2>5, <2>6
<1>14. CASE CreateReceipt(e)
  <2>1. RowsInv' /\ ApprovalsKept
    BY <1>14, <1>r DEF CreateReceipt, RowsInv, ExecInv, history, ApprovalsKept
  <2>2. QueueInv' /\ ReqInv'
    BY <1>14, <2>1, JobsUntouched, ReqUntouched DEF CreateReceipt
  <2>3. ExecInv'
    BY <1>14, <2>1, GotoKeeps DEF CreateReceipt, ExecPcs
  <2> QED
    BY <2>1, <2>2, <2>3
<1>q. (Return(e) \/ Throw(e)) /\ exec[e].pc # "idle" /\ ApprovalsKept => QueueInv' /\ ExecInv'
  BY JobOfCallback, JobStepKeeps, IdleKeeps DEF Return, Throw, JobStep
<1>15. CASE FindExecutableRun(e)
  <2>1. RowsInv' /\ ApprovalsKept /\ ReqInv'
    BY <1>15, RowsUntouched, ReqUntouched DEF FindExecutableRun
  <2>2. CASE UNCHANGED jobs /\ \E pc \in {"markStarted", "checkApproval"} : Goto(e, pc)
          /\ (pc = "checkApproval" => exec[e].approval # None)
    BY <1>15, <2>1, <2>2, GotoKeeps, JobsUntouched DEF FindExecutableRun, ExecPcs
  <2> QED
    BY <1>15, <1>q, <2>1, <2>2 DEF FindExecutableRun, Throw
<1>16. CASE CheckCanceled(e)
  <2>1. RowsInv' /\ ApprovalsKept /\ ReqInv'
    BY <1>16, RowsUntouched, ReqUntouched DEF CheckCanceled
  <2>2. CASE UNCHANGED jobs /\ \E pc \in {"work"} : Goto(e, pc)
    BY <1>16, <2>1, <2>2, GotoKeeps, JobsUntouched DEF CheckCanceled, ExecPcs
  <2> QED
    BY <1>16, <1>q, <2>1, <2>2 DEF CheckCanceled, Throw
<1>17. CASE ReturnFromCallback(e)
  BY <1>17, <1>q, RowsUntouched, ReqUntouched DEF ReturnFromCallback
<1>18. CASE FailRun(e)
  <2>1. RowsInv' /\ ApprovalsKept /\ ReqInv'
    BY <1>18, RowsUntouched, ReqUntouched DEF FailRun
  <2>2. CASE UNCHANGED jobs /\ \E pc \in {"failWrite"} : Goto(e, pc)
    BY <1>18, <2>1, <2>2, GotoKeeps, JobsUntouched DEF FailRun, ExecPcs
  <2> QED
    BY <1>18, <1>q, <2>1, <2>2 DEF FailRun, Throw
<1>19. CASE UncaughtError(e)
  <2>1. RowsInv' /\ ApprovalsKept
    BY <1>19, LifecycleAssumption
       DEF LifecycleAssumption, UncaughtError, Fault, RowsInv, history, ApprovalsKept
  <2> QED
    BY <1>19, <1>q, <2>1, ReqUntouched DEF UncaughtError
<1> QED
  BY <1>1, <1>2, <1>3, <1>4, <1>5, <1>6, <1>7, <1>8, <1>9, <1>10, <1>11, <1>12, <1>13, <1>14,
     <1>15, <1>16, <1>17, <1>18, <1>19 DEF ExecStep
-----------------------------------------------------------------------------
LEMMA ReqStepType ==
  ASSUME TypeInv, NEW q \in Requests, Call(q) \/ ReqStep(q) \/ Abort(q)
  PROVE  TypeInv'
<1> USE DEF TypeInv
<1>r. req[q].pc # "idle" => req[q].run \in Runs
  BY DEF ReqInv
<1>1. ASSUME NEW r \in Runs, StartRun(q, r) PROVE TypeInv'
  <2>1. RowsInv' /\ ApprovalsKept
    BY <1>1, SetRunKeeps DEF StartRun, RunStatuses
  <2>2. QueueInv' /\ ExecInv'
    BY <1>1, <2>1, JobsUntouched, ExecUntouched DEF StartRun
  <2>3. ReqInv'
    BY <1>1, <2>1, BeginKeeps DEF StartRun, ReqPcs, DecisionPcs
  <2> QED
    BY <2>1, <2>2, <2>3
<1>2. ASSUME NEW r \in Runs, Cancel(q, r) PROVE TypeInv'
  <2>1. RowsInv' /\ ApprovalsKept /\ QueueInv' /\ ExecInv'
    BY <1>2, RowsUntouched, JobsUntouched, ExecUntouched DEF Cancel
  <2>2. run[r] \in RunStatuses
    BY <1>2 DEF Cancel, RowsInv
  <2>3. ReqInv'
    BY <1>2, <2>1, <2>2, BeginKeeps DEF Cancel, ReqPcs, DecisionPcs
  <2> QED
    BY <2>1, <2>3
<1>3. ASSUME NEW a \in Approvals, ExpireDue(q, a)
        \/ \E d \in {"approved", "rejected"} : Decide(q, a, d)
      PROVE TypeInv'
  <2>1. RowsInv' /\ ApprovalsKept /\ QueueInv' /\ ExecInv'
    BY <1>3, RowsUntouched, JobsUntouched, ExecUntouched DEF ExpireDue, Decide
  <2>2. PICK pc \in {"decideRun", "expireWrite"}, arg \in Decisions \cup {Absent} :
          /\ Begin(q, pc, approval[a].run, a, arg)
          /\ pc = "decideRun" => arg \in Decisions
    BY <1>3 DEF ExpireDue, Decide, Decisions
  <2>3. approval[a].status # Absent /\ approval[a].run \in Runs
    BY <1>3 DEF ExpireDue, Decide, RowsInv, ApprovalRecord, Absent
  <2>4. ReqInv'
    BY <2>1, <2>2, <2>3, BeginKeeps DEF ReqPcs, DecisionPcs
  <2> QED
    BY <2>1, <2>4
<1>4. CASE EnqueueStart(q)
  <2>1. RowsInv' /\ ApprovalsKept /\ ExecInv'
    BY <1>4, RowsUntouched, ExecUntouched DEF EnqueueStart
  <2>2. QueueInv'
    BY <1>4, <1>r, <2>1, JobIdsDiffer, JobStepKeeps DEF EnqueueStart, At, JobStep
  <2>3. ReqInv'
    BY <1>4, <2>1, RespondKeeps DEF EnqueueStart
  <2> QED
    BY <2>1, <2>2, <2>3
<1>5. CASE CancelSignal(q)
  <2>1. RowsInv' /\ ApprovalsKept /\ ExecInv'
    BY <1>5, RowsUntouched, ExecUntouched DEF CancelSignal
  <2>2. QueueInv'
    BY <1>5, <1>r, <2>1, JobIdsDiffer, JobStepKeeps DEF CancelSignal, At, JobStep
  <2>3. ReqInv'
    BY <1>5, <2>1, ContinueKeeps DEF CancelSignal, At, ReqPcs, DecisionPcs
  <2> QED
    BY <2>1, <2>2, <2>3
<1>6. CASE CancelWrite(q)
  <2>1. RowsInv' /\ ApprovalsKept
    BY <1>6, <1>r, SetRunKeeps DEF CancelWrite, At, RunStatuses, TerminalStatuses
  <2> QED
    BY <1>6, <2>1, JobsUntouched, ExecUntouched, RespondKeeps DEF CancelWrite
<1>7. CASE DecideRunWrite(q)
  <2>1. RowsInv' /\ ApprovalsKept
    BY <1>7, <1>r, SetRunKeeps DEF DecideRunWrite, At, RunStatuses, TerminalStatuses, Outcome
  <2> QED
    BY <1>7, <2>1, JobsUntouched, ExecUntouched, RespondKeeps DEF DecideRunWrite
<1>8. CASE ExpireRunWrite(q)
  <2>1. RowsInv' /\ ApprovalsKept
    BY <1>8, <1>r, SetRunKeeps DEF ExpireRunWrite, At, RunStatuses, TerminalStatuses
  <2> QED
    BY <1>8, <2>1, JobsUntouched, ExecUntouched, RespondKeeps DEF ExpireRunWrite
<1>9. CASE DecideRun(q)
  <2>1. RowsInv' /\ ApprovalsKept /\ QueueInv' /\ ExecInv'
    BY <1>9, RowsUntouched, JobsUntouched, ExecUntouched DEF DecideRun
  <2>2. ReqInv'
    BY <1>9, <2>1, ContinueKeeps, RespondKeeps DEF DecideRun, At, ReqPcs, DecisionPcs, ReqInv
  <2> QED
    BY <2>1, <2>2
<1>10. CASE ExpireRun(q)
  <2>1. RowsInv' /\ ApprovalsKept /\ QueueInv' /\ ExecInv'
    BY <1>10, RowsUntouched, JobsUntouched, ExecUntouched DEF ExpireRun
  <2>2. ReqInv'
    BY <1>10, <2>1, ContinueKeeps, RespondKeeps DEF ExpireRun, At, ReqPcs, DecisionPcs, ReqInv
  <2> QED
    BY <2>1, <2>2
<1>11. CASE DecideWrite(q)
  <2>1. req[q].pc = "decideWrite" /\ req[q].approval \in Approvals /\ req[q].arg \in Decisions
        /\ approval[req[q].approval].status # Absent
    BY <1>11 DEF DecideWrite, At, ReqInv, DecisionPcs
  <2>2. approval' \in [Approvals -> ApprovalRecord]
    BY <1>11, <2>1 DEF DecideWrite, RowsInv, ApprovalRecord, ApprovalStatuses, Decisions
  <2>3. \A a \in Approvals :
          /\ approval'[a].run = approval[a].run
          /\ approval'[a].status = Absent <=> approval[a].status = Absent
    BY <1>11, <2>1 DEF DecideWrite, RowsInv, ApprovalRecord, Absent, Decisions
  <2>4. RowsInv' /\ ApprovalsKept
    BY <1>11, <2>1, <2>2, <2>3 DEF DecideWrite, RowsInv, ApprovalsKept
  <2>5. QueueInv' /\ ExecInv'
    BY <1>11, <2>4, JobsUntouched, ExecUntouched DEF DecideWrite
  <2>6. PICK pc \in {"enqueueResume", "decideRunWrite"} : Continue(q, pc)
    BY <1>11 DEF DecideWrite
  <2>7. ReqInv'
    BY <2>1, <2>4, <2>6, ContinueKeeps DEF ReqPcs, DecisionPcs
  <2> QED
    BY <2>4, <2>5, <2>7
<1>12. CASE EnqueueResume(q)
  <2>1. RowsInv' /\ ApprovalsKept /\ ExecInv'
    BY <1>12, RowsUntouched, ExecUntouched DEF EnqueueResume
  <2>2. req[q].pc = "enqueueResume" /\ req[q].approval \in Approvals /\ req[q].arg \in Decisions
        /\ approval[req[q].approval].status # Absent
    BY <1>12 DEF EnqueueResume, At, ReqInv, DecisionPcs
  <2>3. QueueInv'
    BY <1>12, <2>1, <2>2, JobIdsDiffer, JobStepKeeps DEF EnqueueResume, JobStep
  <2>4. ReqInv'
    BY <1>12, <2>1, <2>2, ContinueKeeps DEF EnqueueResume, ReqPcs, DecisionPcs
  <2> QED
    BY <2>1, <2>3, <2>4
<1>13. CASE ExpireWrite(q)
  <2>1. req[q].pc = "expireWrite" /\ req[q].approval \in Approvals
        /\ approval[req[q].approval].status # Absent
    BY <1>13 DEF ExpireWrite, At, ReqInv, DecisionPcs
  <2>2. RowsInv' /\ ApprovalsKept
    BY <1>13, <2>1
       DEF ExpireWrite, RowsInv, ApprovalRecord, ApprovalStatuses, Absent, history, ApprovalsKept
  <2>3. QueueInv' /\ ExecInv'
    BY <1>13, <2>2, JobsUntouched, ExecUntouched DEF ExpireWrite
  <2>4. ReqInv'
    BY <1>13, <2>1, <2>2, ContinueKeeps DEF ExpireWrite, ReqPcs, DecisionPcs
  <2> QED
    BY <2>2, <2>3, <2>4
<1>14. CASE Abort(q)
  <2>1. RowsInv' /\ ApprovalsKept
    BY <1>14, LifecycleAssumption
       DEF LifecycleAssumption, Abort, Fault, RowsInv, history, ApprovalsKept
  <2> QED
    BY <1>14, <2>1, JobsUntouched, ExecUntouched, RespondKeeps DEF Abort
<1> QED
  BY <1>1, <1>2, <1>3, <1>4, <1>5, <1>6, <1>7, <1>8, <1>9, <1>10, <1>11, <1>12, <1>13, <1>14
     DEF Call, ReqStep
-----------------------------------------------------------------------------
LEMMA TypeStep == TypeInv /\ [Next]_vars => TypeInv'
<1> SUFFICES ASSUME TypeInv, [Next]_vars PROVE TypeInv'
  OBVIOUS
<1> USE DEF TypeInv
<1>1. ASSUME NEW r \in Runs, TakeStart(r) PROVE TypeInv'
  <2>1. RowsInv' /\ ApprovalsKept /\ ReqInv'
    BY <1>1, RowsUntouched, ReqUntouched DEF TakeStart
  <2>2. QueueInv'
    BY <1>1, <2>1, JobIdsDiffer, JobStepKeeps DEF TakeStart, JobStep
  <2>3. ExecInv'
    BY <1>1 DEF TakeStart, ExecInv, Callback, ExecRecord, ExecPcs, Executors, Absent
  <2> QED
    BY <2>1, <2>2, <2>3
<1>2. ASSUME NEW a \in Approvals, TakeResume(a) PROVE TypeInv'
  <2>1. RowsInv' /\ ApprovalsKept
    BY <1>2 DEF TakeResume, RowsInv, ApprovalsKept
  <2>2. approval[a].status # Absent /\ approval[a].run \in Runs
    BY <1>2 DEF TakeResume, Queue!Deliver, QueueInv, RowsInv, ApprovalRecord
  <2>3. QueueInv' /\ ReqInv'
    BY <1>2, <2>1, <2>2, JobIdsDiffer, JobStepKeeps, ReqUntouched DEF TakeResume, JobStep
  <2>4. ExecInv'
    BY <1>2, <2>2 DEF TakeResume, ExecInv, Callback, ExecRecord, ExecPcs, Executors, Absent
  <2> QED
    BY <2>1, <2>3, <2>4
<1>3. ASSUME NEW a \in Approvals, ForgetResumeJob(a) PROVE TypeInv'
  <2>1. RowsInv' /\ ApprovalsKept /\ ReqInv' /\ ExecInv'
    BY <1>3, RowsUntouched, ReqUntouched, ExecUntouched DEF ForgetResumeJob
  <2>2. approval[a].status # Absent
    BY <1>3 DEF ForgetResumeJob, Queue!Forget, QueueInv
  <2> QED
    BY <1>3, <2>1, <2>2, JobIdsDiffer, JobStepKeeps DEF ForgetResumeJob, JobStep
<1>4. ASSUME NEW a \in Approvals, DeadlinePasses(a) PROVE TypeInv'
  <2>1. RowsInv' /\ ApprovalsKept
    BY <1>4 DEF DeadlinePasses, RowsInv, ApprovalRecord, history, ApprovalsKept
  <2> QED
    BY <1>4, <2>1, JobsUntouched, ExecUntouched, ReqUntouched DEF DeadlinePasses
<1>5. CASE WorkerCrash
  <2>1. RowsInv' /\ ApprovalsKept
    BY <1>5, LifecycleAssumption
       DEF LifecycleAssumption, WorkerCrash, Fault, RowsInv, history, ApprovalsKept
  <2>2. ExecInv'
    BY <1>5 DEF WorkerCrash, ExecInv, IdleExec, Callback, ExecRecord, Executors, Absent
  <2> QED
    BY <1>5, <2>1, <2>2, JobsUntouched, ReqUntouched DEF WorkerCrash
<1>6. ASSUME NEW j \in JobIds, StalledJob(j) PROVE TypeInv'
  <2>1. RowsInv' /\ ApprovalsKept /\ ReqInv' /\ ExecInv'
    BY <1>6, RowsUntouched, ReqUntouched, ExecUntouched DEF StalledJob
  <2> QED
    BY <1>6, <2>1, JobStepKeeps DEF StalledJob, JobStep, QueueInv
<1>7. CASE UNCHANGED vars
  BY <1>7, RowsUntouched, JobsUntouched, ExecUntouched, ReqUntouched DEF vars, history
<1> QED
  BY <1>1, <1>2, <1>3, <1>4, <1>5, <1>6, <1>7, ReqStepType, ExecStepType DEF Next

\* Every row, job and call keeps its type, and a call in flight names the rows
\* it is about, whatever is retried, redelivered, decided or crashes.
THEOREM TypeCorrect == Spec => []TypeOK
<1>1. Spec => []TypeInv
  BY TypeInit, TypeStep, PTL DEF Spec
<1> QED
  BY <1>1, TypeInvGivesTypeOK, PTL
=============================================================================
