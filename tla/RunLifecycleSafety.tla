-------------------------- MODULE RunLifecycleSafety --------------------------
(***************************************************************************)
(* What RunLifecycle guarantees about the vendor, for any number of runs,  *)
(* approvals, calls, attempts and faults: submissions need a grant, each   *)
(* delivery submits at most once, and nothing is reported as done that was *)
(* not submitted.  Hence the lifecycle implements ApprovalGate.  Then: a   *)
(* start job that is done leaves no queued run behind, what is settled is  *)
(* final, and a fault strands no more than one run or grant.               *)
(***************************************************************************)
EXTENDS RunLifecycleProofs, FiniteSetTheorems

\* pcs of a resume callback that has passed assertApprovalCanResume.
CheckedPcs == {"checkAgent", "markStarted", "checkCanceled", "work", "submit",
               "complete", "completeWrite"}

\* pcs of a resume callback that has not clicked yet.
UnsubmittedPcs == {"find", "checkApproval", "checkAgent", "markStarted", "checkCanceled",
                   "work", "submit"}

Reports(e) ==
  \/ exec[e].pc \in {"complete", "completeWrite"}
  \/ exec[e].pc = "receipt" /\ exec[e].final = "completed"

(***************************************************************************)
(* None of the safety properties is inductive: they hold because of where  *)
(* each callback stands.  A callback past the approval check holds a       *)
(* granted approval, one that has not clicked has a delivery to spend, and *)
(* one that is about to report a downgrade has clicked.                    *)
(***************************************************************************)
CallbacksSafe ==
  \A e \in Executors :
    /\ exec[e].approval # None =>
         /\ exec[e].pc \in CheckedPcs => exec[e].approval \in granted
         /\ exec[e].pc \in UnsubmittedPcs =>
              submitted[exec[e].approval] < delivered[exec[e].approval]
    /\ (Reports(e) /\ Template[exec[e].run] = "plan_downgrade") =>
         exec[e].approval # None /\ submitted[exec[e].approval] > 0

\* The approval rows remember the grants the model counts.
GrantsRecorded ==
  \A a \in Approvals : approval[a].approvedAt = "in_time" => a \in granted

SafeInv ==
  /\ GrantsRecorded
  /\ CallbacksSafe
  /\ SubmittedOnlyIfGranted
  /\ SubmittedOncePerDelivery
  /\ CompletedOnlyIfSubmitted
-----------------------------------------------------------------------------
(* The rows. *)

NothingNewDone ==
  \A r \in Runs : "completed" \in {run'[r], receipt'[r]} => "completed" \in {run[r], receipt[r]}

RecordsKept ==
  /\ GrantsRecorded /\ SubmittedOnlyIfGranted /\ SubmittedOncePerDelivery
  /\ CompletedOnlyIfSubmitted

LEMMA NothingDone ==
  ASSUME RowsInv, UNCHANGED receipt,
         UNCHANGED run \/ \E r \in Runs, s \in RunStatuses \ {"completed"} : SetRun(r, s)
  PROVE  NothingNewDone
BY DEF NothingNewDone, SetRun, RowsInv

LEMMA DoneKept ==
  ASSUME RowsInv, CompletedOnlyIfSubmitted, ApprovalsKept, NothingNewDone,
         \A a \in Approvals : submitted[a] > 0 => submitted'[a] > 0
  PROVE  CompletedOnlyIfSubmitted'
<1>1. ASSUME NEW r \in Runs, Submitted(r) PROVE Submitted(r)'
  <2>1. PICK a \in Approvals : approval[a].run = r /\ submitted[a] > 0
    BY <1>1 DEF Submitted
  <2>2. approval[a].status # Absent
    BY <2>1, LifecycleAssumption DEF RowsInv, LifecycleAssumption
  <2> QED
    BY <2>1, <2>2 DEF Submitted, ApprovalsKept
<1> QED
  BY <1>1 DEF CompletedOnlyIfSubmitted, NothingNewDone

\* A step that leaves the approval rows and the counters alone.
LEMMA RecordsUntouched ==
  ASSUME RowsInv, RecordsKept, UNCHANGED <<approval, history>>, NothingNewDone
  PROVE  RecordsKept'
<1>1. CompletedOnlyIfSubmitted'
  BY DoneKept, ApprovalUntouched DEF history, RecordsKept
<1> QED
  BY <1>1 DEF RecordsKept, GrantsRecorded, SubmittedOnlyIfGranted, SubmittedOncePerDelivery, history
-----------------------------------------------------------------------------
(* The callbacks. *)

LEMMA GotoSafe ==
  ASSUME exec \in [Executors -> ExecRecord], CallbacksSafe, UNCHANGED history,
         NEW e \in Executors, NEW pc \in ExecPcs \ {"receipt"}, Goto(e, pc),
         pc \in CheckedPcs /\ exec[e].approval # None => exec[e].approval \in granted,
         pc \in UnsubmittedPcs => exec[e].pc \in UnsubmittedPcs,
         pc \in {"complete", "completeWrite"} =>
           Reports(e) \/ Template[exec[e].run] # "plan_downgrade"
  PROVE  CallbacksSafe'
BY DEF CallbacksSafe, Goto, ExecRecord, history, Reports

LEMMA GotoReceiptSafe ==
  ASSUME exec \in [Executors -> ExecRecord], CallbacksSafe, UNCHANGED history,
         NEW e \in Executors, NEW final \in ReceiptStatuses, GotoReceipt(e, final),
         final = "completed" => Reports(e)
  PROVE  CallbacksSafe'
<1>1. /\ exec'[e].pc = "receipt" /\ exec'[e].final = final
      /\ exec'[e].run = exec[e].run /\ exec'[e].approval = exec[e].approval
  BY DEF GotoReceipt, ExecRecord
<1>2. \A x \in Executors \ {e} : exec'[x] = exec[x]
  BY DEF GotoReceipt
<1> QED
  BY <1>1, <1>2 DEF CallbacksSafe, history, Reports, CheckedPcs, UnsubmittedPcs

LEMMA IdleSafe ==
  ASSUME exec \in [Executors -> ExecRecord], CallbacksSafe, UNCHANGED history,
         NEW e \in Executors, exec' = [exec EXCEPT ![e] = IdleExec]
  PROVE  CallbacksSafe'
BY DEF CallbacksSafe, history, Reports, CheckedPcs, UnsubmittedPcs, IdleExec, Callback

LEMMA ExecUntouchedSafe ==
  ASSUME CallbacksSafe, UNCHANGED <<exec, submitted, delivered>>, granted \subseteq granted'
  PROVE  CallbacksSafe'
BY DEF CallbacksSafe, Reports
-----------------------------------------------------------------------------
LEMMA ExecStepSafe ==
  ASSUME TypeInv, SafeInv, NEW e \in Executors, ExecStep(e) \/ UncaughtError(e)
  PROVE  SafeInv'
<1> USE DEF TypeInv
<1>s. /\ RecordsKept /\ CallbacksSafe /\ exec \in [Executors -> ExecRecord]
      /\ exec[e].pc # "idle" => exec[e].run \in Runs
  BY DEF SafeInv, RecordsKept, ExecInv
<1>g. exec[e].pc \in CheckedPcs /\ exec[e].approval # None => exec[e].approval \in granted
  BY <1>s DEF CallbacksSafe
<1>u. RecordsKept' /\ CallbacksSafe' => SafeInv'
  BY DEF SafeInv, RecordsKept
<1>1. CASE AssertAgentActiveForResume(e)
  <2>1. RecordsKept'
    BY <1>1, <1>s, NothingDone, RecordsUntouched DEF AssertAgentActiveForResume
  <2>2. PICK pc \in {"markStarted", "fail"} : Goto(e, pc)
    BY <1>1 DEF AssertAgentActiveForResume
  <2>3. CallbacksSafe'
    BY <1>1, <1>s, <1>g, <2>2, GotoSafe
       DEF AssertAgentActiveForResume, CheckedPcs, UnsubmittedPcs, ExecPcs
  <2> QED
    BY <1>u, <2>1, <2>3
<1>2. CASE CreateApprovalForRun(e)
  <2>1. RecordsKept'
    BY <1>2, <1>s, NothingDone, RecordsUntouched DEF CreateApprovalForRun
  <2>2. PICK pc \in {"createApproval", "waitWrite", "fail"} : Goto(e, pc)
    BY <1>2 DEF CreateApprovalForRun
  <2>3. CallbacksSafe'
    BY <1>2, <1>s, <1>g, <2>2, GotoSafe
       DEF CreateApprovalForRun, CheckedPcs, UnsubmittedPcs, ExecPcs
  <2> QED
    BY <1>u, <2>1, <2>3
<1>3. CASE TryBlockThrows(e)
  <2>1. RecordsKept'
    BY <1>3, <1>s, NothingDone, RecordsUntouched DEF TryBlockThrows
  <2>2. PICK pc \in {"fail", "deny"} : Goto(e, pc)
    BY <1>3 DEF TryBlockThrows
  <2>3. CallbacksSafe'
    BY <1>3, <1>s, <1>g, <2>2, GotoSafe DEF TryBlockThrows, CheckedPcs, UnsubmittedPcs, ExecPcs
  <2> QED
    BY <1>u, <2>1, <2>3
<1>4. CASE AssertApprovalCanResume(e)
  <2>1. RecordsKept'
    BY <1>4, <1>s, NothingDone, RecordsUntouched DEF AssertApprovalCanResume
  <2>2. CASE /\ Goto(e, "checkAgent")
             /\ approval[exec[e].approval].approvedAt = "in_time"
    <3>1. exec[e].approval \in granted
      BY <1>4, <1>s, <2>2
         DEF AssertApprovalCanResume, ExecInv, ExecRecord, RecordsKept, GrantsRecorded
    <3> QED
      BY <1>4, <1>s, <1>u, <2>1, <2>2, <3>1, GotoSafe
         DEF AssertApprovalCanResume, CheckedPcs, UnsubmittedPcs, ExecPcs
  <2>3. CASE Goto(e, "fail")
    BY <1>4, <1>s, <1>u, <2>1, <2>3, GotoSafe
       DEF AssertApprovalCanResume, CheckedPcs, UnsubmittedPcs, ExecPcs
  <2> QED
    BY <1>4, <2>2, <2>3 DEF AssertApprovalCanResume
<1>5. CASE Work(e)
  <2>1. RecordsKept'
    BY <1>5, <1>s, NothingDone, RecordsUntouched DEF Work
  <2>2. PICK pc \in {"submit", "complete", "requestApproval"} :
          /\ Goto(e, pc)
          /\ pc = "complete" => exec[e].approval = None /\ Template[exec[e].run] = "read_only"
    BY <1>5 DEF Work
  <2>3. CallbacksSafe'
    BY <1>5, <1>s, <1>g, <2>2, GotoSafe DEF Work, CheckedPcs, UnsubmittedPcs, ExecPcs
  <2> QED
    BY <1>u, <2>1, <2>3
<1>6. CASE CompleteRun(e)
  <2>1. RecordsKept'
    BY <1>6, <1>s, NothingDone, RecordsUntouched DEF CompleteRun
  <2>2. PICK pc \in {"completeWrite", "fail"} : Goto(e, pc)
    BY <1>6 DEF CompleteRun
  <2>3. CallbacksSafe'
    BY <1>6, <1>s, <1>g, <2>2, GotoSafe
       DEF CompleteRun, CheckedPcs, UnsubmittedPcs, ExecPcs, Reports
  <2> QED
    BY <1>u, <2>1, <2>3
<1>7. CASE MarkStarted(e)
  <2>1. NothingNewDone
    BY <1>7, <1>s, NothingDone DEF MarkStarted, RunStatuses
  <2>2. RecordsKept'
    BY <1>7, <1>s, <2>1, RecordsUntouched DEF MarkStarted
  <2>3. PICK pc \in {"checkCanceled", "work"} : Goto(e, pc)
    BY <1>7 DEF MarkStarted
  <2>4. CallbacksSafe'
    BY <1>7, <1>s, <1>g, <2>3, GotoSafe DEF MarkStarted, CheckedPcs, UnsubmittedPcs, ExecPcs
  <2> QED
    BY <1>u, <2>2, <2>4
<1>8. CASE WaitForApprovalWrite(e)
  <2>1. NothingNewDone
    BY <1>8, <1>s, NothingDone DEF WaitForApprovalWrite, RunStatuses
  <2>2. RecordsKept'
    BY <1>8, <1>s, <2>1, RecordsUntouched DEF WaitForApprovalWrite
  <2>3. PICK pc \in {"createApproval"} : Goto(e, pc)
    BY <1>8 DEF WaitForApprovalWrite
  <2>4. CallbacksSafe'
    BY <1>8, <1>s, <1>g, <2>3, GotoSafe
       DEF WaitForApprovalWrite, CheckedPcs, UnsubmittedPcs, ExecPcs
  <2> QED
    BY <1>u, <2>2, <2>4
<1>9. CASE PolicyDenied(e)
  <2>1. NothingNewDone
    BY <1>9, <1>s, NothingDone DEF PolicyDenied, RunStatuses, TerminalStatuses
  <2>2. RecordsKept'
    BY <1>9, <1>s, <2>1, RecordsUntouched DEF PolicyDenied
  <2>3. CallbacksSafe'
    BY <1>9, <1>s, GotoReceiptSafe DEF PolicyDenied, ReceiptStatuses
  <2> QED
    BY <1>u, <2>2, <2>3
<1>10. CASE FailRunWrite(e)
  <2>1. NothingNewDone
    BY <1>10, <1>s, NothingDone DEF FailRunWrite, RunStatuses, TerminalStatuses
  <2>2. RecordsKept'
    BY <1>10, <1>s, <2>1, RecordsUntouched DEF FailRunWrite
  <2>3. CallbacksSafe'
    BY <1>10, <1>s, GotoReceiptSafe DEF FailRunWrite, ReceiptStatuses
  <2> QED
    BY <1>u, <2>2, <2>3
<1>11. CASE CompleteRunWrite(e)
  <2>1. Template[exec[e].run] = "plan_downgrade" => Submitted(exec[e].run)
    BY <1>11, <1>s DEF CompleteRunWrite, CallbacksSafe, Reports, Submitted, ExecInv, ExecRecord
  <2>2. CompletedOnlyIfSubmitted'
    BY <1>11, <1>s, <2>1
       DEF CompleteRunWrite, SetRun, RecordsKept, CompletedOnlyIfSubmitted, Submitted, RowsInv,
           history
  <2>3. RecordsKept'
    BY <1>11, <1>s, <2>2
       DEF CompleteRunWrite, RecordsKept, GrantsRecorded, SubmittedOnlyIfGranted,
           SubmittedOncePerDelivery, history
  <2>4. CallbacksSafe'
    BY <1>11, <1>s, GotoReceiptSafe DEF CompleteRunWrite, ReceiptStatuses, Reports
  <2> QED
    BY <1>u, <2>3, <2>4
<1>12. CASE CreateReceipt(e)
  <2>1. exec[e].final = "completed"
          /\ Template[exec[e].run] = "plan_downgrade" => Submitted(exec[e].run)
    BY <1>12, <1>s DEF CreateReceipt, CallbacksSafe, Reports, Submitted, ExecInv, ExecRecord
  <2>2. CompletedOnlyIfSubmitted'
    BY <1>12, <1>s, <2>1
       DEF CreateReceipt, RecordsKept, CompletedOnlyIfSubmitted, Submitted, RowsInv, history
  <2>3. RecordsKept'
    BY <1>12, <1>s, <2>2
       DEF CreateReceipt, RecordsKept, GrantsRecorded, SubmittedOnlyIfGranted,
           SubmittedOncePerDelivery, history
  <2>4. CallbacksSafe'
    BY <1>12, <1>s, GotoSafe DEF CreateReceipt, CheckedPcs, UnsubmittedPcs, ExecPcs
  <2> QED
    BY <1>u, <2>3, <2>4
<1>13. CASE CreateApprovalWrite(e)
  <2>1. PICK a \in Approvals, expiresAt \in Expiries :
          /\ approval[a].status = Absent
          /\ approval' = [approval EXCEPT ![a] = Request("pending", exec[e].run, expiresAt)]
    BY <1>13 DEF CreateApprovalWrite
  <2>2. GrantsRecorded' /\ ApprovalsKept
    BY <1>13, <1>s, <2>1
       DEF CreateApprovalWrite, RecordsKept, GrantsRecorded, RowsInv, Request, history,
           ApprovalsKept
  <2>3. CompletedOnlyIfSubmitted'
    BY <1>13, <1>s, <2>2, NothingDone, DoneKept DEF CreateApprovalWrite, RecordsKept, history
  <2>4. RecordsKept'
    BY <1>13, <1>s, <2>2, <2>3
       DEF CreateApprovalWrite, RecordsKept, SubmittedOnlyIfGranted, SubmittedOncePerDelivery,
           history
  <2>5. PICK pc \in {"return", "fail"} : Goto(e, pc)
    BY <1>13 DEF CreateApprovalWrite
  <2>6. CallbacksSafe'
    BY <1>13, <1>s, <2>5, GotoSafe DEF CreateApprovalWrite, CheckedPcs, UnsubmittedPcs, ExecPcs
  <2> QED
    BY <1>u, <2>4, <2>6
<1>14. CASE SubmitDowngrade(e)
  <2> DEFINE a == exec[e].approval
  <2>1. /\ exec[e].pc = "submit" /\ a \in Approvals /\ a # None
        /\ a \in granted /\ submitted[a] < delivered[a]
    BY <1>14, <1>s, <1>g
       DEF SubmitDowngrade, ExecInv, ExecRecord, CheckedPcs, UnsubmittedPcs, CallbacksSafe
  <2>2. /\ submitted'[a] = submitted[a] + 1
        /\ \A b \in Approvals \ {a} : submitted'[b] = submitted[b]
    BY <1>14, <2>1 DEF SubmitDowngrade, RowsInv
  <2>3. submitted \in [Approvals -> Nat] /\ delivered \in [Approvals -> Nat]
    BY DEF RowsInv
  <2>4. CompletedOnlyIfSubmitted'
    BY <1>14, <1>s, <2>2, <2>3, NothingDone, DoneKept, ApprovalUntouched
       DEF SubmitDowngrade, RecordsKept
  <2>5. RecordsKept'
    BY <1>14, <1>s, <2>1, <2>2, <2>3, <2>4
       DEF SubmitDowngrade, RecordsKept, GrantsRecorded, SubmittedOnlyIfGranted,
           SubmittedOncePerDelivery
  <2>6. /\ exec'[e].pc = "complete" /\ exec'[e].run = exec[e].run /\ exec'[e].approval = a
        /\ \A x \in Executors \ {e} : exec'[x] = exec[x]
    BY <1>14, <1>s DEF SubmitDowngrade, Goto, ExecRecord
  <2>7. \A x \in Executors \ {e} : exec[x].approval # a
    BY <2>1 DEF ExecInv, Executors
  <2>8. CallbacksSafe'
    BY <1>14, <1>s, <2>1, <2>2, <2>3, <2>6, <2>7
       DEF SubmitDowngrade, CallbacksSafe, CheckedPcs, UnsubmittedPcs, Reports, ExecRecord
  <2> QED
    BY <1>u, <2>5, <2>8
<1>15. CASE FindExecutableRun(e)
  <2>1. RecordsKept'
    BY <1>15, <1>s, NothingDone, RecordsUntouched DEF FindExecutableRun
  <2>2. CASE \E pc \in {"markStarted", "checkApproval"} : Goto(e, pc)
          /\ (pc = "markStarted" => exec[e].approval = None)
    BY <1>15, <1>s, <1>g, <1>u, <2>1, <2>2, GotoSafe
       DEF FindExecutableRun, CheckedPcs, UnsubmittedPcs, ExecPcs
  <2>3. CASE exec' = [exec EXCEPT ![e] = IdleExec]
    BY <1>15, <1>s, <1>u, <2>1, <2>3, IdleSafe DEF FindExecutableRun
  <2> QED
    BY <1>15, <2>2, <2>3 DEF FindExecutableRun, Return, Throw
<1>16. CASE CheckCanceled(e)
  <2>1. RecordsKept'
    BY <1>16, <1>s, NothingDone, RecordsUntouched DEF CheckCanceled
  <2>2. CASE \E pc \in {"work"} : Goto(e, pc)
    BY <1>16, <1>s, <1>g, <1>u, <2>1, <2>2, GotoSafe
       DEF CheckCanceled, CheckedPcs, UnsubmittedPcs, ExecPcs
  <2>3. CASE exec' = [exec EXCEPT ![e] = IdleExec]
    BY <1>16, <1>s, <1>u, <2>1, <2>3, IdleSafe DEF CheckCanceled
  <2> QED
    BY <1>16, <2>2, <2>3 DEF CheckCanceled, Return, Throw
<1>17. CASE FailRun(e)
  <2>1. RecordsKept'
    BY <1>17, <1>s, NothingDone, RecordsUntouched DEF FailRun
  <2>2. CASE \E pc \in {"failWrite"} : Goto(e, pc)
    BY <1>17, <1>s, <1>g, <1>u, <2>1, <2>2, GotoSafe
       DEF FailRun, CheckedPcs, UnsubmittedPcs, ExecPcs
  <2>3. CASE exec' = [exec EXCEPT ![e] = IdleExec]
    BY <1>17, <1>s, <1>u, <2>1, <2>3, IdleSafe DEF FailRun
  <2> QED
    BY <1>17, <2>2, <2>3 DEF FailRun, Return, Throw
<1>18. CASE ReturnFromCallback(e)
  <2>1. RecordsKept'
    BY <1>18, <1>s, NothingDone, RecordsUntouched DEF ReturnFromCallback
  <2> QED
    BY <1>18, <1>s, <1>u, <2>1, IdleSafe DEF ReturnFromCallback, Return, Throw
<1>19. CASE UncaughtError(e)
  <2>1. RecordsKept'
    BY <1>19, <1>s, NothingDone, RecordsUntouched DEF UncaughtError
  <2> QED
    BY <1>19, <1>s, <1>u, <2>1, IdleSafe DEF UncaughtError, Return, Throw
<1> QED
  BY <1>1, <1>2, <1>3, <1>4, <1>5, <1>6, <1>7, <1>8, <1>9, <1>10, <1>11, <1>12, <1>13, <1>14,
     <1>15, <1>16, <1>17, <1>18, <1>19
     DEF ExecStep
-----------------------------------------------------------------------------
LEMMA ReqStepSafe ==
  ASSUME TypeInv, SafeInv, NEW q \in Requests, Call(q) \/ ReqStep(q) \/ Abort(q)
  PROVE  SafeInv'
<1> USE DEF TypeInv
<1>s. /\ RecordsKept /\ CallbacksSafe
      /\ req[q].pc # "idle" => req[q].run \in Runs
  BY DEF SafeInv, RecordsKept, ReqInv
<1>u. RecordsKept' /\ CallbacksSafe' => SafeInv'
  BY DEF SafeInv, RecordsKept
<1>h. UNCHANGED <<approval, receipt, history, exec>> /\ NothingNewDone => SafeInv'
  BY <1>s, <1>u, RecordsUntouched, ExecUntouchedSafe DEF history
<1>1. ASSUME NEW r \in Runs, StartRun(q, r) PROVE SafeInv'
  BY <1>1, <1>h, NothingDone DEF StartRun, RunStatuses
<1>2. ASSUME NEW r \in Runs, Cancel(q, r) PROVE SafeInv'
  BY <1>2, <1>h, NothingDone DEF Cancel
<1>3. ASSUME NEW a \in Approvals, NEW d \in {"approved", "rejected"}, ExpireDue(q, a)
        \/ Decide(q, a, d)
      PROVE  SafeInv'
  BY <1>3, <1>h, NothingDone DEF ExpireDue, Decide
<1>4. ASSUME EnqueueStart(q) \/ CancelSignal(q) \/ EnqueueResume(q) \/ DecideRun(q)
        \/ ExpireRun(q) \/ Abort(q)
      PROVE  SafeInv'
  BY <1>4, <1>h, NothingDone
     DEF EnqueueStart, CancelSignal, EnqueueResume, DecideRun, ExpireRun, Abort
<1>5. ASSUME CancelWrite(q) \/ DecideRunWrite(q) \/ ExpireRunWrite(q) PROVE SafeInv'
  <2>1. PICK status \in RunStatuses \ {"completed"} : SetRun(req[q].run, status)
    BY <1>5 DEF CancelWrite, DecideRunWrite, ExpireRunWrite, Outcome, RunStatuses, TerminalStatuses
  <2>2. NothingNewDone
    BY <1>5, <1>s, <2>1, NothingDone DEF CancelWrite, DecideRunWrite, ExpireRunWrite, At
  <2> QED
    BY <1>5, <1>h, <2>2 DEF CancelWrite, DecideRunWrite, ExpireRunWrite
<1>6. ASSUME DecideWrite(q) \/ ExpireWrite(q) PROVE SafeInv'
  <2>1. req[q].approval \in Approvals
    BY <1>6 DEF DecideWrite, ExpireWrite, At, ReqInv, DecisionPcs
  <2>2. /\ GrantsRecorded' /\ ApprovalsKept
        /\ granted \subseteq granted' /\ UNCHANGED <<submitted, delivered>>
    <3>1. CASE DecideWrite(q)
      <4>1. /\ approval \in [Approvals -> ApprovalRecord] /\ GrantsRecorded
            /\ req[q].arg \in Decisions
        BY <1>s, <3>1 DEF RowsInv, RecordsKept, DecideWrite, At, ReqInv
      <4>2. CASE req[q].arg = "approved"
        BY <2>1, <3>1, <4>1, <4>2
           DEF DecideWrite, ApprovalRecord, GrantsRecorded, ApprovalsKept, Absent
      <4>3. CASE req[q].arg = "rejected"
        BY <2>1, <3>1, <4>1, <4>3
           DEF DecideWrite, ApprovalRecord, GrantsRecorded, ApprovalsKept, Absent
      <4> QED
        BY <4>1, <4>2, <4>3 DEF Decisions
    <3>2. CASE ExpireWrite(q)
      BY <1>s, <2>1, <3>2
         DEF ExpireWrite, RowsInv, ApprovalRecord, RecordsKept, GrantsRecorded, ApprovalsKept,
             history, Absent
    <3> QED
      BY <1>6, <3>1, <3>2
  <2>3. NothingNewDone /\ UNCHANGED exec
    BY <1>6, NothingDone DEF DecideWrite, ExpireWrite
  <2>4. CompletedOnlyIfSubmitted'
    BY <1>s, <2>2, <2>3, DoneKept DEF RecordsKept
  <2>5. RecordsKept'
    BY <1>s, <2>2, <2>4 DEF RecordsKept, SubmittedOnlyIfGranted, SubmittedOncePerDelivery
  <2> QED
    BY <1>s, <1>u, <2>2, <2>3, <2>5, ExecUntouchedSafe
<1> QED
  BY <1>1, <1>2, <1>3, <1>4, <1>5, <1>6 DEF Call, ReqStep
-----------------------------------------------------------------------------
LEMMA SafeInit == Init => SafeInv
BY LifecycleAssumption
   DEF Init, SafeInv, GrantsRecorded, CallbacksSafe, Reports, SubmittedOnlyIfGranted,
       SubmittedOncePerDelivery, CompletedOnlyIfSubmitted, NoApproval, Request, IdleExec, Callback,
       CheckedPcs, UnsubmittedPcs, Absent

LEMMA SafeStep == TypeInv /\ SafeInv /\ [Next]_vars => SafeInv'
<1> SUFFICES ASSUME TypeInv, SafeInv, [Next]_vars PROVE SafeInv'
  OBVIOUS
<1> USE DEF TypeInv
<1>s. RecordsKept /\ CallbacksSafe
  BY DEF SafeInv, RecordsKept
<1>u. RecordsKept' /\ CallbacksSafe' => SafeInv'
  BY DEF SafeInv, RecordsKept
<1>h. UNCHANGED <<run, approval, receipt, history, exec>> => SafeInv'
  BY <1>s, <1>u, RecordsUntouched, NothingDone, ExecUntouchedSafe DEF history
<1>1. ASSUME NEW r \in Runs, TakeStart(r) PROVE SafeInv'
  <2>1. RecordsKept'
    BY <1>1, <1>s, NothingDone, RecordsUntouched DEF TakeStart
  <2>2. CallbacksSafe'
    BY <1>1, <1>s DEF TakeStart, CallbacksSafe, Callback, Reports, history, ExecInv
  <2> QED
    BY <1>u, <2>1, <2>2
<1>2. ASSUME NEW a \in Approvals, TakeResume(a) PROVE SafeInv'
  <2>1. /\ delivered'[a] = delivered[a] + 1
        /\ \A b \in Approvals \ {a} : delivered'[b] = delivered[b]
    BY <1>2 DEF TakeResume, RowsInv
  <2>2. submitted \in [Approvals -> Nat] /\ delivered \in [Approvals -> Nat]
    BY DEF RowsInv
  <2>3. CompletedOnlyIfSubmitted'
    BY <1>2, <1>s, NothingDone, DoneKept, ApprovalUntouched DEF TakeResume, RecordsKept
  <2>4. RecordsKept'
    BY <1>2, <1>s, <2>1, <2>2, <2>3
       DEF TakeResume, RecordsKept, GrantsRecorded, SubmittedOnlyIfGranted, SubmittedOncePerDelivery
  <2>5. CallbacksSafe'
    BY <1>2, <1>s, <2>1, <2>2, <2>4
       DEF TakeResume, CallbacksSafe, Callback, Reports, ExecInv, ExecRecord, Executors, CheckedPcs,
           RecordsKept, SubmittedOncePerDelivery
  <2> QED
    BY <1>u, <2>4, <2>5
<1>3. ASSUME NEW a \in Approvals, DeadlinePasses(a) PROVE SafeInv'
  <2>1. GrantsRecorded' /\ ApprovalsKept
    BY <1>3, <1>s
       DEF DeadlinePasses, RowsInv, ApprovalRecord, RecordsKept, GrantsRecorded, ApprovalsKept,
           history
  <2>2. CompletedOnlyIfSubmitted'
    BY <1>3, <1>s, <2>1, NothingDone, DoneKept DEF DeadlinePasses, RecordsKept, history
  <2>3. RecordsKept' /\ CallbacksSafe'
    BY <1>3, <1>s, <2>1, <2>2, ExecUntouchedSafe
       DEF DeadlinePasses, RecordsKept, SubmittedOnlyIfGranted, SubmittedOncePerDelivery, history
  <2> QED
    BY <1>u, <2>3
<1>4. CASE WorkerCrash
  <2>1. RecordsKept'
    BY <1>4, <1>s, NothingDone, RecordsUntouched DEF WorkerCrash
  <2>2. CallbacksSafe'
    BY <1>4, <1>s
       DEF WorkerCrash, CallbacksSafe, IdleExec, Callback, Reports, CheckedPcs, UnsubmittedPcs
  <2> QED
    BY <1>u, <2>1, <2>2
<1>5. ASSUME NEW a \in Approvals, ForgetResumeJob(a) PROVE SafeInv'
  BY <1>5, <1>h DEF ForgetResumeJob
<1>6. ASSUME NEW j \in JobIds, StalledJob(j) PROVE SafeInv'
  BY <1>6, <1>h DEF StalledJob
<1>7. CASE UNCHANGED vars
  BY <1>7, <1>h DEF vars, history
<1> QED
  BY <1>1, <1>2, <1>3, <1>4, <1>5, <1>6, <1>7, ReqStepSafe, ExecStepSafe DEF Next

LEMMA Invariance == Spec => [](TypeInv /\ SafeInv)
BY TypeInit, TypeStep, SafeInit, SafeStep, PTL DEF Spec

\* Nothing is submitted at the vendor for an approval no approver granted in time.
THEOREM SubmissionsAreGranted == Spec => []SubmittedOnlyIfGranted
<1>1. SafeInv => SubmittedOnlyIfGranted
  BY DEF SafeInv
<1> QED
  BY <1>1, Invariance, PTL

\* The worker submits at most once each time the queue hands it a resume job.
THEOREM SubmissionsAreDelivered == Spec => []SubmittedOncePerDelivery
<1>1. SafeInv => SubmittedOncePerDelivery
  BY DEF SafeInv
<1> QED
  BY <1>1, Invariance, PTL

\* Neither the status nor the receipt of a downgrade says completed before the
\* vendor was asked for it.
THEOREM CompletionsAreSubmitted == Spec => []CompletedOnlyIfSubmitted
<1>1. SafeInv => CompletedOnlyIfSubmitted
  BY DEF SafeInv
<1> QED
  BY <1>1, Invariance, PTL
-----------------------------------------------------------------------------
(* The refinement. *)

RequestedFor == [a \in Approvals |-> approval[a].run]

Done == {r \in Runs : "completed" \in {run[r], receipt[r]}}

GateStep == [Gate!GateNext]_(Gate!gateVars)

LEMMA GateStutter ==
  ASSUME UNCHANGED <<RequestedFor, granted, submitted, Done>>
  PROVE  GateStep
BY DEF GateStep, Gate!gateVars, RequestedFor, Done

\* A status or receipt other than completed was written for r.
LEMMA GateRetract ==
  ASSUME NEW r \in Runs, NothingNewDone, UNCHANGED <<RequestedFor, granted, submitted>>,
         \A x \in Runs \ {r} : run'[x] = run[x] /\ receipt'[x] = receipt[x]
  PROVE  GateStep
<1>1. Done' = Done \/ Done' = Done \ {r}
  BY DEF Done, NothingNewDone
<1>2. CASE Done' = Done
  BY <1>2, GateStutter
<1>3. CASE Done' = Done \ {r}
  <2>1. Gate!Retract(r)
    BY <1>3 DEF Gate!Retract, Done, RequestedFor
  <2> QED
    BY <2>1 DEF GateStep, Gate!GateNext
<1> QED
  BY <1>1, <1>2, <1>3

\* Completed was written for r, by a callback that may report it.
LEMMA GateReport ==
  ASSUME TypeInv, SafeInv, NEW e \in Executors, exec[e].run \in Runs, Reports(e),
         UNCHANGED <<RequestedFor, granted, submitted>>,
         \A x \in Runs \ {exec[e].run} : run'[x] = run[x] /\ receipt'[x] = receipt[x],
         "completed" \in {run'[exec[e].run], receipt'[exec[e].run]}
  PROVE  GateStep
<1>0. PICK r \in Runs : r = exec[e].run
  OBVIOUS
<1>1. Done' = Done \cup {r}
  BY <1>0 DEF Done
<1>2. Template[r] = "plan_downgrade" =>
        \E a \in granted : RequestedFor[a] = r /\ submitted[a] > 0
  <2>1. SUFFICES ASSUME Template[r] = "plan_downgrade"
                 PROVE  \E a \in granted : RequestedFor[a] = r /\ submitted[a] > 0
    OBVIOUS
  <2>2. exec[e].approval \in Approvals /\ submitted[exec[e].approval] > 0
    BY <1>0, <2>1 DEF SafeInv, CallbacksSafe, TypeInv, ExecInv, ExecRecord
  <2>3. exec[e].approval \in granted
    BY <2>2 DEF SafeInv, SubmittedOnlyIfGranted
  <2>4. RequestedFor[exec[e].approval] = r
    BY <1>0, <2>2, LifecycleAssumption DEF TypeInv, ExecInv, RequestedFor, LifecycleAssumption
  <2> QED
    BY <2>2, <2>3, <2>4
<1>3. Gate!Report(r)
  BY <1>1, <1>2 DEF Gate!Report, Done, RequestedFor
<1> QED
  BY <1>3 DEF GateStep, Gate!GateNext

\* Every step of a callback is a step of the gate, or none.
LEMMA ExecStepIsGateStep ==
  ASSUME TypeInv, SafeInv, NEW e \in Executors, ExecStep(e) \/ UncaughtError(e)
  PROVE  GateStep
<1> USE DEF TypeInv
<1>r. exec[e].pc # "idle" => exec[e].run \in Runs
  BY DEF ExecInv
<1>1. CASE \/ FindExecutableRun(e) \/ AssertApprovalCanResume(e) \/ AssertAgentActiveForResume(e)
           \/ CheckCanceled(e) \/ Work(e) \/ CompleteRun(e) \/ CreateApprovalForRun(e)
           \/ ReturnFromCallback(e) \/ TryBlockThrows(e) \/ FailRun(e) \/ UncaughtError(e)
  BY <1>1, GateStutter
     DEF FindExecutableRun, AssertApprovalCanResume, AssertAgentActiveForResume, CheckCanceled,
         Work,
         CompleteRun, CreateApprovalForRun, ReturnFromCallback, TryBlockThrows, FailRun,
         UncaughtError, history, RequestedFor, Done
<1>2. CASE MarkStarted(e) \/ WaitForApprovalWrite(e) \/ PolicyDenied(e) \/ FailRunWrite(e)
  <2>1. PICK status \in RunStatuses \ {"completed"} : SetRun(exec[e].run, status)
    BY <1>2
       DEF MarkStarted, WaitForApprovalWrite, PolicyDenied, FailRunWrite, RunStatuses,
           TerminalStatuses
  <2>2. exec[e].run \in Runs /\ UNCHANGED <<approval, receipt, history>>
    BY <1>2, <1>r DEF MarkStarted, WaitForApprovalWrite, PolicyDenied, FailRunWrite
  <2>3. NothingNewDone
    BY <2>1, <2>2, NothingDone
  <2> QED
    BY <2>1, <2>2, <2>3, GateRetract DEF SetRun, RowsInv, history, RequestedFor
<1>3. CASE CompleteRunWrite(e)
  <2>1. exec[e].run \in Runs /\ Reports(e)
    BY <1>3, <1>r DEF CompleteRunWrite, Reports
  <2> QED
    BY <1>3, <2>1, GateReport DEF CompleteRunWrite, SetRun, RowsInv, history, RequestedFor
<1>4. CASE CreateReceipt(e)
  <2>1. exec[e].run \in Runs /\ exec[e].pc = "receipt"
    BY <1>4, <1>r DEF CreateReceipt
  <2>2. /\ receipt'[exec[e].run] = exec[e].final
        /\ \A x \in Runs \ {exec[e].run} : run'[x] = run[x] /\ receipt'[x] = receipt[x]
        /\ UNCHANGED <<run, RequestedFor, granted, submitted>>
    BY <1>4, <2>1 DEF CreateReceipt, RowsInv, history, RequestedFor
  <2>3. CASE exec[e].final = "completed"
    BY <2>1, <2>2, <2>3, GateReport DEF Reports
  <2>4. CASE exec[e].final # "completed"
    BY <2>1, <2>2, <2>4, GateRetract DEF NothingNewDone
  <2> QED
    BY <2>3, <2>4
<1>5. CASE CreateApprovalWrite(e)
  <2>1. PICK a \in Approvals, expiresAt \in Expiries :
          /\ approval[a].status = Absent
          /\ approval' = [approval EXCEPT ![a] = Request("pending", exec[e].run, expiresAt)]
    BY <1>5 DEF CreateApprovalWrite
  <2>2. exec[e].run \in Runs /\ UNCHANGED <<run, receipt, history>>
    BY <1>5, <1>r DEF CreateApprovalWrite
  <2>r. PICK r \in Runs : r = exec[e].run
    BY <2>2
  <2>3. RequestedFor[a] = None /\ RequestedFor' = [RequestedFor EXCEPT ![a] = r]
    BY <2>1, <2>r DEF RequestedFor, RowsInv, Request
  <2>4. Gate!Request(a, r)
    BY <2>2, <2>3 DEF Gate!Request, RequestedFor, Done, history
  <2> QED
    BY <2>1, <2>2, <2>4 DEF GateStep, Gate!GateNext
<1>6. CASE SubmitDowngrade(e)
  <2>1. exec[e].approval \in Approvals /\ exec[e].approval # None
    BY <1>6 DEF SubmitDowngrade, ExecInv, ExecRecord
  <2>2. exec[e].approval \in granted
    BY <1>6, <2>1 DEF SubmitDowngrade, SafeInv, CallbacksSafe, CheckedPcs
  <2>3. Gate!Submit(exec[e].approval)
    BY <1>6, <2>2 DEF SubmitDowngrade, Gate!Submit
  <2> QED
    BY <2>1, <2>3 DEF GateStep, Gate!GateNext
<1> QED
  BY <1>1, <1>2, <1>3, <1>4, <1>5, <1>6 DEF ExecStep

\* Of the calls of the API only an approval in time is a step of the gate.
LEMMA ReqStepIsGateStep ==
  ASSUME TypeInv, NEW q \in Requests, Call(q) \/ ReqStep(q) \/ Abort(q)
  PROVE  GateStep
<1> USE DEF TypeInv
<1>r. req[q].pc # "idle" => req[q].run \in Runs
  BY DEF ReqInv
<1>1. CASE \/ \E r \in Runs : Cancel(q, r)
           \/ \E a \in Approvals : ExpireDue(q, a)
              \/ \E d \in {"approved", "rejected"} : Decide(q, a, d)
           \/ EnqueueStart(q) \/ CancelSignal(q) \/ DecideRun(q) \/ EnqueueResume(q)
           \/ ExpireRun(q) \/ Abort(q)
  BY <1>1, GateStutter
     DEF Cancel, ExpireDue, Decide, EnqueueStart, CancelSignal, DecideRun, EnqueueResume, ExpireRun,
         Abort, history, RequestedFor, Done
<1>2. ASSUME NEW r \in Runs, StartRun(q, r) PROVE GateStep
  <2>1. NothingNewDone
    BY <1>2, NothingDone DEF StartRun, RunStatuses
  <2> QED
    BY <1>2, <2>1, GateRetract DEF StartRun, SetRun, RowsInv, history, RequestedFor
<1>3. CASE CancelWrite(q) \/ DecideRunWrite(q) \/ ExpireRunWrite(q)
  <2>1. PICK status \in RunStatuses \ {"completed"} : SetRun(req[q].run, status)
    BY <1>3 DEF CancelWrite, DecideRunWrite, ExpireRunWrite, Outcome, RunStatuses, TerminalStatuses
  <2>2. req[q].run \in Runs /\ UNCHANGED <<approval, receipt, history>>
    BY <1>3, <1>r DEF CancelWrite, DecideRunWrite, ExpireRunWrite, At
  <2>3. NothingNewDone
    BY <2>1, <2>2, NothingDone
  <2> QED
    BY <2>1, <2>2, <2>3, GateRetract DEF SetRun, RowsInv, history, RequestedFor
<1>4. CASE ExpireWrite(q)
  <2>1. RequestedFor' = RequestedFor
    BY <1>4 DEF ExpireWrite, RequestedFor, RowsInv, ApprovalRecord
  <2> QED
    BY <1>4, <2>1, GateStutter DEF ExpireWrite, history, Done
<1>5. CASE DecideWrite(q)
  <2> DEFINE a == req[q].approval
  <2>1. a \in Approvals /\ RequestedFor[a] # None
    BY <1>5, LifecycleAssumption
       DEF DecideWrite, At, ReqInv, DecisionPcs, RowsInv, RequestedFor, LifecycleAssumption
  <2>2. RequestedFor' = RequestedFor
    BY <1>5 DEF DecideWrite, RequestedFor, RowsInv, ApprovalRecord
  <2>3. granted' = granted \/ granted' = granted \cup {a}
    BY <1>5 DEF DecideWrite
  <2>4. UNCHANGED <<submitted, Done>>
    BY <1>5 DEF DecideWrite, Done
  <2>5. CASE granted' = granted
    BY <2>2, <2>4, <2>5, GateStutter
  <2>6. CASE granted' = granted \cup {a}
    <3>1. Gate!Grant(a)
      BY <2>1, <2>2, <2>4, <2>6 DEF Gate!Grant, RequestedFor, Done
    <3> QED
      BY <2>1, <3>1 DEF GateStep, Gate!GateNext
  <2> QED
    BY <2>3, <2>5, <2>6
<1> QED
  BY <1>1, <1>2, <1>3, <1>4, <1>5 DEF Call, ReqStep

LEMMA StepIsGateStep == TypeInv /\ SafeInv /\ [Next]_vars => GateStep
<1> SUFFICES ASSUME TypeInv, SafeInv, [Next]_vars PROVE GateStep
  OBVIOUS
<1>1. CASE \/ \E r \in Runs : TakeStart(r)
           \/ \E a \in Approvals : TakeResume(a) \/ ForgetResumeJob(a)
           \/ WorkerCrash
           \/ \E j \in JobIds : StalledJob(j)
           \/ UNCHANGED vars
  BY <1>1, GateStutter
     DEF TakeStart, TakeResume, ForgetResumeJob, WorkerCrash, StalledJob, vars, history,
         RequestedFor, Done
<1>2. ASSUME NEW a \in Approvals, DeadlinePasses(a) PROVE GateStep
  <2>1. RequestedFor' = RequestedFor
    BY <1>2 DEF DeadlinePasses, RequestedFor, TypeInv, RowsInv, ApprovalRecord
  <2> QED
    BY <1>2, <2>1, GateStutter DEF DeadlinePasses, history, Done
<1> QED
  BY <1>1, <1>2, ExecStepIsGateStep, ReqStepIsGateStep DEF Next

LEMMA InitIsGateInit == Init => Gate!GateInit
BY DEF Init, Gate!GateInit, NoApproval, Request, Absent

\* The lifecycle implements the gate: behind queues, retries, redeliveries and
\* races every submission has a grant and every report of a downgrade a submission.
THEOREM LifecycleImplementsGate == Spec => ImplementsGate
<1>1. Spec => Gate!GateInit
  BY InitIsGateInit DEF Spec
<1>2. TypeInv /\ SafeInv /\ [Next]_vars => [Gate!GateNext]_(Gate!gateVars)
  BY StepIsGateStep DEF GateStep
<1> QED
  BY <1>1, <1>2, Invariance, PTL DEF Spec, ImplementsGate, Gate!GateSpec
-----------------------------------------------------------------------------
(* A finished start job. *)

\* pcs of a callback that has written, or is about to leave, a run it started.
StartedPcs == {"checkCanceled", "work", "submit", "complete", "completeWrite", "requestApproval",
               "waitWrite", "createApproval", "deny", "receipt", "return"}

(***************************************************************************)
(* Whatever has a job, a callback, a call or a request for a run finds its *)
(* row there, so nothing but startRun makes a run queued; and a callback   *)
(* on its way to a return has seen its run leave that status.              *)
(***************************************************************************)
StartedInv ==
  /\ \A r \in Runs : jobs[StartJob(r)].state # "absent" => run[r] # Absent
  /\ \A a \in Approvals : approval[a].status # Absent => run[approval[a].run] # Absent
  /\ \A q \in Requests : req[q].pc # "idle" => run[req[q].run] # Absent
  /\ \A e \in Executors :
       /\ exec[e].pc # "idle" => run[exec[e].run] # Absent
       /\ exec[e].pc \in StartedPcs => run[exec[e].run] # "queued"
  /\ CompletedJobLeftQueue

\* No row is taken away, and no run goes back to the queue.
RunsKept ==
  \A r \in Runs : run[r] # Absent => run'[r] # Absent /\ (run[r] # "queued" => run'[r] # "queued")

LEMMA SetRunLeavesQueue ==
  ASSUME RowsInv, NEW r \in Runs, NEW s, s \notin {Absent, "queued"}, SetRun(r, s)
  PROVE  RunsKept /\ run'[r] = s
BY DEF RowsInv, SetRun, RunsKept

\* The clauses about jobs, requests, calls and callbacks, one by one.
JobsStarted ==
  /\ \A r \in Runs : jobs[StartJob(r)].state # "absent" => run[r] # Absent
  /\ CompletedJobLeftQueue

RequestsStarted ==
  \A a \in Approvals : approval[a].status # Absent => run[approval[a].run] # Absent

CallsStarted == \A q \in Requests : req[q].pc # "idle" => run[req[q].run] # Absent

CallbacksStarted ==
  \A e \in Executors :
    /\ exec[e].pc # "idle" => run[exec[e].run] # Absent
    /\ exec[e].pc \in StartedPcs => run[exec[e].run] # "queued"

LEMMA JobsKept ==
  ASSUME TypeInv, JobsStarted, RunsKept, UNCHANGED jobs
  PROVE  JobsStarted'
BY DEF JobsStarted, RunsKept, CompletedJobLeftQueue, StartJob

\* A job that is not the start job of a run, or does not become completed.
LEMMA JobMoves ==
  ASSUME TypeInv, JobsStarted, RunsKept, NEW j \in JobIds, JobStep(j),
         \A r \in Runs : j = StartJob(r) =>
           /\ jobs'[j].state # "absent" => run[r] # Absent
           /\ jobs'[j].state = "completed" => run[r] # "queued"
  PROVE  JobsStarted'
<1>1. \A i \in JobIds \ {j} : jobs'[i] = jobs[i]
  BY JobStepIsLocal DEF TypeInv, QueueInv
<1>2. \A r \in Runs : StartJob(r) \in JobIds
  BY JobIdsDiffer
<1>3. ASSUME NEW r \in Runs
      PROVE  /\ jobs'[StartJob(r)].state # "absent" => run'[r] # Absent
             /\ jobs'[StartJob(r)].state = "completed" => run'[r] # "queued"
  <2>1. CASE j = StartJob(r)
    <3>1. /\ jobs'[j].state # "absent" => run[r] # Absent
          /\ jobs'[j].state = "completed" => run[r] # "queued"
      BY <2>1
    <3> QED
      BY <2>1, <3>1 DEF RunsKept
  <2>2. CASE j # StartJob(r)
    <3>1. jobs'[StartJob(r)] = jobs[StartJob(r)]
      BY <1>1, <1>2, <2>2
    <3> QED
      BY <3>1 DEF JobsStarted, RunsKept, CompletedJobLeftQueue
  <2> QED
    BY <2>1, <2>2
<1> QED
  BY <1>3 DEF JobsStarted, CompletedJobLeftQueue, StartJob

LEMMA RequestsKept ==
  ASSUME TypeInv, RequestsStarted, RunsKept, UNCHANGED approval
  PROVE  RequestsStarted'
BY DEF TypeInv, RowsInv, ApprovalRecord, RequestsStarted, RunsKept

LEMMA CallsKept ==
  ASSUME TypeInv, CallsStarted, RunsKept,
         \/ UNCHANGED req
         \/ \E q \in Requests :
              Respond(q) \/ (req[q].pc # "idle" /\ \E pc \in ReqPcs : Continue(q, pc))
  PROVE  CallsStarted'
BY DEF TypeInv, ReqInv, ReqRecord, CallsStarted, RunsKept, Respond, IdleReq, Continue

LEMMA CallbacksKept ==
  ASSUME TypeInv, CallbacksStarted, RunsKept,
         \/ UNCHANGED exec
         \/ \E e \in Executors :
              \/ exec' = [exec EXCEPT ![e] = IdleExec]
              \/ /\ exec[e].pc # "idle"
                 /\ \/ \E pc \in ExecPcs :
                         Goto(e, pc) /\ (pc \in StartedPcs => run'[exec[e].run] # "queued")
                    \/ \E final \in ReceiptStatuses :
                         GotoReceipt(e, final) /\ run'[exec[e].run] # "queued"
  PROVE  CallbacksStarted'
<1> USE DEF TypeInv
<1>r. /\ exec \in [Executors -> ExecRecord]
      /\ \A e \in Executors : exec[e].pc # "idle" => exec[e].run \in Runs
  BY DEF ExecInv
<1>1. CASE UNCHANGED exec
  BY <1>1, <1>r DEF CallbacksStarted, RunsKept, StartedPcs
<1>2. ASSUME NEW e \in Executors, NEW c, exec' = [exec EXCEPT ![e] = c],
             /\ c.pc # "idle" => c.run \in Runs /\ run'[c.run] # Absent
             /\ c.pc \in StartedPcs => run'[c.run] # "queued"
      PROVE  CallbacksStarted'
  <2>1. \A x \in Executors \ {e} : exec'[x] = exec[x]
    BY <1>2, <1>r
  <2>2. exec'[e] = c
    BY <1>2, <1>r
  <2> QED
    BY <1>2, <1>r, <2>1, <2>2 DEF CallbacksStarted, RunsKept, StartedPcs
<1>3. ASSUME NEW e \in Executors, exec' = [exec EXCEPT ![e] = IdleExec] PROVE CallbacksStarted'
  BY <1>2, <1>3 DEF IdleExec, Callback, StartedPcs
<1>4. ASSUME NEW e \in Executors, exec[e].pc # "idle", NEW pc \in ExecPcs, Goto(e, pc),
             pc \in StartedPcs => run'[exec[e].run] # "queued"
      PROVE  CallbacksStarted'
  <2>1. exec' = [exec EXCEPT ![e] = [exec[e] EXCEPT !.pc = pc]] /\ run'[exec[e].run] # Absent
    BY <1>4, <1>r DEF Goto, CallbacksStarted, RunsKept
  <2>2. /\ exec[e].run \in Runs
        /\ [exec[e] EXCEPT !.pc = pc].pc = pc /\ [exec[e] EXCEPT !.pc = pc].run = exec[e].run
    BY <1>4, <1>r DEF ExecRecord
  <2> QED
    BY <1>2, <1>4, <2>1, <2>2
<1>5. ASSUME NEW e \in Executors, exec[e].pc # "idle",
             NEW final \in ReceiptStatuses, GotoReceipt(e, final),
             run'[exec[e].run] # "queued"
      PROVE  CallbacksStarted'
  <2> DEFINE c == [exec[e] EXCEPT !.pc = "receipt", !.final = final]
  <2>1. exec' = [exec EXCEPT ![e] = c] /\ run'[exec[e].run] # Absent
    BY <1>5, <1>r DEF GotoReceipt, CallbacksStarted, RunsKept
  <2>2. exec[e].run \in Runs /\ c.pc = "receipt" /\ c.run = exec[e].run
    BY <1>5, <1>r DEF ExecRecord
  <2> HIDE DEF c
  <2> QED
    BY <1>2, <1>5, <2>1, <2>2
<1> QED
  BY <1>1, <1>3, <1>4, <1>5

\* A callback that ends leaves its job behind: completed only if its run left the queue.
LEMMA CallbackEnds ==
  ASSUME TypeInv, StartedInv, UNCHANGED run, NEW e \in Executors, exec[e].pc # "idle",
         Throw(e) \/ (Return(e) /\ run[exec[e].run] # "queued")
  PROVE  JobsStarted' /\ CallbacksStarted'
<1> USE DEF TypeInv
<1>1. RunsKept /\ JobsStarted /\ CallbacksStarted
  BY DEF RunsKept, StartedInv, JobsStarted, CallbacksStarted
<1>2. exec' = [exec EXCEPT ![e] = IdleExec] /\ JobStep(JobOf(e))
  BY DEF Throw, Return, JobStep
<1>3. JobOf(e) \in JobIds /\ \A r \in Runs : JobOf(e) = StartJob(r) => r = exec[e].run
  BY JobIdsDiffer DEF JobOf, ExecInv, ExecRecord, StartJob, ResumeJob
<1>4. run[exec[e].run] # Absent
  BY DEF StartedInv
<1>5. ASSUME Throw(e) PROVE jobs'[JobOf(e)].state # "completed"
  BY <1>3, <1>5
     DEF Throw, Queue!FailAttempt, Queue!Job, QueueInv, Queue!QueueTypeOK, Queue!JobRecord
<1>6. JobsStarted'
  BY <1>1, <1>2, <1>3, <1>4, <1>5, JobMoves
<1> QED
  BY <1>1, <1>2, <1>6, CallbacksKept

LEMMA StartedParts ==
  ASSUME JobsStarted', RequestsStarted', CallsStarted', CallbacksStarted' PROVE StartedInv'
BY DEF JobsStarted, RequestsStarted, CallsStarted, CallbacksStarted, StartedInv

LEMMA ExecStepStarted ==
  ASSUME TypeInv, StartedInv, NEW e \in Executors, ExecStep(e) \/ UncaughtError(e)
  PROVE  StartedInv'
<1> USE DEF TypeInv
<1>s. /\ JobsStarted /\ RequestsStarted /\ CallsStarted /\ CallbacksStarted
      /\ exec[e].pc # "idle" => exec[e].run \in Runs
      /\ exec[e].pc \in StartedPcs => run[exec[e].run] # "queued"
  BY DEF StartedInv, JobsStarted, RequestsStarted, CallsStarted, CallbacksStarted, ExecInv
<1>u. UNCHANGED run => RunsKept
  BY DEF RunsKept
<1>q. UNCHANGED req
  BY DEF ExecStep, UncaughtError, FindExecutableRun, AssertApprovalCanResume,
         AssertAgentActiveForResume, MarkStarted, CheckCanceled, Work, SubmitDowngrade,
         CompleteRun, CompleteRunWrite, CreateApprovalForRun, WaitForApprovalWrite,
         CreateApprovalWrite, CreateReceipt, ReturnFromCallback, TryBlockThrows, PolicyDenied,
         FailRun, FailRunWrite
<1>a. ASSUME UNCHANGED <<run, approval, jobs>>, exec[e].pc # "idle",
             NEW pc \in ExecPcs, Goto(e, pc),
             pc \in StartedPcs => run[exec[e].run] # "queued"
      PROVE  StartedInv'
  BY <1>a, <1>s, <1>u, <1>q, JobsKept, RequestsKept, CallsKept, CallbacksKept, StartedParts
<1>b. ASSUME NEW s \in RunStatuses \ {"queued"}, SetRun(exec[e].run, s),
             UNCHANGED <<approval, jobs>>, exec[e].pc # "idle",
             \/ \E pc \in ExecPcs : Goto(e, pc)
             \/ \E final \in ReceiptStatuses : GotoReceipt(e, final)
      PROVE  StartedInv'
  <2>1. RunsKept /\ run'[exec[e].run] # "queued"
    BY <1>b, <1>s, SetRunLeavesQueue DEF RunStatuses, TerminalStatuses, Absent
  <2> QED
    BY <1>b, <1>s, <1>q, <2>1, JobsKept, RequestsKept, CallsKept, CallbacksKept, StartedParts
<1>c. ASSUME UNCHANGED <<run, approval>>, exec[e].pc # "idle",
             Throw(e) \/ (Return(e) /\ run[exec[e].run] # "queued")
      PROVE  StartedInv'
  BY <1>c, <1>s, <1>u, <1>q, CallbackEnds, RequestsKept, CallsKept, StartedParts
<1>1. CASE AssertApprovalCanResume(e)
  <2>1. PICK pc \in {"checkAgent", "fail"} : Goto(e, pc)
    BY <1>1 DEF AssertApprovalCanResume
  <2> QED
    BY <1>1, <1>a, <2>1 DEF AssertApprovalCanResume, ExecPcs, StartedPcs
<1>2. CASE AssertAgentActiveForResume(e)
  <2>1. PICK pc \in {"markStarted", "fail"} : Goto(e, pc)
    BY <1>2 DEF AssertAgentActiveForResume
  <2> QED
    BY <1>2, <1>a, <2>1 DEF AssertAgentActiveForResume, ExecPcs, StartedPcs
<1>3. CASE \/ Work(e) \/ SubmitDowngrade(e) \/ CompleteRun(e)
           \/ CreateApprovalForRun(e) \/ CreateReceipt(e)
  <2>1. PICK pc \in ExecPcs : Goto(e, pc)
    BY <1>3 DEF Work, SubmitDowngrade, CompleteRun, CreateApprovalForRun, CreateReceipt, ExecPcs
  <2>2. exec[e].pc \in StartedPcs /\ UNCHANGED <<run, approval, jobs>>
    BY <1>3 DEF Work, SubmitDowngrade, CompleteRun, CreateApprovalForRun, CreateReceipt, StartedPcs
  <2> QED
    BY <1>a, <1>s, <2>1, <2>2 DEF StartedPcs
<1>4. CASE TryBlockThrows(e)
  <2>1. PICK pc \in {"fail", "deny"} : Goto(e, pc) /\ (pc = "deny" => exec[e].pc = "work")
    BY <1>4 DEF TryBlockThrows
  <2>2. exec[e].pc # "idle" /\ UNCHANGED <<run, approval, jobs>>
    BY <1>4 DEF TryBlockThrows, InTryBlock
  <2> QED
    BY <1>a, <1>s, <2>1, <2>2 DEF ExecPcs, StartedPcs
<1>5. CASE CreateApprovalWrite(e)
  <2>1. PICK pc \in {"return", "fail"} : Goto(e, pc)
    BY <1>5 DEF CreateApprovalWrite
  <2>2. PICK a \in Approvals, expiresAt \in Expiries :
          approval' = [approval EXCEPT ![a] = Request("pending", exec[e].run, expiresAt)]
    BY <1>5 DEF CreateApprovalWrite
  <2>3. /\ run[exec[e].run] \notin {Absent, "queued"}
        /\ exec[e].pc = "createApproval" /\ UNCHANGED <<run, jobs>>
    BY <1>5, <1>s DEF CreateApprovalWrite, StartedInv, StartedPcs
  <2>4. RequestsStarted'
    BY <1>s, <2>2, <2>3 DEF RequestsStarted, RowsInv, Request
  <2>5. CallbacksStarted'
    BY <1>s, <1>u, <2>1, <2>3, CallbacksKept DEF ExecPcs
  <2> QED
    BY <1>s, <1>u, <1>q, <2>3, <2>4, <2>5, JobsKept, CallsKept, StartedParts
<1>6. CASE MarkStarted(e)
  BY <1>6, <1>b DEF MarkStarted, RunStatuses, ExecPcs
<1>7. CASE WaitForApprovalWrite(e)
  BY <1>7, <1>b DEF WaitForApprovalWrite, RunStatuses, ExecPcs
<1>8. CASE CompleteRunWrite(e)
  BY <1>8, <1>b DEF CompleteRunWrite, RunStatuses, TerminalStatuses, ReceiptStatuses
<1>9. CASE PolicyDenied(e)
  BY <1>9, <1>b DEF PolicyDenied, RunStatuses, TerminalStatuses, ReceiptStatuses
<1>10. CASE FailRunWrite(e)
  BY <1>10, <1>b DEF FailRunWrite, RunStatuses, TerminalStatuses, ReceiptStatuses
<1>11. CASE FindExecutableRun(e)
  <2>1. CASE IsTerminal(run[exec[e].run])
    BY <1>11, <1>c, <2>1 DEF FindExecutableRun, IsTerminal, TerminalStatuses
  <2>2. CASE ~IsTerminal(run[exec[e].run])
    <3>1. PICK pc \in {"markStarted", "checkApproval"} : Goto(e, pc)
      BY <1>11, <2>2 DEF FindExecutableRun
    <3> QED
      BY <1>11, <1>a, <2>2, <3>1 DEF FindExecutableRun, ExecPcs, StartedPcs
  <2> QED
    BY <2>1, <2>2
<1>12. CASE CheckCanceled(e)
  <2>1. CASE run[exec[e].run] = "canceled"
    BY <1>12, <1>c, <2>1 DEF CheckCanceled
  <2>2. CASE run[exec[e].run] # "canceled"
    BY <1>12, <1>a, <1>s, <2>2 DEF CheckCanceled, ExecPcs, StartedPcs
  <2> QED
    BY <2>1, <2>2
<1>13. CASE FailRun(e)
  <2>1. CASE IsTerminal(run[exec[e].run])
    BY <1>13, <1>c, <2>1 DEF FailRun
  <2>2. CASE ~IsTerminal(run[exec[e].run])
    BY <1>13, <1>a, <2>2 DEF FailRun, ExecPcs, StartedPcs
  <2> QED
    BY <2>1, <2>2
<1>14. CASE ReturnFromCallback(e)
  BY <1>14, <1>c, <1>s DEF ReturnFromCallback, StartedPcs
<1>15. CASE UncaughtError(e)
  BY <1>15, <1>c DEF UncaughtError
<1> QED
  BY <1>1, <1>2, <1>3, <1>4, <1>5, <1>6, <1>7, <1>8, <1>9, <1>10, <1>11, <1>12, <1>13, <1>14, <1>15
     DEF ExecStep

LEMMA ReqStepStarted ==
  ASSUME TypeInv, StartedInv, NEW q \in Requests, Call(q) \/ ReqStep(q) \/ Abort(q)
  PROVE  StartedInv'
<1> USE DEF TypeInv
<1>s. /\ JobsStarted /\ RequestsStarted /\ CallsStarted /\ CallbacksStarted
      /\ req[q].pc # "idle" => req[q].run \in Runs /\ run[req[q].run] # Absent
  BY DEF StartedInv, JobsStarted, RequestsStarted, CallsStarted, CallbacksStarted, ReqInv
<1>u. UNCHANGED run => RunsKept
  BY DEF RunsKept
<1>e. UNCHANGED exec
  BY DEF Call, ReqStep, Abort, StartRun, Cancel, ExpireDue, Decide, EnqueueStart, CancelSignal,
         CancelWrite, DecideRun, DecideWrite, EnqueueResume, DecideRunWrite, ExpireWrite,
         ExpireRun, ExpireRunWrite
\* a call that begins is about a run that exists
<1>b. ASSUME RunsKept, UNCHANGED <<approval, jobs>>,
             NEW pc \in ReqPcs, NEW r \in Runs, NEW a, NEW arg,
             Begin(q, pc, r, a, arg), run'[r] # Absent
      PROVE  StartedInv'
  <2>1. CallsStarted'
    BY <1>b, <1>s DEF Begin, CallsStarted, RunsKept, ReqInv, ReqRecord
  <2> QED
    BY <1>b, <1>s, <1>e, <2>1, JobsKept, RequestsKept, CallbacksKept, StartedParts
\* a call that goes on without adding or removing a job
<1>c. ASSUME RunsKept, RequestsStarted', UNCHANGED jobs,
             Respond(q) \/ (req[q].pc # "idle" /\ \E pc \in ReqPcs : Continue(q, pc))
      PROVE  StartedInv'
  BY <1>c, <1>s, <1>e, JobsKept, CallsKept, CallbacksKept, StartedParts
\* ... and one that does
<1>d. ASSUME UNCHANGED <<run, approval>>, req[q].pc # "idle", NEW j \in JobIds,
             Queue!AddIdempotent(j) \/ Queue!RemoveWaiting(j),
             \A r \in Runs : j = StartJob(r) => r = req[q].run,
             Respond(q) \/ \E pc \in ReqPcs : Continue(q, pc)
      PROVE  StartedInv'
  <2>1. JobStep(j)
    BY <1>d DEF JobStep
  <2>2. jobs'[j].state = "completed" => jobs[j].state = "completed"
    BY <1>d
       DEF Queue!AddIdempotent, Queue!RemoveWaiting, Queue!Job, Queue!NoJob, QueueInv,
           Queue!QueueTypeOK
  <2>3. JobsStarted'
    BY <1>d, <1>s, <1>u, <2>1, <2>2, JobMoves DEF JobsStarted, CompletedJobLeftQueue
  <2> QED
    BY <1>d, <1>s, <1>u, <1>e, <2>3, RequestsKept, CallsKept, CallbacksKept, StartedParts
\* ... and one that writes the status of its run
<1>w. ASSUME req[q].pc # "idle", NEW s \in RunStatuses \ {"queued"}, SetRun(req[q].run, s),
             UNCHANGED <<approval, jobs>>, Respond(q)
      PROVE  StartedInv'
  <2>1. RunsKept
    BY <1>w, <1>s, SetRunLeavesQueue DEF RunStatuses, TerminalStatuses, Absent
  <2> QED
    BY <1>w, <1>s, <1>c, <2>1, RequestsKept
<1>1. ASSUME NEW r \in Runs, StartRun(q, r) PROVE StartedInv'
  <2>1. RunsKept /\ run'[r] # Absent
    BY <1>1 DEF StartRun, SetRun, RunsKept, RowsInv, Absent
  <2> QED
    BY <1>1, <1>b, <2>1 DEF StartRun, ReqPcs
<1>2. ASSUME NEW r \in Runs, Cancel(q, r) PROVE StartedInv'
  BY <1>2, <1>b, <1>u DEF Cancel, ReqPcs
<1>3. ASSUME NEW a \in Approvals,
             ExpireDue(q, a) \/ \E d \in {"approved", "rejected"} : Decide(q, a, d)
      PROVE  StartedInv'
  <2>1. PICK pc \in {"decideRun", "expireWrite"} :
            \E arg : Begin(q, pc, approval[a].run, a, arg)
    BY <1>3 DEF ExpireDue, Decide
  <2>2. approval[a].run \in Runs /\ run[approval[a].run] # Absent
    BY <1>3, <1>s DEF ExpireDue, Decide, RowsInv, ApprovalRecord, RequestsStarted, Absent
  <2>3. UNCHANGED <<run, approval, jobs>>
    BY <1>3 DEF ExpireDue, Decide
  <2> QED
    BY <1>b, <1>u, <2>1, <2>2, <2>3 DEF ReqPcs
<1>4. CASE Abort(q) \/ DecideRun(q) \/ ExpireRun(q)
  <2>1. UNCHANGED <<run, approval, jobs>> /\ req[q].pc # "idle"
    BY <1>4 DEF Abort, DecideRun, ExpireRun, At
  <2>2. Respond(q) \/ \E pc \in {"decideWrite", "expireRunWrite"} : Continue(q, pc)
    BY <1>4 DEF Abort, DecideRun, ExpireRun
  <2> QED
    BY <1>c, <1>s, <1>u, <2>1, <2>2, RequestsKept DEF ReqPcs
<1>5. CASE DecideWrite(q) \/ ExpireWrite(q)
  <2>1. UNCHANGED <<run, jobs>> /\ req[q].pc # "idle" /\ req[q].pc \in DecisionPcs
    BY <1>5 DEF DecideWrite, ExpireWrite, At, DecisionPcs
  <2>2. \A a \in Approvals : approval'[a].run = approval[a].run
    BY <1>5 DEF DecideWrite, ExpireWrite, RowsInv, ApprovalRecord
  <2>3. \A a \in Approvals : approval'[a].status # Absent => approval[a].status # Absent
    BY <1>5, <2>1 DEF DecideWrite, ExpireWrite, RowsInv, ApprovalRecord, ReqInv
  <2>4. RequestsStarted'
    BY <1>s, <2>1, <2>2, <2>3 DEF RequestsStarted
  <2>5. \E pc \in {"enqueueResume", "decideRunWrite", "expireRun"} : Continue(q, pc)
    BY <1>5 DEF DecideWrite, ExpireWrite
  <2> QED
    BY <1>c, <1>u, <2>1, <2>4, <2>5 DEF ReqPcs
<1>6. CASE EnqueueStart(q)
  BY <1>6, <1>d, <1>s, JobIdsDiffer DEF EnqueueStart, At, StartJob
<1>7. CASE CancelSignal(q)
  <2>1. req[q].run \in Runs
    BY <1>7, <1>s DEF CancelSignal, At
  <2>2. PICK j \in {StartJob(req[q].run), CancelJob(req[q].run)} :
          Queue!AddIdempotent(j) \/ Queue!RemoveWaiting(j)
    BY <1>7 DEF CancelSignal
  <2>3. j \in JobIds
    BY <2>1, <2>2, JobIdsDiffer
  <2>4. \A r \in Runs : j = StartJob(r) => r = req[q].run
    BY <2>2 DEF StartJob, CancelJob
  <2> QED
    BY <1>7, <1>d, <2>2, <2>3, <2>4 DEF CancelSignal, At, ReqPcs
<1>8. CASE EnqueueResume(q)
  <2>1. req[q].approval \in Approvals
    BY <1>8 DEF EnqueueResume, At, ReqInv, DecisionPcs
  <2> QED
    BY <1>8, <1>d, <2>1, JobIdsDiffer DEF EnqueueResume, At, ReqPcs
<1>9. CASE CancelWrite(q)
  BY <1>9, <1>w DEF CancelWrite, At, RunStatuses, TerminalStatuses
<1>10. CASE DecideRunWrite(q)
  BY <1>10, <1>w DEF DecideRunWrite, At, Outcome, RunStatuses, TerminalStatuses
<1>11. CASE ExpireRunWrite(q)
  BY <1>11, <1>w DEF ExpireRunWrite, At, RunStatuses, TerminalStatuses
<1> QED
  BY <1>1, <1>2, <1>3, <1>4, <1>5, <1>6, <1>7, <1>8, <1>9, <1>10, <1>11 DEF Call, ReqStep

LEMMA StartedInit == Init => StartedInv
<1> SUFFICES ASSUME Init PROVE StartedInv
  OBVIOUS
<1>1. \A r \in Runs : jobs[StartJob(r)].state = "absent"
  BY JobIdsDiffer DEF Init, Queue!QueueInit, Queue!NoJob, Queue!Job
<1> QED
  BY <1>1 DEF Init, NoApproval, Request, IdleExec, Callback, IdleReq, StartedPcs,
              StartedInv, CompletedJobLeftQueue

LEMMA StartedStep == TypeInv /\ StartedInv /\ [Next]_vars => StartedInv'
<1> SUFFICES ASSUME TypeInv, StartedInv, [Next]_vars PROVE StartedInv'
  OBVIOUS
<1> USE DEF TypeInv
<1>s. JobsStarted /\ RequestsStarted /\ CallsStarted /\ CallbacksStarted
  BY DEF StartedInv, JobsStarted, RequestsStarted, CallsStarted, CallbacksStarted
<1>u. UNCHANGED run => RunsKept
  BY DEF RunsKept
<1>d. ASSUME UNCHANGED <<run, approval, req>>, CallbacksStarted', NEW j \in JobIds, JobStep(j),
             jobs'[j].state # "completed", jobs[j].state # "absent"
      PROVE  StartedInv'
  <2>1. JobsStarted'
    BY <1>d, <1>s, <1>u, JobMoves DEF JobsStarted
  <2> QED
    BY <1>d, <1>s, <1>u, <2>1, RequestsKept, CallsKept, StartedParts
<1>1. ASSUME NEW r \in Runs, TakeStart(r) PROVE StartedInv'
  <2>1. JobStep(StartJob(r)) /\ StartJob(r) \in JobIds
    BY <1>1, JobIdsDiffer DEF TakeStart, JobStep
  <2>2. jobs'[StartJob(r)].state = "active" /\ jobs[StartJob(r)].state # "absent"
    BY <1>1, <2>1
       DEF TakeStart, Queue!Deliver, QueueInv, Queue!QueueTypeOK, Queue!JobRecord
  <2>3. run[r] # Absent
    BY <2>2 DEF StartedInv
  <2>4. CallbacksStarted'
    BY <1>1, <1>s, <2>3 DEF TakeStart, CallbacksStarted, Callback, StartedPcs, ExecInv
  <2> QED
    BY <1>1, <1>d, <2>1, <2>2, <2>4 DEF TakeStart
<1>2. ASSUME NEW a \in Approvals, TakeResume(a) PROVE StartedInv'
  <2>1. JobStep(ResumeJob(a)) /\ ResumeJob(a) \in JobIds
    BY <1>2, JobIdsDiffer DEF TakeResume, JobStep
  <2>2. jobs'[ResumeJob(a)].state = "active" /\ jobs[ResumeJob(a)].state # "absent"
    BY <1>2, <2>1
       DEF TakeResume, Queue!Deliver, QueueInv, Queue!QueueTypeOK, Queue!JobRecord
  <2>3. run[approval[a].run] # Absent
    BY <2>2 DEF StartedInv, QueueInv
  <2>4. CallbacksStarted'
    BY <1>2, <1>s, <2>3 DEF TakeResume, CallbacksStarted, Callback, StartedPcs, ExecInv
  <2> QED
    BY <1>2, <1>d, <2>1, <2>2, <2>4 DEF TakeResume
<1>3. CASE WorkerCrash
  <2>1. CallbacksStarted'
    BY <1>3 DEF WorkerCrash, CallbacksStarted, IdleExec, Callback, StartedPcs
  <2> QED
    BY <1>3, <1>s, <1>u, <2>1, JobsKept, RequestsKept, CallsKept, StartedParts DEF WorkerCrash
<1>4. ASSUME NEW j \in JobIds, StalledJob(j) PROVE StartedInv'
  <2>1. JobStep(j) /\ jobs'[j].state # "completed" /\ jobs[j].state # "absent"
    BY <1>4 DEF StalledJob, JobStep, Queue!Stall, Queue!Job, QueueInv, Queue!QueueTypeOK,
                Queue!JobRecord
  <2>2. CallbacksStarted'
    BY <1>4, <1>s, <1>u, CallbacksKept DEF StalledJob
  <2> QED
    BY <1>4, <1>d, <2>1, <2>2 DEF StalledJob
<1>5. ASSUME NEW a \in Approvals, ForgetResumeJob(a) PROVE StartedInv'
  <2>1. ResumeJob(a) \in JobIds /\ JobStep(ResumeJob(a))
    BY <1>5, JobIdsDiffer DEF ForgetResumeJob, JobStep
  <2>2. jobs'[ResumeJob(a)].state # "completed" /\ jobs[ResumeJob(a)].state # "absent"
    BY <1>5, <2>1 DEF ForgetResumeJob, Queue!Forget, Queue!NoJob, Queue!Job, QueueInv,
                      Queue!QueueTypeOK
  <2>3. CallbacksStarted'
    BY <1>5, <1>s, <1>u, CallbacksKept DEF ForgetResumeJob
  <2> QED
    BY <1>5, <1>d, <2>1, <2>2, <2>3 DEF ForgetResumeJob
<1>6. ASSUME NEW a \in Approvals, DeadlinePasses(a) PROVE StartedInv'
  <2>1. RequestsStarted'
    BY <1>6, <1>s DEF DeadlinePasses, RequestsStarted, RowsInv, ApprovalRecord
  <2> QED
    BY <1>6, <1>s, <1>u, <2>1, JobsKept, CallsKept, CallbacksKept, StartedParts DEF DeadlinePasses
<1>7. CASE UNCHANGED vars
  BY <1>7, <1>s, <1>u, JobsKept, RequestsKept, CallsKept, CallbacksKept, StartedParts DEF vars
<1> QED
  BY <1>1, <1>2, <1>3, <1>4, <1>5, <1>6, <1>7, ExecStepStarted, ReqStepStarted DEF Next

\* CompletedJobLeftQueue: a start job the worker says is done has taken its
\* run out of the queue, whatever is retried, lost or canceled meanwhile.
THEOREM CompletedJobsLeaveNoRun == Spec => []CompletedJobLeftQueue
<1>1. Spec => []TypeInv
  BY TypeInit, TypeStep, PTL DEF Spec
<1>2. StartedInv => CompletedJobLeftQueue
  BY DEF StartedInv
<1> QED
  BY <1>1, <1>2, StartedInit, StartedStep, PTL DEF Spec
-----------------------------------------------------------------------------
(***************************************************************************)
(* When the end of a run, and the decision of an approval, are final: as   *)
(* soon as no handler acts on a reading from before.                       *)
(***************************************************************************)
CallbacksSettled(r) ==
  \A e \in Executors : exec[e].run = r => exec[e].pc \notin StaleExecPcs

CallsSettled(r) ==
  \A q \in Requests : req[q].run = r => req[q].pc \notin StaleReqPcs
-----------------------------------------------------------------------------
(* Moves that keep the callbacks and the calls of a run settled. *)

LEMMA GotoSettled ==
  ASSUME ExecInv, NEW r \in Runs, CallbacksSettled(r), NEW e \in Executors,
         NEW pc \in ExecPcs, Goto(e, pc), exec[e].run = r => pc \notin StaleExecPcs
  PROVE  CallbacksSettled(r)'
BY DEF ExecInv, ExecRecord, Goto, CallbacksSettled

LEMMA GotoReceiptSettled ==
  ASSUME ExecInv, NEW r \in Runs, CallbacksSettled(r), NEW e \in Executors,
         NEW final \in ReceiptStatuses, GotoReceipt(e, final)
  PROVE  CallbacksSettled(r)'
<1>1. exec \in [Executors -> ExecRecord]
  BY DEF ExecInv
<1>2. exec'[e].pc = "receipt" /\ \A x \in Executors \ {e} : exec'[x] = exec[x]
  BY <1>1 DEF GotoReceipt, ExecRecord
<1> QED
  BY <1>2 DEF CallbacksSettled, StaleExecPcs

LEMMA IdleSettled ==
  ASSUME ExecInv, NEW r \in Runs, CallbacksSettled(r), NEW e \in Executors,
         exec' = [exec EXCEPT ![e] = IdleExec]
  PROVE  CallbacksSettled(r)'
BY DEF ExecInv, IdleExec, Callback, CallbacksSettled, StaleExecPcs

LEMMA ContinueSettled ==
  ASSUME ReqInv, NEW r \in Runs, CallsSettled(r), NEW q \in Requests,
         NEW pc \in ReqPcs, Continue(q, pc), req[q].run = r => pc \notin StaleReqPcs
  PROVE  CallsSettled(r)'
BY DEF ReqInv, ReqRecord, Continue, CallsSettled

LEMMA BeginSettled ==
  ASSUME ReqInv, NEW r \in Runs, CallsSettled(r), NEW q \in Requests, NEW pc \in ReqPcs,
         NEW s \in Runs, NEW a, NEW arg, Begin(q, pc, s, a, arg), s = r => pc \notin StaleReqPcs
  PROVE  CallsSettled(r)'
BY DEF ReqInv, ReqRecord, Begin, CallsSettled

LEMMA RespondSettled ==
  ASSUME ReqInv, NEW r \in Runs, CallsSettled(r), NEW q \in Requests, Respond(q)
  PROVE  CallsSettled(r)'
BY DEF ReqInv, Respond, IdleReq, CallsSettled, StaleReqPcs
-----------------------------------------------------------------------------
LEMMA ExecStepSettled ==
  ASSUME TypeInv, NEW r \in Runs, Settled(r), NEW e \in Executors, ExecStep(e) \/ UncaughtError(e)
  PROVE  run'[r] = run[r] /\ CallbacksSettled(r)'
<1> USE DEF TypeInv
<1>s. /\ run[r] \in TerminalStatuses /\ CallbacksSettled(r)
      /\ exec[e].run = r => exec[e].pc \notin StaleExecPcs
  BY DEF Settled, CallbacksSettled
<1>t. /\ IsTerminal(run[r]) /\ run[r] # "running"
      /\ run[r] # "waiting_for_approval" /\ ~CanTransition(run[r], "waiting_for_approval")
  BY <1>s DEF IsTerminal, TerminalStatuses, CanTransition, WorkflowRunTransitions, RunStatuses
<1>1. CASE AssertApprovalCanResume(e)
  <2>1. exec[e].run # r
    BY <1>1, <1>s DEF AssertApprovalCanResume, StaleExecPcs
  <2>2. PICK pc \in {"checkAgent", "fail"} : Goto(e, pc)
    BY <1>1 DEF AssertApprovalCanResume
  <2> QED
    BY <1>1, <1>s, <2>1, <2>2, GotoSettled DEF AssertApprovalCanResume, SetRun, RowsInv, ExecPcs
<1>2. CASE AssertAgentActiveForResume(e)
  <2>1. exec[e].run # r
    BY <1>2, <1>s DEF AssertAgentActiveForResume, StaleExecPcs
  <2>2. PICK pc \in {"markStarted", "fail"} : Goto(e, pc)
    BY <1>2 DEF AssertAgentActiveForResume
  <2> QED
    BY <1>2, <1>s, <2>1, <2>2, GotoSettled DEF AssertAgentActiveForResume, SetRun, RowsInv, ExecPcs
<1>3. CASE MarkStarted(e)
  <2>1. exec[e].run # r
    BY <1>3, <1>s DEF MarkStarted, StaleExecPcs
  <2>2. PICK pc \in {"checkCanceled", "work"} : Goto(e, pc)
    BY <1>3 DEF MarkStarted
  <2> QED
    BY <1>3, <1>s, <2>1, <2>2, GotoSettled DEF MarkStarted, SetRun, RowsInv, ExecPcs
<1>4. CASE Work(e)
  <2>1. exec[e].run # r
    BY <1>4, <1>s DEF Work, StaleExecPcs
  <2>2. PICK pc \in {"submit", "complete", "requestApproval"} : Goto(e, pc)
    BY <1>4 DEF Work
  <2> QED
    BY <1>4, <1>s, <2>1, <2>2, GotoSettled DEF Work, SetRun, RowsInv, ExecPcs
<1>5. CASE SubmitDowngrade(e)
  <2>1. exec[e].run # r
    BY <1>5, <1>s DEF SubmitDowngrade, StaleExecPcs
  <2>2. PICK pc \in {"complete"} : Goto(e, pc)
    BY <1>5 DEF SubmitDowngrade
  <2> QED
    BY <1>5, <1>s, <2>1, <2>2, GotoSettled DEF SubmitDowngrade, SetRun, RowsInv, ExecPcs
<1>6. CASE WaitForApprovalWrite(e)
  <2>1. exec[e].run # r
    BY <1>6, <1>s DEF WaitForApprovalWrite, StaleExecPcs
  <2>2. PICK pc \in {"createApproval"} : Goto(e, pc)
    BY <1>6 DEF WaitForApprovalWrite
  <2> QED
    BY <1>6, <1>s, <2>1, <2>2, GotoSettled DEF WaitForApprovalWrite, SetRun, RowsInv, ExecPcs
<1>7. CASE CompleteRunWrite(e)
  <2>1. exec[e].run # r
    BY <1>7, <1>s DEF CompleteRunWrite, StaleExecPcs
  <2> QED
    BY <1>7, <1>s, <2>1, GotoReceiptSettled DEF CompleteRunWrite, SetRun, RowsInv, ReceiptStatuses
<1>8. CASE PolicyDenied(e)
  <2>1. exec[e].run # r
    BY <1>8, <1>s DEF PolicyDenied, StaleExecPcs
  <2> QED
    BY <1>8, <1>s, <2>1, GotoReceiptSettled DEF PolicyDenied, SetRun, RowsInv, ReceiptStatuses
<1>9. CASE FailRunWrite(e)
  <2>1. exec[e].run # r
    BY <1>9, <1>s DEF FailRunWrite, StaleExecPcs
  <2> QED
    BY <1>9, <1>s, <2>1, GotoReceiptSettled DEF FailRunWrite, SetRun, RowsInv, ReceiptStatuses
<1>10. CASE CompleteRun(e)
  <2>1. PICK pc \in {"completeWrite", "fail"} :
          Goto(e, pc) /\ (exec[e].run = r => pc \notin StaleExecPcs)
    BY <1>10, <1>t DEF CompleteRun, StaleExecPcs
  <2> QED
    BY <1>10, <1>s, <2>1, GotoSettled DEF CompleteRun, ExecPcs
<1>11. CASE CreateApprovalForRun(e)
  <2>1. PICK pc \in {"createApproval", "waitWrite", "fail"} :
          Goto(e, pc) /\ (exec[e].run = r => pc \notin StaleExecPcs)
    BY <1>11, <1>t DEF CreateApprovalForRun, StaleExecPcs
  <2> QED
    BY <1>11, <1>s, <2>1, GotoSettled DEF CreateApprovalForRun, ExecPcs
<1>12. CASE CreateApprovalWrite(e)
  <2>1. PICK pc \in {"return", "fail"} :
          Goto(e, pc) /\ (exec[e].run = r => pc \notin StaleExecPcs)
    BY <1>12, <1>t DEF CreateApprovalWrite, StaleExecPcs
  <2> QED
    BY <1>12, <1>s, <2>1, GotoSettled DEF CreateApprovalWrite, ExecPcs
<1>13. CASE CreateReceipt(e)
  <2>1. PICK pc \in {"return"} :
          Goto(e, pc) /\ (exec[e].run = r => pc \notin StaleExecPcs)
    BY <1>13, <1>t DEF CreateReceipt, StaleExecPcs
  <2> QED
    BY <1>13, <1>s, <2>1, GotoSettled DEF CreateReceipt, ExecPcs
<1>14. CASE TryBlockThrows(e)
  <2>1. PICK pc \in {"fail", "deny"} :
          Goto(e, pc) /\ (exec[e].run = r => pc \notin StaleExecPcs)
    BY <1>14, <1>s DEF TryBlockThrows, StaleExecPcs
  <2> QED
    BY <1>14, <1>s, <2>1, GotoSettled DEF TryBlockThrows, ExecPcs
<1>15. CASE FindExecutableRun(e)
  <2>1. CASE exec' = [exec EXCEPT ![e] = IdleExec]
    BY <1>15, <1>s, <2>1, IdleSettled DEF FindExecutableRun
  <2>2. CASE exec[e].run # r /\ \E pc \in {"markStarted", "checkApproval"} : Goto(e, pc)
    BY <1>15, <1>s, <2>2, GotoSettled DEF FindExecutableRun, ExecPcs
  <2> QED
    BY <1>15, <1>s, <1>t, <2>1, <2>2 DEF FindExecutableRun, Return, Throw, StaleExecPcs
<1>16. CASE CheckCanceled(e)
  <2>1. CASE exec' = [exec EXCEPT ![e] = IdleExec]
    BY <1>16, <1>s, <2>1, IdleSettled DEF CheckCanceled
  <2>2. CASE exec[e].run # r /\ \E pc \in {"work"} : Goto(e, pc)
    BY <1>16, <1>s, <2>2, GotoSettled DEF CheckCanceled, ExecPcs
  <2> QED
    BY <1>16, <1>s, <1>t, <2>1, <2>2 DEF CheckCanceled, Return, Throw, StaleExecPcs
<1>17. CASE FailRun(e)
  <2>1. CASE exec' = [exec EXCEPT ![e] = IdleExec]
    BY <1>17, <1>s, <2>1, IdleSettled DEF FailRun
  <2>2. CASE exec[e].run # r /\ \E pc \in {"failWrite"} : Goto(e, pc)
    BY <1>17, <1>s, <2>2, GotoSettled DEF FailRun, ExecPcs
  <2> QED
    BY <1>17, <1>s, <1>t, <2>1, <2>2 DEF FailRun, Return, Throw, StaleExecPcs
<1>18. CASE ReturnFromCallback(e)
  BY <1>18, <1>s, IdleSettled DEF ReturnFromCallback, Return, Throw
<1>19. CASE UncaughtError(e)
  BY <1>19, <1>s, IdleSettled DEF UncaughtError, Return, Throw
<1> QED
  BY <1>1, <1>2, <1>3, <1>4, <1>5, <1>6, <1>7, <1>8, <1>9, <1>10, <1>11, <1>12, <1>13, <1>14,
     <1>15, <1>16, <1>17, <1>18, <1>19
     DEF ExecStep

LEMMA ReqStepSettled ==
  ASSUME TypeInv, NEW r \in Runs, Settled(r), NEW q \in Requests, Call(q) \/ ReqStep(q) \/ Abort(q)
  PROVE  run'[r] = run[r] /\ CallsSettled(r)'
<1> USE DEF TypeInv
<1>s. /\ run[r] \in TerminalStatuses /\ CallsSettled(r)
      /\ req[q].run = r => req[q].pc \notin StaleReqPcs
  BY DEF Settled, CallsSettled
<1>t. /\ run[r] # Absent /\ run[r] # "waiting_for_approval"
      /\ \A s \in RunStatuses : ~CanTransition(run[r], s)
  BY <1>s DEF TerminalStatuses, Absent, CanTransition, WorkflowRunTransitions, RunStatuses
<1>1. ASSUME NEW s \in Runs, StartRun(q, s) PROVE run'[r] = run[r] /\ CallsSettled(r)'
  <2>1. s # r
    BY <1>1, <1>t DEF StartRun
  <2> QED
    BY <1>1, <1>s, <2>1, BeginSettled DEF StartRun, SetRun, RowsInv, ReqPcs
<1>2. ASSUME NEW s \in Runs, Cancel(q, s) PROVE run'[r] = run[r] /\ CallsSettled(r)'
  <2>1. s # r
    BY <1>2, <1>t DEF Cancel, RunStatuses, TerminalStatuses
  <2> QED
    BY <1>2, <1>s, <2>1, BeginSettled DEF Cancel, ReqPcs
<1>3. ASSUME NEW a \in Approvals, ExpireDue(q, a)
        \/ \E d \in {"approved", "rejected"} : Decide(q, a, d)
      PROVE  run'[r] = run[r] /\ CallsSettled(r)'
  <2>1. PICK pc \in {"decideRun", "expireWrite"}, arg \in Decisions \cup {Absent} :
          Begin(q, pc, approval[a].run, a, arg)
    BY <1>3 DEF ExpireDue, Decide, Decisions
  <2>2. approval[a].run \in Runs
    BY <1>3 DEF ExpireDue, Decide, RowsInv, ApprovalRecord, Absent
  <2> QED
    BY <1>3, <1>s, <2>1, <2>2, BeginSettled DEF ExpireDue, Decide, ReqPcs, StaleReqPcs
<1>4. CASE EnqueueStart(q) \/ Abort(q)
  BY <1>4, <1>s, RespondSettled DEF EnqueueStart, Abort
<1>5. CASE CancelWrite(q) \/ DecideRunWrite(q) \/ ExpireRunWrite(q)
  <2>1. req[q].run # r
    BY <1>5, <1>s DEF CancelWrite, DecideRunWrite, ExpireRunWrite, At, StaleReqPcs
  <2> QED
    BY <1>5, <1>s, <2>1, RespondSettled
       DEF CancelWrite, DecideRunWrite, ExpireRunWrite, SetRun, RowsInv
<1>6. CASE CancelSignal(q) \/ EnqueueResume(q) \/ DecideWrite(q)
  <2>1. req[q].run # r
    BY <1>6, <1>s DEF CancelSignal, EnqueueResume, DecideWrite, At, StaleReqPcs
  <2>2. PICK pc \in {"cancelWrite", "decideRunWrite", "enqueueResume"} : Continue(q, pc)
    BY <1>6 DEF CancelSignal, EnqueueResume, DecideWrite
  <2> QED
    BY <1>6, <1>s, <2>1, <2>2, ContinueSettled DEF CancelSignal, EnqueueResume, DecideWrite, ReqPcs
<1>7. CASE DecideRun(q)
  <2>1. CASE Respond(q)
    BY <1>7, <1>s, <2>1, RespondSettled DEF DecideRun
  <2>2. CASE req[q].run # r /\ Continue(q, "decideWrite")
    BY <1>7, <1>s, <2>2, ContinueSettled DEF DecideRun, ReqPcs
  <2> QED
    BY <1>7, <1>t, <2>1, <2>2 DEF DecideRun, Outcome, RunStatuses, TerminalStatuses
<1>8. CASE ExpireRun(q)
  <2>1. CASE Respond(q)
    BY <1>8, <1>s, <2>1, RespondSettled DEF ExpireRun
  <2>2. CASE req[q].run # r /\ Continue(q, "expireRunWrite")
    BY <1>8, <1>s, <2>2, ContinueSettled DEF ExpireRun, ReqPcs
  <2> QED
    BY <1>8, <1>t, <2>1, <2>2 DEF ExpireRun
<1>9. CASE ExpireWrite(q)
  BY <1>9, <1>s, ContinueSettled DEF ExpireWrite, ReqPcs, StaleReqPcs
<1> QED
  BY <1>1, <1>2, <1>3, <1>4, <1>5, <1>6, <1>7, <1>8, <1>9 DEF Call, ReqStep

LEMMA StepSettled ==
  ASSUME TypeInv, [Next]_vars, NEW r \in Runs, Settled(r)
  PROVE  run'[r] = run[r] /\ Settled(r)'
<1>s. run[r] \in TerminalStatuses /\ CallbacksSettled(r) /\ CallsSettled(r)
  BY DEF Settled, CallbacksSettled, CallsSettled
<1>u. run'[r] = run[r] /\ CallbacksSettled(r)' /\ CallsSettled(r)' => run'[r] = run[r]
        /\ Settled(r)'
  BY <1>s DEF Settled, CallbacksSettled, CallsSettled
<1>1. ASSUME NEW q \in Requests, Call(q) \/ ReqStep(q) \/ Abort(q)
        PROVE run'[r] = run[r] /\ Settled(r)'
  <2>1. UNCHANGED exec
    BY <1>1
       DEF Call, ReqStep, Abort, StartRun, Cancel, ExpireDue, Decide, EnqueueStart, CancelSignal,
           CancelWrite,
           DecideRun, DecideWrite, EnqueueResume, DecideRunWrite, ExpireWrite, ExpireRun,
              ExpireRunWrite
  <2> QED
    BY <1>1, <1>s, <1>u, <2>1, ReqStepSettled DEF CallbacksSettled
<1>2. ASSUME NEW e \in Executors, ExecStep(e) \/ UncaughtError(e)
        PROVE run'[r] = run[r] /\ Settled(r)'
  <2>1. UNCHANGED req
    BY <1>2
       DEF ExecStep, UncaughtError, FindExecutableRun, AssertApprovalCanResume,
           AssertAgentActiveForResume,
           MarkStarted, CheckCanceled, Work, SubmitDowngrade, CompleteRun, CompleteRunWrite,
           CreateApprovalForRun, WaitForApprovalWrite, CreateApprovalWrite, CreateReceipt,
           ReturnFromCallback, TryBlockThrows, PolicyDenied, FailRun, FailRunWrite
  <2> QED
    BY <1>2, <1>s, <1>u, <2>1, ExecStepSettled DEF CallsSettled
<1>3. CASE (\E s \in Runs : TakeStart(s)) \/ (\E a \in Approvals : TakeResume(a)) \/ WorkerCrash
  <2>1. run'[r] = run[r] /\ CallsSettled(r)'
    BY <1>3, <1>s DEF TakeStart, TakeResume, WorkerCrash, CallsSettled
  <2>2. CallbacksSettled(r)'
    BY <1>3, <1>s
       DEF TakeStart, TakeResume, WorkerCrash, CallbacksSettled, Callback, IdleExec, StaleExecPcs,
           TypeInv, ExecInv
  <2> QED
    BY <1>u, <2>1, <2>2
<1>4. CASE \/ \E a \in Approvals : ForgetResumeJob(a) \/ DeadlinePasses(a)
           \/ \E j \in JobIds : StalledJob(j)
           \/ UNCHANGED vars
  BY <1>4, <1>s, <1>u
     DEF ForgetResumeJob, DeadlinePasses, StalledJob, vars, CallbacksSettled, CallsSettled
<1> QED
  BY <1>1, <1>2, <1>3, <1>4 DEF Next

LEMMA AlwaysTyped == Spec => []TypeInv
BY TypeInit, TypeStep, PTL DEF Spec

\* A run that has ended keeps its status for good once no handler acts on a
\* reading from before its end: every path to a status tests it first.
THEOREM EndOfRunIsFinal == Spec => SettledRunIsFinal
<1>1. TypeInv /\ [Next]_vars =>
        [\A r \in Runs : Settled(r) => run'[r] = run[r] /\ Settled(r)']_vars
  BY StepSettled
<1> QED
  BY <1>1, AlwaysTyped, PTL DEF Spec, SettledRunIsFinal
-----------------------------------------------------------------------------
(* The decision of an approval. *)

DecidingPcs == {"decideRun", "decideWrite", "expireWrite"}

\* A call that begins, goes on or ends leaves a settled approval settled,
\* unless it is a decision of that very approval.
LEMMA DecisionsSettled ==
  ASSUME ReqInv, NEW a \in Approvals,
         \A q \in Requests : req[q].approval = a => req[q].pc \notin DecidingPcs,
         NEW q \in Requests,
         \/ Respond(q)
         \/ \E pc \in ReqPcs : Continue(q, pc) /\ (req[q].approval = a => pc \notin DecidingPcs)
         \/ \E pc \in ReqPcs, r \in Runs : \E b, arg :
              Begin(q, pc, r, b, arg) /\ (b = a => pc \notin DecidingPcs)
  PROVE  \A p \in Requests : req'[p].approval = a => req'[p].pc \notin DecidingPcs
BY DEF ReqInv, ReqRecord, Respond, IdleReq, Continue, Begin, DecidingPcs

LEMMA ApprovalStep ==
  ASSUME TypeInv, [Next]_vars, NEW a \in Approvals, ApprovalSettled(a)
  PROVE  approval'[a].status = approval[a].status /\ ApprovalSettled(a)'
<1> USE DEF TypeInv
<1>s. /\ approval[a].status \in {"approved", "rejected", "expired"}
      /\ \A q \in Requests : req[q].approval = a => req[q].pc \notin DecidingPcs
      /\ approval \in [Approvals -> ApprovalRecord]
  BY DEF ApprovalSettled, DecidingPcs, RowsInv
<1>u. ASSUME approval'[a].status = approval[a].status,
             \A q \in Requests : req'[q].approval = a => req'[q].pc \notin DecidingPcs
      PROVE  approval'[a].status = approval[a].status /\ ApprovalSettled(a)'
  BY <1>s, <1>u DEF ApprovalSettled, DecidingPcs
<1>1. ASSUME NEW q \in Requests, NEW r \in Runs, StartRun(q, r) \/ Cancel(q, r)
      PROVE  approval'[a].status = approval[a].status /\ ApprovalSettled(a)'
  <2>1. PICK pc \in {"enqueueStart", "cancelSignal"} : \E arg : Begin(q, pc, r, None, arg)
    BY <1>1 DEF StartRun, Cancel
  <2>2. pc \in ReqPcs /\ pc \notin DecidingPcs
    BY DEF ReqPcs, DecidingPcs
  <2>3. UNCHANGED approval
    BY <1>1 DEF StartRun, Cancel
  <2> QED
    BY <1>s, <1>u, <2>1, <2>2, <2>3, DecisionsSettled
<1>2. ASSUME NEW q \in Requests, NEW b \in Approvals,
             ExpireDue(q, b) \/ \E d \in {"approved", "rejected"} : Decide(q, b, d)
      PROVE  approval'[a].status = approval[a].status /\ ApprovalSettled(a)'
  <2>1. PICK pc \in {"decideRun", "expireWrite"} :
            \E arg : Begin(q, pc, approval[b].run, b, arg)
    BY <1>2 DEF ExpireDue, Decide
  <2>2. pc \in ReqPcs /\ approval[b].run \in Runs /\ b # a
    BY <1>2, <1>s DEF ExpireDue, Decide, RowsInv, ApprovalRecord, Absent, ReqPcs
  <2>3. UNCHANGED approval
    BY <1>2 DEF ExpireDue, Decide
  <2> QED
    BY <1>s, <1>u, <2>1, <2>2, <2>3, DecisionsSettled
<1>3. ASSUME NEW q \in Requests,
             Abort(q) \/ EnqueueStart(q) \/ CancelWrite(q) \/ DecideRunWrite(q) \/ ExpireRunWrite(q)
      PROVE  approval'[a].status = approval[a].status /\ ApprovalSettled(a)'
  <2>1. Respond(q) /\ UNCHANGED approval
    BY <1>3 DEF Abort, EnqueueStart, CancelWrite, DecideRunWrite, ExpireRunWrite
  <2> QED
    BY <1>s, <1>u, <2>1, DecisionsSettled
<1>4. ASSUME NEW q \in Requests, DecideRun(q)
      PROVE  approval'[a].status = approval[a].status /\ ApprovalSettled(a)'
  <2>1. req[q].approval # a /\ UNCHANGED approval
    BY <1>4, <1>s DEF DecideRun, At, DecidingPcs
  <2>2. Respond(q) \/ Continue(q, "decideWrite")
    BY <1>4 DEF DecideRun
  <2> QED
    BY <1>s, <1>u, <2>1, <2>2, DecisionsSettled DEF ReqPcs
<1>5. ASSUME NEW q \in Requests, DecideWrite(q) \/ ExpireWrite(q)
      PROVE  approval'[a].status = approval[a].status /\ ApprovalSettled(a)'
  <2>1. req[q].approval # a
    BY <1>5, <1>s DEF DecideWrite, ExpireWrite, At, DecidingPcs
  <2>2. approval'[a] = approval[a]
    BY <1>5, <1>s, <2>1 DEF DecideWrite, ExpireWrite
  <2>3. PICK pc \in {"enqueueResume", "decideRunWrite", "expireRun"} : Continue(q, pc)
    BY <1>5 DEF DecideWrite, ExpireWrite
  <2>4. pc \in ReqPcs
    BY DEF ReqPcs
  <2> QED
    BY <1>s, <1>u, <2>1, <2>2, <2>3, <2>4, DecisionsSettled
<1>6. ASSUME NEW q \in Requests, CancelSignal(q) \/ EnqueueResume(q) \/ ExpireRun(q)
      PROVE  approval'[a].status = approval[a].status /\ ApprovalSettled(a)'
  <2>1. UNCHANGED approval
    BY <1>6 DEF CancelSignal, EnqueueResume, ExpireRun
  <2>2. Respond(q) \/ \E pc \in {"cancelWrite", "decideRunWrite", "expireRunWrite"} : Continue(q, pc)
    BY <1>6 DEF CancelSignal, EnqueueResume, ExpireRun
  <2> QED
    BY <1>s, <1>u, <2>1, <2>2, DecisionsSettled DEF ReqPcs, DecidingPcs
<1>7. ASSUME UNCHANGED req, approval'[a].status = approval[a].status
      PROVE  approval'[a].status = approval[a].status /\ ApprovalSettled(a)'
  BY <1>7, <1>s, <1>u
<1>8. ASSUME NEW e \in Executors, ExecStep(e) \/ UncaughtError(e)
      PROVE  approval'[a].status = approval[a].status /\ ApprovalSettled(a)'
  <2>1. UNCHANGED req
    BY <1>8
       DEF ExecStep, UncaughtError, FindExecutableRun, AssertApprovalCanResume,
           AssertAgentActiveForResume, MarkStarted, CheckCanceled, Work, SubmitDowngrade,
           CompleteRun, CompleteRunWrite, CreateApprovalForRun, WaitForApprovalWrite,
           CreateApprovalWrite, CreateReceipt, ReturnFromCallback, TryBlockThrows, PolicyDenied,
           FailRun, FailRunWrite
  <2>2. CASE CreateApprovalWrite(e)
    BY <1>s, <1>7, <2>1, <2>2 DEF CreateApprovalWrite, Absent
  <2>3. CASE ~CreateApprovalWrite(e)
    <3>1. UNCHANGED approval
      BY <1>8, <2>3
         DEF ExecStep, UncaughtError, FindExecutableRun, AssertApprovalCanResume,
             AssertAgentActiveForResume, MarkStarted, CheckCanceled, Work, SubmitDowngrade,
             CompleteRun, CompleteRunWrite, CreateApprovalForRun, WaitForApprovalWrite,
             CreateReceipt, ReturnFromCallback, TryBlockThrows, PolicyDenied, FailRun, FailRunWrite
    <3> QED
      BY <1>7, <2>1, <3>1
  <2> QED
    BY <2>2, <2>3
<1>9. ASSUME NEW b \in Approvals, DeadlinePasses(b)
      PROVE  approval'[a].status = approval[a].status /\ ApprovalSettled(a)'
  BY <1>9, <1>s, <1>7 DEF DeadlinePasses, ApprovalRecord
<1>10. CASE \/ (\E r \in Runs : TakeStart(r)) \/ (\E b \in Approvals : TakeResume(b)) \/ WorkerCrash
            \/ (\E b \in Approvals : ForgetResumeJob(b)) \/ (\E j \in JobIds : StalledJob(j))
            \/ UNCHANGED vars
  BY <1>10, <1>7 DEF TakeStart, TakeResume, WorkerCrash, ForgetResumeJob, StalledJob, vars
<1> QED
  BY <1>1, <1>2, <1>3, <1>4, <1>5, <1>6, <1>8, <1>9, <1>10 DEF Next, Call, ReqStep

\* SettledApprovalIsFinal: a decided approval keeps its decision once every
\* decision that read it as pending is through.
THEOREM DecisionIsFinal == Spec => SettledApprovalIsFinal
<1>1. TypeInv /\ [Next]_vars =>
        [\A a \in Approvals : ApprovalSettled(a) =>
           approval'[a].status = approval[a].status /\ ApprovalSettled(a)']_vars
  BY ApprovalStep
<1> QED
  BY <1>1, AlwaysTyped, PTL DEF Spec, SettledApprovalIsFinal
-----------------------------------------------------------------------------
(* What is stranded. *)

(***************************************************************************)
(* Where calls and callbacks stand is enough here too: a resume job that   *)
(* was taken was delivered, a decision writes the run its request was made *)
(* for, and only the callback of a start job puts a run to wait.           *)
(***************************************************************************)
TakenDelivered ==
  /\ \A a \in Approvals :
       jobs[ResumeJob(a)].state \in {"active", "completed", "failed"} => delivered[a] > 0
  /\ \A e \in Executors : exec[e].approval # None => delivered[exec[e].approval] > 0

DecisionsFit ==
  \A q \in Requests : req[q].pc \in DecisionPcs => approval[req[q].approval].run = req[q].run

StartsWait ==
  /\ exec["workflow-resume"].pc # "idle" => exec["workflow-resume"].approval # None
  /\ \A e \in Executors :
       exec[e].pc \in {"requestApproval", "waitWrite", "createApproval"} => exec[e].approval = None

PlacesInv == TakenDelivered /\ DecisionsFit /\ StartsWait

\* pcs of a start callback that will put a request to a waiting run, or end it.
AttendingPcs == {"createApproval", "fail", "failWrite"}

Attended(r) == exec["workflow-runs"].run = r /\ exec["workflow-runs"].pc \in AttendingPcs

Open(r) ==
  \E a \in Approvals : approval[a].run = r /\ approval[a].status \notin {"rejected", "expired"}

MovingPcs == {"enqueueResume", "decideRunWrite", "expireRun", "expireRunWrite"}

Called(r) == \E q \in Requests : req[q].run = r /\ req[q].pc \in MovingPcs

NothingStranded ==
  StrandedRuns' \subseteq StrandedRuns /\ StrandedGrants' \subseteq StrandedGrants

OneStranded ==
  \/ \E r : StrandedRuns' \subseteq StrandedRuns \cup {r} /\ StrandedGrants' \subseteq StrandedGrants
  \/ \E a : StrandedRuns' \subseteq StrandedRuns /\ StrandedGrants' \subseteq StrandedGrants \cup {a}

StrandInv == IsFiniteSet(StrandedRuns) /\ IsFiniteSet(StrandedGrants) /\ FaultsStrandOne

LEMMA NoneCounted ==
  ASSUME TypeInv, StrandInv, NothingStranded, UNCHANGED faults
  PROVE  StrandInv'
<1>1. /\ IsFiniteSet(StrandedRuns') /\ Cardinality(StrandedRuns') <= Cardinality(StrandedRuns)
      /\ IsFiniteSet(StrandedGrants') /\ Cardinality(StrandedGrants') <= Cardinality(StrandedGrants)
  BY FS_Subset DEF NothingStranded, StrandInv
<1>2. /\ Cardinality(StrandedRuns) \in Nat /\ Cardinality(StrandedRuns') \in Nat
      /\ Cardinality(StrandedGrants) \in Nat /\ Cardinality(StrandedGrants') \in Nat
      /\ faults \in Nat
  BY <1>1, FS_CardinalityType, LifecycleAssumption
     DEF StrandInv, TypeInv, RowsInv, LifecycleAssumption
<1> QED
  BY <1>1, <1>2 DEF StrandInv, FaultsStrandOne

LEMMA OneCounted ==
  ASSUME TypeInv, StrandInv, OneStranded, faults' = faults + 1
  PROVE  StrandInv'
<1>1. /\ Cardinality(StrandedRuns) \in Nat /\ Cardinality(StrandedGrants) \in Nat
      /\ faults \in Nat
      /\ Cardinality(StrandedRuns) + Cardinality(StrandedGrants) <= faults
  BY FS_CardinalityType, LifecycleAssumption
     DEF StrandInv, TypeInv, RowsInv, LifecycleAssumption, FaultsStrandOne
<1>2. ASSUME NEW S, NEW T, NEW x, IsFiniteSet(S), T \subseteq S \cup {x}
      PROVE  IsFiniteSet(T) /\ Cardinality(T) \in Nat /\ Cardinality(T) <= Cardinality(S) + 1
  <2>1. /\ IsFiniteSet(S \cup {x}) /\ Cardinality(S \cup {x}) <= Cardinality(S) + 1
        /\ Cardinality(S) \in Nat /\ Cardinality(S \cup {x}) \in Nat
    BY <1>2, FS_AddElement, FS_CardinalityType
  <2>2. IsFiniteSet(T) /\ Cardinality(T) <= Cardinality(S \cup {x})
    BY <1>2, <2>1, FS_Subset
  <2>3. Cardinality(T) \in Nat
    BY <2>2, FS_CardinalityType
  <2> QED
    BY <2>1, <2>2, <2>3
<1>3. ASSUME NEW S, NEW T, IsFiniteSet(S), T \subseteq S
      PROVE  IsFiniteSet(T) /\ Cardinality(T) \in Nat /\ Cardinality(T) <= Cardinality(S)
  BY <1>3, FS_Subset, FS_CardinalityType
<1>4. /\ IsFiniteSet(StrandedRuns') /\ IsFiniteSet(StrandedGrants')
      /\ Cardinality(StrandedRuns') \in Nat /\ Cardinality(StrandedGrants') \in Nat
      /\ \/ /\ Cardinality(StrandedRuns') <= Cardinality(StrandedRuns) + 1
            /\ Cardinality(StrandedGrants') <= Cardinality(StrandedGrants)
         \/ /\ Cardinality(StrandedRuns') <= Cardinality(StrandedRuns)
            /\ Cardinality(StrandedGrants') <= Cardinality(StrandedGrants) + 1
  <2>1. IsFiniteSet(StrandedRuns) /\ IsFiniteSet(StrandedGrants)
    BY DEF StrandInv
  <2>2. CASE \E r : /\ StrandedRuns' \subseteq StrandedRuns \cup {r}
                    /\ StrandedGrants' \subseteq StrandedGrants
    BY <1>2, <1>3, <2>1, <2>2
  <2>3. CASE \E a : /\ StrandedRuns' \subseteq StrandedRuns
                    /\ StrandedGrants' \subseteq StrandedGrants \cup {a}
    BY <1>2, <1>3, <2>1, <2>3
  <2> QED
    BY <2>2, <2>3 DEF OneStranded
<1> QED
  BY <1>1, <1>4 DEF StrandInv, FaultsStrandOne
-----------------------------------------------------------------------------
TakenStates == {"active", "completed", "failed"}

\* A job that is not the resume job of an approval, or is of a delivered one.
LEMMA JobsTaken ==
  ASSUME TypeInv, TakenDelivered, UNCHANGED delivered, NEW j \in JobIds, JobStep(j),
         \A a \in Approvals :
           j = ResumeJob(a) /\ jobs'[j].state \in TakenStates => delivered[a] > 0,
         \A e \in Executors : exec'[e].approval \in {exec[e].approval, None}
  PROVE  TakenDelivered'
<1>1. \A i \in JobIds \ {j} : jobs'[i] = jobs[i]
  BY JobStepIsLocal DEF TypeInv, QueueInv
<1>2. \A a \in Approvals : ResumeJob(a) \in JobIds
  BY JobIdsDiffer
<1>3. ASSUME NEW a \in Approvals, jobs'[ResumeJob(a)].state \in TakenStates
      PROVE  delivered'[a] > 0
  BY <1>1, <1>2, <1>3 DEF TakenDelivered, TakenStates
<1> QED
  BY <1>3 DEF TakenDelivered, TakenStates, ResumeJob

LEMMA JobsStayTaken ==
  ASSUME TakenDelivered, UNCHANGED <<delivered, jobs>>,
         \A e \in Executors : exec'[e].approval \in {exec[e].approval, None}
  PROVE  TakenDelivered'
BY DEF TakenDelivered, ResumeJob

LEMMA GotoPlaces ==
  ASSUME TypeInv, PlacesInv, NEW e \in Executors, exec[e].pc # "idle",
         UNCHANGED <<delivered, jobs, req>>, ApprovalsKept,
         \/ \E pc \in ExecPcs :
              /\ Goto(e, pc)
              /\ pc \in {"requestApproval", "waitWrite", "createApproval"} =>
                   exec[e].approval = None
         \/ \E final : GotoReceipt(e, final)
  PROVE  PlacesInv'
<1> USE DEF TypeInv
<1>1. exec \in [Executors -> ExecRecord]
  BY DEF ExecInv
<1>2. \A x \in Executors : exec'[x].approval = exec[x].approval
  BY <1>1 DEF Goto, GotoReceipt, ExecRecord
<1>3. \A x \in Executors \ {e} : exec'[x] = exec[x]
  BY <1>1 DEF Goto, GotoReceipt
<1>4. exec'[e].pc \in {"requestApproval", "waitWrite", "createApproval"} => exec[e].approval = None
  BY <1>1 DEF Goto, GotoReceipt, ExecRecord
<1>5. StartsWait'
  BY <1>2, <1>3, <1>4 DEF PlacesInv, StartsWait, Executors
<1>6. TakenDelivered'
  BY <1>2, JobsStayTaken DEF PlacesInv
<1>7. DecisionsFit'
  BY DEF PlacesInv, DecisionsFit, ReqInv, ApprovalsKept
<1> QED
  BY <1>5, <1>6, <1>7 DEF PlacesInv

\* A callback that ends, with its job completed, retried or given up.
LEMMA EndPlaces ==
  ASSUME TypeInv, PlacesInv, NEW e \in Executors, exec[e].pc # "idle",
         UNCHANGED <<approval, delivered, req>>, Return(e) \/ Throw(e)
  PROVE  PlacesInv'
<1> USE DEF TypeInv
<1>1. exec \in [Executors -> ExecRecord] /\ exec' = [exec EXCEPT ![e] = IdleExec]
  BY DEF ExecInv, Return, Throw
<1>2. StartsWait'
  BY <1>1 DEF PlacesInv, StartsWait, Executors, IdleExec, Callback
<1>3. DecisionsFit'
  BY DEF PlacesInv, DecisionsFit
<1>4. JobOf(e) \in JobIds /\ JobStep(JobOf(e))
  BY JobOfCallback DEF Return, Throw, JobStep
<1>5. \A a \in Approvals : JobOf(e) = ResumeJob(a) => delivered[a] > 0
  BY <1>1, JobIdsDiffer DEF JobOf, PlacesInv, TakenDelivered, ExecInv, ExecRecord
<1>6. \A x \in Executors : exec'[x].approval \in {exec[x].approval, None}
  BY <1>1 DEF IdleExec, Callback
<1>7. TakenDelivered'
  BY <1>4, <1>5, <1>6, JobsTaken DEF PlacesInv
<1> QED
  BY <1>2, <1>3, <1>7 DEF PlacesInv

LEMMA ExecStepPlaces ==
  ASSUME TypeInv, PlacesInv, NEW e \in Executors, ExecStep(e) \/ UncaughtError(e)
  PROVE  PlacesInv'
<1> USE DEF TypeInv
<1>u. UNCHANGED approval => ApprovalsKept
  BY ApprovalUntouched
<1>p. exec[e].pc \in {"requestApproval", "waitWrite", "createApproval"} => exec[e].approval = None
  BY DEF PlacesInv, StartsWait
<1>a. ASSUME UNCHANGED <<approval, jobs, req, delivered>>, exec[e].pc # "idle",
             NEW pc \in ExecPcs, Goto(e, pc),
             pc \in {"requestApproval", "waitWrite", "createApproval"} => exec[e].approval = None
      PROVE  PlacesInv'
  BY <1>a, <1>u, GotoPlaces
<1>1. CASE AssertApprovalCanResume(e) \/ AssertAgentActiveForResume(e)
  <2>1. PICK pc \in {"checkAgent", "markStarted", "fail"} : Goto(e, pc)
    BY <1>1 DEF AssertApprovalCanResume, AssertAgentActiveForResume
  <2> QED
    BY <1>1, <1>a, <2>1 DEF AssertApprovalCanResume, AssertAgentActiveForResume, ExecPcs, history
<1>2. CASE Work(e)
  <2>1. PICK pc \in {"submit", "complete", "requestApproval"} :
          Goto(e, pc) /\ (pc = "requestApproval" => exec[e].approval = None)
    BY <1>2 DEF Work
  <2> QED
    BY <1>2, <1>a, <2>1 DEF Work, ExecPcs, history
<1>3. CASE MarkStarted(e) \/ SubmitDowngrade(e) \/ CompleteRun(e) \/ CreateReceipt(e)
             \/ TryBlockThrows(e)
  <2>1. PICK pc \in {"checkCanceled", "work", "complete", "completeWrite", "fail", "return", "deny"} :
          Goto(e, pc)
    BY <1>3 DEF MarkStarted, SubmitDowngrade, CompleteRun, CreateReceipt, TryBlockThrows
  <2>2. exec[e].pc # "idle" /\ UNCHANGED <<approval, jobs, req, delivered>>
    BY <1>3 DEF MarkStarted, SubmitDowngrade, CompleteRun, CreateReceipt, TryBlockThrows,
                InTryBlock, history
  <2> QED
    BY <1>a, <2>1, <2>2 DEF ExecPcs
<1>4. CASE CreateApprovalForRun(e) \/ WaitForApprovalWrite(e)
  <2>1. PICK pc \in {"createApproval", "waitWrite", "fail"} : Goto(e, pc)
    BY <1>4 DEF CreateApprovalForRun, WaitForApprovalWrite
  <2>2. /\ exec[e].pc \in {"requestApproval", "waitWrite"}
        /\ UNCHANGED <<approval, jobs, req, delivered>>
    BY <1>4 DEF CreateApprovalForRun, WaitForApprovalWrite, history
  <2> QED
    BY <1>a, <1>p, <2>1, <2>2 DEF ExecPcs
<1>5. CASE CreateApprovalWrite(e)
  <2>1. PICK pc \in {"return", "fail"} : Goto(e, pc)
    BY <1>5 DEF CreateApprovalWrite
  <2>2. PICK a \in Approvals, x \in Expiries :
          /\ approval[a].status = Absent
          /\ approval' = [approval EXCEPT ![a] = Request("pending", exec[e].run, x)]
    BY <1>5 DEF CreateApprovalWrite
  <2>3. ApprovalsKept
    BY <2>2 DEF ApprovalsKept, RowsInv
  <2>4. exec[e].pc # "idle" /\ UNCHANGED <<jobs, req, delivered>>
    BY <1>5 DEF CreateApprovalWrite, history
  <2> QED
    BY <2>1, <2>3, <2>4, GotoPlaces DEF ExecPcs
<1>6. CASE CompleteRunWrite(e) \/ PolicyDenied(e) \/ FailRunWrite(e)
  <2>1. /\ exec[e].pc # "idle" /\ UNCHANGED <<approval, jobs, req, delivered>>
        /\ \E final : GotoReceipt(e, final)
    BY <1>6 DEF CompleteRunWrite, PolicyDenied, FailRunWrite, history
  <2> QED
    BY <1>u, <2>1, GotoPlaces
<1>7. CASE FindExecutableRun(e) \/ CheckCanceled(e) \/ FailRun(e) \/ ReturnFromCallback(e)
             \/ UncaughtError(e)
  <2>1. exec[e].pc # "idle" /\ UNCHANGED <<approval, req, delivered>>
    BY <1>7 DEF FindExecutableRun, CheckCanceled, FailRun, ReturnFromCallback, UncaughtError,
                history
  <2>2. CASE Return(e) \/ Throw(e)
    BY <2>1, <2>2, EndPlaces
  <2>3. CASE ~(Return(e) \/ Throw(e))
    <3>1. PICK pc \in {"markStarted", "checkApproval", "work", "failWrite"} :
            Goto(e, pc) /\ UNCHANGED jobs
      BY <1>7, <2>3 DEF FindExecutableRun, CheckCanceled, FailRun, ReturnFromCallback,
                        UncaughtError
    <3> QED
      BY <1>a, <2>1, <3>1 DEF ExecPcs
  <2> QED
    BY <2>2, <2>3
<1> QED
  BY <1>1, <1>2, <1>3, <1>4, <1>5, <1>6, <1>7 DEF ExecStep

LEMMA ReqStepPlaces ==
  ASSUME TypeInv, PlacesInv, NEW q \in Requests, Call(q) \/ ReqStep(q) \/ Abort(q)
  PROVE  PlacesInv'
<1> USE DEF TypeInv
<1>e. UNCHANGED <<exec, delivered>>
  BY DEF Call, ReqStep, Abort, StartRun, Cancel, ExpireDue, Decide, EnqueueStart, CancelSignal,
         CancelWrite, DecideRun, DecideWrite, EnqueueResume, DecideRunWrite, ExpireWrite,
         ExpireRun, ExpireRunWrite, history
<1>x. StartsWait'
  BY <1>e DEF PlacesInv, StartsWait
<1>r. req \in [Requests -> ReqRecord]
  BY DEF ReqInv
<1>u. ASSUME \A a \in Approvals : approval'[a].run = approval[a].run,
             \/ Respond(q)
             \/ \E pc \in ReqPcs : Continue(q, pc) /\ (pc \in DecisionPcs => req[q].pc \in DecisionPcs)
             \/ \E pc \in ReqPcs, r \in Runs : \E a, arg :
                  Begin(q, pc, r, a, arg) /\ (pc \in DecisionPcs => a \in Approvals /\ approval[a].run = r)
      PROVE  DecisionsFit'
  BY <1>u, <1>r
     DEF PlacesInv, DecisionsFit, ReqInv, Respond, IdleReq, Continue, Begin, DecisionPcs, ReqRecord
<1>j. UNCHANGED jobs => TakenDelivered'
  BY <1>e, JobsStayTaken DEF PlacesInv
<1>k. ASSUME NEW j \in JobIds, JobStep(j), \A a \in Approvals : j = ResumeJob(a) =>
               jobs'[j].state \notin TakenStates \/ jobs'[j] = jobs[j]
      PROVE  TakenDelivered'
  <2>1. \A a \in Approvals : j = ResumeJob(a) /\ jobs'[j].state \in TakenStates => delivered[a] > 0
    BY <1>k DEF PlacesInv, TakenDelivered, TakenStates
  <2> QED
    BY <1>e, <1>k, <2>1, JobsTaken DEF PlacesInv
<1>1. ASSUME NEW r \in Runs, StartRun(q, r) \/ Cancel(q, r) PROVE PlacesInv'
  <2>1. PICK pc \in {"enqueueStart", "cancelSignal"} : \E arg : Begin(q, pc, r, None, arg)
    BY <1>1 DEF StartRun, Cancel
  <2>2. UNCHANGED <<approval, jobs>>
    BY <1>1 DEF StartRun, Cancel
  <2>3. DecisionsFit'
    BY <1>u, <2>1, <2>2 DEF ReqPcs, DecisionPcs
  <2> QED
    BY <1>j, <1>x, <2>2, <2>3 DEF PlacesInv
<1>2. ASSUME NEW a \in Approvals,
             ExpireDue(q, a) \/ \E d \in {"approved", "rejected"} : Decide(q, a, d)
      PROVE  PlacesInv'
  <2>1. PICK pc \in {"decideRun", "expireWrite"} :
            \E arg : Begin(q, pc, approval[a].run, a, arg)
    BY <1>2 DEF ExpireDue, Decide
  <2>2. approval[a].run \in Runs /\ UNCHANGED <<approval, jobs>>
    BY <1>2 DEF ExpireDue, Decide, RowsInv, ApprovalRecord, Absent
  <2>3. DecisionsFit'
    BY <1>u, <2>1, <2>2 DEF ReqPcs
  <2> QED
    BY <1>j, <1>x, <2>2, <2>3 DEF PlacesInv
<1>3. CASE Abort(q) \/ CancelWrite(q) \/ DecideRun(q) \/ DecideRunWrite(q) \/ ExpireRun(q)
             \/ ExpireRunWrite(q)
  <2>1. UNCHANGED <<approval, jobs>>
    BY <1>3 DEF Abort, CancelWrite, DecideRun, DecideRunWrite, ExpireRun, ExpireRunWrite
  <2>2. \/ Respond(q)
        \/ \E pc \in {"decideWrite", "expireRunWrite"} : Continue(q, pc) /\ req[q].pc \in DecisionPcs
    BY <1>3 DEF Abort, CancelWrite, DecideRun, DecideRunWrite, ExpireRun, ExpireRunWrite, At,
                DecisionPcs
  <2>3. DecisionsFit'
    BY <1>u, <2>1, <2>2 DEF ReqPcs
  <2> QED
    BY <1>j, <1>x, <2>1, <2>3 DEF PlacesInv
<1>4. CASE DecideWrite(q) \/ ExpireWrite(q)
  <2>1. UNCHANGED jobs /\ req[q].pc \in DecisionPcs
    BY <1>4 DEF DecideWrite, ExpireWrite, At, DecisionPcs
  <2>2. \A a \in Approvals : approval'[a].run = approval[a].run
    BY <1>4 DEF DecideWrite, ExpireWrite, RowsInv, ApprovalRecord
  <2>3. \E pc \in {"enqueueResume", "decideRunWrite", "expireRun"} : Continue(q, pc)
    BY <1>4 DEF DecideWrite, ExpireWrite
  <2>4. DecisionsFit'
    BY <1>u, <2>1, <2>2, <2>3 DEF ReqPcs
  <2> QED
    BY <1>j, <1>x, <2>1, <2>4 DEF PlacesInv
<1>5. CASE EnqueueStart(q) \/ CancelSignal(q)
  <2>1. UNCHANGED approval /\ req[q].run \in Runs
    BY <1>5 DEF EnqueueStart, CancelSignal, At, ReqInv
  <2>2. Respond(q) \/ Continue(q, "cancelWrite")
    BY <1>5 DEF EnqueueStart, CancelSignal
  <2>3. DecisionsFit'
    BY <1>u, <2>1, <2>2 DEF ReqPcs, DecisionPcs
  <2>4. PICK j \in {StartJob(req[q].run), CancelJob(req[q].run)} : JobStep(j)
    BY <1>5 DEF EnqueueStart, CancelSignal, JobStep
  <2>5. j \in JobIds /\ \A a \in Approvals : j # ResumeJob(a)
    BY <2>1, JobIdsDiffer
  <2> QED
    BY <1>k, <1>x, <2>3, <2>4, <2>5 DEF PlacesInv
<1>6. CASE EnqueueResume(q)
  <2>1. UNCHANGED approval /\ req[q].approval \in Approvals /\ req[q].pc \in DecisionPcs
    BY <1>6 DEF EnqueueResume, At, ReqInv, DecisionPcs
  <2>2. DecisionsFit'
    BY <1>6, <1>u, <2>1 DEF EnqueueResume, ReqPcs
  <2> DEFINE j == ResumeJob(req[q].approval)
  <2>3. j \in JobIds /\ Queue!AddIdempotent(j) /\ JobStep(j)
    BY <1>6, <2>1, JobIdsDiffer DEF EnqueueResume, JobStep
  <2>4. jobs'[j].state \notin TakenStates \/ jobs'[j] = jobs[j]
    BY <2>3 DEF Queue!AddIdempotent, Queue!Job, QueueInv, Queue!QueueTypeOK, TakenStates
  <2> QED
    BY <1>k, <1>x, <2>2, <2>3, <2>4 DEF PlacesInv
<1> QED
  BY <1>1, <1>2, <1>3, <1>4, <1>5, <1>6 DEF Call, ReqStep

LEMMA PlacesInit == Init => PlacesInv
<1> SUFFICES ASSUME Init PROVE PlacesInv
  OBVIOUS
<1>1. \A a \in Approvals : jobs[ResumeJob(a)].state = "absent"
  BY JobIdsDiffer DEF Init, Queue!QueueInit, Queue!NoJob, Queue!Job
<1> QED
  BY <1>1 DEF Init, PlacesInv, TakenDelivered, DecisionsFit, StartsWait, IdleExec, Callback, IdleReq,
              DecisionPcs, Executors

LEMMA PlacesStep == TypeInv /\ PlacesInv /\ [Next]_vars => PlacesInv'
<1> SUFFICES ASSUME TypeInv, PlacesInv, [Next]_vars PROVE PlacesInv'
  OBVIOUS
<1> USE DEF TypeInv
<1>r. exec \in [Executors -> ExecRecord]
  BY DEF ExecInv
<1>1. ASSUME NEW r \in Runs, TakeStart(r) PROVE PlacesInv'
  <2>1. JobStep(StartJob(r)) /\ StartJob(r) \in JobIds
    BY <1>1, JobIdsDiffer DEF TakeStart, JobStep
  <2>2. exec' = [exec EXCEPT !["workflow-runs"] = Callback("find", r, None)]
    BY <1>1 DEF TakeStart
  <2>3. StartsWait'
    BY <1>r, <2>2 DEF PlacesInv, StartsWait, Executors, Callback
  <2>4. \A x \in Executors : exec'[x].approval \in {exec[x].approval, None}
    BY <1>r, <2>2 DEF Callback
  <2>5. TakenDelivered'
    BY <1>1, <2>1, <2>4, JobsTaken, JobIdsDiffer DEF TakeStart, history, PlacesInv
  <2> QED
    BY <1>1, <2>3, <2>5 DEF TakeStart, PlacesInv, DecisionsFit
<1>2. ASSUME NEW a \in Approvals, TakeResume(a) PROVE PlacesInv'
  <2>1. JobStep(ResumeJob(a)) /\ ResumeJob(a) \in JobIds
    BY <1>2, JobIdsDiffer DEF TakeResume, JobStep
  <2>2. exec' = [exec EXCEPT !["workflow-resume"] = Callback("find", approval[a].run, a)]
    BY <1>2 DEF TakeResume
  <2>3. StartsWait'
    BY <1>r, <2>2, LifecycleAssumption
       DEF PlacesInv, StartsWait, Executors, Callback, LifecycleAssumption
  <2>4. /\ delivered'[a] = delivered[a] + 1 /\ delivered \in [Approvals -> Nat]
        /\ \A b \in Approvals \ {a} : delivered'[b] = delivered[b]
    BY <1>2 DEF TakeResume, RowsInv
  <2>5. \A i \in JobIds \ {ResumeJob(a)} : jobs'[i] = jobs[i]
    BY <2>1, JobStepIsLocal DEF QueueInv
  <2>6. \A b \in Approvals \ {a} : jobs'[ResumeJob(b)] = jobs[ResumeJob(b)]
    BY <2>5, JobIdsDiffer
  <2>7. TakenDelivered'
    BY <1>r, <2>2, <2>4, <2>6 DEF PlacesInv, TakenDelivered, Callback, ExecRecord, ResumeJob
  <2> QED
    BY <1>2, <2>3, <2>7 DEF TakeResume, PlacesInv, DecisionsFit
<1>3. CASE WorkerCrash
  <2>1. \A x \in Executors : exec'[x] = IdleExec
    BY <1>3 DEF WorkerCrash
  <2>2. StartsWait'
    BY <2>1 DEF StartsWait, IdleExec, Callback, Executors
  <2>3. TakenDelivered'
    BY <1>3, <2>1, JobsStayTaken DEF WorkerCrash, history, IdleExec, Callback, PlacesInv
  <2> QED
    BY <1>3, <2>2, <2>3 DEF WorkerCrash, PlacesInv, DecisionsFit
<1>4. ASSUME NEW j \in JobIds, StalledJob(j) PROVE PlacesInv'
  <2>1. JobStep(j) /\ jobs[j].state = "active"
    BY <1>4 DEF StalledJob, JobStep
  <2>2. TakenDelivered'
    BY <1>4, <2>1, JobsTaken DEF StalledJob, history, PlacesInv, TakenDelivered
  <2> QED
    BY <1>4, <2>2 DEF StalledJob, PlacesInv, DecisionsFit, StartsWait
<1>5. ASSUME NEW a \in Approvals, ForgetResumeJob(a) PROVE PlacesInv'
  <2>1. ResumeJob(a) \in JobIds /\ JobStep(ResumeJob(a))
    BY <1>5, JobIdsDiffer DEF ForgetResumeJob, JobStep
  <2>2. jobs'[ResumeJob(a)].state \notin TakenStates
    BY <1>5, <2>1 DEF ForgetResumeJob, Queue!Forget, Queue!NoJob, Queue!Job, QueueInv,
                      Queue!QueueTypeOK, TakenStates
  <2>3. TakenDelivered'
    BY <1>5, <2>1, <2>2, JobsTaken, JobIdsDiffer DEF ForgetResumeJob, history, PlacesInv
  <2> QED
    BY <1>5, <2>3 DEF ForgetResumeJob, PlacesInv, DecisionsFit, StartsWait
<1>6. ASSUME NEW a \in Approvals, DeadlinePasses(a) PROVE PlacesInv'
  <2>1. \A b \in Approvals : approval'[b].run = approval[b].run
    BY <1>6 DEF DeadlinePasses, RowsInv, ApprovalRecord
  <2>2. DecisionsFit'
    BY <1>6, <2>1 DEF DeadlinePasses, PlacesInv, DecisionsFit, ReqInv
  <2>3. TakenDelivered'
    BY <1>6, JobsStayTaken DEF DeadlinePasses, history, PlacesInv
  <2> QED
    BY <1>6, <2>2, <2>3 DEF DeadlinePasses, PlacesInv, StartsWait
<1>7. CASE UNCHANGED vars
  BY <1>7, JobsStayTaken DEF vars, history, PlacesInv, DecisionsFit, StartsWait
<1> QED
  BY <1>1, <1>2, <1>3, <1>4, <1>5, <1>6, <1>7, ExecStepPlaces, ReqStepPlaces DEF Next
-----------------------------------------------------------------------------
JobsStay == \A j \in JobIds : jobs[j].state # "absent" => jobs'[j].state # "absent"

LEMMA JobsStayKnown ==
  ASSUME TypeInv, NEW j \in JobIds,
         \/ Queue!AddIdempotent(j) \/ Queue!Deliver(j) \/ Queue!Complete(j)
         \/ Queue!FailAttempt(j) \/ Queue!Stall(j)
  PROVE  JobsStay
<1>1. JobStep(j)
  BY DEF JobStep
<1>2. \A i \in JobIds \ {j} : jobs'[i] = jobs[i]
  BY <1>1, JobStepIsLocal DEF TypeInv, QueueInv
<1>3. jobs'[j].state # "absent"
  BY DEF TypeInv, QueueInv, Queue!QueueTypeOK, Queue!JobRecord, Queue!Job, Queue!AddIdempotent,
         Queue!Deliver, Queue!Complete, Queue!FailAttempt, Queue!Stall
<1> QED
  BY <1>2, <1>3 DEF JobsStay

\* A waiting run is left by a step that takes its last call, callback or request away.
LEMMA WaitsKept ==
  ASSUME NEW r \in Runs,
         run'[r] = "waiting_for_approval" =>
           \/ Called(r)' \/ Attended(r)' \/ Open(r)'
           \/ /\ run[r] = "waiting_for_approval" /\ ~Open(r) /\ ~Called(r) /\ ~Attended(r)
  PROVE  LeftWaiting(r)' => LeftWaiting(r)
BY DEF LeftWaiting, Open, Called, Attended, MovingPcs, AttendingPcs

\* Steps of the worker and of the queues: calls stay where they are.
LEMMA CallsStayStrands ==
  ASSUME TypeInv, NEW X, UNCHANGED req, JobsStay,
         \A a \in Approvals : delivered[a] > 0 => delivered'[a] > 0,
         \A a \in Approvals : approval'[a].status = "approved" => approval[a].status = "approved",
         \A r \in Runs : run'[r] = "queued" => run[r] = "queued",
         \A r \in Runs : LeftWaiting(r)' => LeftWaiting(r) \/ r \in X
  PROVE  StrandedRuns' \subseteq StrandedRuns \cup X /\ StrandedGrants' \subseteq StrandedGrants
<1>1. /\ \A r \in Runs : jobs'[StartJob(r)].state = "absent" => jobs[StartJob(r)].state = "absent"
      /\ \A a \in Approvals :
           jobs'[ResumeJob(a)].state = "absent" => jobs[ResumeJob(a)].state = "absent"
  BY JobIdsDiffer DEF JobsStay
<1>2. \A r \in Runs : LeftQueued(r)' => LeftQueued(r)
  BY <1>1 DEF LeftQueued, StartJob
<1>3. delivered \in [Approvals -> Nat]
  BY DEF TypeInv, RowsInv
<1>4. \A a \in Approvals : LeftGranted(a)' => LeftGranted(a)
  BY <1>1, <1>3 DEF LeftGranted, ResumeJob
<1> QED
  BY <1>2, <1>4 DEF StrandedRuns, StrandedGrants

LEMMA ExecStepStrands ==
  ASSUME TypeInv, PlacesInv, NEW e \in Executors, ExecStep(e)
  PROVE  NothingStranded /\ UNCHANGED faults
<1> USE DEF TypeInv
<1>r. /\ exec \in [Executors -> ExecRecord] /\ run \in [Runs -> RunStatuses \cup {Absent}]
      /\ approval \in [Approvals -> ApprovalRecord]
  BY DEF ExecInv, RowsInv
<1>f. UNCHANGED <<req, faults, delivered>> /\ exec[e].pc # "idle" /\ exec[e].run \in Runs
  <2>1. UNCHANGED <<req, faults, delivered>> /\ exec[e].pc # "idle"
    BY DEF ExecStep, FindExecutableRun, AssertApprovalCanResume, AssertAgentActiveForResume,
           MarkStarted, CheckCanceled, Work, SubmitDowngrade, CompleteRun, CompleteRunWrite,
           CreateApprovalForRun, WaitForApprovalWrite, CreateApprovalWrite, CreateReceipt,
           ReturnFromCallback, TryBlockThrows, InTryBlock, PolicyDenied, FailRun, FailRunWrite,
           history
  <2> QED
    BY <2>1 DEF ExecInv
<1>g. PICK r0 \in Runs : r0 = exec[e].run
  BY <1>f
<1>o. \A x \in Executors \ {e} : exec'[x] = exec[x]
  BY <1>r DEF ExecStep, FindExecutableRun, AssertApprovalCanResume, AssertAgentActiveForResume,
         MarkStarted, CheckCanceled, Work, SubmitDowngrade, CompleteRun, CompleteRunWrite,
         CreateApprovalForRun, WaitForApprovalWrite, CreateApprovalWrite, CreateReceipt,
         ReturnFromCallback, TryBlockThrows, PolicyDenied, FailRun, FailRunWrite, Goto,
         GotoReceipt, Return, Throw
<1>c. \A r \in Runs : Called(r) <=> Called(r)'
  BY <1>f DEF Called
<1>j. UNCHANGED jobs \/ Return(e) \/ Throw(e)
  BY DEF ExecStep, FindExecutableRun, AssertApprovalCanResume, AssertAgentActiveForResume,
         MarkStarted, CheckCanceled, Work, SubmitDowngrade, CompleteRun, CompleteRunWrite,
         CreateApprovalForRun, WaitForApprovalWrite, CreateApprovalWrite, CreateReceipt,
         ReturnFromCallback, TryBlockThrows, PolicyDenied, FailRun, FailRunWrite
<1>k. JobsStay
  <2>1. JobOf(e) \in JobIds
    BY <1>f, JobOfCallback
  <2>2. UNCHANGED jobs => JobsStay
    BY DEF JobsStay
  <2> QED
    BY <1>j, <2>1, <2>2, JobsStayKnown DEF Return, Throw
<1>u. ASSUME \A a \in Approvals : approval'[a].status = "approved" => approval[a].status = "approved",
             \A r \in Runs : run'[r] = "queued" => run[r] = "queued",
             \A r \in Runs : LeftWaiting(r)' => LeftWaiting(r)
      PROVE  NothingStranded /\ UNCHANGED faults
  <2>1. /\ StrandedRuns' \subseteq StrandedRuns \cup {}
        /\ StrandedGrants' \subseteq StrandedGrants
    BY <1>f, <1>k, <1>u, CallsStayStrands
  <2> QED
    BY <1>f, <2>1 DEF NothingStranded
\* most steps neither attend to a waiting run nor make one wait
<1>a. ASSUME UNCHANGED approval, exec[e].pc \notin AttendingPcs,
             \/ UNCHANGED run
             \/ \E s \in RunStatuses \ {"queued", "waiting_for_approval"} : SetRun(exec[e].run, s)
      PROVE  NothingStranded /\ UNCHANGED faults
  <2>1. \A r \in Runs : /\ run'[r] = "queued" => run[r] = "queued"
                        /\ run'[r] = "waiting_for_approval" => run[r] = "waiting_for_approval"
    BY <1>a, <1>f, <1>r DEF SetRun
  <2>2. \A r \in Runs : (Attended(r) => Attended(r)') /\ (Open(r) => Open(r)')
    BY <1>a, <1>o DEF Attended, Open, Executors
  <2>3. \A r \in Runs : LeftWaiting(r)' => LeftWaiting(r)
    BY <1>c, <2>1, <2>2, WaitsKept
  <2>4. \A a \in Approvals : approval'[a].status = "approved" => approval[a].status = "approved"
    BY <1>a
  <2>5. \A r \in Runs : run'[r] = "queued" => run[r] = "queued"
    BY <2>1
  <2> QED
    BY <1>u, <2>3, <2>4, <2>5
<1>1. CASE \/ FindExecutableRun(e) \/ AssertApprovalCanResume(e) \/ AssertAgentActiveForResume(e)
           \/ CheckCanceled(e) \/ Work(e) \/ SubmitDowngrade(e) \/ CompleteRun(e)
           \/ CreateApprovalForRun(e) \/ CreateReceipt(e) \/ ReturnFromCallback(e)
  BY <1>1, <1>a
     DEF FindExecutableRun, AssertApprovalCanResume, AssertAgentActiveForResume, CheckCanceled, Work,
         SubmitDowngrade, CompleteRun, CreateApprovalForRun, CreateReceipt, ReturnFromCallback,
         AttendingPcs
<1>2. CASE MarkStarted(e) \/ CompleteRunWrite(e) \/ PolicyDenied(e)
  BY <1>2, <1>a
     DEF MarkStarted, CompleteRunWrite, PolicyDenied, AttendingPcs, RunStatuses, TerminalStatuses
<1>3. CASE WaitForApprovalWrite(e)
  <2>1. e = "workflow-runs"
    BY <1>3 DEF WaitForApprovalWrite, PlacesInv, StartsWait, Executors
  <2>2. Attended(r0)'
    BY <1>3, <1>g, <1>r, <2>1 DEF WaitForApprovalWrite, Goto, Attended, AttendingPcs, ExecRecord
  <2>3. \A r \in Runs \ {r0} : run'[r] = run[r] /\ (Attended(r) => Attended(r)')
    BY <1>3, <1>f, <1>g, <1>r, <2>1 DEF WaitForApprovalWrite, SetRun, Attended
  <2>4. UNCHANGED approval /\ run'[r0] = "waiting_for_approval"
    BY <1>3, <1>f, <1>g, <1>r DEF WaitForApprovalWrite, SetRun
  <2>5. \A r \in Runs : Open(r) => Open(r)'
    BY <2>4 DEF Open
  <2>6. ASSUME NEW r \in Runs PROVE LeftWaiting(r)' => LeftWaiting(r)
    <3>1. CASE r = r0
      BY <2>2, <3>1, WaitsKept
    <3>2. CASE r # r0
      BY <1>c, <2>3, <2>5, <3>2, WaitsKept
    <3> QED
      BY <3>1, <3>2
  <2> QED
    BY <1>u, <2>3, <2>4, <2>6
<1>4. CASE CreateApprovalWrite(e)
  <2>1. PICK a \in Approvals, x \in Expiries :
          /\ approval[a].status = Absent
          /\ approval' = [approval EXCEPT ![a] = Request("pending", exec[e].run, x)]
    BY <1>4 DEF CreateApprovalWrite
  <2>2. /\ approval'[a].status = "pending" /\ approval'[a].run = r0
        /\ \A b \in Approvals \ {a} : approval'[b] = approval[b]
        /\ approval[a].run = None
    BY <1>g, <1>r, <2>1 DEF Request, RowsInv
  <2>3. Open(r0)' /\ \A r \in Runs : Open(r) => Open(r)'
    <3>1. Open(r0)'
      BY <2>2 DEF Open
    <3>2. ASSUME NEW r \in Runs, Open(r) PROVE Open(r)'
      <4>1. PICK b \in Approvals :
              approval[b].run = r /\ approval[b].status \notin {"rejected", "expired"}
        BY <3>2 DEF Open
      <4>2. b # a
        BY <2>2, <4>1, LifecycleAssumption DEF LifecycleAssumption
      <4> QED
        BY <2>2, <4>1, <4>2 DEF Open
    <3> QED
      BY <3>1, <3>2
  <2>4. \A r \in Runs \ {r0} : Attended(r) => Attended(r)'
    BY <1>g, <1>o DEF Attended, Executors
  <2>5. UNCHANGED run
    BY <1>4 DEF CreateApprovalWrite
  <2>6. ASSUME NEW r \in Runs PROVE LeftWaiting(r)' => LeftWaiting(r)
    <3>1. CASE r = r0
      BY <2>3, <3>1, WaitsKept
    <3>2. CASE r # r0
      BY <1>c, <2>3, <2>4, <2>5, <3>2, WaitsKept
    <3> QED
      BY <3>1, <3>2
  <2> QED
    BY <1>u, <2>2, <2>5, <2>6
<1>5. CASE TryBlockThrows(e) \/ (FailRun(e) /\ ~IsTerminal(run[exec[e].run]))
  <2>1. UNCHANGED <<run, approval>>
    BY <1>5 DEF TryBlockThrows, FailRun
  <2>2. CASE exec[e].pc \in AttendingPcs
    <3>1. PICK pc \in AttendingPcs : Goto(e, pc)
      BY <1>5, <2>2 DEF TryBlockThrows, FailRun, AttendingPcs
    <3>2. exec'[e].run = exec[e].run /\ exec'[e].pc \in AttendingPcs
      BY <1>r, <3>1 DEF Goto, ExecRecord
    <3>3. \A r \in Runs : (Attended(r) => Attended(r)') /\ (Open(r) => Open(r)')
      BY <1>o, <2>1, <3>2 DEF Attended, Open, Executors
    <3>4. \A r \in Runs : LeftWaiting(r)' => LeftWaiting(r)
      BY <1>c, <2>1, <3>3, WaitsKept
    <3> QED
      BY <1>u, <2>1, <3>4
  <2>3. CASE exec[e].pc \notin AttendingPcs
    BY <1>a, <2>1, <2>3
  <2> QED
    BY <2>2, <2>3
<1>6. CASE FailRunWrite(e) \/ (FailRun(e) /\ IsTerminal(run[exec[e].run]))
  <2>1. /\ UNCHANGED approval /\ run'[r0] \notin {"queued", "waiting_for_approval"}
        /\ \A r \in Runs \ {r0} : run'[r] = run[r]
    BY <1>6, <1>f, <1>g, <1>r DEF FailRunWrite, FailRun, SetRun, IsTerminal, TerminalStatuses
  <2>2. \A r \in Runs \ {r0} : Attended(r) => Attended(r)'
    BY <1>g, <1>o DEF Attended, Executors
  <2>3. \A r \in Runs : Open(r) => Open(r)'
    BY <2>1 DEF Open
  <2>4. \A r \in Runs : LeftWaiting(r)' => LeftWaiting(r)
    BY <1>c, <2>1, <2>2, <2>3, WaitsKept
  <2> QED
    BY <1>u, <2>1, <2>4
<1> QED
  BY <1>1, <1>2, <1>3, <1>4, <1>5, <1>6 DEF ExecStep

\* A callback that is lost leaves no more behind than the run it was about to move.
LEMMA LostCallbackStrands ==
  ASSUME TypeInv, UNCHANGED <<run, approval, req, delivered>>, JobsStay
  PROVE  OneStranded
<1>1. PICK r0 : r0 = exec["workflow-runs"].run
  OBVIOUS
<1>2. \A r \in Runs : (Called(r) <=> Called(r)') /\ (Open(r) <=> Open(r)')
  BY DEF Called, Open
<1>3. \A r \in Runs : r # r0 => ~Attended(r)
  BY <1>1 DEF Attended
<1>4. \A r \in Runs : LeftWaiting(r)' => LeftWaiting(r) \/ r \in {r0}
  BY <1>2, <1>3, WaitsKept
<1>5. StrandedRuns' \subseteq StrandedRuns \cup {r0} /\ StrandedGrants' \subseteq StrandedGrants
  BY <1>4, CallsStayStrands
<1> QED
  BY <1>5 DEF OneStranded

LEMMA UncaughtErrorStrands ==
  ASSUME TypeInv, NEW e \in Executors, UncaughtError(e)
  PROVE  OneStranded /\ faults' = faults + 1
<1>1. exec[e].pc # "idle" /\ Throw(e) /\ faults' = faults + 1
      /\ UNCHANGED <<run, approval, req, delivered>>
  BY DEF UncaughtError, Fault, history
<1>2. JobOf(e) \in JobIds
  BY <1>1, JobOfCallback DEF TypeInv
<1>3. JobsStay
  BY <1>1, <1>2, JobsStayKnown DEF Throw
<1> QED
  BY <1>1, <1>3, LostCallbackStrands

LEMMA WorkerCrashStrands ==
  ASSUME TypeInv, WorkerCrash
  PROVE  OneStranded /\ faults' = faults + 1
<1>1. faults' = faults + 1 /\ UNCHANGED <<run, approval, req, delivered, jobs>>
  BY DEF WorkerCrash, Fault, history
<1> QED
  BY <1>1, LostCallbackStrands DEF JobsStay

\* Deliveries, stalls and the clock: no call moves, and no callback that attends to a run.
LEMMA QuietStrands ==
  ASSUME TypeInv, UNCHANGED <<run, req, faults>>, JobsStay,
         \A a \in Approvals : delivered[a] > 0 => delivered'[a] > 0,
         \A a \in Approvals : /\ approval'[a].status = approval[a].status
                              /\ approval'[a].run = approval[a].run,
         \A r \in Runs : Attended(r) => Attended(r)'
  PROVE  NothingStranded /\ UNCHANGED faults
<1>2. \A r \in Runs : (Called(r) <=> Called(r)') /\ (Open(r) <=> Open(r)')
  BY DEF Called, Open
<1>4. \A r \in Runs : LeftWaiting(r)' => LeftWaiting(r) \/ r \in {}
  BY <1>2, WaitsKept
<1>5. StrandedRuns' \subseteq StrandedRuns \cup {} /\ StrandedGrants' \subseteq StrandedGrants
  BY <1>4, CallsStayStrands
<1> QED
  BY <1>5 DEF NothingStranded

LEMMA WorkerStrands ==
  ASSUME TypeInv, PlacesInv,
         \/ \E r \in Runs : TakeStart(r)
         \/ \E a \in Approvals : TakeResume(a) \/ ForgetResumeJob(a) \/ DeadlinePasses(a)
         \/ \E j \in JobIds : StalledJob(j)
         \/ UNCHANGED vars
  PROVE  NothingStranded /\ UNCHANGED faults
<1>r. /\ exec \in [Executors -> ExecRecord] /\ delivered \in [Approvals -> Nat]
      /\ approval \in [Approvals -> ApprovalRecord]
  BY DEF TypeInv, ExecInv, RowsInv
<1>1. ASSUME NEW r \in Runs, TakeStart(r) PROVE NothingStranded /\ UNCHANGED faults
  <2>1. UNCHANGED <<run, req, faults, approval, delivered>> /\ exec["workflow-runs"].pc = "idle"
    BY <1>1 DEF TakeStart, history
  <2>2. JobsStay
    BY <1>1, JobIdsDiffer, JobsStayKnown DEF TakeStart
  <2>3. \A x \in Runs : ~Attended(x)
    BY <2>1 DEF Attended, AttendingPcs
  <2> QED
    BY <2>1, <2>2, <2>3, QuietStrands
<1>2. ASSUME NEW a \in Approvals, TakeResume(a) PROVE NothingStranded /\ UNCHANGED faults
  <2>1. UNCHANGED <<run, req, faults, approval>>
    BY <1>2 DEF TakeResume
  <2>2. JobsStay
    BY <1>2, JobIdsDiffer, JobsStayKnown DEF TakeResume
  <2>3. \A b \in Approvals : delivered[b] > 0 => delivered'[b] > 0
    BY <1>2, <1>r DEF TakeResume
  <2>4. exec'["workflow-runs"] = exec["workflow-runs"]
    BY <1>2, <1>r DEF TakeResume, Executors
  <2>5. \A x \in Runs : Attended(x) => Attended(x)'
    BY <2>4 DEF Attended
  <2> QED
    BY <2>1, <2>2, <2>3, <2>5, QuietStrands
<1>3. ASSUME NEW a \in Approvals, ForgetResumeJob(a) PROVE NothingStranded /\ UNCHANGED faults
  <2>1. UNCHANGED <<run, req, faults, approval, delivered, exec>>
    BY <1>3 DEF ForgetResumeJob, history
  <2>2. ResumeJob(a) \in JobIds /\ JobStep(ResumeJob(a)) /\ delivered[a] > 0
    BY <1>3, JobIdsDiffer DEF ForgetResumeJob, JobStep, Queue!Forget, PlacesInv, TakenDelivered
  <2>3. \A i \in JobIds \ {ResumeJob(a)} : jobs'[i] = jobs[i]
    BY <2>2, JobStepIsLocal DEF TypeInv, QueueInv
  <2>4. /\ \A r \in Runs : jobs'[StartJob(r)] = jobs[StartJob(r)]
        /\ \A b \in Approvals \ {a} : jobs'[ResumeJob(b)] = jobs[ResumeJob(b)]
    BY <2>3, JobIdsDiffer
  <2>5. \A b \in Approvals : LeftGranted(b)' => LeftGranted(b)
    BY <1>r, <2>1, <2>2, <2>4 DEF LeftGranted, ResumeJob
  <2>6. StrandedRuns' \subseteq StrandedRuns
    BY <2>1, <2>4 DEF StrandedRuns, LeftQueued, LeftWaiting, StartJob
  <2>7. StrandedGrants' \subseteq StrandedGrants
    BY <2>5 DEF StrandedGrants
  <2> QED
    BY <2>1, <2>6, <2>7 DEF NothingStranded
<1>4. ASSUME NEW a \in Approvals, DeadlinePasses(a) PROVE NothingStranded /\ UNCHANGED faults
  <2>1. UNCHANGED <<run, req, faults, delivered, exec, jobs>>
    BY <1>4 DEF DeadlinePasses, history
  <2>2. \A b \in Approvals : /\ approval'[b].status = approval[b].status
                             /\ approval'[b].run = approval[b].run
    BY <1>4, <1>r DEF DeadlinePasses, ApprovalRecord
  <2>3. JobsStay /\ \A x \in Runs : Attended(x) => Attended(x)'
    BY <2>1 DEF JobsStay, Attended
  <2> QED
    BY <2>1, <2>2, <2>3, QuietStrands
<1>5. ASSUME NEW j \in JobIds, StalledJob(j) PROVE NothingStranded /\ UNCHANGED faults
  <2>1. UNCHANGED <<run, req, faults, delivered, exec, approval>>
    BY <1>5 DEF StalledJob, history
  <2>2. JobsStay
    BY <1>5, JobsStayKnown DEF StalledJob
  <2>3. \A x \in Runs : Attended(x) => Attended(x)'
    BY <2>1 DEF Attended
  <2> QED
    BY <2>1, <2>2, <2>3, QuietStrands
<1>6. CASE UNCHANGED vars
  <2>1. UNCHANGED <<run, req, faults, delivered, exec, jobs, approval>>
    BY <1>6 DEF vars, history
  <2>2. JobsStay /\ \A x \in Runs : Attended(x) => Attended(x)'
    BY <2>1 DEF JobsStay, Attended
  <2> QED
    BY <2>1, <2>2, QuietStrands
<1> QED
  BY <1>1, <1>2, <1>3, <1>4, <1>5, <1>6

\* A step of call q adds no other run than those of X, no other grant than those of Y.
LEMMA CallStrands ==
  ASSUME TypeInv, NEW q \in Requests, NEW X, NEW Y, UNCHANGED <<exec, delivered>>,
         \A x \in Requests \ {q} : req'[x] = req[x],
         \A r \in Runs \ X :
           run'[r] = "queued" /\ jobs'[StartJob(r)].state = "absent" =>
             \/ req'[q].run = r /\ req'[q].pc \in {"enqueueStart", "cancelWrite"}
             \/ /\ run[r] = "queued" /\ jobs[StartJob(r)].state = "absent"
                /\ ~(req[q].run = r /\ req[q].pc \in {"enqueueStart", "cancelWrite"}),
         \A r \in Runs \ X :
           run'[r] = "waiting_for_approval" =>
             \/ Open(r)' \/ (req'[q].run = r /\ req'[q].pc \in MovingPcs)
             \/ /\ run[r] = "waiting_for_approval" /\ ~Open(r)
                /\ ~(req[q].run = r /\ req[q].pc \in MovingPcs),
         \A a \in Approvals \ Y :
           approval'[a].status = "approved" /\ jobs'[ResumeJob(a)].state = "absent" =>
             \/ req'[q].approval = a /\ req'[q].pc = "enqueueResume"
             \/ /\ approval[a].status = "approved" /\ jobs[ResumeJob(a)].state = "absent"
                /\ ~(req[q].approval = a /\ req[q].pc = "enqueueResume")
  PROVE  StrandedRuns' \subseteq StrandedRuns \cup X /\ StrandedGrants' \subseteq StrandedGrants \cup Y
<1>1. ASSUME NEW r \in Runs \ X, LeftQueued(r)' PROVE LeftQueued(r)
  BY <1>1 DEF LeftQueued, StartJob
<1>2. ASSUME NEW r \in Runs \ X, LeftWaiting(r)' PROVE LeftWaiting(r)
  <2>1. /\ run'[r] = "waiting_for_approval" /\ ~Open(r)'
        /\ \A x \in Requests : ~(req'[x].run = r /\ req'[x].pc \in MovingPcs)
        /\ ~Attended(r)
    BY <1>2 DEF LeftWaiting, Open, MovingPcs, Attended, AttendingPcs
  <2>2. /\ run[r] = "waiting_for_approval" /\ ~Open(r)
        /\ \A x \in Requests : ~(req[x].run = r /\ req[x].pc \in MovingPcs)
    BY <2>1
  <2> QED
    BY <2>1, <2>2 DEF LeftWaiting, Open, MovingPcs, Attended, AttendingPcs
<1>3. ASSUME NEW a \in Approvals \ Y, LeftGranted(a)' PROVE LeftGranted(a)
  BY <1>3 DEF LeftGranted, ResumeJob
<1> QED
  BY <1>1, <1>2, <1>3 DEF StrandedRuns, StrandedGrants

LEMMA CallSteps ==
  ASSUME TypeInv, PlacesInv, NEW q \in Requests, Call(q) \/ ReqStep(q)
  PROVE  NothingStranded /\ UNCHANGED faults
<1> USE DEF TypeInv
<1>r. /\ req \in [Requests -> ReqRecord] /\ run \in [Runs -> RunStatuses \cup {Absent}]
      /\ approval \in [Approvals -> ApprovalRecord]
  BY DEF ReqInv, RowsInv
<1>f. UNCHANGED <<exec, delivered, faults>>
  BY DEF Call, ReqStep, StartRun, Cancel, ExpireDue, Decide, EnqueueStart, CancelSignal, CancelWrite,
         DecideRun, DecideWrite, EnqueueResume, DecideRunWrite, ExpireWrite, ExpireRun,
         ExpireRunWrite, history
<1>u. ASSUME /\ \A x \in Requests \ {q} : req'[x] = req[x]
             /\ \A r \in Runs :
                  run'[r] = "queued" /\ jobs'[StartJob(r)].state = "absent" =>
                    \/ req'[q].run = r /\ req'[q].pc \in {"enqueueStart", "cancelWrite"}
                    \/ /\ run[r] = "queued" /\ jobs[StartJob(r)].state = "absent"
                       /\ ~(req[q].run = r /\ req[q].pc \in {"enqueueStart", "cancelWrite"})
             /\ \A r \in Runs :
                  run'[r] = "waiting_for_approval" =>
                    \/ Open(r)' \/ (req'[q].run = r /\ req'[q].pc \in MovingPcs)
                    \/ /\ run[r] = "waiting_for_approval" /\ ~Open(r)
                       /\ ~(req[q].run = r /\ req[q].pc \in MovingPcs)
             /\ \A a \in Approvals :
                  approval'[a].status = "approved" /\ jobs'[ResumeJob(a)].state = "absent" =>
                    \/ req'[q].approval = a /\ req'[q].pc = "enqueueResume"
                    \/ /\ approval[a].status = "approved" /\ jobs[ResumeJob(a)].state = "absent"
                       /\ ~(req[q].approval = a /\ req[q].pc = "enqueueResume")
      PROVE  NothingStranded /\ UNCHANGED faults
  <2>1. /\ StrandedRuns' \subseteq StrandedRuns \cup {}
        /\ StrandedGrants' \subseteq StrandedGrants \cup {}
    BY <1>f, <1>u, CallStrands
  <2> QED
    BY <1>f, <2>1 DEF NothingStranded
\* Three shapes: the call begins; it goes on or ends where nothing hangs on it; ...
<1>b. ASSUME NEW r \in Runs, NEW a, NEW arg, UNCHANGED <<approval, jobs>>,
             NEW pc \in {"enqueueStart", "cancelSignal", "decideRun", "expireWrite"},
             Begin(q, pc, r, a, arg),
             UNCHANGED run \/ (SetRun(r, "queued") /\ pc = "enqueueStart")
      PROVE  NothingStranded /\ UNCHANGED faults
  <2>1. /\ req[q].pc = "idle" /\ req'[q].run = r /\ req'[q].pc = pc
        /\ \A x \in Requests \ {q} : req'[x] = req[x]
    BY <1>b, <1>r DEF Begin
  <2>2. \A x \in Runs : /\ run'[x] = "queued" => run[x] = "queued" \/ (x = r /\ pc = "enqueueStart")
                        /\ run'[x] = "waiting_for_approval" => run[x] = "waiting_for_approval"
    BY <1>b, <1>r DEF SetRun
  <2>3. \A x \in Runs : Open(x) => Open(x)'
    BY <1>b DEF Open
  <2>4. UNCHANGED <<approval, jobs>>
    BY <1>b
  <2>5. \A x \in Runs : jobs'[StartJob(x)] = jobs[StartJob(x)]
    BY <2>4 DEF StartJob
  <2> QED
    <3>1. \A x \in Runs :
            run'[x] = "queued" /\ jobs'[StartJob(x)].state = "absent" =>
              \/ req'[q].run = x /\ req'[q].pc \in {"enqueueStart", "cancelWrite"}
              \/ /\ run[x] = "queued" /\ jobs[StartJob(x)].state = "absent"
                 /\ ~(req[q].run = x /\ req[q].pc \in {"enqueueStart", "cancelWrite"})
      BY <2>1, <2>2, <2>5
    <3>2. \A x \in Runs :
            run'[x] = "waiting_for_approval" =>
              \/ Open(x)' \/ (req'[q].run = x /\ req'[q].pc \in MovingPcs)
              \/ /\ run[x] = "waiting_for_approval" /\ ~Open(x)
                 /\ ~(req[q].run = x /\ req[q].pc \in MovingPcs)
      BY <2>1, <2>2, <2>3 DEF MovingPcs
    <3>3. \A x \in Approvals :
            approval'[x].status = "approved" /\ jobs'[ResumeJob(x)].state = "absent" =>
              \/ req'[q].approval = x /\ req'[q].pc = "enqueueResume"
              \/ /\ approval[x].status = "approved" /\ jobs[ResumeJob(x)].state = "absent"
                 /\ ~(req[q].approval = x /\ req[q].pc = "enqueueResume")
      BY <2>1, <2>4 DEF ResumeJob
    <3> QED
      BY <1>u, <2>1, <3>1, <3>2, <3>3
<1>1. CASE Call(q)
  <2>1. ASSUME NEW r \in Runs, StartRun(q, r) \/ Cancel(q, r)
        PROVE  NothingStranded /\ UNCHANGED faults
    <3>1. CASE StartRun(q, r)
      BY <1>b, <3>1 DEF StartRun
    <3>2. CASE Cancel(q, r)
      BY <1>b, <3>2 DEF Cancel
    <3> QED
      BY <2>1, <3>1, <3>2
  <2>2. ASSUME NEW a \in Approvals, ExpireDue(q, a) \/ \E d \in {"approved", "rejected"} : Decide(q, a, d)
        PROVE  NothingStranded /\ UNCHANGED faults
    <3>1. PICK pc \in {"decideRun", "expireWrite"}, arg \in {Absent, "approved", "rejected"} :
            Begin(q, pc, approval[a].run, a, arg)
      BY <2>2 DEF ExpireDue, Decide
    <3>2. approval[a].run \in Runs /\ UNCHANGED <<run, approval, jobs>>
      BY <2>2 DEF ExpireDue, Decide, RowsInv, ApprovalRecord, Absent
    <3> QED
      BY <1>b, <3>1, <3>2
  <2> QED
    BY <1>1, <2>1, <2>2 DEF Call
<1>p. req[q].pc # "idle" => req[q].run \in Runs
  BY DEF ReqInv
<1>g. PICK r0, a0 : r0 = req[q].run /\ a0 = req[q].approval
  OBVIOUS
<1>x. ASSUME \/ Respond(q) /\ req'[q] = IdleReq
             \/ \E pc \in ReqPcs : /\ Continue(q, pc) /\ req'[q].run = r0
                                   /\ req'[q].approval = a0 /\ req'[q].pc = pc
      PROVE  \A x \in Requests \ {q} : req'[x] = req[x]
  BY <1>x, <1>r DEF Respond, Continue
<1>y. Respond(q) => req'[q] = IdleReq
  BY <1>r DEF Respond
<1>z. \A pc \in ReqPcs : Continue(q, pc) =>
        req'[q].run = r0 /\ req'[q].approval = a0 /\ req'[q].pc = pc
  BY <1>g, <1>r DEF Continue, ReqRecord
<1>o. UNCHANGED approval => \A r \in Runs : Open(r) <=> Open(r)'
  BY DEF Open
<1>j. \A j \in JobIds : Queue!AddIdempotent(j) =>
        /\ jobs'[j].state # "absent"
        /\ \A i \in JobIds : jobs'[i].state = "absent" => jobs[i].state = "absent"
  BY JobsStayKnown DEF JobsStay, Queue!AddIdempotent, QueueInv, Queue!QueueTypeOK, Queue!Job
<1>2. CASE EnqueueStart(q)
  <2>1. /\ req[q].pc = "enqueueStart" /\ r0 \in Runs /\ Queue!AddIdempotent(StartJob(r0))
        /\ Respond(q) /\ UNCHANGED <<run, approval>>
    BY <1>2, <1>g, <1>p DEF EnqueueStart, At
  <2>2. /\ jobs'[StartJob(r0)].state # "absent"
        /\ \A r \in Runs : jobs'[StartJob(r)].state = "absent" => jobs[StartJob(r)].state = "absent"
        /\ \A a \in Approvals : jobs'[ResumeJob(a)].state = "absent" => jobs[ResumeJob(a)].state = "absent"
    BY <1>j, <2>1, JobIdsDiffer
  <2> QED
    BY <1>g, <1>o, <1>u, <1>x, <1>y, <2>1, <2>2 DEF MovingPcs
<1>3. CASE CancelSignal(q)
  <2>1. /\ req[q].pc = "cancelSignal" /\ r0 \in Runs
        /\ Continue(q, "cancelWrite") /\ UNCHANGED <<run, approval>>
        /\ Queue!RemoveWaiting(StartJob(r0)) \/ Queue!AddIdempotent(CancelJob(r0))
    BY <1>3, <1>g, <1>p DEF CancelSignal, At
  <2>2. /\ \A r \in Runs \ {r0} :
             jobs'[StartJob(r)].state = "absent" => jobs[StartJob(r)].state = "absent"
        /\ \A a \in Approvals : jobs'[ResumeJob(a)].state = "absent" => jobs[ResumeJob(a)].state = "absent"
    <3>1. CASE Queue!RemoveWaiting(StartJob(r0))
      <4>1. \A i \in JobIds \ {StartJob(r0)} : jobs'[i] = jobs[i]
        BY <2>1, <3>1, JobIdsDiffer, JobStepIsLocal DEF JobStep, QueueInv
      <4> QED
        BY <2>1, <4>1, JobIdsDiffer DEF StartJob
    <3>2. CASE Queue!AddIdempotent(CancelJob(r0))
      BY <1>j, <2>1, <3>2, JobIdsDiffer
    <3> QED
      BY <2>1, <3>1, <3>2
  <2>3. /\ req'[q].run = r0 /\ req'[q].pc = "cancelWrite"
        /\ \A x \in Requests \ {q} : req'[x] = req[x]
    BY <1>x, <1>z, <2>1 DEF ReqPcs
  <2> QED
    BY <1>g, <1>o, <1>u, <2>1, <2>2, <2>3 DEF MovingPcs
<1>4. CASE CancelWrite(q) \/ DecideRunWrite(q) \/ ExpireRunWrite(q)
  <2>1. /\ req[q].pc \in {"cancelWrite", "decideRunWrite", "expireRunWrite"} /\ r0 \in Runs
        /\ Respond(q) /\ UNCHANGED <<jobs, approval>>
        /\ \E s \in RunStatuses \ {"queued", "waiting_for_approval"} : SetRun(r0, s)
    BY <1>4, <1>g, <1>p
       DEF CancelWrite, DecideRunWrite, ExpireRunWrite, At, Outcome, RunStatuses, TerminalStatuses
  <2>2. /\ run'[r0] \notin {"queued", "waiting_for_approval"}
        /\ \A r \in Runs \ {r0} : run'[r] = run[r]
    BY <1>r, <2>1 DEF SetRun
  <2> QED
    BY <1>g, <1>o, <1>u, <1>x, <1>y, <2>1, <2>2 DEF MovingPcs, StartJob, ResumeJob
<1>5. CASE DecideRun(q) \/ ExpireRun(q)
  <2>1. /\ UNCHANGED <<run, jobs, approval>>
        /\ \/ req[q].pc = "decideRun" /\ (Respond(q) \/ Continue(q, "decideWrite"))
           \/ req[q].pc = "expireRun" /\ Continue(q, "expireRunWrite")
           \/ req[q].pc = "expireRun" /\ Respond(q) /\ run[r0] # "waiting_for_approval"
    BY <1>5, <1>g DEF DecideRun, ExpireRun, At
  <2>2. \A x \in Requests \ {q} : req'[x] = req[x]
    BY <1>x, <1>y, <1>z, <2>1 DEF ReqPcs
  <2>3. Continue(q, "expireRunWrite") => req'[q].run = r0 /\ req'[q].pc = "expireRunWrite"
    BY <1>z DEF ReqPcs
  <2> QED
    BY <1>g, <1>o, <1>u, <2>1, <2>2, <2>3 DEF MovingPcs, StartJob, ResumeJob
<1>6. CASE EnqueueResume(q)
  <2>1. /\ req[q].pc = "enqueueResume" /\ a0 \in Approvals /\ Queue!AddIdempotent(ResumeJob(a0))
        /\ Continue(q, "decideRunWrite") /\ UNCHANGED <<run, approval>>
    BY <1>6, <1>g DEF EnqueueResume, At, ReqInv, DecisionPcs
  <2>2. /\ jobs'[ResumeJob(a0)].state # "absent"
        /\ \A r \in Runs : jobs'[StartJob(r)].state = "absent" => jobs[StartJob(r)].state = "absent"
        /\ \A a \in Approvals : jobs'[ResumeJob(a)].state = "absent" => jobs[ResumeJob(a)].state = "absent"
    BY <1>j, <2>1, JobIdsDiffer
  <2>3. /\ req'[q].run = r0 /\ req'[q].pc = "decideRunWrite"
        /\ \A x \in Requests \ {q} : req'[x] = req[x]
    BY <1>x, <1>z, <2>1 DEF ReqPcs
  <2> QED
    BY <1>g, <1>o, <1>u, <2>1, <2>2, <2>3 DEF MovingPcs
<1>7. CASE DecideWrite(q) \/ ExpireWrite(q)
  <2>1. /\ req[q].pc \in {"decideWrite", "expireWrite"} /\ r0 \in Runs /\ a0 \in Approvals
        /\ approval[a0].run = r0 /\ UNCHANGED <<run, jobs>>
    BY <1>7, <1>g, <1>p
       DEF DecideWrite, ExpireWrite, At, ReqInv, DecisionPcs, PlacesInv, DecisionsFit
  <2>2. /\ approval'[a0].run = r0
        /\ \A b \in Approvals \ {a0} : approval'[b] = approval[b]
    BY <1>7, <1>g, <1>r, <2>1 DEF DecideWrite, ExpireWrite, ApprovalRecord
  <2>3. \/ approval'[a0].status = "approved" /\ Continue(q, "enqueueResume")
        \/ /\ approval'[a0].status # "approved"
           /\ Continue(q, "decideRunWrite") \/ Continue(q, "expireRun")
    BY <1>7, <1>g, <1>r, <2>1 DEF DecideWrite, ExpireWrite, ApprovalRecord, ReqInv, Decisions
  <2>4. \A x \in Requests \ {q} : req'[x] = req[x]
    BY <1>x, <1>z, <2>3 DEF ReqPcs
  <2>5. /\ req'[q].run = r0 /\ req'[q].approval = a0
        /\ req'[q].pc \in MovingPcs
        /\ approval'[a0].status = "approved" => req'[q].pc = "enqueueResume"
    BY <1>z, <2>3 DEF ReqPcs, MovingPcs
  <2>6. \A r \in Runs \ {r0} : Open(r) => Open(r)'
    BY <2>1, <2>2 DEF Open
  <2> QED
    BY <1>g, <1>u, <2>1, <2>2, <2>4, <2>5, <2>6 DEF MovingPcs, StartJob, ResumeJob
<1> QED
  BY <1>1, <1>2, <1>3, <1>4, <1>5, <1>6, <1>7 DEF ReqStep

\* A call that is cut short leaves its run behind, or its grant.
LEMMA AbortStrands ==
  ASSUME TypeInv, PlacesInv, NEW q \in Requests, Abort(q)
  PROVE  OneStranded /\ faults' = faults + 1
<1> USE DEF TypeInv
<1>1. /\ faults' = faults + 1 /\ UNCHANGED <<run, approval, jobs, exec, delivered>>
      /\ \A x \in Requests \ {q} : req'[x] = req[x]
  BY DEF Abort, Fault, Respond, history, ReqInv
<1>g. PICK r0, a0 : r0 = req[q].run /\ a0 = req[q].approval
  OBVIOUS
<1>o. \A r \in Runs : Open(r) <=> Open(r)'
  BY <1>1 DEF Open
<1>2. CASE req[q].pc = "enqueueResume" /\ approval[a0].status = "approved"
  <2>1. a0 \in Approvals /\ approval[a0].run = r0
    BY <1>2, <1>g DEF ReqInv, DecisionPcs, PlacesInv, DecisionsFit
  <2>2. \A r \in Runs : r = r0 => Open(r)'
    BY <1>o, <1>2, <2>1 DEF Open
  <2>3. /\ StrandedRuns' \subseteq StrandedRuns \cup {}
        /\ StrandedGrants' \subseteq StrandedGrants \cup {a0}
    BY <1>g, <1>o, <1>1, <1>2, <2>2, CallStrands DEF MovingPcs, StartJob, ResumeJob
  <2> QED
    BY <1>1, <2>3 DEF OneStranded
<1>3. CASE ~(req[q].pc = "enqueueResume" /\ approval[a0].status = "approved")
  <2>1. /\ StrandedRuns' \subseteq StrandedRuns \cup {r0}
        /\ StrandedGrants' \subseteq StrandedGrants \cup {}
    <3>1. \A r \in Runs \ {r0} :
            run'[r] = "queued" /\ jobs'[StartJob(r)].state = "absent" =>
              \/ req'[q].run = r /\ req'[q].pc \in {"enqueueStart", "cancelWrite"}
              \/ /\ run[r] = "queued" /\ jobs[StartJob(r)].state = "absent"
                 /\ ~(req[q].run = r /\ req[q].pc \in {"enqueueStart", "cancelWrite"})
      BY <1>g, <1>1 DEF StartJob
    <3>2. \A r \in Runs \ {r0} :
            run'[r] = "waiting_for_approval" =>
              \/ Open(r)' \/ (req'[q].run = r /\ req'[q].pc \in MovingPcs)
              \/ /\ run[r] = "waiting_for_approval" /\ ~Open(r)
                 /\ ~(req[q].run = r /\ req[q].pc \in MovingPcs)
      BY <1>g, <1>o, <1>1
    <3>3. \A a \in Approvals \ {} :
            approval'[a].status = "approved" /\ jobs'[ResumeJob(a)].state = "absent" =>
              \/ req'[q].approval = a /\ req'[q].pc = "enqueueResume"
              \/ /\ approval[a].status = "approved" /\ jobs[ResumeJob(a)].state = "absent"
                 /\ ~(req[q].approval = a /\ req[q].pc = "enqueueResume")
      BY <1>g, <1>1, <1>3 DEF ResumeJob
    <3> QED
      BY <1>1, <3>1, <3>2, <3>3, CallStrands
  <2> QED
    BY <1>1, <2>1 DEF OneStranded
<1> QED
  BY <1>2, <1>3
-----------------------------------------------------------------------------
LEMMA StrandInit == Init => StrandInv
<1> SUFFICES ASSUME Init PROVE StrandInv
  OBVIOUS
<1>1. StrandedRuns = {} /\ StrandedGrants = {}
  BY DEF Init, StrandedRuns, StrandedGrants, LeftQueued, LeftWaiting, LeftGranted, NoApproval, Request,
         Absent
<1>2. faults \in Nat
  BY DEF Init
<1> QED
  BY <1>1, <1>2, FS_EmptySet DEF Init, StrandInv, FaultsStrandOne

LEMMA StrandStep == TypeInv /\ PlacesInv /\ StrandInv /\ [Next]_vars => StrandInv'
<1> SUFFICES ASSUME TypeInv, PlacesInv, StrandInv, [Next]_vars PROVE StrandInv'
  OBVIOUS
<1>1. ASSUME NEW q \in Requests, Call(q) \/ ReqStep(q) PROVE StrandInv'
  BY <1>1, CallSteps, NoneCounted
<1>2. ASSUME NEW q \in Requests, Abort(q) PROVE StrandInv'
  BY <1>2, AbortStrands, OneCounted
<1>3. ASSUME NEW e \in Executors, ExecStep(e) PROVE StrandInv'
  BY <1>3, ExecStepStrands, NoneCounted
<1>4. ASSUME NEW e \in Executors, UncaughtError(e) PROVE StrandInv'
  BY <1>4, UncaughtErrorStrands, OneCounted
<1>5. CASE WorkerCrash
  BY <1>5, WorkerCrashStrands, OneCounted
<1>6. CASE \/ \E r \in Runs : TakeStart(r)
           \/ \E a \in Approvals : TakeResume(a) \/ ForgetResumeJob(a) \/ DeadlinePasses(a)
           \/ \E j \in JobIds : StalledJob(j)
           \/ UNCHANGED vars
  BY <1>6, WorkerStrands, NoneCounted
<1> QED
  BY <1>1, <1>2, <1>3, <1>4, <1>5, <1>6 DEF Next

(***************************************************************************)
(* Only a crash or an error strands a queued run, a waiting run or a       *)
(* grant, and each of them at most one (startRun, cancel, approve, reject, *)
(* expireApproval, createForRun).                                          *)
(***************************************************************************)
THEOREM FaultsStrandAtMostOne == Spec => []FaultsStrandOne
<1>1. Init => PlacesInv /\ StrandInv
  BY PlacesInit, StrandInit
<1>2. TypeInv /\ PlacesInv /\ StrandInv /\ [Next]_vars => (PlacesInv /\ StrandInv)'
  BY PlacesStep, StrandStep
<1>3. Spec => []TypeInv
  BY AlwaysTyped
<1>4. StrandInv => FaultsStrandOne
  BY DEF StrandInv
<1> QED
  BY <1>1, <1>2, <1>3, <1>4, PTL DEF Spec
=============================================================================
