------------------------------ MODULE RunStatus ------------------------------
(***************************************************************************)
(* The vocabulary of workflow runs and approvals shared by the API and the *)
(* worker: the statuses of a run, the transition table the API's state     *)
(* machine consults, and the statuses of approvals and receipts.           *)
(***************************************************************************)

\* "absent" stands for a row that has not been created yet.
Absent == "absent"

TerminalStatuses == {"completed", "failed", "canceled", "denied"}

RunStatuses == {"queued", "running", "waiting_for_approval"} \cup TerminalStatuses

IsTerminal(status) == status \in TerminalStatuses

\* WORKFLOW_RUN_TRANSITIONS: the statuses each status may move to.
WorkflowRunTransitions ==
  [status \in RunStatuses |->
     CASE status = "queued"               -> {"running", "canceled"}
       [] status = "running"              -> {"waiting_for_approval", "completed",
                                              "failed", "canceled"}
       [] status = "waiting_for_approval" -> {"running", "denied", "failed", "canceled"}
       [] OTHER                           -> {}]

CanTransition(from, to) == to \in WorkflowRunTransitions[from]

ApprovalStatuses == {"pending", "approved", "rejected", "expired"}

ReceiptStatuses == {"completed", "failed", "denied"}

=============================================================================
