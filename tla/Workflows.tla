------------------------------- MODULE Workflows -------------------------------
(***************************************************************************)
(* Workflows and the vendors they are about.  Before WorkflowsService      *)
(* writes a workflow or starts a run it reads, one query after the other,  *)
(* the agent, the vendor, the agent's bundle, the credential of the        *)
(* configuration and its grant; VendorsService counts workflows before it  *)
(* deletes.  Other calls, and the services of Agents and Vault, write in   *)
(* between: a call is stale once something it has read is written.         *)
(*                                                                         *)
(* There is one agent and one credential.  Every template logs in, so      *)
(* validateConfiguration lets no workflow without a credential pass.       *)
(***************************************************************************)
EXTENDS Naturals, Requests

CONSTANTS VendorRows, WorkflowRows,  \* identities of rows
          MaxChanges                 \* bound: writes of the other services

ASSUME WorkflowsAssumption == None \notin VendorRows \cup WorkflowRows /\ MaxChanges \in Nat

VARIABLES vendorRow,  \* vendorRow[v]: a row of vendors, deleted for good when it is gone
          workflow,   \* workflow[w]: a row of workflows
          support,    \* which of agent, bundle and grant are active
          secret,     \* the row of the credential
          changes,    \* writes of the other services so far
          flowCall    \* flowCall[c]: an API call

flowVars == <<vendorRow, workflow, support, secret, changes, flowCall>>

Supports == {"agent", "bundle", "grant"}

WorkflowRecord ==
  [status: {"absent", "active", "inactive"}, vendor: VendorRows \cup {None}]

SecretRecord == [vendor: VendorRows, live: BOOLEAN]

NoWorkflow == [status |-> "absent", vendor |-> None]

FlowOps == {"create", "update", "startRun", "deleteVendor"}

\* vendor: the one that is tested, or deleted; sets: whether update changes it.
FlowCallRecord ==
  [pc: {"idle", "find", "agent", "vendor", "bundle", "credential", "grant", "write",
        "count", "softDelete", "hardDelete"},
   op: FlowOps \cup {"none"}, workflow: WorkflowRows \cup {None},
   vendor: VendorRows \cup {None}, sets: BOOLEAN, stale: BOOLEAN]

NoFlowCall == [pc |-> "idle", op |-> "none", workflow |-> None, vendor |-> None,
               sets |-> FALSE, stale |-> FALSE]

VendorExists(v) == vendorRow[v] \in {"live", "deleted"}

\* Rows and calls have their types; the vendor of a workflow or credential stays in
\* its table (foreign keys), and what has been found has a vendor.
FlowTypeOK ==
  /\ vendorRow \in [VendorRows -> {"absent", "live", "deleted", "gone"}]
  /\ workflow \in [WorkflowRows -> WorkflowRecord]
  /\ support \in SUBSET Supports
  /\ secret \in SecretRecord
  /\ changes \in 0..MaxChanges
  /\ flowCall \in [Calls -> FlowCallRecord]
  /\ VendorExists(secret.vendor)
  /\ \A w \in WorkflowRows : workflow[w].status # "absent" =>
       workflow[w].vendor \in VendorRows /\ VendorExists(workflow[w].vendor)
  /\ \A c \in Calls : flowCall[c].pc \notin {"idle", "find"} => flowCall[c].vendor \in VendorRows

\* An organization that is set up, with one vendor and the credential for it.
FlowInit ==
  /\ \E v \in VendorRows :
       /\ vendorRow = [u \in VendorRows |-> IF u = v THEN "live" ELSE "absent"]
       /\ secret = [vendor |-> v, live |-> TRUE]
  /\ workflow = [w \in WorkflowRows |-> NoWorkflow]
  /\ support = Supports /\ changes = 0
  /\ flowCall = [c \in Calls |-> NoFlowCall]

FlowCallAt(c, pc) == flowCall[c].pc = pc

FlowCallGoto(c, pc) == flowCall' = [flowCall EXCEPT ![c].pc = pc]

FlowCallRespond(c) == flowCall' = [flowCall EXCEPT ![c] = NoFlowCall]

\* The steps of a call that come after it has read something.
ReadBefore ==
  [workflow |-> {"agent", "vendor", "bundle", "credential", "grant", "write"},
   agent |-> {"vendor", "bundle", "credential", "grant", "write"},
   vendor |-> {"bundle", "credential", "grant", "write"},
   bundle |-> {"credential", "grant", "write"},
   credential |-> {"grant", "write"},
   grant |-> {"write"}]

\* What a write of others does to the calls that have read what it writes.
Overtaken(what, Concerns(_)) ==
  [d \in Calls |->
    IF flowCall[d].pc \in ReadBefore[what] /\ Concerns(d)
    THEN [flowCall[d] EXCEPT !.stale = TRUE] ELSE flowCall[d]]

\* The end of call c with a write of vendor v, and with a write of workflow w.
VendorWritten(c, v) ==
  flowCall' = [Overtaken("vendor", LAMBDA d : flowCall[d].vendor = v) EXCEPT ![c] = NoFlowCall]

WorkflowWritten(c, w) ==
  flowCall' = [Overtaken("workflow", LAMBDA d : flowCall[d].workflow = w)
                 EXCEPT ![c] = NoFlowCall]
-----------------------------------------------------------------------------
(***************************************************************************)
(* Vendors.                                                                *)
(***************************************************************************)
CreateVendor(c, v) ==
  /\ FlowCallAt(c, "idle") /\ vendorRow[v] = "absent"
  /\ vendorRow' = [vendorRow EXCEPT ![v] = "live"]
  /\ UNCHANGED flowCall

FindVendor(c, v) ==
  /\ FlowCallAt(c, "idle") /\ vendorRow[v] = "live"
  /\ flowCall' = [flowCall EXCEPT ![c] =
       [NoFlowCall EXCEPT !.pc = "count", !.op = "deleteVendor", !.vendor = v]]
  /\ UNCHANGED vendorRow

IsUsed(v) == \E w \in WorkflowRows : workflow[w].vendor = v

IsSecretOf(v) == secret.live /\ secret.vendor = v

CountWorkflows(c) ==
  /\ FlowCallAt(c, "count")
  /\ FlowCallGoto(c, IF IsUsed(flowCall[c].vendor) THEN "softDelete" ELSE "hardDelete")
  /\ UNCHANGED vendorRow

\* A row that has gone meanwhile is not updated.
SoftDelete(c) ==
  /\ FlowCallAt(c, "softDelete") /\ VendorExists(flowCall[c].vendor)
  /\ vendorRow' = [vendorRow EXCEPT ![flowCall[c].vendor] = "deleted"]
  /\ VendorWritten(c, flowCall[c].vendor)

\* The foreign keys of workflows and credentials refuse a vendor that is used.
HardDelete(c) ==
  LET v == flowCall[c].vendor
  IN /\ FlowCallAt(c, "hardDelete")
     /\ VendorExists(v) /\ ~IsUsed(v) /\ secret.vendor # v
     /\ vendorRow' = [vendorRow EXCEPT ![v] = "gone"]
     /\ VendorWritten(c, v)

DeleteVendor(c) ==
  (\E v \in VendorRows : FindVendor(c, v)) \/ CountWorkflows(c) \/ SoftDelete(c) \/ HardDelete(c)
-----------------------------------------------------------------------------
(***************************************************************************)
(* Workflows.                                                              *)
(***************************************************************************)
RequestCreate(c, v) ==
  /\ FlowCallAt(c, "idle")
  /\ flowCall' = [flowCall EXCEPT ![c] =
       [NoFlowCall EXCEPT !.pc = "agent", !.op = "create", !.vendor = v]]

\* v: the vendor that update is given, None if it is given none.
RequestWorkflow(c, op, w, v) ==
  /\ FlowCallAt(c, "idle")
  /\ op = "startRun" => v = None
  /\ flowCall' = [flowCall EXCEPT ![c] =
       [NoFlowCall EXCEPT !.pc = "find", !.op = op, !.workflow = w, !.vendor = v]]

FindWorkflow(c) ==
  LET row == workflow[flowCall[c].workflow]
      given == flowCall[c].vendor
  IN /\ FlowCallAt(c, "find")
     /\ IF \/ row.status = "absent"
           \/ flowCall[c].op = "startRun" /\ row.status # "active"
        THEN FlowCallRespond(c)
        ELSE flowCall' = [flowCall EXCEPT
               ![c].pc = "agent",
               ![c].vendor = IF given = None THEN row.vendor ELSE given,
               ![c].sets = given # None]

\* One test: the call goes on where it holds, and is refused where it does not.
Test(c, pc, holds, next) ==
  FlowCallAt(c, pc) /\ IF holds THEN FlowCallGoto(c, next) ELSE FlowCallRespond(c)

AssertActiveAgent(c) == Test(c, "agent", "agent" \in support, "vendor")

AssertActiveVendor(c) ==
  Test(c, "vendor", vendorRow[flowCall[c].vendor] = "live",
       IF flowCall[c].op = "startRun" THEN "bundle" ELSE "credential")

AssertActivePolicy(c) == Test(c, "bundle", "bundle" \in support, "credential")

\* Bug: the credential may be one of another vendor.
AssertAnyCredential(c) == Test(c, "credential", secret.live, "grant")

AssertCredential(c) == Test(c, "credential", IsSecretOf(flowCall[c].vendor), "grant")

AssertGrant(c) == Test(c, "grant", "grant" \in support, "write")

CreateWorkflow(c, w) ==
  /\ FlowCallAt(c, "write") /\ flowCall[c].op = "create"
  /\ workflow[w].status = "absent" /\ VendorExists(flowCall[c].vendor)
  /\ workflow' = [workflow EXCEPT ![w] = [status |-> "active", vendor |-> flowCall[c].vendor]]
  /\ FlowCallRespond(c)

\* Only what the call was given is written: the status, the vendor, both or neither.
UpdateWorkflow(c) ==
  LET w == flowCall[c].workflow
      v == flowCall[c].vendor
  IN /\ FlowCallAt(c, "write") /\ flowCall[c].op = "update"
     /\ flowCall[c].sets => VendorExists(v)
     /\ \E status \in {workflow[w].status, "active", "inactive"} :
          workflow' = [workflow EXCEPT ![w].status = status,
                                       ![w].vendor = IF flowCall[c].sets THEN v ELSE @]
     /\ WorkflowWritten(c, w)

\* The run is made of the workflow as it was found.
StartRun(c) ==
  FlowCallAt(c, "write") /\ flowCall[c].op = "startRun" /\ FlowCallRespond(c)

\* The database refuses a write, or does not answer.
FlowCallFails(c) == ~FlowCallAt(c, "idle") /\ FlowCallRespond(c)
-----------------------------------------------------------------------------
\* pause, resume, revoke; create, update of a policy; grant, revokeGrant.
ChangeSupport(x) ==
  /\ support' = IF x \in support THEN support \ {x} ELSE support \cup {x}
  /\ flowCall' = Overtaken(x, LAMBDA d : x = "bundle" => flowCall[d].op = "startRun")
  /\ UNCHANGED secret

\* update and revoke of the credential, until it is revoked.
ChangeSecret(row) ==
  /\ secret.live /\ VendorExists(row.vendor)
  /\ secret' = row
  /\ flowCall' = Overtaken("credential", LAMBDA d : TRUE)
  /\ UNCHANGED support

OthersWrite ==
  /\ changes < MaxChanges /\ changes' = changes + 1
  /\ (\E x \in Supports : ChangeSupport(x)) \/ (\E row \in SecretRecord : ChangeSecret(row))

FlowNext ==
  \/ OthersWrite /\ UNCHANGED <<vendorRow, workflow>>
  \/ \E c \in Calls :
       /\ UNCHANGED <<support, secret, changes>>
       /\ \/ /\ (\E v \in VendorRows : CreateVendor(c, v)) \/ DeleteVendor(c)
             /\ UNCHANGED workflow
          \/ /\ \/ \E v \in VendorRows : RequestCreate(c, v)
                \/ \E op \in {"update", "startRun"}, w \in WorkflowRows, v \in VendorRows \cup {None} :
                     RequestWorkflow(c, op, w, v)
                \/ FindWorkflow(c) \/ AssertActiveAgent(c) \/ AssertActiveVendor(c)
                \/ AssertActivePolicy(c) \/ AssertCredential(c) \/ AssertGrant(c)
                \/ StartRun(c) \/ FlowCallFails(c)
             /\ UNCHANGED <<vendorRow, workflow>>
          \/ /\ (\E w \in WorkflowRows : CreateWorkflow(c, w)) \/ UpdateWorkflow(c)
             /\ UNCHANGED vendorRow

FlowSpec == FlowInit /\ [][FlowNext]_flowVars
-----------------------------------------------------------------------------
\* A vendor that a workflow can be run at.
Ready(v) == vendorRow[v] = "live" /\ IsSecretOf(v) /\ {"agent", "grant"} \subseteq support

FlowCallEnds(c) == flowCall[c].pc # "idle" /\ flowCall'[c].pc = "idle"

\* A workflow is written only as it can be run.
WrittenWhenReady ==
  \A w \in WorkflowRows : workflow'[w] # workflow[w] =>
    \E c \in Calls : FlowCallEnds(c) /\ (flowCall[c].stale \/ Ready(workflow'[w].vendor))

\* A run is started only of an active workflow that can be run, under a bundle.
StartedWhenReady ==
  \A c \in Calls : StartRun(c) =>
    LET row == workflow[flowCall[c].workflow]
    IN flowCall[c].stale \/ (row.status = "active" /\ "bundle" \in support /\ Ready(row.vendor))

\* Whoever deletes vendors, moves workflows between vendors, revokes agents,
\* credentials or grants at the same time: a workflow that is written or run has a
\* live vendor, and an active agent that holds a grant of a credential of that very
\* vendor, unless the call was overtaken after it had read one of these.
WorkflowsAreReady == [][WrittenWhenReady /\ StartedWhenReady]_flowVars
=============================================================================
