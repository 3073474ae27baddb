------------------------------ MODULE Administration ------------------------------
(***************************************************************************)
(* Users and their roles (Owners), agents and their policies (Agents),     *)
(* credentials and grants (Vault), an organization's subscription          *)
(* (Billing), vendors and workflows (Workflows) side by side.  The first   *)
(* four read and write no column that another one writes, and Workflows,   *)
(* which reads what Agents and Vault write, has these writes among its own *)
(* actions: a behaviour is about one service, and Init chooses which.      *)
(***************************************************************************)
EXTENDS Owners, Agents, Vault, Billing, Workflows

VARIABLE service  \* the service the behaviour is about

vars == <<service, ownersVars, agentsVars, vaultVars, billingVars, flowVars>>

Services == {"users", "agents", "credentials", "billing", "workflows"}

TypeOK ==
  /\ service \in Services
  /\ OwnersTypeOK /\ AgentsTypeOK /\ VaultTypeOK /\ BillingTypeOK /\ FlowTypeOK

Init ==
  /\ service \in Services
  /\ OwnersInit /\ AgentsInit /\ VaultInit /\ BillingInit /\ FlowInit
  /\ service # "workflows" => secret.vendor = CHOOSE v \in VendorRows : TRUE

Next ==
  /\ UNCHANGED service
  /\ \/ /\ service = "users" /\ OwnersNext
        /\ UNCHANGED <<agentsVars, vaultVars, billingVars, flowVars>>
     \/ /\ service = "agents" /\ AgentsNext
        /\ UNCHANGED <<ownersVars, vaultVars, billingVars, flowVars>>
     \/ /\ service = "credentials" /\ VaultNext
        /\ UNCHANGED <<ownersVars, agentsVars, billingVars, flowVars>>
     \/ /\ service = "billing" /\ BillingNext
        /\ UNCHANGED <<ownersVars, agentsVars, vaultVars, flowVars>>
     \/ /\ service = "workflows" /\ FlowNext
        /\ UNCHANGED <<ownersVars, agentsVars, vaultVars, billingVars>>

Spec == Init /\ [][Next]_vars
=============================================================================
