------------------------------ MODULE PolicyEngine ------------------------------
(***************************************************************************)
(* evaluatePolicy: whether an agent may do an action on a site, has to ask *)
(* somebody, or may not.  The function is pure; the module asks it again   *)
(* and again while the policy is tightened or what is asked gets worse,    *)
(* one change at a time.                                                   *)
(***************************************************************************)
EXTENDS Naturals, SequencesExt

CONSTANTS Sites,        \* hosts and domains: labels, from the top level down
          ActionTypes,  \* actions that are asked for
          RiskSignals,  \* signals that may be found
          NoAmount,     \* the action has no amount
          MaxCents      \* bound: amounts and limits

ASSUME PolicyAssumption == Sites # {} /\ NoAmount \notin Nat /\ MaxCents \in Nat

VARIABLES snapshot,  \* the rules of the policy
          asked      \* what is evaluated

engineVars == <<snapshot, asked>>

Cents == 0..MaxCents

RiskLevels == {"low", "medium", "high", "critical"}

\* validateSnapshot: a domain is allowed, and the limits are in order. What
\* evaluatePolicy does not read is left out.
IsSnapshot(s) ==
  /\ s \in [allowedDomains: SUBSET Sites, blockedDomains: SUBSET Sites,
            allowedActions: SUBSET ActionTypes, deniedActions: SUBSET ActionTypes,
            approvalRequiredActions: SUBSET ActionTypes,
            autoApproveBelow: Cents, approvalRequiredAbove: Cents, denyAbove: Cents]
  /\ s.allowedDomains # {}
  /\ s.autoApproveBelow <= s.approvalRequiredAbove
  /\ s.approvalRequiredAbove <= s.denyAbove

PolicyEvaluationInput ==
  [agentActive: BOOLEAN, host: Sites, actionType: ActionTypes,
   amount: Cents \cup {NoAmount}, riskSignals: SUBSET RiskSignals]
-----------------------------------------------------------------------------
ActionRiskDefaults(a) ==
  CASE a \in {"open_page", "read_page", "download_file"} -> "low"
    [] a \in {"fill_form", "click_button", "credential_injection"} -> "medium"
    [] a \in {"submit_form", "change_plan", "make_purchase"} -> "high"
    [] a \in {"cancel_subscription", "invite_user", "change_billing_details"} -> "critical"

ASSUME ActionsAssumption == \A a \in ActionTypes : ActionRiskDefaults(a) \in RiskLevels

RiskForSignal(s) ==
  IF s \in {"credential_used", "financial_amount_present", "download_sensitive_file",
            "first_run_for_agent"} THEN "medium" ELSE "high"

RiskOrder == <<"low", "medium", "high", "critical">>

RiskIndex(r) == CHOOSE i \in DOMAIN RiskOrder : RiskOrder[i] = r

\* The risks that are compared: the default of the action, and that of each signal.
RisksOf(q) == {ActionRiskDefaults(q.actionType)} \cup {RiskForSignal(s) : s \in q.riskSignals}

\* Bug: a signal replaces the risk that was found before.
LastRisk(q) ==
  IF q.riskSignals = {} THEN ActionRiskDefaults(q.actionType)
  ELSE CHOOSE r \in {RiskForSignal(s) : s \in q.riskSignals} :
         \A t \in {RiskForSignal(s) : s \in q.riskSignals} : RiskIndex(r) <= RiskIndex(t)

\* scoreRisk: the highest risk wins.
ScoreRisk(q) == CHOOSE r \in RisksOf(q) : \A t \in RisksOf(q) : RiskIndex(t) <= RiskIndex(r)

\* The host is one of the domains or below it.
MatchesAnyDomain(host, domains) == \E d \in domains : IsPrefix(d, host)

HasAmount(q) == q.amount # NoAmount

\* The rules that deny, whatever else there is.
HardDenied(q, s) ==
  \/ ~q.agentActive
  \/ MatchesAnyDomain(q.host, s.blockedDomains)
  \/ ~MatchesAnyDomain(q.host, s.allowedDomains)
  \/ q.actionType \in s.deniedActions
  \/ HasAmount(q) /\ q.amount >= s.denyAbove

ApprovalRequired(q, s) ==
  \/ q.actionType \in s.approvalRequiredActions
  \/ HasAmount(q) /\ q.amount >= s.approvalRequiredAbove

AutoApproved(q, s) ==
  HasAmount(q) /\ q.amount < s.autoApproveBelow /\ q.actionType \in s.allowedActions

\* The first rule that applies decides; the risk comes before the allowed actions.
EvaluatePolicy(q, s) ==
  IF HardDenied(q, s) THEN "deny"
  ELSE IF ApprovalRequired(q, s) THEN "require_approval"
  ELSE IF AutoApproved(q, s) THEN "allow"
  ELSE IF ScoreRisk(q) \in {"high", "critical"} THEN "require_approval"
  ELSE IF q.actionType \in s.allowedActions THEN "allow" ELSE "deny"

EngineTypeOK ==
  IsSnapshot(snapshot) /\ asked \in PolicyEvaluationInput
-----------------------------------------------------------------------------
\* What an agent that is active may ask, before anything is found.
Questions == {q \in PolicyEvaluationInput : q.agentActive /\ q.riskSignals = {}}

AnyQuestion == CHOOSE q \in Questions : TRUE

\* Any action, on any site, under a policy that allows all it can.
EngineInit ==
  /\ snapshot = [allowedDomains |-> Sites, blockedDomains |-> {}, allowedActions |-> ActionTypes,
                 deniedActions |-> {}, approvalRequiredActions |-> {}, autoApproveBelow |-> MaxCents,
                 approvalRequiredAbove |-> MaxCents, denyAbove |-> MaxCents]
  /\ asked \in Questions

\* Somebody edits the policy: a domain or the action goes to a stricter list, or
\* a limit is lowered.
TightenPolicy ==
  LET a == asked.actionType
  IN /\ \/ \E d \in Sites : \/ snapshot' = [snapshot EXCEPT !.blockedDomains = @ \cup {d}]
                            \/ snapshot' = [snapshot EXCEPT !.allowedDomains = @ \ {d}]
        \/ snapshot' = [snapshot EXCEPT !.allowedActions = @ \ {a}]
        \/ snapshot' = [snapshot EXCEPT !.deniedActions = @ \cup {a}]
        \/ snapshot' = [snapshot EXCEPT !.approvalRequiredActions = @ \cup {a}]
        \/ snapshot' = [snapshot EXCEPT !.autoApproveBelow = @ - 1]
        \/ snapshot' = [snapshot EXCEPT !.approvalRequiredAbove = @ - 1]
        \/ snapshot' = [snapshot EXCEPT !.denyAbove = @ - 1]
     /\ IsSnapshot(snapshot')
     /\ UNCHANGED asked

\* The same is asked again with a higher amount, or another signal is found.
AskForMore ==
  /\ \/ HasAmount(asked) /\ asked.amount < MaxCents /\ asked' = [asked EXCEPT !.amount = @ + 1]
     \/ \E s \in RiskSignals : asked' = [asked EXCEPT !.riskSignals = @ \cup {s}]
  /\ UNCHANGED snapshot

\* pause or revoke.
StopAgent == asked' = [asked EXCEPT !.agentActive = FALSE] /\ UNCHANGED snapshot

EngineNext == TightenPolicy \/ AskForMore \/ StopAgent

EngineSpec == EngineInit /\ [][EngineNext]_engineVars
-----------------------------------------------------------------------------
\* A stricter policy, a higher amount, another signal or a stopped agent never
\* turns another decision into allow, and a denial gives way to a request for
\* approval only where it was for want of a permission: evaluatePolicy judges the
\* risk and the amount before the list of allowed actions.
DecisionsOnlyTighten ==
  [][LET before == EvaluatePolicy(asked, snapshot)
         after == EvaluatePolicy(asked', snapshot')
     IN /\ after = "allow" => before = "allow"
        /\ before = "deny" /\ after # "deny" =>
             asked.actionType \notin snapshot.allowedActions]_engineVars
=============================================================================
