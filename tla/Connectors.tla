------------------------------- MODULE Connectors -------------------------------
(***************************************************************************)
(* What one callback of the worker does at a vendor: the executor opens a  *)
(* controlled browser, a connector logs in and reads, downloads, prepares  *)
(* or submits, and action attempts record what was meant and what          *)
(* happened.  The rows of the run itself belong to RunLifecycle.           *)
(*                                                                         *)
(* The operations of a connector are scripts, sequences of steps, and an   *)
(* action of the module executes one step.  Any step may throw, and what   *)
(* follows a click may throw when the click has landed.  Callbacks of one  *)
(* worker have a browser and attempts each, so there is one of them here.  *)
(***************************************************************************)
EXTENDS Sequences

Templates == {"invoice_download", "renewal_check", "downgrade_start", "downgrade_resume"}

ConnectorTypes == {"sandbox", "stripe_billing", "github"}

\* What a callback records attempts of, and the action types they are judged by.
ActionOf ==
  [login |-> "credential_injection", invoice |-> "download_file", renewal |-> "read_page",
   proposal |-> "change_plan", submission |-> "change_plan"]

Acts == DOMAIN ActionOf

AttemptRecord == [policy: {"none", "allow", "require_approval", "deny"}, completed: BOOLEAN]

NoAttempt == [policy |-> "none", completed |-> FALSE]

\* act: what a step is about, "none" for no attempt.
StepRecord ==
  [kind: {"policy", "open", "navigate", "inspect", "record", "interact", "totp", "accepted",
          "complete", "proposed", "report"},
   act: Acts \cup {"none"}]

VARIABLES script,      \* the steps that are left of the callback
          job,         \* its template and connector
          browser,     \* the controlled context
          page,        \* what the vendor has answered to the login
          actAttempt,  \* actAttempt[act]: a row of action_attempts
          done,        \* what has happened at the vendor
          outcome      \* how the callback has ended

connectorVars == <<script, job, browser, page, actAttempt, done, outcome>>

ConnectorTypeOK ==
  /\ script \in Seq(StepRecord)
  /\ job \in [template: Templates, connector: ConnectorTypes]
  /\ browser \in {"none", "open", "closed"}
  /\ page \in {"none", "in", "mfa", "login"}
  /\ actAttempt \in [Acts -> AttemptRecord]
  /\ done \in SUBSET Acts
  /\ outcome \in {"working", "completed", "waiting", "denied", "failed"}

Step(kind) == <<[kind |-> kind, act |-> "none"]>>

StepOf(kind, act) == <<[kind |-> kind, act |-> act]>>
-----------------------------------------------------------------------------
(***************************************************************************)
(* The scripts of the connectors.  An "inspect" step is every look at the  *)
(* page, fill or upload that may fail: requireVisible, textContent,        *)
(* captureScreenshot.  The sandbox is on its billing page once it has been *)
(* there (ensureBillingPage); the dashboards are opened each time.         *)
(***************************************************************************)
\* clickWithActionAttempt: afterwards popups and the address are examined.
ClickWithActionAttempt(act) == Step("inspect") \o StepOf("interact", act) \o Step("inspect")

\* downloadWithCapture: afterwards the address is examined and the file saved.
DownloadWithCapture(act) == StepOf("interact", act) \o Step("inspect")

\* Bug: what the vendor answers is not looked at.
SandboxLoginUnchecked ==
  Step("navigate") \o StepOf("record", "login") \o ClickWithActionAttempt("login")
    \o StepOf("complete", "login")

SandboxLogin ==
  Step("navigate") \o StepOf("record", "login") \o ClickWithActionAttempt("login")
    \o Step("accepted") \o StepOf("complete", "login")

SandboxDownloadLatestInvoice ==
  Step("navigate") \o StepOf("record", "invoice") \o DownloadWithCapture("invoice")
    \o StepOf("complete", "invoice")

SandboxReadRenewalInfo ==
  Step("navigate") \o StepOf("record", "renewal") \o StepOf("interact", "renewal")
    \o Step("inspect") \o StepOf("complete", "renewal")

SandboxPrepareDowngrade == SandboxReadRenewalInfo \o StepOf("record", "proposal")

SandboxSubmitDowngrade ==
  SandboxReadRenewalInfo \o StepOf("record", "submission") \o ClickWithActionAttempt("submission")
    \o Step("inspect") \o StepOf("complete", "submission")

\* A dashboard page is opened, and must show what is looked for on it.
OpenDashboard == Step("navigate") \o Step("inspect")

\* The second factor is given with the secret of the credential, if there is one.
CompleteTotpIfRequired == Step("totp")

GitHubLogin ==
  OpenDashboard \o StepOf("record", "login") \o Step("inspect") \o StepOf("interact", "login")
    \o CompleteTotpIfRequired \o Step("accepted") \o StepOf("complete", "login")

GitHubDownloadLatestInvoice ==
  OpenDashboard \o StepOf("record", "invoice") \o Step("inspect") \o DownloadWithCapture("invoice")
    \o StepOf("complete", "invoice")

GitHubReadRenewalInfo ==
  OpenDashboard \o StepOf("record", "renewal") \o StepOf("interact", "renewal")
    \o Step("inspect") \o StepOf("complete", "renewal")

GitHubPrepareDowngrade == GitHubReadRenewalInfo \o StepOf("record", "proposal")

GitHubSubmitDowngrade ==
  OpenDashboard \o GitHubReadRenewalInfo \o StepOf("record", "submission")
    \o ClickWithActionAttempt("submission") \o Step("inspect") \o StepOf("complete", "submission")

\* The Stripe dashboard has other pages and selectors, and the same steps.
StripeLogin == GitHubLogin
StripeDownloadLatestInvoice == GitHubDownloadLatestInvoice
StripeReadRenewalInfo == GitHubReadRenewalInfo
StripePrepareDowngrade == GitHubPrepareDowngrade
StripeSubmitDowngrade == GitHubSubmitDowngrade

\* ConnectorRegistry: every connector has the five operations.
Connector(type) ==
  CASE type = "sandbox" ->
         [login |-> SandboxLogin, invoice |-> SandboxDownloadLatestInvoice,
          renewal |-> SandboxReadRenewalInfo, prepare |-> SandboxPrepareDowngrade,
          submit |-> SandboxSubmitDowngrade]
    [] type = "github" ->
         [login |-> GitHubLogin, invoice |-> GitHubDownloadLatestInvoice,
          renewal |-> GitHubReadRenewalInfo, prepare |-> GitHubPrepareDowngrade,
          submit |-> GitHubSubmitDowngrade]
    [] type = "stripe_billing" ->
         [login |-> StripeLogin, invoice |-> StripeDownloadLatestInvoice,
          renewal |-> StripeReadRenewalInfo, prepare |-> StripePrepareDowngrade,
          submit |-> StripeSubmitDowngrade]
-----------------------------------------------------------------------------
(***************************************************************************)
(* The scripts of the executor.                                            *)
(***************************************************************************)
\* The policy of the agent, the credentials, the browser.
OpenContext == Step("policy") \o Step("inspect") \o Step("open") \o Step("inspect")

ExecuteInvoiceDownload(c) ==
  OpenContext \o c.login \o c.invoice \o Step("inspect") \o Step("report")

ExecuteRenewalCheck(c) ==
  OpenContext \o c.login \o c.renewal \o Step("inspect") \o Step("report")

ExecutePlanDowngradeStart(c) ==
  OpenContext \o c.login \o c.prepare \o Step("proposed") \o Step("inspect") \o Step("report")

ExecuteResume(c) ==
  OpenContext \o c.login \o c.submit \o Step("inspect") \o Step("report")

ScriptOf(template, c) ==
  CASE template = "invoice_download" -> ExecuteInvoiceDownload(c)
    [] template = "renewal_check" -> ExecuteRenewalCheck(c)
    [] template = "downgrade_start" -> ExecutePlanDowngradeStart(c)
    [] template = "downgrade_resume" -> ExecuteResume(c)

ConnectorInit ==
  /\ \E template \in Templates, type \in ConnectorTypes :
       /\ script = ScriptOf(template, Connector(type))
       /\ job = [template |-> template, connector |-> type]
  /\ browser = "none" /\ page = "none"
  /\ actAttempt = [act \in Acts |-> NoAttempt]
  /\ done = {} /\ outcome = "working"

\* The next callback: it has no attempts and no browser yet.
TakeJob(template, type) ==
  /\ outcome # "working" /\ browser # "open"
  /\ script' = ScriptOf(template, Connector(type))
  /\ job' = [template |-> template, connector |-> type]
  /\ browser' = "none" /\ page' = "none"
  /\ actAttempt' = [act \in Acts |-> NoAttempt]
  /\ done' = {} /\ outcome' = "working"
-----------------------------------------------------------------------------
(***************************************************************************)
(* The steps.                                                              *)
(***************************************************************************)
RiskyActions == {"submit_form", "change_plan", "cancel_subscription", "make_purchase"}

DeniedActions == {"invite_user", "change_billing_details"}

\* WorkerPolicyClient; only executeResume has an approval token.
EvaluateAction(type, token) ==
  CASE type \in DeniedActions -> "deny"
    [] type \notin DeniedActions /\ type \in RiskyActions /\ ~token -> "require_approval"
    [] OTHER -> "allow"

\* The step at hand, and its end.
Doing(kind) == outcome = "working" /\ script # <<>> /\ Head(script).kind = kind

Act == Head(script).act

Go == script' = Tail(script) /\ UNCHANGED <<job, outcome>>

LoadPolicySnapshot ==
  Doing("policy") /\ Go /\ UNCHANGED <<browser, page, actAttempt, done>>

CreateControlledContext ==
  Doing("open") /\ Go /\ browser' = "open" /\ UNCHANGED <<page, actAttempt, done>>

Look ==
  /\ Doing("navigate") \/ Doing("inspect")
  /\ Go /\ UNCHANGED <<browser, page, actAttempt, done>>

\* evaluateAction, and record for what it answers; only a submission asks for allow.
RecordAttempt ==
  /\ Doing("record")
  /\ LET decision == EvaluateAction(ActionOf[Act], Act = "submission")
     IN /\ Act = "submission" => decision = "allow"
        /\ actAttempt' = [actAttempt EXCEPT ![Act] = [policy |-> decision, completed |-> FALSE]]
  /\ Go /\ UNCHANGED <<browser, page, done>>

\* The vendor lets the worker in, asks for a second factor, or does not.
Interact ==
  /\ Doing("interact")
  /\ done' = done \cup {Act}
  /\ IF Act = "login" THEN page' \in {"in", "mfa", "login"} ELSE UNCHANGED page
  /\ Go /\ UNCHANGED <<browser, actAttempt>>

\* completeTotpIfRequired: the code is sent, and the page must not ask again.
CompleteTotp ==
  /\ Doing("totp")
  /\ IF page = "mfa" THEN page' \in {"in", "login"} ELSE UNCHANGED page
  /\ Go /\ UNCHANGED <<browser, actAttempt, done>>

LoginAccepted ==
  Doing("accepted") /\ page = "in" /\ Go /\ UNCHANGED <<browser, page, actAttempt, done>>

CompleteAttempt ==
  /\ Doing("complete")
  /\ actAttempt' = [actAttempt EXCEPT ![Act].completed = TRUE]
  /\ Go /\ UNCHANGED <<browser, page, done>>

Proposed ==
  /\ Doing("proposed") /\ actAttempt["proposal"].policy = "require_approval"
  /\ Go /\ UNCHANGED <<browser, page, actAttempt, done>>

\* completeRun, or createApprovalRequest, is accepted.
Report ==
  /\ Doing("report")
  /\ outcome' = IF job.template = "downgrade_start" THEN "waiting" ELSE "completed"
  /\ script' = <<>>
  /\ UNCHANGED <<job, browser, page, actAttempt, done>>

\* isPolicyDenial: only the policy and its domains are, whatever went wrong later.
IsPolicyDenial == Head(script).kind = "policy"

\* An error reaches the handler of the template; navigateWithPolicy closes first.
Throws ==
  /\ outcome = "working" /\ script # <<>>
  /\ outcome' \in {"failed"} \cup (IF IsPolicyDenial THEN {"denied"} ELSE {})
  /\ browser' = IF Doing("navigate") THEN "closed" ELSE browser
  /\ script' = <<>>
  /\ UNCHANGED <<job, page, actAttempt, done>>

\* The finally block.
CloseContext ==
  /\ outcome # "working" /\ browser = "open"
  /\ browser' = "closed"
  /\ UNCHANGED <<script, job, page, actAttempt, done, outcome>>

ConnectorNext ==
  \/ \E template \in Templates, type \in ConnectorTypes : TakeJob(template, type)
  \/ LoadPolicySnapshot \/ CreateControlledContext \/ Look \/ RecordAttempt \/ Interact
  \/ CompleteTotp \/ LoginAccepted \/ CompleteAttempt \/ Proposed \/ Report
  \/ Throws \/ CloseContext

ConnectorSpec == ConnectorInit /\ [][ConnectorNext]_connectorVars
-----------------------------------------------------------------------------
\* Whatever happened at the vendor was recorded, and allowed, before.
RecordedFirst == \A act \in done : actAttempt[act].policy = "allow"

\* What an attempt reports as completed happened, for a login with success.
CompletedWasDone ==
  /\ \A act \in Acts : actAttempt[act].completed => act \in done
  /\ actAttempt["login"].completed => page = "in"

\* Nothing is read, downloaded or submitted without a login.
LoggedInFirst == done \subseteq {"login"} \/ actAttempt["login"].completed

\* What the callback reports to the API is borne out by its attempts.
ReportIsBacked ==
  /\ outcome = "completed" =>
       CASE job.template = "invoice_download" -> actAttempt["invoice"].completed
         [] job.template = "renewal_check" -> actAttempt["renewal"].completed
         [] job.template = "downgrade_resume" -> actAttempt["submission"].completed
  /\ outcome = "waiting" =>
       actAttempt["proposal"].policy = "require_approval" /\ "submission" \notin done
  /\ outcome = "denied" => done = {}

\* The timeline of a run tells the truth wherever the callback was cut short: an
\* attempt with its policy decision precedes every act at the vendor, is marked
\* completed only afterwards, and backs what is reported of the run, a denial
\* meaning that nothing was done ("Worker creates action attempt before executing
\* important action", "Receipt can reconstruct what the worker tried to do").
TimelineIsTrue == RecordedFirst /\ CompletedWasDone /\ LoggedInFirst /\ ReportIsBacked
=============================================================================
