---------------------------- MODULE ApiClientsProofs ----------------------------
(***************************************************************************)
(* What the shared client of the worker guarantees for any number of       *)
(* queues and runs, what evaluatePolicy guarantees for any sites, actions, *)
(* signals and limits, what the cache of a page guarantees for any number  *)
(* of mutations, and what the timeline of a callback says for every        *)
(* template and connector.  At the end: all clients side by side, with     *)
(* what is proved of their quotas, limits and sessions elsewhere.          *)
(***************************************************************************)
EXTENDS ApiClients, QuotaProofs, BrowserSessionProofs

\* A callback that nobody has disturbed is alone and finds its own token.
Alone ==
  \A q \in Busy \ disturbed : Busy = {q} /\ runToken = callback[q]

TokenInv == TypeOK /\ Alone /\ RefusedOnlyIfDisturbed

LEMMA TokenInit == Init => TokenInv
BY TokenAssumption DEF TokenAssumption, Init, TokenInv, TypeOK, Busy, Alone,
                       RefusedOnlyIfDisturbed

LEMMA TokenStep == TokenInv /\ [Next]_vars => TokenInv'
<1> SUFFICES ASSUME TokenInv, [Next]_vars PROVE TokenInv'
  OBVIOUS
<1> USE TokenAssumption DEF TokenAssumption, TokenInv
<1>1. ASSUME NEW q \in Queues, Post(q) PROVE TokenInv'
  <2>1. callback[q] \in Runs /\ Busy' = Busy
    BY <1>1 DEF Post, TypeOK, Busy
  <2>2. CASE CanActivate(callback[q])
    BY <1>1, <2>1, <2>2 DEF Post, TypeOK, Busy, Alone, RefusedOnlyIfDisturbed
  <2>3. CASE ~CanActivate(callback[q])
    <3>1. q \in disturbed \/ callback[q] \in expired
      BY <1>1, <2>3 DEF Post, CanActivate, VerifyWorkerRunToken, Alone, Busy
    <3> QED
      BY <1>1, <2>1, <2>3, <3>1 DEF Post, TypeOK, Busy, Alone, RefusedOnlyIfDisturbed
  <2> QED
    BY <2>2, <2>3
<1>2. ASSUME NEW q \in Queues, Finish(q) PROVE TokenInv'
  BY <1>2 DEF Finish, TypeOK, Busy, Alone, RefusedOnlyIfDisturbed
<1>3. ASSUME NEW q \in Queues, NEW r \in Runs, Execute(q, r) PROVE TokenInv'
  <2>1. Busy' = Busy \cup {q}
    BY <1>3 DEF Execute, Busy, TypeOK
  <2>2. TypeOK'
    BY <1>3, <2>1 DEF Execute, TypeOK, Busy
  <2>3. Alone'
    BY <1>3, <2>1 DEF Execute, Alone, Busy, TypeOK
  <2> QED
    BY <1>3, <2>2, <2>3 DEF Execute, RefusedOnlyIfDisturbed, TypeOK, Busy
<1>4. ASSUME NEW r \in Runs, Expire(r) PROVE TokenInv'
  BY <1>4 DEF Expire, TypeOK, Busy, Alone, RefusedOnlyIfDisturbed
<1>5. CASE Crash
  BY <1>5 DEF Crash, TypeOK, Busy, Alone, RefusedOnlyIfDisturbed
<1>6. CASE UNCHANGED vars
  BY <1>6 DEF vars, TypeOK, Busy, Alone, RefusedOnlyIfDisturbed
<1> QED
  BY <1>1, <1>2, <1>3, <1>4, <1>5, <1>6 DEF Next

\* RefusedOnlyIfDisturbed: only overlapping callbacks and old tokens cost a
\* callback its requests.
THEOREM RefusalsHaveACause == Spec => []RefusedOnlyIfDisturbed
<1>1. TokenInv => RefusedOnlyIfDisturbed
  BY DEF TokenInv
<1> QED
  BY TokenInit, TokenStep, <1>1, PTL DEF Spec

\* The client and its callbacks have their types; an idle
\* worker holds no token.
THEOREM TokensTyped == Spec => []TypeOK
<1>1. TokenInv => TypeOK
  BY DEF TokenInv
<1> QED
  BY TokenInit, TokenStep, <1>1, PTL DEF Spec
-----------------------------------------------------------------------------
\* The risks for which evaluatePolicy asks somebody.
HighRisks == {"high", "critical"}

\* The order of maxRisk.
LEMMA RiskIndexes ==
  /\ RiskIndex("low") = 1 /\ RiskIndex("medium") = 2
  /\ RiskIndex("high") = 3 /\ RiskIndex("critical") = 4
<1>1. DOMAIN RiskOrder = 1..4
  BY DEF RiskOrder
<1>2. \A i \in 1..4 : /\ RiskOrder[i] = "low" <=> i = 1
                      /\ RiskOrder[i] = "medium" <=> i = 2
                      /\ RiskOrder[i] = "high" <=> i = 3
                      /\ RiskOrder[i] = "critical" <=> i = 4
  BY DEF RiskOrder
<1> HIDE DEF RiskOrder
<1>3. RiskIndex("low") = 1
  BY <1>1, <1>2 DEF RiskIndex
<1>4. RiskIndex("medium") = 2
  BY <1>1, <1>2 DEF RiskIndex
<1>5. RiskIndex("high") = 3
  BY <1>1, <1>2 DEF RiskIndex
<1>6. RiskIndex("critical") = 4
  BY <1>1, <1>2 DEF RiskIndex
<1> QED
  BY <1>3, <1>4, <1>5, <1>6

\* scoreRisk is high or critical when one of the compared risks is.
LEMMA HighestRiskWins ==
  ASSUME NEW q, RisksOf(q) \subseteq RiskLevels, RisksOf(q) # {}
  PROVE  ScoreRisk(q) \in HighRisks <=> \E r \in RisksOf(q) : r \in HighRisks
<1> DEFINE Highest(r) == r \in RisksOf(q) /\ \A t \in RisksOf(q) : RiskIndex(t) <= RiskIndex(r)
<1>1. \E r : Highest(r)
  <2>1. CASE "critical" \in RisksOf(q)
    <3>1. Highest("critical")
      BY <2>1, RiskIndexes DEF RiskLevels
    <3> QED
      BY <3>1
  <2>2. CASE "critical" \notin RisksOf(q) /\ "high" \in RisksOf(q)
    <3>1. Highest("high")
      BY <2>2, RiskIndexes DEF RiskLevels
    <3> QED
      BY <3>1
  <2>3. CASE "critical" \notin RisksOf(q) /\ "high" \notin RisksOf(q) /\ "medium" \in RisksOf(q)
    <3>1. Highest("medium")
      BY <2>3, RiskIndexes DEF RiskLevels
    <3> QED
      BY <3>1
  <2>4. CASE RisksOf(q) = {"low"}
    <3>1. Highest("low")
      BY <2>4, RiskIndexes
    <3> QED
      BY <3>1
  <2> QED
    BY <2>1, <2>2, <2>3, <2>4 DEF RiskLevels
<1>2. Highest(ScoreRisk(q))
  BY <1>1 DEF ScoreRisk
<1> QED
  BY <1>2, RiskIndexes DEF RiskLevels, HighRisks
-----------------------------------------------------------------------------
\* What can happen to a question and a policy that only get worse.
Stricter(q, s, p, t) ==
  /\ p.agentActive => q.agentActive
  /\ p.host = q.host /\ p.actionType = q.actionType
  /\ IF HasAmount(q) THEN HasAmount(p) /\ q.amount <= p.amount ELSE ~HasAmount(p)
  /\ q.riskSignals \subseteq p.riskSignals
  /\ s.blockedDomains \subseteq t.blockedDomains /\ t.allowedDomains \subseteq s.allowedDomains
  /\ t.allowedActions \subseteq s.allowedActions /\ s.deniedActions \subseteq t.deniedActions
  /\ s.approvalRequiredActions \subseteq t.approvalRequiredActions
  /\ t.autoApproveBelow <= s.autoApproveBelow
  /\ t.approvalRequiredAbove <= s.approvalRequiredAbove
  /\ t.denyAbove <= s.denyAbove

\* There is a risk to begin with, and each is a level.
LEMMA RisksTyped ==
  ASSUME NEW q \in PolicyEvaluationInput
  PROVE  RisksOf(q) \subseteq RiskLevels /\ RisksOf(q) # {}
<1>1. q.actionType \in ActionTypes
  BY DEF PolicyEvaluationInput
<1>2. ActionRiskDefaults(q.actionType) \in RiskLevels
  BY <1>1, ActionsAssumption DEF ActionsAssumption
<1>3. \A s : RiskForSignal(s) \in RiskLevels
  BY DEF RiskForSignal, RiskLevels
<1> QED
  BY <1>2, <1>3 DEF RisksOf

\* However much worse it gets at once: nothing is newly allowed, and a denial is
\* replaced only where it was for want of a permission.
LEMMA StricterAllowsNoMore ==
  ASSUME NEW q \in PolicyEvaluationInput, NEW p \in PolicyEvaluationInput, NEW s, NEW t,
         IsSnapshot(s), IsSnapshot(t), Stricter(q, s, p, t)
  PROVE  /\ EvaluatePolicy(p, t) = "allow" => EvaluatePolicy(q, s) = "allow"
         /\ EvaluatePolicy(q, s) = "deny" /\ EvaluatePolicy(p, t) # "deny" =>
              q.actionType \notin s.allowedActions
<1> USE PolicyAssumption DEF PolicyAssumption
<1>1. HasAmount(q) => q.amount \in Nat /\ p.amount \in Nat /\ q.amount <= p.amount /\ HasAmount(p)
  BY DEF PolicyEvaluationInput, HasAmount, Cents, Stricter
<1>2. HasAmount(p) => HasAmount(q)
  BY DEF Stricter
<1>3. /\ s.autoApproveBelow \in Nat /\ s.approvalRequiredAbove \in Nat /\ s.denyAbove \in Nat
      /\ t.autoApproveBelow \in Nat /\ t.approvalRequiredAbove \in Nat /\ t.denyAbove \in Nat
  BY DEF IsSnapshot, Cents
<1>4. HardDenied(q, s) => HardDenied(p, t)
  <2>1. \A h : MatchesAnyDomain(h, s.blockedDomains) => MatchesAnyDomain(h, t.blockedDomains)
    BY DEF MatchesAnyDomain, Stricter
  <2>2. \A h : MatchesAnyDomain(h, t.allowedDomains) => MatchesAnyDomain(h, s.allowedDomains)
    BY DEF MatchesAnyDomain, Stricter
  <2>3. HasAmount(q) /\ q.amount >= s.denyAbove => HasAmount(p) /\ p.amount >= t.denyAbove
    BY <1>1, <1>3 DEF Stricter
  <2> HIDE DEF MatchesAnyDomain, HasAmount
  <2> QED
    BY <2>1, <2>2, <2>3 DEF HardDenied, Stricter
<1>5. ApprovalRequired(q, s) => ApprovalRequired(p, t)
  <2>1. HasAmount(q) /\ q.amount >= s.approvalRequiredAbove =>
          HasAmount(p) /\ p.amount >= t.approvalRequiredAbove
    BY <1>1, <1>3 DEF Stricter
  <2> QED
    BY <2>1 DEF ApprovalRequired, Stricter
<1>6. AutoApproved(p, t) => AutoApproved(q, s)
  <2>1. HasAmount(p) /\ p.amount < t.autoApproveBelow =>
          HasAmount(q) /\ q.amount < s.autoApproveBelow
    BY <1>1, <1>2, <1>3 DEF Stricter
  <2> QED
    BY <2>1 DEF AutoApproved, Stricter
<1>7. ScoreRisk(q) \in HighRisks => ScoreRisk(p) \in HighRisks
  <2>1. RisksOf(q) \subseteq RisksOf(p)
    BY DEF RisksOf, Stricter
  <2> QED
    BY <2>1, RisksTyped, HighestRiskWins
<1>8. p.actionType = q.actionType /\ t.allowedActions \subseteq s.allowedActions
  BY DEF Stricter
<1> QED
  BY <1>4, <1>5, <1>6, <1>7, <1>8 DEF EvaluatePolicy, HighRisks

\* EngineTypeOK is inductive: an edit that is not valid is refused.
LEMMA EngineInitTyped == EngineInit => EngineTypeOK
  BY PolicyAssumption DEF PolicyAssumption, EngineInit, EngineTypeOK, IsSnapshot, Questions, Cents

LEMMA EngineStepTyped == EngineTypeOK /\ [EngineNext]_engineVars => EngineTypeOK'
<1> SUFFICES ASSUME EngineTypeOK, [EngineNext]_engineVars PROVE EngineTypeOK'
  OBVIOUS
<1>1. CASE TightenPolicy
  BY <1>1 DEF TightenPolicy, EngineTypeOK
<1>2. CASE AskForMore
  BY <1>2, PolicyAssumption
  DEF PolicyAssumption, AskForMore, EngineTypeOK, PolicyEvaluationInput, HasAmount, Cents
<1>3. CASE StopAgent
  BY <1>3 DEF StopAgent, EngineTypeOK, PolicyEvaluationInput
<1>4. CASE UNCHANGED engineVars
  BY <1>4 DEF engineVars, EngineTypeOK
<1> QED
  BY <1>1, <1>2, <1>3, <1>4 DEF EngineNext

\* Each step makes the question or the policy worse.
LEMMA EngineStepIsStricter ==
  EngineTypeOK /\ [EngineNext]_engineVars => Stricter(asked, snapshot, asked', snapshot')
<1> SUFFICES ASSUME EngineTypeOK, [EngineNext]_engineVars
             PROVE  Stricter(asked, snapshot, asked', snapshot')
  OBVIOUS
<1>1. HasAmount(asked) => asked.amount \in Nat
  BY DEF EngineTypeOK, PolicyEvaluationInput, HasAmount, Cents
<1>2. /\ snapshot.autoApproveBelow \in Nat /\ snapshot.approvalRequiredAbove \in Nat
      /\ snapshot.denyAbove \in Nat
  BY DEF EngineTypeOK, IsSnapshot, Cents
<1>3. CASE TightenPolicy
  BY <1>1, <1>2, <1>3 DEF TightenPolicy, Stricter, EngineTypeOK, IsSnapshot
<1>4. CASE AskForMore
  BY <1>1, <1>2, <1>4, PolicyAssumption
  DEF PolicyAssumption, AskForMore, Stricter, EngineTypeOK, PolicyEvaluationInput, HasAmount, Cents
<1>5. CASE StopAgent
  BY <1>1, <1>2, <1>5 DEF StopAgent, Stricter, EngineTypeOK, PolicyEvaluationInput, HasAmount
<1>6. CASE UNCHANGED engineVars
  BY <1>1, <1>2, <1>6 DEF engineVars, Stricter, HasAmount
<1> QED
  BY <1>3, <1>4, <1>5, <1>6 DEF EngineNext

\* DecisionsOnlyTighten: evaluatePolicy never allows what it did not allow before a
\* limit was lowered, a list tightened, an amount raised or a signal found.
THEOREM StricterPoliciesAllowNoMore == EngineSpec => DecisionsOnlyTighten
<1>1. EngineTypeOK /\ EngineTypeOK' /\ [EngineNext]_engineVars =>
        [LET before == EvaluatePolicy(asked, snapshot)
             after == EvaluatePolicy(asked', snapshot')
         IN /\ after = "allow" => before = "allow"
            /\ before = "deny" /\ after # "deny" =>
                 asked.actionType \notin snapshot.allowedActions]_engineVars
  BY EngineStepIsStricter, StricterAllowsNoMore DEF EngineTypeOK
<1> QED
  BY EngineInitTyped, EngineStepTyped, <1>1, PTL DEF EngineSpec, DecisionsOnlyTighten
-----------------------------------------------------------------------------
\* A load that is on its way never misses a mutation that the table followed and no
\* load has ignored; with data that lacks it, the entry is marked.
Covered(m) == view \in Invalidation(mutation[m].group)

Tended(m) ==
  /\ mutation[m].pc = "acked" => mutation[m].unwritten = {}
  /\ mutation[m].pc = "acked" /\ Covered(m) /\ m \notin overtaken =>
       /\ m \notin load.misses
       /\ m \in cached.lacks => cached.invalid /\ (cached.mounted => cached.error \/ load.on)

Concerns(m) == mutation[m].pc # "none" => Writes[mutation[m].group] \cap Reads[view] # {}

Marked ==
  /\ DashboardTypeOK
  /\ cached.lacks # {} => cached.has
  /\ \A m \in Mutations : Concerns(m) /\ Tended(m)

\* The table of invalidations covers every list that shows what a group writes, but for
\* the names of agents.
LEMMA TableFollows ==
  ASSUME NEW group \in Queries, NEW q \in Queries, Writes[group] \cap Reads[q] # {},
         q \notin NamesOnly(group)
  PROVE q \in Invalidation(group)
BY DEF Queries, Writes, Reads, NamesOnly, Invalidation

LEMMA ReadsTables == \A q \in Queries : Reads[q] \subseteq Queries /\ Writes[q] \subseteq Queries
BY DEF Queries, Reads, Writes

LEMMA MarkedInit == DashboardInit => Marked
BY DEF DashboardInit, Marked, DashboardTypeOK, CachedRecord, LoadRecord, MutationRecord, NoEntry,
       NoLoad, NoMutation, Concerns, Tended, Queries

LEMMA MarkedStep == Marked /\ [DashboardNext]_dashboardVars => Marked'
<1> SUFFICES ASSUME Marked, [DashboardNext]_dashboardVars PROVE Marked'
  OBVIOUS
<1>a. DashboardTypeOK /\ (cached.lacks # {} => cached.has)
  BY DEF Marked
<1> USE <1>a, ReadsTables DEF DashboardTypeOK, CachedRecord, LoadRecord, MutationRecord, NoLoad, NewLoad
<1>1. CASE Mount
  <2>1. DashboardTypeOK'
    <3>1. cached' \in CachedRecord
      BY <1>1 DEF Mount
    <3>2. load' = load \/ load' = NewLoad
      BY <1>1 DEF Mount
    <3>3. load' \in LoadRecord /\ (load'.on \/ load' = NoLoad)
      <4>1. CASE load' = load
        BY <4>1
      <4>2. CASE load' = NewLoad
        BY <4>2
      <4> QED
        BY <3>2, <4>1, <4>2
    <3>4. UNCHANGED <<view, mutation, overtaken>>
      BY <1>1 DEF Mount
    <3> QED
      BY <3>1, <3>3, <3>4
  <2>2. cached'.lacks # {} => cached'.has
    BY <1>1 DEF Mount
  <2>3. ASSUME NEW o \in Mutations PROVE Concerns(o)' /\ Tended(o)'
    <3>1. Concerns(o) /\ Tended(o)
      BY DEF Marked
    <3> QED
      BY <1>1, <3>1 DEF Mount, Concerns, Tended, Covered
  <2> QED
    BY <2>1, <2>2, <2>3 DEF Marked
<1>2. CASE Unmount
  <2>1. DashboardTypeOK'
    BY <1>2 DEF Unmount
  <2>2. cached'.lacks # {} => cached'.has
    BY <1>2 DEF Unmount
  <2>3. ASSUME NEW o \in Mutations PROVE Concerns(o)' /\ Tended(o)'
    <3>1. Concerns(o) /\ Tended(o)
      BY DEF Marked
    <3> QED
      BY <1>2, <3>1 DEF Unmount, Concerns, Tended, Covered
  <2> QED
    BY <2>1, <2>2, <2>3 DEF Marked
<1>3. CASE LoadSucceeds
  <2>1. DashboardTypeOK'
    BY <1>3 DEF LoadSucceeds
  <2>2. cached'.lacks # {} => cached'.has
    BY <1>3 DEF LoadSucceeds
  <2>3. ASSUME NEW o \in Mutations PROVE Concerns(o)' /\ Tended(o)'
    <3>1. Concerns(o) /\ Tended(o)
      BY DEF Marked
    <3> QED
      BY <1>3, <3>1 DEF LoadSucceeds, Concerns, Tended, Covered
  <2> QED
    BY <2>1, <2>2, <2>3 DEF Marked
<1>4. CASE LoadFails
  <2>1. UNCHANGED <<view, mutation, overtaken>>
    BY <1>4 DEF LoadFails
  <2>2. CASE load' = NewLoad /\ UNCHANGED cached
    <3>1. DashboardTypeOK'
      BY <2>1, <2>2
    <3> QED
      BY <2>1, <2>2, <3>1 DEF Marked, Concerns, Tended, Covered
  <2>3. CASE /\ load' = NoLoad
             /\ cached' = [cached EXCEPT !.error = TRUE, !.invalid = cached.has]
    <3>1. /\ cached'.error /\ cached'.invalid = cached.has /\ cached'.has = cached.has
          /\ cached'.lacks = cached.lacks /\ cached'.mounted = cached.mounted
      BY <2>3
    <3>2. DashboardTypeOK'
      BY <2>1, <2>3
    <3> QED
      BY <2>1, <2>3, <3>1, <3>2 DEF Marked, Concerns, Tended, Covered
  <2> QED
    BY <1>4, <2>2, <2>3 DEF LoadFails
<1>5. CASE Refetch
  <2>1. DashboardTypeOK'
    BY <1>5 DEF Refetch
  <2>2. cached'.lacks # {} => cached'.has
    BY <1>5 DEF Refetch
  <2>3. ASSUME NEW o \in Mutations PROVE Concerns(o)' /\ Tended(o)'
    <3>1. Concerns(o) /\ Tended(o)
      BY DEF Marked
    <3> QED
      BY <1>5, <3>1 DEF Refetch, Concerns, Tended, Covered
  <2> QED
    BY <2>1, <2>2, <2>3 DEF Marked
<1>6. CASE Reload
  <2>1. DashboardTypeOK'
    BY <1>6 DEF Reload
  <2>2. cached'.lacks # {} => cached'.has
    BY <1>6 DEF Reload
  <2>3. ASSUME NEW o \in Mutations PROVE Concerns(o)' /\ Tended(o)'
    <3>1. Concerns(o) /\ Tended(o)
      BY DEF Marked
    <3> QED
      BY <1>6, <3>1 DEF Reload, Concerns, Tended, Covered
  <2> QED
    BY <2>1, <2>2, <2>3 DEF Marked
<1>7. CASE Collect
  <2>1. DashboardTypeOK'
    BY <1>7 DEF Collect, NoEntry
  <2>2. cached'.lacks # {} => cached'.has
    BY <1>7 DEF Collect, NoEntry
  <2>3. ASSUME NEW o \in Mutations PROVE Concerns(o)' /\ Tended(o)'
    <3>1. Concerns(o) /\ Tended(o)
      BY DEF Marked
    <3> QED
      BY <1>7, <3>1 DEF Collect, NoEntry, Concerns, Tended, Covered
  <2> QED
    BY <2>1, <2>2, <2>3 DEF Marked
<1>8. ASSUME NEW t \in Queries, ReadTable(t) PROVE Marked'
  <2>1. DashboardTypeOK'
    BY <1>8 DEF ReadTable
  <2>2. cached'.lacks # {} => cached'.has
    BY <1>8 DEF ReadTable
  <2>3. ASSUME NEW o \in Mutations PROVE Concerns(o)' /\ Tended(o)'
    <3>1. Concerns(o) /\ Tended(o)
      BY DEF Marked
    <3> QED
      BY <1>8, <3>1 DEF ReadTable, Concerns, Tended, Covered
  <2> QED
    BY <2>1, <2>2, <2>3 DEF Marked
<1>9. ASSUME NEW t \in Queries, NEW m \in Mutations, WriteTable(m, t) PROVE Marked'
  <2>1. DashboardTypeOK'
    BY <1>9 DEF WriteTable
  <2>2. cached'.lacks # {} => cached'.has
    BY <1>9 DEF WriteTable
  <2>3. ASSUME NEW o \in Mutations PROVE Concerns(o)' /\ Tended(o)'
    <3>1. Concerns(o) /\ Tended(o)
      BY DEF Marked
    <3> QED
      BY <1>9, <3>1 DEF WriteTable, Concerns, Tended, Covered
  <2> QED
    BY <2>1, <2>2, <2>3 DEF Marked
<1>10. ASSUME NEW m \in Mutations, NEW group \in Queries, Mutate(m, group) PROVE Marked'
  <2>1. DashboardTypeOK'
    BY <1>10 DEF Mutate
  <2>2. cached'.lacks # {} => cached'.has
    BY <1>10 DEF Mutate
  <2>3. ASSUME NEW o \in Mutations PROVE Concerns(o)' /\ Tended(o)'
    <3>1. Concerns(o) /\ Tended(o)
      BY DEF Marked
    <3> QED
      BY <1>10, <3>1 DEF Mutate, Concerns, Tended, Covered
  <2> QED
    BY <2>1, <2>2, <2>3 DEF Marked
<1>11. ASSUME NEW m \in Mutations, MutationSucceeds(m) PROVE Marked'
  <2>1. DashboardTypeOK'
    BY ZenonT(60), <1>11 DEF MutationSucceeds
  <2>2. cached'.lacks # {} => cached'.has
    BY <1>11 DEF MutationSucceeds
  <2>3. ASSUME NEW o \in Mutations PROVE Concerns(o)' /\ Tended(o)'
    <3>1. Concerns(o) /\ Tended(o)
      BY DEF Marked
    <3> QED
      BY <1>11, <3>1 DEF MutationSucceeds, Concerns, Tended, Covered
  <2> QED
    BY <2>1, <2>2, <2>3 DEF Marked
<1>12. ASSUME NEW m \in Mutations, MutationFails(m) PROVE Marked'
  <2>1. DashboardTypeOK'
    BY <1>12 DEF MutationFails
  <2>2. cached'.lacks # {} => cached'.has
    BY <1>12 DEF MutationFails
  <2>3. ASSUME NEW o \in Mutations PROVE Concerns(o)' /\ Tended(o)'
    <3>1. Concerns(o) /\ Tended(o)
      BY DEF Marked
    <3> QED
      BY <1>12, <3>1 DEF MutationFails, Concerns, Tended, Covered
  <2> QED
    BY <2>1, <2>2, <2>3 DEF Marked
<1>13. CASE UNCHANGED dashboardVars
  BY <1>13 DEF dashboardVars, Marked, Concerns, Tended, Covered
<1> QED
  BY <1>1, <1>2, <1>3, <1>4, <1>5, <1>6, <1>7, <1>8, <1>9, <1>10, <1>11, <1>12, <1>13
     DEF DashboardNext

\* OwnWritesAreShown: after a mutation was reported as done, data without its writes is
\* marked, and on show it is being loaded (onSuccess of mutations.ts), for any number of
\* mutations.
THEOREM DashboardFollows == DashboardSpec => []OwnWritesAreShown
<1>1. Marked => OwnWritesAreShown
  <2> SUFFICES ASSUME Marked, NEW m \in cached.lacks, mutation[m].pc = "acked",
                      view \notin NamesOnly(mutation[m].group), m \notin overtaken
               PROVE cached.invalid /\ (cached.mounted => cached.error
                                          \/ (load.on /\ m \notin load.misses))
    BY DEF OwnWritesAreShown
  <2>1. m \in Mutations /\ mutation[m].group \in Queries /\ view \in Queries
    BY DEF Marked, DashboardTypeOK, CachedRecord, MutationRecord
  <2>2. Covered(m)
    BY <2>1, TableFollows DEF Marked, Covered, Concerns
  <2> QED
    BY <2>1, <2>2 DEF Marked, Tended
<1> QED
  BY <1>1, MarkedInit, MarkedStep, PTL DEF DashboardSpec
-----------------------------------------------------------------------------
(***************************************************************************)
(* The timeline of a callback.  TimelineIsTrue is not inductive: it holds  *)
(* because of the order of the steps in every script, whatever template    *)
(* and connector it belongs to.  The invariant says that the state is what *)
(* a set of steps has left, and that each step still to do may follow that *)
(* set and the steps before it.                                            *)
(***************************************************************************)
Did(kind, act) == [kind |-> kind, act |-> act]

\* What is completed when a callback reports the end of the run.
EndOf == [invoice_download |-> "invoice", renewal_check |-> "renewal",
          downgrade_resume |-> "submission"]

\* A denial of the policy comes before everything that is done at the vendor.
\* An attempt is recorded before its act, once; an act has its attempt, and a
\* login unless it is the login; what is completed was done, and a login was
\* accepted by the vendor since.  A report has its act.
Fits(x, B, template) ==
  /\ x.kind = "policy" => \A a \in Acts : Did("interact", a) \notin B
  /\ x.kind = "record" =>
       x.act \in Acts /\ Did("interact", x.act) \notin B /\ Did("complete", x.act) \notin B
  /\ x.kind = "interact" =>
       /\ x.act \in Acts \ {"proposal"}
       /\ Did("record", x.act) \in B
       /\ x.act # "login" => Did("complete", "login") \in B
  /\ x.kind = "totp" \/ x = Did("interact", "login") =>
       Did("accepted", "none") \notin B /\ Did("complete", "login") \notin B
  /\ x.kind = "complete" =>
       /\ x.act \in Acts
       /\ Did("interact", x.act) \in B
       /\ x.act = "login" => Did("accepted", "none") \in B
  /\ x.kind = "accepted" => x.act = "none"
  /\ x.kind = "report" =>
       IF template = "downgrade_start"
         THEN Did("record", "proposal") \in B /\ Did("interact", "submission") \notin B
         ELSE Did("complete", EndOf[template]) \in B

Before(s, i) == {s[j] : j \in 1..(i - 1)}

Steps(s) == {s[j] : j \in 1..Len(s)}

\* The steps of s may follow those of H, one after the other.
Follows(s, H, template) ==
  s \in Seq(StepRecord) /\ \A i \in 1..Len(s) : Fits(s[i], H \cup Before(s, i), template)

\* The state is what the steps of H have left.
LeftBy(H) ==
  /\ \A a \in Acts :
       /\ Did("record", a) \in H /\ a # "proposal" => actAttempt[a].policy = "allow"
       /\ a \in done <=> Did("interact", a) \in H
       /\ actAttempt[a].completed <=> Did("complete", a) \in H
  /\ Did("record", "proposal") \in H => actAttempt["proposal"].policy = "require_approval"
  /\ Did("accepted", "none") \in H => page = "in"

TimelineInv ==
  /\ ConnectorTypeOK
  /\ TimelineIsTrue
  /\ outcome = "working" => \E H \in SUBSET StepRecord : LeftBy(H) /\ Follows(script, H, job.template)
-----------------------------------------------------------------------------
(* Scripts that are put together. *)

\* The steps of a script are steps.
LEMMA StepsTyped ==
  ASSUME NEW s \in Seq(StepRecord)
  PROVE  Steps(s) \in SUBSET StepRecord
BY DEF Steps

\* What follows a script follows what it follows and its steps.
LEMMA FollowsOn ==
  ASSUME NEW s, NEW t, NEW H, NEW template,
         Follows(s, H, template), Follows(t, H \cup Steps(s), template)
  PROVE  Follows(s \o t, H, template) /\ Steps(s \o t) = Steps(s) \cup Steps(t)
<1> DEFINE u == s \o t
<1>1. /\ s \in Seq(StepRecord) /\ t \in Seq(StepRecord)
      /\ \A i \in 1..Len(s) : Fits(s[i], H \cup Before(s, i), template)
      /\ \A i \in 1..Len(t) : Fits(t[i], H \cup Steps(s) \cup Before(t, i), template)
  BY DEF Follows
<1>2. /\ u \in Seq(StepRecord) /\ Len(u) = Len(s) + Len(t) /\ Len(s) \in Nat /\ Len(t) \in Nat
      /\ \A i \in 1..Len(s) : u[i] = s[i]
      /\ \A i \in 1..Len(t) : u[Len(s) + i] = t[i]
  BY <1>1
<1>3. \A i \in 1..Len(u) : i \in 1..Len(s) \/ (i - Len(s) \in 1..Len(t) /\ Len(s) + (i - Len(s)) = i)
  BY <1>2
<1> HIDE DEF u
<1>4. Steps(u) = Steps(s) \cup Steps(t)
  <2>1. \A x \in Steps(u) : x \in Steps(s) \cup Steps(t)
    <3> SUFFICES ASSUME NEW j \in 1..Len(u)
                 PROVE  u[j] \in Steps(s) \/ u[j] \in Steps(t)
      BY DEF Steps
    <3>1. CASE j \in 1..Len(s)
      BY <3>1, <1>2 DEF Steps
    <3>2. CASE j - Len(s) \in 1..Len(t) /\ Len(s) + (j - Len(s)) = j
      BY <3>2, <1>2 DEF Steps
    <3> QED
      BY <3>1, <3>2, <1>3
  <2>2. \A x \in Steps(s) : x \in Steps(u)
    BY <1>2 DEF Steps
  <2>3. \A x \in Steps(t) : x \in Steps(u)
    <3> SUFFICES ASSUME NEW j \in 1..Len(t)
                 PROVE  \E k \in 1..Len(u) : u[k] = t[j]
      BY DEF Steps
    <3>1. Len(s) + j \in 1..Len(u)
      BY <1>2
    <3> QED
      BY <3>1, <1>2
  <2> QED
    BY <2>1, <2>2, <2>3
<1>5. ASSUME NEW i \in 1..Len(s)
      PROVE  Fits(u[i], H \cup Before(u, i), template)
  <2>1. \A j \in 1..(i - 1) : j \in 1..Len(s) /\ u[j] = s[j]
    BY <1>2
  <2>2. Before(u, i) = Before(s, i)
    BY <2>1 DEF Before
  <2> QED
    BY <2>2, <1>1, <1>2
<1>6. ASSUME NEW i \in 1..Len(t)
      PROVE  Fits(u[Len(s) + i], H \cup Before(u, Len(s) + i), template)
  <2>1. \A j \in 1..(Len(s) + i - 1) :
          j \in 1..Len(s) \/ (j - Len(s) \in 1..(i - 1) /\ Len(s) + (j - Len(s)) = j
                                /\ j - Len(s) \in 1..Len(t))
    BY <1>2
  <2>2. \A x \in Before(u, Len(s) + i) : x \in Steps(s) \cup Before(t, i)
    <3> SUFFICES ASSUME NEW j \in 1..(Len(s) + i - 1)
                 PROVE  u[j] \in Steps(s) \/ u[j] \in Before(t, i)
      BY DEF Before
    <3>1. CASE j \in 1..Len(s)
      BY <3>1, <1>2 DEF Steps
    <3>2. CASE j - Len(s) \in 1..(i - 1) /\ Len(s) + (j - Len(s)) = j /\ j - Len(s) \in 1..Len(t)
      BY <3>2, <1>2 DEF Before
    <3> QED
      BY <3>1, <3>2, <2>1
  <2>3. \A x \in Steps(s) : x \in Before(u, Len(s) + i)
    BY <1>2 DEF Before, Steps
  <2>4. \A x \in Before(t, i) : x \in Before(u, Len(s) + i)
    <3> SUFFICES ASSUME NEW j \in 1..(i - 1)
                 PROVE  \E k \in 1..(Len(s) + i - 1) : u[k] = t[j]
      BY DEF Before
    <3>1. Len(s) + j \in 1..(Len(s) + i - 1) /\ j \in 1..Len(t)
      BY <1>2
    <3> QED
      BY <3>1, <1>2
  <2>5. H \cup Before(u, Len(s) + i) = H \cup Steps(s) \cup Before(t, i)
    BY <2>2, <2>3, <2>4
  <2> QED
    BY <2>5, <1>1, <1>2
<1>7. \A i \in 1..Len(u) : Fits(u[i], H \cup Before(u, i), template)
  BY <1>3, <1>5, <1>6
<1> QED
  BY <1>2, <1>4, <1>7 DEF Follows, u

\* One step.
LEMMA OneFollows ==
  ASSUME NEW x \in StepRecord, NEW H, NEW template, Fits(x, H, template)
  PROVE  Follows(<<x>>, H, template) /\ Steps(<<x>>) = {x}
<1> DEFINE s == <<x>>
<1>1. s \in Seq(StepRecord) /\ Len(s) = 1 /\ s[1] = x
  OBVIOUS
<1> HIDE DEF s
<1>2. Before(s, 1) = {} /\ H \cup {} = H
  BY DEF Before
<1>3. \A i \in 1..Len(s) : i = 1
  BY <1>1
<1> QED
  BY <1>1, <1>2, <1>3 DEF Follows, Steps, s

\* What is left of a script follows the step at hand.
LEMMA RestFollows ==
  ASSUME NEW s, NEW H, NEW template, Follows(s, H, template), s # <<>>
  PROVE  /\ Head(s) \in StepRecord /\ Fits(Head(s), H, template)
         /\ Follows(Tail(s), H \cup {Head(s)}, template)
<1> DEFINE t == Tail(s)
<1>1. /\ s \in Seq(StepRecord) /\ t \in Seq(StepRecord) /\ Len(s) = Len(t) + 1 /\ Len(t) \in Nat
      /\ s[1] = Head(s) /\ Head(s) \in StepRecord /\ \A i \in 1..Len(t) : t[i] = s[i + 1]
      /\ \A i \in 1..Len(s) : Fits(s[i], H \cup Before(s, i), template)
  BY DEF Follows
<1> HIDE DEF t
<1>2. 1 \in 1..Len(s) /\ Before(s, 1) = {} /\ H \cup {} = H
  BY <1>1 DEF Before
<1>3. Fits(Head(s), H, template)
  BY <1>1, <1>2
<1>4. ASSUME NEW i \in 1..Len(t)
      PROVE  Fits(t[i], H \cup {Head(s)} \cup Before(t, i), template)
  <2>1. i + 1 \in 1..Len(s) /\ (i + 1) - 1 = i
    BY <1>1
  <2>2. \A x \in Before(s, i + 1) : x = Head(s) \/ x \in Before(t, i)
    <3> SUFFICES ASSUME NEW j \in 1..i
                 PROVE  s[j] = Head(s) \/ s[j] \in Before(t, i)
      BY <2>1 DEF Before
    <3>1. CASE j = 1
      BY <3>1, <1>1
    <3>2. CASE j # 1
      <4>1. j - 1 \in 1..(i - 1) /\ j - 1 \in 1..Len(t) /\ (j - 1) + 1 = j
        BY <3>2, <1>1
      <4> QED
        BY <4>1, <1>1 DEF Before
    <3> QED
      BY <3>1, <3>2
  <2>3. Head(s) \in Before(s, i + 1)
    BY <1>1, <2>1 DEF Before
  <2>4. \A x \in Before(t, i) : x \in Before(s, i + 1)
    <3> SUFFICES ASSUME NEW j \in 1..(i - 1)
                 PROVE  \E k \in 1..i : s[k] = t[j]
      BY <2>1 DEF Before
    <3>1. j + 1 \in 1..i /\ j \in 1..Len(t)
      BY <1>1
    <3> QED
      BY <3>1, <1>1
  <2>5. H \cup Before(s, i + 1) = H \cup {Head(s)} \cup Before(t, i)
    BY <2>2, <2>3, <2>4
  <2> QED
    BY <2>1, <2>5, <1>1
<1> QED
  BY <1>1, <1>3, <1>4 DEF Follows, t
-----------------------------------------------------------------------------
(***************************************************************************)
(* What the executor relies on of a connector: its login is accepted by    *)
(* the vendor before it is completed, and an operation that comes after a  *)
(* login does only what it has recorded.                                   *)
(***************************************************************************)
Fresh(H, act) == Did("interact", act) \notin H /\ Did("complete", act) \notin H

About(s, acts) == \A x \in Steps(s) : x.act \in acts \cup {"none"}

LogsIn(s) ==
  /\ About(s, {"login"}) /\ Did("complete", "login") \in Steps(s)
  /\ \A H \in SUBSET StepRecord, template \in Templates :
       Fresh(H, "login") /\ Did("accepted", "none") \notin H => Follows(s, H, template)

Operates(s, acts) ==
  /\ About(s, acts)
  /\ \A H \in SUBSET StepRecord, template \in Templates :
       Did("complete", "login") \in H /\ (\A act \in acts : Fresh(H, act)) => Follows(s, H, template)


\* What the steps of SandboxLogin rest on, read off its script.
LEMMA SandboxLoginSound ==
  LogsIn(SandboxLogin)
<1> DEFINE s == SandboxLogin
<1>1. /\ s \in Seq(StepRecord) /\ Len(s) = 7 /\ s[1] = Did("navigate", "none")
      /\ s[2] = Did("record", "login") /\ s[3] = Did("inspect", "none")
      /\ s[4] = Did("interact", "login") /\ s[5] = Did("inspect", "none")
      /\ s[6] = Did("accepted", "none") /\ s[7] = Did("complete", "login")
  BY DEF s, SandboxLogin, ClickWithActionAttempt, Step, StepOf, Did, StepRecord, Acts, ActionOf
<1> HIDE DEF s
<1>2. About(s, {"login"}) /\ Did("complete", "login") \in Steps(s)
  BY <1>1 DEF About, Steps, Did
<1>3. ASSUME NEW H \in SUBSET StepRecord, NEW template \in Templates,
             Fresh(H, "login"), Did("accepted", "none") \notin H
      PROVE  Follows(s, H, template)
  BY <1>1, <1>3 DEF Follows, Fits, Before, Fresh, Did, Acts, ActionOf
<1> QED
  BY <1>2, <1>3 DEF LogsIn, s

\* What the steps of SandboxDownloadLatestInvoice rest on, read off its script.
LEMMA SandboxDownloadLatestInvoiceSound ==
  /\ Operates(SandboxDownloadLatestInvoice, {"invoice"})
  /\ Did("complete", "invoice") \in Steps(SandboxDownloadLatestInvoice)
<1> DEFINE s == SandboxDownloadLatestInvoice
<1>1. /\ s \in Seq(StepRecord) /\ Len(s) = 5 /\ s[1] = Did("navigate", "none")
      /\ s[2] = Did("record", "invoice") /\ s[3] = Did("interact", "invoice")
      /\ s[4] = Did("inspect", "none") /\ s[5] = Did("complete", "invoice")
  BY DEF s, SandboxDownloadLatestInvoice, DownloadWithCapture, Step, StepOf, Did, StepRecord,
      Acts, ActionOf
<1> HIDE DEF s
<1>2. About(s, {"invoice"}) /\ Did("complete", "invoice") \in Steps(s)
  BY <1>1 DEF About, Steps, Did
<1>3. ASSUME NEW H \in SUBSET StepRecord, NEW template \in Templates,
             Did("complete", "login") \in H, \A act \in {"invoice"} : Fresh(H, act)
      PROVE  Follows(s, H, template)
  BY <1>1, <1>3 DEF Follows, Fits, Before, Fresh, Did, Acts, ActionOf
<1> QED
  BY <1>2, <1>3 DEF Operates, s

\* What the steps of SandboxReadRenewalInfo rest on, read off its script.
LEMMA SandboxReadRenewalInfoSound ==
  /\ Operates(SandboxReadRenewalInfo, {"renewal"})
  /\ Did("complete", "renewal") \in Steps(SandboxReadRenewalInfo)
<1> DEFINE s == SandboxReadRenewalInfo
<1>1. /\ s \in Seq(StepRecord) /\ Len(s) = 5 /\ s[1] = Did("navigate", "none")
      /\ s[2] = Did("record", "renewal") /\ s[3] = Did("interact", "renewal")
      /\ s[4] = Did("inspect", "none") /\ s[5] = Did("complete", "renewal")
  BY DEF s, SandboxReadRenewalInfo, Step, StepOf, Did, StepRecord, Acts, ActionOf
<1> HIDE DEF s
<1>2. About(s, {"renewal"}) /\ Did("complete", "renewal") \in Steps(s)
  BY <1>1 DEF About, Steps, Did
<1>3. ASSUME NEW H \in SUBSET StepRecord, NEW template \in Templates,
             Did("complete", "login") \in H, \A act \in {"renewal"} : Fresh(H, act)
      PROVE  Follows(s, H, template)
  BY <1>1, <1>3 DEF Follows, Fits, Before, Fresh, Did, Acts, ActionOf
<1> QED
  BY <1>2, <1>3 DEF Operates, s

\* What the steps of SandboxPrepareDowngrade rest on, read off its script.
LEMMA SandboxPrepareDowngradeSound ==
  /\ Operates(SandboxPrepareDowngrade, {"renewal", "proposal"})
  /\ Did("record", "proposal") \in Steps(SandboxPrepareDowngrade)
<1> DEFINE s == SandboxPrepareDowngrade
<1>1. /\ s \in Seq(StepRecord) /\ Len(s) = 6 /\ s[1] = Did("navigate", "none")
      /\ s[2] = Did("record", "renewal") /\ s[3] = Did("interact", "renewal")
      /\ s[4] = Did("inspect", "none") /\ s[5] = Did("complete", "renewal")
      /\ s[6] = Did("record", "proposal")
  BY DEF s, SandboxPrepareDowngrade, SandboxReadRenewalInfo, Step, StepOf, Did, StepRecord, Acts,
      ActionOf
<1> HIDE DEF s
<1>2. About(s, {"renewal", "proposal"}) /\ Did("record", "proposal") \in Steps(s)
  BY <1>1 DEF About, Steps, Did
<1>3. ASSUME NEW H \in SUBSET StepRecord, NEW template \in Templates,
             Did("complete", "login") \in H, \A act \in {"renewal", "proposal"} : Fresh(H, act)
      PROVE  Follows(s, H, template)
  BY <1>1, <1>3 DEF Follows, Fits, Before, Fresh, Did, Acts, ActionOf
<1> QED
  BY <1>2, <1>3 DEF Operates, s

\* What the steps of SandboxSubmitDowngrade rest on, read off its script.
LEMMA SandboxSubmitDowngradeSound ==
  /\ Operates(SandboxSubmitDowngrade, {"renewal", "submission"})
  /\ Did("complete", "submission") \in Steps(SandboxSubmitDowngrade)
<1> DEFINE s == SandboxSubmitDowngrade
<1>1. /\ s \in Seq(StepRecord) /\ Len(s) = 11 /\ s[1] = Did("navigate", "none")
      /\ s[2] = Did("record", "renewal") /\ s[3] = Did("interact", "renewal")
      /\ s[4] = Did("inspect", "none") /\ s[5] = Did("complete", "renewal")
      /\ s[6] = Did("record", "submission") /\ s[7] = Did("inspect", "none")
      /\ s[8] = Did("interact", "submission") /\ s[9] = Did("inspect", "none")
      /\ s[10] = Did("inspect", "none") /\ s[11] = Did("complete", "submission")
  BY DEF s, SandboxSubmitDowngrade, SandboxReadRenewalInfo, ClickWithActionAttempt, Step, StepOf,
      Did, StepRecord, Acts, ActionOf
<1> HIDE DEF s
<1>2. About(s, {"renewal", "submission"}) /\ Did("complete", "submission") \in Steps(s)
  BY <1>1 DEF About, Steps, Did
<1>3. ASSUME NEW H \in SUBSET StepRecord, NEW template \in Templates,
             Did("complete", "login") \in H, \A act \in {"renewal", "submission"} : Fresh(H, act)
      PROVE  Follows(s, H, template)
  BY <1>1, <1>3 DEF Follows, Fits, Before, Fresh, Did, Acts, ActionOf
<1> QED
  BY <1>2, <1>3 DEF Operates, s

\* What the steps of GitHubLogin rest on, read off its script.
LEMMA GitHubLoginSound ==
  LogsIn(GitHubLogin)
<1> DEFINE s == GitHubLogin
<1>1. /\ s \in Seq(StepRecord) /\ Len(s) = 8 /\ s[1] = Did("navigate", "none")
      /\ s[2] = Did("inspect", "none") /\ s[3] = Did("record", "login")
      /\ s[4] = Did("inspect", "none") /\ s[5] = Did("interact", "login")
      /\ s[6] = Did("totp", "none") /\ s[7] = Did("accepted", "none")
      /\ s[8] = Did("complete", "login")
  BY DEF s, GitHubLogin, OpenDashboard, CompleteTotpIfRequired, Step, StepOf, Did, StepRecord,
      Acts, ActionOf
<1> HIDE DEF s
<1>2. About(s, {"login"}) /\ Did("complete", "login") \in Steps(s)
  BY <1>1 DEF About, Steps, Did
<1>3. ASSUME NEW H \in SUBSET StepRecord, NEW template \in Templates,
             Fresh(H, "login"), Did("accepted", "none") \notin H
      PROVE  Follows(s, H, template)
  BY <1>1, <1>3 DEF Follows, Fits, Before, Fresh, Did, Acts, ActionOf
<1> QED
  BY <1>2, <1>3 DEF LogsIn, s

\* What the steps of GitHubDownloadLatestInvoice rest on, read off its script.
LEMMA GitHubDownloadLatestInvoiceSound ==
  /\ Operates(GitHubDownloadLatestInvoice, {"invoice"})
  /\ Did("complete", "invoice") \in Steps(GitHubDownloadLatestInvoice)
<1> DEFINE s == GitHubDownloadLatestInvoice
<1>1. /\ s \in Seq(StepRecord) /\ Len(s) = 7 /\ s[1] = Did("navigate", "none")
      /\ s[2] = Did("inspect", "none") /\ s[3] = Did("record", "invoice")
      /\ s[4] = Did("inspect", "none") /\ s[5] = Did("interact", "invoice")
      /\ s[6] = Did("inspect", "none") /\ s[7] = Did("complete", "invoice")
  BY DEF s, GitHubDownloadLatestInvoice, OpenDashboard, DownloadWithCapture, Step, StepOf, Did,
      StepRecord, Acts, ActionOf
<1> HIDE DEF s
<1>2. About(s, {"invoice"}) /\ Did("complete", "invoice") \in Steps(s)
  BY <1>1 DEF About, Steps, Did
<1>3. ASSUME NEW H \in SUBSET StepRecord, NEW template \in Templates,
             Did("complete", "login") \in H, \A act \in {"invoice"} : Fresh(H, act)
      PROVE  Follows(s, H, template)
  BY <1>1, <1>3 DEF Follows, Fits, Before, Fresh, Did, Acts, ActionOf
<1> QED
  BY <1>2, <1>3 DEF Operates, s

\* What the steps of GitHubReadRenewalInfo rest on, read off its script.
LEMMA GitHubReadRenewalInfoSound ==
  /\ Operates(GitHubReadRenewalInfo, {"renewal"})
  /\ Did("complete", "renewal") \in Steps(GitHubReadRenewalInfo)
<1> DEFINE s == GitHubReadRenewalInfo
<1>1. /\ s \in Seq(StepRecord) /\ Len(s) = 6 /\ s[1] = Did("navigate", "none")
      /\ s[2] = Did("inspect", "none") /\ s[3] = Did("record", "renewal")
      /\ s[4] = Did("interact", "renewal") /\ s[5] = Did("inspect", "none")
      /\ s[6] = Did("complete", "renewal")
  BY DEF s, GitHubReadRenewalInfo, OpenDashboard, Step, StepOf, Did, StepRecord, Acts, ActionOf
<1> HIDE DEF s
<1>2. About(s, {"renewal"}) /\ Did("complete", "renewal") \in Steps(s)
  BY <1>1 DEF About, Steps, Did
<1>3. ASSUME NEW H \in SUBSET StepRecord, NEW template \in Templates,
             Did("complete", "login") \in H, \A act \in {"renewal"} : Fresh(H, act)
      PROVE  Follows(s, H, template)
  BY <1>1, <1>3 DEF Follows, Fits, Before, Fresh, Did, Acts, ActionOf
<1> QED
  BY <1>2, <1>3 DEF Operates, s

\* What the steps of GitHubPrepareDowngrade rest on, read off its script.
LEMMA GitHubPrepareDowngradeSound ==
  /\ Operates(GitHubPrepareDowngrade, {"renewal", "proposal"})
  /\ Did("record", "proposal") \in Steps(GitHubPrepareDowngrade)
<1> DEFINE s == GitHubPrepareDowngrade
<1>1. /\ s \in Seq(StepRecord) /\ Len(s) = 7 /\ s[1] = Did("navigate", "none")
      /\ s[2] = Did("inspect", "none") /\ s[3] = Did("record", "renewal")
      /\ s[4] = Did("interact", "renewal") /\ s[5] = Did("inspect", "none")
      /\ s[6] = Did("complete", "renewal") /\ s[7] = Did("record", "proposal")
  BY DEF s, GitHubPrepareDowngrade, GitHubReadRenewalInfo, OpenDashboard, Step, StepOf, Did,
      StepRecord, Acts, ActionOf
<1> HIDE DEF s
<1>2. About(s, {"renewal", "proposal"}) /\ Did("record", "proposal") \in Steps(s)
  BY <1>1 DEF About, Steps, Did
<1>3. ASSUME NEW H \in SUBSET StepRecord, NEW template \in Templates,
             Did("complete", "login") \in H, \A act \in {"renewal", "proposal"} : Fresh(H, act)
      PROVE  Follows(s, H, template)
  BY <1>1, <1>3 DEF Follows, Fits, Before, Fresh, Did, Acts, ActionOf
<1> QED
  BY <1>2, <1>3 DEF Operates, s

\* What the steps of GitHubSubmitDowngrade rest on, read off its script.
LEMMA GitHubSubmitDowngradeSound ==
  /\ Operates(GitHubSubmitDowngrade, {"renewal", "submission"})
  /\ Did("complete", "submission") \in Steps(GitHubSubmitDowngrade)
<1> DEFINE s == GitHubSubmitDowngrade
<1>1. /\ s \in Seq(StepRecord) /\ Len(s) = 14 /\ s[1] = Did("navigate", "none")
      /\ s[2] = Did("inspect", "none") /\ s[3] = Did("navigate", "none")
      /\ s[4] = Did("inspect", "none") /\ s[5] = Did("record", "renewal")
      /\ s[6] = Did("interact", "renewal") /\ s[7] = Did("inspect", "none")
      /\ s[8] = Did("complete", "renewal") /\ s[9] = Did("record", "submission")
      /\ s[10] = Did("inspect", "none") /\ s[11] = Did("interact", "submission")
      /\ s[12] = Did("inspect", "none") /\ s[13] = Did("inspect", "none")
      /\ s[14] = Did("complete", "submission")
  BY DEF s, GitHubSubmitDowngrade, GitHubReadRenewalInfo, OpenDashboard, ClickWithActionAttempt,
      Step, StepOf, Did, StepRecord, Acts, ActionOf
<1> HIDE DEF s
<1>2. About(s, {"renewal", "submission"}) /\ Did("complete", "submission") \in Steps(s)
  BY <1>1 DEF About, Steps, Did
<1>3. ASSUME NEW H \in SUBSET StepRecord, NEW template \in Templates,
             Did("complete", "login") \in H, \A act \in {"renewal", "submission"} : Fresh(H, act)
      PROVE  Follows(s, H, template)
  BY SMTT(60), <1>1, <1>3 DEF Follows, Fits, Before, Fresh, Did, Acts, ActionOf
<1> QED
  BY <1>2, <1>3 DEF Operates, s

\* Every connector of the registry.
LEMMA ConnectorsSound ==
  ASSUME NEW type \in ConnectorTypes
  PROVE  LET c == Connector(type)
         IN /\ LogsIn(c.login)
            /\ Operates(c.invoice, {"invoice"}) /\ Did("complete", "invoice") \in Steps(c.invoice)
            /\ Operates(c.renewal, {"renewal"}) /\ Did("complete", "renewal") \in Steps(c.renewal)
            /\ Operates(c.prepare, {"renewal", "proposal"})
            /\ Did("record", "proposal") \in Steps(c.prepare)
            /\ Operates(c.submit, {"renewal", "submission"})
            /\ Did("complete", "submission") \in Steps(c.submit)
<1>1. CASE type = "sandbox"
  BY <1>1, SandboxLoginSound, SandboxDownloadLatestInvoiceSound, SandboxReadRenewalInfoSound,
     SandboxPrepareDowngradeSound, SandboxSubmitDowngradeSound DEF Connector
<1>2. CASE type = "github"
  BY <1>2, GitHubLoginSound, GitHubDownloadLatestInvoiceSound, GitHubReadRenewalInfoSound,
     GitHubPrepareDowngradeSound, GitHubSubmitDowngradeSound DEF Connector
<1>3. CASE type = "stripe_billing"
  BY <1>3, GitHubLoginSound, GitHubDownloadLatestInvoiceSound, GitHubReadRenewalInfoSound,
     GitHubPrepareDowngradeSound, GitHubSubmitDowngradeSound
     DEF Connector, StripeLogin, StripeDownloadLatestInvoice, StripeReadRenewalInfo,
         StripePrepareDowngrade, StripeSubmitDowngrade
<1> QED
  BY <1>1, <1>2, <1>3 DEF ConnectorTypes

\* The context of a callback is opened before anything is done.
LEMMA OpenContextFollows ==
  ASSUME NEW template
  PROVE  Follows(OpenContext, {}, template) /\ Steps(OpenContext) \in SUBSET StepRecord
         /\ About(OpenContext, {}) /\ Did("accepted", "none") \notin Steps(OpenContext)
<1> DEFINE s == OpenContext
<1>1. /\ s \in Seq(StepRecord) /\ Len(s) = 4
      /\ s[1] = Did("policy", "none") /\ s[2] = Did("inspect", "none")
      /\ s[3] = Did("open", "none") /\ s[4] = Did("inspect", "none")
  BY DEF s, OpenContext, Step, Did, StepRecord, Acts, ActionOf
<1> HIDE DEF s
<1>2. Steps(s) \in SUBSET StepRecord
  BY <1>1, StepsTyped
<1>3. About(s, {}) /\ Did("accepted", "none") \notin Steps(s)
  BY <1>1 DEF About, Steps, Did
<1>4. Follows(s, {}, template)
  BY <1>1 DEF Follows, Fits, Before, Did, Acts, ActionOf
<1> QED
  BY <1>2, <1>3, <1>4 DEF s

\* The context, a login, an operation: what is looked at afterwards is free.
LEMMA OperationFollows ==
  ASSUME NEW login, LogsIn(login), NEW op, NEW acts \in SUBSET (Acts \ {"login"}),
         Operates(op, acts), NEW template \in Templates
  PROVE  LET s == OpenContext \o login \o op
         IN /\ Follows(s, {}, template)
            /\ Steps(op) \in SUBSET Steps(s)
            /\ About(s, acts \cup {"login"})
<1> DEFINE c == OpenContext
           l == c \o login
           s == l \o op
<1>1. /\ Follows(c, {}, template) /\ Steps(c) \in SUBSET StepRecord /\ About(c, {})
      /\ Did("accepted", "none") \notin Steps(c)
  BY OpenContextFollows
<1> HIDE DEF c
<1>2. \A act \in Acts : Fresh(Steps(c), act)
  BY <1>1 DEF Fresh, About, Did, Acts, ActionOf
<1>3. Follows(login, {} \cup Steps(c), template)
  <2>1. {} \cup Steps(c) = Steps(c) /\ "login" \in Acts
    BY DEF Acts, ActionOf
  <2> QED
    BY <2>1, <1>1, <1>2 DEF LogsIn
<1>4. Follows(l, {}, template) /\ Steps(l) = Steps(c) \cup Steps(login)
  BY <1>1, <1>3, FollowsOn
<1>5. Steps(l) \in SUBSET StepRecord
  BY <1>4, StepsTyped DEF Follows
<1>6. Did("complete", "login") \in Steps(l) /\ \A act \in acts : Fresh(Steps(l), act)
  BY <1>1, <1>4 DEF LogsIn, Fresh, About, Did, Acts, ActionOf
<1>7. Follows(op, {} \cup Steps(l), template)
  <2>1. {} \cup Steps(l) = Steps(l)
    OBVIOUS
  <2> QED
    BY <2>1, <1>5, <1>6 DEF Operates
<1> HIDE DEF l
<1>8. Follows(s, {}, template) /\ Steps(s) = Steps(l) \cup Steps(op)
  BY <1>4, <1>7, FollowsOn
<1>9. About(s, acts \cup {"login"})
  BY <1>1, <1>4, <1>8 DEF About, LogsIn, Operates
<1> QED
  BY <1>8, <1>9 DEF s, l, c

\* One more step.
LEMMA AndThen ==
  ASSUME NEW s, NEW template, Follows(s, {}, template), NEW x \in StepRecord,
         Fits(x, Steps(s), template)
  PROVE  Follows(s \o <<x>>, {}, template) /\ Steps(s \o <<x>>) = Steps(s) \cup {x}
<1>1. {} \cup Steps(s) = Steps(s)
  OBVIOUS
<1>2. Follows(<<x>>, Steps(s), template) /\ Steps(<<x>>) = {x}
  BY OneFollows
<1> QED
  BY <1>1, <1>2, FollowsOn

\* What is done at last, once the act of the template is.
LEMMA ReportFollows ==
  ASSUME NEW s, NEW template, Follows(s, {}, template),
         Fits(Did("report", "none"), Steps(s), template)
  PROVE  Follows(s \o Step("inspect") \o Step("report"), {}, template)
<1>1. /\ Step("inspect") = <<Did("inspect", "none")>> /\ Step("report") = <<Did("report", "none")>>
      /\ Did("inspect", "none") \in StepRecord /\ Did("report", "none") \in StepRecord
  BY DEF Step, Did, StepRecord
<1> DEFINE x == Did("inspect", "none")
           y == Did("report", "none")
           t == s \o <<x>>
<1>2. Fits(x, Steps(s), template)
  BY DEF Fits, Did
<1>3. /\ \A act : Did("interact", act) # x
      /\ Fits(y, Steps(s), template) => Fits(y, Steps(s) \cup {x}, template)
  BY DEF Fits, Did
<1>4. Follows(t, {}, template) /\ Steps(t) = Steps(s) \cup {x}
  BY <1>1, <1>2, AndThen
<1> HIDE DEF t
<1>5. Follows(t \o <<y>>, {}, template)
  BY <1>1, <1>3, <1>4, AndThen
<1> QED
  BY <1>1, <1>5 DEF t

\* The script of each template, put together from what its connector promises.
LEMMA ScriptFollows ==
  ASSUME NEW template \in Templates, NEW type \in ConnectorTypes
  PROVE  Follows(ScriptOf(template, Connector(type)), {}, template)
<1> DEFINE c == Connector(type)
<1>1. /\ LogsIn(c.login)
      /\ Operates(c.invoice, {"invoice"}) /\ Did("complete", "invoice") \in Steps(c.invoice)
      /\ Operates(c.renewal, {"renewal"}) /\ Did("complete", "renewal") \in Steps(c.renewal)
      /\ Operates(c.prepare, {"renewal", "proposal"})
      /\ Did("record", "proposal") \in Steps(c.prepare)
      /\ Operates(c.submit, {"renewal", "submission"})
      /\ Did("complete", "submission") \in Steps(c.submit)
  BY ConnectorsSound
<1> HIDE DEF c
<1>2. {"invoice", "renewal", "proposal", "submission"} \in SUBSET (Acts \ {"login"})
  BY DEF Acts, ActionOf
<1>3. CASE template = "invoice_download"
  <2> DEFINE s == OpenContext \o c.login \o c.invoice
  <2>1. Follows(s, {}, template) /\ Steps(c.invoice) \in SUBSET Steps(s)
    BY <1>1, <1>2, OperationFollows
  <2> HIDE DEF s
  <2>2. Fits(Did("report", "none"), Steps(s), template)
    BY <2>1, <1>1, <1>3 DEF Fits, Did, EndOf
  <2>3. Follows(s \o Step("inspect") \o Step("report"), {}, template)
    BY <2>1, <2>2, ReportFollows
  <2> QED
    BY <2>3, <1>3 DEF s, ScriptOf, ExecuteInvoiceDownload, c
<1>4. CASE template = "renewal_check"
  <2> DEFINE s == OpenContext \o c.login \o c.renewal
  <2>1. Follows(s, {}, template) /\ Steps(c.renewal) \in SUBSET Steps(s)
    BY <1>1, <1>2, OperationFollows
  <2> HIDE DEF s
  <2>2. Fits(Did("report", "none"), Steps(s), template)
    BY <2>1, <1>1, <1>4 DEF Fits, Did, EndOf
  <2>3. Follows(s \o Step("inspect") \o Step("report"), {}, template)
    BY <2>1, <2>2, ReportFollows
  <2> QED
    BY <2>3, <1>4 DEF s, ScriptOf, ExecuteRenewalCheck, c
<1>5. CASE template = "downgrade_start"
  <2> DEFINE s == OpenContext \o c.login \o c.prepare
             x == Did("proposed", "none")
             t == s \o <<x>>
  <2>1. /\ Follows(s, {}, template) /\ Steps(c.prepare) \in SUBSET Steps(s)
        /\ About(s, {"renewal", "proposal"} \cup {"login"})
    BY <1>1, <1>2, OperationFollows
  <2> HIDE DEF s
  <2>2. /\ x \in StepRecord /\ Step("proposed") = <<x>>
        /\ Fits(x, Steps(s), template)
    BY DEF StepRecord, Did, Step, Fits
  <2>3. Follows(t, {}, template) /\ Steps(t) = Steps(s) \cup {x}
    BY <2>1, <2>2, AndThen
  <2> HIDE DEF t
  <2>4. Fits(Did("report", "none"), Steps(t), template)
    <3>1. Did("record", "proposal") \in Steps(t)
      BY <2>1, <2>3, <1>1
    <3>2. Did("interact", "submission") \notin Steps(t)
      BY <2>1, <2>3 DEF About, Did
    <3> QED
      BY <3>1, <3>2, <1>5 DEF Fits, Did
  <2>5. Follows(t \o Step("inspect") \o Step("report"), {}, template)
    BY <2>3, <2>4, ReportFollows
  <2> QED
    BY <2>2, <2>5, <1>5 DEF s, t, ScriptOf, ExecutePlanDowngradeStart, c
<1>6. CASE template = "downgrade_resume"
  <2> DEFINE s == OpenContext \o c.login \o c.submit
  <2>1. Follows(s, {}, template) /\ Steps(c.submit) \in SUBSET Steps(s)
    BY <1>1, <1>2, OperationFollows
  <2> HIDE DEF s
  <2>2. Fits(Did("report", "none"), Steps(s), template)
    BY <2>1, <1>1, <1>6 DEF Fits, Did, EndOf
  <2>3. Follows(s \o Step("inspect") \o Step("report"), {}, template)
    BY <2>1, <2>2, ReportFollows
  <2> QED
    BY <2>3, <1>6 DEF s, ScriptOf, ExecuteResume, c
<1> QED
  BY <1>3, <1>4, <1>5, <1>6 DEF Templates
-----------------------------------------------------------------------------
(***************************************************************************)
(* What the step at hand, whatever it is, may change: done grows by an     *)
(* act, an attempt is completed by its step and allowed or proposed by its *)
(* record, and the page changes with the login until it is accepted.       *)
(***************************************************************************)
Moved ==
  /\ script' = Tail(script) /\ job' = job
  /\ done' = done \cup (IF Head(script).kind = "interact" THEN {Act} ELSE {})
  /\ \A a \in Acts :
       /\ actAttempt'[a].completed <=>
            actAttempt[a].completed \/ (Head(script).kind = "complete" /\ Act = a)
       /\ ~(Head(script).kind = "record" /\ Act = a) =>
            actAttempt'[a].policy = actAttempt[a].policy
       /\ Head(script).kind = "record" /\ Act = a =>
            actAttempt'[a].policy = IF a = "proposal" THEN "require_approval" ELSE "allow"
  /\ page' = page \/ Head(script).kind = "totp" \/ (Head(script).kind = "interact" /\ Act = "login")
  /\ Head(script).kind = "accepted" => page' = "in"

\* The steps that led to a state: what holds of it follows from them.
LEMMA LeftByMoves ==
  ASSUME NEW H \in SUBSET StepRecord, LeftBy(H), script # <<>>, Moved,
         Follows(script, H, job.template), Head(script) \in StepRecord,
         NEW K, K = H \cup {Head(script)}
  PROVE  LeftBy(K)'
<1> DEFINE x == Head(script)
<1>1. Fits(x, H, job.template) /\ x \in StepRecord /\ Act = x.act /\ x = Did(x.kind, x.act)
  BY RestFollows DEF Act, StepRecord, Did
<1>2. "login" \in Acts /\ "proposal" \in Acts /\ "none" \notin Acts
  BY DEF Acts, ActionOf
<1> HIDE DEF x
<1>3. ASSUME NEW a \in Acts
      PROVE  /\ Did("record", a) \in H \cup {x} /\ a # "proposal" => actAttempt'[a].policy = "allow"
             /\ a \in done' <=> Did("interact", a) \in H \cup {x}
             /\ actAttempt'[a].completed <=> Did("complete", a) \in H \cup {x}
  BY SMTT(40), <1>1, <1>3 DEF LeftBy, Moved, Did, x
<1>4. Did("record", "proposal") \in H \cup {x} => actAttempt'["proposal"].policy = "require_approval"
  BY <1>1, <1>2 DEF LeftBy, Moved, Did, x
<1>5. Did("accepted", "none") \in H \cup {x} => page' = "in"
  <2>1. CASE Did("accepted", "none") \in H
    <3>1. x.kind # "totp" /\ x # Did("interact", "login")
      BY <2>1, <1>1 DEF Fits
    <3> QED
      BY <3>1, <2>1, <1>1 DEF LeftBy, Moved, Did, x
  <2>2. CASE Did("accepted", "none") = x
    BY <2>2, <1>1 DEF Moved, Did, x
  <2> QED
    BY <2>1, <2>2
<1> QED
  BY <1>3, <1>4, <1>5 DEF LeftBy, x

\* The timeline of the steps of H, whose order Fits has kept.
LEMMA MoveTrue ==
  ASSUME NEW H \in SUBSET StepRecord, LeftBy(H), script # <<>>, Moved, TimelineIsTrue,
         Follows(script, H, job.template), Head(script) \in StepRecord,
         done \in SUBSET Acts, outcome' = "working"
  PROVE  TimelineIsTrue'
<1>1. Fits(Head(script), H, job.template) /\ Act = Head(script).act
      /\ Head(script) = Did(Head(script).kind, Act)
  BY RestFollows DEF Act, StepRecord, Did
<1>2. "login" \in Acts /\ "none" \notin Acts
  BY DEF Acts, ActionOf
<1>3. Head(script).kind = "interact" =>
        /\ Act \in Acts \ {"proposal"} /\ actAttempt[Act].policy = "allow"
        /\ Act # "login" => actAttempt["login"].completed
  BY <1>1, <1>2 DEF Fits, LeftBy
<1>4. Head(script).kind = "complete" =>
        Act \in Acts /\ Act \in done /\ (Act = "login" => page = "in")
  BY <1>1 DEF Fits, LeftBy
<1>5. Head(script).kind = "totp" \/ (Head(script).kind = "interact" /\ Act = "login") =>
        ~actAttempt["login"].completed
  BY <1>1, <1>2 DEF Fits, LeftBy
<1>6. Head(script).kind = "record" => Act \notin done
  BY <1>1 DEF Fits, LeftBy
<1>7. RecordedFirst'
  <2> SUFFICES ASSUME NEW a \in Acts, a \in done'
               PROVE  actAttempt'[a].policy = "allow"
    BY <1>3 DEF RecordedFirst, Moved
  <2> QED
    BY <1>3, <1>6 DEF RecordedFirst, Moved, TimelineIsTrue
<1>8. CompletedWasDone'
  <2>1. \A a \in Acts : actAttempt'[a].completed => a \in done'
    BY <1>4 DEF CompletedWasDone, Moved, TimelineIsTrue
  <2>2. actAttempt'["login"].completed => page' = "in"
    BY <1>4, <1>5, <1>2 DEF CompletedWasDone, Moved, TimelineIsTrue
  <2> QED
    BY <2>1, <2>2 DEF CompletedWasDone
<1>9. LoggedInFirst'
  BY <1>3, <1>2 DEF LoggedInFirst, Moved, TimelineIsTrue
<1>10. ReportIsBacked'
  BY DEF ReportIsBacked
<1> QED
  BY <1>7, <1>8, <1>9, <1>10 DEF TimelineIsTrue

\* A step that moves the script and keeps the types keeps the invariant.
LEMMA MoveKeeps ==
  ASSUME TimelineInv, outcome = "working", script # <<>>, Moved, outcome' = outcome,
         browser' \in {"none", "open", "closed"}, page' \in {"none", "in", "mfa", "login"},
         actAttempt' \in [Acts -> AttemptRecord]
  PROVE  TimelineInv'
<1>1. /\ script \in Seq(StepRecord) /\ done \in SUBSET Acts /\ TimelineIsTrue
      /\ Head(script) \in StepRecord /\ Tail(script) \in Seq(StepRecord)
  BY DEF TimelineInv, ConnectorTypeOK
<1>2. PICK H \in SUBSET StepRecord : LeftBy(H) /\ Follows(script, H, job.template)
  BY DEF TimelineInv
<1>3. Head(script).kind = "interact" => Act \in Acts
  BY <1>2, RestFollows DEF Fits, Act
<1>4. ConnectorTypeOK'
  BY <1>1, <1>3 DEF TimelineInv, ConnectorTypeOK, Moved
<1>5. TimelineIsTrue'
  BY <1>1, <1>2, MoveTrue
<1>6. Follows(Tail(script), H \cup {Head(script)}, job.template)
  BY <1>2, RestFollows
<1>7. PICK K \in SUBSET StepRecord : K = H \cup {Head(script)}
  BY <1>1, <1>2
<1>8. LeftBy(K)'
  BY <1>1, <1>2, <1>7, LeftByMoves
<1>9. Follows(script', K, job'.template)
  BY <1>6, <1>7 DEF Moved
<1> QED
  BY <1>4, <1>5, <1>8, <1>9 DEF TimelineInv

\* A step that reads: the policy, the context, a page, an answer.
LEMMA LookStep ==
  ASSUME TimelineInv, LoadPolicySnapshot \/ CreateControlledContext \/ Look \/ LoginAccepted
                        \/ Proposed
  PROVE  TimelineInv'
<1>1. Go /\ outcome = "working" /\ script # <<>> /\ UNCHANGED <<page, actAttempt, done>>
  BY DEF LoadPolicySnapshot, CreateControlledContext, Look, LoginAccepted, Proposed, Doing
<1>2. browser' \in {"none", "open", "closed"}
  BY DEF LoadPolicySnapshot, CreateControlledContext, Look, LoginAccepted, Proposed, TimelineInv,
         ConnectorTypeOK
<1>3. Head(script).kind \in {"policy", "open", "navigate", "inspect", "accepted", "proposed"}
      /\ (Head(script).kind = "accepted" => page = "in")
  BY DEF LoadPolicySnapshot, CreateControlledContext, Look, LoginAccepted, Proposed, Doing
<1>4. Moved
  BY <1>1, <1>3 DEF Moved, Go
<1> QED
  BY <1>1, <1>2, <1>4, MoveKeeps DEF TimelineInv, ConnectorTypeOK, Go

\* What the worker's policy says of each act: only a submission has a token.
LEMMA Decisions ==
  ASSUME NEW a \in Acts
  PROVE  EvaluateAction(ActionOf[a], a = "submission") =
           IF a = "proposal" THEN "require_approval" ELSE "allow"
<1>1. CASE a = "login"
  BY <1>1 DEF EvaluateAction, ActionOf, RiskyActions, DeniedActions
<1>2. CASE a = "invoice"
  BY <1>2 DEF EvaluateAction, ActionOf, RiskyActions, DeniedActions
<1>3. CASE a = "renewal"
  BY <1>3 DEF EvaluateAction, ActionOf, RiskyActions, DeniedActions
<1>4. CASE a = "proposal"
  BY <1>4 DEF EvaluateAction, ActionOf, RiskyActions, DeniedActions
<1>5. CASE a = "submission"
  BY <1>5 DEF EvaluateAction, ActionOf, RiskyActions, DeniedActions
<1> QED
  BY <1>1, <1>2, <1>3, <1>4, <1>5 DEF Acts, ActionOf

\* The act of the step at hand, for the steps that are about one.
LEMMA ActAtHand ==
  ASSUME TimelineInv, outcome = "working", script # <<>>
  PROVE  /\ Head(script).kind \in {"record", "interact", "complete"} => Act \in Acts
         /\ Head(script).kind = "record" => ~actAttempt[Act].completed
         /\ Head(script).kind = "policy" => done = {}
<1>1. PICK H \in SUBSET StepRecord : LeftBy(H) /\ Follows(script, H, job.template)
  BY DEF TimelineInv
<1>2. Fits(Head(script), H, job.template) /\ Act = Head(script).act
  BY <1>1, RestFollows DEF Act
<1>3. done \in SUBSET Acts
  BY DEF TimelineInv, ConnectorTypeOK
<1>4. Head(script).kind \in {"record", "interact", "complete"} => Act \in Acts
  BY <1>2 DEF Fits
<1>5. Head(script).kind = "record" => ~actAttempt[Act].completed
  BY <1>1, <1>2 DEF Fits, LeftBy
<1>6. Head(script).kind = "policy" => done = {}
  BY <1>1, <1>2, <1>3 DEF Fits, LeftBy
<1> QED
  BY <1>4, <1>5, <1>6

\* ActionAttemptClient.record: the decision is stored before the act.
LEMMA RecordStep ==
  ASSUME TimelineInv, RecordAttempt
  PROVE  TimelineInv'
<1>1. /\ Go /\ outcome = "working" /\ script # <<>> /\ UNCHANGED <<browser, page, done>>
      /\ Head(script).kind = "record"
  BY DEF RecordAttempt, Doing
<1>2. actAttempt \in [Acts -> AttemptRecord]
  BY DEF TimelineInv, ConnectorTypeOK
<1>3. Act \in Acts /\ ~actAttempt[Act].completed
  BY <1>1, ActAtHand
<1>4. PICK decision \in {"allow", "require_approval"} :
        /\ decision = EvaluateAction(ActionOf[Act], Act = "submission")
        /\ decision = IF Act = "proposal" THEN "require_approval" ELSE "allow"
  BY <1>3, Decisions
<1>5. actAttempt' = [actAttempt EXCEPT ![Act] = [policy |-> decision, completed |-> FALSE]]
  BY <1>4 DEF RecordAttempt
<1>6. actAttempt' \in [Acts -> AttemptRecord]
  BY <1>2, <1>3, <1>5 DEF AttemptRecord
<1>7. /\ actAttempt'[Act].policy = decision /\ ~actAttempt'[Act].completed
      /\ \A a \in Acts \ {Act} : actAttempt'[a] = actAttempt[a]
  BY <1>2, <1>3, <1>5
<1>8. Moved
  BY <1>1, <1>3, <1>4, <1>7 DEF Moved, Go
<1> QED
  BY <1>1, <1>6, <1>8, MoveKeeps DEF TimelineInv, ConnectorTypeOK, Go

\* The act itself.
LEMMA InteractStep ==
  ASSUME TimelineInv, Interact
  PROVE  TimelineInv'
<1>1. /\ Go /\ outcome = "working" /\ script # <<>> /\ UNCHANGED <<browser, actAttempt>>
      /\ Head(script).kind = "interact" /\ done' = done \cup {Act}
      /\ Act # "login" => page' = page
      /\ page' = page \/ page' \in {"in", "mfa", "login"}
  BY DEF Interact, Doing
<1>2. Moved
  BY <1>1 DEF Moved, Go
<1> QED
  BY <1>1, <1>2, MoveKeeps DEF TimelineInv, ConnectorTypeOK, Go

\* The second factor.
LEMMA TotpStep ==
  ASSUME TimelineInv, CompleteTotp
  PROVE  TimelineInv'
<1>1. /\ Go /\ outcome = "working" /\ script # <<>> /\ UNCHANGED <<browser, actAttempt, done>>
      /\ Head(script).kind = "totp"
      /\ page' = page \/ page' \in {"in", "login"}
  BY DEF CompleteTotp, Doing
<1>2. Moved
  BY <1>1 DEF Moved, Go
<1> QED
  BY <1>1, <1>2, MoveKeeps DEF TimelineInv, ConnectorTypeOK, Go

\* ActionAttemptClient.complete: after the act.
LEMMA CompleteStep ==
  ASSUME TimelineInv, CompleteAttempt
  PROVE  TimelineInv'
<1>1. /\ Go /\ outcome = "working" /\ script # <<>> /\ UNCHANGED <<browser, page, done>>
      /\ Head(script).kind = "complete"
      /\ actAttempt' = [actAttempt EXCEPT ![Act].completed = TRUE]
  BY DEF CompleteAttempt, Doing
<1>2. actAttempt \in [Acts -> AttemptRecord]
  BY DEF TimelineInv, ConnectorTypeOK
<1>3. Act \in Acts
  BY <1>1, ActAtHand
<1>4. actAttempt' \in [Acts -> AttemptRecord]
  BY <1>1, <1>2, <1>3 DEF AttemptRecord
<1>5. /\ actAttempt'[Act].policy = actAttempt[Act].policy /\ actAttempt'[Act].completed
      /\ \A a \in Acts \ {Act} : actAttempt'[a] = actAttempt[a]
  BY <1>1, <1>2, <1>3 DEF AttemptRecord
<1>6. Moved
  BY <1>1, <1>3, <1>5 DEF Moved, Go
<1> QED
  BY <1>1, <1>4, <1>6, MoveKeeps DEF TimelineInv, ConnectorTypeOK, Go

\* What is reported is what the steps before the report have left.
LEMMA ReportStep ==
  ASSUME TimelineInv, Report
  PROVE  TimelineInv'
<1>1. /\ outcome = "working" /\ script # <<>> /\ Head(script).kind = "report"
      /\ outcome' = IF job.template = "downgrade_start" THEN "waiting" ELSE "completed"
      /\ script' = <<>> /\ UNCHANGED <<job, browser, page, actAttempt, done>>
  BY DEF Report, Doing
<1>2. PICK H \in SUBSET StepRecord : LeftBy(H) /\ Follows(script, H, job.template)
  BY <1>1 DEF TimelineInv
<1>3. Fits(Head(script), H, job.template)
  BY <1>1, <1>2, RestFollows
<1>4. ConnectorTypeOK'
  BY <1>1 DEF TimelineInv, ConnectorTypeOK
<1>5. RecordedFirst' /\ CompletedWasDone' /\ LoggedInFirst'
  BY <1>1 DEF TimelineInv, TimelineIsTrue, RecordedFirst, CompletedWasDone, LoggedInFirst
<1>6. job.template \in Templates
  BY DEF TimelineInv, ConnectorTypeOK
<1>7. ReportIsBacked'
  <2>1. CASE job.template = "downgrade_start"
    <3>1. Did("record", "proposal") \in H /\ Did("interact", "submission") \notin H
      BY <2>1, <1>1, <1>3 DEF Fits
    <3>2. actAttempt["proposal"].policy = "require_approval" /\ "submission" \notin done
      BY <3>1, <1>2 DEF LeftBy, Acts, ActionOf
    <3> QED
      BY <2>1, <3>2, <1>1 DEF ReportIsBacked
  <2>2. CASE job.template # "downgrade_start"
    <3>1. Did("complete", EndOf[job.template]) \in H /\ EndOf[job.template] \in Acts
      BY <2>2, <1>1, <1>3, <1>6 DEF Fits, EndOf, Templates, Acts, ActionOf
    <3>2. actAttempt'[EndOf[job.template]].completed
      BY <3>1, <1>1, <1>2 DEF LeftBy
    <3>3. outcome' = "completed" /\ job' = job
      BY <2>2, <1>1
    <3>4. CASE job.template = "invoice_download"
      <4>1. actAttempt'["invoice"].completed
        BY <3>2, <3>4 DEF EndOf
      <4> QED
        BY <4>1, <3>3, <3>4 DEF ReportIsBacked
    <3>5. CASE job.template = "renewal_check"
      <4>1. actAttempt'["renewal"].completed
        BY <3>2, <3>5 DEF EndOf
      <4> QED
        BY <4>1, <3>3, <3>5 DEF ReportIsBacked
    <3>6. CASE job.template = "downgrade_resume"
      <4>1. actAttempt'["submission"].completed
        BY <3>2, <3>6 DEF EndOf
      <4> QED
        BY <4>1, <3>3, <3>6 DEF ReportIsBacked
    <3> QED
      BY <2>2, <3>4, <3>5, <3>6, <1>6 DEF Templates
  <2> QED
    BY <2>1, <2>2
<1> QED
  BY <1>1, <1>4, <1>5, <1>7 DEF TimelineInv, TimelineIsTrue

\* An error ends the callback where it stands, and only the policy denies.
LEMMA ThrowsStep ==
  ASSUME TimelineInv, Throws
  PROVE  TimelineInv'
<1>1. /\ outcome = "working" /\ script # <<>>
      /\ outcome' = "failed" \/ (outcome' = "denied" /\ Head(script).kind = "policy")
      /\ script' = <<>> /\ UNCHANGED <<job, page, actAttempt, done>>
      /\ browser' = "closed" \/ browser' = browser
  BY DEF Throws, IsPolicyDenial
<1>2. ConnectorTypeOK'
  BY <1>1 DEF TimelineInv, ConnectorTypeOK
<1>3. RecordedFirst' /\ CompletedWasDone' /\ LoggedInFirst'
  BY <1>1 DEF TimelineInv, TimelineIsTrue, RecordedFirst, CompletedWasDone, LoggedInFirst
<1>4. Head(script).kind = "policy" => done = {}
  BY <1>1, ActAtHand
<1>5. ReportIsBacked'
  BY <1>1, <1>4 DEF ReportIsBacked
<1> QED
  BY <1>1, <1>2, <1>3, <1>5 DEF TimelineInv, TimelineIsTrue

\* A callback begins with its script and without attempts.
LEMMA TimelineInit ==
  ASSUME ConnectorInit
  PROVE  TimelineInv
<1>1. PICK template \in Templates, type \in ConnectorTypes :
        /\ script = ScriptOf(template, Connector(type))
        /\ job = [template |-> template, connector |-> type]
  BY DEF ConnectorInit
<1>2. Follows(script, {}, job.template) /\ {} \in SUBSET StepRecord
  BY <1>1, ScriptFollows
<1>3. ConnectorTypeOK
  BY <1>1, <1>2 DEF ConnectorInit, ConnectorTypeOK, Follows, NoAttempt, AttemptRecord
<1>4. LeftBy({})
  BY DEF ConnectorInit, LeftBy, NoAttempt
<1>5. RecordedFirst /\ CompletedWasDone /\ LoggedInFirst /\ ReportIsBacked
  BY DEF ConnectorInit, RecordedFirst, CompletedWasDone, LoggedInFirst, ReportIsBacked, NoAttempt,
     Acts, ActionOf
<1> QED
  BY <1>2, <1>3, <1>4, <1>5 DEF TimelineInv, TimelineIsTrue

\* Every step of a callback keeps the invariant.
LEMMA TimelineStep ==
  ASSUME TimelineInv, [ConnectorNext]_connectorVars
  PROVE  TimelineInv'
<1>1. ASSUME NEW template \in Templates, NEW type \in ConnectorTypes, TakeJob(template, type)
      PROVE  TimelineInv'
  <2>1. Follows(script', {}, job'.template) /\ {} \in SUBSET StepRecord
    BY <1>1, ScriptFollows DEF TakeJob
  <2>2. ConnectorTypeOK'
    BY <1>1, <2>1 DEF TakeJob, ConnectorTypeOK, Follows, NoAttempt, AttemptRecord
  <2>3. LeftBy({})'
    BY <1>1 DEF TakeJob, LeftBy, NoAttempt
  <2>4. RecordedFirst' /\ CompletedWasDone' /\ LoggedInFirst' /\ ReportIsBacked'
    BY <1>1 DEF TakeJob, RecordedFirst, CompletedWasDone, LoggedInFirst, ReportIsBacked, NoAttempt,
       Acts, ActionOf
  <2> QED
    BY <2>1, <2>2, <2>3, <2>4 DEF TimelineInv, TimelineIsTrue
<1>2. CASE CloseContext
  BY <1>2 DEF CloseContext, TimelineInv, ConnectorTypeOK, TimelineIsTrue, RecordedFirst,
     CompletedWasDone, LoggedInFirst, ReportIsBacked, LeftBy
<1>3. CASE UNCHANGED connectorVars
  BY <1>3 DEF connectorVars, TimelineInv, ConnectorTypeOK, TimelineIsTrue, RecordedFirst,
     CompletedWasDone, LoggedInFirst, ReportIsBacked, LeftBy
<1> QED
  BY <1>1, <1>2, <1>3, LookStep, RecordStep, InteractStep, TotpStep, CompleteStep, ReportStep,
     ThrowsStep DEF ConnectorNext

\* Type correctness of the connectors: whatever step a callback is cut short at, the
\* rest of its script, its browser and its attempts are what the executor made them.
THEOREM ConnectorTyped == ConnectorSpec => []ConnectorTypeOK
<1>1. TimelineInv => ConnectorTypeOK
  BY DEF TimelineInv
<1> QED
  BY <1>1, TimelineInit, TimelineStep, PTL DEF ConnectorSpec

\* The timeline of a run tells the truth for every template and connector, wherever
\* a callback is cut short (ActionAttemptClient, the connectors and the executor).
THEOREM TimelineHolds == ConnectorSpec => []TimelineIsTrue
<1>1. TimelineInv => TimelineIsTrue
  BY DEF TimelineInv
<1> QED
  BY <1>1, TimelineInit, TimelineStep, PTL DEF ConnectorSpec
-----------------------------------------------------------------------------
(***************************************************************************)
(* The clients side by side: a behaviour of ApiClients is a behaviour of   *)
(* each client, the one that Init has chosen or one that stands still.     *)
(***************************************************************************)
LEMMA EachClient ==
  ClientsSpec => /\ Spec /\ ConnectorSpec /\ UploadsSpec /\ EngineSpec /\ LimitSpec
                 /\ BrowserSpec /\ DashboardSpec
<1>1. ClientsInit => /\ Init /\ ConnectorInit /\ UploadsInit /\ EngineInit /\ LimitInit
                     /\ BrowserInit /\ DashboardInit
  BY DEF ClientsInit
<1>2. [ClientsNext]_clientsVars =>
        /\ [Next]_vars /\ [ConnectorNext]_connectorVars /\ [UploadsNext]_uploadsVars
        /\ [EngineNext]_engineVars /\ [LimitNext]_limitVars /\ [BrowserNext]_browserVars
        /\ [DashboardNext]_dashboardVars
  BY DEF ClientsNext, clientsVars
<1> QED
  BY <1>1, <1>2, PTL DEF ClientsSpec, Spec, ConnectorSpec, UploadsSpec, EngineSpec, LimitSpec,
     BrowserSpec, DashboardSpec

\* Type correctness of what the clients keep.
THEOREM ClientsTyped == ClientsSpec => []ClientsTypeOK
<1> DEFINE Chosen == topic \in Topics
<1>1. ClientsInit => Chosen
  BY DEF ClientsInit
<1>2. Chosen /\ [ClientsNext]_clientsVars => Chosen'
  BY DEF ClientsNext, clientsVars
<1>3. EngineSpec => []EngineTypeOK
  BY EngineInitTyped, EngineStepTyped, PTL DEF EngineSpec
<1>4. DashboardSpec => []DashboardTypeOK
  <2>1. Marked => DashboardTypeOK
    BY DEF Marked
  <2> QED
    BY <2>1, MarkedInit, MarkedStep, PTL DEF DashboardSpec
<1>5. /\ Chosen /\ TypeOK /\ ConnectorTypeOK /\ UploadsTypeOK /\ EngineTypeOK /\ LimitTypeOK
      /\ BrowserTypeOK /\ DashboardTypeOK
      => ClientsTypeOK
  BY DEF ClientsTypeOK
<1> HIDE DEF Chosen
<1>6. ClientsSpec => []Chosen
  BY <1>1, <1>2, PTL DEF ClientsSpec
<1> QED
  BY <1>3, <1>4, <1>5, <1>6, EachClient, TokensTyped, ConnectorTyped, UploadsTyped, LimitsTyped,
     SessionsTyped, PTL

\* What the clients may do, whichever of them a behaviour is about: a refusal has a
\* cause, a request acts on its own run, the limit is kept, the cookie holds no dead
\* session, a timeline tells the truth, a page shows its own writes, stricter policies
\* allow no more, an overrun of a quota ends the process, and signing out lasts.
THEOREM ClientsAreSafe ==
  ClientsSpec => /\ []RefusedOnlyIfDisturbed
                 /\ []LimitHolds
                 /\ []NoDeadCookie /\ SignOutLasts /\ LiveIsClearedOnlyIfOvertaken
                 /\ []TimelineIsTrue
                 /\ []OwnWritesAreShown
                 /\ DecisionsOnlyTighten
                 /\ OverrunEndsProcess
BY EachClient, RefusalsHaveACause, LimitIsKept, NoDeadSessionInCookie,
   SignOutIsNotUndone, LiveSessionStays, TimelineHolds, DashboardFollows,
   StricterPoliciesAllowNoMore, OverrunsEndTheProcess
=============================================================================
