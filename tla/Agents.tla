--------------------------------- MODULE Agents ---------------------------------
(***************************************************************************)
(* The status of agents and their policies.  AgentsService and             *)
(* PoliciesService test what they have read and then write by id; a call   *)
(* is stale once another one has written the agent it has found, or any    *)
(* policy after it has looked for an active bundle (or found its own       *)
(* policy, where there is nothing to look for).                            *)
(***************************************************************************)
EXTENDS Requests

CONSTANTS Agents, Policies  \* identities of rows

ASSUME AgentsAssumption == None \notin Agents \cup Policies

VARIABLES agent,     \* agent[a]: the status of an agent
          policy,    \* policy[p]: a row of policies
          agentCall  \* agentCall[c]: an API call

agentsVars == <<agent, policy, agentCall>>

AgentStatuses == {"active", "paused", "revoked"}

PolicyKinds == {"bundle", "other"}

\* inactive: draft or archived; kind: whether the type is AGENT_POLICY_BUNDLE;
\* agent: None for a policy of the organization.
PolicyRecord ==
  [status: {"absent", "active", "inactive"}, kind: PolicyKinds, agent: Agents \cup {None}]

NoPolicy == [status |-> "absent", kind |-> "other", agent |-> None]

\* pause, resume and revoke are about an agent, create and update about a policy.
AgentOps == {"pause", "resume", "revoke"}
PolicyOps == {"create", "update"}

\* What a column is set to, or that update leaves it alone.
Keep == "keep"

\* agent: whose status is set, or whom the policy is going to be about.
AgentCallRecord ==
  [pc: {"idle", "find", "check", "write"}, op: AgentOps \cup PolicyOps \cup {"none"},
   agent: Agents \cup {None}, policy: Policies \cup {None},
   status: {Keep, "active", "inactive"}, kind: PolicyKinds \cup {Keep}, stale: BOOLEAN]

NoAgentCall == [pc |-> "idle", op |-> "none", agent |-> None, policy |-> None,
                status |-> Keep, kind |-> Keep, stale |-> FALSE]

ActiveBundlesOf(a) ==
  {p \in Policies : policy[p].status = "active" /\ policy[p].kind = "bundle" /\ policy[p].agent = a}

\* Rows and calls have their types; a call in flight names its agent or policy.
AgentsTypeOK ==
  /\ agent \in [Agents -> AgentStatuses]
  /\ policy \in [Policies -> PolicyRecord]
  /\ agentCall \in [Calls -> AgentCallRecord]
  /\ \A c \in Calls : agentCall[c].pc # "idle" =>
       \/ agentCall[c].op \in AgentOps /\ agentCall[c].agent \in Agents
       \/ agentCall[c].op \in PolicyOps /\ agentCall[c].policy \in Policies

AgentsInit ==
  /\ agent = [a \in Agents |-> "active"]
  /\ policy = [p \in Policies |-> NoPolicy]
  /\ agentCall = [c \in Calls |-> NoAgentCall]

AgentCallAt(c, pc) == agentCall[c].pc = pc

AgentCallGoto(c, pc) == agentCall' = [agentCall EXCEPT ![c].pc = pc]

AgentCallRespond(c) == agentCall' = [agentCall EXCEPT ![c] = NoAgentCall]

\* The end of a call that has written what the calls of Concerns have read.
AgentWritten(c, Concerns(_)) ==
  agentCall' = [d \in Calls |->
    IF d = c THEN NoAgentCall
    ELSE IF agentCall[d].pc \in {"check", "write"} /\ Concerns(d)
    THEN [agentCall[d] EXCEPT !.stale = TRUE]
    ELSE agentCall[d]]
-----------------------------------------------------------------------------
RequestAgentStatus(c, op, a) ==
  /\ AgentCallAt(c, "idle") /\ op \in AgentOps
  /\ agentCall' = [agentCall EXCEPT ![c] =
       [NoAgentCall EXCEPT !.pc = "find", !.op = op, !.agent = a]]
  /\ UNCHANGED <<agent, policy>>

\* Bug: resume accepts every agent that is not active.
AnyInactiveMay(op, status) ==
  /\ op = "resume" => status # "active"
  /\ op # "resume" => status # "revoked"

\* AgentStatusService: assertCanPause, assertCanResume, assertCanRevoke.
May(op, status) ==
  /\ status # "revoked"
  /\ op = "resume" => status = "paused"

FindAgent(c) ==
  /\ AgentCallAt(c, "find") /\ agentCall[c].op \in AgentOps
  /\ IF May(agentCall[c].op, agent[agentCall[c].agent])
     THEN AgentCallGoto(c, "write")
     ELSE AgentCallRespond(c)
  /\ UNCHANGED <<agent, policy>>

SetStatus(c) ==
  LET a == agentCall[c].agent
      next == CASE agentCall[c].op = "pause" -> "paused"
                [] agentCall[c].op = "resume" -> "active"
                [] agentCall[c].op = "revoke" -> "revoked"
  IN /\ AgentCallAt(c, "write") /\ agentCall[c].op \in AgentOps
     /\ agent' = [agent EXCEPT ![a] = next]
     /\ UNCHANGED policy
     /\ AgentWritten(c, LAMBDA d : agentCall[d].op \in AgentOps /\ agentCall[d].agent = a)
-----------------------------------------------------------------------------
Or(new, old) == IF new = Keep THEN old ELSE new

\* Whether assertOneActiveBundle has anything to look for.
Claims(a, kind, status) == a # None /\ kind = "bundle" /\ status = "active"

CreatePolicy(c, p, a, kind, status) ==
  /\ AgentCallAt(c, "idle") /\ policy[p].status = "absent"
  /\ \A d \in Calls : agentCall[d].op = "create" => agentCall[d].policy # p
  /\ agentCall' = [agentCall EXCEPT ![c] =
       [pc |-> IF Claims(a, kind, status) THEN "check" ELSE "write", op |-> "create",
        agent |-> a, policy |-> p, status |-> status, kind |-> kind, stale |-> FALSE]]
  /\ UNCHANGED <<agent, policy>>

RequestPolicyUpdate(c, p) ==
  /\ AgentCallAt(c, "idle") /\ policy[p].status # "absent"
  /\ agentCall' = [agentCall EXCEPT ![c] =
       [NoAgentCall EXCEPT !.pc = "find", !.op = "update", !.policy = p]]
  /\ UNCHANGED <<agent, policy>>

\* The policy is going to be about a, its own agent or the one that is asked for.
FindPolicy(c, a, kind, status) ==
  LET row == policy[agentCall[c].policy]
  IN /\ AgentCallAt(c, "find") /\ agentCall[c].op = "update"
     /\ agentCall' = [agentCall EXCEPT
          ![c].pc = IF Claims(a, Or(kind, row.kind), Or(status, row.status)) THEN "check" ELSE "write",
          ![c].agent = a, ![c].kind = kind, ![c].status = status]
     /\ UNCHANGED <<agent, policy>>

\* Bug: only create looks for another bundle.
AssertOnCreate(c) ==
  /\ AgentCallAt(c, "check")
  /\ IF agentCall[c].op = "create" /\ ActiveBundlesOf(agentCall[c].agent) # {}
     THEN AgentCallRespond(c)
     ELSE agentCall' = [agentCall EXCEPT ![c].pc = "write", ![c].stale = FALSE]
  /\ UNCHANGED <<agent, policy>>

AssertOneActiveBundle(c) ==
  /\ AgentCallAt(c, "check")
  /\ IF ActiveBundlesOf(agentCall[c].agent) \ {agentCall[c].policy} # {}
     THEN AgentCallRespond(c)
     ELSE agentCall' = [agentCall EXCEPT ![c].pc = "write", ![c].stale = FALSE]
  /\ UNCHANGED <<agent, policy>>

\* update always writes the agent, the other columns where it was asked to.
WritePolicy(c) ==
  LET p == agentCall[c].policy
  IN /\ AgentCallAt(c, "write") /\ agentCall[c].op \in PolicyOps
     /\ policy' = [policy EXCEPT ![p] = [status |-> Or(agentCall[c].status, @.status),
                                         kind |-> Or(agentCall[c].kind, @.kind),
                                         agent |-> agentCall[c].agent]]
     /\ UNCHANGED agent
     /\ AgentWritten(c, LAMBDA d : agentCall[d].op \in PolicyOps)

AgentsNext ==
  \E c \in Calls :
    \/ \E op \in AgentOps, a \in Agents : RequestAgentStatus(c, op, a)
    \/ FindAgent(c) \/ SetStatus(c)
    \/ \E p \in Policies : RequestPolicyUpdate(c, p)
    \/ \E p \in Policies, a \in Agents \cup {None}, kind \in PolicyKinds,
          status \in {"active", "inactive"} : CreatePolicy(c, p, a, kind, status)
    \/ \E a \in Agents \cup {None}, kind \in PolicyKinds \cup {Keep},
          status \in {Keep, "active", "inactive"} : FindPolicy(c, a, kind, status)
    \/ AssertOneActiveBundle(c) \/ WritePolicy(c)

AgentsSpec == AgentsInit /\ [][AgentsNext]_agentsVars
-----------------------------------------------------------------------------
\* The call that has made the step is over.
AgentCallEnds(c) == ~AgentCallAt(c, "idle") /\ agentCall'[c].pc = "idle"

AgentCallEndsStale == \E c \in Calls : AgentCallEnds(c) /\ agentCall[c].stale

\* A revoked agent stays revoked, unless a call that found it before the
\* revocation writes after it (assertCanPause, assertCanResume).
RevokedStaysRevoked ==
  [][\A a \in Agents : agent[a] = "revoked" /\ agent'[a] # "revoked" => AgentCallEndsStale]_agentsVars

\* An agent gets a second active policy bundle only through a call that another
\* call on the policies has overtaken, however the calls create, move, activate
\* and retype policies (assertOneActiveBundle).
OneActiveBundle ==
  [][\A a \in Agents : \A p, q \in Policies :
       p # q /\ {p, q} \subseteq ActiveBundlesOf(a)' /\ ~({p, q} \subseteq ActiveBundlesOf(a))
         => AgentCallEndsStale]_agentsVars
=============================================================================
