-------------------------------- MODULE Dashboard --------------------------------
(***************************************************************************)
(* What a page of the dashboard shows after a change that was made on it.  *)
(* The page keeps the answer of a query (resource-queries.ts) in the cache *)
(* of TanStack Query, which reads it anew when it is told that it is no    *)
(* longer good; the mutations (mutations.ts) tell it, when they succeed,   *)
(* through the table `invalidation`.  One entry of the cache and a few     *)
(* mutations; the cache itself is external, and modelled from the options  *)
(* that the page gives it.                                                 *)
(***************************************************************************)
EXTENDS FiniteSets

CONSTANTS Mutations  \* calls of mutateAsync, each made once

VARIABLES view,      \* the query of the entry
          cached,    \* the entry
          load,      \* the request that fills it
          mutation,  \* mutation[m]: a call, and the tables it has still to write
          overtaken  \* mutations whose success a load ignored (for the properties only)

dashboardVars == <<view, cached, load, mutation, overtaken>>

Queries ==
  {"agents", "vendors", "credentials", "policies", "workflows", "workflowRuns", "approvals"}

\* The tables whose rows a query shows: those it fetches, and those that the API joins to
\* them.  The names of an agent and a vendor on a run or an approval, which nothing
\* invalidates when they change, are left out, and with them the runs on an approval.
Reads ==
  [agents       |-> {"agents"},
   vendors      |-> {"vendors"},
   credentials  |-> {"credentials", "vendors", "agents"},
   policies     |-> {"policies", "agents"},
   workflows    |-> {"workflows", "agents", "vendors"},
   workflowRuns |-> {"workflowRuns", "workflows", "approvals"},
   approvals    |-> {"approvals"}]

\* The tables that a mutation of a group changes in the API.
Writes ==
  [agents       |-> {"agents"},
   vendors      |-> {"vendors"},
   credentials  |-> {"credentials"},
   policies     |-> {"policies"},
   workflows    |-> {"workflows"},
   workflowRuns |-> {"workflowRuns"},
   approvals    |-> {"approvals", "workflowRuns"}]

\* Bug: a mutation invalidates its own list only.
OwnListOnly(group) == {group}

\* The keys that the success of a mutation of a group invalidates; a key covers its
\* lists, pages and details.
Invalidation(group) ==
  CASE group = "vendors" -> {"vendors", "workflows", "credentials"}
    [] group \in {"workflows", "approvals"} -> {group, "workflowRuns"}
    [] OTHER -> {group}

\* has: there is data; lacks: the mutations whose writes are not in it.
CachedRecord ==
  [has: BOOLEAN, error: BOOLEAN, invalid: BOOLEAN, mounted: BOOLEAN, lacks: SUBSET Mutations]
NoEntry == [has |-> FALSE, error |-> FALSE, invalid |-> FALSE, mounted |-> FALSE, lacks |-> {}]

\* unread: the tables it has not read; misses: the mutations that wrote behind it.
LoadRecord == [on: BOOLEAN, unread: SUBSET Queries, misses: SUBSET Mutations]
NoLoad == [on |-> FALSE, unread |-> {}, misses |-> {}]
NewLoad == [on |-> TRUE, unread |-> Reads[view], misses |-> {}]

\* unwritten: the tables the API has still to write; a call that is not made has no group.
MutationRecord ==
  [pc: {"none", "sent", "acked", "failed"}, group: Queries, unwritten: SUBSET Queries]
NoMutation == [pc |-> "none", group |-> "agents", unwritten |-> {}]

DashboardTypeOK ==
  /\ view \in Queries
  /\ cached \in CachedRecord
  /\ load \in LoadRecord /\ (load.on \/ load = NoLoad)
  /\ mutation \in [Mutations -> MutationRecord]
  /\ overtaken \subseteq Mutations
-----------------------------------------------------------------------------
DashboardInit ==
  /\ view \in Queries
  /\ cached = NoEntry
  /\ load = NoLoad
  /\ mutation = [m \in Mutations |-> NoMutation]
  /\ overtaken = {}

\* A component that uses the query appears.  It joins a load; it starts one if there is
\* no data or the data is invalid, and when the data is older than staleTime.
Mount ==
  /\ ~cached.mounted
  /\ cached' = [cached EXCEPT !.mounted = TRUE, !.error = @ /\ cached.has]
  /\ IF load.on THEN UNCHANGED load
     ELSE \/ load' = NewLoad
          \/ cached.has /\ ~cached.invalid /\ UNCHANGED load
  /\ UNCHANGED <<view, mutation, overtaken>>

\* The load goes on: the query functions do not take the signal that would abort it.
Unmount ==
  /\ cached.mounted
  /\ cached' = [cached EXCEPT !.mounted = FALSE]
  /\ UNCHANGED <<view, load, mutation, overtaken>>

\* The API reads one of the tables (several requests, or the relations of one).
ReadTable(t) ==
  /\ t \in load.unread
  /\ load' = [load EXCEPT !.unread = @ \ {t}]
  /\ UNCHANGED <<view, cached, mutation, overtaken>>

\* The answers are in: whatever was invalid before is taken for good.
LoadSucceeds ==
  /\ load.on /\ load.unread = {}
  /\ cached' = [has |-> TRUE, error |-> FALSE, invalid |-> FALSE, mounted |-> cached.mounted,
                lacks |-> load.misses]
  /\ load' = NoLoad
  /\ UNCHANGED <<view, mutation, overtaken>>

\* A request fails: the query function runs again while a component waits for it (retry:
\* at most twice, never after a 4xx), or the entry takes the error.
LoadFails ==
  /\ load.on
  /\ \/ /\ cached.mounted
        /\ load' = NewLoad
        /\ UNCHANGED cached
     \/ /\ cached' = [cached EXCEPT !.error = TRUE, !.invalid = cached.has]
        /\ load' = NoLoad
  /\ UNCHANGED <<view, mutation, overtaken>>

\* refetchInterval, a window that gets the focus, a network that is back.
Refetch ==
  /\ cached.mounted /\ ~load.on
  /\ load' = NewLoad
  /\ cached' = [cached EXCEPT !.error = @ /\ cached.has]
  /\ UNCHANGED <<view, mutation, overtaken>>

\* reload of the hooks (the Retry of a page): a load is started anew if there is data.
Reload ==
  /\ cached.mounted
  /\ load.on /\ cached.has
  /\ load' = NewLoad
  /\ UNCHANGED <<view, cached, mutation, overtaken>>

\* gcTime after the last component has gone.
Collect ==
  /\ ~cached.mounted /\ ~load.on /\ cached # NoEntry
  /\ cached' = NoEntry
  /\ UNCHANGED <<view, load, mutation, overtaken>>

\* mutateAsync, of a mutation that changes something the query shows.
Mutate(m, group) ==
  /\ mutation[m].pc = "none"
  /\ Writes[group] \cap Reads[view] # {}
  /\ mutation' = [mutation EXCEPT ![m] =
                    [pc |-> "sent", group |-> group, unwritten |-> Writes[group]]]
  /\ UNCHANGED <<view, cached, load, overtaken>>

\* The API writes one of the tables, whether or not the page still waits for it.
WriteTable(m, t) ==
  /\ t \in mutation[m].unwritten
  /\ mutation' = [mutation EXCEPT ![m].unwritten = @ \ {t}]
  /\ IF t \in Reads[view]
       THEN /\ load' = IF load.on /\ t \notin load.unread
                         THEN [load EXCEPT !.misses = @ \cup {m}] ELSE load
            /\ cached' = IF cached.has THEN [cached EXCEPT !.lacks = @ \cup {m}] ELSE cached
       ELSE UNCHANGED <<load, cached>>
  /\ UNCHANGED <<view, overtaken>>

\* onSuccess: the keys of the group are invalidated.  An entry on show is loaded anew;
\* its load is cancelled for that if there is data already, and joined if there is none.
MutationSucceeds(m) ==
  LET covered == view \in Invalidation(mutation[m].group)
      again == covered /\ cached.mounted /\ (load.on => cached.has)
  IN
  /\ mutation[m].pc = "sent" /\ mutation[m].unwritten = {}
  /\ mutation' = [mutation EXCEPT ![m].pc = "acked"]
  /\ load' = IF again THEN NewLoad ELSE load
  /\ cached' = IF covered
                 THEN [cached EXCEPT !.invalid = cached.has, !.error = @ /\ (again => cached.has)]
                 ELSE cached
  /\ overtaken' = IF covered /\ ~again /\ m \in load.misses THEN overtaken \cup {m} ELSE overtaken
  /\ UNCHANGED view

\* onError: a toast, and nothing is invalidated.  The API may have done all of it.
MutationFails(m) ==
  /\ mutation[m].pc = "sent"
  /\ mutation' = [mutation EXCEPT ![m].pc = "failed"]
  /\ UNCHANGED <<view, cached, load, overtaken>>

DashboardNext ==
  \/ Mount \/ Unmount \/ LoadSucceeds \/ LoadFails \/ Refetch \/ Reload \/ Collect
  \/ \E t \in Queries : ReadTable(t) \/ \E m \in Mutations : WriteTable(m, t)
  \/ \E m \in Mutations :
       \/ \E group \in Queries : Mutate(m, group)
       \/ MutationSucceeds(m)
       \/ MutationFails(m)

DashboardSpec == DashboardInit /\ [][DashboardNext]_dashboardVars
-----------------------------------------------------------------------------
\* The name of an agent on other lists, which the table does not follow: it is as fresh
\* as staleTime makes it.
NamesOnly(group) == IF group = "agents" THEN Queries \ {"agents"} ELSE {}

\* Once a mutation has been reported as done, data that lacks what it wrote is marked as
\* invalid, and while it is on show a load that will read the writes is on its way or the
\* error of one is shown.  Two exceptions are in the code: the name of an agent on other
\* lists (NamesOnly), and a load that had already passed the written rows and was not
\* restarted, because it was the first of its list or nobody looked (overtaken).
\* Whether the page was loading, failing, left or collected meanwhile changes nothing.
OwnWritesAreShown ==
  \A m \in cached.lacks :
    /\ mutation[m].pc = "acked"
    /\ view \notin NamesOnly(mutation[m].group)
    /\ m \notin overtaken
    => /\ cached.invalid
       /\ cached.mounted => cached.error \/ (load.on /\ m \notin load.misses)
=============================================================================
