------------------------------ MODULE AuditChain ------------------------------
(***************************************************************************)
(* The hash chain of the audit events of one organization.                 *)
(*   - AuditService.record reads the newest event and creates the next one *)
(*     behind a lock that is a chain of promises in the memory of one API  *)
(*     process;                                                            *)
(*   - SessionAuditService.record does the same for logins, refreshes and  *)
(*     logouts with no lock and with a serialisation of its own;           *)
(*   - verifyOrganizationChain walks the events by (createdAt, id).        *)
(* An event is named by the order of its creation, which stands for its    *)
(* hash; 0 stands for the null prevHash of the first event.                *)
(***************************************************************************)
EXTENDS Naturals, Sequences, FiniteSets

CONSTANTS Processes,     \* API processes
          Writers,       \* calls of AuditService.record in flight
          ProcessOf,     \* ProcessOf[w]: the process that serves call w
          Logins,        \* calls of SessionAuditService.record in flight
          MaxEvents,     \* bound: events of the organization
          MaxFaults      \* bound: refused database calls and process crashes

ASSUME AuditAssumption ==
  /\ ProcessOf \in [Writers -> Processes]
  /\ Writers \cap Logins = {}
  /\ MaxEvents \in Nat
  /\ MaxFaults \in Nat

VARIABLES events,    \* the rows, in the order (createdAt, id)
          latest,    \* how many of them share the newest createdAt
          ticked,    \* the clock has moved on since the newest createdAt
          lock,      \* lock[p]: the calls that hold or wait for the lock, in order
          call,      \* call[c]: where a call is, and the event it has read
          unordered, \* something no lock orders has been written: a login event, a second
                     \* event of one millisecond, or calls of two processes at once
          faults

vars == <<events, latest, ticked, lock, call, unordered, faults>>

Calls == Writers \cup Logins

Hash(e) == e.id
Event == [id: 1..MaxEvents, prev: 0..MaxEvents, stable: BOOLEAN]

Idle == [pc |-> "idle", prev |-> 0]
CallRecord == [pc: {"idle", "wait", "create"}, prev: 0..MaxEvents]

InLock(w) == {i \in 1..Len(lock[ProcessOf[w]]) : lock[ProcessOf[w]][i] = w}

\* Events stay within their bound, and a lock is queued for by exactly the
\* calls in flight, each of them once.
TypeOK ==
  /\ events \in Seq(Event) /\ Len(events) <= MaxEvents
  /\ latest \in 0..Len(events)
  /\ ticked \in BOOLEAN
  /\ lock \in [Processes -> Seq(Writers)]
  /\ call \in [Calls -> CallRecord]
  /\ unordered \in BOOLEAN
  /\ faults \in 0..MaxFaults
  /\ \A w \in Writers : Cardinality(InLock(w)) = IF call[w].pc = "idle" THEN 0 ELSE 1

Init ==
  /\ events = <<>> /\ latest = 0 /\ ticked = TRUE
  /\ lock = [p \in Processes |-> <<>>]
  /\ call = [c \in Calls |-> Idle]
  /\ unordered = FALSE
  /\ faults = 0

Goto(c, pc, prev) == call' = [call EXCEPT ![c] = [pc |-> pc, prev |-> prev]]

Fault == faults < MaxFaults /\ faults' = faults + 1
-----------------------------------------------------------------------------
\* The newest event by (createdAt, id); the session audit sorts by createdAt only.
LastHash == IF events = <<>> THEN 0 ELSE Hash(events[Len(events)])

NewestHashes ==
  IF events = <<>> THEN {0} ELSE {Hash(events[i]) : i \in (Len(events) - latest + 1)..Len(events)}

\* A row whose id is random lands anywhere among the rows of its millisecond.
Insert(e) ==
  /\ Len(events) < MaxEvents
  /\ \E i \in (IF ticked THEN Len(events) ELSE Len(events) - latest)..Len(events) :
       events' = SubSeq(events, 1, i) \o <<e>> \o SubSeq(events, i + 1, Len(events))
  /\ latest' = IF ticked THEN 1 ELSE latest + 1
  /\ ticked' = FALSE

New(prev, stable) == [id |-> Len(events) + 1, prev |-> prev, stable |-> stable]

Tick ==
  /\ ~ticked
  /\ ticked' = TRUE
  /\ UNCHANGED <<events, latest, lock, call, unordered, faults>>

Holds(w) == lock[ProcessOf[w]] # <<>> /\ Head(lock[ProcessOf[w]]) = w

Release(w) == lock' = [lock EXCEPT ![ProcessOf[w]] = Tail(@)]

\* withOrganizationLock: the call queues behind the promise of the one before.
Record(w) ==
  /\ call[w].pc = "idle"
  /\ lock' = [lock EXCEPT ![ProcessOf[w]] = Append(@, w)]
  /\ Goto(w, "wait", 0)
  /\ unordered' = (unordered \/ \E p \in Processes \ {ProcessOf[w]} : lock[p] # <<>>)
  /\ UNCHANGED <<events, latest, ticked, faults>>

\* Bug: the promise of the previous call is not awaited.
ReadUnlocked(w) ==
  /\ call[w].pc = "wait"
  /\ Goto(w, "create", LastHash)
  /\ UNCHANGED <<events, latest, ticked, lock, unordered, faults>>

\* recordLocked reads the newest event ...
ReadLatest(w) ==
  /\ call[w].pc = "wait" /\ Holds(w)
  /\ Goto(w, "create", LastHash)
  /\ UNCHANGED <<events, latest, ticked, lock, unordered, faults>>

\* ... and creates the one that follows it.
Create(w) ==
  /\ call[w].pc = "create"
  /\ Insert(New(call[w].prev, TRUE))
  /\ Release(w)
  /\ Goto(w, "idle", 0)
  /\ unordered' = (unordered \/ ~ticked)
  /\ UNCHANGED faults

\* Bug: a call that fails leaves the lock taken.
RecordFailsHolding(w) ==
  /\ call[w].pc # "idle" /\ Holds(w)
  /\ Fault
  /\ Goto(w, "idle", 0)
  /\ UNCHANGED <<events, latest, ticked, lock, unordered>>

\* The database refuses: the error leaves the call, and finally frees the lock.
RecordFails(w) ==
  /\ call[w].pc # "idle" /\ Holds(w)
  /\ Fault
  /\ Release(w)
  /\ Goto(w, "idle", 0)
  /\ UNCHANGED <<events, latest, ticked, unordered>>

\* A process dies with its calls and its locks.
Crash(p) ==
  /\ lock[p] # <<>>
  /\ Fault
  /\ lock' = [lock EXCEPT ![p] = <<>>]
  /\ call' = [c \in Calls |-> IF c \in Writers /\ ProcessOf[c] = p THEN Idle ELSE call[c]]
  /\ UNCHANGED <<events, latest, ticked, unordered>>

\* SessionAuditService.record: no lock, and the keys are hashed as they come.
LoginReads(s) ==
  /\ call[s].pc = "idle"
  /\ \E prev \in NewestHashes : Goto(s, "create", prev)
  /\ UNCHANGED <<events, latest, ticked, lock, unordered, faults>>

LoginCreates(s) ==
  /\ call[s].pc = "create"
  /\ Insert(New(call[s].prev, FALSE))
  /\ Goto(s, "idle", 0)
  /\ unordered' = TRUE
  /\ UNCHANGED <<lock, faults>>

WriterStep(w) == ReadLatest(w) \/ Create(w)

Next ==
  \/ Tick
  \/ \E w \in Writers : Record(w) \/ WriterStep(w) \/ RecordFails(w)
  \/ \E s \in Logins : LoginReads(s) \/ LoginCreates(s)
  \/ \E p \in Processes : Crash(p)

Spec == Init /\ [][Next]_vars

\* Time passes, and a call goes on once its turn has come.
FairSpec ==
  /\ Spec
  /\ WF_vars(Tick)
  /\ \A w \in Writers : WF_vars(WriterStep(w))
-----------------------------------------------------------------------------
\* verifyOrganizationChain: the first event whose prevHash is not the hash of
\* the event before, or whose own hash is not the one recomputed; 0 if none.
Breaks(i) ==
  \/ events[i].prev # (IF i = 1 THEN 0 ELSE Hash(events[i - 1]))
  \/ ~events[i].stable

\* Bug: the walk does not stop at the first broken event.
LastBroken ==
  IF \E i \in 1..Len(events) : Breaks(i)
  THEN CHOOSE i \in 1..Len(events) : Breaks(i) /\ \A k \in (i + 1)..Len(events) : ~Breaks(k)
  ELSE 0

FirstBroken ==
  IF \E i \in 1..Len(events) : Breaks(i)
  THEN CHOOSE i \in 1..Len(events) : Breaks(i) /\ \A k \in 1..(i - 1) : ~Breaks(k)
  ELSE 0

\* The verification finds nothing broken unless a login wrote to the chain, two
\* events share a millisecond or two processes wrote at once: however many calls
\* wait for the lock, fail or die between the read and the create
\* (withOrganizationLock, recordLocked).
ChainVerifies == ~unordered => FirstBroken = 0

\* The verification never changes its mind: what it has found broken stays the
\* first broken event whoever goes on writing, as long as the clock has moved
\* on since the newest event (createdAt orders the events).
BreakIsLasting ==
  [][ticked /\ FirstBroken # 0 => FirstBroken' = FirstBroken]_vars

\* A call that waits for the lock gets it, fails or dies with its process, as
\* long as the bound leaves room for its event: no error keeps the lock.
RecordSettles ==
  \A w \in Writers : call[w].pc = "wait" ~> call[w].pc = "idle" \/ Len(events) = MaxEvents

\* "Audit event hash chain verifies."
AlwaysVerifies == FirstBroken = 0
=============================================================================
