--------------------------- MODULE AuditChainProofs ---------------------------
(***************************************************************************)
(* The audit chain verifies for every number of events, calls, processes   *)
(* and faults, as long as nothing is written that no lock orders; its      *)
(* locks are queued for by the calls in flight; and what the verification  *)
(* finds broken stays the first broken event.                              *)
(***************************************************************************)
EXTENDS AuditChain, FiniteSetTheorems, WellFoundedInduction, TLAPS

Types ==
  /\ events \in Seq(Event)
  /\ lock \in [Processes -> Seq(Writers)]
  /\ latest \in 0..Len(events)
  /\ call \in [Calls -> CallRecord]

\* Only one process is writing at a time.
OneProcess == \A p, q \in Processes : lock[p] # <<>> /\ lock[q] # <<>> => p = q

\* Every event links to the one before, and the one call that has read the
\* newest event holds the lock and has read what is still the newest.
Linked ==
  /\ OneProcess
  /\ \A i \in 1..Len(events) : ~Breaks(i)
  /\ \A w \in Writers : call[w].pc = "create" => Holds(w) /\ call[w].prev = LastHash

ChainInv == ~unordered => Types /\ Linked

\* What Insert does once the clock has moved on: it appends.
LEMMA InsertAppends ==
  ASSUME events \in Seq(Event), NEW e \in Event, ticked, Insert(e)
  PROVE  /\ events' \in Seq(Event)
         /\ Len(events') = Len(events) + 1
         /\ \A i \in 1..Len(events) : events'[i] = events[i]
         /\ events'[Len(events) + 1] = e
<1>1. events' = SubSeq(events, 1, Len(events)) \o <<e>>
                 \o SubSeq(events, Len(events) + 1, Len(events))
  <2>1. Len(events) \in Nat
    OBVIOUS
  <2>2. (IF ticked THEN Len(events) ELSE Len(events) - latest) = Len(events)
    BY DEF Insert
  <2>3. PICK i \in Len(events)..Len(events) :
          events' = SubSeq(events, 1, i) \o <<e>> \o SubSeq(events, i + 1, Len(events))
    BY <2>2 DEF Insert
  <2>4. i = Len(events)
    BY <2>1
  <2> QED
    BY <2>3, <2>4
<1>2. SubSeq(events, 1, Len(events)) = events
  OBVIOUS
<1>3. SubSeq(events, Len(events) + 1, Len(events)) = <<>>
  OBVIOUS
<1>4. events' = events \o <<e>> \o <<>>
  BY <1>1, <1>2, <1>3
<1>5. events' = Append(events, e)
  BY <1>4
<1> QED
  BY <1>5

\* A new event that follows the newest one links to it.
LEMMA AppendLinks ==
  ASSUME Types, ticked, \A i \in 1..Len(events) : ~Breaks(i),
         NEW prev, prev = LastHash, New(prev, TRUE) \in Event, Insert(New(prev, TRUE))
  PROVE  /\ events' \in Seq(Event)
         /\ \A i \in 1..Len(events') : ~Breaks(i)'
<1> DEFINE e == New(prev, TRUE)
<1>1. /\ events' \in Seq(Event)
      /\ Len(events') = Len(events) + 1
      /\ \A i \in 1..Len(events) : events'[i] = events[i]
      /\ events'[Len(events) + 1] = e
  BY InsertAppends DEF Types
<1>2. Len(events) \in Nat
  BY DEF Types
<1>3. ASSUME NEW i \in 1..Len(events) PROVE ~Breaks(i)'
  BY <1>1, <1>2, <1>3 DEF Breaks, Hash
<1>4. ASSUME NEW n \in Nat, n = Len(events) + 1 PROVE ~Breaks(n)'
  <2>1. events'[n].prev = LastHash /\ events'[n].stable
    BY <1>1, <1>4 DEF New
  <2>2. CASE events = <<>>
    BY <1>4, <2>1, <2>2 DEF Breaks, LastHash
  <2>3. CASE events # <<>>
    <3>1. Len(events) # 0
      BY <2>3 DEF Types
    <3>2. events'[n - 1] = events[Len(events)]
      BY <1>1, <1>2, <1>4, <3>1
    <3> QED
      BY <1>2, <1>4, <2>1, <2>3, <3>1, <3>2 DEF Breaks, LastHash, Hash
  <2> QED
    BY <2>2, <2>3
<1>5. SUFFICES ASSUME NEW i \in 1..Len(events') PROVE ~Breaks(i)'
  BY <1>1
<1>6. i \in 1..Len(events) \/ i = Len(events) + 1
  BY <1>1, <1>2
<1> QED
  BY <1>2, <1>3, <1>4, <1>6

\* The row a writer creates is an event within the bound.
LEMMA NewIsEvent ==
  ASSUME Types, NEW w \in Writers, Insert(New(call[w].prev, TRUE))
  PROVE  New(call[w].prev, TRUE) \in Event
BY AuditAssumption DEF Types, New, Event, CallRecord, Calls, Insert, AuditAssumption

\* What a call may read as the newest hash.
LEMMA HashesAreTyped ==
  ASSUME Types
  PROVE  LastHash \in 0..MaxEvents /\ NewestHashes \subseteq 0..MaxEvents
<1>1. CASE events = <<>>
  BY <1>1, AuditAssumption DEF LastHash, NewestHashes, AuditAssumption
<1>2. CASE events # <<>>
  <2>1. Len(events) \in Nat \ {0}
    BY <1>2 DEF Types
  <2>2. \A i \in 1..Len(events) : Hash(events[i]) \in 0..MaxEvents
    <3>1. ASSUME NEW i \in 1..Len(events) PROVE events[i] \in Event
      BY DEF Types
    <3> QED
      BY <3>1, AuditAssumption DEF Hash, Event, AuditAssumption
  <2>3. (Len(events) - latest + 1)..Len(events) \subseteq 1..Len(events)
    BY <2>1 DEF Types
  <2> QED
    BY <1>2, <2>1, <2>2, <2>3 DEF LastHash, NewestHashes
<1> QED
  BY <1>1, <1>2

\* A call that joins the lock leaves its holder alone.
LEMMA HeadStays ==
  ASSUME Types, NEW w \in Writers, NEW p \in Processes, lock[p] # <<>>,
         lock' = [lock EXCEPT ![p] = Append(@, w)]
  PROVE  lock'[p] # <<>> /\ Head(lock'[p]) = Head(lock[p])
<1>1. lock[p] \in Seq(Writers) /\ lock'[p] = Append(lock[p], w)
  BY DEF Types
<1>2. Len(lock[p]) # 0 /\ Len(lock'[p]) = Len(lock[p]) + 1
  BY <1>1
<1>3. lock'[p][1] = lock[p][1]
  BY <1>1, <1>2
<1> QED
  BY <1>1, <1>2, <1>3

\* No second call is past its read while one holds the lock.
LEMMA OneHolder ==
  ASSUME Linked, NEW w \in Writers, Holds(w), NEW v \in Writers, v # w
  PROVE  call[v].pc # "create"
BY AuditAssumption DEF Linked, OneProcess, Holds, AuditAssumption

\* Releasing a lock adds no process to those that write.
LEMMA ReleaseKeepsOneProcess ==
  ASSUME Types, OneProcess, NEW w \in Writers, Holds(w), Release(w)
  PROVE  OneProcess'
BY AuditAssumption DEF Types, OneProcess, Holds, Release, AuditAssumption

LEMMA ChainInit == Init => ChainInv
<1> SUFFICES ASSUME Init PROVE Types /\ Linked
  BY DEF ChainInv
<1>1. events = <<>> /\ Len(events) = 0 /\ \A p \in Processes : lock[p] = <<>>
  BY DEF Init
<1>2. Types
  BY AuditAssumption DEF Init, Types, Idle, CallRecord, Calls, AuditAssumption
<1>3. Linked
  BY <1>1 DEF Init, Linked, OneProcess, Idle, Calls
<1> QED
  BY <1>2, <1>3

\* Every step keeps the types.
LEMMA TypesStep ==
  ASSUME Types, Linked, ~unordered', [Next]_vars
  PROVE  Types'
<1> USE AuditAssumption DEF AuditAssumption
<1>1. ASSUME NEW w \in Writers, Record(w) PROVE Types'
  BY <1>1 DEF Record, Goto, Types, Calls, CallRecord
<1>2. ASSUME NEW w \in Writers, ReadLatest(w) PROVE Types'
  BY <1>2, HashesAreTyped DEF ReadLatest, Goto, Types, Calls, CallRecord
<1>3. ASSUME NEW w \in Writers, Create(w) PROVE Types'
  <2>1. New(call[w].prev, TRUE) \in Event /\ ticked
    BY <1>3, NewIsEvent DEF Create
  <2>2. events' \in Seq(Event) /\ latest' \in 0..Len(events')
    <3>1. events' \in Seq(Event) /\ Len(events') = Len(events) + 1
      BY <1>3, <2>1, InsertAppends DEF Create, Types
    <3>2. latest' = 1
      BY <1>3, <2>1 DEF Create, Insert
    <3> QED
      BY <3>1, <3>2 DEF Types
  <2>3. lock' \in [Processes -> Seq(Writers)]
    BY <1>3 DEF Create, Release, Linked, Holds, Types
  <2> QED
    BY <1>3, <2>2, <2>3 DEF Create, Goto, Types, Calls, CallRecord
<1>4. ASSUME NEW w \in Writers, RecordFails(w) PROVE Types'
  BY <1>4 DEF RecordFails, Release, Holds, Goto, Types, Calls, CallRecord
<1>5. ASSUME NEW s \in Logins, LoginReads(s) PROVE Types'
  BY <1>5, HashesAreTyped DEF LoginReads, Goto, Types, Calls, CallRecord
<1>6. ASSUME NEW s \in Logins, LoginCreates(s) PROVE Types'
  BY <1>6 DEF LoginCreates
<1>7. ASSUME NEW p \in Processes, Crash(p) PROVE Types'
  BY <1>7 DEF Crash, Types, Calls, CallRecord, Idle
<1>8. CASE Tick \/ UNCHANGED vars
  BY <1>8 DEF Tick, vars, Types
<1> QED
  BY <1>1, <1>2, <1>3, <1>4, <1>5, <1>6, <1>7, <1>8 DEF Next, WriterStep

\* Every step keeps the links: a writer that has read holds the lock, so no
\* other event comes between its read and its create.
LEMMA LinkStep ==
  ASSUME Types, Linked, ~unordered', [Next]_vars
  PROVE  Linked'
<1> USE AuditAssumption DEF AuditAssumption
<1>1. ASSUME NEW w \in Writers, Record(w) PROVE Linked'
  <2>1. \A i \in 1..Len(events') : ~Breaks(i)'
    BY <1>1 DEF Record, Linked, Breaks
  <2>2. ASSUME NEW v \in Writers, call'[v].pc = "create"
        PROVE  Holds(v)' /\ call'[v].prev = LastHash'
    <3>1. v # w /\ call'[v] = call[v]
      BY <1>1, <2>2 DEF Record, Goto, Types, Calls
    <3>2. Holds(v) /\ call[v].prev = LastHash
      BY <2>2, <3>1 DEF Linked
    <3>3. ASSUME ProcessOf[v] = ProcessOf[w] PROVE Holds(v)'
      BY <1>1, <3>2, <3>3, HeadStays DEF Record, Holds
    <3>4. ASSUME ProcessOf[v] # ProcessOf[w] PROVE Holds(v)'
      BY <1>1, <3>2, <3>4 DEF Record, Holds, Types
    <3> QED
      <4>1. ProcessOf[v] = ProcessOf[w] \/ ProcessOf[v] # ProcessOf[w]
        OBVIOUS
      <4>2. LastHash' = LastHash
        BY <1>1 DEF Record, LastHash, Hash
      <4> QED
        BY <3>1, <3>2, <3>3, <3>4, <4>1, <4>2
  <2>3. OneProcess'
    <3>1. \A p \in Processes \ {ProcessOf[w]} : lock[p] = <<>>
      BY <1>1 DEF Record
    <3>2. \A p \in Processes \ {ProcessOf[w]} : lock'[p] = <<>>
      BY <1>1, <3>1 DEF Record, Types
    <3> QED
      BY <3>2 DEF OneProcess
  <2> QED
    BY <2>1, <2>2, <2>3 DEF Linked
<1>2. ASSUME NEW w \in Writers, ReadLatest(w) PROVE Linked'
  BY <1>2 DEF ReadLatest, Goto, Linked, OneProcess, Breaks, Holds, LastHash, Hash, Types, Calls
<1>3. ASSUME NEW w \in Writers, Create(w) PROVE Linked'
  <2>1. New(call[w].prev, TRUE) \in Event /\ ticked
    BY <1>3, NewIsEvent DEF Create
  <2>2. \A i \in 1..Len(events') : ~Breaks(i)'
    BY <1>3, <2>1, AppendLinks DEF Create, Linked
  <2>3. call[w].pc = "create" /\ Holds(w) /\ Release(w)
    BY <1>3 DEF Create, Linked
  <2>4. OneProcess'
    BY <2>3, ReleaseKeepsOneProcess DEF Linked
  <2>5. ASSUME NEW v \in Writers PROVE call'[v].pc # "create"
    <3>1. v # w => call[v].pc # "create"
      BY <2>3, OneHolder DEF Linked
    <3> QED
      BY <1>3, <3>1 DEF Create, Goto, Types, Calls
  <2> QED
    BY <2>2, <2>4, <2>5 DEF Linked
<1>4. ASSUME NEW w \in Writers, RecordFails(w) PROVE Linked'
  <2>1. Holds(w) /\ Release(w)
    BY <1>4 DEF RecordFails
  <2>2. OneProcess'
    BY <2>1, ReleaseKeepsOneProcess DEF Linked
  <2>3. ASSUME NEW v \in Writers PROVE call'[v].pc # "create"
    <3>1. v # w => call[v].pc # "create"
      BY <2>1, OneHolder DEF Linked
    <3> QED
      BY <1>4, <3>1 DEF RecordFails, Goto, Types, Calls
  <2> QED
    BY <1>4, <2>2, <2>3 DEF RecordFails, Linked, Breaks, Hash
<1>5. ASSUME NEW s \in Logins, LoginReads(s) PROVE Linked'
  <2>1. \A w \in Writers : call'[w] = call[w]
    BY <1>5 DEF LoginReads, Goto, Types, Calls
  <2> QED
    BY <1>5, <2>1 DEF LoginReads, Linked, OneProcess, Breaks, Holds, LastHash, Hash
<1>6. ASSUME NEW s \in Logins, LoginCreates(s) PROVE Linked'
  BY <1>6 DEF LoginCreates
<1>7. ASSUME NEW p \in Processes, Crash(p) PROVE Linked'
  <2>1. OneProcess'
    BY <1>7 DEF Crash, Linked, OneProcess, Types
  <2>2. ASSUME NEW v \in Writers PROVE call'[v].pc # "create"
    <3>1. call[v].pc = "create" => ProcessOf[v] = p
      BY <1>7 DEF Crash, Linked, OneProcess, Holds
    <3> QED
      BY <1>7, <3>1 DEF Crash, Idle, Calls
  <2> QED
    BY <1>7, <2>1, <2>2 DEF Crash, Linked, Breaks, Hash
<1>8. CASE Tick \/ UNCHANGED vars
  BY <1>8 DEF Tick, vars, Linked, OneProcess, Breaks, Holds, LastHash, Hash
<1> QED
  BY <1>1, <1>2, <1>3, <1>4, <1>5, <1>6, <1>7, <1>8 DEF Next, WriterStep

\* What has been found unordered stays so.
LEMMA UnorderedStays == [Next]_vars /\ ~unordered' => ~unordered
BY DEF Next, Tick, Record, WriterStep, ReadLatest, Create, RecordFails, LoginReads,
       LoginCreates, Crash, vars

\* The chain verifies whoever waits, fails or dies (withOrganizationLock,
\* recordLocked): ChainVerifies for any number of processes, calls and events.
THEOREM ChainAlwaysVerifies == Spec => []ChainVerifies
<1>1. ChainInv /\ [Next]_vars => ChainInv'
  BY UnorderedStays, TypesStep, LinkStep DEF ChainInv
<1>2. ChainInv => ChainVerifies
  BY DEF ChainInv, Linked, ChainVerifies, FirstBroken
<1> QED
  BY ChainInit, <1>1, <1>2, PTL DEF Spec
-----------------------------------------------------------------------------
\* Who waits for a lock is in its queue, once, and only there; who has read the
\* newest event is at its head.
Queued ==
  /\ \A p \in Processes : \A i \in 1..Len(lock[p]) :
       /\ ProcessOf[lock[p][i]] = p /\ call[lock[p][i]].pc # "idle"
       /\ \A j \in 1..Len(lock[p]) : lock[p][i] = lock[p][j] => i = j
  /\ \A w \in Writers : call[w].pc # "idle" =>
       \E i \in 1..Len(lock[ProcessOf[w]]) : lock[ProcessOf[w]][i] = w
  /\ \A w \in Writers : call[w].pc = "create" => Holds(w)

LockInv ==
  /\ Types /\ Len(events) <= MaxEvents
  /\ ticked \in BOOLEAN /\ unordered \in BOOLEAN /\ faults \in 0..MaxFaults
  /\ Queued

\* An insertion, wherever it lands, is of one event.
LEMMA InsertTyped ==
  ASSUME Types, ticked \in BOOLEAN, NEW e \in Event, Insert(e)
  PROVE  /\ events' \in Seq(Event) /\ Len(events') = Len(events) + 1
         /\ Len(events') <= MaxEvents /\ latest' \in 0..Len(events') /\ ticked' \in BOOLEAN
<1> USE AuditAssumption DEF AuditAssumption
<1>1. Len(events) \in Nat /\ latest \in 0..Len(events) /\ Len(events) < MaxEvents
  BY DEF Types, Insert
<1>2. PICK i \in (IF ticked THEN Len(events) ELSE Len(events) - latest)..Len(events) :
        events' = SubSeq(events, 1, i) \o <<e>> \o SubSeq(events, i + 1, Len(events))
  BY DEF Insert
<1>3. i \in 0..Len(events)
  BY <1>1, <1>2
<1> DEFINE before == SubSeq(events, 1, i)
           after == SubSeq(events, i + 1, Len(events))
<1>4. before \in Seq(Event) /\ Len(before) = i
  BY <1>1, <1>3 DEF Types
<1>5. after \in Seq(Event) /\ Len(after) = Len(events) - i
  <2>1. events \in Seq(Event) /\ i + 1 \in 1..(Len(events) + 1)
    BY <1>1, <1>3 DEF Types
  <2>2. after \in Seq(Event)
    BY <1>1, <1>3, <2>1
  <2>3. Len(after) = IF i + 1 <= Len(events) THEN Len(events) - (i + 1) + 1 ELSE 0
    BY <1>1, <1>3, <2>1
  <2> QED
    BY <1>1, <1>3, <2>2, <2>3
<1>6. before \o <<e>> \in Seq(Event) /\ Len(before \o <<e>>) = i + 1
  <2> HIDE DEF before
  <2> QED
    BY <1>3, <1>4
<1> DEFINE front == before \o <<e>>
<1>7. events' = front \o after
  BY <1>2
<1> HIDE DEF front, after
<1>8. events' \in Seq(Event) /\ Len(events') = Len(front) + Len(after)
  BY <1>5, <1>6, <1>7 DEF front
<1>9. Len(events') = Len(events) + 1
  BY <1>1, <1>3, <1>5, <1>6, <1>8 DEF front
<1>10. latest' = (IF ticked THEN 1 ELSE latest + 1) /\ ticked' = FALSE
  BY DEF Insert
<1>11. latest' \in 0..Len(events')
  <2> HIDE DEF Insert
  <2> QED
    BY <1>1, <1>9, <1>10
<1>12. Len(events') <= MaxEvents /\ ticked' \in BOOLEAN
  <2> HIDE DEF Insert
  <2>1. Len(events') <= MaxEvents
    BY <1>1, <1>9
  <2>2. ticked' \in BOOLEAN
    BY <1>10
  <2> QED
    BY <2>1, <2>2
<1> QED
  BY <1>8, <1>9, <1>11, <1>12

\* The holder leaves, and the others move up.
LEMMA ReleaseKeepsQueue ==
  ASSUME Types, Queued, NEW w \in Writers, Holds(w), Release(w), Goto(w, "idle", 0)
  PROVE  lock' \in [Processes -> Seq(Writers)] /\ Queued'
<1> USE AuditAssumption DEF AuditAssumption
<1> DEFINE P == ProcessOf[w]
<1>1. P \in Processes /\ lock[P] \in Seq(Writers) /\ lock[P] # <<>> /\ lock[P][1] = w
  BY DEF Types, Holds
<1>2. /\ lock'[P] = Tail(lock[P]) /\ \A p \in Processes \ {P} : lock'[p] = lock[p]
      /\ lock' \in [Processes -> Seq(Writers)]
  BY <1>1 DEF Types, Release
<1>3. Len(lock[P]) \in Nat \ {0} /\ Len(lock'[P]) = Len(lock[P]) - 1
  BY <1>1, <1>2
<1>4. \A i \in 1..Len(lock'[P]) : i + 1 \in 1..Len(lock[P]) /\ lock'[P][i] = lock[P][i + 1]
  BY <1>1, <1>2, <1>3
<1>5. \A c \in Calls \ {w} : call'[c] = call[c]
  BY DEF Goto, Types, Calls
<1>6. call'[w].pc = "idle"
  BY DEF Goto, Types, Calls
<1>7. ASSUME NEW p \in Processes, NEW i \in 1..Len(lock'[p])
      PROVE  /\ ProcessOf[lock'[p][i]] = p /\ call'[lock'[p][i]].pc # "idle"
             /\ \A j \in 1..Len(lock'[p]) : lock'[p][i] = lock'[p][j] => i = j
  <2>1. CASE p = P
    <3>1. 1 \in 1..Len(lock[P]) /\ i \in Nat /\ i >= 1
      BY <1>3, <1>7, <2>1
    <3>2. lock'[p][i] # w
      <4>1. lock'[p][i] = w => lock[P][i + 1] = lock[P][1]
        BY <1>1, <1>4, <1>7, <2>1
      <4>2. lock[P][i + 1] = lock[P][1] => i + 1 = 1
        BY <1>1, <1>4, <1>7, <2>1, <3>1 DEF Queued
      <4> QED
        BY <3>1, <4>1, <4>2
    <3>3. lock'[p][i] \in Writers
      BY <1>2, <1>7
    <3>4. call'[lock'[p][i]] = call[lock'[p][i]]
      BY <1>5, <3>2, <3>3 DEF Calls
    <3>5. ProcessOf[lock'[p][i]] = p /\ call[lock'[p][i]].pc # "idle"
      BY SMTT(40), <1>1, <1>4, <1>7, <2>1 DEF Queued
    <3>6. ASSUME NEW j \in 1..Len(lock'[p]), lock'[p][i] = lock'[p][j] PROVE i = j
      <4>1. lock[P][i + 1] = lock[P][j + 1] /\ i + 1 \in 1..Len(lock[P]) /\ j + 1 \in 1..Len(lock[P])
        BY <1>4, <1>7, <2>1, <3>6
      <4>2. i + 1 = j + 1
        BY <1>1, <4>1 DEF Queued
      <4> QED
        BY <1>3, <2>1, <3>6, <4>2
    <3> QED
      BY <3>4, <3>5, <3>6
  <2>2. CASE p # P
    <3>1. lock'[p] = lock[p]
      BY <1>2, <2>2
    <3>2. lock[p][i] # w /\ lock[p][i] \in Writers
      BY <1>7, <2>2, <3>1 DEF Queued, Types
    <3>3. call'[lock[p][i]] = call[lock[p][i]]
      BY <1>5, <3>2 DEF Calls
    <3> QED
      BY <1>7, <3>1, <3>3 DEF Queued
  <2> QED
    BY <2>1, <2>2
<1>8. ASSUME NEW v \in Writers, call'[v].pc # "idle"
      PROVE  \E i \in 1..Len(lock'[ProcessOf[v]]) : lock'[ProcessOf[v]][i] = v
  <2>1. v # w /\ call'[v] = call[v] /\ ProcessOf[v] \in Processes
    BY <1>5, <1>6, <1>8 DEF Calls
  <2>2. PICK i \in 1..Len(lock[ProcessOf[v]]) : lock[ProcessOf[v]][i] = v
    BY <1>8, <2>1 DEF Queued
  <2>3. CASE ProcessOf[v] = P
    <3>1. i # 1
      BY <1>1, <2>1, <2>2, <2>3
    <3>2. i - 1 \in 1..Len(lock'[P]) /\ i \in Nat
      BY <1>3, <2>2, <2>3, <3>1
    <3>3. lock'[P][i - 1] = lock[P][(i - 1) + 1] /\ (i - 1) + 1 = i
      BY <1>4, <3>2
    <3> QED
      BY <2>2, <2>3, <3>2, <3>3
  <2>4. CASE ProcessOf[v] # P
    BY <1>2, <2>1, <2>2, <2>4
  <2> QED
    BY <2>3, <2>4
<1>9. ASSUME NEW v \in Writers, call'[v].pc = "create" PROVE Holds(v)'
  <2>1. v # w /\ call[v].pc = "create" /\ ProcessOf[v] \in Processes
    BY <1>5, <1>6, <1>9 DEF Calls
  <2>2. Holds(v)
    BY <2>1 DEF Queued
  <2>3. ProcessOf[v] # P
    BY <2>1, <2>2 DEF Holds
  <2> QED
    BY <1>2, <2>1, <2>2, <2>3 DEF Holds
<1> HIDE DEF P
<1> QED
  BY <1>2, <1>7, <1>8, <1>9 DEF Queued

\* A step that leaves the locks alone and moves one call on.
LEMMA CallMovesOn ==
  ASSUME Types, Queued,
         NEW c \in Calls, NEW pc \in {"idle", "wait", "create"}, NEW prev \in 0..MaxEvents,
         Goto(c, pc, prev), UNCHANGED lock,
         c \in Writers => call[c].pc # "idle" /\ pc # "idle" /\ Holds(c)
  PROVE  call' \in [Calls -> CallRecord] /\ Queued'
<1>1. /\ call' \in [Calls -> CallRecord] /\ call'[c].pc = pc
      /\ \A d \in Calls \ {c} : call'[d] = call[d]
  BY DEF Goto, Types, CallRecord
<1>2. \A w \in Writers : call'[w].pc = "idle" <=> call[w].pc = "idle"
  BY <1>1 DEF Calls
<1>3. \A w \in Writers : Holds(w)' <=> Holds(w)
  BY DEF Holds
<1>4. \A p \in Processes : \A i \in 1..Len(lock[p]) : lock[p][i] \in Writers
  BY DEF Types
<1>5. \A w \in Writers : call'[w].pc = "create" => Holds(w)'
  BY <1>1, <1>3 DEF Queued, Calls
<1> QED
  BY <1>1, <1>2, <1>4, <1>5 DEF Queued

\* A call joins the queue of its process.
LEMMA RecordQueues ==
  ASSUME Types, Queued, NEW w \in Writers, Record(w)
  PROVE  lock' \in [Processes -> Seq(Writers)] /\ call' \in [Calls -> CallRecord] /\ Queued'
<1> USE AuditAssumption DEF AuditAssumption
<1> DEFINE P == ProcessOf[w]
<1>1. P \in Processes /\ lock[P] \in Seq(Writers) /\ Len(lock[P]) \in Nat
  BY DEF Types
<1>2. /\ lock'[P] = Append(lock[P], w) /\ \A p \in Processes \ {P} : lock'[p] = lock[p]
      /\ lock' \in [Processes -> Seq(Writers)]
  BY <1>1 DEF Types, Record
<1>3. /\ Len(lock'[P]) = Len(lock[P]) + 1 /\ lock'[P][Len(lock[P]) + 1] = w
      /\ \A i \in 1..Len(lock[P]) : lock'[P][i] = lock[P][i]
  BY <1>1, <1>2
<1>4. /\ call' \in [Calls -> CallRecord] /\ call'[w].pc = "wait" /\ call[w].pc = "idle"
      /\ \A c \in Calls \ {w} : call'[c] = call[c]
  BY DEF Record, Goto, Types, Calls, CallRecord
<1>5. \A p \in Processes : \A i \in 1..Len(lock[p]) : lock[p][i] \in Writers \ {w}
  BY <1>4 DEF Types, Queued
<1>6. ASSUME NEW p \in Processes, NEW i \in 1..Len(lock'[p])
      PROVE  /\ ProcessOf[lock'[p][i]] = p /\ call'[lock'[p][i]].pc # "idle"
             /\ \A j \in 1..Len(lock'[p]) : lock'[p][i] = lock'[p][j] => i = j
  <2>1. CASE p = P
    <3>1. ASSUME NEW k \in 1..Len(lock[P])
          PROVE  ProcessOf[lock'[P][k]] = P /\ call'[lock'[P][k]].pc # "idle" /\ lock'[P][k] # w
      BY <1>1, <1>3, <1>4, <1>5, <3>1 DEF Queued, Calls
    <3>2. i \in 1..Len(lock[P]) \/ i = Len(lock[P]) + 1
      BY <1>1, <1>3, <1>6, <2>1
    <3>3. ProcessOf[lock'[p][i]] = p /\ call'[lock'[p][i]].pc # "idle"
      BY <1>3, <1>4, <2>1, <3>1, <3>2
    <3>4. ASSUME NEW j \in 1..Len(lock'[p]), lock'[p][i] = lock'[p][j] PROVE i = j
      <4>1. j \in 1..Len(lock[P]) \/ j = Len(lock[P]) + 1
        BY <1>1, <1>3, <2>1, <3>4
      <4>2. ASSUME i \in 1..Len(lock[P]), j \in 1..Len(lock[P]) PROVE i = j
        BY <1>1, <1>3, <2>1, <3>4, <4>2 DEF Queued
      <4> QED
        BY <1>3, <2>1, <3>1, <3>2, <3>4, <4>1, <4>2
    <3> QED
      BY <3>3, <3>4
  <2>2. CASE p # P
    BY SMTT(40), <1>2, <1>4, <1>5, <1>6, <2>2 DEF Queued, Calls
  <2> QED
    BY <2>1, <2>2
<1>7. ASSUME NEW v \in Writers, call'[v].pc # "idle"
      PROVE  \E i \in 1..Len(lock'[ProcessOf[v]]) : lock'[ProcessOf[v]][i] = v
  <2>1. CASE v = w
    <3>1. Len(lock[P]) + 1 \in 1..Len(lock'[P])
      BY <1>1, <1>3
    <3> QED
      BY <1>3, <2>1, <3>1
  <2>2. CASE v # w
    <3>1. call[v].pc # "idle" /\ ProcessOf[v] \in Processes
      BY <1>4, <1>7, <2>2 DEF Calls
    <3>2. PICK i \in 1..Len(lock[ProcessOf[v]]) : lock[ProcessOf[v]][i] = v
      BY <3>1 DEF Queued
    <3>3. i \in 1..Len(lock'[ProcessOf[v]]) /\ lock'[ProcessOf[v]][i] = lock[ProcessOf[v]][i]
      <4>1. CASE ProcessOf[v] = P
        BY <1>1, <1>3, <3>2, <4>1
      <4>2. CASE ProcessOf[v] # P
        BY <1>2, <3>1, <3>2, <4>2
      <4> QED
        BY <4>1, <4>2
    <3> QED
      BY <3>2, <3>3
  <2> QED
    BY <2>1, <2>2
<1>8. ASSUME NEW v \in Writers, call'[v].pc = "create" PROVE Holds(v)'
  <2>1. Holds(v) /\ ProcessOf[v] \in Processes
    BY <1>4, <1>8 DEF Queued, Calls
  <2>2. lock'[ProcessOf[v]] # <<>> /\ Head(lock'[ProcessOf[v]]) = Head(lock[ProcessOf[v]])
    <3>1. CASE ProcessOf[v] = P
      BY <1>1, <2>1, <3>1, HeadStays DEF Record, Holds
    <3>2. CASE ProcessOf[v] # P
      BY <1>2, <2>1, <3>2 DEF Holds
    <3> QED
      BY <3>1, <3>2
  <2> QED
    BY <2>1, <2>2 DEF Holds
<1> HIDE DEF P
<1> QED
  BY <1>2, <1>4, <1>6, <1>7, <1>8 DEF Queued

\* The lock of a process that died is free, and its calls are gone.
LEMMA CrashFrees ==
  ASSUME Types, Queued, NEW q \in Processes, Crash(q)
  PROVE  lock' \in [Processes -> Seq(Writers)] /\ call' \in [Calls -> CallRecord] /\ Queued'
<1> USE AuditAssumption DEF AuditAssumption
<1>1. /\ lock'[q] = <<>> /\ \A p \in Processes \ {q} : lock'[p] = lock[p]
      /\ lock' \in [Processes -> Seq(Writers)]
  BY DEF Crash, Types
<1>2. call' \in [Calls -> CallRecord]
  BY DEF Crash, Types, CallRecord, Idle
<1>3. \A w \in Writers : call'[w] = IF ProcessOf[w] = q THEN Idle ELSE call[w]
  BY DEF Crash, Calls
<1>4. ASSUME NEW p \in Processes, NEW i \in 1..Len(lock'[p])
      PROVE  /\ ProcessOf[lock'[p][i]] = p /\ call'[lock'[p][i]].pc # "idle"
             /\ \A j \in 1..Len(lock'[p]) : lock'[p][i] = lock'[p][j] => i = j
  <2>1. p # q /\ lock'[p] = lock[p]
    BY <1>1, <1>4
  <2>2. lock[p][i] \in Writers /\ ProcessOf[lock[p][i]] = p
    BY <1>4, <2>1 DEF Types, Queued
  <2> QED
    BY <1>3, <1>4, <2>1, <2>2 DEF Queued
<1>5. ASSUME NEW v \in Writers, call'[v].pc # "idle"
      PROVE  /\ \E i \in 1..Len(lock'[ProcessOf[v]]) : lock'[ProcessOf[v]][i] = v
             /\ call'[v].pc = "create" => Holds(v)'
  <2>1. ProcessOf[v] # q /\ call'[v] = call[v]
    BY <1>3, <1>5 DEF Idle
  <2> QED
    BY <1>1, <1>5, <2>1 DEF Queued, Holds
<1> QED
  BY <1>1, <1>2, <1>4, <1>5 DEF Queued

\* Nobody is in a queue to begin with.
LEMMA LockInit == Init => LockInv
<1> SUFFICES ASSUME Init PROVE LockInv
  OBVIOUS
<1>1. events = <<>> /\ Len(events) = 0 /\ \A p \in Processes : lock[p] = <<>> /\ Len(lock[p]) = 0
  BY DEF Init
<1>2. Types
  BY AuditAssumption DEF Init, Types, Idle, CallRecord, Calls, AuditAssumption
<1>3. Queued
  BY <1>1 DEF Init, Queued, Idle, Calls
<1>4. Len(events) <= MaxEvents /\ faults \in 0..MaxFaults
  BY <1>1, AuditAssumption DEF Init, AuditAssumption
<1>5. ticked \in BOOLEAN /\ unordered \in BOOLEAN
  BY DEF Init
<1> QED
  BY <1>2, <1>3, <1>4, <1>5 DEF LockInv

\* Each step keeps the types and the queues.
LEMMA LockStep == LockInv /\ [Next]_vars => LockInv'
<1> SUFFICES ASSUME LockInv, [Next]_vars PROVE LockInv'
  OBVIOUS
<1> USE AuditAssumption DEF AuditAssumption
<1>1. ASSUME NEW w \in Writers, Record(w) PROVE LockInv'
  <2>1. lock' \in [Processes -> Seq(Writers)] /\ call' \in [Calls -> CallRecord] /\ Queued'
    BY <1>1, RecordQueues DEF LockInv
  <2> QED
    BY <1>1, <2>1 DEF Record, LockInv, Types
<1>2. ASSUME NEW w \in Writers, ReadLatest(w) PROVE LockInv'
  <2>1. call' \in [Calls -> CallRecord] /\ Queued'
    BY <1>2, HashesAreTyped, CallMovesOn DEF ReadLatest, LockInv, Calls
  <2> QED
    BY <1>2, <2>1 DEF ReadLatest, LockInv, Types
<1>3. ASSUME NEW w \in Writers, Create(w) PROVE LockInv'
  <2>1. New(call[w].prev, TRUE) \in Event
    BY <1>3, NewIsEvent DEF Create, LockInv
  <2>2. /\ events' \in Seq(Event) /\ Len(events') <= MaxEvents /\ latest' \in 0..Len(events')
        /\ ticked' \in BOOLEAN
    BY <1>3, <2>1, InsertTyped DEF Create, LockInv
  <2>3. Holds(w)
    BY <1>3 DEF Create, LockInv, Queued
  <2>4. lock' \in [Processes -> Seq(Writers)] /\ Queued'
    BY <1>3, <2>3, ReleaseKeepsQueue DEF Create, LockInv
  <2>5. call' \in [Calls -> CallRecord]
    BY <1>3 DEF Create, Goto, LockInv, Types, Calls, CallRecord
  <2>6. unordered' \in BOOLEAN /\ faults' = faults
    BY <1>3 DEF Create, LockInv
  <2> QED
    BY <2>2, <2>4, <2>5, <2>6 DEF LockInv, Types
<1>4. ASSUME NEW w \in Writers, RecordFails(w) PROVE LockInv'
  <2>1. lock' \in [Processes -> Seq(Writers)] /\ Queued'
    BY <1>4, ReleaseKeepsQueue DEF RecordFails, LockInv
  <2>2. call' \in [Calls -> CallRecord]
    BY <1>4 DEF RecordFails, Goto, LockInv, Types, Calls, CallRecord
  <2> QED
    BY <1>4, <2>1, <2>2 DEF RecordFails, Fault, LockInv, Types
<1>5. ASSUME NEW s \in Logins, LoginReads(s) PROVE LockInv'
  <2>1. PICK prev \in NewestHashes : Goto(s, "create", prev)
    BY <1>5 DEF LoginReads
  <2>2. prev \in 0..MaxEvents /\ s \in Calls /\ s \notin Writers
    BY <2>1, HashesAreTyped DEF LockInv, Calls
  <2>3. call' \in [Calls -> CallRecord] /\ Queued'
    BY <1>5, <2>1, <2>2, CallMovesOn DEF LoginReads, LockInv
  <2> QED
    BY <1>5, <2>3 DEF LoginReads, LockInv, Types
<1>6. ASSUME NEW s \in Logins, LoginCreates(s) PROVE LockInv'
  <2>1. New(call[s].prev, FALSE) \in Event
    BY <1>6 DEF LoginCreates, LockInv, Types, New, Event, CallRecord, Calls, Insert
  <2>2. /\ events' \in Seq(Event) /\ Len(events') <= MaxEvents /\ latest' \in 0..Len(events')
        /\ ticked' \in BOOLEAN
    BY <1>6, <2>1, InsertTyped DEF LoginCreates, LockInv
  <2>3. s \in Calls /\ s \notin Writers
    BY DEF Calls
  <2>4. call' \in [Calls -> CallRecord] /\ Queued'
    BY <1>6, <2>3, CallMovesOn DEF LoginCreates, LockInv
  <2>5. unordered' \in BOOLEAN /\ faults' = faults /\ lock' = lock
    BY <1>6 DEF LoginCreates
  <2> QED
    BY <2>2, <2>4, <2>5 DEF LockInv, Types
<1>7. ASSUME NEW p \in Processes, Crash(p) PROVE LockInv'
  <2>1. lock' \in [Processes -> Seq(Writers)] /\ call' \in [Calls -> CallRecord] /\ Queued'
    BY <1>7, CrashFrees DEF LockInv
  <2> QED
    BY <1>7, <2>1 DEF Crash, Fault, LockInv, Types
<1>8. CASE Tick \/ UNCHANGED vars
  BY ZenonT(60), <1>8 DEF Tick, vars, LockInv, Types, Queued, Holds
<1> QED
  BY <1>1, <1>2, <1>3, <1>4, <1>5, <1>6, <1>7, <1>8 DEF Next, WriterStep

\* TypeOK: each call in flight is in the queue of its process once, whatever fails.
THEOREM LocksAreQueued == Spec => []TypeOK
<1> USE AuditAssumption DEF AuditAssumption
<1>1. ASSUME LockInv, NEW w \in Writers
      PROVE  Cardinality(InLock(w)) = IF call[w].pc = "idle" THEN 0 ELSE 1
  <2>1. ProcessOf[w] \in Processes
    OBVIOUS
  <2>2. CASE call[w].pc = "idle"
    <3>1. InLock(w) = {}
      BY <1>1, <2>1, <2>2 DEF InLock, LockInv, Queued
    <3> QED
      BY <2>2, <3>1, FS_EmptySet
  <2>3. CASE call[w].pc # "idle"
    <3>1. PICK i \in 1..Len(lock[ProcessOf[w]]) : lock[ProcessOf[w]][i] = w
      BY <1>1, <2>3 DEF LockInv, Queued
    <3>2. InLock(w) = {i}
      BY <1>1, <2>1, <3>1 DEF InLock, LockInv, Queued
    <3> QED
      BY <2>3, <3>2, FS_Singleton
  <2> QED
    BY <2>2, <2>3
<1>2. LockInv => TypeOK
  BY <1>1 DEF LockInv, Types, TypeOK
<1> QED
  BY LockInit, LockStep, <1>2, PTL DEF Spec
-----------------------------------------------------------------------------
\* A set of positions has a first one.
LEMMA FirstOf ==
  ASSUME NEW n \in Nat, NEW B \in SUBSET (1..n), B # {}
  PROVE  \E i \in B : \A k \in B : ~(k < i)
<1> DEFINE upTo == {B \cap (1..i) : i \in B}
<1>1. IsWellFoundedOn(StrictSubsetOrdering(1..n), FiniteSubsetsOf(1..n))
  BY FS_StrictSubsetOrderingWellFounded
<1>2. upTo \subseteq FiniteSubsetsOf(1..n)
  BY FS_Interval, FS_FiniteSubsetsOfFinite
<1>3. upTo # {}
  OBVIOUS
<1>4. PICK x \in upTo : \A y \in upTo : ~(<<y, x>> \in StrictSubsetOrdering(1..n))
  <2> HIDE DEF upTo
  <2> QED
    BY <1>1, <1>2, <1>3, WFMin
<1>5. PICK i \in B : x = B \cap (1..i)
  OBVIOUS
<1>6. ASSUME NEW k \in B, k < i PROVE FALSE
  <2>1. B \cap (1..k) \subseteq x /\ i \in x /\ i \notin B \cap (1..k)
    BY <1>5, <1>6
  <2>2. B \cap (1..k) \in upTo /\ <<B \cap (1..k), x>> \in StrictSubsetOrdering(1..n)
    BY <1>5, <2>1 DEF StrictSubsetOrdering
  <2> QED
    BY <1>4, <2>2
<1> QED
  BY <1>5, <1>6

\* The first broken event is broken, and the ones before it are not.
LEMMA FirstIsFirst ==
  ASSUME Len(events) \in Nat, FirstBroken # 0
  PROVE  /\ FirstBroken \in 1..Len(events) /\ Breaks(FirstBroken)
         /\ \A k \in 1..(FirstBroken - 1) : ~Breaks(k)
<1> DEFINE B == {k \in 1..Len(events) : Breaks(k)}
<1>1. B \in SUBSET (1..Len(events)) /\ B # {}
  BY DEF FirstBroken
<1> HIDE DEF B
<1>2. PICK f \in B : \A k \in B : ~(k < f)
  BY <1>1, FirstOf
<1> USE DEF B
<1>3. f \in 1..Len(events) /\ Breaks(f) /\ \A k \in 1..(f - 1) : ~Breaks(k)
  BY <1>2
<1> QED
  BY <1>3, Zenon DEF FirstBroken

\* An event that is appended leaves the first broken one where it is.
LEMMA AppendKeepsFirst ==
  ASSUME LockInv, ticked, FirstBroken # 0, NEW e \in Event, Insert(e)
  PROVE  FirstBroken' = FirstBroken
<1>1. /\ events' \in Seq(Event) /\ Len(events) \in Nat /\ Len(events') = Len(events) + 1
      /\ \A i \in 1..Len(events) : events'[i] = events[i]
  BY InsertAppends DEF LockInv, Types
<1>2. \A i \in 1..Len(events) : Breaks(i)' <=> Breaks(i)
  BY <1>1 DEF Breaks, Hash
<1>3. /\ FirstBroken \in 1..Len(events) /\ Breaks(FirstBroken)
      /\ \A k \in 1..(FirstBroken - 1) : ~Breaks(k)
  BY <1>1, FirstIsFirst
<1>4. PICK f \in 1..Len(events) : f = FirstBroken
  BY <1>3
<1>5. f \in 1..Len(events') /\ \A k \in 1..(f - 1) : k \in 1..Len(events)
  BY <1>1
<1>6. Breaks(f)' /\ \A k \in 1..(f - 1) : ~Breaks(k)'
  BY <1>2, <1>3, <1>4, <1>5
<1>7. ASSUME NEW i \in 1..Len(events'), Breaks(i)', \A k \in 1..(i - 1) : ~Breaks(k)'
      PROVE  i = f
  <2>1. i \in 1..(f - 1) \/ f \in 1..(i - 1) \/ i = f
    BY <1>1
  <2> QED
    BY <1>6, <1>7, <2>1
<1>8. FirstBroken' = f
  BY <1>5, <1>6, <1>7, Zenon DEF FirstBroken
<1> QED
  BY <1>4, <1>8

\* Each step keeps what the verification has found.
LEMMA BreakStep ==
  ASSUME LockInv, [Next]_vars, ticked, FirstBroken # 0
  PROVE  FirstBroken' = FirstBroken
<1>1. ASSUME NEW w \in Writers, Create(w) PROVE FirstBroken' = FirstBroken
  BY <1>1, NewIsEvent, AppendKeepsFirst DEF Create, LockInv
<1>2. ASSUME NEW s \in Logins, LoginCreates(s) PROVE FirstBroken' = FirstBroken
  <2>1. New(call[s].prev, FALSE) \in Event
    BY <1>2, AuditAssumption
       DEF LoginCreates, LockInv, Types, New, Event, CallRecord, Calls, Insert, AuditAssumption
  <2> QED
    BY <1>2, <2>1, AppendKeepsFirst DEF LoginCreates
<1>3. CASE events' = events
  BY <1>3 DEF FirstBroken, Breaks, Hash
<1> QED
  BY <1>1, <1>2, <1>3
     DEF Next, WriterStep, Record, ReadLatest, RecordFails, LoginReads, Crash, Tick, vars

\* BreakIsLasting: a break, once found, is found again by every later
\* verification, however many calls, processes and failures follow it.
THEOREM BreaksLast == Spec => BreakIsLasting
<1>1. LockInv /\ [Next]_vars => [ticked /\ FirstBroken # 0 => FirstBroken' = FirstBroken]_vars
  BY BreakStep
<1> QED
  BY LockInit, LockStep, <1>1, PTL DEF Spec, BreakIsLasting
=============================================================================
