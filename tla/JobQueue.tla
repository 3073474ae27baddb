------------------------------- MODULE JobQueue -------------------------------
(***************************************************************************)
(* The BullMQ queues between the API (WorkflowQueueService) and the worker *)
(* (WorkerQueueService), one record per deterministic job id.  A job that  *)
(* waits for its backoff ("delayed") is taken as waiting: removeStartJob   *)
(* and the worker treat the two alike.                                     *)
(*                                                                         *)
(* The queue delivers at least once.  A callback that throws uses up one   *)
(* of MaxAttempts attempts; a job whose worker died is handed out again    *)
(* until it has stalled more than MaxStalls times.                         *)
(***************************************************************************)
EXTENDS Naturals

CONSTANTS JobIds,       \* the job ids start-<run>, resume-<run>-<approval>, cancel-<run>
          MaxAttempts,  \* attempts of retryableJobOptions
          MaxStalls     \* maxStalledCount of a BullMQ worker

VARIABLE jobs

JobStates == {"absent", "waiting", "active", "completed", "failed"}

\* attempts and stalls: what an unfinished job has used up.
JobRecord == [state: JobStates, attempts: Nat, stalls: Nat]

Job(state) == [state |-> state, attempts |-> 0, stalls |-> 0]

NoJob == Job("absent")

QueueTypeOK == jobs \in [JobIds -> JobRecord]

QueueInit == jobs = [j \in JobIds |-> NoJob]
-----------------------------------------------------------------------------
\* addIdempotent: an id that Redis still knows is not added a second time.
AddIdempotent(j) ==
  jobs' = IF jobs[j].state = "absent" THEN [jobs EXCEPT ![j] = Job("waiting")] ELSE jobs

\* removeStartJob: only a job that no worker holds is removed.
RemoveWaiting(j) ==
  jobs' = IF jobs[j].state = "waiting" THEN [jobs EXCEPT ![j] = NoJob] ELSE jobs

Deliver(j) ==
  /\ jobs[j].state = "waiting"
  /\ jobs' = [jobs EXCEPT ![j].state = "active"]

Complete(j) == jobs' = [jobs EXCEPT ![j] = Job("completed")]

\* The callback threw: retried with backoff while attempts are left.
FailAttempt(j) ==
  IF jobs[j].attempts + 1 < MaxAttempts
  THEN jobs' = [jobs EXCEPT ![j].state = "waiting", ![j].attempts = @ + 1]
  ELSE jobs' = [jobs EXCEPT ![j] = Job("failed")]

\* Bug: a job that has stalled too often is neither retried nor given up.
StallAtMost(j) ==
  /\ jobs[j].stalls < MaxStalls
  /\ jobs' = [jobs EXCEPT ![j].state = "waiting", ![j].stalls = @ + 1]

\* The lock of a dead worker expired.
Stall(j) ==
  IF jobs[j].stalls < MaxStalls
  THEN jobs' = [jobs EXCEPT ![j].state = "waiting", ![j].stalls = @ + 1]
  ELSE jobs' = [jobs EXCEPT ![j] = Job("failed")]

\* removeOnComplete / removeOnFail: old finished jobs are dropped from Redis.
Forget(j) ==
  /\ jobs[j].state \in {"completed", "failed"}
  /\ jobs' = [jobs EXCEPT ![j] = NoJob]

=============================================================================
