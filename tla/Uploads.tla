-------------------------------- MODULE Uploads --------------------------------
(***************************************************************************)
(* Files that the worker uploads for its runs.  The handler starts the     *)
(* test of the quota and does not wait for it: two sums are read while the *)
(* upload goes on, and a test that fails throws where nobody catches it,   *)
(* which ends the API process (Node 22) with all it had in flight.  The    *)
(* container starts it again.                                              *)
(***************************************************************************)
EXTENDS Naturals, FiniteSetsExt

CONSTANTS WorkflowRuns,  \* runs of one organization
          Uploads,       \* uploads in flight at once
          NoRun,         \* no upload
          MaxUpload,     \* MAX_WORKER_UPLOAD_BYTES
          RunQuota,      \* MAX_RUN_UPLOAD_BYTES
          OrgQuota,      \* MAX_ORG_UPLOAD_BYTES
          MaxStored      \* bound: bytes of one run

ASSUME UploadsAssumption ==
  /\ {MaxUpload, RunQuota, OrgQuota, MaxStored} \subseteq Nat
  /\ IsFiniteSet(WorkflowRuns) /\ IsFiniteSet(Uploads) /\ NoRun \notin WorkflowRuns

VARIABLES stored,  \* stored[r]: bytes of the files rows of a run
          upload,  \* upload[c]: an upload, and its test of the quota
          running  \* the API process

uploadsVars == <<stored, upload, running>>

OrgUsage == MapThenSumSet(LAMBDA r : stored[r], WorkflowRuns)

MaxOrg == MaxStored * Cardinality(WorkflowRuns)

\* read: the sums the test has got; tested: the test has passed; over: the row took
\* the run or the organization over its quota; missed: another row was stored
\* between the reading of a sum and the row (the last two for the properties only).
UploadRecord ==
  [pc: {"idle", "put", "create", "done"}, run: WorkflowRuns \cup {NoRun}, bytes: 0..(MaxUpload + 1),
   read: SUBSET {"run", "org"}, runUsage: 0..MaxStored, orgUsage: 0..MaxOrg,
   tested: BOOLEAN, over: BOOLEAN, missed: BOOLEAN]

NoUpload == [pc |-> "idle", run |-> NoRun, bytes |-> 0, read |-> {}, runUsage |-> 0, orgUsage |-> 0,
             tested |-> FALSE, over |-> FALSE, missed |-> FALSE]

InFlight(r) == {c \in Uploads : upload[c].run = r /\ upload[c].pc \in {"put", "create"}}

\* Among the types: an upload in flight has a run, and fits under the bound.
UploadsTypeOK ==
  /\ stored \in [WorkflowRuns -> 0..MaxStored]
  /\ upload \in [Uploads -> UploadRecord]
  /\ running \in BOOLEAN
  /\ \A c \in Uploads : upload[c].pc # "idle" => running /\ upload[c].run \in WorkflowRuns

UploadsInit ==
  /\ stored = [r \in WorkflowRuns |-> 0]
  /\ upload = [c \in Uploads |-> NoUpload]
  /\ running = TRUE

\* An upload is forgotten when it is answered and its test is over.
Settled(u) == IF u.pc = "done" /\ u.tested THEN NoUpload ELSE u
-----------------------------------------------------------------------------
\* uploadScreenshot, uploadFile: the test is started, and decodeUpload refuses
\* what is too large.
UploadFile(c, r, n) ==
  /\ running /\ upload[c].pc = "idle"
  /\ stored[r] + n + MapThenSumSet(LAMBDA d : upload[d].bytes, InFlight(r)) <= MaxStored
  /\ upload' = [upload EXCEPT ![c] =
       [NoUpload EXCEPT !.pc = IF n > MaxUpload THEN "done" ELSE "put", !.run = r, !.bytes = n]]
  /\ UNCHANGED <<stored, running>>

\* assertUploadWithinQuota: the two aggregates, at the same time.
ReadRunUsage(c) ==
  /\ upload[c].pc # "idle" /\ "run" \notin upload[c].read
  /\ upload' = [upload EXCEPT ![c].read = @ \cup {"run"}, ![c].runUsage = stored[upload[c].run]]
  /\ UNCHANGED <<stored, running>>

ReadOrgUsage(c) ==
  /\ upload[c].pc # "idle" /\ "org" \notin upload[c].read
  /\ upload' = [upload EXCEPT ![c].read = @ \cup {"org"}, ![c].orgUsage = OrgUsage]
  /\ UNCHANGED <<stored, running>>

\* The process is gone, and what it was doing.
EndProcess ==
  /\ running' = FALSE
  /\ upload' = [c \in Uploads |-> NoUpload]
  /\ UNCHANGED stored

\* Bug: the bytes to come are not counted.
TestStoredOnly(c) ==
  LET u == upload[c]
  IN /\ u.read = {"run", "org"} /\ ~u.tested
     /\ IF u.runUsage > RunQuota \/ u.orgUsage > OrgQuota
        THEN EndProcess
        ELSE upload' = [upload EXCEPT ![c] = Settled([u EXCEPT !.tested = TRUE])]
             /\ UNCHANGED <<stored, running>>

AssertUploadWithinQuota(c) ==
  LET u == upload[c]
  IN /\ u.read = {"run", "org"} /\ ~u.tested
     /\ IF u.runUsage + u.bytes > RunQuota \/ u.orgUsage + u.bytes > OrgQuota
        THEN EndProcess
        ELSE upload' = [upload EXCEPT ![c] = Settled([u EXCEPT !.tested = TRUE])]
             /\ UNCHANGED <<stored, running>>

\* uploadBuffer: the object is put into the bucket before there is a row.
PutObject(c) ==
  /\ upload[c].pc = "put"
  /\ upload' = [upload EXCEPT ![c].pc = "create"]
  /\ UNCHANGED <<stored, running>>

CreateFileRecord(c) ==
  LET u == upload[c]
      total == stored[u.run] + u.bytes
  IN /\ u.pc = "create"
     /\ stored' = [stored EXCEPT ![u.run] = total]
     /\ upload' = [d \in Uploads |->
          IF d = c THEN Settled([u EXCEPT !.pc = "done",
                                          !.over = total > RunQuota \/ OrgUsage + u.bytes > OrgQuota])
          ELSE IF upload[d].pc \in {"put", "create"} /\ upload[d].read # {}
          THEN [upload[d] EXCEPT !.missed = TRUE] ELSE upload[d]]
     /\ UNCHANGED running

\* The bytes are not what they are said to be, or the bucket or the database fails.
UploadFails(c) ==
  /\ upload[c].pc \in {"put", "create"}
  /\ upload' = [upload EXCEPT ![c] = Settled([@ EXCEPT !.pc = "done"])]
  /\ UNCHANGED <<stored, running>>

\* The process dies of something else, an aggregate that fails among them.
ApiDies == running /\ EndProcess

\* The container starts it again.
ApiStarts == ~running /\ running' = TRUE /\ UNCHANGED <<stored, upload>>

UploadsNext ==
  \/ \E c \in Uploads :
       \/ \E r \in WorkflowRuns, n \in 1..(MaxUpload + 1) : UploadFile(c, r, n)
       \/ ReadRunUsage(c) \/ ReadOrgUsage(c) \/ AssertUploadWithinQuota(c)
       \/ PutObject(c) \/ CreateFileRecord(c) \/ UploadFails(c)
  \/ ApiDies \/ ApiStarts

UploadsSpec == UploadsInit /\ [][UploadsNext]_uploadsVars
-----------------------------------------------------------------------------
\* An upload that takes its run or organization over the quota is stored, and its
\* test ends the API process, at the latest after the answer, unless another row
\* was stored after the test had read a sum (assertUploadWithinQuota, not awaited).
OverrunEndsProcess ==
  [][\A c \in Uploads :
       LET last == upload[c].pc = "create" /\ upload'[c].pc = "idle"
       IN /\ upload[c].over /\ upload'[c].pc = "idle" => ~running' \/ upload[c].missed
          /\ last /\ running' /\ ~upload[c].missed =>
               stored'[upload[c].run] <= RunQuota /\ OrgUsage' <= OrgQuota]_uploadsVars
=============================================================================
