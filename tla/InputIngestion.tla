----------------------------- MODULE InputIngestion -----------------------------
(***************************************************************************)
(* How an attempt gets its input in the Azure composition: multipart       *)
(* uploads, direct uploads, and copies for retries, as concurrent API      *)
(* requests over BlobStorage.                                              *)
(*                                                                         *)
(* The control plane and the queue are reduced to what ingestion sees of   *)
(* them, a row per attempt and a job count; AnalysisExecution has both in  *)
(* full.  Any remote call may raise, before or after it took effect.       *)
(***************************************************************************)
EXTENDS BlobStorage, FiniteSets

CONSTANT MaxOrphans  \* bounds the scratch files that may be left behind

ASSUME OrphansAssumption == MaxOrphans \in Nat
ASSUME RequestsAssumption == IsFiniteSet(Request)

VARIABLES
    row,      \* run -> its attempt: status, recorded input checksum, first attempt
    jobs,      \* run -> jobs enqueued for it
    scratch,  \* files in the upload directory of the API
    orphans,  \* multipart requests that ended on an unexpected exception
    req       \* the local state of each API request

ingestionVars == <<storageVars, row, jobs, scratch, orphans, req>>

AttemptRow == [status : {"none", "queued", "succeeded", "failed"},
        input  : Footage \cup {0},
        origin : Run \cup {NoRun}]

NoRow == [status |-> "none", input |-> 0, origin |-> NoRun]

RequestPc == {"idle", "validate", "create", "put", "enqueue", "fail",
       "properties", "download", "tag", "attempt", "enqueueDirect",
       "source", "start", "poll", "abort", "delete", "verify"}

\* "held" is the checksum the request computed or expects.
RequestState == [pc     : RequestPc,
                 run    : Run \cup {NoRun},
                 source : Run \cup {NoRun},
                 held   : Footage \cup {0}]

NoRequest == [pc |-> "idle", run |-> NoRun, source |-> NoRun, held |-> 0]

IngestionInit ==
    /\ StorageInit
    /\ row     = [r \in Run |-> NoRow]
    /\ jobs     = [r \in Run |-> 0]
    /\ scratch = 0
    /\ orphans = 0
    /\ req     = [c \in Request |-> NoRequest]

IngestionTypeOK ==
    /\ StorageTypeOK
    /\ row \in [Run -> AttemptRow]
    /\ jobs \in [Run -> 0 .. 2]
    /\ scratch \in Nat
    /\ orphans \in 0 .. MaxOrphans
    /\ req \in [Request -> RequestState]

SetRequest(c, state) == req' = [req EXCEPT ![c] = state]

GoOn(c, pc) == SetRequest(c, [req[c] EXCEPT !.pc = pc])

IsAt(c, pc) == req[c].pc = pc

\* A remote call: it takes effect and the request goes on, or it raises, with the
\* effect or without it.
Call(c, effect, unchanged, pc, raised) ==
    \/ effect /\ GoOn(c, pc)
    \/ (effect \/ unchanged) /\ GoOn(c, raised)

SaveRow(r, status) == row' = [row EXCEPT ![r].status = status]

\* An id nobody has used.
Fresh(r) ==
    /\ row[r] = NoRow /\ grant[r] = "none" /\ ~blob[r].exists
    /\ \A c \in Request : req[c].run # r

NoFiles == UNCHANGED <<scratch, orphans>>

----------------------------------------------------------------------------
(* stream_upload, probe_video and create_analysis.                           *)

\* An upload that is empty, too large or broken off has its file removed.
StreamUpload(c, r) ==
    /\ IsAt(c, "idle")
    /\ Fresh(r)
    /\ \E content \in Footage :
          /\ Size[content] <= MaxBytes
          /\ SetRequest(c, [NoRequest EXCEPT !.pc = "validate", !.run = r, !.held = content])
    /\ scratch' = scratch + 1
    /\ UNCHANGED <<storageVars, row, jobs, orphans>>

RemoveScratch == scratch' = scratch - 1

\* Seeded fault: a rejected upload keeps its file.
KeepRejected(c) ==
    /\ IsAt(c, "validate")
    /\ GoOn(c, "create") \/ SetRequest(c, NoRequest)
    /\ UNCHANGED <<storageVars, row, jobs, scratch, orphans>>

\* The probe, the profile and the origin: a rejection removes the file.
ValidateUpload(c) ==
    /\ IsAt(c, "validate")
    /\ \/ GoOn(c, "create") /\ UNCHANGED scratch
       \/ SetRequest(c, NoRequest) /\ RemoveScratch
    /\ UNCHANGED <<storageVars, row, jobs, orphans>>

NewRow(r, checksum, origin) ==
    row' = [row EXCEPT ![r] = [status |-> "queued", input |-> checksum, origin |-> origin]]

\* An exception here passes every handler, so the file stays.
CreateAnalysis(c) ==
    LET self == req[c]
    IN  /\ IsAt(c, "create")
        /\ self.source = NoRun
        /\ \/ /\ NewRow(self.run, self.held, self.run)
              /\ GoOn(c, "put")
              /\ UNCHANGED orphans
           \/ /\ orphans < MaxOrphans
              /\ NewRow(self.run, self.held, self.run) \/ UNCHANGED row
              /\ SetRequest(c, NoRequest)
              /\ orphans' = orphans + 1
        /\ UNCHANGED <<storageVars, jobs, scratch>>

\* Seeded fault: the failure of an upload is not noticed.
SwallowUploadError(c) ==
    /\ IsAt(c, "put")
    /\ PutBlob(req[c].run, req[c].held) \/ UNCHANGED storageVars
    /\ GoOn(c, "enqueue")
    /\ UNCHANGED <<row, jobs>> /\ NoFiles

PutInputFile(c) ==
    LET self == req[c]
    IN  /\ IsAt(c, "put")
        /\ Call(c, PutBlob(self.run, self.held), UNCHANGED storageVars, "enqueue", "fail")
        /\ UNCHANGED <<row, jobs>> /\ NoFiles

\* Seeded fault: a retry removes a file as well, one of another request.
RemoveAlways(c) == SetRequest(c, NoRequest) /\ RemoveScratch /\ UNCHANGED orphans

\* The finally of create_analysis; retries and clones have no file.
Finished(c) ==
    /\ SetRequest(c, NoRequest)
    /\ IF req[c].source = NoRun THEN RemoveScratch ELSE UNCHANGED scratch
    /\ UNCHANGED orphans

EnqueueUpload(c) ==
    LET self == req[c]
        sent == jobs' = [jobs EXCEPT ![self.run] = @ + 1]
    IN  /\ IsAt(c, "enqueue")
        /\ \/ sent /\ Finished(c)
           \/ (sent \/ UNCHANGED jobs) /\ GoOn(c, "fail") /\ NoFiles
        /\ UNCHANGED <<storageVars, row>>

\* The handler saves the failure; the save is refused if the attempt is over.
FailAttempt(c) ==
    LET r == req[c].run
    IN  /\ IsAt(c, "fail")
        /\ \/ row[r].status = "queued" /\ SaveRow(r, "failed")
           \/ UNCHANGED row
        /\ Finished(c)
        /\ UNCHANGED <<storageVars, jobs>>

----------------------------------------------------------------------------
(* DirectUploadService.authorize and finalize.                               *)

Authorize(c, r) ==
    /\ IsAt(c, "idle")
    /\ Fresh(r)
    /\ AuthorizeUpload(r)
    /\ UNCHANGED <<row, jobs, req>> /\ NoFiles

\* The endpoint has checked the metadata, the profile and the origin.
Finalize(c, r) ==
    /\ IsAt(c, "idle")
    /\ grant[r] # "none"
    /\ SetRequest(c, [NoRequest EXCEPT !.pc = "properties", !.run = r])
    /\ UNCHANGED <<storageVars, row, jobs>> /\ NoFiles

CheckUpload(c) ==
    LET self == req[c]
    IN  /\ IsAt(c, "properties")
        /\ \/ AcceptableUpload(self.run) /\ ReadProperties(c, self.run) /\ GoOn(c, "download")
           \/ UNCHANGED storageVars /\ SetRequest(c, NoRequest)
        /\ UNCHANGED <<row, jobs>> /\ NoFiles

HashUpload(c) ==
    LET self == req[c]
    IN  /\ IsAt(c, "download")
        /\ \/ SetRequest(c, [self EXCEPT !.pc = "tag", !.held = blob[self.run].data])
           \/ SetRequest(c, NoRequest)
        /\ UNCHANGED <<storageVars, row, jobs>> /\ NoFiles

TagUpload(c) ==
    LET self == req[c]
        tagged == TagVersion(c, self.run, self.held)
    IN  /\ IsAt(c, "tag")
        /\ \/ tagged /\ GoOn(c, "attempt")
           \/ (tagged \/ UNCHANGED storageVars) /\ SetRequest(c, NoRequest)
        /\ UNCHANGED <<row, jobs>> /\ NoFiles

\* Seeded fault: a duplicate finalize enqueues as well.
AlwaysEnqueue(c) ==
    LET self == req[c]
    IN  /\ IsAt(c, "attempt")
        /\ \/ row[self.run] = NoRow /\ NewRow(self.run, self.held, self.run)
           \/ row[self.run] # NoRow /\ UNCHANGED row
        /\ GoOn(c, "enqueueDirect")
        /\ jobs[self.run] < 2
        /\ UNCHANGED <<storageVars, jobs>> /\ NoFiles

\* A duplicate finalize finds the attempt and returns it.
CreateFinalized(c) ==
    LET self == req[c]
        new  == NewRow(self.run, self.held, self.run)
    IN  /\ IsAt(c, "attempt")
        /\ IF row[self.run] = NoRow
           THEN \/ new /\ GoOn(c, "enqueueDirect")
                \/ (new \/ UNCHANGED row) /\ SetRequest(c, NoRequest)
           ELSE SetRequest(c, NoRequest) /\ UNCHANGED row
        /\ UNCHANGED <<storageVars, jobs>> /\ NoFiles

\* An enqueue that raises is not handled.
EnqueueFinalized(c) ==
    /\ IsAt(c, "enqueueDirect")
    /\ jobs' = [jobs EXCEPT ![req[c].run] = @ + 1] \/ UNCHANGED jobs
    /\ SetRequest(c, NoRequest)
    /\ UNCHANGED <<storageVars, row>> /\ NoFiles

----------------------------------------------------------------------------
(* retry and clone: create the attempt, then copy_input.                     *)

ReuseInput(c, from, r) ==
    /\ IsAt(c, "idle")
    /\ Fresh(r)
    /\ row[from] # NoRow
    /\ SetRequest(c, [NoRequest EXCEPT !.pc = "create", !.run = r, !.source = from])
    /\ UNCHANGED <<storageVars, row, jobs>> /\ NoFiles

CreateReuse(c) ==
    LET self == req[c]
        new  == NewRow(self.run, row[self.source].input, row[self.source].origin)
    IN  /\ IsAt(c, "create")
        /\ self.source # NoRun
        /\ \/ new /\ GoOn(c, "source")
           \/ (new \/ UNCHANGED row) /\ SetRequest(c, NoRequest)
        /\ UNCHANGED <<storageVars, jobs>> /\ NoFiles

ReadSourceBlob(c) ==
    LET self == req[c]
    IN  /\ IsAt(c, "source")
        /\ \/ /\ CopyableSource(self.source)
              /\ SetRequest(c, [self EXCEPT !.pc = "start", !.held = blob[self.source].tag])
           \/ GoOn(c, "fail")
        /\ UNCHANGED <<storageVars, row, jobs>> /\ NoFiles

StartCopyInput(c) ==
    LET self == req[c]
    IN  /\ IsAt(c, "start")
        /\ Call(c, StartCopy(self.source, self.run, self.held), UNCHANGED storageVars,
                "poll", "fail")
        /\ UNCHANGED <<row, jobs>> /\ NoFiles

\* The loop ends when the copy does, or at its deadline.
PollCopy(c) ==
    /\ IsAt(c, "poll")
    /\ \/ GoOn(c, CASE blob[req[c].run].copy = "success" -> "verify"
                    [] blob[req[c].run].copy = "pending" -> "abort"
                    [] OTHER -> "delete")
       \/ GoOn(c, "fail")
    /\ UNCHANGED <<storageVars, row, jobs>> /\ NoFiles

\* A copy that completed since the last poll makes abort raise: it stays.
AbortCopyInput(c) ==
    /\ IsAt(c, "abort")
    /\ Call(c, AbortCopy(req[c].run), UNCHANGED storageVars, "delete", "fail")
    /\ UNCHANGED <<row, jobs>> /\ NoFiles

DeleteCopy(c) ==
    /\ IsAt(c, "delete")
    /\ DeleteInput(req[c].run) \/ UNCHANGED storageVars
    /\ GoOn(c, "fail")
    /\ UNCHANGED <<row, jobs>> /\ NoFiles

VerifyCopy(c) ==
    LET self == req[c]
    IN  /\ IsAt(c, "verify")
        /\ \/ CopyVerified(self.run, self.held) /\ GoOn(c, "enqueue")
           \/ ~CopyVerified(self.run, self.held) /\ GoOn(c, "delete")
           \/ GoOn(c, "fail")
        /\ UNCHANGED <<storageVars, row, jobs>> /\ NoFiles

----------------------------------------------------------------------------

\* External: a worker executes a queued attempt that has a job.
Execute(r) ==
    /\ jobs[r] > 0
    /\ row[r].status = "queued"
    /\ \E status \in {"succeeded", "failed"} : SaveRow(r, status)
    /\ UNCHANGED <<storageVars, jobs, req>> /\ NoFiles

\* External: the browser and the storage service.
Environment ==
    /\ \E r \in Run :
          \/ \E content \in Footage : Upload(r, content)
          \/ ExpireGrant(r)
          \/ EndCopy(r, "success") \/ EndCopy(r, "failed")
    /\ UNCHANGED <<row, jobs, req>> /\ NoFiles

BeginRequest(c) ==
    \/ \E r \in Run : StreamUpload(c, r) \/ Authorize(c, r) \/ Finalize(c, r)
    \/ \E r, from \in Run : ReuseInput(c, from, r)

Continue(c) ==
    \/ ValidateUpload(c) \/ CreateAnalysis(c) \/ PutInputFile(c) \/ EnqueueUpload(c)
    \/ FailAttempt(c) \/ CheckUpload(c) \/ HashUpload(c) \/ TagUpload(c)
    \/ CreateFinalized(c) \/ EnqueueFinalized(c) \/ CreateReuse(c) \/ ReadSourceBlob(c)
    \/ StartCopyInput(c) \/ PollCopy(c) \/ AbortCopyInput(c) \/ DeleteCopy(c)
    \/ VerifyCopy(c)

IngestionNext ==
    \/ \E c \in Request : BeginRequest(c) \/ Continue(c)
    \/ \E r \in Run : Execute(r)
    \/ Environment

IngestionSpec == IngestionInit /\ [][IngestionNext]_ingestionVars

----------------------------------------------------------------------------
(* Properties.                                                               *)

\* Attempts whose input comes, through any number of retries, from a direct upload.
Direct(r) == row[r].origin \in Run /\ grant[row[r].origin] # "none"

\* A job is enqueued only for an input that is completely there, and, unless a browser
\* could still replace it, for the very bytes whose checksum the manifest records:
\* whatever copies time out, complete late, are aborted or deleted.
EnqueuedInputIsRecorded ==
    \A r \in Run : jobs[r] > 0 =>
        /\ Whole(r) /\ blob[r].data # 0
        /\ ~Direct(r) => blob[r].data = row[r].input

\* A checksum in the metadata of an uploaded object is that of its bytes, although the
\* browser may repeat its PUT between any two calls of finalize.
VerifiedTags ==
    \A r \in Run : blob[r].copy = "none" /\ blob[r].tag # 0 => blob[r].tag = blob[r].data

\* Finalizing twice, one after the other or at once, enqueues one job.
OneJobPerAttempt == \A r \in Run : jobs[r] <= 1

Multipart(c) == req[c].pc # "idle" /\ req[c].source = NoRun /\ ~\E r \in Run :
                    req[c].run = r /\ grant[r] # "none"

\* Every way out of a multipart request removes its scratch file, except an exception
\* between streaming and storing that is no validation error.
ScratchIsAccounted ==
    scratch = orphans + Cardinality({c \in Request : Multipart(c)})

=============================================================================
