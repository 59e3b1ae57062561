-------------------------- MODULE InputIngestionProofs --------------------------
(***************************************************************************)
(* The inputs of attempts, for every number of attempts, requests,         *)
(* uploads and contents: a job's input is the recorded one, a checksum is  *)
(* that of its bytes, and an attempt has one job.                          *)
(*                                                                         *)
(* The argument: a run id belongs to one multipart, retry or clone request *)
(* at a time, which is the only one to create its row, write or delete its *)
(* object and enqueue its job; or it has an upload grant, and then the     *)
(* first finalize to create the row is the one that enqueues.              *)
(***************************************************************************)
EXTENDS InputIngestion, FiniteSetTheorems, TLAPS

\* Where a request owns its run id, and where it finalizes an upload.
Copying    == {"source", "start", "poll", "abort", "delete", "verify"}
Owning     == {"validate", "create", "put", "enqueue", "fail"} \cup Copying
Finalizing == {"properties", "download", "tag", "attempt", "enqueueDirect"}

Known(r) == row[r].status # "none"

\* The input of an attempt is there, and what the manifest says.
Ready(r) ==
    /\ Known(r) /\ Whole(r) /\ blob[r].data # 0
    /\ ~Direct(r) => blob[r].data = row[r].input

\* What a retry or a clone relies on while it copies.
CopyOK(s) ==
    /\ s.source \in Run /\ Known(s.source) /\ Known(s.run)
    /\ row[s.run].input = row[s.source].input
    /\ row[s.run].origin = row[s.source].origin
    /\ (s.pc = "start" /\ ~Direct(s.source)) => s.held = row[s.source].input
    /\ s.pc \in {"start", "poll", "verify"} => s.held # 0

\* What a request that owns its run id relies on.
OwnerOK(s) ==
    /\ s.run \in Run /\ grant[s.run] = "none"
    /\ s.pc # "fail" => jobs[s.run] = 0
    /\ s.pc \in {"validate", "create"} => ~Known(s.run) /\ ~blob[s.run].exists
    /\ s.pc \in {"validate", "put"} => s.source = NoRun
    /\ (s.pc \in {"validate", "create", "put"} /\ s.source = NoRun) => s.held \in Footage
    /\ (s.pc = "create" /\ s.source # NoRun) => Known(s.source)
    /\ s.pc = "put" => Known(s.run) /\ row[s.run].input = s.held
    /\ s.pc \in Copying => CopyOK(s)
    /\ s.pc = "enqueue" => Ready(s.run)

\* What a finalize relies on.
FinalizerOK(c, s) ==
    /\ s.run \in Run /\ grant[s.run] # "none"
    /\ s.pc # "properties" => blob[s.run].exists
    /\ (s.pc = "tag" /\ c \in blob[s.run].readers) => s.held = blob[s.run].data
    /\ s.pc = "enqueueDirect" => Known(s.run) /\ jobs[s.run] = 0

RequestOK(c) ==
    /\ req[c].pc \in Owning     => OwnerOK(req[c])
    /\ req[c].pc \in Finalizing => FinalizerOK(c, req[c])

\* Nobody else works on the run id of an owner; one finalize at most enqueues.
Apart ==
    \A c, d \in Request :
        /\ req[c].run = req[d].run
        /\ \/ req[c].pc \in Owning /\ req[d].pc \in Owning
           \/ req[c].pc = "enqueueDirect" /\ req[d].pc = "enqueueDirect"
        => c = d

\* An unknown run has no job; the origin of an attempt is known.
RowOK(r) ==
    IF Known(r)
    THEN /\ row[r].origin \in Run /\ Known(row[r].origin)
         /\ grant[r] # "none" => row[r].origin = r
    ELSE row[r] = NoRow /\ jobs[r] = 0

\* Objects that browsers upload, and those that requests write.
BlobOK(r) ==
    blob[r].exists =>
        IF grant[r] # "none"
        THEN blob[r].copy = "none" /\ blob[r].data # 0
        ELSE /\ Known(r)
             /\ ~Direct(r) => /\ blob[r].tag = row[r].input
                              /\ blob[r].data \in {0, row[r].input}

JobOK(r) == jobs[r] \in {0, 1} /\ (jobs[r] = 1 => Ready(r))

TagOK(r) == blob[r].copy = "none" /\ blob[r].tag # 0 => blob[r].tag = blob[r].data

RunOK(r) == RowOK(r) /\ BlobOK(r) /\ JobOK(r) /\ TagOK(r)

Typed ==
    /\ StorageTypeOK
    /\ row \in [Run -> AttemptRow]
    /\ jobs \in [Run -> Nat]
    /\ req \in [Request -> RequestState]

IngestionInv ==
    /\ Typed
    /\ Apart
    /\ \A c \in Request : RequestOK(c)
    /\ \A r \in Run : RunOK(r)

----------------------------------------------------------------------------
(* What every step respects: rows keep their provenance, and a grant is given *)
(* to unknown runs only.                                                      *)

Keeps ==
    \A r \in Run :
        /\ Known(r) => /\ Known(r)'
                       /\ row'[r].input = row[r].input /\ row'[r].origin = row[r].origin
                       /\ grant'[r] = "none" <=> grant[r] = "none"

Elsewhere(r) ==
    \A q \in Run \ {r} :
        blob'[q] = blob[q] /\ row'[q] = row[q] /\ jobs'[q] = jobs[q] /\ grant'[q] = grant[q]

LEMMA DirectStays ==
    ASSUME IngestionInv, Keeps, NEW q \in Run, Known(q)
    PROVE  Direct(q)' <=> Direct(q)
  <1>1. row[q].origin \in Run /\ Known(row[q].origin)
    BY DEF IngestionInv, RunOK, RowOK
  <1>2. QED
    BY <1>1 DEF Keeps, Direct

LEMMA RunStays ==
    ASSUME IngestionInv, Keeps, NEW r \in Run, Elsewhere(r), NEW q \in Run, q # r
    PROVE  RunOK(q)'
  <1>0. RunOK(q) /\ blob'[q] = blob[q] /\ row'[q] = row[q] /\ jobs'[q] = jobs[q]
        /\ grant'[q] = grant[q]
    BY DEF IngestionInv, Elsewhere
  <1>a. Known(q) => (Direct(q)' <=> Direct(q))
    BY DirectStays
  <1>1. RowOK(q)'
    BY <1>0 DEF RunOK, RowOK, Known, Keeps
  <1>2. BlobOK(q)'
    BY <1>0, <1>a DEF RunOK, BlobOK, Known
  <1>3. JobOK(q)'
    BY <1>0, <1>a DEF RunOK, JobOK, Ready, Whole, Known
  <1>4. TagOK(q)'
    BY <1>0 DEF RunOK, TagOK
  <1>5. QED
    BY <1>1, <1>2, <1>3, <1>4 DEF RunOK

LEMMA RequestStays ==
    ASSUME IngestionInv, Keeps, NEW r \in Run, Elsewhere(r), NEW c \in Request,
           req[c].run # r, req'[c] = req[c]
    PROVE  RequestOK(c)'
  <1> DEFINE s == req[c]
  <1>0. RequestOK(c)
    BY DEF IngestionInv
  <1>1. CASE s.pc \in Owning
    <2>0. OwnerOK(s) /\ s.run \in Run
      BY <1>0, <1>1 DEF RequestOK, OwnerOK
    <2>1. /\ blob'[s.run] = blob[s.run] /\ row'[s.run] = row[s.run]
          /\ jobs'[s.run] = jobs[s.run] /\ grant'[s.run] = grant[s.run]
      BY <2>0 DEF Elsewhere
    <2>2. Known(s.run) => (Direct(s.run)' <=> Direct(s.run))
      BY <2>0, DirectStays
    <2>3. s.pc = "enqueue" => Ready(s.run)'
      BY <2>0, <2>1, <2>2 DEF OwnerOK, Ready, Whole, Known
    <2>4. s.pc \in Copying => CopyOK(s)'
      <3>1. SUFFICES ASSUME s.pc \in Copying PROVE CopyOK(s)'
        OBVIOUS
      <3>2. CopyOK(s)
        BY <2>0, <3>1 DEF OwnerOK
      <3>3. Direct(s.source)' <=> Direct(s.source)
        BY <3>2, DirectStays DEF CopyOK
      <3>4. QED
        BY <2>1, <3>2, <3>3 DEF CopyOK, Known, Keeps
    <2>5. s.source # NoRun => s.source \in Run
      BY DEF IngestionInv, Typed, RequestState
    <2>6. (s.pc = "create" /\ s.source # NoRun) => Known(s.source)'
      BY <2>0, <2>5 DEF OwnerOK, Keeps
    <2>7. OwnerOK(s)'
      BY <2>0, <2>1, <2>3, <2>4, <2>6 DEF OwnerOK, Known
    <2>8. QED
      BY <1>1, <2>7 DEF RequestOK, Owning, Copying, Finalizing
  <1>2. CASE s.pc \in Finalizing
    <2>1. FinalizerOK(c, s) /\ s.run \in Run
      BY <1>0, <1>2 DEF RequestOK, FinalizerOK
    <2>2. FinalizerOK(c, s)'
      BY <2>1 DEF FinalizerOK, Elsewhere, Known
    <2>3. QED
      BY <1>2, <2>2 DEF RequestOK, Owning, Copying, Finalizing
  <1>3. QED
    BY <1>1, <1>2 DEF RequestOK

\* A step at one run: what is left to show is what it does there.
LEMMA StepAt ==
    ASSUME IngestionInv, Keeps, NEW r \in Run, Elsewhere(r), Typed', Apart', RunOK(r)',
           \A c \in Request : (req'[c] = req[c] /\ req[c].run # r) \/ RequestOK(c)'
    PROVE  IngestionInv'
  BY RunStays, RequestStays DEF IngestionInv

----------------------------------------------------------------------------
(* The steps of a request that owns its run id.                              *)

Becomes(c, state) == req' = [req EXCEPT ![c] = state]

LEMMA OwnerState ==
    ASSUME IngestionInv, NEW c \in Request, req[c].pc \in Owning
    PROVE  /\ req[c] \in RequestState /\ req[c].run \in Run
           /\ OwnerOK(req[c]) /\ RunOK(req[c].run)
  BY DEF IngestionInv, Typed, RequestOK, OwnerOK

LEMMA OwnerStep ==
    ASSUME IngestionInv, NEW c \in Request, req[c].pc \in Owning,
           NEW r, req[c].run = r,
           NEW state \in RequestState, Becomes(c, state),
           state.run = r \/ state.pc = "idle", state.pc \notin Finalizing,
           Keeps, Elsewhere(r), Typed', RunOK(r)', RequestOK(c)'
    PROVE  IngestionInv'
  <1>0. r \in Run /\ OwnerOK(req[c]) /\ req[c] \in RequestState /\ req \in [Request -> RequestState]
    BY OwnerState DEF IngestionInv, Typed
  <1>1. \A d \in Request \ {c} : req'[d] = req[d]
    BY <1>0 DEF Becomes
  <1>2. req'[c] = state
    BY <1>0 DEF Becomes
  <1>3. Apart'
    <2>1. SUFFICES ASSUME NEW d \in Request, NEW e \in Request, (req[d].run = req[e].run)',
                          \/ (req[d].pc \in Owning /\ req[e].pc \in Owning)'
                          \/ (req[d].pc = "enqueueDirect" /\ req[e].pc = "enqueueDirect")'
                   PROVE  d = e
      BY DEF Apart
    <2>2. Apart
      BY DEF IngestionInv
    <2>3. state.pc # "enqueueDirect" /\ "idle" \notin Owning
      BY DEF Finalizing, Owning, Copying
    <2>4. QED
      BY <1>1, <1>2, <2>1, <2>2, <2>3 DEF Apart
  <1>4. ASSUME NEW d \in Request, d # c, req[d].run = r PROVE RequestOK(d)'
    <2>1. req[d].pc \notin Owning
      BY <1>4 DEF IngestionInv, Apart
    <2>2. req[d].pc \notin Finalizing
      BY <1>0, <1>4 DEF IngestionInv, RequestOK, FinalizerOK, OwnerOK
    <2>3. QED
      BY <1>1, <1>4, <2>1, <2>2 DEF RequestOK, Owning, Copying, Finalizing
  <1>5. \A d \in Request : (req'[d] = req[d] /\ req[d].run # r) \/ RequestOK(d)'
    BY <1>1, <1>4
  <1>6. QED
    BY <1>0, <1>3, <1>5, StepAt

LEMMA NothingElse ==
    ASSUME IngestionInv, UNCHANGED <<storageVars, row, jobs>>, NEW r
    PROVE  Keeps /\ Elsewhere(r) /\ (r \in Run => RunOK(r)')
  <1>1. Keeps /\ Elsewhere(r)
    BY DEF storageVars, Keeps, Elsewhere, Known
  <1>2. r \in Run => RunOK(r)'
    BY DEF storageVars, IngestionInv, RunOK, RowOK, BlobOK, JobOK, TagOK, Known, Ready,
           Whole, Direct
  <1>3. QED
    BY <1>1, <1>2

\* An owner that only reads.
LEMMA OwnerReads ==
    ASSUME IngestionInv, NEW c \in Request, req[c].pc \in Owning,
           NEW state \in RequestState, Becomes(c, state),
           state.run = req[c].run \/ state.pc = "idle", state.pc \notin Finalizing,
           state.pc \in Owning => OwnerOK(state),
           UNCHANGED <<storageVars, row, jobs>>
    PROVE  IngestionInv'
  <1>0. req \in [Request -> RequestState] /\ req[c].run \in Run
    BY OwnerState DEF IngestionInv, Typed
  <1>1. Typed'
    BY <1>0 DEF IngestionInv, Typed, storageVars, StorageTypeOK, Becomes
  <1>2. req'[c] = state
    BY <1>0 DEF Becomes
  <1>3. state.pc \in Owning => OwnerOK(req[c])'
    BY <1>2 DEF storageVars, OwnerOK, CopyOK, Ready, Known, Whole, Direct
  <1>4. RequestOK(c)'
    BY <1>2, <1>3 DEF RequestOK
  <1>5. PICK r \in Run : req[c].run = r
    BY <1>0
  <1>6. Keeps /\ Elsewhere(r) /\ RunOK(r)'
    BY NothingElse
  <1>7. QED
    BY <1>1, <1>4, <1>5, <1>6, OwnerStep

LEMMA Owns ==
    Owning = {"validate", "create", "put", "enqueue", "fail", "source", "start", "poll",
              "abort", "delete", "verify"}
  BY DEF Owning, Copying

LEMMA NoRequestTyped == NoRequest \in RequestState /\ NoRequest.pc = "idle"
  BY DEF NoRequest, RequestState, RequestPc

LEMMA ReadEnds ==
    ASSUME IngestionInv, NEW c \in Request, req[c].pc \in Owning, SetRequest(c, NoRequest),
           UNCHANGED <<storageVars, row, jobs>>
    PROVE  IngestionInv'
  BY NoRequestTyped, OwnerReads, Owns DEF SetRequest, Becomes, Finalizing

\* An owner moves on with what it knows.
LEMMA ReadGoes ==
    ASSUME IngestionInv, NEW c \in Request, req[c].pc \in Owning, NEW pc \in Owning,
           GoOn(c, pc), OwnerOK([req[c] EXCEPT !.pc = pc]),
           UNCHANGED <<storageVars, row, jobs>>
    PROVE  IngestionInv'
  <1> DEFINE state == [req[c] EXCEPT !.pc = pc]
  <1>1. state \in RequestState /\ state.run = req[c].run /\ state.pc = pc
    BY OwnerState, Owns DEF RequestState, RequestPc
  <1>2. Becomes(c, state) /\ pc \notin Finalizing
    BY Owns DEF GoOn, SetRequest, Becomes, Finalizing
  <1>3. QED
    BY <1>1, <1>2, OwnerReads

\* Any owner may come to fail.
LEMMA ReadFails ==
    ASSUME IngestionInv, NEW c \in Request, req[c].pc \in Owning, GoOn(c, "fail"),
           UNCHANGED <<storageVars, row, jobs>>
    PROVE  IngestionInv'
  <1>1. OwnerOK([req[c] EXCEPT !.pc = "fail"])
    BY OwnerState DEF OwnerOK, Copying, RequestState
  <1>2. QED
    BY <1>1, ReadGoes, Owns

LEMMA ValidateStep ==
    ASSUME IngestionInv, NEW c \in Request, ValidateUpload(c) PROVE IngestionInv'
  <1>0. req[c].pc \in Owning /\ OwnerOK(req[c]) /\ req[c] \in RequestState
    BY OwnerState, Owns DEF ValidateUpload, IsAt
  <1>1. OwnerOK([req[c] EXCEPT !.pc = "create"])
    BY <1>0 DEF ValidateUpload, IsAt, OwnerOK, Copying, RequestState
  <1>2. QED
    BY <1>0, <1>1, ReadGoes, ReadEnds, Owns DEF ValidateUpload, RemoveScratch

LEMMA ReadSourceStep ==
    ASSUME IngestionInv, NEW c \in Request, ReadSourceBlob(c) PROVE IngestionInv'
  <1> DEFINE state == [req[c] EXCEPT !.pc = "start", !.held = blob[req[c].source].tag]
  <1>0. req[c].pc \in Owning /\ OwnerOK(req[c]) /\ req[c] \in RequestState
        /\ UNCHANGED <<storageVars, row, jobs>> /\ req[c].pc = "source"
    BY OwnerState, Owns DEF ReadSourceBlob, IsAt
  <1>1. CASE CopyableSource(req[c].source) /\ SetRequest(c, state)
    <2>1. CopyOK(req[c])
      BY <1>0 DEF OwnerOK, Copying
    <2>2. blob[req[c].source].tag \in Footage \cup {0}
      BY <2>1 DEF CopyOK, IngestionInv, Typed, StorageTypeOK, Blob
    <2>3. state \in RequestState /\ state.pc = "start" /\ state.run = req[c].run
          /\ state.source = req[c].source /\ state.held = blob[req[c].source].tag
      BY <1>0, <2>2 DEF RequestState, RequestPc
    <2>4. BlobOK(req[c].source) /\ RowOK(req[c].source)
      BY <2>1 DEF CopyOK, IngestionInv, RunOK
    <2>5. CopyOK(state)
      BY <1>1, <2>1, <2>3, <2>4 DEF CopyOK, CopyableSource, BlobOK, RowOK, Direct
    <2>6. OwnerOK(state)
      BY <1>0, <2>3, <2>5 DEF OwnerOK, Copying
    <2>7. QED
      BY <1>0, <1>1, <2>3, <2>6, OwnerReads DEF SetRequest, Becomes, Finalizing
  <1>2. QED
    BY <1>0, <1>1, ReadFails DEF ReadSourceBlob

LEMMA PollStep ==
    ASSUME IngestionInv, NEW c \in Request, PollCopy(c) PROVE IngestionInv'
  <1>0. req[c].pc = "poll" /\ req[c].pc \in Owning /\ OwnerOK(req[c])
        /\ req[c] \in RequestState /\ UNCHANGED <<storageVars, row, jobs>>
    BY OwnerState, Owns DEF PollCopy, IsAt
  <1>1. ASSUME NEW pc \in {"verify", "abort", "delete"}
        PROVE  OwnerOK([req[c] EXCEPT !.pc = pc])
    <2>1. CopyOK(req[c])
      BY <1>0 DEF OwnerOK, Copying
    <2>2. CopyOK([req[c] EXCEPT !.pc = pc])
      BY <1>0, <2>1 DEF CopyOK, RequestState
    <2>3. QED
      BY <1>0, <2>2 DEF OwnerOK, Copying, RequestState
  <1>2. CASE GoOn(c, "fail")
    BY <1>0, <1>2, ReadFails
  <1>3. CASE GoOn(c, "verify") \/ GoOn(c, "abort") \/ GoOn(c, "delete")
    BY <1>0, <1>1, <1>3, ReadGoes, Owns
  <1>4. QED
    BY <1>2, <1>3 DEF PollCopy

LEMMA VerifyStep ==
    ASSUME IngestionInv, NEW c \in Request, VerifyCopy(c) PROVE IngestionInv'
  <1> DEFINE s == req[c]
  <1>0. s.pc = "verify" /\ s.pc \in Owning /\ OwnerOK(s) /\ CopyOK(s) /\ RunOK(s.run)
        /\ s \in RequestState /\ s.run \in Run /\ UNCHANGED <<storageVars, row, jobs>>
    BY OwnerState, Owns DEF VerifyCopy, IsAt, OwnerOK, Copying
  <1>1. ASSUME CopyVerified(s.run, s.held) PROVE OwnerOK([s EXCEPT !.pc = "enqueue"])
    <2>1. s.held # 0 /\ s.held \in Footage \cup {0}
      BY <1>0 DEF CopyOK, RequestState
    <2>2. blob[s.run].exists /\ StoredSize(s.run) = Size[s.held] /\ Size[s.held] # 0
      BY <1>1, <2>1, FootageAssumption DEF CopyVerified
    <2>3. Whole(s.run) /\ Size[blob[s.run].data] # 0
      BY <2>2 DEF StoredSize
    <2>4. blob[s.run].data # 0
      BY <2>3, FootageAssumption
    <2>5. Ready(s.run)
      BY <1>0, <2>2, <2>3, <2>4 DEF Ready, CopyOK, RunOK, BlobOK, OwnerOK
    <2>6. QED
      BY <1>0, <2>5 DEF OwnerOK, Copying, RequestState
  <1>2. OwnerOK([s EXCEPT !.pc = "delete"])
    <2>1. CopyOK([s EXCEPT !.pc = "delete"])
      BY <1>0 DEF CopyOK, RequestState
    <2>2. QED
      BY <1>0, <2>1 DEF OwnerOK, Copying, RequestState
  <1>3. QED
    BY <1>0, <1>1, <1>2, ReadGoes, ReadFails, Owns DEF VerifyCopy

\* An owner that writes, and goes on or ends.
SharedTyped == StorageTypeOK /\ row \in [Run -> AttemptRow] /\ jobs \in [Run -> Nat]

LEMMA OwnerGoes ==
    ASSUME IngestionInv, NEW c \in Request, req[c].pc \in Owning, NEW r, req[c].run = r,
           NEW pc \in Owning, GoOn(c, pc), Keeps, Elsewhere(r), SharedTyped', RunOK(r)',
           req'[c] = [req[c] EXCEPT !.pc = pc] => OwnerOK(req[c])'
    PROVE  IngestionInv'
  <1>0. PICK state \in RequestState : state = [req[c] EXCEPT !.pc = pc]
    BY OwnerState, Owns DEF RequestState, RequestPc
  <1>1. req \in [Request -> RequestState]
    BY DEF IngestionInv, Typed
  <1>2. Becomes(c, state) /\ req'[c] = state /\ state.pc = pc /\ state.run = r
    BY <1>0, <1>1, OwnerState DEF GoOn, SetRequest, Becomes, RequestState
  <1>3. Typed'
    BY <1>0, <1>1, <1>2 DEF Typed, SharedTyped, Becomes
  <1>4. pc \notin Finalizing
    BY Owns DEF Finalizing
  <1>5. RequestOK(c)'
    BY <1>0, <1>2, <1>4 DEF RequestOK
  <1>6. QED
    BY <1>2, <1>3, <1>4, <1>5, OwnerStep

LEMMA OwnerEnds ==
    ASSUME IngestionInv, NEW c \in Request, req[c].pc \in Owning, NEW r, req[c].run = r,
           SetRequest(c, NoRequest), Keeps, Elsewhere(r), SharedTyped', RunOK(r)'
    PROVE  IngestionInv'
  <1>1. req \in [Request -> RequestState]
    BY DEF IngestionInv, Typed
  <1>2. Becomes(c, NoRequest) /\ req'[c].pc = "idle"
    BY <1>1, NoRequestTyped DEF SetRequest, Becomes
  <1>3. Typed'
    BY <1>1, <1>2, NoRequestTyped DEF Typed, SharedTyped, Becomes
  <1>4. "idle" \notin Finalizing /\ "idle" \notin Owning
    BY Owns DEF Finalizing
  <1>5. RequestOK(c)'
    BY <1>2, <1>4 DEF RequestOK
  <1>6. QED
    BY <1>2, <1>3, <1>4, <1>5, NoRequestTyped, OwnerStep

\* What a store, a new row and a saved row change.
LEMMA StoreAt ==
    ASSUME IngestionInv, NEW r \in Run, NEW b \in Blob, Store(r, b), UNCHANGED <<row, jobs>>
    PROVE  /\ Keeps /\ Elsewhere(r) /\ SharedTyped'
           /\ blob'[r] = b
           /\ \A q \in Run : Direct(q)' <=> Direct(q)
  <1>1. blob \in [Run -> Blob] /\ SharedTyped
    BY DEF IngestionInv, Typed, SharedTyped, StorageTypeOK
  <1>2. QED
    BY <1>1 DEF Store, Keeps, Elsewhere, Known, SharedTyped, StorageTypeOK, Direct

LEMMA NewRowAt ==
    ASSUME IngestionInv, NEW r \in Run, ~Known(r), NEW checksum \in Footage \cup {0},
           NEW origin \in Run, NewRow(r, checksum, origin), UNCHANGED <<storageVars, jobs>>
    PROVE  /\ Keeps /\ Elsewhere(r) /\ SharedTyped'
           /\ row'[r] = [status |-> "queued", input |-> checksum, origin |-> origin]
           /\ Known(r)'
  <1>1. row \in [Run -> AttemptRow] /\ SharedTyped
    BY DEF IngestionInv, Typed, SharedTyped
  <1>2. [status |-> "queued", input |-> checksum, origin |-> origin] \in AttemptRow
    BY DEF AttemptRow
  <1>3. SharedTyped'
    BY <1>1, <1>2 DEF NewRow, SharedTyped, storageVars, StorageTypeOK
  <1>4. QED
    BY <1>1, <1>2, <1>3 DEF NewRow, Keeps, Elsewhere, Known, storageVars

LEMMA SaveRowAt ==
    ASSUME IngestionInv, NEW r \in Run, Known(r), NEW status \in {"succeeded", "failed"},
           SaveRow(r, status), UNCHANGED <<storageVars, jobs>>
    PROVE  Keeps /\ Elsewhere(r) /\ SharedTyped' /\ RunOK(r)'
  <1>1. row \in [Run -> AttemptRow] /\ SharedTyped /\ RunOK(r)
    BY DEF IngestionInv, Typed, SharedTyped
  <1>2. row' = [row EXCEPT ![r] = [row[r] EXCEPT !.status = status]]
        /\ [row[r] EXCEPT !.status = status] \in AttemptRow
    BY <1>1 DEF SaveRow, AttemptRow
  <1>3. SharedTyped'
    BY <1>1, <1>2 DEF SharedTyped, storageVars, StorageTypeOK
  <1>4. /\ \A q \in Run : row'[q].input = row[q].input /\ row'[q].origin = row[q].origin
        /\ \A q \in Run : Known(q) => Known(q)'
        /\ \A q \in Run \ {r} : row'[q] = row[q]
    BY <1>1, <1>2 DEF Known, AttemptRow
  <1>5. Keeps /\ Elsewhere(r)
    BY <1>4 DEF Keeps, Elsewhere, storageVars
  <1>6. Direct(r)' <=> Direct(r)
    BY <1>5, DirectStays
  <1>7. RowOK(r)' /\ BlobOK(r)' /\ JobOK(r)' /\ TagOK(r)'
    BY <1>1, <1>4, <1>6 DEF RunOK, RowOK, BlobOK, JobOK, TagOK, Ready, Whole, storageVars
  <1>8. QED
    BY <1>3, <1>5, <1>7 DEF RunOK

LEMMA CreateStep ==
    ASSUME IngestionInv, NEW c \in Request, CreateAnalysis(c) PROVE IngestionInv'
  <1>0. PICK r \in Run, held \in Footage :
           /\ req[c].run = r /\ req[c].held = held /\ req[c].source = NoRun
           /\ req[c].pc = "create" /\ req[c].pc \in Owning /\ OwnerOK(req[c])
           /\ req[c] \in RequestState /\ RunOK(r) /\ ~Known(r) /\ ~blob[r].exists
           /\ grant[r] = "none" /\ jobs[r] = 0 /\ UNCHANGED <<storageVars, jobs>>
    BY OwnerState, Owns DEF CreateAnalysis, IsAt, OwnerOK
  <1>1. ASSUME NewRow(r, held, r)
        PROVE  /\ Keeps /\ Elsewhere(r) /\ SharedTyped' /\ RunOK(r)' /\ Known(r)'
               /\ row'[r].input = held
    <2>1. /\ Keeps /\ Elsewhere(r) /\ SharedTyped' /\ Known(r)'
          /\ row'[r] = [status |-> "queued", input |-> held, origin |-> r]
      BY <1>0, <1>1, NewRowAt
    <2>2. RowOK(r)' /\ BlobOK(r)' /\ JobOK(r)' /\ TagOK(r)'
      BY <1>0, <2>1 DEF RunOK, RowOK, BlobOK, JobOK, TagOK, storageVars
    <2>3. QED
      BY <2>1, <2>2 DEF RunOK
  <1>2. CASE NewRow(r, held, r) /\ GoOn(c, "put")
    <2>1. req'[c] = [req[c] EXCEPT !.pc = "put"] => OwnerOK(req[c])'
      BY <1>0, <1>1, <1>2 DEF OwnerOK, Copying, RequestState, storageVars
    <2>2. QED
      BY <1>0, <1>1, <1>2, <2>1, OwnerGoes, Owns
  <1>3. CASE NewRow(r, held, r) /\ SetRequest(c, NoRequest)
    BY <1>0, <1>1, <1>3, OwnerEnds
  <1>4. CASE UNCHANGED row /\ SetRequest(c, NoRequest)
    BY <1>0, <1>4, ReadEnds
  <1>5. QED
    BY <1>0, <1>2, <1>3, <1>4 DEF CreateAnalysis

LEMMA CreateReuseStep ==
    ASSUME IngestionInv, NEW c \in Request, CreateReuse(c) PROVE IngestionInv'
  <1>0. PICK r \in Run, from \in Run :
           /\ req[c].run = r /\ req[c].source = from /\ Known(from)
           /\ req[c].pc = "create" /\ req[c].pc \in Owning /\ OwnerOK(req[c])
           /\ req[c] \in RequestState /\ RunOK(r) /\ ~Known(r) /\ ~blob[r].exists
           /\ grant[r] = "none" /\ jobs[r] = 0 /\ UNCHANGED <<storageVars, jobs>>
    BY OwnerState, Owns DEF CreateReuse, IsAt, OwnerOK, RequestState
  <1>1. PICK input \in Footage \cup {0}, origin \in Run :
           /\ row[from].input = input /\ row[from].origin = origin
           /\ Known(origin)
    BY <1>0 DEF IngestionInv, Typed, AttemptRow, RunOK, RowOK
  <1>2. ASSUME NewRow(r, input, origin)
        PROVE  /\ Keeps /\ Elsewhere(r) /\ SharedTyped' /\ RunOK(r)' /\ Known(r)'
               /\ row'[r].input = input /\ row'[r].origin = origin
    <2>1. /\ Keeps /\ Elsewhere(r) /\ SharedTyped' /\ Known(r)'
          /\ row'[r] = [status |-> "queued", input |-> input, origin |-> origin]
      BY <1>0, <1>2, NewRowAt
    <2>2. Known(origin)'
      BY <1>1, <2>1 DEF Keeps
    <2>3. RowOK(r)' /\ BlobOK(r)' /\ JobOK(r)' /\ TagOK(r)'
      BY <1>0, <2>1, <2>2 DEF RunOK, RowOK, BlobOK, JobOK, TagOK, storageVars
    <2>4. QED
      BY <2>1, <2>3 DEF RunOK
  <1>3. CASE NewRow(r, input, origin) /\ GoOn(c, "source")
    <2>1. row'[from].input = input /\ row'[from].origin = origin /\ Known(from)'
      BY <1>0, <1>1, <1>2, <1>3 DEF Keeps
    <2>2. req'[c] = [req[c] EXCEPT !.pc = "source"] => OwnerOK(req[c])'
      <3>1. SUFFICES ASSUME req'[c] = [req[c] EXCEPT !.pc = "source"] PROVE OwnerOK(req[c])'
        OBVIOUS
      <3>2. req'[c].pc = "source" /\ req'[c].run = r /\ req'[c].source = from
        BY <1>0, <3>1 DEF RequestState
      <3>3. CopyOK(req[c])'
        BY <1>2, <1>3, <2>1, <3>2 DEF CopyOK
      <3>4. QED
        BY <1>0, <3>2, <3>3 DEF OwnerOK, storageVars
    <2>3. QED
      BY <1>0, <1>2, <1>3, <2>2, OwnerGoes, Owns
  <1>4. CASE NewRow(r, input, origin) /\ SetRequest(c, NoRequest)
    BY <1>0, <1>2, <1>4, OwnerEnds
  <1>5. CASE UNCHANGED row /\ SetRequest(c, NoRequest)
    BY <1>0, <1>5, ReadEnds
  <1>6. QED
    BY <1>0, <1>1, <1>3, <1>4, <1>5 DEF CreateReuse

LEMMA PutStep ==
    ASSUME IngestionInv, NEW c \in Request, PutInputFile(c) PROVE IngestionInv'
  <1>0. PICK r \in Run, held \in Footage :
           /\ req[c].run = r /\ req[c].held = held /\ req[c].source = NoRun
           /\ req[c].pc = "put" /\ req[c].pc \in Owning /\ OwnerOK(req[c])
           /\ req[c] \in RequestState /\ RunOK(r) /\ Known(r) /\ row[r].input = held
           /\ grant[r] = "none" /\ jobs[r] = 0 /\ UNCHANGED <<row, jobs>>
    BY OwnerState, Owns DEF PutInputFile, IsAt, OwnerOK
  <1> DEFINE b == [NoBlob EXCEPT !.exists = TRUE, !.data = held, !.tag = held]
  <1>1. b \in Blob /\ b.data = held /\ b.tag = held /\ b.exists /\ b.copy = "none"
    BY DEF NoBlob, Blob
  <1>2. ASSUME Store(r, b)
        PROVE  /\ Keeps /\ Elsewhere(r) /\ SharedTyped' /\ RunOK(r)' /\ Ready(r)'
    <2>1. /\ Keeps /\ Elsewhere(r) /\ SharedTyped' /\ blob'[r] = b
          /\ \A q \in Run : Direct(q)' <=> Direct(q)
      BY <1>0, <1>1, <1>2, StoreAt
    <2>2. RowOK(r)' /\ BlobOK(r)' /\ JobOK(r)' /\ TagOK(r)'
      BY <1>0, <1>1, <1>2, <2>1
      DEF RunOK, RowOK, BlobOK, JobOK, TagOK, Known, Store
    <2>3. Ready(r)'
      BY <1>0, <1>1, <2>1, FootageAssumption DEF Ready, Whole, Known
    <2>4. QED
      BY <2>1, <2>2, <2>3 DEF RunOK
  <1>3. CASE Store(r, b) /\ GoOn(c, "enqueue")
    <2>1. req'[c] = [req[c] EXCEPT !.pc = "enqueue"] => OwnerOK(req[c])'
      BY <1>0, <1>2, <1>3 DEF OwnerOK, Copying, RequestState, Store
    <2>2. QED
      BY <1>0, <1>2, <1>3, <2>1, OwnerGoes, Owns
  <1>4. CASE Store(r, b) /\ GoOn(c, "fail")
    <2>1. req'[c] = [req[c] EXCEPT !.pc = "fail"] => OwnerOK(req[c])'
      BY <1>0, <1>2, <1>4 DEF OwnerOK, Copying, RequestState, Store
    <2>2. QED
      BY <1>0, <1>2, <1>4, <2>1, OwnerGoes, Owns
  <1>5. CASE UNCHANGED storageVars /\ GoOn(c, "fail")
    BY <1>0, <1>5, ReadFails
  <1>6. QED
    BY <1>0, <1>3, <1>4, <1>5 DEF PutInputFile, Call, PutBlob

LEMMA EnqueueStep ==
    ASSUME IngestionInv, NEW c \in Request, EnqueueUpload(c) PROVE IngestionInv'
  <1>0. PICK r \in Run :
           /\ req[c].run = r /\ Ready(r)
           /\ req[c].pc = "enqueue" /\ req[c].pc \in Owning /\ OwnerOK(req[c])
           /\ req[c] \in RequestState /\ RunOK(r)
           /\ grant[r] = "none" /\ jobs[r] = 0 /\ UNCHANGED <<storageVars, row>>
    BY OwnerState, Owns DEF EnqueueUpload, IsAt, OwnerOK
  <1> DEFINE sent == jobs' = [jobs EXCEPT ![r] = @ + 1]
  <1>1. ASSUME sent PROVE Keeps /\ Elsewhere(r) /\ SharedTyped' /\ RunOK(r)'
    <2>1. jobs \in [Run -> Nat] /\ SharedTyped
      BY DEF IngestionInv, Typed, SharedTyped
    <2>2. SharedTyped' /\ jobs'[r] = 1 /\ \A q \in Run \ {r} : jobs'[q] = jobs[q]
      BY <1>0, <1>1, <2>1 DEF SharedTyped, storageVars, StorageTypeOK
    <2>3. Keeps /\ Elsewhere(r)
      BY <1>0, <2>2 DEF Keeps, Elsewhere, storageVars, Known
    <2>4. Ready(r)'
      BY <1>0 DEF Ready, Whole, Direct, Known, storageVars
    <2>5. RowOK(r)' /\ BlobOK(r)' /\ JobOK(r)' /\ TagOK(r)'
      BY <1>0, <2>2, <2>4
      DEF RunOK, RowOK, BlobOK, JobOK, TagOK, Direct, Known, Ready, storageVars
    <2>6. QED
      BY <2>2, <2>3, <2>5 DEF RunOK
  <1>2. CASE sent /\ SetRequest(c, NoRequest)
    BY <1>0, <1>1, <1>2, OwnerEnds
  <1>3. CASE sent /\ GoOn(c, "fail")
    <2>1. req'[c] = [req[c] EXCEPT !.pc = "fail"] => OwnerOK(req[c])'
      BY <1>0, <1>3 DEF OwnerOK, Copying, RequestState, storageVars
    <2>2. QED
      BY <1>0, <1>1, <1>3, <2>1, OwnerGoes, Owns
  <1>4. CASE UNCHANGED jobs /\ GoOn(c, "fail")
    BY <1>0, <1>4, ReadFails
  <1>5. QED
    BY <1>0, <1>2, <1>3, <1>4 DEF EnqueueUpload, Finished

LEMMA FailStep ==
    ASSUME IngestionInv, NEW c \in Request, FailAttempt(c) PROVE IngestionInv'
  <1>0. PICK r \in Run :
           /\ req[c].run = r /\ req[c].pc \in Owning /\ UNCHANGED <<storageVars, jobs>>
           /\ SetRequest(c, NoRequest)
    BY OwnerState, Owns DEF FailAttempt, Finished, IsAt
  <1>1. CASE row[r].status = "queued" /\ SaveRow(r, "failed")
    <2>1. Known(r)
      BY <1>1 DEF Known
    <2>2. QED
      BY <1>0, <1>1, <2>1, SaveRowAt, OwnerEnds
  <1>2. CASE UNCHANGED row
    BY <1>0, <1>2, ReadEnds
  <1>3. QED
    BY <1>0, <1>1, <1>2 DEF FailAttempt

\* What copying at a run id knows.
LEMMA CopyState ==
    ASSUME IngestionInv, NEW c \in Request, req[c].pc \in Copying
    PROVE  \E r, from \in Run :
             /\ req[c].run = r /\ req[c].source = from /\ req[c] \in RequestState
             /\ req[c].pc \in Owning /\ OwnerOK(req[c]) /\ CopyOK(req[c])
             /\ RunOK(r) /\ RunOK(from) /\ Known(r) /\ Known(from)
             /\ grant[r] = "none" /\ jobs[r] = 0
  <1>1. req[c].pc \in Owning /\ req[c].pc # "fail"
    BY DEF Owning, Copying
  <1>2. OwnerOK(req[c]) /\ req[c].run \in Run /\ req[c] \in RequestState /\ RunOK(req[c].run)
    BY <1>1, OwnerState
  <1>3. CopyOK(req[c])
    BY <1>2 DEF OwnerOK
  <1>4. RunOK(req[c].source) /\ req[c].source \in Run
    BY <1>3 DEF CopyOK, IngestionInv
  <1>5. QED
    BY <1>1, <1>2, <1>3, <1>4 DEF OwnerOK, CopyOK

\* A copying owner that stores an object of its run, and goes on.
LEMMA CopyStores ==
    ASSUME IngestionInv, NEW c \in Request, req[c].pc \in Copying,
           NEW r \in Run, req[c].run = r, NEW b \in Blob, Store(r, b), UNCHANGED <<row, jobs>>,
           b.exists /\ ~Direct(r) => b.tag = row[r].input /\ b.data \in {0, row[r].input},
           b.copy = "none" => b = NoBlob,
           NEW pc \in {"poll", "delete", "fail"}, GoOn(c, pc),
           pc = "poll" => req[c].held # 0
    PROVE  IngestionInv'
  <1>0. PICK from \in Run :
           /\ req[c].source = from /\ req[c] \in RequestState
           /\ req[c].pc \in Owning /\ OwnerOK(req[c]) /\ CopyOK(req[c])
           /\ RunOK(r) /\ Known(r) /\ Known(from)
           /\ grant[r] = "none" /\ jobs[r] = 0
    BY CopyState
  <1>1. /\ Keeps /\ Elsewhere(r) /\ SharedTyped' /\ blob'[r] = b
        /\ \A q \in Run : Direct(q)' <=> Direct(q)
    BY StoreAt
  <1>2. RowOK(r)' /\ BlobOK(r)' /\ JobOK(r)' /\ TagOK(r)'
    <2>1. RowOK(r)' /\ JobOK(r)'
      BY <1>0, <1>1 DEF RunOK, RowOK, JobOK, Known, Store
    <2>2. BlobOK(r)'
      BY <1>0, <1>1 DEF BlobOK, Known, Store
    <2>3. TagOK(r)'
      BY <1>1 DEF TagOK, NoBlob
    <2>4. QED
      BY <2>1, <2>2, <2>3
  <1>3. req'[c] = [req[c] EXCEPT !.pc = pc] => OwnerOK(req[c])'
    <2>1. SUFFICES ASSUME req'[c] = [req[c] EXCEPT !.pc = pc] PROVE OwnerOK(req[c])'
      OBVIOUS
    <2>2. req'[c].pc = pc /\ req'[c].run = r /\ req'[c].source = from
          /\ req'[c].held = req[c].held
      BY <1>0, <2>1 DEF RequestState
    <2>3. CopyOK(req[c])'
      BY <1>0, <2>2 DEF CopyOK, Known
    <2>4. QED
      BY <1>0, <2>2, <2>3 DEF OwnerOK, Store
  <1>4. QED
    BY <1>0, <1>1, <1>2, <1>3, OwnerGoes, Owns DEF RunOK

LEMMA StartCopyStep ==
    ASSUME IngestionInv, NEW c \in Request, StartCopyInput(c) PROVE IngestionInv'
  <1>0. PICK r \in Run, from \in Run :
           /\ req[c].run = r /\ req[c].source = from /\ req[c] \in RequestState
           /\ req[c].pc \in Owning /\ OwnerOK(req[c]) /\ CopyOK(req[c])
           /\ RunOK(r) /\ RunOK(from) /\ Known(r) /\ Known(from)
           /\ req[c].pc = "start" /\ req[c].pc \in Copying /\ UNCHANGED <<row, jobs>>
    BY CopyState DEF StartCopyInput, IsAt, Copying
  <1>1. CASE StartCopy(from, r, req[c].held) /\ (GoOn(c, "poll") \/ GoOn(c, "fail"))
    <2> DEFINE data == IF Whole(from) THEN blob[from].data ELSE 0
    <2>1. PICK b : /\ b = [NoBlob EXCEPT !.exists = TRUE, !.tag = req[c].held,
                                        !.copy = "pending", !.data = data]
                   /\ Store(r, b)
      BY <1>1 DEF StartCopy
    <2>2. data \in Footage \cup {0} /\ req[c].held \in Footage \cup {0}
      BY <1>0 DEF IngestionInv, Typed, StorageTypeOK, Blob, RequestState
    <2>3. b \in Blob /\ b.tag = req[c].held /\ b.data = data /\ b.copy = "pending"
      BY <2>1, <2>2 DEF NoBlob, Blob
    <2>4. /\ Direct(r) <=> Direct(from)
          /\ row[r].input = row[from].input
          /\ ~Direct(from) => req[c].held = row[from].input
          /\ req[c].held # 0
      BY <1>0 DEF CopyOK, Direct
    <2>5. ~Direct(from) => data \in {0, row[from].input}
      BY <1>0 DEF RunOK, RowOK, BlobOK, Direct, Whole
    <2>6. QED
      BY <1>0, <1>1, <2>1, <2>3, <2>4, <2>5, CopyStores
  <1>2. CASE UNCHANGED storageVars /\ GoOn(c, "fail")
    BY <1>0, <1>2, ReadFails
  <1>3. QED
    BY <1>0, <1>1, <1>2 DEF StartCopyInput, Call

LEMMA AbortStep ==
    ASSUME IngestionInv, NEW c \in Request, AbortCopyInput(c) PROVE IngestionInv'
  <1>0. PICK r \in Run, from \in Run :
           /\ req[c].run = r /\ req[c].source = from
           /\ req[c].pc \in Owning /\ RunOK(r) /\ grant[r] = "none"
           /\ req[c].pc \in Copying /\ UNCHANGED <<row, jobs>>
    BY CopyState DEF AbortCopyInput, IsAt, Copying
  <1>1. CASE AbortCopy(r) /\ (GoOn(c, "delete") \/ GoOn(c, "fail"))
    <2>1. PICK b : b = [blob[r] EXCEPT !.copy = "failed", !.readers = {}] /\ Store(r, b)
      BY <1>1 DEF AbortCopy, EndCopy
    <2>2. blob[r] \in Blob
      BY DEF IngestionInv, Typed, StorageTypeOK
    <2>3. b \in Blob /\ b.copy = "failed" /\ b.tag = blob[r].tag /\ b.data = blob[r].data
          /\ b.exists = blob[r].exists
      BY <2>1, <2>2 DEF Blob
    <2>4. QED
      BY <1>0, <1>1, <2>1, <2>3, CopyStores DEF RunOK, BlobOK
  <1>2. CASE UNCHANGED storageVars /\ GoOn(c, "fail")
    BY <1>0, <1>2, ReadFails
  <1>3. QED
    BY <1>0, <1>1, <1>2 DEF AbortCopyInput, Call

LEMMA DeleteStep ==
    ASSUME IngestionInv, NEW c \in Request, DeleteCopy(c) PROVE IngestionInv'
  <1>0. PICK r \in Run, from \in Run :
           /\ req[c].run = r /\ req[c].source = from
           /\ req[c].pc \in Owning /\ req[c].pc \in Copying /\ UNCHANGED <<row, jobs>>
           /\ GoOn(c, "fail")
    BY CopyState DEF DeleteCopy, IsAt, Copying
  <1>1. CASE Store(r, NoBlob)
    <2>1. NoBlob \in Blob /\ ~NoBlob.exists
      BY DEF NoBlob, Blob
    <2>2. QED
      BY <1>0, <1>1, <2>1, CopyStores
  <1>2. CASE UNCHANGED storageVars
    BY <1>0, <1>2, ReadFails
  <1>3. QED
    BY <1>0, <1>1, <1>2 DEF DeleteCopy, DeleteInput

----------------------------------------------------------------------------
(* The steps of finalize.                                                    *)

\* IsAt a run with a grant, what its other finalizes rely on has to stay.
LEMMA FinalizerStep ==
    ASSUME IngestionInv, NEW c \in Request, NEW r \in Run, grant[r] # "none",
           req[c].pc = "idle" \/ (req[c].pc \in Finalizing /\ req[c].run = r),
           NEW state \in RequestState, Becomes(c, state),
           \/ state.pc = "idle"
           \/ state.pc \in Finalizing /\ state.run = r /\ FinalizerOK(c, req[c])',
           state.pc = "enqueueDirect" => ~Known(r),
           Keeps, Elsewhere(r), SharedTyped', RunOK(r)', grant'[r] # "none",
           blob[r].exists => blob'[r].exists,
           blob'[r].data = blob[r].data, blob'[r].readers \subseteq blob[r].readers \cup {c},
           jobs'[r] = jobs[r] \/ req[c].pc = "enqueueDirect"
    PROVE  IngestionInv'
  <1>0. req \in [Request -> RequestState] /\ Apart /\ \A d \in Request : RequestOK(d)
    BY DEF IngestionInv, Typed
  <1>1. req'[c] = state /\ \A d \in Request \ {c} : req'[d] = req[d]
    BY <1>0 DEF Becomes
  <1>2. Typed'
    BY <1>0 DEF Typed, SharedTyped, Becomes
  <1>3. "idle" \notin Owning /\ "idle" \notin Finalizing /\ Finalizing \cap Owning = {}
        /\ "enqueueDirect" \in Finalizing
    BY Owns DEF Finalizing
  <1>4. ASSUME NEW d \in Request, d # c, req[d].run = r
        PROVE  /\ RequestOK(d)'
               /\ req[d].pc = "enqueueDirect" => Known(r)
    <2>1. req[d].pc \notin Owning
      BY <1>0, <1>4 DEF RequestOK, OwnerOK
    <2>2. CASE req[d].pc \in Finalizing
      <3>1. FinalizerOK(d, req[d])
        BY <1>0, <2>2 DEF RequestOK
      <3>2. req[d].pc = "enqueueDirect" => req[c].pc # "enqueueDirect"
        BY <1>0, <1>3, <1>4 DEF Apart
      <3>3. FinalizerOK(d, req[d])'
        BY <1>1, <1>4, <3>1, <3>2 DEF FinalizerOK, Keeps
      <3>4. QED
        BY <1>1, <1>3, <1>4, <2>1, <3>1, <3>3 DEF RequestOK, FinalizerOK
    <2>3. CASE req[d].pc \notin Finalizing
      BY <1>1, <1>3, <1>4, <2>1, <2>3 DEF RequestOK
    <2>4. QED
      BY <2>2, <2>3
  <1>5. RequestOK(c)'
    BY <1>1, <1>3 DEF RequestOK
  <1>6. Apart'
    BY <1>0, <1>1, <1>3, <1>4 DEF Apart
  <1>7. \A d \in Request : (req'[d] = req[d] /\ req[d].run # r) \/ RequestOK(d)'
    BY <1>1, <1>4, <1>5
  <1>8. QED
    BY <1>2, <1>6, <1>7, StepAt

LEMMA FinalizerState ==
    ASSUME IngestionInv, NEW c \in Request, req[c].pc \in Finalizing
    PROVE  \E r \in Run :
             /\ req[c].run = r /\ req[c] \in RequestState /\ FinalizerOK(c, req[c])
             /\ grant[r] # "none" /\ RunOK(r)
             /\ req \in [Request -> RequestState] /\ SharedTyped
  BY DEF IngestionInv, Typed, SharedTyped, RequestOK, FinalizerOK

LEMMA SharedStays ==
    ASSUME SharedTyped, UNCHANGED <<storageVars, row, jobs>> PROVE SharedTyped'
  BY DEF SharedTyped, storageVars, StorageTypeOK

\* A finalize that only reads, or ends without an effect.
LEMMA FinalizerReads ==
    ASSUME IngestionInv, NEW c \in Request, NEW r \in Run, grant[r] # "none",
           req[c].pc = "idle" \/ (req[c].pc \in Finalizing /\ req[c].run = r),
           NEW state \in RequestState, Becomes(c, state),
           \/ state.pc = "idle"
           \/ /\ state.pc \in Finalizing \ {"enqueueDirect"} /\ state.run = r
              /\ FinalizerOK(c, state),
           UNCHANGED <<storageVars, row, jobs>>
    PROVE  IngestionInv'
  <1>1. Keeps /\ Elsewhere(r) /\ RunOK(r)'
    BY NothingElse
  <1>2. SharedTyped'
    BY SharedStays DEF IngestionInv, Typed, SharedTyped
  <1>3. req'[c] = state
    BY DEF IngestionInv, Typed, Becomes
  <1>4. FinalizerOK(c, state) => FinalizerOK(c, req[c])'
    BY <1>3 DEF FinalizerOK, storageVars, Known
  <1>5. grant'[r] # "none" /\ blob' = blob /\ jobs' = jobs
    BY DEF storageVars
  <1>6. state.pc # "enqueueDirect"
    OBVIOUS
  <1>7. QED
    BY <1>1, <1>2, <1>4, <1>5, <1>6, FinalizerStep

LEMMA FinalizeBegins ==
    ASSUME IngestionInv, NEW c \in Request, NEW r \in Run, Finalize(c, r) PROVE IngestionInv'
  <1> DEFINE state == [NoRequest EXCEPT !.pc = "properties", !.run = r]
  <1>1. state \in RequestState /\ state.pc = "properties" /\ state.run = r
    BY DEF NoRequest, RequestState, RequestPc
  <1>2. FinalizerOK(c, state)
    BY <1>1 DEF FinalizerOK, Finalize
  <1>3. QED
    BY <1>1, <1>2, FinalizerReads DEF Finalize, IsAt, SetRequest, Becomes, Finalizing

LEMMA CheckUploadStep ==
    ASSUME IngestionInv, NEW c \in Request, CheckUpload(c) PROVE IngestionInv'
  <1>0. PICK r \in Run :
             /\ req[c].run = r /\ req[c] \in RequestState /\ FinalizerOK(c, req[c])
             /\ grant[r] # "none" /\ RunOK(r) /\ UNCHANGED <<row, jobs>>
             /\ req \in [Request -> RequestState] /\ SharedTyped
             /\ req[c].pc = "properties" /\ req[c].pc \in Finalizing
    BY FinalizerState DEF CheckUpload, IsAt, Finalizing
  <1>1. CASE AcceptableUpload(r) /\ ReadProperties(c, r) /\ GoOn(c, "download")
    <2>1. PICK b : b = [blob[r] EXCEPT !.readers = @ \cup {c}] /\ Store(r, b)
      BY <1>1 DEF ReadProperties
    <2>2. b \in Blob /\ b.exists = blob[r].exists /\ b.data = blob[r].data
          /\ b.tag = blob[r].tag /\ b.copy = blob[r].copy
          /\ b.readers = blob[r].readers \cup {c}
      BY ZenonT(40), <1>0, <2>1 DEF SharedTyped, StorageTypeOK, Blob
    <2>3. /\ Keeps /\ Elsewhere(r) /\ SharedTyped' /\ blob'[r] = b
          /\ \A q \in Run : Direct(q)' <=> Direct(q)
      BY <1>0, <2>1, <2>2, StoreAt
    <2>4. RunOK(r)'
      BY <1>0, <2>1, <2>2, <2>3
      DEF RunOK, RowOK, BlobOK, JobOK, TagOK, Known, Ready, Whole, Store
    <2>5. PICK state \in RequestState : state = [req[c] EXCEPT !.pc = "download"]
      BY <1>0 DEF RequestState, RequestPc
    <2>6. Becomes(c, state) /\ state.pc = "download" /\ state.run = r /\ req'[c] = state
      BY <1>0, <1>1, <2>5 DEF GoOn, SetRequest, Becomes, RequestState
    <2>7. blob[r].exists
      BY <1>0, <1>1, FootageAssumption DEF AcceptableUpload, StoredSize, Whole
    <2>8. FinalizerOK(c, req[c])'
      BY <1>0, <2>1, <2>2, <2>3, <2>6, <2>7 DEF FinalizerOK, Store
    <2>9. grant'[r] # "none" /\ jobs' = jobs
      BY <1>0, <2>1 DEF Store
    <2>10. QED
      BY <1>0, <2>2, <2>3, <2>4, <2>6, <2>8, <2>9, FinalizerStep DEF Finalizing
  <1>2. CASE UNCHANGED storageVars /\ SetRequest(c, NoRequest)
    BY <1>0, <1>2, NoRequestTyped, FinalizerReads DEF SetRequest, Becomes
  <1>3. QED
    BY <1>0, <1>1, <1>2 DEF CheckUpload

LEMMA HashUploadStep ==
    ASSUME IngestionInv, NEW c \in Request, HashUpload(c) PROVE IngestionInv'
  <1> DEFINE state == [req[c] EXCEPT !.pc = "tag", !.held = blob[req[c].run].data]
  <1>0. PICK r \in Run :
             /\ req[c].run = r /\ req[c] \in RequestState /\ FinalizerOK(c, req[c])
             /\ grant[r] # "none" /\ UNCHANGED <<storageVars, row, jobs>> /\ SharedTyped
             /\ req[c].pc = "download" /\ req[c].pc \in Finalizing
    BY FinalizerState DEF HashUpload, IsAt, Finalizing
  <1>1. blob[r].data \in Footage \cup {0}
    BY <1>0 DEF SharedTyped, StorageTypeOK, Blob
  <1>2. state \in RequestState /\ state.pc = "tag" /\ state.run = r /\ state.held = blob[r].data
    BY <1>0, <1>1 DEF RequestState, RequestPc
  <1>3. FinalizerOK(c, state)
    BY <1>0, <1>2 DEF FinalizerOK
  <1>4. CASE SetRequest(c, state)
    BY <1>0, <1>2, <1>3, <1>4, FinalizerReads DEF SetRequest, Becomes, Finalizing
  <1>5. CASE SetRequest(c, NoRequest)
    BY <1>0, <1>5, NoRequestTyped, FinalizerReads DEF SetRequest, Becomes
  <1>6. QED
    BY <1>4, <1>5 DEF HashUpload

LEMMA TagUploadStep ==
    ASSUME IngestionInv, NEW c \in Request, TagUpload(c) PROVE IngestionInv'
  <1>0. PICK r \in Run, held \in Footage \cup {0} :
             /\ req[c].run = r /\ req[c] \in RequestState /\ FinalizerOK(c, req[c])
             /\ req[c].held = held
             /\ grant[r] # "none" /\ RunOK(r) /\ UNCHANGED <<row, jobs>>
             /\ req \in [Request -> RequestState] /\ SharedTyped
             /\ req[c].pc = "tag" /\ req[c].pc \in Finalizing
    BY FinalizerState DEF TagUpload, IsAt, Finalizing, RequestState
  <1>1. ASSUME TagVersion(c, r, held),
               NEW state \in RequestState, Becomes(c, state),
               state.pc = "idle" \/ (state.pc = "attempt" /\ state.run = r)
        PROVE  IngestionInv'
    <2>1. PICK b : b = [blob[r] EXCEPT !.tag = held, !.readers = {}] /\ Store(r, b)
      BY <1>1 DEF TagVersion
    <2>2. b \in Blob /\ b.exists = blob[r].exists /\ b.data = blob[r].data
          /\ b.tag = held /\ b.copy = blob[r].copy /\ b.readers = {}
      BY ZenonT(40), <1>0, <2>1 DEF SharedTyped, StorageTypeOK, Blob
    <2>3. /\ Keeps /\ Elsewhere(r) /\ SharedTyped' /\ blob'[r] = b
          /\ \A q \in Run : Direct(q)' <=> Direct(q)
      BY <1>0, <2>1, <2>2, StoreAt
    <2>4. held = blob[r].data
      BY <1>0, <1>1 DEF FinalizerOK, TagVersion
    <2>5. RunOK(r)'
      BY <1>0, <2>1, <2>2, <2>3, <2>4
      DEF RunOK, RowOK, BlobOK, JobOK, TagOK, Known, Ready, Whole, Store
    <2>6. req'[c] = state
      BY <1>0, <1>1 DEF Becomes
    <2>7. state.pc = "attempt" => FinalizerOK(c, req[c])'
      BY <1>0, <1>1, <2>1, <2>2, <2>3, <2>6 DEF FinalizerOK, Store
    <2>8. grant'[r] # "none" /\ jobs' = jobs
      BY <1>0, <2>1 DEF Store
    <2>9. QED
      BY <1>0, <1>1, <2>2, <2>3, <2>5, <2>7, <2>8, FinalizerStep DEF Finalizing
  <1>2. PICK state \in RequestState : state = [req[c] EXCEPT !.pc = "attempt"]
    BY <1>0 DEF RequestState, RequestPc
  <1>3. state.pc = "attempt" /\ state.run = r
    BY <1>0, <1>2 DEF RequestState
  <1>4. CASE TagVersion(c, r, held) /\ GoOn(c, "attempt")
    BY <1>1, <1>2, <1>3, <1>4 DEF GoOn, SetRequest, Becomes
  <1>5. CASE TagVersion(c, r, held) /\ SetRequest(c, NoRequest)
    BY <1>1, <1>5, NoRequestTyped DEF SetRequest, Becomes
  <1>6. CASE UNCHANGED storageVars /\ SetRequest(c, NoRequest)
    BY <1>0, <1>6, NoRequestTyped, FinalizerReads DEF SetRequest, Becomes
  <1>7. QED
    BY <1>0, <1>4, <1>5, <1>6 DEF TagUpload

LEMMA CreateFinalizedStep ==
    ASSUME IngestionInv, NEW c \in Request, CreateFinalized(c) PROVE IngestionInv'
  <1>0. PICK r \in Run, held \in Footage \cup {0} :
             /\ req[c].run = r /\ req[c] \in RequestState /\ FinalizerOK(c, req[c])
             /\ req[c].held = held
             /\ grant[r] # "none" /\ RunOK(r) /\ UNCHANGED <<storageVars, jobs>>
             /\ req \in [Request -> RequestState] /\ SharedTyped
             /\ req[c].pc = "attempt" /\ req[c].pc \in Finalizing
    BY FinalizerState DEF CreateFinalized, IsAt, Finalizing, RequestState
  <1>1. ASSUME row[r] = NoRow, NewRow(r, held, r),
               NEW state \in RequestState, Becomes(c, state),
               state.pc = "idle" \/ (state.pc = "enqueueDirect" /\ state.run = r)
        PROVE  IngestionInv'
    <2>1. ~Known(r)
      BY <1>1 DEF Known, NoRow
    <2>2. /\ Keeps /\ Elsewhere(r) /\ SharedTyped' /\ Known(r)'
          /\ row'[r] = [status |-> "queued", input |-> held, origin |-> r]
      BY <1>0, <1>1, <2>1, NewRowAt
    <2>3. jobs[r] = 0 /\ blob' = blob /\ jobs' = jobs /\ grant' = grant
      BY <1>0, <2>1 DEF RunOK, RowOK, storageVars
    <2>4. RowOK(r)' /\ BlobOK(r)' /\ JobOK(r)' /\ TagOK(r)'
      BY <1>0, <2>2, <2>3 DEF RunOK, RowOK, BlobOK, JobOK, TagOK
    <2>5. req'[c] = state
      BY <1>0, <1>1 DEF Becomes
    <2>6. state.pc = "enqueueDirect" => FinalizerOK(c, req[c])'
      BY <1>0, <1>1, <2>2, <2>3, <2>5 DEF FinalizerOK
    <2>7. QED
      BY <1>0, <1>1, <2>1, <2>2, <2>3, <2>4, <2>6, FinalizerStep DEF Finalizing, RunOK
  <1>2. PICK state \in RequestState : state = [req[c] EXCEPT !.pc = "enqueueDirect"]
    BY <1>0 DEF RequestState, RequestPc
  <1>3. state.pc = "enqueueDirect" /\ state.run = r
    BY <1>0, <1>2 DEF RequestState
  <1>4. CASE row[r] = NoRow /\ NewRow(r, held, r) /\ GoOn(c, "enqueueDirect")
    BY <1>1, <1>2, <1>3, <1>4 DEF GoOn, SetRequest, Becomes
  <1>5. CASE row[r] = NoRow /\ NewRow(r, held, r) /\ SetRequest(c, NoRequest)
    BY <1>1, <1>5, NoRequestTyped DEF SetRequest, Becomes
  <1>6. CASE UNCHANGED row /\ SetRequest(c, NoRequest)
    BY <1>0, <1>6, NoRequestTyped, FinalizerReads DEF SetRequest, Becomes
  <1>7. QED
    BY <1>0, <1>4, <1>5, <1>6 DEF CreateFinalized

LEMMA EnqueueFinalizedStep ==
    ASSUME IngestionInv, NEW c \in Request, EnqueueFinalized(c) PROVE IngestionInv'
  <1>0. PICK r \in Run :
             /\ req[c].run = r /\ FinalizerOK(c, req[c])
             /\ grant[r] # "none" /\ RunOK(r) /\ UNCHANGED <<storageVars, row>>
             /\ SharedTyped /\ SetRequest(c, NoRequest)
             /\ req[c].pc = "enqueueDirect" /\ req[c].pc \in Finalizing
    BY FinalizerState DEF EnqueueFinalized, IsAt, Finalizing
  <1>1. CASE jobs' = [jobs EXCEPT ![r] = @ + 1]
    <2>1. blob[r].exists /\ Known(r) /\ jobs[r] = 0
      BY <1>0 DEF FinalizerOK
    <2>2. SharedTyped' /\ jobs'[r] = 1 /\ \A q \in Run \ {r} : jobs'[q] = jobs[q]
      BY <1>0, <1>1, <2>1 DEF SharedTyped, storageVars, StorageTypeOK
    <2>3. Keeps /\ Elsewhere(r)
      BY <1>0, <2>2 DEF Keeps, Elsewhere, storageVars, Known
    <2>4. Ready(r)
      BY <1>0, <2>1 DEF Ready, RunOK, RowOK, BlobOK, Whole, Direct
    <2>5. Ready(r)'
      BY <1>0, <2>4 DEF Ready, Whole, Direct, Known, storageVars
    <2>6. RowOK(r)' /\ BlobOK(r)' /\ JobOK(r)' /\ TagOK(r)'
      BY <1>0, <2>1, <2>2, <2>5
      DEF RunOK, RowOK, BlobOK, JobOK, TagOK, Direct, Known, storageVars
    <2>7. blob' = blob /\ grant' = grant
      BY <1>0 DEF storageVars
    <2>8. QED
      BY <1>0, <2>2, <2>3, <2>6, <2>7, NoRequestTyped, FinalizerStep
      DEF SetRequest, Becomes, RunOK
  <1>2. CASE UNCHANGED jobs
    BY <1>0, <1>2, NoRequestTyped, FinalizerReads DEF SetRequest, Becomes
  <1>3. QED
    BY <1>0, <1>1, <1>2 DEF EnqueueFinalized

----------------------------------------------------------------------------
(* New run ids, workers, the browser and the storage service.                *)

LEMMA FreshRun ==
    ASSUME IngestionInv, NEW r \in Run, Fresh(r)
    PROVE  ~Known(r) /\ jobs[r] = 0 /\ ~blob[r].exists /\ grant[r] = "none"
  BY DEF IngestionInv, RunOK, RowOK, Fresh, Known, NoRow

LEMMA OwnerBegins ==
    ASSUME IngestionInv, NEW c \in Request, NEW r \in Run, Fresh(r),
           NEW state \in RequestState, Becomes(c, state), state.run = r,
           state.pc \in {"validate", "create"},
           state.pc = "validate" => state.source = NoRun /\ state.held \in Footage,
           state.pc = "create" => state.source \in Run /\ Known(state.source),
           UNCHANGED <<storageVars, row, jobs>>
    PROVE  IngestionInv'
  <1>0. req \in [Request -> RequestState] /\ Apart
    BY DEF IngestionInv, Typed
  <1>1. req'[c] = state /\ \A d \in Request \ {c} : req'[d] = req[d]
    BY <1>0 DEF Becomes
  <1>2. Keeps /\ Elsewhere(r) /\ RunOK(r)'
    BY NothingElse
  <1>3. Typed'
    BY <1>0 DEF IngestionInv, Typed, storageVars, StorageTypeOK, Becomes
  <1>4. OwnerOK(state)
    BY FreshRun, RunAssumption DEF OwnerOK, Copying
  <1>5. OwnerOK(req[c])'
    BY <1>1, <1>4 DEF OwnerOK, Copying, storageVars, Known
  <1>6. RequestOK(c)'
    BY <1>1, <1>5 DEF RequestOK, Finalizing
  <1>7. Apart'
    BY <1>0, <1>1 DEF Apart, Fresh
  <1>8. \A d \in Request : (req'[d] = req[d] /\ req[d].run # r) \/ RequestOK(d)'
    BY <1>1, <1>6 DEF Fresh
  <1>9. QED
    BY <1>2, <1>3, <1>7, <1>8, StepAt

LEMMA StreamUploadStep ==
    ASSUME IngestionInv, NEW c \in Request, NEW r \in Run, StreamUpload(c, r)
    PROVE  IngestionInv'
  <1>1. PICK content \in Footage :
          SetRequest(c, [NoRequest EXCEPT !.pc = "validate", !.run = r, !.held = content])
    BY DEF StreamUpload
  <1> DEFINE state == [NoRequest EXCEPT !.pc = "validate", !.run = r, !.held = content]
  <1>2. state \in RequestState /\ state.pc = "validate" /\ state.run = r
        /\ state.source = NoRun /\ state.held \in Footage
    BY DEF NoRequest, RequestState, RequestPc
  <1>3. Becomes(c, state) /\ Fresh(r) /\ UNCHANGED <<storageVars, row, jobs>>
    BY <1>1 DEF StreamUpload, SetRequest, Becomes
  <1> HIDE DEF state
  <1>4. QED
    BY <1>2, <1>3, OwnerBegins

LEMMA ReuseStep ==
    ASSUME IngestionInv, NEW c \in Request, NEW r \in Run, NEW from \in Run, ReuseInput(c, from, r)
    PROVE  IngestionInv'
  <1> DEFINE state == [NoRequest EXCEPT !.pc = "create", !.run = r, !.source = from]
  <1>1. state \in RequestState /\ state.pc = "create" /\ state.run = r /\ state.source = from
    BY DEF NoRequest, RequestState, RequestPc
  <1>2. Becomes(c, state) /\ Fresh(r) /\ UNCHANGED <<storageVars, row, jobs>>
    BY DEF ReuseInput, SetRequest, Becomes
  <1>3. Known(from)
    BY DEF ReuseInput, IngestionInv, RunOK, RowOK
  <1> HIDE DEF state
  <1>4. QED
    BY <1>1, <1>2, <1>3, OwnerBegins

\* A step at one run that is no request's.
LEMMA OutsideStep ==
    ASSUME IngestionInv, NEW r \in Run, UNCHANGED req, Keeps, Elsewhere(r), SharedTyped',
           RunOK(r)',
           \A c \in Request : req[c].run = r => RequestOK(c)'
    PROVE  IngestionInv'
  <1>1. Typed' /\ Apart'
    BY DEF IngestionInv, Typed, SharedTyped, Apart
  <1>2. QED
    BY <1>1, StepAt

LEMMA AuthorizeStep ==
    ASSUME IngestionInv, NEW c \in Request, NEW r \in Run, Authorize(c, r) PROVE IngestionInv'
  <1>0. /\ Fresh(r) /\ ~Known(r) /\ jobs[r] = 0 /\ ~blob[r].exists
        /\ UNCHANGED <<row, jobs, req, blob, uploads>> /\ grant' = [grant EXCEPT ![r] = "open"]
        /\ RunOK(r) /\ SharedTyped
    BY FreshRun DEF Authorize, AuthorizeUpload, IngestionInv, Typed, SharedTyped
  <1>1. SharedTyped' /\ \A q \in Run \ {r} : grant'[q] = grant[q]
    BY <1>0 DEF SharedTyped, StorageTypeOK
  <1>2. Keeps /\ Elsewhere(r)
    BY <1>0, <1>1 DEF Keeps, Elsewhere, Known
  <1>3. RunOK(r)'
    BY <1>0 DEF RunOK, RowOK, BlobOK, JobOK, TagOK, Known
  <1>4. QED
    BY <1>0, <1>1, <1>2, <1>3, OutsideStep DEF Fresh

LEMMA ExecuteStep ==
    ASSUME IngestionInv, NEW r \in Run, Execute(r) PROVE IngestionInv'
  <1>0. PICK status \in {"succeeded", "failed"} :
          /\ SaveRow(r, status) /\ Known(r) /\ UNCHANGED <<storageVars, jobs, req>>
          /\ jobs[r] # 0
    BY DEF Execute, Known, IngestionInv, RunOK, JobOK
  <1>1. Keeps /\ Elsewhere(r) /\ SharedTyped' /\ RunOK(r)'
    BY <1>0, SaveRowAt
  <1>2. ASSUME NEW c \in Request, req[c].run = r PROVE RequestOK(c)'
    <2>1. RequestOK(c)
      BY DEF IngestionInv
    <2>2. req[c].pc \in Owning => OwnerOK(req[c])'
      BY <1>0, <1>2, <2>1 DEF RequestOK, OwnerOK, Copying, storageVars
    <2>3. req[c].pc \in Finalizing => FinalizerOK(c, req[c])'
      BY <1>0, <1>2, <2>1 DEF RequestOK, FinalizerOK, storageVars
    <2>4. QED
      BY <1>0, <2>2, <2>3 DEF RequestOK
  <1>3. QED
    BY <1>0, <1>1, <1>2, OutsideStep

LEMMA UploadStep ==
    ASSUME IngestionInv, NEW r \in Run, NEW content \in Footage, Upload(r, content),
           UNCHANGED <<row, jobs, req>>
    PROVE  IngestionInv'
  <1> DEFINE b == [NoBlob EXCEPT !.exists = TRUE, !.data = content]
  <1>0. b \in Blob /\ b.exists /\ b.data = content /\ b.tag = 0 /\ b.copy = "none"
        /\ b.readers = {} /\ content # 0
    BY FootageAssumption DEF NoBlob, Blob
  <1>1. SharedTyped /\ RunOK(r) /\ grant[r] # "none" /\ grant' = grant
        /\ blob' = [blob EXCEPT ![r] = b] /\ uploads' = uploads + 1 /\ uploads < MaxUploads
    BY DEF IngestionInv, Typed, SharedTyped, Upload
  <1> HIDE DEF b
  <1>2. blob'[r] = b /\ \A q \in Run \ {r} : blob'[q] = blob[q]
    BY <1>1 DEF SharedTyped, StorageTypeOK
  <1>3. SharedTyped'
    BY <1>0, <1>1, BoundAssumption DEF SharedTyped, StorageTypeOK
  <1>4. Keeps /\ Elsewhere(r)
    BY <1>1, <1>2 DEF Keeps, Elsewhere, Known
  <1>5. RunOK(r)'
    BY <1>0, <1>1, <1>2 DEF RunOK, RowOK, BlobOK, JobOK, TagOK, Ready, Whole, Direct, Known
  <1>6. ASSUME NEW c \in Request, req[c].run = r PROVE RequestOK(c)'
    <2>1. RequestOK(c)
      BY DEF IngestionInv
    <2>2. req[c].pc \notin Owning
      BY <1>1, <1>6, <2>1 DEF RequestOK, OwnerOK
    <2>3. req[c].pc \in Finalizing => FinalizerOK(c, req[c])'
      BY <1>0, <1>1, <1>2, <1>6, <2>1 DEF RequestOK, FinalizerOK, Known
    <2>4. QED
      BY <2>2, <2>3 DEF RequestOK
  <1>7. QED
    BY <1>3, <1>4, <1>5, <1>6, OutsideStep

LEMMA ExpireStep ==
    ASSUME IngestionInv, NEW r \in Run, ExpireGrant(r), UNCHANGED <<row, jobs, req>>
    PROVE  IngestionInv'
  <1>0. SharedTyped /\ RunOK(r) /\ grant[r] # "none" /\ blob' = blob /\ uploads' = uploads
        /\ grant' = [grant EXCEPT ![r] = "expired"]
    BY DEF IngestionInv, Typed, SharedTyped, ExpireGrant
  <1>1. grant'[r] = "expired" /\ \A q \in Run \ {r} : grant'[q] = grant[q]
    BY <1>0 DEF SharedTyped, StorageTypeOK
  <1>2. SharedTyped'
    BY <1>0 DEF SharedTyped, StorageTypeOK
  <1>3. Keeps /\ Elsewhere(r)
    BY <1>0, <1>1 DEF Keeps, Elsewhere, Known
  <1>4. Known(r) => (Direct(r)' <=> Direct(r))
    BY <1>3, DirectStays
  <1>5. RunOK(r)'
    BY <1>0, <1>1, <1>4 DEF RunOK, RowOK, BlobOK, JobOK, TagOK, Ready, Whole, Known
  <1>6. ASSUME NEW c \in Request, req[c].run = r PROVE RequestOK(c)'
    <2>1. RequestOK(c)
      BY DEF IngestionInv
    <2>2. req[c].pc \notin Owning
      BY <1>0, <1>6, <2>1 DEF RequestOK, OwnerOK
    <2>3. req[c].pc \in Finalizing => FinalizerOK(c, req[c])'
      BY <1>0, <1>1, <1>6, <2>1 DEF RequestOK, FinalizerOK, Known
    <2>4. QED
      BY <2>2, <2>3 DEF RequestOK
  <1>7. QED
    BY <1>2, <1>3, <1>5, <1>6, OutsideStep

LEMMA EndCopyStep ==
    ASSUME IngestionInv, NEW r \in Run, NEW status \in {"success", "failed"},
           EndCopy(r, status), UNCHANGED <<row, jobs, req>>
    PROVE  IngestionInv'
  <1>0. PICK b : b = [blob[r] EXCEPT !.copy = status, !.readers = {}] /\ Store(r, b)
    BY DEF EndCopy
  <1>1. blob[r] \in Blob /\ blob[r].copy = "pending" /\ RunOK(r)
    BY DEF IngestionInv, Typed, StorageTypeOK, EndCopy
  <1>2. b \in Blob /\ b.exists = blob[r].exists /\ b.data = blob[r].data
        /\ b.tag = blob[r].tag /\ b.copy = status /\ b.readers = {}
    BY <1>0, <1>1 DEF Blob
  <1>3. /\ Keeps /\ Elsewhere(r) /\ SharedTyped' /\ blob'[r] = b /\ grant' = grant
        /\ \A q \in Run : Direct(q)' <=> Direct(q)
    BY <1>0, <1>2, StoreAt DEF Store
  <1>4. ~Ready(r)
    BY <1>1 DEF Ready, Whole
  <1>5. RunOK(r)'
    BY <1>1, <1>2, <1>3, <1>4 DEF RunOK, RowOK, BlobOK, JobOK, TagOK, Known
  <1>6. ASSUME NEW c \in Request, req[c].run = r PROVE RequestOK(c)'
    <2>1. RequestOK(c)
      BY DEF IngestionInv
    <2>2. CopyOK(req[c]) => CopyOK(req[c])'
      BY <1>3 DEF CopyOK, Known
    <2>3. req[c].pc \in Owning => OwnerOK(req[c])'
      BY <1>2, <1>3, <1>4, <1>6, <2>1, <2>2 DEF RequestOK, OwnerOK, Known
    <2>4. req[c].pc \in Finalizing => FinalizerOK(c, req[c])'
      BY <1>2, <1>3, <1>6, <2>1 DEF RequestOK, FinalizerOK, Known
    <2>5. QED
      BY <2>3, <2>4 DEF RequestOK
  <1>7. QED
    BY <1>3, <1>5, <1>6, OutsideStep

----------------------------------------------------------------------------
(* The invariant and its consequences.                                       *)

LEMMA InitInv == IngestionInit => IngestionInv
  <1>1. SUFFICES ASSUME IngestionInit PROVE IngestionInv
    OBVIOUS
  <1>2. NoBlob \in Blob /\ NoRow \in AttemptRow /\ NoRequest \in RequestState
    BY NoRequestTyped DEF NoBlob, Blob, NoRow, AttemptRow
  <1>3. Typed
    BY <1>1, <1>2, BoundAssumption DEF IngestionInit, StorageInit, Typed, StorageTypeOK
  <1>4. /\ \A c \in Request : req[c] = NoRequest
        /\ \A r \in Run : blob[r] = NoBlob /\ row[r] = NoRow /\ jobs[r] = 0
    BY <1>1 DEF IngestionInit, StorageInit
  <1>5. Apart /\ \A c \in Request : RequestOK(c)
    BY <1>4, NoRequestTyped, Owns DEF Apart, RequestOK, Finalizing
  <1>6. ASSUME NEW r \in Run PROVE RunOK(r)
    BY <1>4 DEF RunOK, RowOK, BlobOK, JobOK, TagOK, Known, NoRow, NoBlob
  <1>7. QED
    BY <1>3, <1>5, <1>6 DEF IngestionInv

LEMMA BeginStep ==
    ASSUME IngestionInv, NEW c \in Request, BeginRequest(c) PROVE IngestionInv'
  BY StreamUploadStep, AuthorizeStep, FinalizeBegins, ReuseStep DEF BeginRequest

LEMMA ContinueStep ==
    ASSUME IngestionInv, NEW c \in Request, Continue(c) PROVE IngestionInv'
  BY ValidateStep, CreateStep, PutStep, EnqueueStep, FailStep, CheckUploadStep,
     HashUploadStep, TagUploadStep, CreateFinalizedStep, EnqueueFinalizedStep,
     CreateReuseStep, ReadSourceStep, StartCopyStep, PollStep, AbortStep, DeleteStep,
     VerifyStep
  DEF Continue

LEMMA EnvironmentStep ==
    ASSUME IngestionInv, Environment PROVE IngestionInv'
  BY UploadStep, ExpireStep, EndCopyStep DEF Environment

LEMMA StutterStep ==
    ASSUME IngestionInv, UNCHANGED ingestionVars PROVE IngestionInv'
  BY DEF ingestionVars, storageVars, IngestionInv, Typed, StorageTypeOK, Apart, RequestOK, OwnerOK,
         FinalizerOK, CopyOK, RunOK, RowOK, BlobOK, JobOK, TagOK, Ready, Whole, Direct, Known

THEOREM IngestionInvHolds == IngestionSpec => []IngestionInv
  <1>1. IngestionInv /\ [IngestionNext]_ingestionVars => IngestionInv'
    BY BeginStep, ContinueStep, ExecuteStep, EnvironmentStep, StutterStep DEF IngestionNext
  <1>2. QED
    BY <1>1, InitInv, PTL DEF IngestionSpec

\* Whatever copies time out, complete late, are aborted or deleted: a job's input is
\* completely there, and is what the manifest records unless a browser may replace it.
THEOREM InputsAreRecorded == IngestionSpec => []EnqueuedInputIsRecorded
  <1>1. IngestionInv => EnqueuedInputIsRecorded
    BY DEF IngestionInv, RunOK, JobOK, Ready, EnqueuedInputIsRecorded
  <1>2. QED
    BY <1>1, IngestionInvHolds, PTL

\* The etag condition of set_blob_metadata is enough: however a browser's PUTs fall
\* between the calls of finalize, a checksum is that of the bytes beside it.
THEOREM TagsAreVerified == IngestionSpec => []VerifiedTags
  <1>1. IngestionInv => VerifiedTags
    BY DEF IngestionInv, RunOK, TagOK, VerifiedTags
  <1>2. QED
    BY <1>1, IngestionInvHolds, PTL

\* Any number of finalize calls of an upload, in any order, enqueue one job at most.
THEOREM FinalizeOnce == IngestionSpec => []OneJobPerAttempt
  <1>1. ASSUME IngestionInv, NEW r \in Run PROVE jobs[r] <= 1
    <2>1. jobs[r] = 0 \/ jobs[r] = 1
      BY <1>1 DEF IngestionInv, RunOK, JobOK
    <2>2. QED
      BY <2>1
  <1>2. IngestionInv => OneJobPerAttempt
    BY <1>1 DEF OneJobPerAttempt
  <1>3. QED
    BY <1>2, IngestionInvHolds, PTL

----------------------------------------------------------------------------
(* Scratch files: one for every multipart request under way, one for every   *)
(* orphan.                                                                   *)

Uploading(s) == s.pc \in Owning /\ s.source = NoRun

Uploaders == {c \in Request : Uploading(req[c])}

ScratchInv ==
    /\ orphans \in 0 .. MaxOrphans
    /\ scratch = orphans + Cardinality(Uploaders)

LEMMA UploadersFinite == IsFiniteSet(Uploaders) /\ Cardinality(Uploaders) \in Nat
  <1>1. IsFiniteSet(Uploaders)
    BY RequestsAssumption, FS_Subset DEF Uploaders
  <1>2. QED
    BY <1>1, FS_CardinalityType

\* What a step makes of the multipart requests.
LEMMA UploadersChange ==
    ASSUME Typed, NEW c \in Request, NEW state, Becomes(c, state)
    PROVE  Uploaders' = IF Uploading(state) THEN Uploaders \cup {c} ELSE Uploaders \ {c}
  <1>1. req'[c] = state /\ \A d \in Request \ {c} : req'[d] = req[d]
    BY DEF Typed, Becomes
  <1>2. QED
    BY <1>1 DEF Uploaders, Uploading

\* A step that neither begins nor ends a multipart request.
LEMMA SameUploaders ==
    ASSUME Typed, ScratchInv, NEW c \in Request, NEW state, Becomes(c, state),
           Uploading(state) <=> Uploading(req[c]), NoFiles
    PROVE  ScratchInv'
  <1>1. Uploaders' = Uploaders
    BY UploadersChange DEF Uploaders
  <1>2. QED
    BY <1>1 DEF ScratchInv, NoFiles

LEMMA UploaderBegins ==
    ASSUME Typed, ScratchInv, NEW c \in Request, NEW state, Becomes(c, state),
           Uploading(state), ~Uploading(req[c]), scratch' = scratch + 1, orphans' = orphans
    PROVE  ScratchInv'
  <1>1. Uploaders' = Uploaders \cup {c} /\ c \notin Uploaders
    BY UploadersChange DEF Uploaders
  <1>2. Cardinality(Uploaders') = Cardinality(Uploaders) + 1
    BY <1>1, UploadersFinite, FS_AddElement
  <1>3. QED
    BY <1>2, UploadersFinite, OrphansAssumption DEF ScratchInv

LEMMA UploaderEnds ==
    ASSUME Typed, ScratchInv, NEW c \in Request, NEW state, Becomes(c, state),
           ~Uploading(state), Uploading(req[c]),
           \/ scratch' = scratch - 1 /\ orphans' = orphans
           \/ scratch' = scratch /\ orphans' = orphans + 1 /\ orphans < MaxOrphans
    PROVE  ScratchInv'
  <1>1. Uploaders' = Uploaders \ {c} /\ c \in Uploaders
    BY UploadersChange DEF Uploaders
  <1>2. Cardinality(Uploaders') = Cardinality(Uploaders) - 1
    BY <1>1, UploadersFinite, FS_RemoveElement
  <1>3. QED
    BY <1>2, UploadersFinite, OrphansAssumption DEF ScratchInv

LEMMA NoUploader == ~Uploading(NoRequest)
  BY NoRequestTyped, Owns DEF Uploading

LEMMA GoesOn ==
    ASSUME Typed, NEW c \in Request, NEW pc, GoOn(c, pc)
    PROVE  \E state : /\ Becomes(c, state) /\ state = [req[c] EXCEPT !.pc = pc]
                      /\ state.pc = pc /\ state.source = req[c].source
  <1>1. req[c] \in RequestState
    BY DEF Typed
  <1>2. Becomes(c, [req[c] EXCEPT !.pc = pc])
    BY DEF GoOn, SetRequest, Becomes
  <1>3. /\ [req[c] EXCEPT !.pc = pc].pc = pc
        /\ [req[c] EXCEPT !.pc = pc].source = req[c].source
    BY <1>1 DEF RequestState
  <1>4. QED
    BY <1>2, <1>3

\* An owner that goes on keeps its file, and a finalize has none.
LEMMA GoesOnOwning ==
    ASSUME Typed, ScratchInv, NEW c \in Request, NEW pc, GoOn(c, pc), NoFiles,
           pc \in Owning <=> req[c].pc \in Owning
    PROVE  ScratchInv'
  BY GoesOn, SameUploaders DEF Uploading

LEMMA EndsWithoutFile ==
    ASSUME Typed, ScratchInv, NEW c \in Request, SetRequest(c, NoRequest), NoFiles,
           ~Uploading(req[c])
    PROVE  ScratchInv'
  BY NoUploader, SameUploaders DEF SetRequest, Becomes

LEMMA FinishedScratch ==
    ASSUME Typed, ScratchInv, NEW c \in Request, Finished(c), req[c].pc \in Owning
    PROVE  ScratchInv'
  <1>1. CASE req[c].source = NoRun
    BY <1>1, NoUploader, UploaderEnds DEF Finished, Uploading, SetRequest, Becomes, RemoveScratch
  <1>2. CASE req[c].source # NoRun
    BY <1>2, EndsWithoutFile DEF Finished, Uploading, NoFiles
  <1>3. QED
    BY <1>1, <1>2

LEMMA BeginScratch ==
    ASSUME IngestionInv, ScratchInv, NEW c \in Request, BeginRequest(c) PROVE ScratchInv'
  <1>0. Typed
    BY DEF IngestionInv
  <1>1. ASSUME NEW r \in Run, StreamUpload(c, r) PROVE ScratchInv'
    <2>1. PICK content \in Footage :
            SetRequest(c, [NoRequest EXCEPT !.pc = "validate", !.run = r, !.held = content])
      BY <1>1 DEF StreamUpload
    <2> DEFINE state == [NoRequest EXCEPT !.pc = "validate", !.run = r, !.held = content]
    <2>2. Uploading(state) /\ ~Uploading(req[c])
      BY <1>1, Owns DEF NoRequest, Uploading, StreamUpload, IsAt
    <2>3. Becomes(c, state) /\ scratch' = scratch + 1 /\ orphans' = orphans
      BY <1>1, <2>1 DEF StreamUpload, SetRequest, Becomes
    <2> HIDE DEF state
    <2>4. QED
      BY <1>0, <2>2, <2>3, UploaderBegins
  <1>2. ASSUME NEW r \in Run, Authorize(c, r) PROVE ScratchInv'
    BY <1>2 DEF Authorize, NoFiles, ScratchInv, Uploaders
  <1>3. ASSUME NEW r \in Run, Finalize(c, r) PROVE ScratchInv'
    <2> DEFINE state == [NoRequest EXCEPT !.pc = "properties", !.run = r]
    <2>1. ~Uploading(state) /\ ~Uploading(req[c]) /\ Becomes(c, state) /\ NoFiles
      BY <1>3, Owns DEF NoRequest, Uploading, Finalize, IsAt, SetRequest, Becomes
    <2> HIDE DEF state
    <2>2. QED
      BY <1>0, <2>1, SameUploaders
  <1>4. ASSUME NEW r \in Run, NEW from \in Run, ReuseInput(c, from, r) PROVE ScratchInv'
    <2> DEFINE state == [NoRequest EXCEPT !.pc = "create", !.run = r, !.source = from]
    <2>1. ~Uploading(state) /\ ~Uploading(req[c]) /\ Becomes(c, state) /\ NoFiles
      BY <1>4, Owns, RunAssumption DEF NoRequest, Uploading, ReuseInput, IsAt, SetRequest, Becomes
    <2> HIDE DEF state
    <2>2. QED
      BY <1>0, <2>1, SameUploaders
  <1>5. QED
    BY <1>1, <1>2, <1>3, <1>4 DEF BeginRequest

LEMMA ContinueScratch ==
    ASSUME IngestionInv, ScratchInv, NEW c \in Request, Continue(c) PROVE ScratchInv'
  <1>0. Typed
    BY DEF IngestionInv
  <1>a. \A pc \in Finalizing : pc \notin Owning
    BY Owns DEF Finalizing
  <1>1. CASE ValidateUpload(c)
    <2>1. req[c].pc = "validate" /\ req[c].pc \in Owning /\ Uploading(req[c])
      BY <1>1, OwnerState, Owns DEF ValidateUpload, IsAt, Uploading, OwnerOK
    <2>2. QED
      BY <1>0, <1>1, <2>1, GoesOnOwning, UploaderEnds, NoUploader, Owns
      DEF ValidateUpload, NoFiles, SetRequest, Becomes, RemoveScratch
  <1>2. CASE CreateAnalysis(c)
    <2>1. req[c].pc \in Owning /\ Uploading(req[c])
      BY <1>2, Owns DEF CreateAnalysis, IsAt, Uploading
    <2>2. QED
      BY <1>0, <1>2, <2>1, GoesOnOwning, UploaderEnds, NoUploader, Owns
      DEF CreateAnalysis, NoFiles, SetRequest, Becomes
  <1>3. CASE PutInputFile(c)
    BY <1>0, <1>3, GoesOnOwning, Owns DEF PutInputFile, Call, IsAt
  <1>4. CASE EnqueueUpload(c)
    BY <1>0, <1>4, GoesOnOwning, FinishedScratch, Owns DEF EnqueueUpload, IsAt
  <1>5. CASE FailAttempt(c)
    BY <1>0, <1>5, FinishedScratch, Owns DEF FailAttempt, IsAt
  <1>6. CASE CheckUpload(c) \/ HashUpload(c) \/ TagUpload(c)
    <2>1. ASSUME HashUpload(c) PROVE ScratchInv'
      <3> DEFINE state == [req[c] EXCEPT !.pc = "tag", !.held = blob[req[c].run].data]
      <3>1. ~Uploading(state) /\ ~Uploading(req[c]) /\ NoFiles
        BY <1>0, <2>1, Owns DEF HashUpload, IsAt, Uploading, Typed, RequestState
      <3>2. CASE SetRequest(c, state)
        <4>1. Becomes(c, state)
          BY <3>2 DEF SetRequest, Becomes
        <4> HIDE DEF state
        <4>2. QED
          BY <1>0, <3>1, <4>1, SameUploaders
      <3>3. QED
        BY <1>0, <2>1, <3>1, <3>2, EndsWithoutFile DEF HashUpload
    <2>2. QED
      BY <1>0, <1>6, <2>1, GoesOnOwning, EndsWithoutFile, Owns
      DEF CheckUpload, TagUpload, IsAt, Uploading
  <1>7. CASE CreateFinalized(c) \/ EnqueueFinalized(c)
    BY <1>0, <1>7, GoesOnOwning, EndsWithoutFile, Owns
    DEF CreateFinalized, EnqueueFinalized, IsAt, Uploading
  <1>8. CASE CreateReuse(c)
    BY <1>0, <1>8, GoesOnOwning, EndsWithoutFile, Owns DEF CreateReuse, IsAt, Uploading
  <1>9. CASE ReadSourceBlob(c)
    <2> DEFINE state == [req[c] EXCEPT !.pc = "start", !.held = blob[req[c].source].tag]
    <2>1. (Uploading(state) <=> Uploading(req[c])) /\ NoFiles /\ req[c].pc = "source"
      BY <1>0, <1>9, Owns DEF ReadSourceBlob, IsAt, Uploading, Typed, RequestState
    <2>2. CASE SetRequest(c, state)
      <3>1. Becomes(c, state)
        BY <2>2 DEF SetRequest, Becomes
      <3> HIDE DEF state
      <3>2. QED
        BY <1>0, <2>1, <3>1, SameUploaders
    <2>3. QED
      BY <1>0, <1>9, <2>1, <2>2, GoesOnOwning, Owns DEF ReadSourceBlob
  <1>10. CASE StartCopyInput(c) \/ AbortCopyInput(c)
    BY <1>0, <1>10, GoesOnOwning, Owns DEF StartCopyInput, AbortCopyInput, Call, IsAt
  <1>11. CASE PollCopy(c) \/ DeleteCopy(c) \/ VerifyCopy(c)
    BY <1>0, <1>11, GoesOnOwning, Owns DEF PollCopy, DeleteCopy, VerifyCopy, IsAt
  <1>12. QED
    BY <1>1, <1>2, <1>3, <1>4, <1>5, <1>6, <1>7, <1>8, <1>9, <1>10, <1>11 DEF Continue

LEMMA ScratchStep ==
    ASSUME IngestionInv, ScratchInv, [IngestionNext]_ingestionVars PROVE ScratchInv'
  <1>1. CASE (\E r \in Run : Execute(r)) \/ Environment \/ UNCHANGED ingestionVars
    BY <1>1 DEF Execute, Environment, NoFiles, ingestionVars, ScratchInv, Uploaders
  <1>2. QED
    BY <1>1, BeginScratch, ContinueScratch DEF IngestionNext

THEOREM ScratchInvHolds == IngestionSpec => [](IngestionInv /\ ScratchInv)
  <1>1. IngestionInit => ScratchInv
    <2>1. SUFFICES ASSUME IngestionInit PROVE ScratchInv
      OBVIOUS
    <2>2. Uploaders = {}
      BY <2>1, NoUploader DEF IngestionInit, Uploaders
    <2>3. QED
      BY <2>1, <2>2, FS_EmptySet, OrphansAssumption DEF IngestionInit, ScratchInv
  <1>2. QED
    BY <1>1, ScratchStep, IngestionInvHolds, PTL DEF IngestionSpec

\* No way out of a multipart request leaves its upload behind, except the exceptions
\* between streaming and storing that are counted as orphans.
THEOREM UploadsAreRemoved == IngestionSpec => []ScratchIsAccounted
  <1>1. ASSUME IngestionInv, NEW c \in Request PROVE Uploading(req[c]) <=> Multipart(c)
    <2>1. req[c].pc \in {"idle"} \cup Owning \cup Finalizing
      BY <1>1, Owns DEF IngestionInv, Typed, RequestState, RequestPc, Finalizing
    <2>2. "idle" \notin Owning /\ Owning \cap Finalizing = {}
      BY Owns DEF Finalizing
    <2>3. QED
      BY <1>1, <2>1, <2>2
      DEF Uploading, Multipart, IngestionInv, RequestOK, OwnerOK, FinalizerOK
  <1>2. IngestionInv => Uploaders = {c \in Request : Multipart(c)}
    BY <1>1 DEF Uploaders
  <1>3. IngestionInv /\ ScratchInv => ScratchIsAccounted
    BY <1>2 DEF ScratchInv, ScratchIsAccounted
  <1>4. QED
    BY <1>3, ScratchInvHolds, PTL

\* Every reachable state is well typed; in particular no job is enqueued three times.
THEOREM IngestionTypeCorrect == IngestionSpec => []IngestionTypeOK
  <1>1. ASSUME IngestionInv, ScratchInv PROVE IngestionTypeOK
    <2>1. scratch \in Nat
      BY <1>1, UploadersFinite, OrphansAssumption DEF ScratchInv
    <2>2. ASSUME NEW r \in Run PROVE jobs[r] \in 0 .. 2
      <3>1. jobs[r] = 0 \/ jobs[r] = 1
        BY <1>1 DEF IngestionInv, RunOK, JobOK
      <3>2. QED
        BY <3>1
    <2>3. QED
      BY <1>1, <2>1, <2>2 DEF IngestionTypeOK, IngestionInv, Typed, ScratchInv
  <1>2. QED
    BY <1>1, ScratchInvHolds, PTL

=============================================================================
