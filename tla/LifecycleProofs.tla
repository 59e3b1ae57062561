---------------------------- MODULE LifecycleProofs ----------------------------
(***************************************************************************)
(* AnalysisExecution implements AttemptLifecycle, for every value of the   *)
(* constants: every step of the platform is a step of the lifecycle or     *)
(* leaves its view of the attempts alone.                                  *)
(***************************************************************************)
EXTENDS AnalysisExecutionProofs

\* What a request about to create an attempt holds: a first attempt, or the
\* successor of a run that is terminal and therefore still what it was loaded as.
Creatable(id, run) ==
    \/ run = New(id)
    \/ \E p \in RunId : Retryable(row[p]) /\ run = RetryFrom(p, row[p])

RequestsLinked ==
    \A c \in Client : client[c].pc = "create" => Creatable(client[c].run, client[c].snap)

LifecycleInv == TypeInv /\ RequestsLinked

\* A creatable run stays creatable while the request holds it.
LEMMA CreatableStays ==
    ASSUME TypeInv, [Next]_vars, NEW id, NEW run, Creatable(id, run)
    PROVE  Creatable(id, run)'
  <1>1. \A p \in RunId : Retryable(row[p]) => row'[p] = row[p]
    BY TerminalStep DEF Retryable, IsTerminal, TerminalStatus
  <1>2. QED
    BY <1>1 DEF Creatable

LEMMA LinkedStep == LifecycleInv /\ [Next]_vars => RequestsLinked'
  <1> SUFFICES ASSUME LifecycleInv, [Next]_vars PROVE RequestsLinked'
    OBVIOUS
  <1>a. client \in [Client -> ClientState] /\ TypeInv /\ RequestsLinked
    BY DEF LifecycleInv, TypeInv, TypeOK
  <1>1. CASE UNCHANGED client
    BY <1>1, <1>a, CreatableStays DEF RequestsLinked
  <1>2. ASSUME NEW c \in Client, NEW state, Request(c, state),
               state.pc = "create" => Creatable(state.run, state.snap)'
        PROVE  RequestsLinked'
    BY <1>2, <1>a, CreatableStays DEF Request, RequestsLinked
  <1>3. ASSUME NEW c \in Client, ClientStep(c) \/ ClientFault(c) PROVE RequestsLinked'
    <2>1. ASSUME NEW r \in RunId, NEW new \in RunId, LoadForRetry(c, r, new)
          PROVE  RequestsLinked'
      <3>1. row' = row /\ Retryable(row[r])
        BY <2>1 DEF LoadForRetry
      <3>2. Creatable(new, RetryFrom(r, row[r]))'
        BY <3>1 DEF Creatable
      <3>3. QED
        BY <2>1, <3>1, <3>2, <1>2 DEF LoadForRetry
    <2>2. ASSUME NEW r \in RunId, NEW new \in RunId, LoadForClone(c, r, new)
          PROVE  RequestsLinked'
      BY <2>2, <1>2 DEF LoadForClone, Creatable
    <2>3. CASE \E r \in RunId : \/ Submit(c, r) \/ FinalizeUpload(c, r)
                               \/ LoadForCancel(c, r) \/ CreateRaises(c, r)
      BY <2>3, <1>2 DEF Submit, FinalizeUpload, LoadForCancel, CreateRaises, NoRequest
    <2>4. client[c] \in ClientState
      BY <1>a
    <2>5. CASE CreateAttempt(c) \/ StoreInput(c) \/ IngestionRaises(c)
      BY <2>4, <2>5, <1>2
      DEF CreateAttempt, StoreInput, IngestionRaises, NoRequest, ClientState
    <2>6. CASE \/ EnqueueJob(c) \/ FailIngestion(c) \/ CancelQueued(c) \/ RequestCancel(c)
               \/ DirectEnqueueRaises(c) \/ RequestDies(c) \/ StoreRaises(c)
      BY <2>6, <1>2 DEF EnqueueJob, FailIngestion, CancelQueued, RequestCancel,
                        DirectEnqueueRaises, RequestDies, StoreRaises, NoRequest
    <2>7. QED
      BY <1>3, <2>1, <2>2, <2>3, <2>5, <2>6 DEF ClientStep, ClientFault
  <1>4. ASSUME NEW w \in Worker, WorkerStep(w) \/ WorkerFault(w) PROVE UNCHANGED client
    BY <1>4 DEF WorkerStep, ExecutorStep, WorkerFault, Receive, DeadLetterOverDelivered,
                CheckExecutable, Complete, LoadRun, CheckQueued, SaveStart, PassFinishedStage,
                SkipOptional, BeginStage, SaveRunning, EndStage, SaveDone, CancelRebuild,
                PublishArtifact, VerifyArtifacts, FinishRun, SaveFinal, HandleCancellation,
                SaveCancelled, HandleFailure, SaveFailed, StepRaises, Crash, Restart,
                Proceed, Persist
  <1>5. ASSUME NEW r \in RunId, BrokerStep(r) PROVE UNCHANGED client
    BY <1>5 DEF BrokerStep, AbandonedLockExpires, LoseLock
  <1>6. QED
    BY <1>1, <1>3, <1>4, <1>5 DEF Next, vars

LEMMA LifecycleInvariant == Spec => []LifecycleInv
  <1>1. Init => LifecycleInv
    BY TypeInit DEF Init, LifecycleInv, RequestsLinked, NoRequest
  <1>2. LifecycleInv /\ [Next]_vars => LifecycleInv'
    BY TypeStep, LinkedStep DEF LifecycleInv
  <1>3. QED
    BY <1>1, <1>2, PTL DEF Spec

----------------------------------------------------------------------------
(* Steps of the platform as steps of the lifecycle.                          *)

\* What the lifecycle sees of the rows: the substitution for its variable.
Attempts == [r \in RunId |-> [status |-> row[r].status, logical |-> row[r].logical,
                              number |-> row[r].number, previous |-> row[r].previous]]

\* An accepted save advances one attempt along the status graph.
LEMMA SaveAdvances ==
    ASSUME TypeInv, TypeInv', NEW r \in RunId, NEW run, Save(r, run)
    PROVE  UNCHANGED Attempts \/ Lifecycle!LifecycleNext
  <1>a. row \in [RunId -> Run] /\ row' \in [RunId -> Run]
    BY DEF TypeInv, TypeOK, RepositoryTypeOK
  <1>1. CASE ~Accepts(r, run)
    BY <1>1 DEF Save, Attempts, Written
  <1>2. CASE Accepts(r, run)
    <2>1. row' = [row EXCEPT ![r] = run] /\ run \in Run /\ row[r] \in Run
      BY <1>2, <1>a DEF Save, Written
    <2>2. /\ run.status \in AllowedStatusTransitions[row[r].status]
          /\ SameProvenance(row[r], run)
      BY <1>2 DEF Accepts, EnsureTransitionAllowed
    <2>3. Attempts' = [Attempts EXCEPT ![r].status = run.status]
      BY <1>a, <2>1, <2>2 DEF Attempts, SameProvenance
    <2>4. run.status \in AnalysisRunStatus
      BY <2>1, <2>2 DEF AllowedStatusTransitions, AnalysisRunStatus, Run
    <2>5. Lifecycle!Advance(r, run.status)
      BY <2>2, <2>3
      DEF Lifecycle!Advance, Lifecycle!AllowedStatusTransitions, Lifecycle!AnalysisRunStatus,
          AllowedStatusTransitions, AnalysisRunStatus, Attempts
    <2>6. QED
      BY <2>4, <2>5
      DEF Lifecycle!LifecycleNext, Lifecycle!AnalysisRunStatus, AnalysisRunStatus
  <1>3. QED
    BY <1>1, <1>2

\* Creating a creatable attempt starts an analysis or continues one.
LEMMA CreateContinues ==
    ASSUME TypeInv, NEW r \in RunId, NEW run, Creatable(r, run), Create(r, run)
    PROVE  UNCHANGED Attempts \/ Lifecycle!LifecycleNext
  <1>a. row \in [RunId -> Run]
    BY DEF TypeInv, TypeOK, RepositoryTypeOK
  <1>1. CASE ~MayCreate(r, run)
    BY <1>1 DEF Create, Attempts, Written
  <1>2. CASE MayCreate(r, run) /\ run = New(r)
    <2>1. row' = [row EXCEPT ![r] = New(r)] /\ row[r].status = "none"
      BY <1>2 DEF Create, MayCreate, Exists, Written
    <2>2. Attempts' = [Attempts EXCEPT ![r] = Lifecycle!View(Lifecycle!New(r))]
      BY <1>a, <2>1 DEF Attempts, New, Lifecycle!View, Lifecycle!New
    <2>3. Lifecycle!CreateFirst(r)
      BY <2>1, <2>2 DEF Lifecycle!CreateFirst, Attempts
    <2>4. QED
      BY <2>3 DEF Lifecycle!LifecycleNext
  <1>3. ASSUME MayCreate(r, run), NEW p \in RunId, Retryable(row[p]),
               run = RetryFrom(p, row[p])
        PROVE  Lifecycle!LifecycleNext
    <2>1. /\ row' = [row EXCEPT ![r] = RetryFrom(p, row[p])]
          /\ row[r].status = "none"
          /\ ~\E q \in RunId : row[q].logical = row[p].logical
                               /\ row[q].number = row[p].number + 1
      BY <1>3 DEF Create, MayCreate, Exists, UniqueAttempt, RetryFrom, Written
    <2>2. Attempts' = [Attempts EXCEPT ![r] =
                          Lifecycle!View(Lifecycle!RetryFrom(p, Attempts[p]))]
      BY <1>a, <2>1 DEF Attempts, RetryFrom, Lifecycle!View, Lifecycle!RetryFrom
    <2>3. Lifecycle!CreateNext(r, p)
      BY <1>3, <2>1, <2>2 DEF Lifecycle!CreateNext, Lifecycle!Retryable, Retryable, Attempts
    <2>4. QED
      BY <2>3 DEF Lifecycle!LifecycleNext
  <1>4. QED
    BY <1>1, <1>2, <1>3 DEF Creatable

LEMMA LifecycleStep ==
    LifecycleInv /\ [Next]_vars => UNCHANGED Attempts \/ Lifecycle!LifecycleNext
  <1> SUFFICES ASSUME LifecycleInv, [Next]_vars
               PROVE  UNCHANGED Attempts \/ Lifecycle!LifecycleNext
    OBVIOUS
  <1>a. TypeInv /\ TypeInv'
    BY TypeStep DEF LifecycleInv
  <1>1. CASE UNCHANGED row
    BY <1>1 DEF Attempts
  <1>2. ASSUME NEW r \in RunId, NEW run, Save(r, run)
        PROVE  UNCHANGED Attempts \/ Lifecycle!LifecycleNext
    BY <1>2, <1>a, SaveAdvances
  <1>3. ASSUME NEW c \in Client, Creation(c)
        PROVE  UNCHANGED Attempts \/ Lifecycle!LifecycleNext
    <2>1. CASE CreateAttempt(c)
      <3>1. /\ client[c].run \in RunId
            /\ Creatable(client[c].run, client[c].snap)
            /\ Create(client[c].run, client[c].snap)
        BY <2>1 DEF CreateAttempt, LifecycleInv, TypeInv, ClientOK, RequestsLinked
      <3>2. QED
        BY <3>1, <1>a, CreateContinues
    <2>2. ASSUME NEW r \in RunId, Submit(c, r) \/ FinalizeUpload(c, r)
          PROVE  UNCHANGED Attempts \/ Lifecycle!LifecycleNext
      <3>1. Creatable(r, New(r)) /\ Create(r, New(r))
        BY <2>2 DEF Submit, FinalizeUpload, Creatable
      <3>2. QED
        BY <3>1, <1>a, CreateContinues
    <2>3. ASSUME NEW r \in RunId, CreateRaises(c, r)
          PROVE  UNCHANGED Attempts \/ Lifecycle!LifecycleNext
      <3>1. PICK run : Creatable(r, run) /\ Create(r, run)
        BY <2>3 DEF CreateRaises, Creatable, LifecycleInv, RequestsLinked
      <3>2. QED
        BY <3>1, <1>a, CreateContinues
    <2>4. QED
      BY <1>3, <2>1, <2>2, <2>3 DEF Creation
  <1>4. QED
    BY <1>a, <1>1, <1>2, <1>3, RowsChangeByRepository DEF RowStep, RowSave

\* The stored attempts of the platform behave as the abstract lifecycle promises:
\* created queued, moved along the status graph, immutable once terminal, and
\* retried at most once, whatever executors, requests and faults interleave.
THEOREM PlatformImplementsLifecycle == Spec => ImplementsLifecycle
  <1>1. Init => Lifecycle!LifecycleInit
    BY DEF Init, RepositoryInit, Lifecycle!LifecycleInit, Lifecycle!View, Lifecycle!NoRun, NoRun
  <1>2. LifecycleInv /\ [Next]_vars => [Lifecycle!LifecycleNext]_Attempts
    BY LifecycleStep
  <1>3. QED
    BY <1>1, <1>2, LifecycleInvariant, PTL
    DEF Spec, ImplementsLifecycle, Lifecycle!LifecycleSpec, Attempts

----------------------------------------------------------------------------
(* Retry chains.                                                             *)

\* One attempt of a chain, as RetryChain describes it.
Linked(r, rows) ==
    rows[r].status # "none" =>
        /\ \A q \in RunId \ {r} :
              rows[q].status # "none" /\ rows[q].logical = rows[r].logical
                => rows[q].number # rows[r].number
        /\ rows[r].number > 1 =>
              LET p == rows[r].previous
              IN  /\ p \in RunId
                  /\ Retryable(rows[p])
                  /\ rows[p].logical = rows[r].logical
                  /\ rows[p].number = rows[r].number - 1

LEMMA ChainIsLinked == RetryChain <=> \A r \in RunId : Linked(r, row)
  BY DEF RetryChain, Linked, Exists

\* Replacing a row by one of the same provenance, or by itself, keeps the links.
LEMMA LinksKept ==
    ASSUME NEW rows \in [RunId -> Run], NEW next \in [RunId -> Run],
           \A r \in RunId : Linked(r, rows),
           \A r \in RunId : SameProvenance(rows[r], next[r])
                            /\ (rows[r].status = "none" <=> next[r].status = "none"),
           \A r \in RunId : Retryable(rows[r]) => next[r] = rows[r]
    PROVE  \A r \in RunId : Linked(r, next)
  <1>1. ASSUME NEW r \in RunId, next[r].status # "none", NEW q \in RunId \ {r},
               next[q].status # "none", next[q].logical = next[r].logical
        PROVE  next[q].number # next[r].number
    BY <1>1 DEF Linked, SameProvenance
  <1>2. ASSUME NEW r \in RunId, next[r].status # "none", next[r].number > 1
        PROVE  /\ next[r].previous \in RunId
               /\ Retryable(next[next[r].previous])
               /\ next[next[r].previous].logical = next[r].logical
               /\ next[next[r].previous].number = next[r].number - 1
    <2>1. SameProvenance(rows[r], next[r]) /\ rows[r].status # "none" /\ rows[r].number > 1
      BY <1>2 DEF SameProvenance
    <2>2. /\ rows[r].previous \in RunId
          /\ Retryable(rows[rows[r].previous])
          /\ rows[rows[r].previous].logical = rows[r].logical
          /\ rows[rows[r].previous].number = rows[r].number - 1
      BY <2>1 DEF Linked
    <2>3. next[rows[r].previous] = rows[rows[r].previous]
      BY <2>2
    <2>4. QED
      BY <2>1, <2>2, <2>3 DEF SameProvenance
  <1>3. QED
    BY <1>1, <1>2 DEF Linked

\* Creating a creatable attempt extends the chains.
LEMMA LinksExtend ==
    ASSUME TypeInv, \A q \in RunId : Linked(q, row),
           NEW r \in RunId, NEW run \in Run, Creatable(r, run), MayCreate(r, run),
           row' = [row EXCEPT ![r] = run]
    PROVE  \A q \in RunId : Linked(q, row')
  <1>a. row \in [RunId -> Run] /\ row[r].status = "none"
    BY DEF TypeInv, TypeOK, RepositoryTypeOK, MayCreate, Exists
  <1>b. \A q \in RunId : q # r => row'[q] = row[q]
    BY <1>a
  <1>c. row'[r] = run
    BY <1>a
  <1>d. \A q \in RunId : Retryable(row[q]) => q # r
    BY <1>a DEF Retryable
  <1>e. \A q \in RunId : ~(row[q].logical = run.logical /\ row[q].number = run.number)
    BY DEF MayCreate, UniqueAttempt
  <1>1. Linked(r, row')
    <2>1. \A q \in RunId \ {r} : row'[q].logical = run.logical => row'[q].number # run.number
      BY <1>b, <1>e
    <2>2. CASE run = New(r)
      BY <1>c, <2>1, <2>2 DEF Linked, New
    <2>3. ASSUME NEW p \in RunId, Retryable(row[p]), run = RetryFrom(p, row[p])
          PROVE  Linked(r, row')
      <3>1. row'[p] = row[p] /\ row[p] \in Run
        BY <1>a, <1>b, <1>d, <2>3
      <3>2. /\ run.previous = p /\ run.logical = row[p].logical
            /\ run.number = row[p].number + 1
        BY <2>3 DEF RetryFrom
      <3>3. row[p].number = run.number - 1
        BY <3>1, <3>2 DEF Run
      <3>4. /\ row'[r].previous = p /\ Retryable(row'[p])
            /\ row'[p].logical = row'[r].logical
            /\ row'[p].number = row'[r].number - 1
        BY <1>c, <2>3, <3>1, <3>2, <3>3
      <3>5. \A q \in RunId \ {r} :
               row'[q].logical = row'[r].logical => row'[q].number # row'[r].number
        BY <1>c, <2>1
      <3>6. QED
        BY <3>4, <3>5 DEF Linked
    <2>4. QED
      BY <2>2, <2>3 DEF Creatable
  <1>2. ASSUME NEW q \in RunId, q # r PROVE Linked(q, row')
    <2>1. Linked(q, row) /\ row'[q] = row[q]
      BY <1>2, <1>b
    <2>2. \A o \in RunId \ {q} : row'[q].status # "none" /\ row'[o].status # "none"
                                 /\ row'[o].logical = row'[q].logical
                                   => row'[o].number # row'[q].number
      BY <1>b, <1>c, <1>e, <2>1 DEF Linked
    <2>3. row'[q].status # "none" /\ row'[q].number > 1
            => /\ row[q].previous \in RunId
               /\ Retryable(row[row[q].previous])
               /\ row'[row[q].previous] = row[row[q].previous]
      BY <1>b, <1>d, <2>1 DEF Linked
    <2>4. QED
      BY <2>1, <2>2, <2>3 DEF Linked
  <1>3. QED
    BY <1>1, <1>2

LEMMA ChainStep == LifecycleInv /\ RetryChain /\ [Next]_vars => RetryChain'
  <1> SUFFICES ASSUME LifecycleInv, \A r \in RunId : Linked(r, row), [Next]_vars
               PROVE  \A r \in RunId : Linked(r, row')
    BY ChainIsLinked DEF RetryChain, Linked, Exists
  <1>a. TypeInv /\ row \in [RunId -> Run] /\ row' \in [RunId -> Run]
    BY TypeStep DEF LifecycleInv, TypeInv, TypeOK, RepositoryTypeOK
  <1>1. CASE UNCHANGED row
    BY <1>1
  <1>2. ASSUME NEW r \in RunId, NEW run, Save(r, run), row' # row
        PROVE  \A q \in RunId : Linked(q, row')
    <2>1. row' = [row EXCEPT ![r] = run] /\ Accepts(r, run)
      BY <1>2 DEF Save, Written
    <2>2. SameProvenance(row[r], run) /\ run.status # "none" /\ row[r].status # "none"
      <3>1. SameProvenance(row[r], run) /\ run.status \in AllowedStatusTransitions[row[r].status]
        BY <2>1 DEF Accepts, EnsureTransitionAllowed
      <3>2. row[r].status \in AnalysisRunStatus \cup {"none"}
        BY <1>a DEF Run
      <3>3. QED
        BY <3>1, <3>2 DEF AllowedStatusTransitions, AnalysisRunStatus
    <2>3. \A q \in RunId : SameProvenance(row[q], row'[q])
                           /\ (row[q].status = "none" <=> row'[q].status = "none")
      BY <1>a, <2>1, <2>2 DEF SameProvenance
    <2>4. \A q \in RunId : Retryable(row[q]) => row'[q] = row[q]
      BY <1>a, TerminalStep DEF Retryable, IsTerminal, TerminalStatus
    <2>5. QED
      BY <1>a, <2>3, <2>4, LinksKept
  <1>3. ASSUME NEW r \in RunId, NEW run, run \in Run, Creatable(r, run), Create(r, run)
        PROVE  \A q \in RunId : Linked(q, row')
    BY <1>1, <1>3, <1>a, LinksExtend DEF Create, Written
  <1>4. ASSUME NEW c \in Client, Creation(c) PROVE \A q \in RunId : Linked(q, row')
    <2>1. CASE CreateAttempt(c)
      BY <2>1, <1>3
      DEF CreateAttempt, LifecycleInv, TypeInv, TypeOK, ClientOK, ClientState, RequestsLinked
    <2>2. ASSUME NEW r \in RunId, Submit(c, r) \/ FinalizeUpload(c, r)
          PROVE  \A q \in RunId : Linked(q, row')
      BY <2>2, <1>3, RunTypes DEF Submit, FinalizeUpload, Creatable
    <2>3. ASSUME NEW r \in RunId, CreateRaises(c, r)
          PROVE  \A q \in RunId : Linked(q, row')
      <3>1. CASE Create(r, New(r))
        BY <3>1, <1>3, RunTypes DEF Creatable
      <3>2. CASE client[c].pc = "create" /\ client[c].run = r /\ Create(r, client[c].snap)
        BY <3>2, <1>3
        DEF LifecycleInv, TypeInv, TypeOK, ClientState, RequestsLinked
      <3>3. QED
        BY <2>3, <3>1, <3>2 DEF CreateRaises
    <2>4. QED
      BY <1>4, <2>1, <2>2, <2>3 DEF Creation
  <1>5. QED
    BY <1>a, <1>1, <1>2, <1>4, RowsChangeByRepository DEF RowStep, RowSave

\* Attempts of one analysis form a chain, however many retries race.
THEOREM RetriesFormChains == Spec => []RetryChain
  <1>1. Init => RetryChain
    BY DEF Init, RepositoryInit, NoRun, RetryChain, Exists
  <1>2. QED
    BY <1>1, ChainStep, LifecycleInvariant, PTL DEF Spec

=============================================================================
