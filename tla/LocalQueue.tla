------------------------------- MODULE LocalQueue -------------------------------
(***************************************************************************)
(* The filesystem job queue of a local deployment, shared by worker        *)
(* processes and API requests without any lock: a job is a file, its state *)
(* is the directory the file is in, and the only atomic operations are the *)
(* system calls.  One step is one call that touches the queue or the       *)
(* stored status of a run.                                                 *)
(*                                                                         *)
(* A run is enqueued at most once, so a job and its run share one name.    *)
(* Records are written through a temporary name and renamed, so a record   *)
(* that exists is complete: what a reader tells apart is its claimed_at.   *)
(* The executor and the run store are external here: an execution moves    *)
(* the status of its run to running and then to an outcome.                *)
(***************************************************************************)
EXTENDS Integers

CONSTANTS
    Job,              \* jobs, numbered in the order of their file names
    Worker, Client,   \* worker processes, concurrent API requests
    Faults,           \* enabled faults, a subset of FaultKind
    MaxCrashes        \* bounds the crashes of a behaviour

FaultKind ==
    {"crash",  \* a worker process dies between two calls
     "slow"}   \* an execution outlasts the claim timeout

ASSUME JobAssumption       == Job \subseteq Nat
ASSUME FaultsAssumption    == Faults \subseteq FaultKind
ASSUME ProcessAssumption   == Worker \cap Client = {}
ASSUME CrashesAssumption   == MaxCrashes \in Nat

VARIABLES
    file,     \* directory -> job -> the record there
    status,   \* the status of the run of a job, as the repository has it
    proc,     \* the local state of each worker process and API request
    crashes   \* crashes so far

vars == <<file, status, proc, crashes>>

Directory == {"queued", "claimed", "completed", "failed", "cancelled"}

\* A record by its claimed_at: null, recent, or older than the claim timeout.
Record == {"absent", "unclaimed", "recent", "stale"}

RunStatus == {"none", "queued", "running", "succeeded", "failed", "cancelled"}

Terminal == {"succeeded", "failed", "cancelled"}

Process == Worker \cup Client

NoJob == -1

Pc == {"start", "recover", "recoverLoad", "reset",           \* recover_abandoned
       "poll", "claim", "recheck", "rename", "stamp",        \* claim
       "execute", "complete", "fail", "retire",              \* execute, complete, fail
       "cancelList", "cancelRead",                           \* cancel
       "moveCheck", "move", "drop",                          \* _move_raw
       "idle", "enqueue", "cancelSave", "down"}

\* "todo" is a directory listing still to be looked at; "from", "to" and "next" are
\* the move in progress and where it returns to.
ProcState == [pc   : Pc,
              todo : SUBSET Job,
              job  : Job \cup {NoJob},
              old  : BOOLEAN,
              from : Directory,
              to   : Directory,
              next : Pc]

At(pc) == [pc |-> pc, todo |-> {}, job |-> NoJob, old |-> FALSE,
           from |-> "queued", to |-> "queued", next |-> "idle"]

Init ==
    /\ file = [d \in Directory |-> [j \in Job |-> "absent"]]
    /\ status = [j \in Job |-> "none"]
    /\ proc = [p \in Process |-> IF p \in Worker THEN At("start") ELSE At("idle")]
    /\ crashes = 0

TypeOK ==
    /\ file \in [Directory -> [Job -> Record]]
    /\ status \in [Job -> RunStatus]
    /\ proc \in [Process -> ProcState]
    /\ crashes \in 0 .. MaxCrashes

----------------------------------------------------------------------------
(* System calls.                                                             *)

Present(d, j) == file[d][j] # "absent"

Listing(d) == {j \in Job : Present(d, j)}

\* _write_replace, and the link that publishes a new job.
Write(d, j, record) == file' = [file EXCEPT ![d][j] = record]

Unlink(d, j) == file' = [file EXCEPT ![d][j] = "absent"]

\* os.replace of a source that exists: it overwrites the destination.
Rename(from, to, j) ==
    file' = [file EXCEPT ![to][j] = file[from][j], ![from][j] = "absent"]

Become(p, state) == proc' = [proc EXCEPT ![p] = state] /\ UNCHANGED crashes

\* A step that reads and moves on.
Proceed(p, state) == Become(p, state) /\ UNCHANGED <<file, status>>

\* An exception no caller handles: the worker process dies, the request answers 500.
Raised(p) == IF p \in Worker THEN At("down") ELSE At("idle")

----------------------------------------------------------------------------
(* _move_raw(source, destination).                                           *)

Moving(self, from, to, next) ==
    [self EXCEPT !.pc = "moveCheck", !.from = from, !.to = to, !.next = next]

MoveCheck(p) ==
    LET self == proc[p]
    IN  /\ self.pc = "moveCheck"
        /\ Proceed(p, [self EXCEPT !.pc = IF Present(self.to, self.job) THEN "drop" ELSE "move"])

\* unlink(missing_ok = True): the destination was there.
Drop(p) ==
    LET self == proc[p]
    IN  /\ self.pc = "drop"
        /\ Unlink(self.from, self.job)
        /\ Become(p, [self EXCEPT !.pc = self.next])
        /\ UNCHANGED status

\* os.replace raises when the source is gone.
Move(p) ==
    LET self == proc[p]
    IN  /\ self.pc = "move"
        /\ IF Present(self.from, self.job)
           THEN Rename(self.from, self.to, self.job) /\ Become(p, [self EXCEPT !.pc = self.next])
           ELSE file' = file /\ Become(p, Raised(p))
        /\ UNCHANGED status

----------------------------------------------------------------------------
(* recover_abandoned, once at the start of a worker process.                 *)

RecoverList(p) ==
    /\ proc[p].pc = "start"
    /\ Proceed(p, [At("recover") EXCEPT !.todo = Listing("claimed")])

\* A record that is gone by now raises in _read, which quarantines it, or in stat.
RecoverRead(p, j) ==
    LET self == [proc[p] EXCEPT !.todo = @ \ {j}, !.job = j]
    IN  /\ proc[p].pc = "recover"
        /\ j \in proc[p].todo
        /\ IF Present("claimed", j)
           THEN Proceed(p, [self EXCEPT !.pc = "recoverLoad", !.old = (file["claimed"][j] = "stale")])
           ELSE \/ Proceed(p, Moving(self, "claimed", "failed", "recover"))
                \/ Proceed(p, Raised(p))

\* Seeded fault: the name of the status is taken for the name of the directory.
RetiredByName(outcome) == outcome

\* The directory of a terminal run; "succeeded" stands for partial too.
Retired(outcome) == IF outcome = "succeeded" THEN "completed" ELSE outcome

RecoverLoad(p) ==
    LET self == proc[p]
    IN  /\ self.pc = "recoverLoad"
        /\ Proceed(p, IF status[self.job] \in Terminal
                      THEN Moving(self, "claimed", Retired(status[self.job]), "recover")
                      ELSE IF self.old THEN Moving(self, "claimed", "queued", "reset")
                      ELSE [self EXCEPT !.pc = "recover"])

\* The requeued record is written after it was moved.
Reset(p) ==
    /\ proc[p].pc = "reset"
    /\ Write("queued", proc[p].job, "unclaimed")
    /\ Become(p, [proc[p] EXCEPT !.pc = "recover"])
    /\ UNCHANGED status

RecoverDone(p) ==
    /\ proc[p].pc = "recover"
    /\ proc[p].todo = {}
    /\ Proceed(p, At("poll"))

----------------------------------------------------------------------------
(* claim.                                                                    *)

ClaimList(p) ==
    /\ proc[p].pc = "poll"
    /\ Listing("queued") # {}
    /\ Proceed(p, [At("claim") EXCEPT !.todo = Listing("queued")])

Continue(self) == [self EXCEPT !.pc = "claim"]

\* The listing is sorted.  A record that is gone by now raises in stat, which is
\* skipped, or in the rest of _read, after which the file is looked for again.
ClaimRead(p, j) ==
    LET self == [proc[p] EXCEPT !.todo = @ \ {j}, !.job = j]
    IN  /\ proc[p].pc = "claim"
        /\ j \in proc[p].todo /\ \A other \in proc[p].todo : j <= other
        /\ IF Present("queued", j)
           THEN Proceed(p, [self EXCEPT !.pc = "rename"])
           ELSE \/ Proceed(p, Continue(self))
                \/ Proceed(p, [self EXCEPT !.pc = "recheck"])

\* source.exists(): it is back, so it is taken for a malformed record.
Recheck(p) ==
    LET self == proc[p]
    IN  /\ self.pc = "recheck"
        /\ Proceed(p, IF Present("queued", self.job)
                      THEN Moving(self, "queued", "failed", "claim") ELSE Continue(self))

\* Seeded fault: a rename that finds no source is taken for a success.
ClaimAnyway(p) ==
    LET self == proc[p]
    IN  /\ self.pc = "rename"
        /\ IF Present("queued", self.job)
           THEN Rename("queued", "claimed", self.job)
           ELSE file' = file
        /\ Become(p, [self EXCEPT !.pc = "stamp"])
        /\ UNCHANGED status

\* Seeded fault: the record is taken out of queued/, to be written to claimed/ next.
ClaimByUnlink(p) ==
    LET self == proc[p]
    IN  /\ self.pc = "rename"
        /\ IF Present("queued", self.job)
           THEN Unlink("queued", self.job) /\ Become(p, [self EXCEPT !.pc = "stamp"])
           ELSE file' = file /\ Become(p, Continue(self))
        /\ UNCHANGED status

\* Seeded fault: the record is linked into claimed/, as enqueue publishes it.
ClaimByLink(p) ==
    LET self == proc[p]
    IN  /\ self.pc = "rename"
        /\ IF Present("queued", self.job)
           THEN Write("claimed", self.job, file["queued"][self.job])
                /\ Become(p, [self EXCEPT !.pc = "stamp"])
           ELSE file' = file /\ Become(p, Continue(self))
        /\ UNCHANGED status

\* os.replace to claimed/: without a source, another worker was faster.
ClaimRename(p) ==
    LET self == proc[p]
    IN  /\ self.pc = "rename"
        /\ IF Present("queued", self.job)
           THEN Rename("queued", "claimed", self.job) /\ Become(p, [self EXCEPT !.pc = "stamp"])
           ELSE file' = file /\ Become(p, Continue(self))
        /\ UNCHANGED status

\* Seeded fault: the claim is not returned to the worker.
StampUnreturned(p) ==
    /\ proc[p].pc = "stamp"
    /\ Write("claimed", proc[p].job, "recent")
    /\ Become(p, At("poll"))
    /\ UNCHANGED status

\* Seeded fault: the job is completed before it is executed.
StampCompleting(p) ==
    /\ proc[p].pc = "stamp"
    /\ Write("claimed", proc[p].job, "recent")
    /\ Become(p, [At("complete") EXCEPT !.job = proc[p].job])
    /\ UNCHANGED status

\* The claimed record is written after it was moved.
Stamp(p) ==
    /\ proc[p].pc = "stamp"
    /\ Write("claimed", proc[p].job, "recent")
    /\ Become(p, [At("execute") EXCEPT !.job = proc[p].job])
    /\ UNCHANGED status

ClaimNothing(p) ==
    /\ proc[p].pc = "claim"
    /\ proc[p].todo = {}
    /\ Proceed(p, At("poll"))

----------------------------------------------------------------------------
(* The worker executes the job and settles it.                               *)

Settling(self, outcome) ==
    [self EXCEPT !.pc = CASE outcome = "succeeded" -> "complete"
                          [] outcome = "failed"    -> "fail"
                          [] OTHER                 -> "cancelList"]

ExecutionStarts(p) ==
    LET j == proc[p].job
    IN  /\ proc[p].pc = "execute"
        /\ status[j] = "queued"
        /\ status' = [status EXCEPT ![j] = "running"]
        /\ UNCHANGED <<file, proc, crashes>>

ExecutionEnds(p, outcome) ==
    LET j == proc[p].job
    IN  /\ proc[p].pc = "execute"
        /\ status[j] = "running"
        /\ status' = [status EXCEPT ![j] = outcome]
        /\ Become(p, Settling(proc[p], outcome))
        /\ UNCHANGED file

\* The run became terminal under the execution, or before it began: execute returns
\* the status it found, or a refused save ends the process.
ExecutionOvertaken(p) ==
    /\ proc[p].pc = "execute"
    /\ status[proc[p].job] \in Terminal
    /\ \/ Proceed(p, Settling(proc[p], status[proc[p].job]))
       \/ Proceed(p, Raised(p))

\* _terminal_move: nothing to do when the job has left claimed/ or is already there.
Settle(p) ==
    LET self == proc[p]
        to   == IF self.pc = "complete" THEN "completed" ELSE "failed"
    IN  /\ self.pc \in {"complete", "fail"}
        /\ Proceed(p, IF ~Present(to, self.job) /\ Present("claimed", self.job)
                      THEN [self EXCEPT !.pc = "retire", !.to = to] ELSE At("poll"))

Retire(p) ==
    LET self == proc[p]
    IN  /\ self.pc = "retire"
        /\ IF Present("claimed", self.job)
           THEN Rename("claimed", self.to, self.job) /\ Become(p, At("poll"))
           ELSE file' = file /\ Become(p, Raised(p))
        /\ UNCHANGED status

----------------------------------------------------------------------------
(* cancel, called by the API for a queued run and by a worker whose execution *)
(* was cancelled: it looks in queued/ and then in claimed/.                  *)

Cancelled(p) == IF p \in Worker THEN "poll" ELSE "cancelSave"

LookFurther(p) ==
    IF proc[p].from = "queued"
    THEN [proc[p] EXCEPT !.pc = "cancelList", !.todo = {}, !.from = "claimed"]
    ELSE [proc[p] EXCEPT !.pc = Cancelled(p), !.todo = {}]

\* The records of the listing still to be read: the last of them ends the directory.
CancelReading(p, listing) ==
    IF listing = {} THEN LookFurther(p)
    ELSE [proc[p] EXCEPT !.pc = "cancelRead", !.todo = listing]

CancelList(p) ==
    /\ proc[p].pc = "cancelList"
    /\ Proceed(p, CancelReading(p, Listing(proc[p].from)))

\* The listing is not sorted, and the records of other runs are read on the way.  One
\* that is gone by now, whosever it is, is skipped or raises in stat.
CancelRead(p, j) ==
    LET self == proc[p]
        rest == self.todo \ {j}
    IN  /\ self.pc = "cancelRead"
        /\ j \in self.todo
        /\ IF Present(self.from, j) /\ j = self.job
           THEN Proceed(p, Moving([self EXCEPT !.todo = {}], self.from, "cancelled", Cancelled(p)))
           ELSE \/ Proceed(p, CancelReading(p, rest))
                \/ ~Present(self.from, j) /\ Proceed(p, Raised(p))

----------------------------------------------------------------------------
(* API requests.                                                             *)

\* The run is stored before its job is enqueued.
Submit(c, j) ==
    /\ proc[c].pc = "idle"
    /\ status[j] = "none"
    /\ status' = [status EXCEPT ![j] = "queued"]
    /\ Become(c, [At("enqueue") EXCEPT !.job = j])
    /\ UNCHANGED file

\* The run-index reservation succeeds, the run having no other job; then the link.
Enqueue(c) ==
    /\ proc[c].pc = "enqueue"
    /\ Write("queued", proc[c].job, "unclaimed")
    /\ Become(c, At("idle"))
    /\ UNCHANGED status

\* A running run is only asked to stop, which the executor may or may not heed.
LoadForCancel(c, j) ==
    /\ proc[c].pc = "idle"
    /\ status[j] = "queued"
    /\ Proceed(c, [At("cancelList") EXCEPT !.job = j])

\* The repository refuses to change a terminal run.
CancelSave(c) ==
    LET j == proc[c].job
    IN  /\ proc[c].pc = "cancelSave"
        /\ status' = IF status[j] \in Terminal THEN status ELSE [status EXCEPT ![j] = "cancelled"]
        /\ Become(c, At("idle"))
        /\ UNCHANGED file

----------------------------------------------------------------------------
(* Time and crashes.                                                         *)

Holds(p, j) ==
    /\ proc[p].job = j
    /\ proc[p].pc \in {"stamp", "execute", "complete", "fail", "retire"}

\* A claim outlives the timeout: its worker died, or is slow.
Age(j) ==
    /\ file["claimed"][j] = "recent"
    /\ "slow" \in Faults \/ \A w \in Worker : ~Holds(w, j)
    /\ Write("claimed", j, "stale")
    /\ UNCHANGED <<status, proc, crashes>>

Crash(p) ==
    /\ "crash" \in Faults
    /\ crashes < MaxCrashes
    /\ proc[p].pc \notin {"poll", "down"}
    /\ proc' = [proc EXCEPT ![p] = At("down")]
    /\ crashes' = crashes + 1
    /\ UNCHANGED <<file, status>>

Restart(p) ==
    /\ proc[p].pc = "down"
    /\ Proceed(p, At("start"))

----------------------------------------------------------------------------
(* The system.                                                               *)

MoveStep(p) == MoveCheck(p) \/ Drop(p) \/ Move(p)

CancelStep(p) == CancelList(p) \/ \E j \in Job : CancelRead(p, j)

WorkerStep(w) ==
    \/ RecoverList(w) \/ RecoverLoad(w) \/ Reset(w) \/ RecoverDone(w)
    \/ \E j \in Job : RecoverRead(w, j) \/ ClaimRead(w, j)
    \/ ClaimList(w) \/ Recheck(w) \/ ClaimRename(w) \/ Stamp(w) \/ ClaimNothing(w)
    \/ ExecutionStarts(w) \/ (\E outcome \in Terminal : ExecutionEnds(w, outcome))
    \/ ExecutionOvertaken(w) \/ Settle(w) \/ Retire(w)
    \/ MoveStep(w) \/ CancelStep(w)
    \/ Restart(w)

\* What a request does once it has begun.
RequestStep(c) == Enqueue(c) \/ CancelSave(c) \/ MoveStep(c) \/ CancelStep(c)

Next ==
    \/ \E w \in Worker : WorkerStep(w) \/ Crash(w)
    \/ \E c \in Client : RequestStep(c) \/ \E j \in Job : Submit(c, j) \/ LoadForCancel(c, j)
    \/ \E j \in Job : Age(j)

Spec == Init /\ [][Next]_vars

\* Processes run on and workers are restarted; time passes for abandoned claims.
Fairness ==
    /\ \A w \in Worker : WF_vars(WorkerStep(w))
    /\ \A c \in Client : WF_vars(RequestStep(c))
    /\ \A j \in Job : WF_vars(Age(j))

FairSpec == Spec /\ Fairness

----------------------------------------------------------------------------
(* Properties.                                                               *)

\* A job is held by one worker at a time, as "process-safe" promises.  It needs
\* workers that neither die nor outlast the claim timeout.
ClaimsAreExclusive ==
    \A j \in Job : \A v, w \in Worker : Holds(v, j) /\ Holds(w, j) => v = w

\* The run of an unfinished job never loses its record: it is queued or claimed, or a
\* request is about to put it there or to end the run.
UnfinishedJobsAreKept ==
    \A j \in Job :
        status[j] \in {"queued", "running"} =>
            \/ Present("queued", j) \/ Present("claimed", j)
            \/ \E c \in Client : proc[c].job = j /\ proc[c].pc \in {"enqueue", "cancelSave"}

\* A record retires only when its run is over, or a request is about to end it.
RetiredRunsAreOver ==
    \A j \in Job :
        (\E d \in {"completed", "failed", "cancelled"} : Present(d, j)) =>
            \/ status[j] \in Terminal
            \/ \E c \in Client : proc[c].job = j /\ proc[c].pc = "cancelSave"

\* A live job is never both queued and claimed: otherwise a second worker takes it.
OneLiveRecord == \A j \in Job : ~(Present("queued", j) /\ Present("claimed", j))

\* Every enqueued job comes to an end, whoever claims or cancels it.
JobsEnd == \A j \in Job : Present("queued", j) ~> status[j] \in Terminal

\* "Abandoned filesystem claims are recovered on the next worker start after the
\* configured claim timeout": a claim without a worker has a claimed_at to go by.
AbandonedClaimsAreRecoverable ==
    \A j \in Job :
        /\ file["claimed"][j] = "unclaimed"
        /\ status[j] \notin Terminal
        => \E w \in Worker : Holds(w, j)

=============================================================================
