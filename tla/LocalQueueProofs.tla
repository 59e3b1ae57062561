---------------------------- MODULE LocalQueueProofs ----------------------------
(***************************************************************************)
(* The filesystem queue, for every number of jobs, workers and requests:   *)
(* what it keeps as long as either no worker dies or outlasts the claim    *)
(* timeout ("calm"), or one worker runs, which may do both.                *)
(***************************************************************************)
EXTENDS MCLocalQueue, TLAPS

Moves == {"moveCheck", "move", "drop"}

Cancels == {"cancelList", "cancelRead"}

Holding == {"stamp", "execute", "complete", "fail", "retire"}

\* The steps of a worker that are about a job.
Busy == {"recoverLoad", "reset", "recheck", "rename"} \cup Moves \cup Cancels \cup Holding

Recovering(self) ==
    \/ self.pc \in {"recover", "recoverLoad", "reset"}
    \/ self.pc \in Moves /\ self.next \in {"recover", "reset"}

Keeps(self, j) == self.pc \in Holding /\ self.job = j

\* The run of a job is over, or a request is about to end it.
Over(j) ==
    \/ status[j] \in Terminal
    \/ \E c \in Client : proc[c].job = j /\ proc[c].pc = "cancelSave"

Sending(j) == \E c \in Client : proc[c].pc = "enqueue" /\ proc[c].job = j

\* The job of a run has reached the queue.
Sent(j) == status[j] # "none" /\ ~Sending(j)

----------------------------------------------------------------------------
(* The invariant.                                                            *)

\* A record appears in queued/ once, moves to claimed/ once, and leaves it for good
\* when its run is over.  While workers are calm, a claim without a holder is the
\* remains of a run that is over, so no recovery requeues it.
FileOK(j, calm) ==
    /\ (\E d \in Directory : Present(d, j)) => Sent(j)
    /\ ~(Present("queued", j) /\ Present("claimed", j))
    /\ (\E d \in Directory \ {"queued", "claimed"} : Present(d, j)) => Over(j)
    /\ Sent(j) => Present("queued", j) \/ Present("claimed", j) \/ Over(j)
    /\ calm => file["queued"][j] \in {"absent", "unclaimed"}
    /\ calm /\ file["claimed"][j] = "stale" => status[j] \in Terminal
    /\ calm /\ Present("claimed", j) =>
           status[j] \in Terminal \/ \E w \in Worker : Keeps(proc[w], j)

\* A worker that moves a record into a directory of retired jobs knows that the run is
\* over; only a worker that is alone moves one back to queued/.
MoveOK(self, calm) ==
    /\ self.from \in {"queued", "claimed"} /\ self.to # "claimed"
    /\ self.to # "queued" => Over(self.job) /\ self.next \in {"recover", "poll"}
    /\ self.to = "queued" => /\ ~calm /\ self.from = "claimed" /\ self.next = "reset"
                             /\ self.pc = "drop" => ~Present("claimed", self.job)

WorkerOK(self, calm) ==
    /\ self.pc \notin {"idle", "enqueue", "cancelSave"}
    /\ self.pc \in Busy => self.job \in Job /\ Sent(self.job)
    /\ \A j \in self.todo : Sent(j)
    /\ Recovering(self) => \A j \in self.todo : Present("claimed", j) \/ Over(j)
    /\ Recovering(self) /\ self.pc # "recover" => self.job \notin self.todo
    /\ self.pc = "recoverLoad" /\ self.old /\ calm => status[self.job] \in Terminal
    /\ self.pc \in Moves => MoveOK(self, calm)
    /\ self.pc = "reset" => ~calm /\ ~Present("claimed", self.job)
    /\ self.pc \in {"recheck"} \cup Holding => ~Present("queued", self.job)
    /\ self.pc \in {"complete", "fail", "retire"} \cup Cancels => status[self.job] \in Terminal
    /\ self.pc = "retire" => self.to \in {"completed", "failed"}
    /\ self.pc \in Cancels => self.from \in {"queued", "claimed"}
    /\ self.pc = "execute" => self.from = "queued"

ClientOK(self) ==
    /\ self.pc \in {"idle", "enqueue", "cancelSave"} \cup Cancels \cup Moves
    /\ self.pc # "idle" => self.job \in Job /\ status[self.job] # "none"
    /\ self.pc \in Cancels \cup Moves => self.from \in {"queued", "claimed"}
    /\ self.pc \in Moves => self.to = "cancelled" /\ self.next = "cancelSave"
    /\ self.pc = "drop" => Over(self.job) /\ Sent(self.job)

OneSender ==
    \A c, d \in Client :
        proc[c].pc = "enqueue" /\ proc[d].pc = "enqueue" /\ proc[c].job = proc[d].job => c = d

\* Which workers run: any number that are calm, or one.
Alone(A, calm) ==
    /\ \A w \in Worker \ A : proc[w] = At("start")
    /\ calm \/ \A v, w \in A : v = w

QueueInv(A, calm) ==
    /\ TypeOK
    /\ \A j \in Job : FileOK(j, calm)
    /\ \A w \in Worker : WorkerOK(proc[w], calm)
    /\ \A c \in Client : ClientOK(proc[c])
    /\ OneSender
    /\ ClaimsAreExclusive
    /\ Alone(A, calm)

\* The steps of those workers, of the requests, and of time.
QueueNext(A, calm) ==
    \/ \E w \in A : WorkerStep(w) \/ (~calm /\ Crash(w))
    \/ \E c \in Client : RequestStep(c) \/ \E j \in Job : Submit(c, j) \/ LoadForCancel(c, j)
    \/ \E j \in Job : Age(j) /\ (calm => \A w \in Worker : ~Holds(w, j))

----------------------------------------------------------------------------
(* What every step respects, and what therefore holds of those that take no  *)
(* part in it.                                                               *)

Progress ==
    \A j \in Job :
        /\ status[j] \in Terminal => status'[j] \in Terminal
        /\ status[j] # "none" => status'[j] # "none"
        /\ Over(j) => Over(j)'
        /\ Sent(j) => Sent(j)'

KeepsClaims == \A j \in Job : Present("claimed", j) => Present("claimed", j)' \/ Over(j)'

NoRequeue == \A j \in Job : Sent(j) /\ ~Present("queued", j) => ~Present("queued", j)'

NoClaim == \A j \in Job : ~Present("claimed", j) => ~Present("claimed", j)'

LEMMA WorkerStable ==
    ASSUME NEW s \in ProcState, NEW calm, WorkerOK(s, calm), Progress, KeepsClaims, NoRequeue,
           calm \/ NoClaim
    PROVE  WorkerOK(s, calm)'
  <1>1. s.todo \subseteq Job /\ s.job \in Job \cup {NoJob}
    BY DEF ProcState
  <1>2. s.pc \in Busy => Sent(s.job)' /\ s.job \in Job /\ Sent(s.job)
    BY DEF WorkerOK, Progress
  <1>3. \A j \in s.todo : Sent(j)'
    BY <1>1 DEF WorkerOK, Progress
  <1>4. Recovering(s) => \A j \in s.todo : Present("claimed", j)' \/ Over(j)'
    BY <1>1 DEF WorkerOK, Progress, KeepsClaims
  <1>5. s.pc = "recoverLoad" /\ s.old /\ calm => status'[s.job] \in Terminal
    BY <1>2 DEF WorkerOK, Progress, Busy
  <1>6. s.pc \in Moves => MoveOK(s, calm)'
    BY <1>2 DEF WorkerOK, MoveOK, Progress, NoClaim, Busy
  <1>7. s.pc = "reset" => ~calm /\ ~Present("claimed", s.job)'
    BY <1>2 DEF WorkerOK, NoClaim, Busy
  <1>8. s.pc \in {"recheck"} \cup Holding => ~Present("queued", s.job)'
    BY <1>2 DEF WorkerOK, NoRequeue, Busy
  <1>9. s.pc \in {"complete", "fail", "retire"} \cup Cancels => status'[s.job] \in Terminal
    BY <1>2 DEF WorkerOK, Progress, Busy, Holding
  <1>10. QED
    BY <1>2, <1>3, <1>4, <1>5, <1>6, <1>7, <1>8, <1>9 DEF WorkerOK

LEMMA ClientStable ==
    ASSUME NEW s \in ProcState, ClientOK(s), Progress
    PROVE  ClientOK(s)'
  BY DEF ClientOK, Progress, Moves

\* A worker that has not begun is in order, whatever happens.
LEMMA StartOK == \A calm : WorkerOK(At("start"), calm) /\ WorkerOK(At("start"), calm)'
  BY DEF At, WorkerOK, Recovering, Moves, Cancels, Holding, Busy

LEMMA AtStates ==
    \A pc \in Pc : At(pc) \in ProcState /\ At(pc).pc = pc /\ At(pc).todo = {}
  BY DEF At, ProcState, Directory, Pc

\* A worker acts: it is enough to look at the files and at that worker.
LEMMA WorkerActs ==
    ASSUME NEW A \in SUBSET Worker, NEW calm \in BOOLEAN, QueueInv(A, calm),
           NEW w \in A, NEW state \in ProcState, proc' = [proc EXCEPT ![w] = state],
           file' \in [Directory -> [Job -> Record]], status' \in [Job -> RunStatus],
           crashes' \in 0 .. MaxCrashes,
           Progress, calm => KeepsClaims /\ NoRequeue,
           \A j \in Job : FileOK(j, calm)',
           WorkerOK(state, calm)',
           \A j \in Job : Keeps(state, j) =>
               Keeps(proc[w], j) \/ \A v \in Worker : ~Keeps(proc[v], j)
    PROVE  QueueInv(A, calm)'
  <1>a. /\ proc \in [Process -> ProcState] /\ w \in Process /\ w \notin Client
        /\ Worker \subseteq Process /\ Client \subseteq Process
    BY ProcessAssumption DEF QueueInv, TypeOK, Process
  <1>b. proc'[w] = state /\ \A q \in Process \ {w} : proc'[q] = proc[q]
    BY <1>a
  <1>1. TypeOK'
    BY <1>a DEF TypeOK
  <1>2. ASSUME NEW v \in Worker PROVE WorkerOK(proc[v], calm)'
    <2>1. CASE v = w
      BY <1>b, <2>1
    <2>2. CASE v # w /\ calm
      <3>1. PICK s \in ProcState : s = proc[v]
        BY <1>a
      <3>2. WorkerOK(s, calm)
        BY <3>1 DEF QueueInv
      <3>3. WorkerOK(s, calm)'
        BY <2>2, <3>2, WorkerStable
      <3>4. proc'[v] = s
        BY <1>a, <1>b, <2>2, <3>1
      <3>5. QED
        BY <3>3, <3>4 DEF WorkerOK, MoveOK
    <2>3. CASE v # w /\ ~calm
      <3>1. proc'[v] = At("start")
        BY <1>a, <1>b, <2>3 DEF QueueInv, Alone
      <3>2. QED
        BY <3>1, StartOK DEF WorkerOK, MoveOK
    <2>4. QED
      BY <2>1, <2>2, <2>3
  <1>3. ASSUME NEW c \in Client PROVE ClientOK(proc[c])'
    <2>1. PICK s \in ProcState : s = proc[c]
      BY <1>a
    <2>2. proc'[c] = s /\ ClientOK(s)
      BY <1>a, <1>b, <2>1 DEF QueueInv
    <2>3. ClientOK(s)'
      BY <2>2, ClientStable
    <2>4. QED
      BY <2>2, <2>3 DEF ClientOK
  <1>4. OneSender'
    BY <1>a, <1>b DEF QueueInv, OneSender
  <1>5. ClaimsAreExclusive'
    <2>1. \A j \in Job : \A u, v \in Worker : Keeps(proc[u], j) /\ Keeps(proc[v], j) => u = v
      BY DEF QueueInv, ClaimsAreExclusive, Holds, Keeps, Holding
    <2>2. \A j \in Job : \A u, v \in Worker :
             Keeps(proc'[u], j) /\ Keeps(proc'[v], j) => u = v
      BY <1>a, <1>b, <2>1
    <2>3. QED
      BY <2>2 DEF ClaimsAreExclusive, Holds, Keeps, Holding
  <1>6. Alone(A, calm)'
    BY <1>a, <1>b DEF QueueInv, Alone
  <1>7. QED
    BY <1>1, <1>2, <1>3, <1>4, <1>5, <1>6 DEF QueueInv

\* A request acts.
LEMMA ClientActs ==
    ASSUME NEW A \in SUBSET Worker, NEW calm \in BOOLEAN, QueueInv(A, calm),
           NEW c \in Client, NEW state \in ProcState, Become(c, state),
           file' \in [Directory -> [Job -> Record]], status' \in [Job -> RunStatus],
           Progress, KeepsClaims, NoRequeue, NoClaim,
           \A j \in Job : FileOK(j, calm)',
           ClientOK(state)',
           state.pc = "enqueue" =>
               \A d \in Client \ {c} : proc[d].pc = "enqueue" => proc[d].job # state.job
    PROVE  QueueInv(A, calm)'
  <1>a. /\ proc \in [Process -> ProcState] /\ c \in Process /\ c \notin Worker
        /\ Worker \subseteq Process /\ Client \subseteq Process
    BY ProcessAssumption DEF QueueInv, TypeOK, Process
  <1>b. proc'[c] = state /\ \A q \in Process \ {c} : proc'[q] = proc[q]
    BY <1>a DEF Become
  <1>1. TypeOK'
    BY <1>a DEF TypeOK, Become, QueueInv
  <1>2. ASSUME NEW v \in Worker PROVE WorkerOK(proc[v], calm)'
    <2>1. PICK s \in ProcState : s = proc[v]
      BY <1>a
    <2>2. WorkerOK(s, calm) /\ proc'[v] = s
      BY <1>a, <1>b, <2>1 DEF QueueInv
    <2>3. WorkerOK(s, calm)'
      BY <2>2, WorkerStable
    <2>4. QED
      BY <2>2, <2>3 DEF WorkerOK, MoveOK
  <1>3. ASSUME NEW d \in Client PROVE ClientOK(proc[d])'
    <2>1. CASE d = c
      BY <1>b, <2>1 DEF ClientOK
    <2>2. CASE d # c
      <3>1. PICK s \in ProcState : s = proc[d]
        BY <1>a
      <3>2. proc'[d] = s /\ ClientOK(s)
        BY <1>a, <1>b, <2>2, <3>1 DEF QueueInv
      <3>3. ClientOK(s)'
        BY <3>2, ClientStable
      <3>4. QED
        BY <3>2, <3>3 DEF ClientOK
    <2>3. QED
      BY <2>1, <2>2
  <1>4. OneSender'
    BY <1>a, <1>b DEF QueueInv, OneSender
  <1>5. ClaimsAreExclusive'
    BY <1>a, <1>b DEF QueueInv, ClaimsAreExclusive, Holds
  <1>6. Alone(A, calm)'
    BY <1>a, <1>b DEF QueueInv, Alone
  <1>7. QED
    BY <1>1, <1>2, <1>3, <1>4, <1>5, <1>6 DEF QueueInv

----------------------------------------------------------------------------
(* Files.                                                                    *)

LEMMA FileStays ==
    ASSUME NEW calm, NEW j \in Job, FileOK(j, calm), Progress, Sent(j)' => Sent(j),
           \A d \in Directory : file'[d][j] = file[d][j],
           calm => \A w \in Worker : Keeps(proc[w], j) =>
                       Keeps(proc[w], j)' \/ status'[j] \in Terminal
    PROVE  FileOK(j, calm)'
  <1>1. \A d \in Directory : Present(d, j)' <=> Present(d, j)
    BY DEF Present
  <1>2. /\ "queued" \in Directory /\ "claimed" \in Directory
        /\ file'["queued"][j] = file["queued"][j] /\ file'["claimed"][j] = file["claimed"][j]
    BY DEF Directory
  <1>3. calm /\ Present("claimed", j)' =>
            status'[j] \in Terminal \/ \E w \in Worker : Keeps(proc[w], j)'
    BY <1>1, <1>2 DEF FileOK, Progress
  <1>4. QED
    BY <1>1, <1>2, <1>3 DEF FileOK, Progress

LEMMA WriteFile ==
    ASSUME file \in [Directory -> [Job -> Record]], NEW d \in Directory, NEW j \in Job,
           NEW record \in Record, Write(d, j, record)
    PROVE  /\ file' \in [Directory -> [Job -> Record]]
           /\ file'[d][j] = record
           /\ \A e \in Directory : e # d => file'[e][j] = file[e][j]
           /\ \A k \in Job \ {j} : \A e \in Directory : file'[e][k] = file[e][k]
  BY DEF Write

LEMMA RenameFile ==
    ASSUME file \in [Directory -> [Job -> Record]], NEW from \in Directory,
           NEW to \in Directory, NEW j \in Job, from # to, Rename(from, to, j)
    PROVE  /\ file' \in [Directory -> [Job -> Record]]
           /\ file'[to][j] = file[from][j] /\ file'[from][j] = "absent"
           /\ \A e \in Directory \ {from, to} : file'[e][j] = file[e][j]
           /\ \A k \in Job \ {j} : \A e \in Directory : file'[e][k] = file[e][k]
  BY ZenonT(40) DEF Rename, Record

----------------------------------------------------------------------------
(* Steps of a worker that change neither a file nor a status.                *)

\* A worker changes its own state, and the status of a run it executes.
LEMMA WorkerProgress ==
    ASSUME TypeOK, NEW w \in Worker, NEW state, proc' = [proc EXCEPT ![w] = state],
           \A j \in Job : \/ status'[j] = status[j]
                          \/ status[j] \in {"queued", "running"} /\ status'[j] # "none"
    PROVE  Progress /\ \A j \in Job : Sent(j)' <=> Sent(j)
  <1>1. \A c \in Client : proc'[c] = proc[c]
    BY ProcessAssumption DEF TypeOK, Process
  <1>2. \A j \in Job : Sending(j)' <=> Sending(j)
    BY <1>1 DEF Sending
  <1>3. \A j \in Job : /\ status[j] \in Terminal => status'[j] \in Terminal
                       /\ status[j] # "none" <=> status'[j] # "none"
    BY DEF Terminal
  <1>4. \A j \in Job : Over(j) => Over(j)'
    BY <1>1, <1>3 DEF Over
  <1>5. QED
    BY <1>2, <1>3, <1>4 DEF Progress, Sent

LEMMA WorkerReads ==
    ASSUME NEW A \in SUBSET Worker, NEW calm \in BOOLEAN, QueueInv(A, calm),
           NEW w \in A, NEW state \in ProcState, proc' = [proc EXCEPT ![w] = state],
           UNCHANGED <<file, status>>, crashes' \in 0 .. MaxCrashes,
           WorkerOK(state, calm),
           \A j \in Job : Keeps(state, j) => Keeps(proc[w], j),
           calm => \A j \in Job : Keeps(proc[w], j) =>
                       Keeps(state, j) \/ status[j] \in Terminal
    PROVE  QueueInv(A, calm)'
  <1>1. Progress /\ \A j \in Job : Sent(j)' <=> Sent(j)
    BY WorkerProgress DEF QueueInv
  <1>2. KeepsClaims /\ NoRequeue /\ NoClaim
    BY DEF KeepsClaims, NoRequeue, NoClaim, Present
  <1>3. WorkerOK(state, calm)'
    BY <1>1, <1>2, WorkerStable
  <1>4. w \in Worker /\ \A v \in Worker : proc'[v] = IF v = w THEN state ELSE proc[v]
    BY DEF QueueInv, TypeOK, Process
  <1>5. ASSUME NEW j \in Job PROVE FileOK(j, calm)'
    <2>1. calm => \A v \in Worker : Keeps(proc[v], j) =>
                      Keeps(proc'[v], j) \/ status'[j] \in Terminal
      BY <1>4
    <2>2. calm => \A v \in Worker : Keeps(proc[v], j) =>
                      Keeps(proc[v], j)' \/ status'[j] \in Terminal
      BY <2>1 DEF Keeps
    <2>3. FileOK(j, calm)
      BY DEF QueueInv
    <2>4. QED
      BY <1>1, <2>2, <2>3, FileStays
  <1>6. file' \in [Directory -> [Job -> Record]] /\ status' \in [Job -> RunStatus]
    BY DEF QueueInv, TypeOK
  <1>7. QED
    BY <1>1, <1>2, <1>3, <1>5, <1>6, WorkerActs

\* The same for the steps themselves: a worker goes on to a state in which it does not
\* hold a job, from one in which it does not hold an unfinished one.
LEMMA WorkerProceeds ==
    ASSUME NEW A \in SUBSET Worker, NEW calm \in BOOLEAN, QueueInv(A, calm), NEW w \in A
    PROVE  /\ proc[w] \in ProcState /\ WorkerOK(proc[w], calm) /\ w \in Worker
           /\ \A s \in ProcState :
                 /\ Proceed(w, s) /\ WorkerOK(s, calm) /\ s.pc \notin Holding
                 /\ proc[w].pc \in Holding => status[proc[w].job] \in Terminal
                 => QueueInv(A, calm)'
  <1>1. proc[w] \in ProcState /\ WorkerOK(proc[w], calm) /\ w \in Worker
    BY DEF QueueInv, TypeOK, Process
  <1>2. ASSUME NEW s \in ProcState, Proceed(w, s), WorkerOK(s, calm), s.pc \notin Holding,
               proc[w].pc \in Holding => status[proc[w].job] \in Terminal
        PROVE  QueueInv(A, calm)'
    <2>1. crashes' \in 0 .. MaxCrashes
      BY <1>2 DEF Proceed, Become, QueueInv, TypeOK
    <2>2. proc' = [proc EXCEPT ![w] = s] /\ UNCHANGED <<file, status>>
      BY <1>2 DEF Proceed, Become
    <2>3. \A j \in Job : ~Keeps(s, j)
      BY <1>2 DEF Keeps
    <2>4. \A j \in Job : Keeps(proc[w], j) => status[j] \in Terminal
      BY <1>2 DEF Keeps
    <2>5. QED
      BY <1>2, <2>1, <2>2, <2>3, <2>4, WorkerReads
  <1>3. QED
    BY <1>1, <1>2

\* Restarting, and going on to the next job.
LEMMA IdleSteps ==
    ASSUME NEW A \in SUBSET Worker, NEW calm \in BOOLEAN, QueueInv(A, calm), NEW w \in A
    PROVE  /\ Restart(w) \/ RecoverDone(w) \/ ClaimNothing(w) => QueueInv(A, calm)'
           /\ Proceed(w, Raised(w))
              /\ (proc[w].pc \in Holding => status[proc[w].job] \in Terminal)
                 => QueueInv(A, calm)'
  <1>1. \A pc \in {"start", "poll", "down"} :
           At(pc) \in ProcState /\ WorkerOK(At(pc), calm) /\ At(pc).pc \notin Holding
    BY AtStates DEF WorkerOK, Recovering, Moves, Cancels, Holding, Busy, Pc
  <1>2. CASE Restart(w) \/ RecoverDone(w) \/ ClaimNothing(w)
    <2>1. proc[w].pc \notin Holding /\ \E pc \in {"start", "poll"} : Proceed(w, At(pc))
      BY <1>2 DEF Restart, RecoverDone, ClaimNothing, Holding
    <2>2. QED
      BY <1>1, <2>1, WorkerProceeds
  <1>3. Raised(w) = At("down")
    BY DEF Raised
  <1>4. QED
    BY <1>1, <1>2, <1>3, WorkerProceeds

LEMMA CrashStep ==
    ASSUME NEW A \in SUBSET Worker, QueueInv(A, FALSE), NEW w \in A, Crash(w)
    PROVE  QueueInv(A, FALSE)'
  <1>1. At("down") \in ProcState /\ WorkerOK(At("down"), FALSE) /\ \A j : ~Keeps(At("down"), j)
    BY AtStates DEF WorkerOK, Recovering, Moves, Cancels, Holding, Busy, Pc, Keeps
  <1>2. crashes' \in 0 .. MaxCrashes
    BY CrashesAssumption DEF Crash, QueueInv, TypeOK
  <1>3. proc' = [proc EXCEPT ![w] = At("down")] /\ UNCHANGED <<file, status>>
    BY DEF Crash
  <1>4. QED
    BY <1>1, <1>2, <1>3, WorkerReads

\* Listings.
LEMMA ListSteps ==
    ASSUME NEW A \in SUBSET Worker, NEW calm \in BOOLEAN, QueueInv(A, calm), NEW w \in A
    PROVE  RecoverList(w) \/ ClaimList(w) => QueueInv(A, calm)'
  <1>1. \A d \in Directory : Listing(d) \subseteq Job /\ \A j \in Listing(d) : Sent(j)
    BY DEF Listing, QueueInv, FileOK
  <1>2. "queued" \in Directory /\ "claimed" \in Directory
    BY DEF Directory
  <1>3. CASE RecoverList(w)
    <2> DEFINE s == [At("recover") EXCEPT !.todo = Listing("claimed")]
    <2>1. s \in ProcState /\ s.pc = "recover" /\ s.todo = Listing("claimed")
      BY <1>1, <1>2 DEF At, ProcState, Pc, Directory
    <2>2. Proceed(w, s) /\ proc[w].pc = "start"
      BY <1>3 DEF RecoverList
    <2> HIDE DEF s
    <2>3. WorkerOK(s, calm) /\ s.pc \notin Holding
      BY <1>1, <1>2, <2>1
      DEF WorkerOK, Recovering, Moves, Cancels, Holding, Busy, Listing
    <2>4. QED
      BY <2>1, <2>2, <2>3, WorkerProceeds DEF Holding
  <1>4. CASE ClaimList(w)
    <2> DEFINE s == [At("claim") EXCEPT !.todo = Listing("queued")]
    <2>1. s \in ProcState /\ s.pc = "claim" /\ s.todo = Listing("queued")
      BY <1>1, <1>2 DEF At, ProcState, Pc, Directory
    <2>2. Proceed(w, s) /\ proc[w].pc = "poll"
      BY <1>4 DEF ClaimList
    <2> HIDE DEF s
    <2>3. WorkerOK(s, calm) /\ s.pc \notin Holding
      BY <1>1, <1>2, <2>1
      DEF WorkerOK, Recovering, Moves, Cancels, Holding, Busy, Listing
    <2>4. QED
      BY <2>1, <2>2, <2>3, WorkerProceeds DEF Holding
  <1>5. QED
    BY <1>3, <1>4

LEMMA MovingState ==
    ASSUME NEW self \in ProcState, NEW from \in Directory, NEW to \in Directory, NEW next \in Pc
    PROVE  LET s == Moving(self, from, to, next)
           IN  /\ s \in ProcState
               /\ s.pc = "moveCheck" /\ s.from = from /\ s.to = to /\ s.next = next
               /\ s.todo = self.todo /\ s.job = self.job
  BY DEF Moving, ProcState, Pc

\* Moving a record to the retired ones: the run has to be over.
LEMMA RetiringOK ==
    ASSUME NEW calm, NEW s \in ProcState, s.pc = "moveCheck", s.from \in {"queued", "claimed"},
           s.to \in {"completed", "failed", "cancelled"}, s.next \in {"recover", "poll"},
           s.job \in Job, Over(s.job), Sent(s.job), \A j \in s.todo : Sent(j),
           s.next = "recover" => /\ s.job \notin s.todo
                                 /\ \A j \in s.todo : Present("claimed", j) \/ Over(j)
    PROVE  WorkerOK(s, calm)
  BY DEF WorkerOK, MoveOK, Recovering, Moves, Cancels, Holding, Busy

LEMMA RecoverReadStep ==
    ASSUME NEW A \in SUBSET Worker, NEW calm \in BOOLEAN, QueueInv(A, calm), NEW w \in A,
           NEW j \in Job, RecoverRead(w, j)
    PROVE  QueueInv(A, calm)'
  <1> DEFINE self == [proc[w] EXCEPT !.todo = @ \ {j}, !.job = j]
  <1>a. /\ proc[w] \in ProcState /\ WorkerOK(proc[w], calm) /\ proc[w].pc = "recover"
        /\ j \in proc[w].todo
    BY WorkerProceeds DEF RecoverRead
  <1>b. /\ self \in ProcState /\ self.pc = "recover" /\ self.todo = proc[w].todo \ {j}
        /\ self.job = j
    BY <1>a DEF ProcState
  <1>c. /\ \A k \in self.todo \cup {j} : Sent(k) /\ (Present("claimed", k) \/ Over(k))
        /\ proc[w].pc \notin Holding /\ j \notin self.todo
    BY <1>a, <1>b DEF WorkerOK, Recovering, Holding
  <1>1. CASE Present("claimed", j)
    <2> DEFINE s == [self EXCEPT !.pc = "recoverLoad", !.old = (file["claimed"][j] = "stale")]
    <2>1. Proceed(w, s)
      BY <1>1 DEF RecoverRead
    <2>2. /\ s \in ProcState /\ s.pc = "recoverLoad" /\ s.todo = self.todo /\ s.job = j
          /\ s.old <=> file["claimed"][j] = "stale"
      BY <1>b DEF ProcState, Pc
    <2> HIDE DEF s, self
    <2>3. FileOK(j, calm)
      BY DEF QueueInv
    <2>4. WorkerOK(s, calm) /\ s.pc \notin Holding
      BY <1>c, <2>2, <2>3 DEF FileOK, WorkerOK, Recovering, Moves, Cancels, Holding, Busy
    <2>5. QED
      BY <1>c, <2>1, <2>2, <2>4, WorkerProceeds
  <1>2. CASE ~Present("claimed", j)
    <2>1. CASE Proceed(w, Moving(self, "claimed", "failed", "recover"))
      <3> DEFINE s == Moving(self, "claimed", "failed", "recover")
      <3>1. /\ s \in ProcState /\ s.pc = "moveCheck" /\ s.from = "claimed" /\ s.to = "failed"
            /\ s.next = "recover" /\ s.todo = self.todo /\ s.job = j
        <4> HIDE DEF self
        <4>1. "claimed" \in Directory /\ "failed" \in Directory /\ "recover" \in Pc
          BY DEF Directory, Pc
        <4>2. QED
          BY <1>b, <4>1, MovingState
      <3>2. Proceed(w, s)
        BY <2>1
      <3> HIDE DEF s, self
      <3>3. WorkerOK(s, calm) /\ s.pc \notin Holding
        BY <1>c, <1>2, <3>1, RetiringOK DEF Holding
      <3>4. QED
        BY <1>c, <3>1, <3>2, <3>3, WorkerProceeds
    <2>2. CASE Proceed(w, Raised(w))
      BY <1>c, <2>2, IdleSteps
    <2>3. QED
      BY <1>2, <2>1, <2>2 DEF RecoverRead
  <1>3. QED
    BY <1>1, <1>2

LEMMA RecoverLoadStep ==
    ASSUME NEW A \in SUBSET Worker, NEW calm \in BOOLEAN, QueueInv(A, calm), NEW w \in A,
           RecoverLoad(w)
    PROVE  QueueInv(A, calm)'
  <1> DEFINE self == proc[w]
  <1>a. self \in ProcState /\ WorkerOK(self, calm) /\ self.pc = "recoverLoad"
    BY WorkerProceeds DEF RecoverLoad
  <1>b. /\ self.job \in Job /\ Sent(self.job) /\ self.job \notin self.todo
        /\ \A k \in self.todo : Sent(k) /\ (Present("claimed", k) \/ Over(k))
        /\ self.pc \notin Holding
        /\ self.old /\ calm => status[self.job] \in Terminal
    BY <1>a DEF WorkerOK, Recovering, Busy, Holding
  <1>1. CASE status[self.job] \in Terminal
    <2> DEFINE s == Moving(self, "claimed", Retired(status[self.job]), "recover")
    <2>1. Proceed(w, s)
      BY <1>1 DEF RecoverLoad
    <2>2. Retired(status[self.job]) \in {"completed", "failed", "cancelled"}
      BY <1>1 DEF Retired, Terminal
    <2>3. /\ s \in ProcState /\ s.pc = "moveCheck" /\ s.from = "claimed"
          /\ s.to \in {"completed", "failed", "cancelled"}
          /\ s.next = "recover" /\ s.todo = self.todo /\ s.job = self.job
      <3>1. /\ "claimed" \in Directory /\ "recover" \in Pc
            /\ Retired(status[self.job]) \in Directory
        BY <2>2 DEF Directory, Pc
      <3>2. QED
        BY <1>a, <2>2, <3>1, MovingState
    <2> HIDE DEF s
    <2>4. Over(self.job)
      BY <1>1 DEF Over
    <2>5. WorkerOK(s, calm) /\ s.pc \notin Holding
      BY <1>b, <2>3, <2>4, RetiringOK DEF Holding
    <2>6. QED
      BY <1>b, <2>1, <2>3, <2>5, WorkerProceeds
  <1>2. CASE status[self.job] \notin Terminal /\ self.old
    <2> DEFINE s == Moving(self, "claimed", "queued", "reset")
    <2>1. Proceed(w, s)
      BY <1>2 DEF RecoverLoad
    <2>2. /\ s \in ProcState /\ s.pc = "moveCheck" /\ s.from = "claimed" /\ s.to = "queued"
          /\ s.next = "reset" /\ s.todo = self.todo /\ s.job = self.job
      <3>1. "claimed" \in Directory /\ "reset" \in Pc /\ "queued" \in Directory
        BY DEF Directory, Pc
      <3>2. QED
        BY <1>a, <3>1, MovingState
    <2> HIDE DEF s
    <2>3. WorkerOK(s, calm) /\ s.pc \notin Holding
      BY <1>b, <1>2, <2>2 DEF WorkerOK, MoveOK, Recovering, Moves, Cancels, Holding, Busy
    <2>4. QED
      BY <1>b, <2>1, <2>2, <2>3, WorkerProceeds
  <1>3. CASE status[self.job] \notin Terminal /\ ~self.old
    <2> DEFINE s == [self EXCEPT !.pc = "recover"]
    <2>1. Proceed(w, s)
      BY <1>3 DEF RecoverLoad
    <2>2. s \in ProcState /\ s.pc = "recover" /\ s.todo = self.todo
      BY <1>a DEF ProcState, Pc
    <2> HIDE DEF s
    <2>3. WorkerOK(s, calm) /\ s.pc \notin Holding
      BY <1>b, <2>2 DEF WorkerOK, Recovering, Moves, Cancels, Holding, Busy
    <2>4. QED
      BY <1>b, <2>1, <2>2, <2>3, WorkerProceeds
  <1>4. QED
    BY <1>1, <1>2, <1>3

\* Claiming: a file that is gone stays gone.
LEMMA ClaimReads ==
    ASSUME NEW A \in SUBSET Worker, NEW calm \in BOOLEAN, QueueInv(A, calm), NEW w \in A
    PROVE  /\ \A j \in Job : ClaimRead(w, j) => QueueInv(A, calm)'
           /\ Recheck(w) => QueueInv(A, calm)'
           /\ ClaimRename(w) /\ ~Present("queued", proc[w].job) => QueueInv(A, calm)'
  <1>a. proc[w] \in ProcState /\ WorkerOK(proc[w], calm)
    BY WorkerProceeds
  <1>1. ASSUME NEW j \in Job, ClaimRead(w, j) PROVE QueueInv(A, calm)'
    <2> DEFINE self == [proc[w] EXCEPT !.todo = @ \ {j}, !.job = j]
    <2>1. /\ self \in ProcState /\ self.pc = "claim" /\ self.todo \subseteq proc[w].todo
          /\ self.job = j /\ j \in proc[w].todo /\ proc[w].pc = "claim"
      BY <1>a, <1>1 DEF ProcState, ClaimRead
    <2>2. \A k \in self.todo \cup {j} : Sent(k)
      BY <1>a, <2>1 DEF WorkerOK
    <2>3. PICK s : /\ Proceed(w, s)
                   /\ \/ s = [self EXCEPT !.pc = "rename"] \/ s = [self EXCEPT !.pc = "claim"]
                      \/ ~Present("queued", j) /\ s = [self EXCEPT !.pc = "recheck"]
      BY <1>1 DEF ClaimRead, Continue
    <2>4. /\ s \in ProcState /\ s.todo = self.todo /\ s.job = j
          /\ s.pc \in {"rename", "claim", "recheck"}
          /\ s.pc = "recheck" => ~Present("queued", j)
      <3> HIDE DEF self
      <3>1. QED
        BY <2>1, <2>3 DEF ProcState, Pc
    <2>5. WorkerOK(s, calm) /\ s.pc \notin Holding
      <3> HIDE DEF self
      <3>1. QED
        BY <2>2, <2>4 DEF WorkerOK, Recovering, Moves, Cancels, Holding, Busy
    <2>6. proc[w].pc \notin Holding
      BY <2>1 DEF Holding
    <2>7. QED
      BY <2>3, <2>4, <2>5, <2>6, WorkerProceeds
  <1>2. ASSUME Proceed(w, Continue(proc[w])), proc[w].pc \in {"recheck", "rename"}
        PROVE  QueueInv(A, calm)'
    <2> DEFINE s == Continue(proc[w])
    <2>1. s \in ProcState /\ s.pc = "claim" /\ s.todo = proc[w].todo
      BY <1>a DEF ProcState, Pc, Continue
    <2> HIDE DEF s
    <2>2. \A k \in s.todo : Sent(k)
      BY <1>a, <2>1 DEF WorkerOK
    <2>3. WorkerOK(s, calm) /\ s.pc \notin Holding /\ proc[w].pc \notin Holding
      BY <1>2, <2>1, <2>2 DEF WorkerOK, Recovering, Moves, Cancels, Holding, Busy
    <2>4. Proceed(w, s)
      BY <1>2 DEF s
    <2>5. QED
      BY <2>1, <2>3, <2>4, WorkerProceeds
  <1>3. ASSUME Recheck(w) PROVE QueueInv(A, calm)'
    <2>1. proc[w].pc = "recheck" /\ ~Present("queued", proc[w].job)
      BY <1>a, <1>3 DEF WorkerOK, Recheck
    <2>2. QED
      BY <1>2, <1>3, <2>1 DEF Recheck
  <1>4. ASSUME ClaimRename(w), ~Present("queued", proc[w].job) PROVE QueueInv(A, calm)'
    BY <1>2, <1>4 DEF ClaimRename, Proceed, Become
  <1>5. QED
    BY <1>1, <1>3, <1>4

LEMMA SettlingState ==
    ASSUME NEW self \in ProcState, NEW outcome \in Terminal
    PROVE  LET s == Settling(self, outcome)
           IN  /\ s \in ProcState /\ s.todo = self.todo /\ s.job = self.job /\ s.from = self.from
               /\ s.pc \in {"complete", "fail", "cancelList"}
  <1>1. /\ [self EXCEPT !.pc = "complete"] \in ProcState
        /\ [self EXCEPT !.pc = "fail"] \in ProcState
        /\ [self EXCEPT !.pc = "cancelList"] \in ProcState
    BY DEF ProcState, Pc
  <1>2. PICK pc \in {"complete", "fail", "cancelList"} :
            Settling(self, outcome) = [self EXCEPT !.pc = pc]
    BY DEF Settling, Terminal
  <1>3. QED
    BY <1>1, <1>2 DEF ProcState

\* A run that is over is settled: the job is retired, or looked for to be cancelled.
LEMMA SettlingOK ==
    ASSUME NEW calm, NEW self \in ProcState, WorkerOK(self, calm), self.pc = "execute",
           NEW s \in ProcState, s.todo = self.todo, s.job = self.job, s.from = self.from,
           s.pc \in {"complete", "fail", "cancelList"}, status[s.job] \in Terminal
    PROVE  WorkerOK(s, calm)
  <1>1. s.job \in Job /\ Sent(s.job) /\ ~Present("queued", s.job) /\ s.from = "queued"
    BY DEF WorkerOK, Busy, Holding
  <1>2. \A j \in s.todo : Sent(j)
    BY DEF WorkerOK
  <1>3. QED
    BY <1>1, <1>2 DEF WorkerOK, Recovering, Moves, Cancels, Holding, Busy

LEMMA SettleSteps ==
    ASSUME NEW A \in SUBSET Worker, NEW calm \in BOOLEAN, QueueInv(A, calm), NEW w \in A
    PROVE  /\ ExecutionOvertaken(w) => QueueInv(A, calm)'
           /\ Settle(w) => QueueInv(A, calm)'
           /\ Retire(w) /\ ~Present("claimed", proc[w].job) => QueueInv(A, calm)'
  <1>a. proc[w] \in ProcState /\ WorkerOK(proc[w], calm)
    BY WorkerProceeds
  <1>b. ASSUME NEW s \in ProcState, Proceed(w, s), WorkerOK(s, calm),
               proc[w].pc \in Holding, s.job = proc[w].job, status[s.job] \in Terminal
        PROVE  QueueInv(A, calm)'
    <2>1. crashes' \in 0 .. MaxCrashes
      BY <1>b DEF Proceed, Become, QueueInv, TypeOK
    <2>2. proc' = [proc EXCEPT ![w] = s] /\ UNCHANGED <<file, status>>
      BY <1>b DEF Proceed, Become
    <2>3. \A j \in Job : /\ Keeps(s, j) => Keeps(proc[w], j)
                         /\ Keeps(proc[w], j) => status[j] \in Terminal
      BY <1>b DEF Keeps
    <2>4. QED
      BY <1>b, <2>1, <2>2, <2>3, WorkerReads
  <1>1. ASSUME ExecutionOvertaken(w) PROVE QueueInv(A, calm)'
    <2>1. proc[w].pc = "execute" /\ status[proc[w].job] \in Terminal
      BY <1>1 DEF ExecutionOvertaken
    <2>2. CASE Proceed(w, Settling(proc[w], status[proc[w].job]))
      <3> DEFINE s == Settling(proc[w], status[proc[w].job])
      <3>1. /\ s \in ProcState /\ s.todo = proc[w].todo /\ s.job = proc[w].job
            /\ s.from = proc[w].from /\ s.pc \in {"complete", "fail", "cancelList"}
        BY <1>a, <2>1, SettlingState
      <3>2. Proceed(w, s)
        BY <2>2
      <3> HIDE DEF s
      <3>3. WorkerOK(s, calm)
        BY <1>a, <2>1, <3>1, SettlingOK
      <3>4. QED
        BY <1>b, <2>1, <3>1, <3>2, <3>3 DEF Holding
    <2>3. CASE Proceed(w, Raised(w))
      BY <2>1, <2>3, IdleSteps
    <2>4. QED
      BY <1>1, <2>2, <2>3 DEF ExecutionOvertaken
  <1>2. ASSUME Settle(w) PROVE QueueInv(A, calm)'
    <2>1. /\ proc[w].pc \in {"complete", "fail"} /\ proc[w].pc \in Holding
          /\ status[proc[w].job] \in Terminal
          /\ proc[w].job \in Job /\ Sent(proc[w].job) /\ ~Present("queued", proc[w].job)
          /\ \A j \in proc[w].todo : Sent(j)
      BY <1>a, <1>2 DEF Settle, WorkerOK, Busy, Holding
    <2>2. CASE Proceed(w, At("poll"))
      <3>1. At("poll") \in ProcState /\ WorkerOK(At("poll"), calm) /\ At("poll").pc \notin Holding
        BY AtStates DEF WorkerOK, Recovering, Moves, Cancels, Holding, Busy, Pc
      <3>2. QED
        BY <2>1, <2>2, <3>1, WorkerProceeds
    <2>3. CASE ~Proceed(w, At("poll"))
      <3>1. PICK to \in {"completed", "failed"} :
                Proceed(w, [proc[w] EXCEPT !.pc = "retire", !.to = to])
        BY <1>2, <2>3 DEF Settle
      <3> DEFINE s == [proc[w] EXCEPT !.pc = "retire", !.to = to]
      <3>2. /\ s \in ProcState /\ s.pc = "retire" /\ s.to = to /\ s.todo = proc[w].todo
            /\ s.job = proc[w].job
        BY <1>a DEF ProcState, Pc, Directory
      <3>3. Proceed(w, s)
        BY <3>1
      <3> HIDE DEF s
      <3>4. WorkerOK(s, calm)
        BY <2>1, <3>2 DEF WorkerOK, Recovering, Moves, Cancels, Holding, Busy
      <3>5. QED
        BY <1>b, <2>1, <3>2, <3>3, <3>4
    <2>4. QED
      BY <2>2, <2>3
  <1>3. ASSUME Retire(w), ~Present("claimed", proc[w].job) PROVE QueueInv(A, calm)'
    <2>1. proc[w].pc = "retire" /\ Proceed(w, Raised(w))
      BY <1>3 DEF Retire, Proceed, Become
    <2>2. status[proc[w].job] \in Terminal
      BY <1>a, <2>1 DEF WorkerOK
    <2>3. QED
      BY <2>1, <2>2, IdleSteps
  <1>4. QED
    BY <1>1, <1>2, <1>3
\* The ways on of a search for the job to cancel: the next record, directory or call.
LEMMA LookingState ==
    ASSUME NEW p, proc[p] \in ProcState, proc[p].from \in {"queued", "claimed"},
           NEW listing \in SUBSET Job, NEW s, s = CancelReading(p, listing)
    PROVE  /\ s \in ProcState /\ s.pc \in {"cancelRead", "cancelList", Cancelled(p)}
           /\ s.todo = listing /\ s.job = proc[p].job /\ s.from \in {"queued", "claimed"}
  <1>1. Cancelled(p) \in Pc
    BY DEF Cancelled, Pc
  <1>2. PICK pc \in {"cancelRead", "cancelList", Cancelled(p)}, from \in {"queued", "claimed"} :
            s = [proc[p] EXCEPT !.pc = pc, !.todo = listing, !.from = from]
    <2>1. [proc[p] EXCEPT !.pc = "cancelRead", !.todo = listing]
              = [proc[p] EXCEPT !.pc = "cancelRead", !.todo = listing, !.from = proc[p].from]
      BY DEF ProcState
    <2>2. [proc[p] EXCEPT !.pc = Cancelled(p), !.todo = {}]
              = [proc[p] EXCEPT !.pc = Cancelled(p), !.todo = {}, !.from = proc[p].from]
      BY DEF ProcState
    <2>3. CASE listing = {}
      BY <2>2, <2>3 DEF CancelReading, LookFurther
    <2>4. CASE listing # {}
      BY <2>1, <2>4 DEF CancelReading
    <2>5. QED
      BY <2>3, <2>4
  <1>3. pc \in Pc /\ from \in Directory
    BY <1>1 DEF Pc, Directory
  <1>4. QED
    BY <1>2, <1>3 DEF ProcState

\* What a search for the job to cancel may do next.
LEMMA CancelMoves ==
    ASSUME NEW p, proc[p] \in ProcState, CancelStep(p)
    PROVE  \E s :
             /\ Proceed(p, s)
             /\ \/ \E listing \in SUBSET Job :
                      /\ listing \subseteq proc[p].todo \/ listing = Listing(proc[p].from)
                      /\ s = CancelReading(p, listing)
                \/ s = Moving([proc[p] EXCEPT !.todo = {}], proc[p].from, "cancelled", Cancelled(p))
                \/ s = Raised(p)
  <1>1. CASE CancelList(p)
    BY <1>1 DEF CancelList, Listing
  <1>2. CASE \E j \in Job : CancelRead(p, j)
    <2>1. PICK j \in Job : CancelRead(p, j)
      BY <1>2
    <2>2. proc[p].todo \ {j} \in SUBSET Job /\ proc[p].todo \ {j} \subseteq proc[p].todo
      BY DEF ProcState
    <2>3. QED
      BY <2>1, <2>2 DEF CancelRead
  <1>3. QED
    BY <1>1, <1>2 DEF CancelStep

LEMMA WorkerCancels ==
    ASSUME NEW A \in SUBSET Worker, NEW calm \in BOOLEAN, QueueInv(A, calm), NEW w \in A,
           CancelStep(w)
    PROVE  QueueInv(A, calm)'
  <1>a. proc[w] \in ProcState /\ WorkerOK(proc[w], calm) /\ w \in Worker
    BY WorkerProceeds
  <1>b. proc[w].pc \in Cancels
    BY DEF CancelStep, CancelList, CancelRead, Cancels
  <1>c. /\ proc[w].job \in Job /\ Sent(proc[w].job) /\ status[proc[w].job] \in Terminal
        /\ proc[w].from \in {"queued", "claimed"} /\ proc[w].pc \notin Holding
        /\ \A j \in proc[w].todo : Sent(j)
    BY <1>a, <1>b DEF WorkerOK, Busy, Cancels, Holding
  <1>d. Over(proc[w].job)
    BY <1>c DEF Over
  <1> DEFINE found == [proc[w] EXCEPT !.todo = {}]
  <1>1. PICK s : /\ Proceed(w, s)
                 /\ \/ \E listing \in SUBSET Job :
                          /\ listing \subseteq proc[w].todo \/ listing = Listing(proc[w].from)
                          /\ s = CancelReading(w, listing)
                    \/ s = Moving(found, proc[w].from, "cancelled", "poll")
                    \/ s = Raised(w)
    BY <1>a, CancelMoves DEF Cancelled
  <1>e. found \in ProcState /\ found.todo = {} /\ found.job = proc[w].job
    BY <1>a DEF ProcState
  <1> HIDE DEF found
  <1>2. CASE s = Raised(w)
    BY <1>1, <1>2, <1>c, IdleSteps
  <1>3. CASE s = Moving(found, proc[w].from, "cancelled", "poll")
    <2>1. proc[w].from \in Directory /\ "cancelled" \in Directory /\ "poll" \in Pc
      BY <1>c DEF Directory, Pc
    <2>2. /\ s \in ProcState /\ s.pc = "moveCheck" /\ s.from = proc[w].from
          /\ s.to = "cancelled" /\ s.next = "poll" /\ s.todo = {}
          /\ s.job = proc[w].job
      BY <1>e, <1>3, <2>1, MovingState
    <2>3. WorkerOK(s, calm) /\ s.pc \notin Holding
      BY <1>c, <1>d, <2>2, RetiringOK DEF Holding
    <2>4. QED
      BY <1>1, <1>c, <2>2, <2>3, WorkerProceeds
  <1>4. CASE \E listing \in SUBSET Job :
                /\ listing \subseteq proc[w].todo \/ listing = Listing(proc[w].from)
                /\ s = CancelReading(w, listing)
    <2>1. PICK listing \in SUBSET Job :
              /\ listing \subseteq proc[w].todo \/ listing = Listing(proc[w].from)
              /\ s = CancelReading(w, listing)
      BY <1>4
    <2>2. /\ s \in ProcState /\ s.pc \in {"cancelRead", "cancelList", "poll"}
          /\ s.todo = listing /\ s.job = proc[w].job /\ s.from \in {"queued", "claimed"}
      BY <1>a, <1>c, <2>1, LookingState DEF Cancelled
    <2>3. \A j \in listing : Sent(j)
      BY <1>c, <2>1 DEF QueueInv, FileOK, Listing, Directory
    <2>4. WorkerOK(s, calm) /\ s.pc \notin Holding
      BY <1>c, <2>2, <2>3 DEF WorkerOK, Recovering, Moves, Cancels, Holding, Busy
    <2>5. QED
      BY <1>1, <1>c, <2>2, <2>4, WorkerProceeds
  <1>5. QED
    BY <1>1, <1>2, <1>3, <1>4

\* _move_raw looks for its destination first; a source that is gone is an error.
LEMMA WorkerMoveReads ==
    ASSUME NEW A \in SUBSET Worker, NEW calm \in BOOLEAN, QueueInv(A, calm), NEW w \in A
    PROVE  /\ MoveCheck(w) => QueueInv(A, calm)'
           /\ Move(w) /\ ~Present(proc[w].from, proc[w].job) => QueueInv(A, calm)'
  <1>a. proc[w] \in ProcState /\ WorkerOK(proc[w], calm)
    BY WorkerProceeds
  <1>1. ASSUME MoveCheck(w) PROVE QueueInv(A, calm)'
    <2> DEFINE s == [proc[w] EXCEPT
                        !.pc = IF Present(proc[w].to, proc[w].job) THEN "drop" ELSE "move"]
    <2>1. Proceed(w, s) /\ proc[w].pc = "moveCheck"
      BY <1>1 DEF MoveCheck
    <2>2. /\ s \in ProcState /\ s.pc \in {"drop", "move"} /\ s.todo = proc[w].todo
          /\ s.job = proc[w].job /\ s.from = proc[w].from /\ s.to = proc[w].to
          /\ s.next = proc[w].next
          /\ s.pc = "drop" => Present(s.to, s.job)
      BY <1>a DEF ProcState, Pc
    <2> HIDE DEF s
    <2>3. s.job \in Job /\ FileOK(s.job, calm) /\ Sent(s.job)
      BY <1>a, <2>1, <2>2 DEF WorkerOK, Busy, Moves, QueueInv
    <2>4. MoveOK(s, calm)
      BY <1>a, <2>1, <2>2, <2>3 DEF WorkerOK, MoveOK, FileOK, Moves
    <2>5. /\ \A j \in s.todo : Sent(j)
          /\ Recovering(s) => /\ s.job \notin s.todo
                              /\ \A j \in s.todo : Present("claimed", j) \/ Over(j)
      BY <1>a, <2>1, <2>2 DEF WorkerOK, Recovering, Moves
    <2>6. WorkerOK(s, calm) /\ s.pc \notin Holding /\ proc[w].pc \notin Holding
      BY <2>1, <2>2, <2>3, <2>4, <2>5 DEF WorkerOK, Moves, Cancels, Holding, Busy
    <2>7. QED
      BY <2>1, <2>2, <2>6, WorkerProceeds
  <1>2. ASSUME Move(w), ~Present(proc[w].from, proc[w].job) PROVE QueueInv(A, calm)'
    <2>1. proc[w].pc = "move" /\ Proceed(w, Raised(w))
      BY <1>2 DEF Move, Proceed, Become
    <2>2. QED
      BY <2>1, IdleSteps DEF Holding
  <1>3. QED
    BY <1>1, <1>2

----------------------------------------------------------------------------
(* Steps of a worker that change the files of its job.                       *)

\* It is enough to look at that job and at that worker.
LEMMA WorkerChanges ==
    ASSUME NEW A \in SUBSET Worker, NEW calm \in BOOLEAN, QueueInv(A, calm), NEW w \in A,
           NEW state \in ProcState, NEW j \in Job, Become(w, state), status' = status,
           proc[w].job = j, state.pc \in Holding => state.job = j,
           file' \in [Directory -> [Job -> Record]],
           \A k \in Job \ {j} : \A d \in Directory : file'[d][k] = file[d][k],
           calm => /\ Present("claimed", j) => Present("claimed", j)' \/ Over(j)
                   /\ ~Present("queued", j) => ~Present("queued", j)',
           FileOK(j, calm)', WorkerOK(state, calm)',
           Keeps(state, j) => Keeps(proc[w], j) \/ Present("queued", j)
    PROVE  QueueInv(A, calm)'
  <1>a. w \in Worker /\ proc' = [proc EXCEPT ![w] = state] /\ crashes' \in 0 .. MaxCrashes
    BY DEF Become, QueueInv, TypeOK
  <1>b. status' \in [Job -> RunStatus] /\ TypeOK
    BY DEF QueueInv, TypeOK
  <1>1. Progress /\ \A k \in Job : Sent(k)' <=> Sent(k)
    BY <1>a, <1>b, WorkerProgress
  <1>2. "queued" \in Directory /\ "claimed" \in Directory
    BY DEF Directory
  <1>3. calm => KeepsClaims /\ NoRequeue
    <2>1. \A k \in Job \ {j} : /\ Present("claimed", k)' <=> Present("claimed", k)
                               /\ Present("queued", k)' <=> Present("queued", k)
      BY <1>2 DEF Present
    <2>2. Over(j) => Over(j)'
      BY <1>1 DEF Progress
    <2>3. QED
      BY <2>1, <2>2 DEF KeepsClaims, NoRequeue
  <1>4. ASSUME NEW k \in Job PROVE FileOK(k, calm)'
    <2>1. CASE k = j
      BY <2>1
    <2>2. CASE k # j
      <3>1. ~Keeps(proc[w], k) /\ \A v \in Worker \ {w} : proc'[v] = proc[v]
        BY <1>a, <1>b, <2>2 DEF Keeps, TypeOK, Process
      <3>2. calm => \A v \in Worker : Keeps(proc[v], k) => Keeps(proc[v], k)'
        BY <3>1 DEF Keeps
      <3>3. FileOK(k, calm)
        BY DEF QueueInv
      <3>4. QED
        BY <1>1, <2>2, <3>2, <3>3, FileStays
    <2>3. QED
      BY <2>1, <2>2
  <1>5. \A k \in Job : Keeps(state, k) =>
            Keeps(proc[w], k) \/ \A v \in Worker : ~Keeps(proc[v], k)
    <2>1. ASSUME Present("queued", j) PROVE \A v \in Worker : ~Keeps(proc[v], j)
      BY <2>1 DEF Keeps, QueueInv, WorkerOK
    <2>2. QED
      BY <2>1 DEF Keeps
  <1>6. QED
    BY <1>1, <1>3, <1>4, <1>5, <1>a, <1>b, WorkerActs

\* What those steps do not change.
LEMMA WorkerKeeps ==
    ASSUME NEW A \in SUBSET Worker, NEW calm \in BOOLEAN, QueueInv(A, calm), NEW w \in A,
           NEW state, Become(w, state), status' = status
    PROVE  /\ \A j \in Job : /\ Sent(j)' <=> Sent(j)
                             /\ Over(j) => Over(j)'
           /\ proc'[w] = state /\ \A v \in Worker \ {w} : proc'[v] = proc[v]
           /\ file \in [Directory -> [Job -> Record]]
  <1>1. TypeOK /\ w \in Worker /\ proc' = [proc EXCEPT ![w] = state]
    BY DEF Become, QueueInv
  <1>2. QED
    BY <1>1, WorkerProgress DEF Progress, TypeOK, Process

\* The rest of a listing is as sound as it was.
LEMMA TodoStays ==
    ASSUME NEW A \in SUBSET Worker, NEW calm \in BOOLEAN, QueueInv(A, calm), NEW w \in A,
           NEW state \in ProcState, Become(w, state), status' = status,
           \A k \in Job \ {proc[w].job} : \A d \in Directory : file'[d][k] = file[d][k],
           proc[w].pc \in Busy
    PROVE  /\ \A k \in proc[w].todo : Sent(k)'
           /\ Recovering(proc[w]) => /\ proc[w].job \notin proc[w].todo
                                     /\ \A k \in proc[w].todo : Present("claimed", k)' \/ Over(k)'
  <1>1. PICK self \in ProcState : self = proc[w]
    BY WorkerProceeds
  <1>a. WorkerOK(self, calm)
    BY <1>1, WorkerProceeds
  <1>2. WorkerOK(self, calm) /\ "claimed" \in Directory /\ self.todo \subseteq Job
    BY <1>1, <1>a DEF Directory, ProcState
  <1>3. \A k \in Job : (Sent(k)' <=> Sent(k)) /\ (Over(k) => Over(k)')
    BY WorkerKeeps
  <1>4. \A k \in self.todo : Sent(k)'
    <2>1. \A k \in self.todo : Sent(k) /\ k \in Job
      BY <1>2 DEF WorkerOK
    <2>2. QED
      BY <1>3, <2>1
  <1>5. ASSUME Recovering(self) PROVE \A k \in self.todo : Present("claimed", k)' \/ Over(k)'
    <2>1. ASSUME NEW k \in self.todo PROVE Present("claimed", k)' \/ Over(k)'
      <3>1. Present("claimed", k) \/ Over(k)
        BY <1>2, <1>5, <2>1 DEF WorkerOK
      <3>2. self.pc # "recover"
        BY <1>1 DEF Busy, Moves, Cancels, Holding
      <3>3. k \in Job /\ k # self.job
        BY <1>2, <1>5, <2>1, <3>2 DEF WorkerOK
      <3>4. Present("claimed", k) => Present("claimed", k)'
        BY <1>1, <1>2, <3>3 DEF Present
      <3>5. QED
        BY <1>3, <3>1, <3>3, <3>4
    <2>2. QED
      BY <2>1
  <1>6. Recovering(self) => self.job \notin self.todo
    BY <1>1, <1>2 DEF WorkerOK, Busy, Moves, Cancels, Holding
  <1>7. QED
    BY <1>1, <1>4, <1>5, <1>6

\* A record that its move finds at the destination too.
LEMMA DropStep ==
    ASSUME NEW A \in SUBSET Worker, NEW calm \in BOOLEAN, QueueInv(A, calm), NEW w \in A,
           Drop(w)
    PROVE  QueueInv(A, calm)'
  <1>s. PICK self \in ProcState : self = proc[w]
    BY WorkerProceeds
  <1>j. PICK j \in Job : j = self.job
    BY <1>s, WorkerProceeds DEF Drop, WorkerOK, Moves, Busy
  <1> DEFINE s == [self EXCEPT !.pc = self.next]
  <1>1. /\ self \in ProcState /\ WorkerOK(self, calm) /\ self.pc = "drop" /\ w \in Worker
        /\ Become(w, s) /\ status' = status /\ Unlink(self.from, j)
    BY <1>s, <1>j, WorkerProceeds DEF Drop
  <1>2. /\ s \in ProcState /\ s.pc = self.next /\ s.todo = self.todo /\ s.job = j
        /\ s.next = self.next
    BY <1>1, <1>j DEF ProcState
  <1>3. j \in Job /\ Sent(j) /\ MoveOK(self, calm) /\ FileOK(j, calm) /\ self.pc \in Busy
    BY <1>1, <1>j DEF WorkerOK, Moves, Busy, QueueInv
  <1> HIDE DEF s
  <1>4. /\ \A k \in Job : (Sent(k)' <=> Sent(k)) /\ (Over(k) => Over(k)')
        /\ proc'[w] = s /\ \A v \in Worker \ {w} : proc'[v] = proc[v]
        /\ file \in [Directory -> [Job -> Record]]
    BY <1>1, WorkerKeeps
  <1>5. self.from \in {"queued", "claimed"} /\ self.from \in Directory
    BY <1>3 DEF MoveOK, Directory
  <1>6. /\ file' \in [Directory -> [Job -> Record]] /\ file'[self.from][j] = "absent"
        /\ \A e \in Directory : e # self.from => file'[e][j] = file[e][j]
        /\ \A k \in Job \ {j} : \A e \in Directory : file'[e][k] = file[e][k]
    <2>1. Write(self.from, j, "absent") /\ "absent" \in Record
      BY <1>1 DEF Unlink, Write, Record
    <2>2. QED
      BY <1>3, <1>4, <1>5, <2>1, WriteFile
  <1>7. /\ \A k \in self.todo : Sent(k)'
        /\ Recovering(self) => /\ j \notin self.todo
                               /\ \A k \in self.todo : Present("claimed", k)' \/ Over(k)'
    BY <1>1, <1>2, <1>3, <1>6, <1>s, <1>j, TodoStays
  <1>a. /\ "queued" \in Directory /\ "claimed" \in Directory
        /\ \A d \in Directory : Present(d, j)' => Present(d, j)
    BY <1>6 DEF Directory, Present
  <1>b. \A v \in Worker : Keeps(proc[v], j) => Keeps(proc'[v], j)
    BY <1>s, <1>1, <1>4 DEF Keeps, Holding
  <1>c. calm /\ Present("claimed", j)' =>
            status'[j] \in Terminal \/ \E v \in Worker : Keeps(proc[v], j)'
    BY <1>1, <1>3, <1>a, <1>b DEF FileOK, Keeps
  <1>8. CASE self.to # "queued"
    <2>1. Over(j) /\ s.pc \in {"recover", "poll"}
      BY <1>j, <1>2, <1>3, <1>8 DEF MoveOK
    <2>2. FileOK(j, calm)'
      BY <1>1, <1>3, <1>4, <1>5, <1>6, <1>a, <1>c, <2>1 DEF FileOK
    <2>3. WorkerOK(s, calm)'
      BY <1>1, <1>2, <1>7, <2>1 DEF WorkerOK, Recovering, Moves, Cancels, Holding, Busy
    <2>4. Present("queued", j)' => Present("queued", j)
      BY <1>a
    <2>5. QED
      BY <1>1, <1>2, <1>3, <1>6, <2>1, <2>2, <2>3, <2>4, <1>s, <1>j, WorkerChanges
      DEF Holding, Keeps
  <1>9. CASE self.to = "queued"
    <2>1. ~calm /\ s.pc = "reset" /\ self.from = "claimed" /\ ~Present("claimed", j)
      BY <1>j, <1>1, <1>2, <1>3, <1>9 DEF MoveOK
    <2>2. ~Present("claimed", j)' /\ (Present("queued", j)' <=> Present("queued", j))
      BY <1>6, <1>a, <2>1 DEF Present
    <2>3. FileOK(j, calm)'
      BY <1>1, <1>3, <1>4, <1>a, <2>1, <2>2 DEF FileOK
    <2>4. WorkerOK(s, calm)'
      BY <1>1, <1>2, <1>3, <1>4, <1>7, <2>1, <2>2
      DEF WorkerOK, Recovering, Moves, Cancels, Holding, Busy
    <2>5. QED
      BY <1>1, <1>2, <1>3, <1>6, <2>1, <2>3, <2>4, <1>s, <1>j, WorkerChanges DEF Holding, Keeps
  <1>10. QED
    BY <1>8, <1>9

\* The rename of a move that finds its source.
LEMMA MoveStepFiles ==
    ASSUME NEW A \in SUBSET Worker, NEW calm \in BOOLEAN, QueueInv(A, calm), NEW w \in A,
           Move(w), Present(proc[w].from, proc[w].job)
    PROVE  QueueInv(A, calm)'
  <1>s. PICK self \in ProcState : self = proc[w]
    BY WorkerProceeds
  <1>j. PICK j \in Job : j = self.job
    BY <1>s, WorkerProceeds DEF Move, WorkerOK, Moves, Busy
  <1> DEFINE s == [self EXCEPT !.pc = self.next]
  <1>1. /\ self \in ProcState /\ WorkerOK(self, calm) /\ self.pc = "move" /\ w \in Worker
        /\ Become(w, s) /\ status' = status /\ Rename(self.from, self.to, j)
    BY <1>s, <1>j, WorkerProceeds DEF Move
  <1>2. /\ s \in ProcState /\ s.pc = self.next /\ s.todo = self.todo /\ s.job = j
        /\ s.next = self.next
    BY <1>1, <1>j DEF ProcState
  <1>3. j \in Job /\ Sent(j) /\ MoveOK(self, calm) /\ FileOK(j, calm) /\ self.pc \in Busy
    BY <1>1, <1>j DEF WorkerOK, Moves, Busy, QueueInv
  <1> HIDE DEF s
  <1>4. /\ \A k \in Job : (Sent(k)' <=> Sent(k)) /\ (Over(k) => Over(k)')
        /\ proc'[w] = s /\ \A v \in Worker \ {w} : proc'[v] = proc[v]
        /\ file \in [Directory -> [Job -> Record]]
    BY <1>1, WorkerKeeps
  <1>b. \A v \in Worker : Keeps(proc[v], j) => Keeps(proc'[v], j)
    BY <1>s, <1>1, <1>4 DEF Keeps, Holding
  <1>8. CASE self.to # "queued"
    <2>1. /\ Over(j) /\ s.pc \in {"recover", "poll"} /\ self.from \in {"queued", "claimed"}
          /\ self.from \in Directory /\ self.to \in Directory \ {"queued", "claimed"}
      BY <1>j, <1>1, <1>2, <1>3, <1>8 DEF MoveOK, ProcState, Directory
    <2>2. /\ file' \in [Directory -> [Job -> Record]] /\ file'[self.from][j] = "absent"
          /\ \A e \in Directory \ {self.from, self.to} : file'[e][j] = file[e][j]
          /\ \A k \in Job \ {j} : \A e \in Directory : file'[e][k] = file[e][k]
      BY <1>1, <1>3, <1>4, <2>1, RenameFile
    <2>3. /\ \A k \in self.todo : Sent(k)'
          /\ Recovering(self) => /\ j \notin self.todo
                                 /\ \A k \in self.todo : Present("claimed", k)' \/ Over(k)'
      BY <1>1, <1>2, <1>3, <2>2, <1>s, <1>j, TodoStays
    <2>4. \A d \in {"queued", "claimed"} :
             /\ Present(d, j)' => Present(d, j)
             /\ file'[d][j] \in {file[d][j], "absent"}
      BY <2>1, <2>2 DEF Directory, Present
    <2>5. calm /\ Present("claimed", j)' =>
              status'[j] \in Terminal \/ \E v \in Worker : Keeps(proc[v], j)'
      BY <1>1, <1>3, <1>b, <2>4 DEF FileOK, Keeps
    <2>6. FileOK(j, calm)'
      BY <1>1, <1>3, <1>4, <2>1, <2>2, <2>4, <2>5 DEF FileOK
    <2>7. WorkerOK(s, calm)'
      BY <1>1, <1>2, <2>1, <2>3 DEF WorkerOK, Recovering, Moves, Cancels, Holding, Busy
    <2>8. Present("queued", j)' => Present("queued", j)
      BY <2>4
    <2>9. QED
      BY <1>1, <1>2, <1>3, <2>1, <2>2, <2>6, <2>7, <2>8, <1>s, <1>j, WorkerChanges
      DEF Holding, Keeps
  <1>9. CASE self.to = "queued"
    <2>1. /\ ~calm /\ s.pc = "reset" /\ self.from = "claimed" /\ Present("claimed", j)
          /\ ~Present("queued", j) /\ "claimed" \in Directory /\ "queued" \in Directory
      BY <1>s, <1>j, <1>1, <1>2, <1>3, <1>9 DEF MoveOK, FileOK, Directory
    <2>2. /\ file' \in [Directory -> [Job -> Record]] /\ file'["claimed"][j] = "absent"
          /\ file'["queued"][j] = file["claimed"][j]
          /\ \A e \in Directory \ {"claimed", "queued"} : file'[e][j] = file[e][j]
          /\ \A k \in Job \ {j} : \A e \in Directory : file'[e][k] = file[e][k]
      BY <1>1, <1>3, <1>4, <1>9, <2>1, RenameFile
    <2>3. /\ \A k \in self.todo : Sent(k)'
          /\ Recovering(self) => /\ j \notin self.todo
                                 /\ \A k \in self.todo : Present("claimed", k)' \/ Over(k)'
      BY <1>1, <1>2, <1>3, <2>2, <1>s, <1>j, TodoStays
    <2>4. /\ ~Present("claimed", j)' /\ Present("queued", j)'
          /\ \A e \in Directory \ {"claimed", "queued"} : Present(e, j)' <=> Present(e, j)
      BY <2>1, <2>2 DEF Present
    <2>5. FileOK(j, calm)'
      BY <1>3, <1>4, <2>1, <2>4 DEF FileOK
    <2>6. WorkerOK(s, calm)'
      BY <1>1, <1>2, <1>3, <1>4, <1>9, <2>1, <2>3, <2>4
      DEF WorkerOK, Recovering, Moves, Cancels, Holding, Busy
    <2>7. QED
      BY <1>1, <1>2, <1>3, <2>1, <2>2, <2>5, <2>6, <1>s, <1>j, WorkerChanges DEF Holding, Keeps
  <1>10. QED
    BY <1>8, <1>9

\* The requeued record is written: its claim is gone.
LEMMA ResetStep ==
    ASSUME NEW A \in SUBSET Worker, NEW calm \in BOOLEAN, QueueInv(A, calm), NEW w \in A,
           Reset(w)
    PROVE  QueueInv(A, calm)'
  <1>s. PICK self \in ProcState : self = proc[w]
    BY WorkerProceeds
  <1>j. PICK j \in Job : j = self.job
    BY <1>s, WorkerProceeds DEF Reset, WorkerOK, Busy
  <1> DEFINE s == [self EXCEPT !.pc = "recover"]
  <1>1. /\ self \in ProcState /\ WorkerOK(self, calm) /\ self.pc = "reset" /\ self.pc \in Busy
        /\ Become(w, s) /\ status' = status /\ Write("queued", j, "unclaimed")
    BY <1>s, <1>j, WorkerProceeds DEF Reset, Busy
  <1>2. /\ s \in ProcState /\ s.pc = "recover" /\ s.todo = self.todo
    BY <1>1 DEF ProcState, Pc
  <1>3. Sent(j) /\ FileOK(j, calm) /\ ~calm /\ ~Present("claimed", j)
    BY <1>1, <1>j DEF WorkerOK, QueueInv
  <1> HIDE DEF s
  <1>4. /\ \A k \in Job : (Sent(k)' <=> Sent(k)) /\ (Over(k) => Over(k)')
        /\ file \in [Directory -> [Job -> Record]]
    BY <1>1, WorkerKeeps
  <1>5. "queued" \in Directory /\ "claimed" \in Directory /\ "unclaimed" \in Record
    BY DEF Directory, Record
  <1>6. /\ file' \in [Directory -> [Job -> Record]] /\ file'["queued"][j] = "unclaimed"
        /\ \A e \in Directory : e # "queued" => file'[e][j] = file[e][j]
        /\ \A k \in Job \ {j} : \A e \in Directory : file'[e][k] = file[e][k]
    BY <1>1, <1>4, <1>5, WriteFile
  <1>7. /\ \A k \in self.todo : Sent(k)'
        /\ Recovering(self) => \A k \in self.todo : Present("claimed", k)' \/ Over(k)'
    BY <1>1, <1>2, <1>6, <1>s, <1>j, TodoStays
  <1>8. FileOK(j, calm)'
    BY <1>3, <1>4, <1>5, <1>6 DEF FileOK, Present
  <1>9. WorkerOK(s, calm)'
    BY <1>1, <1>2, <1>7 DEF WorkerOK, Recovering, Moves, Cancels, Holding, Busy
  <1>10. QED
    BY <1>1, <1>2, <1>3, <1>6, <1>8, <1>9, <1>s, <1>j, WorkerChanges DEF Holding, Keeps

\* The rename that claims a job: while its record is in queued/ nobody holds it.
LEMMA ClaimStep ==
    ASSUME NEW A \in SUBSET Worker, NEW calm \in BOOLEAN, QueueInv(A, calm), NEW w \in A,
           ClaimRename(w), Present("queued", proc[w].job)
    PROVE  QueueInv(A, calm)'
  <1>s. PICK self \in ProcState : self = proc[w]
    BY WorkerProceeds
  <1>j. PICK j \in Job : j = self.job
    BY <1>s, WorkerProceeds DEF ClaimRename, WorkerOK, Busy
  <1> DEFINE s == [self EXCEPT !.pc = "stamp"]
  <1>1. /\ self \in ProcState /\ WorkerOK(self, calm) /\ self.pc = "rename" /\ self.pc \in Busy
        /\ Become(w, s) /\ status' = status /\ Rename("queued", "claimed", j) /\ w \in Worker
    BY <1>s, <1>j, WorkerProceeds DEF ClaimRename, Busy
  <1>2. /\ s \in ProcState /\ s.pc = "stamp" /\ s.todo = self.todo /\ s.job = j
    BY <1>1, <1>j DEF ProcState, Pc
  <1>3. Sent(j) /\ FileOK(j, calm) /\ Present("queued", j)
    BY <1>1, <1>s, <1>j DEF WorkerOK, QueueInv
  <1> HIDE DEF s
  <1>4. /\ \A k \in Job : (Sent(k)' <=> Sent(k)) /\ (Over(k) => Over(k)')
        /\ file \in [Directory -> [Job -> Record]] /\ proc'[w] = s
    BY <1>1, WorkerKeeps
  <1>5. "queued" \in Directory /\ "claimed" \in Directory
    BY DEF Directory
  <1>6. /\ file' \in [Directory -> [Job -> Record]]
        /\ file'["claimed"][j] = file["queued"][j] /\ file'["queued"][j] = "absent"
        /\ \A e \in Directory \ {"queued", "claimed"} : file'[e][j] = file[e][j]
        /\ \A k \in Job \ {j} : \A e \in Directory : file'[e][k] = file[e][k]
    BY <1>1, <1>4, <1>5, RenameFile
  <1>7. \A k \in self.todo : Sent(k)'
    BY <1>1, <1>2, <1>6, <1>s, <1>j, TodoStays
  <1>8. Keeps(proc[w], j)'
    BY <1>2, <1>4 DEF Keeps, Holding
  <1>9. FileOK(j, calm)'
    <2>1. \E v \in Worker : Keeps(proc[v], j)'
      BY <1>1, <1>8
    <2>2. QED
      BY <1>3, <1>4, <1>5, <1>6, <2>1 DEF FileOK, Present
  <1>10. WorkerOK(s, calm)'
    BY <1>2, <1>3, <1>4, <1>6, <1>7
    DEF WorkerOK, Recovering, Moves, Cancels, Holding, Busy, Present
  <1>11. Present("claimed", j)' /\ ~Present("queued", j)'
    BY <1>3, <1>6 DEF Present
  <1>12. QED
    BY <1>1, <1>2, <1>3, <1>6, <1>9, <1>10, <1>11, <1>s, <1>j, WorkerChanges

LEMMA StampStep ==
    ASSUME NEW A \in SUBSET Worker, NEW calm \in BOOLEAN, QueueInv(A, calm), NEW w \in A,
           Stamp(w)
    PROVE  QueueInv(A, calm)'
  <1>s. PICK self \in ProcState : self = proc[w]
    BY WorkerProceeds
  <1>j. PICK j \in Job : j = self.job
    BY <1>s, WorkerProceeds DEF Stamp, WorkerOK, Busy, Holding
  <1> DEFINE s == [At("execute") EXCEPT !.job = j]
  <1>1. /\ self \in ProcState /\ WorkerOK(self, calm) /\ self.pc = "stamp" /\ self.pc \in Busy
        /\ Become(w, s) /\ status' = status /\ Write("claimed", j, "recent") /\ w \in Worker
    BY <1>s, <1>j, WorkerProceeds DEF Stamp, Busy, Holding
  <1>2. s \in ProcState /\ s.pc = "execute" /\ s.todo = {} /\ s.job = j /\ s.from = "queued"
    BY DEF ProcState, Pc, At, Directory
  <1>3. Sent(j) /\ FileOK(j, calm) /\ ~Present("queued", j)
    BY <1>1, <1>j DEF WorkerOK, QueueInv, Holding
  <1> HIDE DEF s
  <1>4. /\ \A k \in Job : (Sent(k)' <=> Sent(k)) /\ (Over(k) => Over(k)')
        /\ file \in [Directory -> [Job -> Record]] /\ proc'[w] = s
    BY <1>1, WorkerKeeps
  <1>5. "queued" \in Directory /\ "claimed" \in Directory /\ "recent" \in Record
    BY DEF Directory, Record
  <1>6. /\ file' \in [Directory -> [Job -> Record]] /\ file'["claimed"][j] = "recent"
        /\ \A e \in Directory : e # "claimed" => file'[e][j] = file[e][j]
        /\ \A k \in Job \ {j} : \A e \in Directory : file'[e][k] = file[e][k]
    BY <1>1, <1>4, <1>5, WriteFile
  <1>7. Keeps(proc[w], j)' /\ Keeps(proc[w], j)
    BY <1>1, <1>2, <1>4, <1>s, <1>j DEF Keeps, Holding
  <1>8. Present("claimed", j)' /\ ~Present("queued", j)'
    BY <1>3, <1>5, <1>6 DEF Present
  <1>9. FileOK(j, calm)'
    <2>1. \E v \in Worker : Keeps(proc[v], j)'
      BY <1>1, <1>7
    <2>2. QED
      BY <1>3, <1>4, <1>5, <1>6, <2>1 DEF FileOK, Present
  <1>10. WorkerOK(s, calm)'
    BY <1>2, <1>3, <1>4, <1>8 DEF WorkerOK, Recovering, Moves, Cancels, Holding, Busy
  <1>11. QED
    BY <1>1, <1>2, <1>6, <1>7, <1>8, <1>9, <1>10, <1>s, <1>j, WorkerChanges

LEMMA RetireStep ==
    ASSUME NEW A \in SUBSET Worker, NEW calm \in BOOLEAN, QueueInv(A, calm), NEW w \in A,
           Retire(w), Present("claimed", proc[w].job)
    PROVE  QueueInv(A, calm)'
  <1>s. PICK self \in ProcState : self = proc[w]
    BY WorkerProceeds
  <1>j. PICK j \in Job : j = self.job
    BY <1>s, WorkerProceeds DEF Retire, WorkerOK, Busy, Holding
  <1> DEFINE s == At("poll")
  <1>1. /\ self \in ProcState /\ WorkerOK(self, calm) /\ self.pc = "retire"
        /\ Become(w, s) /\ status' = status /\ Rename("claimed", self.to, j)
    BY <1>s, <1>j, WorkerProceeds DEF Retire
  <1>2. s \in ProcState /\ s.pc = "poll" /\ s.todo = {}
    BY AtStates DEF Pc
  <1>3. /\ Sent(j) /\ FileOK(j, calm) /\ ~Present("queued", j) /\ status[j] \in Terminal
        /\ self.to \in {"completed", "failed"}
    BY <1>1, <1>j DEF WorkerOK, QueueInv, Holding, Busy
  <1> HIDE DEF s
  <1>4. /\ \A k \in Job : (Sent(k)' <=> Sent(k)) /\ (Over(k) => Over(k)')
        /\ file \in [Directory -> [Job -> Record]]
    BY <1>1, WorkerKeeps
  <1>5. /\ "queued" \in Directory /\ "claimed" \in Directory
        /\ self.to \in Directory \ {"queued", "claimed"}
    BY <1>3 DEF Directory
  <1>6. /\ file' \in [Directory -> [Job -> Record]] /\ file'["claimed"][j] = "absent"
        /\ file'["queued"][j] = file["queued"][j]
        /\ \A k \in Job \ {j} : \A e \in Directory : file'[e][k] = file[e][k]
    BY <1>1, <1>4, <1>5, RenameFile
  <1>7. Over(j)
    BY <1>3 DEF Over
  <1>8. ~Present("queued", j)' /\ ~Present("claimed", j)' /\ Over(j)' /\ Sent(j)'
    BY <1>3, <1>4, <1>6, <1>7 DEF Present
  <1>9. FileOK(j, calm)'
    BY <1>3, <1>6, <1>8 DEF FileOK, Present
  <1>10. WorkerOK(s, calm)' /\ s.pc \notin Holding
    BY <1>2 DEF WorkerOK, Recovering, Moves, Cancels, Holding, Busy
  <1>11. QED
    BY <1>1, <1>2, <1>6, <1>7, <1>8, <1>9, <1>10, <1>s, <1>j, WorkerChanges DEF Keeps

----------------------------------------------------------------------------
(* The execution of a run.                                                   *)

LEMMA ExecutionSteps ==
    ASSUME NEW A \in SUBSET Worker, NEW calm \in BOOLEAN, QueueInv(A, calm), NEW w \in A,
           \/ ExecutionStarts(w)
           \/ \E outcome \in Terminal : ExecutionEnds(w, outcome)
    PROVE  QueueInv(A, calm)'
  <1>s. PICK self \in ProcState : self = proc[w]
    BY WorkerProceeds
  <1>t. TypeOK /\ w \in Worker /\ WorkerOK(self, calm)
    BY <1>s, WorkerProceeds DEF QueueInv
  <1>p. self.pc = "execute"
    BY <1>s DEF ExecutionStarts, ExecutionEnds
  <1>j. PICK j \in Job : j = self.job
    BY <1>t, <1>p DEF WorkerOK, Busy, Holding
  <1>1. PICK s \in ProcState, outcome \in Terminal \cup {"running"} :
            /\ proc' = [proc EXCEPT ![w] = s]
            /\ status[j] \in {"queued", "running"}
            /\ status' = [status EXCEPT ![j] = outcome]
            /\ UNCHANGED <<file, crashes>>
            /\ s.todo = self.todo /\ s.job = self.job /\ s.from = self.from
            /\ \/ s = self
               \/ outcome \in Terminal /\ s.pc \in {"complete", "fail", "cancelList"}
    <2>1. CASE ExecutionStarts(w)
      <3>1. proc' = [proc EXCEPT ![w] = self]
        BY <1>s, <1>t, <2>1 DEF ExecutionStarts, TypeOK, Process
      <3>2. /\ status' = [status EXCEPT ![j] = "running"] /\ UNCHANGED <<file, crashes>>
            /\ status[j] = "queued"
        BY <1>s, <1>j, <2>1 DEF ExecutionStarts
      <3>3. QED
        BY <3>1, <3>2
    <2>2. CASE \E outcome \in Terminal : ExecutionEnds(w, outcome)
      <3>1. PICK outcome \in Terminal : ExecutionEnds(w, outcome)
        BY <2>2
      <3> DEFINE s == Settling(self, outcome)
      <3>2. /\ s \in ProcState /\ s.todo = self.todo /\ s.job = self.job /\ s.from = self.from
            /\ s.pc \in {"complete", "fail", "cancelList"}
        BY SettlingState
      <3>3. /\ proc' = [proc EXCEPT ![w] = s] /\ UNCHANGED <<file, crashes>>
            /\ status' = [status EXCEPT ![j] = outcome] /\ status[j] = "running"
        BY <1>s, <1>j, <3>1 DEF ExecutionEnds, Become
      <3> HIDE DEF s
      <3>4. QED
        BY <3>2, <3>3
    <2>3. QED
      BY <2>1, <2>2
  <1>2. /\ \A k \in Job \ {j} : status'[k] = status[k]
        /\ status'[j] = outcome /\ status' \in [Job -> RunStatus]
        /\ outcome # "none"
    BY <1>1, <1>t DEF TypeOK, RunStatus, Terminal
  <1>3. Progress /\ \A k \in Job : Sent(k)' <=> Sent(k)
    <2>1. \A k \in Job : \/ status'[k] = status[k]
                         \/ status[k] \in {"queued", "running"} /\ status'[k] # "none"
      BY <1>1, <1>2
    <2>2. QED
      BY <1>1, <1>t, <2>1, WorkerProgress
  <1>4. KeepsClaims /\ NoRequeue /\ NoClaim
    BY <1>1 DEF KeepsClaims, NoRequeue, NoClaim, Present
  <1>5. WorkerOK(self, calm)'
    BY <1>3, <1>4, <1>t, WorkerStable
  <1>6. WorkerOK(s, calm)'
    <2>1. CASE s = self
      BY <1>5, <2>1
    <2>2. CASE outcome \in Terminal /\ s.pc \in {"complete", "fail", "cancelList"}
      <3>1. /\ s.job = j /\ s.from = "queued" /\ Sent(j)' /\ ~Present("queued", j)'
            /\ status'[j] \in Terminal /\ \A k \in s.todo : Sent(k)'
        BY <1>1, <1>2, <1>5, <1>p, <1>j, <2>2 DEF WorkerOK, Busy, Holding
      <3>2. QED
        BY <2>2, <3>1 DEF WorkerOK, Recovering, Moves, Cancels, Holding, Busy
    <2>3. QED
      BY <1>1, <2>1, <2>2
  <1>7. \A k \in Job : Keeps(s, k) => Keeps(proc[w], k)
    BY <1>1, <1>p, <1>s DEF Keeps, Holding
  <1>8. ASSUME NEW k \in Job PROVE FileOK(k, calm)'
    <2>1. \A v \in Worker : proc'[v] = IF v = w THEN s ELSE proc[v]
      BY <1>1, <1>t DEF TypeOK, Process
    <2>2. Keeps(self, k) => Keeps(s, k) \/ status'[k] \in Terminal
      BY <1>1, <1>2, <1>p, <1>j DEF Keeps, Holding
    <2>3. \A v \in Worker : Keeps(proc[v], k) => Keeps(proc'[v], k) \/ status'[k] \in Terminal
      BY <1>s, <2>1, <2>2
    <2>4. \A v \in Worker : Keeps(proc[v], k) => Keeps(proc[v], k)' \/ status'[k] \in Terminal
      BY <2>3 DEF Keeps
    <2>5. FileOK(k, calm)
      BY DEF QueueInv
    <2>6. QED
      BY <1>1, <1>3, <2>4, <2>5, FileStays
  <1>9. file' \in [Directory -> [Job -> Record]] /\ crashes' \in 0 .. MaxCrashes
    BY <1>1, <1>t DEF TypeOK
  <1>10. QED
    BY <1>1, <1>2, <1>3, <1>4, <1>6, <1>7, <1>8, <1>9, WorkerActs

LEMMA WorkerStepKeeps ==
    ASSUME NEW A \in SUBSET Worker, NEW calm \in BOOLEAN, QueueInv(A, calm), NEW w \in A,
           WorkerStep(w)
    PROVE  QueueInv(A, calm)'
  <1>1. CASE RecoverList(w) \/ ClaimList(w)
    BY <1>1, ListSteps
  <1>2. CASE RecoverLoad(w)
    BY <1>2, RecoverLoadStep
  <1>3. CASE Reset(w)
    BY <1>3, ResetStep
  <1>4. CASE RecoverDone(w) \/ ClaimNothing(w) \/ Restart(w)
    BY <1>4, IdleSteps
  <1>5. CASE \E j \in Job : RecoverRead(w, j) \/ ClaimRead(w, j)
    BY <1>5, RecoverReadStep, ClaimReads
  <1>6. CASE Recheck(w) \/ ClaimRename(w)
    BY <1>6, ClaimReads, ClaimStep
  <1>7. CASE Stamp(w)
    BY <1>7, StampStep
  <1>8. CASE ExecutionStarts(w) \/ \E outcome \in Terminal : ExecutionEnds(w, outcome)
    BY <1>8, ExecutionSteps
  <1>9. CASE ExecutionOvertaken(w) \/ Settle(w) \/ Retire(w)
    BY <1>9, SettleSteps, RetireStep
  <1>10. CASE MoveStep(w)
    BY <1>10, WorkerMoveReads, DropStep, MoveStepFiles DEF MoveStep
  <1>11. CASE CancelStep(w)
    BY <1>11, WorkerCancels
  <1>12. QED
    BY <1>1, <1>2, <1>3, <1>4, <1>5, <1>6, <1>7, <1>8, <1>9, <1>10, <1>11 DEF WorkerStep

----------------------------------------------------------------------------
(* Steps of a request.                                                       *)

\* A request looks for its job and moves the record.
LEMMA ClientProgress ==
    ASSUME TypeOK, NEW c \in Client, NEW s, Become(c, s), status' = status,
           proc[c].pc \notin {"cancelSave", "enqueue"}, s.pc # "enqueue"
    PROVE  /\ Progress /\ \A j \in Job : Sent(j)' <=> Sent(j)
           /\ s.pc = "cancelSave" => \A j \in Job : s.job = j => Over(j)'
           /\ \A w \in Worker : proc'[w] = proc[w]
  <1>1. /\ proc'[c] = s /\ \A d \in Client \ {c} : proc'[d] = proc[d]
        /\ \A w \in Worker : proc'[w] = proc[w]
    BY ProcessAssumption DEF TypeOK, Process, Become
  <1>2. \A j \in Job : Over(j) => Over(j)'
    BY <1>1 DEF Over
  <1>3. \A j \in Job : Sending(j)' <=> Sending(j)
    BY <1>1 DEF Sending
  <1>4. s.pc = "cancelSave" => \A j \in Job : s.job = j => Over(j)'
    BY <1>1 DEF Over
  <1>5. QED
    BY <1>1, <1>2, <1>3, <1>4 DEF Progress, Sent

\* It is enough to look at the files of that job and at that request.
LEMMA ClientChanges ==
    ASSUME NEW A \in SUBSET Worker, NEW calm \in BOOLEAN, QueueInv(A, calm), NEW c \in Client,
           NEW s \in ProcState, NEW j \in Job, Become(c, s), status' = status,
           proc[c].pc \notin {"cancelSave", "enqueue"}, s.pc # "enqueue",
           file' \in [Directory -> [Job -> Record]],
           \A k \in Job \ {j} : \A d \in Directory : file'[d][k] = file[d][k],
           \A d \in {"queued", "claimed"} : file'[d][j] \in {file[d][j], "absent"},
           Sent(j), Over(j) \/ (s.pc = "cancelSave" /\ s.job = j),
           ClientOK(s)'
    PROVE  QueueInv(A, calm)'
  <1>a. TypeOK /\ "queued" \in Directory /\ "claimed" \in Directory
    BY DEF QueueInv, Directory
  <1>1. /\ Progress /\ \A k \in Job : Sent(k)' <=> Sent(k)
        /\ s.pc = "cancelSave" => \A k \in Job : s.job = k => Over(k)'
        /\ \A w \in Worker : proc'[w] = proc[w]
    BY <1>a, ClientProgress
  <1>2. \A w \in Worker : \A k \in Job : Keeps(proc[w], k) => Keeps(proc[w], k)'
    BY <1>1 DEF Keeps
  <1>3. ASSUME NEW k \in Job, \A d \in Directory : file'[d][k] = file[d][k]
        PROVE  FileOK(k, calm)'
    <2>1. FileOK(k, calm)
      BY DEF QueueInv
    <2>2. QED
      BY <1>1, <1>2, <1>3, <2>1, FileStays
  <1>4. Over(j)' /\ Sent(j)'
    BY <1>1 DEF Progress
  <1>5. \A d \in {"queued", "claimed"} : Present(d, j)' => Present(d, j)
    BY DEF Present
  <1>6. FileOK(j, calm)
    BY DEF QueueInv
  <1>8. calm /\ Present("claimed", j)' =>
            status'[j] \in Terminal \/ \E w \in Worker : Keeps(proc[w], j)'
    BY <1>2, <1>5, <1>6 DEF FileOK
  <1>9. FileOK(j, calm)'
    BY <1>4, <1>5, <1>6, <1>8 DEF FileOK
  <1>10. \A k \in Job : FileOK(k, calm)'
    BY <1>3, <1>9
  <1>11. KeepsClaims /\ NoRequeue /\ NoClaim
    <2>1. \A k \in Job \ {j} : /\ Present("claimed", k)' <=> Present("claimed", k)
                               /\ Present("queued", k)' <=> Present("queued", k)
      BY <1>a DEF Present
    <2>2. QED
      BY <1>4, <1>5, <2>1 DEF KeepsClaims, NoRequeue, NoClaim
  <1>12. status' \in [Job -> RunStatus]
    BY <1>a DEF TypeOK
  <1>13. QED
    BY <1>1, <1>10, <1>11, <1>12, ClientActs

LEMMA ClientState ==
    ASSUME NEW A \in SUBSET Worker, NEW calm \in BOOLEAN, QueueInv(A, calm), NEW c \in Client
    PROVE  /\ proc[c] \in ProcState /\ ClientOK(proc[c]) /\ c \notin Worker
           /\ file \in [Directory -> [Job -> Record]]
           /\ \A s \in ProcState :
                 /\ Proceed(c, s) /\ ClientOK(s)
                 /\ proc[c].pc \notin {"cancelSave", "enqueue"} /\ s.pc # "enqueue"
                 => QueueInv(A, calm)'
           /\ Proceed(c, Raised(c)) /\ proc[c].pc \notin {"cancelSave", "enqueue"}
                 => QueueInv(A, calm)'
  <1>1. /\ proc[c] \in ProcState /\ ClientOK(proc[c]) /\ c \notin Worker
        /\ file \in [Directory -> [Job -> Record]]
    BY ProcessAssumption DEF QueueInv, TypeOK, Process
  <1>2. ASSUME NEW s \in ProcState, Proceed(c, s), ClientOK(s),
               proc[c].pc \notin {"cancelSave", "enqueue"}, s.pc # "enqueue"
        PROVE  QueueInv(A, calm)'
    <2>1. Become(c, s) /\ status' = status /\ file' = file
      BY <1>2 DEF Proceed
    <2>2. Progress /\ \A j \in Job : Sent(j)' <=> Sent(j)
      BY <1>2, <2>1, ClientProgress DEF QueueInv
    <2>3. ClientOK(s)'
      BY <1>2, <2>2, ClientStable
    <2>4. \A w \in Worker : proc'[w] = proc[w]
      BY <1>2, <2>1, ClientProgress DEF QueueInv
    <2>5. \A w \in Worker : \A k \in Job : Keeps(proc[w], k) => Keeps(proc[w], k)'
      BY <2>4 DEF Keeps
    <2>6. ASSUME NEW k \in Job PROVE FileOK(k, calm)'
      <3>1. FileOK(k, calm) /\ \A d \in Directory : file'[d][k] = file[d][k]
        BY <2>1 DEF QueueInv
      <3>2. QED
        BY <2>2, <2>5, <3>1, FileStays
    <2>7. KeepsClaims /\ NoRequeue /\ NoClaim
      BY <2>1 DEF KeepsClaims, NoRequeue, NoClaim, Present
    <2>8. status' \in [Job -> RunStatus] /\ file' \in [Directory -> [Job -> Record]]
      BY <2>1 DEF QueueInv, TypeOK
    <2>9. QED
      BY <1>2, <2>1, <2>2, <2>3, <2>6, <2>7, <2>8, ClientActs
  <1>3. At("idle") \in ProcState /\ ClientOK(At("idle")) /\ At("idle").pc = "idle"
    BY AtStates DEF ClientOK, Pc, Moves, Cancels
  <1>4. Raised(c) = At("idle")
    BY <1>1 DEF Raised
  <1>5. QED
    BY <1>1, <1>2, <1>3, <1>4

LEMMA ClientCancels ==
    ASSUME NEW A \in SUBSET Worker, NEW calm \in BOOLEAN, QueueInv(A, calm), NEW c \in Client,
           CancelStep(c)
    PROVE  QueueInv(A, calm)'
  <1>a. proc[c] \in ProcState /\ ClientOK(proc[c]) /\ c \notin Worker
    BY ClientState
  <1>b. proc[c].pc \in Cancels /\ proc[c].pc \notin {"cancelSave", "enqueue", "idle"}
    BY DEF CancelStep, CancelList, CancelRead, Cancels
  <1>c. /\ proc[c].job \in Job /\ status[proc[c].job] # "none"
        /\ proc[c].from \in {"queued", "claimed"}
    BY <1>a, <1>b DEF ClientOK
  <1> DEFINE found == [proc[c] EXCEPT !.todo = {}]
  <1>1. PICK s : /\ Proceed(c, s)
                 /\ \/ \E listing \in SUBSET Job : s = CancelReading(c, listing)
                    \/ s = Moving(found, proc[c].from, "cancelled", "cancelSave")
                    \/ s = Raised(c)
    BY <1>a, CancelMoves DEF Cancelled
  <1>d. found \in ProcState /\ found.job = proc[c].job
    BY <1>a DEF ProcState
  <1> HIDE DEF found
  <1>2. CASE s = Raised(c)
    BY <1>1, <1>2, <1>b, ClientState
  <1>3. CASE s = Moving(found, proc[c].from, "cancelled", "cancelSave")
    <2>1. proc[c].from \in Directory /\ "cancelled" \in Directory /\ "cancelSave" \in Pc
      BY <1>c DEF Directory, Pc
    <2>2. /\ s \in ProcState /\ s.pc = "moveCheck" /\ s.from = proc[c].from
          /\ s.to = "cancelled" /\ s.next = "cancelSave" /\ s.job = proc[c].job
      BY <1>d, <1>3, <2>1, MovingState
    <2>3. ClientOK(s)
      BY <1>c, <2>2 DEF ClientOK, Moves, Cancels
    <2>4. QED
      BY <1>1, <1>b, <2>2, <2>3, ClientState
  <1>4. CASE \E listing \in SUBSET Job : s = CancelReading(c, listing)
    <2>1. /\ s \in ProcState /\ s.pc \in {"cancelRead", "cancelList", "cancelSave"}
          /\ s.job = proc[c].job /\ s.from \in {"queued", "claimed"}
      BY <1>a, <1>c, <1>4, LookingState DEF Cancelled
    <2>2. ClientOK(s) /\ s.pc # "enqueue"
      BY <1>c, <2>1 DEF ClientOK, Moves, Cancels
    <2>3. QED
      BY <1>1, <1>b, <2>1, <2>2, ClientState
  <1>5. QED
    BY <1>1, <1>2, <1>3, <1>4

LEMMA ClientMoves ==
    ASSUME NEW A \in SUBSET Worker, NEW calm \in BOOLEAN, QueueInv(A, calm), NEW c \in Client,
           MoveStep(c)
    PROVE  QueueInv(A, calm)'
  <1>s. PICK self \in ProcState : self = proc[c]
    BY ClientState
  <1>a. /\ ClientOK(self) /\ self.pc \in Moves
        /\ file \in [Directory -> [Job -> Record]]
    BY <1>s, ClientState DEF MoveStep, MoveCheck, Move, Drop, Moves
  <1>j. PICK j \in Job : j = self.job
    BY <1>a DEF ClientOK, Moves
  <1>b. /\ status[j] # "none" /\ self.from \in {"queued", "claimed"} /\ self.to = "cancelled"
        /\ self.next = "cancelSave"
        /\ self.pc = "drop" => Over(j) /\ Sent(j)
    BY <1>a, <1>j DEF ClientOK, Moves
  <1>c. self.pc \notin {"cancelSave", "enqueue"} /\ FileOK(j, calm)
    BY <1>a DEF Moves, QueueInv
  <1>d. /\ self.from \in Directory /\ "cancelled" \in Directory \ {"queued", "claimed"}
        /\ self.from # "cancelled"
    BY <1>b DEF Directory
  <1>1. CASE MoveCheck(c)
    <2> DEFINE s == [self EXCEPT !.pc = IF Present("cancelled", j) THEN "drop" ELSE "move"]
    <2>1. Proceed(c, s)
      BY <1>1, <1>s, <1>j, <1>b DEF MoveCheck
    <2>2. /\ s \in ProcState /\ s.pc \in {"drop", "move"} /\ s.job = j /\ s.from = self.from
          /\ s.to = self.to /\ s.next = self.next
          /\ s.pc = "drop" => Present("cancelled", j)
      BY <1>j DEF ProcState, Pc
    <2> HIDE DEF s
    <2>3. s.pc = "drop" => Over(j) /\ Sent(j)
      BY <1>c, <1>d, <2>2 DEF FileOK
    <2>4. ClientOK(s) /\ s.pc # "enqueue"
      BY <1>b, <2>2, <2>3 DEF ClientOK, Moves, Cancels
    <2>5. QED
      BY <1>c, <1>s, <2>1, <2>2, <2>4, ClientState
  <1>2. CASE Move(c) /\ ~Present(self.from, j)
    <2>1. Proceed(c, Raised(c))
      BY <1>2, <1>s, <1>j DEF Move, Proceed, Become
    <2>2. QED
      BY <1>c, <1>s, <2>1, ClientState
  <1>3. CASE Drop(c) \/ (Move(c) /\ Present(self.from, j))
    <2> DEFINE s == [self EXCEPT !.pc = self.next]
    <2>1. Become(c, s) /\ status' = status
      BY <1>3, <1>s, <1>j DEF Drop, Move
    <2>2. s \in ProcState /\ s.pc = "cancelSave" /\ s.job = j
      BY <1>j, <1>b DEF ProcState
    <2> HIDE DEF s
    <2>3. /\ file' \in [Directory -> [Job -> Record]]
          /\ \A k \in Job \ {j} : \A d \in Directory : file'[d][k] = file[d][k]
          /\ \A d \in {"queued", "claimed"} : file'[d][j] \in {file[d][j], "absent"}
      <3>1. CASE Drop(c)
        <4>1. Write(self.from, j, "absent") /\ "absent" \in Record
          BY <1>s, <1>j, <3>1 DEF Drop, Unlink, Write, Record
        <4>2. QED
          BY <1>a, <1>d, <4>1, WriteFile DEF Directory
      <3>2. CASE Move(c) /\ Present(self.from, j)
        <4>1. Rename(self.from, "cancelled", j)
          BY <1>s, <1>j, <1>b, <3>2 DEF Move
        <4>2. QED
          BY <1>a, <1>d, <4>1, RenameFile DEF Directory
      <3>3. QED
        BY <1>3, <3>1, <3>2
    <2>4. ClientOK(s)'
      BY <1>b, <2>1, <2>2 DEF ClientOK, Moves, Cancels
    <2>5. Sent(j)
      <3>1. CASE Drop(c)
        BY <1>b, <1>s, <3>1 DEF Drop
      <3>2. CASE Move(c) /\ Present(self.from, j)
        BY <1>c, <1>d, <3>2 DEF FileOK
      <3>3. QED
        BY <1>3, <3>1, <3>2
    <2>6. QED
      BY <1>c, <1>s, <2>1, <2>2, <2>3, <2>4, <2>5, ClientChanges
  <1>4. QED
    BY <1>1, <1>2, <1>3 DEF MoveStep

LEMMA SubmitSteps ==
    ASSUME NEW A \in SUBSET Worker, NEW calm \in BOOLEAN, QueueInv(A, calm), NEW c \in Client
    PROVE  /\ \A j \in Job : LoadForCancel(c, j) => QueueInv(A, calm)'
           /\ \A j \in Job : Submit(c, j) => QueueInv(A, calm)'
           /\ Enqueue(c) => QueueInv(A, calm)'
           /\ CancelSave(c) => QueueInv(A, calm)'
  <1>a. TypeOK /\ OneSender /\ c \in Process /\ c \notin Worker /\ Worker \subseteq Process
    BY ProcessAssumption DEF QueueInv, Process
  <1>b. \A d \in Client : ClientOK(proc[d])
    BY DEF QueueInv
  <1>i. At("idle") \in ProcState /\ ClientOK(At("idle"))' /\ At("idle").pc = "idle"
    BY AtStates DEF ClientOK, Pc, Moves, Cancels
  <1>q. "queued" \in Directory /\ "claimed" \in Directory
    BY DEF Directory
  <1>1. ASSUME NEW j \in Job, LoadForCancel(c, j) PROVE QueueInv(A, calm)'
    <2> DEFINE s == [At("cancelList") EXCEPT !.job = j]
    <2>1. /\ s \in ProcState /\ s.pc = "cancelList" /\ s.from = "queued" /\ s.job = j
      BY DEF At, ProcState, Pc, Directory
    <2>2. Proceed(c, s) /\ proc[c].pc = "idle" /\ status[j] # "none"
      BY <1>1 DEF LoadForCancel
    <2> HIDE DEF s
    <2>3. ClientOK(s)
      BY <2>1, <2>2 DEF ClientOK, Moves, Cancels
    <2>4. QED
      BY <2>1, <2>2, <2>3, ClientState
  <1>2. ASSUME NEW s \in ProcState, Become(c, s), status' \in [Job -> RunStatus],
               file' \in [Directory -> [Job -> Record]], ClientOK(s)',
               Progress, KeepsClaims, NoRequeue, NoClaim,
               NEW j \in Job, FileOK(j, calm)',
               \A k \in Job \ {j} : /\ status'[k] = status[k]
                                    /\ \A d \in Directory : file'[d][k] = file[d][k],
               proc[c].pc = "enqueue" => proc[c].job = j,
               s.pc = "enqueue" => /\ s.job = j
                                   /\ \A d \in Client : proc[d].pc = "enqueue" => proc[d].job # j
        PROVE  QueueInv(A, calm)'
    <2>1. proc'[c] = s /\ \A q \in Process \ {c} : proc'[q] = proc[q]
      BY <1>2, <1>a DEF TypeOK, Become
    <2>2. \A w \in Worker : proc'[w] = proc[w]
      BY <1>a, <2>1
    <2>3. \A w \in Worker : \A k \in Job : Keeps(proc[w], k) => Keeps(proc[w], k)'
      BY <2>2 DEF Keeps
    <2>4. ASSUME NEW k \in Job PROVE FileOK(k, calm)'
      <3>1. CASE k = j
        BY <1>2, <3>1
      <3>2. CASE k # j
        <4>1. Sending(k)' <=> Sending(k)
          <5>1. \A d \in Client : proc'[d].pc = "enqueue" /\ proc'[d].job = k
                                  <=> proc[d].pc = "enqueue" /\ proc[d].job = k
            BY <1>2, <2>1, <3>2 DEF Process
          <5>2. QED
            BY <5>1 DEF Sending
        <4>2. Sent(k)' => Sent(k)
          BY <1>2, <3>2, <4>1 DEF Sent
        <4>3. FileOK(k, calm) /\ \A d \in Directory : file'[d][k] = file[d][k]
          BY <1>2, <3>2 DEF QueueInv
        <4>4. QED
          BY <1>2, <2>3, <4>2, <4>3, FileStays
      <3>3. QED
        BY <3>1, <3>2
    <2>5. QED
      BY <1>2, <2>4, ClientActs
  <1>3. ASSUME NEW j \in Job, Submit(c, j) PROVE QueueInv(A, calm)'
    <2> DEFINE s == [At("enqueue") EXCEPT !.job = j]
    <2>1. s \in ProcState /\ s.pc = "enqueue" /\ s.job = j
      BY DEF At, ProcState, Pc, Directory
    <2>2. /\ Become(c, s) /\ proc[c].pc = "idle" /\ status[j] = "none"
          /\ status' = [status EXCEPT ![j] = "queued"] /\ file' = file
      BY <1>3 DEF Submit
    <2> HIDE DEF s
    <2>3. /\ status'[j] = "queued" /\ status' \in [Job -> RunStatus]
          /\ \A k \in Job \ {j} : status'[k] = status[k]
          /\ file' \in [Directory -> [Job -> Record]]
          /\ proc'[c] = s /\ \A d \in Client \ {c} : proc'[d] = proc[d]
      BY <1>a, <2>2 DEF TypeOK, RunStatus, Become, Process
    <2>4. \A d \in Client : proc[d].pc = "enqueue" => proc[d].job # j
      BY <1>b, <2>2 DEF ClientOK
    <2>5. Progress
      <3>1. \A k \in Job : /\ status[k] \in Terminal => status'[k] \in Terminal
                           /\ status[k] # "none" => status'[k] # "none"
        BY <2>2, <2>3 DEF Terminal
      <3>2. \A k \in Job : Over(k) => Over(k)'
        BY <2>2, <2>3, <3>1 DEF Over
      <3>3. \A k \in Job : Sent(k) => Sent(k)'
        <4>1. ASSUME NEW k \in Job, Sent(k) PROVE Sent(k)'
          <5>1. k # j
            BY <2>2, <4>1 DEF Sent
          <5>2. Sending(k)' => Sending(k)
            BY <2>1, <2>3, <5>1 DEF Sending
          <5>3. QED
            BY <3>1, <4>1, <5>2 DEF Sent
        <4>2. QED
          BY <4>1
      <3>4. QED
        BY <3>1, <3>2, <3>3 DEF Progress
    <2>6. KeepsClaims /\ NoRequeue /\ NoClaim
      BY <2>2 DEF KeepsClaims, NoRequeue, NoClaim, Present
    <2>7. FileOK(j, calm)'
      <3>1. ~Sent(j) /\ FileOK(j, calm)
        BY <2>2 DEF Sent, QueueInv
      <3>2. \A d \in Directory : file[d][j] = "absent"
        BY <3>1 DEF FileOK, Present
      <3>3. ~Sent(j)'
        BY <2>1, <2>3 DEF Sent, Sending
      <3>4. QED
        BY <1>q, <2>2, <3>2, <3>3 DEF FileOK, Present
    <2>8. ClientOK(s)'
      BY <2>1, <2>3 DEF ClientOK, Moves, Cancels
    <2>9. QED
      BY <1>2, <2>1, <2>2, <2>3, <2>4, <2>5, <2>6, <2>7, <2>8
  <1>4. ASSUME Enqueue(c) PROVE QueueInv(A, calm)'
    <2>1. PICK j \in Job : j = proc[c].job
      BY <1>4, <1>b DEF Enqueue, ClientOK
    <2>2. /\ proc[c].pc = "enqueue" /\ Become(c, At("idle")) /\ status' = status
          /\ Write("queued", j, "unclaimed")
      BY <1>4, <2>1 DEF Enqueue
    <2>3. /\ file' \in [Directory -> [Job -> Record]] /\ file'["queued"][j] = "unclaimed"
          /\ \A e \in Directory : e # "queued" => file'[e][j] = file[e][j]
          /\ \A k \in Job \ {j} : \A e \in Directory : file'[e][k] = file[e][k]
      <3>1. "unclaimed" \in Record
        BY DEF Record
      <3>2. QED
        BY <1>a, <1>q, <2>2, <3>1, WriteFile DEF TypeOK
    <2>4. proc'[c].pc = "idle" /\ \A d \in Client \ {c} : proc'[d] = proc[d]
      BY <1>a, <1>i, <2>2 DEF TypeOK, Become, Process
    <2>5. /\ ~Sent(j) /\ FileOK(j, calm) /\ Sent(j)'
      <3>1. Sending(j)
        BY <2>1, <2>2 DEF Sending
      <3>2. ~Sending(j)'
        BY <1>a, <2>1, <2>2, <2>4 DEF Sending, OneSender
      <3>3. status'[j] # "none"
        BY <1>b, <2>1, <2>2 DEF ClientOK
      <3>4. QED
        BY <3>1, <3>2, <3>3 DEF Sent, QueueInv
    <2>6. \A d \in Directory : file[d][j] = "absent"
      BY <2>5 DEF FileOK, Present
    <2>7. Progress
      <3>1. \A k \in Job : Over(k) => Over(k)'
        BY <2>2, <2>4 DEF Over
      <3>2. \A k \in Job : Sending(k)' => Sending(k)
        BY <2>4 DEF Sending
      <3>3. QED
        BY <2>2, <3>1, <3>2 DEF Progress, Sent
    <2>8. KeepsClaims /\ NoRequeue /\ NoClaim
      <3>1. \A k \in Job \ {j} : /\ Present("claimed", k)' <=> Present("claimed", k)
                                 /\ Present("queued", k)' <=> Present("queued", k)
        BY <1>q, <2>3 DEF Present
      <3>2. Present("claimed", j)' <=> Present("claimed", j)
        BY <1>q, <2>3 DEF Present
      <3>3. QED
        BY <2>5, <3>1, <3>2 DEF KeepsClaims, NoRequeue, NoClaim
    <2>9. FileOK(j, calm)'
      BY <1>q, <2>3, <2>5, <2>6 DEF FileOK, Present
    <2>10. status' \in [Job -> RunStatus] /\ \A k \in Job \ {j} : status'[k] = status[k]
      BY <1>a, <2>2 DEF TypeOK
    <2>11. QED
      BY <1>2, <1>i, <2>1, <2>2, <2>3, <2>7, <2>8, <2>9, <2>10
  <1>5. ASSUME CancelSave(c) PROVE QueueInv(A, calm)'
    <2>1. PICK j \in Job : j = proc[c].job
      BY <1>5, <1>b DEF CancelSave, ClientOK
    <2>2. /\ proc[c].pc = "cancelSave" /\ Become(c, At("idle")) /\ file' = file
          /\ status' = IF status[j] \in Terminal THEN status ELSE [status EXCEPT ![j] = "cancelled"]
          /\ status[j] # "none"
      BY <1>5, <1>b, <2>1 DEF CancelSave, ClientOK
    <2>3. /\ status'[j] \in Terminal /\ status'[j] # "none" /\ status' \in [Job -> RunStatus]
          /\ \A k \in Job \ {j} : status'[k] = status[k]
          /\ file' \in [Directory -> [Job -> Record]]
      BY <1>a, <2>2 DEF TypeOK, RunStatus, Terminal
    <2>4. proc'[c].pc = "idle" /\ \A d \in Client \ {c} : proc'[d] = proc[d]
      BY <1>a, <1>i, <2>2 DEF TypeOK, Become, Process
    <2>5. \A k \in Job : /\ status[k] \in Terminal => status'[k] \in Terminal
                         /\ status[k] # "none" <=> status'[k] # "none"
      BY <2>2, <2>3 DEF Terminal
    <2>6. \A k \in Job : Over(k) => Over(k)'
      <3>1. ASSUME NEW k \in Job, k # j, Over(k) PROVE Over(k)'
        BY <2>1, <2>3, <2>4, <3>1 DEF Over
      <3>2. Over(j)'
        BY <2>3 DEF Over
      <3>3. QED
        BY <3>1, <3>2
    <2>7. \A k \in Job : Sending(k)' <=> Sending(k)
      BY <2>2, <2>4 DEF Sending
    <2>8. Progress /\ (Sent(j)' => Sent(j))
      BY <2>5, <2>6, <2>7 DEF Progress, Sent
    <2>9. KeepsClaims /\ NoRequeue /\ NoClaim
      BY <2>2 DEF KeepsClaims, NoRequeue, NoClaim, Present
    <2>10. FileOK(j, calm)'
      <3>1. FileOK(j, calm)
        BY DEF QueueInv
      <3>2. \A d \in Directory : file'[d][j] = file[d][j]
        BY <2>2
      <3>3. calm => \A w \in Worker : Keeps(proc[w], j) =>
                        Keeps(proc[w], j)' \/ status'[j] \in Terminal
        BY <2>3
      <3>4. QED
        BY <2>8, <3>1, <3>2, <3>3, FileStays
    <2>11. QED
      BY <1>2, <1>i, <2>2, <2>3, <2>8, <2>9, <2>10
  <1>6. QED
    BY <1>1, <1>3, <1>4, <1>5

----------------------------------------------------------------------------
(* Time, and every step.                                                     *)

LEMMA AgeStep ==
    ASSUME NEW A \in SUBSET Worker, NEW calm \in BOOLEAN, QueueInv(A, calm), NEW j \in Job,
           Age(j), calm => \A w \in Worker : ~Holds(w, j)
    PROVE  QueueInv(A, calm)'
  <1>1. TypeOK /\ "claimed" \in Directory /\ "queued" \in Directory /\ "stale" \in Record
    BY DEF QueueInv, Directory, Record
  <1>2. Write("claimed", j, "stale") /\ UNCHANGED <<status, proc, crashes>>
        /\ file["claimed"][j] = "recent"
    BY DEF Age
  <1>3. /\ file' \in [Directory -> [Job -> Record]] /\ file'["claimed"][j] = "stale"
        /\ \A e \in Directory : e # "claimed" => file'[e][j] = file[e][j]
        /\ \A k \in Job \ {j} : \A e \in Directory : file'[e][k] = file[e][k]
    BY <1>1, <1>2, WriteFile DEF TypeOK
  <1>4. \A k \in Job, d \in Directory : Present(d, k)' <=> Present(d, k)
    BY <1>1, <1>2, <1>3 DEF Present
  <1>5. \A k \in Job : (Sent(k)' <=> Sent(k)) /\ (Over(k)' <=> Over(k))
    BY <1>2 DEF Sent, Sending, Over
  <1>6. Progress /\ KeepsClaims /\ NoRequeue /\ NoClaim
    BY <1>1, <1>2, <1>4, <1>5 DEF Progress, KeepsClaims, NoRequeue, NoClaim
  <1>7. \A w \in Worker : \A k \in Job : Keeps(proc[w], k) => Keeps(proc[w], k)'
    BY <1>2 DEF Keeps
  <1>8. ASSUME NEW k \in Job PROVE FileOK(k, calm)'
    <2>1. FileOK(k, calm)
      BY DEF QueueInv
    <2>2. CASE k # j
      BY <1>3, <1>5, <1>6, <1>7, <2>1, <2>2, FileStays
    <2>3. CASE k = j
      <3>1. calm => status[j] \in Terminal
        BY <1>2, <2>1, <2>3 DEF FileOK, Present, Keeps, Holds, Holding
      <3>2. calm => file'["queued"][j] \in {"absent", "unclaimed"}
        BY <1>1, <1>3, <2>1, <2>3 DEF FileOK
      <3>3. QED
        BY <1>1, <1>2, <1>4, <1>5, <2>1, <2>3, <3>1, <3>2 DEF FileOK
    <2>4. QED
      BY <2>2, <2>3
  <1>9. ASSUME NEW w \in Worker PROVE WorkerOK(proc[w], calm)'
    <2>1. PICK s \in ProcState : s = proc[w]
      BY <1>1 DEF TypeOK, Process
    <2>2. WorkerOK(s, calm)' /\ proc'[w] = s
      BY <1>2, <1>6, <2>1, WorkerStable DEF QueueInv
    <2>3. QED
      BY <2>2 DEF WorkerOK, MoveOK
  <1>10. ASSUME NEW c \in Client PROVE ClientOK(proc[c])'
    <2>1. PICK s \in ProcState : s = proc[c]
      BY <1>1 DEF TypeOK, Process
    <2>2. ClientOK(s)' /\ proc'[c] = s
      BY <1>2, <1>6, <2>1, ClientStable DEF QueueInv
    <2>3. QED
      BY <2>2 DEF ClientOK
  <1>11. TypeOK' /\ OneSender' /\ ClaimsAreExclusive' /\ Alone(A, calm)'
    BY <1>2, <1>3 DEF TypeOK, OneSender, ClaimsAreExclusive, Holds, Alone, QueueInv
  <1>12. QED
    BY <1>8, <1>9, <1>10, <1>11 DEF QueueInv

LEMMA QueueStep ==
    ASSUME NEW A \in SUBSET Worker, NEW calm \in BOOLEAN, QueueInv(A, calm),
           QueueNext(A, calm)
    PROVE  QueueInv(A, calm)'
  <1>1. CASE \E w \in A : WorkerStep(w)
    BY <1>1, WorkerStepKeeps
  <1>2. CASE ~calm /\ \E w \in A : Crash(w)
    <2>1. calm = FALSE
      BY <1>2
    <2>2. QED
      BY <1>2, <2>1, CrashStep
  <1>3. CASE \E c \in Client : RequestStep(c) \/ \E j \in Job : Submit(c, j) \/ LoadForCancel(c, j)
    BY <1>3, SubmitSteps, ClientMoves, ClientCancels DEF RequestStep
  <1>4. CASE \E j \in Job : Age(j) /\ (calm => \A w \in Worker : ~Holds(w, j))
    BY <1>4, AgeStep
  <1>5. QED
    BY <1>1, <1>2, <1>3, <1>4 DEF QueueNext

LEMMA QueueInit ==
    ASSUME NEW A \in SUBSET Worker, NEW calm \in BOOLEAN, Init,
           calm \/ \A v, w \in A : v = w
    PROVE  QueueInv(A, calm)
  <1>1. /\ \A d \in Directory, j \in Job : file[d][j] = "absent"
        /\ \A j \in Job : status[j] = "none"
        /\ \A w \in Worker : proc[w] = At("start")
        /\ \A c \in Client : proc[c] = At("idle")
    BY ProcessAssumption DEF Init, Process
  <1>2. TypeOK
    <2>1. At("start") \in ProcState /\ At("idle") \in ProcState
      BY AtStates DEF Pc
    <2>2. QED
      BY <2>1, CrashesAssumption DEF Init, TypeOK, Record, RunStatus
  <1>3. ASSUME NEW j \in Job PROVE FileOK(j, calm)
    BY <1>1 DEF FileOK, Present, Directory, Sent
  <1>4. \A w \in Worker : WorkerOK(proc[w], calm)
    BY <1>1, StartOK
  <1>5. At("idle").pc = "idle" /\ At("start").pc = "start"
    BY AtStates DEF Pc
  <1>6. \A c \in Client : ClientOK(proc[c])
    BY <1>1, <1>5 DEF ClientOK, Cancels, Moves
  <1>7. OneSender /\ ClaimsAreExclusive
    BY <1>1, <1>5 DEF OneSender, ClaimsAreExclusive, Holds
  <1>8. Alone(A, calm)
    BY <1>1 DEF Alone
  <1>9. QED
    BY <1>2, <1>3, <1>4, <1>6, <1>7, <1>8 DEF QueueInv

----------------------------------------------------------------------------
(* The theorems.                                                             *)

LEMMA QueueInvImplies ==
    ASSUME NEW A, NEW calm, QueueInv(A, calm)
    PROVE  /\ TypeOK /\ ClaimsAreExclusive
           /\ OneLiveRecord /\ UnfinishedJobsAreKept /\ RetiredRunsAreOver
  <1>1. TypeOK /\ ClaimsAreExclusive /\ \A j \in Job : FileOK(j, calm)
    BY DEF QueueInv
  <1>2. OneLiveRecord
    BY <1>1 DEF OneLiveRecord, FileOK
  <1>3. RetiredRunsAreOver
    <2>1. {"completed", "failed", "cancelled"} \subseteq Directory \ {"queued", "claimed"}
      BY DEF Directory
    <2>2. QED
      BY <1>1, <2>1 DEF RetiredRunsAreOver, FileOK, Over
  <1>4. UnfinishedJobsAreKept
    <2>1. ASSUME NEW j \in Job, status[j] \in {"queued", "running"}
          PROVE  \/ Present("queued", j) \/ Present("claimed", j)
                 \/ \E c \in Client : proc[c].job = j /\ proc[c].pc \in {"enqueue", "cancelSave"}
      <3>1. status[j] # "none" /\ status[j] \notin Terminal
        BY <2>1 DEF Terminal
      <3>2. CASE Sending(j)
        BY <3>2 DEF Sending
      <3>3. CASE ~Sending(j)
        BY <1>1, <3>1, <3>3 DEF Sent, FileOK, Over
      <3>4. QED
        BY <3>2, <3>3
    <2>2. QED
      BY <2>1 DEF UnfinishedJobsAreKept
  <1>5. QED
    BY <1>1, <1>2, <1>3, <1>4

LEMMA QueueStutter ==
    ASSUME NEW A, NEW calm, UNCHANGED vars, QueueInv(A, calm)
    PROVE  QueueInv(A, calm)'
  BY DEF vars, QueueInv, TypeOK, FileOK, Present, Sent, Sending, Over, Keeps, WorkerOK,
         MoveOK, Recovering, ClientOK, OneSender, ClaimsAreExclusive, Holds, Alone

\* In "race" every worker is calm; in "crash" one worker runs.
ScenarioInv ==
    \/ scenario = "race" /\ QueueInv(Worker, TRUE)
    \/ scenario = "crash" /\ QueueInv({w \in Worker : w = SingleWorker}, FALSE)

LEMMA ScenarioInit == MCInit => ScenarioInv
  BY QueueInit DEF MCInit, ScenarioInv

LEMMA ScenarioStep == ScenarioInv /\ [MCNext]_mcVars => ScenarioInv'
  <1>1. ASSUME ScenarioInv, MCNext PROVE ScenarioInv'
    <2>1. CASE scenario = "race" /\ QueueInv(Worker, TRUE)
      <3>1. QueueNext(Worker, TRUE)
        BY <1>1, <2>1 DEF MCNext, QueueNext, ActiveWorker, ActiveClient, ActiveJob, Aging
      <3>2. QueueInv(Worker, TRUE)'
        BY <2>1, <3>1, QueueStep
      <3>3. QED
        BY <1>1, <2>1, <3>2 DEF ScenarioInv, MCNext
    <2>2. CASE scenario = "crash" /\ QueueInv({w \in Worker : w = SingleWorker}, FALSE)
      <3> DEFINE A == {w \in Worker : w = SingleWorker}
      <3>1. ActiveWorker \subseteq A /\ ActiveClient \subseteq Client /\ ActiveJob \subseteq Job
        BY <2>2 DEF ActiveWorker, ActiveClient, ActiveJob
      <3>2. QueueNext(A, FALSE)
        <4> HIDE DEF A
        <4>1. QED
          BY <1>1, <2>2, <3>1 DEF MCNext, QueueNext, Aging
      <3>3. QueueInv(A, FALSE)'
        BY <2>2, <3>2, QueueStep
      <3>4. QED
        BY <1>1, <2>2, <3>3 DEF ScenarioInv, MCNext
    <2>3. QED
      BY <1>1, <2>1, <2>2 DEF ScenarioInv
  <1>2. ASSUME ScenarioInv, UNCHANGED mcVars PROVE ScenarioInv'
    BY <1>2, QueueStutter DEF ScenarioInv, mcVars
  <1>3. QED
    BY <1>1, <1>2

LEMMA ScenarioSafety == MCSpec => []ScenarioInv
  BY ScenarioInit, ScenarioStep, PTL DEF MCSpec

\* The local state of the workers and requests, and the records they share, stay what
\* the code takes them for: every move has its job and its directories.
THEOREM TypeCorrect == MCSpec => []TypeOK
  <1>1. ScenarioInv => TypeOK
    BY QueueInvImplies DEF ScenarioInv
  <1>2. QED
    BY <1>1, ScenarioSafety, PTL

\* The rename of claim gives a job to one worker, whatever recoveries and cancellations
\* run beside it, as long as no worker dies or outlasts the claim timeout.
THEOREM ClaimsExclusive == MCSpec => []RacingClaimsAreExclusive
  <1>1. ScenarioInv => RacingClaimsAreExclusive
    BY QueueInvImplies DEF ScenarioInv, RacingClaimsAreExclusive
  <1>2. QED
    BY <1>1, ScenarioSafety, PTL

\* No interleaving of claims, recoveries, cancellations and crashes loses the record of
\* an unfinished job.
THEOREM JobsKept == MCSpec => []UnfinishedJobsAreKept
  <1>1. ScenarioInv => UnfinishedJobsAreKept
    BY QueueInvImplies DEF ScenarioInv
  <1>2. QED
    BY <1>1, ScenarioSafety, PTL

\* A job is never queued and claimed at once, also when an abandoned claim is requeued.
THEOREM RecordUnique == MCSpec => []OneLiveRecord
  <1>1. ScenarioInv => OneLiveRecord
    BY QueueInvImplies DEF ScenarioInv
  <1>2. QED
    BY <1>1, ScenarioSafety, PTL

\* A job leaves the live directories for good only when its run is over or a request
\* is about to end it.
THEOREM RetiredOver == MCSpec => []RetiredRunsAreOver
  <1>1. ScenarioInv => RetiredRunsAreOver
    BY QueueInvImplies DEF ScenarioInv
  <1>2. QED
    BY <1>1, ScenarioSafety, PTL

Promises ==
    ClaimsAreExclusive /\ OneLiveRecord /\ UnfinishedJobsAreKept /\ RetiredRunsAreOver

LEMMA QueuePromises ==
    ASSUME NEW A \in SUBSET Worker, NEW calm \in BOOLEAN, calm \/ \A v, w \in A : v = w,
           Next => QueueNext(A, calm)
    PROVE  /\ Init => QueueInv(A, calm)
           /\ QueueInv(A, calm) /\ [Next]_vars => QueueInv(A, calm)'
           /\ QueueInv(A, calm) => Promises
  BY QueueInit, QueueStep, QueueStutter, QueueInvImplies DEF Promises

\* The queue by itself, outside the two scenarios: any number of workers and requests
\* keep all of these promises when no worker dies or outlasts the claim timeout.
THEOREM CalmQueue == ASSUME Faults = {} PROVE Spec => []Promises
  <1>1. Next => QueueNext(Worker, TRUE)
    BY DEF Next, QueueNext, Crash, Age
  <1>2. /\ Init => QueueInv(Worker, TRUE)
        /\ QueueInv(Worker, TRUE) /\ [Next]_vars => QueueInv(Worker, TRUE)'
        /\ QueueInv(Worker, TRUE) => Promises
    BY <1>1, QueuePromises
  <1>3. QED
    BY <1>2, PTL DEF Spec

\* A single worker keeps them even if it dies at any point or outlasts the timeout.
THEOREM LoneWorkerQueue == ASSUME \A v, w \in Worker : v = w PROVE Spec => []Promises
  <1>1. Next => QueueNext(Worker, FALSE)
    BY DEF Next, QueueNext
  <1>2. /\ Init => QueueInv(Worker, FALSE)
        /\ QueueInv(Worker, FALSE) /\ [Next]_vars => QueueInv(Worker, FALSE)'
        /\ QueueInv(Worker, FALSE) => Promises
    BY <1>1, QueuePromises
  <1>3. QED
    BY <1>2, PTL DEF Spec

================================================================================
