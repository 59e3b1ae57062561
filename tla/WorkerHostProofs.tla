--------------------------- MODULE WorkerHostProofs ---------------------------
(***************************************************************************)
(* Theorems about the components around an execution: the children of the  *)
(* V1-compatible pipeline and the payloads it returns, the lock renewal of *)
(* a delivery, the timestamps of an attempt and the tracks of a video.     *)
(* Each is proved of the component's own specification, which every        *)
(* behaviour of the host satisfies.                                        *)
(***************************************************************************)
EXTENDS MCWorkerHost, FiniteSetTheorems, WellFoundedInduction, TLAPS

----------------------------------------------------------------------------
(* The pipeline.  A child belongs to the execution that waits for it, and to *)
(* no other; with a working tree of its own, everything a run derives comes  *)
(* from its video and from the weights recorded for it, unless the weights   *)
(* were replaced while it was executed.                                      *)

HostRecord == [packages : BOOLEAN, tools : BOOLEAN, model : 0 .. 2, mps : BOOLEAN,
               requested : {"auto", "mps"}]

ChildRecord ==
    [state : {"none", "starting", "working", "writing", "succeeded", "failed",
              "terminated", "gone"},
     owner : Analyst \cup {NoVideo}, step : 1 .. 3, run : Video \cup {NoVideo},
     model : {0}, video : BOOLEAN, held : Derived \cup {Absent}]

AnalysisRecord ==
    [pc : {"idle", "readiness", "config", "spawn", "poll", "terminate", "kill", "summary",
           "collect", "ended"},
     run : Video \cup {NoVideo}, config : Config \cup {NoConfig}, step : 1 .. 3,
     child : Child \cup {NoVideo},
     outcome : {"none", "v1_requirements_missing", "v1_model_changed",
                "v1_mps_execution_failed", "v1_subprocess_failed", "cancelled",
                "v1_subprocess_timeout", "execution_failed", "v1_tracking_output_invalid",
                "v1_output_invalid", "payloads"},
     payload : Derived \cup {Absent}]

Watching   == {"poll", "terminate", "kill"}
Configured == Watching \cup {"spawn", "summary", "collect"}

ChildRight(p) ==
    /\ p \in ChildRecord
    /\ p.state = "none" => p = NoChild
    /\ p.state # "none" => p.run \in Video
    /\ p.state \in {"working", "writing"} => p.held \in Derived

AnalysisRight(a) ==
    /\ a \in AnalysisRecord
    /\ a.pc \notin {"idle", "ended"} => a.run \in Video
    /\ a.pc \in Configured \cup {"config"} => a.config \in Config
    /\ a.pc \in Watching => a.child \in Child
    /\ a.outcome = "payloads" => a.pc = "ended"

\* The weights a run was executed with, when nobody replaced them meanwhile.
Fresh(r, model) == r \in touched \/ model = recorded[r].model

ChildFresh(p) ==
    p.state # "none" =>
        /\ Fresh(p.run, host.model)
        /\ p.held \in Derived => p.held.run = p.run /\ Fresh(p.run, p.held.model)

AnalysisFresh(a) ==
    /\ a.pc \in Configured => /\ a.config.model = recorded[a.run].model
                              /\ Fresh(a.run, host.model)
    /\ a.outcome = "payloads" =>
          /\ a.payload.run = a.run
          /\ Fresh(a.run, a.payload.model)
          /\ a.config.model = recorded[a.run].model

FilesFresh ==
    \A d \in Video, f \in Files : file[d][f] \in Derived =>
        file[d][f].run = d /\ Fresh(d, file[d][f].model)

Awaits(a, k) == a.pc \in Watching /\ a.child = k

HostTyped ==
    /\ host \in HostRecord
    /\ recorded \in [Video -> Config \cup {NoConfig}]
    /\ stopAsked \subseteq Video /\ touched \subseteq Video

FilesTyped == file \in [Video \cup {NoVideo} -> [Files -> Derived \cup {Absent, Broken}]]

ChildrenTyped == child \in [Child -> ChildRecord] /\ \A k \in Child : ChildRight(child[k])

AnalysesTyped ==
    analysis \in [Analyst -> AnalysisRecord] /\ \A w \in Analyst : AnalysisRight(analysis[w])

Linked == \A k \in Child, w \in Analyst : child[k].owner = w <=> Awaits(analysis[w], k)

Traceable ==
    /\ \A r \in Video : recorded[r] \in Config
    /\ FilesFresh
    /\ \A k \in Child : ChildFresh(child[k])
    /\ \A w \in Analyst : AnalysisFresh(analysis[w])

PipeInv ==
    HostTyped /\ FilesTyped /\ ChildrenTyped /\ AnalysesTyped /\ Linked
    /\ (Private => Traceable)

LEMMA HostFacts ==
    /\ NoVideo \notin Video /\ NoVideo \notin Analyst
    /\ Absent \notin Derived /\ Broken \notin Derived
    /\ NoChild \in ChildRecord /\ ChildRight(NoChild) /\ ChildFresh(NoChild)
    /\ NoAnalysis \in AnalysisRecord /\ AnalysisRight(NoAnalysis) /\ AnalysisFresh(NoAnalysis)
  <1>1. NoVideo \notin Video /\ NoVideo \notin Analyst
    BY VideoAssumption
  <1>2. Absent \notin Derived /\ Broken \notin Derived
    BY <1>1 DEF Absent, Broken, Derived
  <1>3. NoChild \in ChildRecord /\ ChildRight(NoChild) /\ ChildFresh(NoChild)
    BY DEF NoChild, ChildRecord, ChildRight, ChildFresh
  <1>4. NoAnalysis \in AnalysisRecord /\ AnalysisRight(NoAnalysis) /\ AnalysisFresh(NoAnalysis)
    BY DEF NoAnalysis, AnalysisRecord, AnalysisRight, AnalysisFresh, NoConfig, Configured,
           Watching
  <1>5. QED
    BY <1>1, <1>2, <1>3, <1>4

LEMMA PipeInitially == PipelineInit => PipeInv
  <1> SUFFICES ASSUME PipelineInit PROVE PipeInv
    OBVIOUS
  <1>1. HostTyped
    <2>1. host \in HostRecord
      <3>1. Healthy \in HostRecord
        BY DEF HostRecord, Healthy
      <3>2. /\ [Healthy EXCEPT !.mps = FALSE] \in HostRecord
            /\ [Healthy EXCEPT !.packages = FALSE] \in HostRecord
            /\ [Healthy EXCEPT !.tools = FALSE] \in HostRecord
        BY <3>1 DEF HostRecord
      <3>3. [Healthy EXCEPT !.mps = FALSE, !.requested = "mps"] \in HostRecord
        BY <3>1 DEF HostRecord
      <3>4. QED
        BY <3>1, <3>2, <3>3 DEF PipelineInit
    <2>2. [model |-> 1, device |-> IF host.mps THEN "mps" ELSE "cpu"] \in Config
      BY DEF Config, Weights, Device
    <2>3. recorded \in [Video -> Config \cup {NoConfig}]
      <3> DEFINE first == [model |-> 1, device |-> IF host.mps THEN "mps" ELSE "cpu"]
                 choices == {first} \cup IF Private THEN {} ELSE {NoConfig}
      <3>1. first \in Config
        BY <2>2
      <3>2. recorded \in [Video -> choices]
        BY DEF PipelineInit
      <3> HIDE DEF first
      <3>3. choices \subseteq Config \cup {NoConfig}
        BY <3>1
      <3>4. QED
        BY <3>2, <3>3
    <2>4. QED
      BY <2>1, <2>3 DEF PipelineInit, HostTyped
  <1>2. FilesTyped
    BY DEF PipelineInit, FilesTyped
  <1>3. ChildrenTyped
    BY HostFacts DEF PipelineInit, ChildrenTyped
  <1>4. AnalysesTyped
    BY HostFacts DEF PipelineInit, AnalysesTyped
  <1>5. Linked
    BY HostFacts DEF PipelineInit, Linked, Awaits, NoChild, NoAnalysis, Watching
  <1>6. ASSUME Private PROVE Traceable
    <2>1. \A r \in Video : recorded[r] \in Config
      BY <1>6 DEF PipelineInit, Config, Weights, Device
    <2>2. FilesFresh
      BY HostFacts DEF PipelineInit, FilesFresh
    <2>3. QED
      BY <2>1, <2>2, HostFacts DEF PipelineInit, Traceable
  <1>7. QED
    BY <1>1, <1>2, <1>3, <1>4, <1>5, <1>6 DEF PipeInv

\* Executions and children change nothing that ChildFresh and AnalysisFresh compare with.
LEMMA SameHost ==
    ASSUME UNCHANGED hostVars
    PROVE  /\ HostTyped => HostTyped'
           /\ \A r, model : Fresh(r, model) <=> Fresh(r, model)'
           /\ \A p : ChildFresh(p) => ChildFresh(p)'
           /\ \A a : AnalysisFresh(a) => AnalysisFresh(a)'
  BY DEF hostVars, HostTyped, Fresh, ChildFresh, AnalysisFresh

\* A step of an execution that leaves the children alone.
LEMMA AnalystMoves ==
    ASSUME PipeInv, NEW w \in Analyst, NEW a, analysis' = [analysis EXCEPT ![w] = a],
           UNCHANGED <<hostVars, file, child>>,
           AnalysisRight(a), Private => AnalysisFresh(a),
           \A k \in Child : Awaits(analysis[w], k) <=> Awaits(a, k)
    PROVE  PipeInv'
  <1>1. HostTyped' /\ FilesTyped' /\ ChildrenTyped'
    BY SameHost DEF PipeInv, FilesTyped, ChildrenTyped
  <1>2. \A v \in Analyst : analysis'[v] = IF v = w THEN a ELSE analysis[v]
    BY DEF PipeInv, AnalysesTyped
  <1>3. AnalysesTyped'
    <2>1. analysis' \in [Analyst -> AnalysisRecord]
      BY DEF PipeInv, AnalysesTyped, AnalysisRight
    <2>2. \A v \in Analyst : AnalysisRight(analysis'[v])
      BY <1>2 DEF PipeInv, AnalysesTyped
    <2>3. QED
      BY <2>1, <2>2 DEF AnalysesTyped
  <1>4. Linked'
    <2>1. \A k \in Child, v \in Analyst : child[k].owner = v <=> Awaits(analysis'[v], k)
      BY <1>2 DEF PipeInv, Linked
    <2>2. QED
      BY <2>1 DEF Linked
  <1>5. ASSUME Private PROVE Traceable'
    <2>1. /\ \A r \in Video : recorded'[r] \in Config
          /\ FilesFresh'
          /\ \A k \in Child : ChildFresh(child[k])'
      BY <1>5, SameHost DEF PipeInv, Traceable, FilesFresh, hostVars
    <2>2. \A v \in Analyst : AnalysisFresh(analysis[v]) /\ AnalysisFresh(a)
      BY <1>5 DEF PipeInv, Traceable
    <2>3. ASSUME NEW v \in Analyst PROVE AnalysisFresh(analysis[v])'
      <3>1. PICK next : next = analysis'[v]
        OBVIOUS
      <3>2. AnalysisFresh(next)
        BY <1>2, <2>2, <3>1
      <3>3. AnalysisFresh(next)'
        BY <3>2, SameHost
      <3>4. QED
        BY <3>1, <3>3
    <2>4. QED
      BY <2>1, <2>3 DEF Traceable
  <1>6. QED
    BY <1>1, <1>3, <1>4, <1>5 DEF PipeInv

\* A step of an execution and of the child it starts, signals, reaps or abandons.
LEMMA AnalystAndChild ==
    ASSUME PipeInv, NEW w \in Analyst, NEW a, analysis' = [analysis EXCEPT ![w] = a],
           NEW k \in Child, NEW p, child' = [child EXCEPT ![k] = p],
           UNCHANGED <<hostVars, file>>,
           AnalysisRight(a), ChildRight(p),
           Private => AnalysisFresh(a) /\ ChildFresh(p),
           \A v \in Analyst : v # w => child[k].owner # v /\ p.owner # v,
           \A j \in Child : j # k => ~Awaits(analysis[w], j) /\ ~Awaits(a, j),
           p.owner = w <=> Awaits(a, k)
    PROVE  PipeInv'
  <1>1. HostTyped' /\ FilesTyped'
    BY SameHost DEF PipeInv, FilesTyped
  <1>2. \A v \in Analyst : analysis'[v] = IF v = w THEN a ELSE analysis[v]
    BY DEF PipeInv, AnalysesTyped
  <1>3. \A j \in Child : child'[j] = IF j = k THEN p ELSE child[j]
    BY DEF PipeInv, ChildrenTyped
  <1>4. AnalysesTyped'
    <2>1. analysis' \in [Analyst -> AnalysisRecord]
      BY DEF PipeInv, AnalysesTyped, AnalysisRight
    <2>2. \A v \in Analyst : AnalysisRight(analysis'[v])
      BY <1>2 DEF PipeInv, AnalysesTyped
    <2>3. QED
      BY <2>1, <2>2 DEF AnalysesTyped
  <1>5. ChildrenTyped'
    <2>1. child' \in [Child -> ChildRecord]
      BY DEF PipeInv, ChildrenTyped, ChildRight
    <2>2. \A j \in Child : ChildRight(child'[j])
      BY <1>3 DEF PipeInv, ChildrenTyped
    <2>3. QED
      BY <2>1, <2>2 DEF ChildrenTyped
  <1>6. Linked'
    <2>1. ASSUME NEW j \in Child, NEW v \in Analyst
          PROVE  child'[j].owner = v <=> Awaits(analysis'[v], j)
      <3>1. child[j].owner = v <=> Awaits(analysis[v], j)
        BY DEF PipeInv, Linked
      <3>2. CASE v = w /\ j = k
        BY <3>2, <1>2, <1>3
      <3>3. CASE v = w /\ j # k
        BY <3>1, <3>3, <1>2, <1>3
      <3>4. CASE v # w
        BY <3>1, <3>4, <1>2, <1>3
      <3>5. QED
        BY <3>2, <3>3, <3>4
    <2>2. QED
      BY <2>1 DEF Linked
  <1>7. ASSUME Private PROVE Traceable'
    <2>1. (\A r \in Video : recorded'[r] \in Config) /\ FilesFresh'
      BY <1>7, SameHost DEF PipeInv, Traceable, FilesFresh, hostVars
    <2>2. ASSUME NEW v \in Analyst PROVE AnalysisFresh(analysis[v])'
      <3>1. PICK next : next = analysis'[v]
        OBVIOUS
      <3>2. AnalysisFresh(next)
        BY <1>2, <1>7, <3>1 DEF PipeInv, Traceable
      <3>3. AnalysisFresh(next)'
        BY <3>2, SameHost
      <3>4. QED
        BY <3>1, <3>3
    <2>3. ASSUME NEW j \in Child PROVE ChildFresh(child[j])'
      <3>1. PICK next : next = child'[j]
        OBVIOUS
      <3>2. ChildFresh(next)
        BY <1>3, <1>7, <3>1 DEF PipeInv, Traceable
      <3>3. ChildFresh(next)'
        BY <3>2, SameHost
      <3>4. QED
        BY <3>1, <3>3
    <2>4. QED
      BY <2>1, <2>2, <2>3 DEF Traceable
  <1>8. QED
    BY <1>1, <1>4, <1>5, <1>6, <1>7 DEF PipeInv

\* A step of a child, which keeps its owner.
LEMMA ChildMoves ==
    ASSUME PipeInv, NEW k \in Child, NEW p, child' = [child EXCEPT ![k] = p],
           UNCHANGED <<hostVars, analysis>>,
           FilesTyped', Private => FilesFresh',
           p.owner = child[k].owner, ChildRight(p), Private => ChildFresh(p)
    PROVE  PipeInv'
  <1>1. HostTyped' /\ AnalysesTyped'
    BY SameHost DEF PipeInv, AnalysesTyped
  <1>3. \A j \in Child : child'[j] = IF j = k THEN p ELSE child[j]
    BY DEF PipeInv, ChildrenTyped
  <1>5. ChildrenTyped'
    <2>1. child' \in [Child -> ChildRecord]
      BY DEF PipeInv, ChildrenTyped, ChildRight
    <2>2. \A j \in Child : ChildRight(child'[j])
      BY <1>3 DEF PipeInv, ChildrenTyped
    <2>3. QED
      BY <2>1, <2>2 DEF ChildrenTyped
  <1>6. Linked'
    <2>1. \A j \in Child, v \in Analyst : child'[j].owner = v <=> Awaits(analysis[v], j)
      BY <1>3 DEF PipeInv, Linked
    <2>2. QED
      BY <2>1 DEF Linked
  <1>7. ASSUME Private PROVE Traceable'
    <2>1. (\A r \in Video : recorded'[r] \in Config) /\ FilesFresh'
      BY <1>7 DEF PipeInv, Traceable, hostVars
    <2>2. \A v \in Analyst : AnalysisFresh(analysis[v])'
      BY <1>7, SameHost DEF PipeInv, Traceable
    <2>3. ASSUME NEW j \in Child PROVE ChildFresh(child[j])'
      <3>1. PICK next : next = child'[j]
        OBVIOUS
      <3>2. ChildFresh(next)
        BY <1>3, <1>7, <3>1 DEF PipeInv, Traceable
      <3>3. ChildFresh(next)'
        BY <3>2, SameHost
      <3>4. QED
        BY <3>1, <3>3
    <2>4. QED
      BY <2>1, <2>2, <2>3 DEF Traceable
  <1>8. QED
    BY <1>1, <1>5, <1>6, <1>7 DEF PipeInv

----------------------------------------------------------------------------
(* The actions of an execution, one lemma for each group.                    *)

LEMMA AnalysisState ==
    ASSUME PipeInv, NEW w \in Analyst
    PROVE  /\ analysis[w] \in AnalysisRecord /\ AnalysisRight(analysis[w])
           /\ Private => AnalysisFresh(analysis[w])
           /\ Private => \A r \in Video : recorded[r] \in Config
           /\ host \in HostRecord
           /\ recorded \in [Video -> Config \cup {NoConfig}]
  BY DEF PipeInv, AnalysesTyped, Traceable, HostTyped

LEMMA ChildState ==
    ASSUME PipeInv, NEW k \in Child
    PROVE  /\ child[k] \in ChildRecord /\ ChildRight(child[k])
           /\ Private => ChildFresh(child[k])
  BY DEF PipeInv, ChildrenTyped, Traceable

\* An execution that has no child, and gets none, changes its own record only.
LEMMA ChildlessMove ==
    ASSUME PipeInv, NEW w \in Analyst, NEW a, Analyse(w, a),
           UNCHANGED <<hostVars, file, child>>,
           analysis[w].pc \notin Watching, a.pc \notin Watching,
           AnalysisRight(a), Private => AnalysisFresh(a)
    PROVE  PipeInv'
  <1>1. \A k \in Child : Awaits(analysis[w], k) <=> Awaits(a, k)
    BY DEF Awaits
  <1>2. analysis' = [analysis EXCEPT ![w] = a]
    BY DEF Analyse
  <1>3. QED
    BY <1>1, <1>2, AnalystMoves

Outcomes == {"v1_requirements_missing", "v1_model_changed", "v1_mps_execution_failed",
             "v1_subprocess_failed", "cancelled", "v1_subprocess_timeout", "execution_failed",
             "v1_tracking_output_invalid", "v1_output_invalid"}

Failed(outcome) == [NoAnalysis EXCEPT !.pc = "ended", !.outcome = outcome]

LEMMA FailedIsRight ==
    ASSUME NEW outcome \in Outcomes \cup {"none"}
    PROVE  /\ AnalysisRight(Failed(outcome)) /\ AnalysisFresh(Failed(outcome))
           /\ Failed(outcome).pc = "ended"
  <1> DEFINE a == Failed(outcome)
  <1>1. a \in AnalysisRecord
    BY HostFacts DEF AnalysisRecord, Outcomes, Failed
  <1>2. a.pc = "ended" /\ a.outcome = outcome
    BY HostFacts DEF AnalysisRecord, Failed
  <1> HIDE DEF a
  <1>3. QED
    <2>1. AnalysisRight(a) /\ AnalysisFresh(a) /\ a.pc = "ended"
      BY <1>1, <1>2 DEF AnalysisRight, AnalysisFresh, Configured, Watching, Outcomes
    <2>2. QED
      BY <2>1 DEF a

LEMMA BeginKeeps ==
    ASSUME PipeInv, NEW w \in Analyst, NEW r \in Video, BeginAnalysis(w, r)
    PROVE  PipeInv'
  <1> DEFINE a == [NoAnalysis EXCEPT !.pc = "readiness", !.run = r]
  <1>1. a.pc = "readiness" /\ a.run = r /\ a.outcome = "none"
    BY DEF NoAnalysis
  <1>2. a \in AnalysisRecord
    BY HostFacts DEF AnalysisRecord
  <1>4. Analyse(w, a) /\ UNCHANGED <<hostVars, file, child>> /\ analysis[w].pc \notin Watching
    BY DEF BeginAnalysis, Watching
  <1> HIDE DEF a
  <1>3. AnalysisRight(a) /\ AnalysisFresh(a) /\ a.pc \notin Watching
    BY <1>1, <1>2 DEF AnalysisRight, AnalysisFresh, Configured, Watching
  <1>5. QED
    BY <1>3, <1>4, ChildlessMove

LEMMA CheckReadinessKeeps ==
    ASSUME PipeInv, NEW w \in Analyst, CheckReadiness(w)
    PROVE  PipeInv'
  <1>1. UNCHANGED <<hostVars, file, child>> /\ analysis[w].pc \notin Watching
    BY DEF CheckReadiness, Unobserved, Watching
  <1>2. CASE ReadinessStatus = "ready" /\ CurrentConfig # NoConfig
    <2> DEFINE a == [analysis[w] EXCEPT !.pc = "config", !.config = CurrentConfig]
    <2>1. CurrentConfig \in Config
      <3>1. host.packages /\ ModelIsValid /\ ~DeviceIsMissing
            /\ CurrentConfig = [model |-> host.model, device |-> ResolvedDevice]
        BY <1>2 DEF CurrentConfig
      <3>2. host.model \in Weights
        BY <3>1, AnalysisState DEF ModelIsValid, HostRecord, Weights
      <3>3. ResolvedDevice \in Device
        BY DEF ResolvedDevice, Device
      <3>4. QED
        BY <3>1, <3>2, <3>3 DEF Config
    <2>2. analysis[w] \in AnalysisRecord /\ analysis[w].pc = "readiness"
          /\ AnalysisRight(analysis[w])
      BY AnalysisState DEF CheckReadiness
    <2>3. a \in AnalysisRecord /\ a.pc = "config" /\ a.config = CurrentConfig
          /\ a.run = analysis[w].run /\ a.outcome = analysis[w].outcome
      BY <2>1, <2>2 DEF AnalysisRecord
    <2>4. Analyse(w, a)
      BY <1>2 DEF CheckReadiness
    <2> HIDE DEF a
    <2>5. AnalysisRight(a) /\ AnalysisFresh(a) /\ a.pc \notin Watching
      BY <2>1, <2>2, <2>3 DEF AnalysisRight, AnalysisFresh, Configured, Watching
    <2>6. QED
      BY <1>1, <2>4, <2>5, ChildlessMove
  <1>3. CASE ~(ReadinessStatus = "ready" /\ CurrentConfig # NoConfig)
    <2>1. Analyse(w, Failed("v1_requirements_missing"))
      BY <1>3 DEF CheckReadiness, RaiseFailure, Failed
    <2>2. QED
      BY <1>1, <2>1, FailedIsRight, ChildlessMove DEF Outcomes, Watching
  <1>4. QED
    BY <1>2, <1>3

LEMMA FixConfigKeeps ==
    ASSUME PipeInv, NEW w \in Analyst, FixConfig(w)
    PROVE  PipeInv'
  <1>1. UNCHANGED <<hostVars, file, child>> /\ analysis[w].pc \notin Watching
    BY DEF FixConfig, Unobserved, Watching
  <1> DEFINE wanted == recorded[analysis[w].run]
  <1>2. /\ analysis[w] \in AnalysisRecord /\ analysis[w].pc = "config"
        /\ AnalysisRight(analysis[w]) /\ analysis[w].run \in Video
        /\ analysis[w].config \in Config /\ analysis[w].outcome # "payloads"
    BY AnalysisState DEF FixConfig, AnalysisRight
  <1>3. wanted \in Config \cup {NoConfig} /\ (Private => wanted \in Config)
    BY <1>2, AnalysisState
  <1>4. NoConfig \notin Config
    BY DEF NoConfig, Config, Weights
  <1>5. CASE wanted = NoConfig
    <2> DEFINE a == [analysis[w] EXCEPT !.pc = "spawn"]
    <2>1. a \in AnalysisRecord /\ a.pc = "spawn" /\ a.config = analysis[w].config
          /\ a.run = analysis[w].run /\ a.outcome = analysis[w].outcome
      BY <1>2 DEF AnalysisRecord
    <2>2. Analyse(w, a) /\ ~Private
      BY <1>3, <1>4, <1>5 DEF FixConfig, Proceed
    <2> HIDE DEF a
    <2>3. AnalysisRight(a) /\ a.pc \notin Watching
      BY <1>2, <2>1 DEF AnalysisRight, Watching
    <2>4. QED
      BY <1>1, <2>2, <2>3, ChildlessMove
  <1>6. CASE wanted # NoConfig /\ host.model = wanted.model
    <2> DEFINE a == [analysis[w] EXCEPT !.pc = "spawn", !.config = wanted]
    <2>1. a \in AnalysisRecord /\ a.pc = "spawn" /\ a.config = wanted
          /\ a.run = analysis[w].run /\ a.outcome = analysis[w].outcome
      BY <1>2, <1>3 DEF AnalysisRecord
    <2>2. Analyse(w, a)
      BY <1>6 DEF FixConfig
    <2> HIDE DEF a
    <2>3. AnalysisRight(a) /\ AnalysisFresh(a) /\ a.pc \notin Watching
      BY <1>2, <1>3, <1>6, <2>1 DEF AnalysisRight, AnalysisFresh, Fresh, Watching
    <2>4. QED
      BY <1>1, <2>2, <2>3, ChildlessMove
  <1>7. CASE wanted # NoConfig /\ host.model # wanted.model
    <2>1. Analyse(w, Failed("v1_model_changed"))
      BY <1>7 DEF FixConfig, RaiseFailure, Failed
    <2>2. QED
      BY <1>1, <2>1, FailedIsRight, ChildlessMove DEF Outcomes, Watching
  <1>8. QED
    BY <1>5, <1>6, <1>7

\* The child that an execution waits for is its own, and the only one it has.
LEMMA OwnChild ==
    ASSUME PipeInv, NEW w \in Analyst, analysis[w].pc \in Watching
    PROVE  /\ analysis[w].child \in Child /\ analysis[w].run \in Video
           /\ child[analysis[w].child].owner = w
           /\ child[analysis[w].child].state # "none"
           /\ \A k \in Child : Awaits(analysis[w], k) <=> k = analysis[w].child
  <1>1. analysis[w].child \in Child /\ analysis[w].run \in Video
    BY AnalysisState DEF AnalysisRight, Watching
  <1>2. child[analysis[w].child].owner = w
    BY <1>1 DEF PipeInv, Linked, Awaits
  <1>3. child[analysis[w].child].state # "none"
    BY <1>1, <1>2, ChildState, HostFacts DEF ChildRight, NoChild
  <1>4. QED
    BY <1>1, <1>2, <1>3 DEF Awaits

\* The execution lets its child go: it has exited, or it is left to itself.
LEMMA ChildReleased ==
    ASSUME PipeInv, NEW w \in Analyst, analysis[w].pc \in Watching,
           NEW a, Analyse(w, a), a.pc \notin Watching,
           AnalysisRight(a), Private => AnalysisFresh(a),
           NEW p, child' = [child EXCEPT ![analysis[w].child] = p],
           p.owner = NoVideo, ChildRight(p), Private => ChildFresh(p),
           UNCHANGED <<hostVars, file>>
    PROVE  PipeInv'
  <1>1. PICK k : k = analysis[w].child
    OBVIOUS
  <1>2. k \in Child /\ child[k].owner = w /\ child' = [child EXCEPT ![k] = p]
    BY <1>1, OwnChild
  <1>3. \A v \in Analyst : v # w => child[k].owner # v /\ p.owner # v
    BY <1>2, HostFacts
  <1>4. \A j \in Child : j # k => ~Awaits(analysis[w], j) /\ ~Awaits(a, j)
    BY <1>1, OwnChild DEF Awaits
  <1>5. p.owner = w <=> Awaits(a, k)
    BY HostFacts DEF Awaits
  <1>6. analysis' = [analysis EXCEPT ![w] = a]
    BY DEF Analyse
  <1>7. QED
    BY <1>2, <1>3, <1>4, <1>5, <1>6, AnalystAndChild

\* The execution keeps its child and goes on waiting for it.
LEMMA ChildSignalled ==
    ASSUME PipeInv, NEW w \in Analyst, analysis[w].pc \in Watching,
           NEW a, Analyse(w, a), a.pc \in Watching, a.child = analysis[w].child,
           AnalysisRight(a), Private => AnalysisFresh(a),
           NEW p, child' = [child EXCEPT ![analysis[w].child] = p],
           p.owner = w, ChildRight(p), Private => ChildFresh(p),
           UNCHANGED <<hostVars, file>>
    PROVE  PipeInv'
  <1>1. PICK k : k = analysis[w].child
    OBVIOUS
  <1>2. k \in Child /\ child[k].owner = w /\ child' = [child EXCEPT ![k] = p]
    BY <1>1, OwnChild
  <1>3. \A v \in Analyst : v # w => child[k].owner # v /\ p.owner # v
    BY <1>2
  <1>4. \A j \in Child : j # k => ~Awaits(analysis[w], j) /\ ~Awaits(a, j)
    BY <1>1, OwnChild DEF Awaits
  <1>5. p.owner = w <=> Awaits(a, k)
    BY <1>1 DEF Awaits
  <1>6. analysis' = [analysis EXCEPT ![w] = a]
    BY DEF Analyse
  <1>7. QED
    BY <1>2, <1>3, <1>4, <1>5, <1>6, AnalystAndChild

\* An execution that is configured goes on with its run and its configuration.
LEMMA StaysRight ==
    ASSUME PipeInv, NEW w \in Analyst, analysis[w].pc \in Configured,
           NEW a \in AnalysisRecord, a.pc \in Configured,
           a.run = analysis[w].run, a.config = analysis[w].config,
           a.outcome # "payloads", a.pc \in Watching => a.child \in Child
    PROVE  AnalysisRight(a) /\ (Private => AnalysisFresh(a))
  BY AnalysisState DEF AnalysisRight, AnalysisFresh, Configured, Watching

LEMMA SpawnKeeps ==
    ASSUME PipeInv, NEW w \in Analyst, Spawn(w)
    PROVE  PipeInv'
  <1> DEFINE self == analysis[w]
             free == {c \in Child : child[c] = NoChild}
  <1>1. PICK k \in Child :
            /\ child[k] = NoChild
            /\ child' = [child EXCEPT ![k] = [NoChild EXCEPT !.state = "starting",
                            !.owner = w, !.run = self.run, !.step = self.step]]
            /\ analysis' = [analysis EXCEPT ![w] = [self EXCEPT !.pc = "poll", !.child = k]]
    <2>1. free # {}
      BY DEF Spawn
    <2>2. (CHOOSE c \in free : TRUE) \in free
      BY <2>1
    <2>3. PICK k : k = CHOOSE c \in free : TRUE
      OBVIOUS
    <2>4. QED
      BY <2>2, <2>3 DEF Spawn, Analyse
  <1>2. self.pc = "spawn" /\ UNCHANGED <<hostVars, file>>
    BY DEF Spawn
  <1>3. /\ self \in AnalysisRecord /\ self.run \in Video /\ self.outcome # "payloads"
        /\ AnalysisRight(self) /\ (Private => AnalysisFresh(self))
    BY <1>2, AnalysisState DEF AnalysisRight
  <1> DEFINE a == [self EXCEPT !.pc = "poll", !.child = k]
             p == [NoChild EXCEPT !.state = "starting", !.owner = w, !.run = self.run,
                                  !.step = self.step]
  <1>4. /\ a \in AnalysisRecord /\ a.pc = "poll" /\ a.child = k
        /\ a.run = self.run /\ a.config = self.config /\ a.outcome = self.outcome
    BY <1>3 DEF AnalysisRecord
  <1>5. /\ p \in ChildRecord /\ p.state = "starting" /\ p.owner = w /\ p.run = self.run
        /\ p.held = Absent
    <2>1. self.step \in 1 .. 3
      BY <1>3 DEF AnalysisRecord
    <2>2. QED
      BY <1>3, <2>1, HostFacts DEF ChildRecord, NoChild
  <1>6. analysis' = [analysis EXCEPT ![w] = a] /\ child' = [child EXCEPT ![k] = p]
    BY <1>1
  <1> HIDE DEF a, p
  <1>7. AnalysisRight(a) /\ (Private => AnalysisFresh(a))
    BY <1>2, <1>3, <1>4, StaysRight DEF Configured, Watching
  <1>8. ChildRight(p) /\ (Private => ChildFresh(p))
    <2>1. ChildRight(p)
      BY <1>3, <1>5 DEF ChildRight
    <2>2. ASSUME Private PROVE ChildFresh(p)
      BY <1>2, <1>3, <1>5, <2>2, HostFacts DEF AnalysisFresh, ChildFresh, Configured
    <2>3. QED
      BY <2>1, <2>2
  <1>9. /\ \A v \in Analyst : v # w => child[k].owner # v /\ p.owner # v
        /\ \A j \in Child : j # k => ~Awaits(self, j) /\ ~Awaits(a, j)
        /\ p.owner = w <=> Awaits(a, k)
    <2>1. child[k].owner = NoVideo
      BY <1>1 DEF NoChild
    <2>2. QED
      BY <1>2, <1>4, <1>5, <2>1, HostFacts DEF Awaits, Watching
  <1>10. QED
    BY <1>2, <1>6, <1>7, <1>8, <1>9, AnalystAndChild

LEMMA PollExitKeeps ==
    ASSUME PipeInv, NEW w \in Analyst, PollExit(w)
    PROVE  PipeInv'
  <1> DEFINE self == analysis[w]
  <1>1. /\ self.pc = "poll" /\ UNCHANGED <<hostVars, file>>
        /\ child' = [child EXCEPT ![self.child] = NoChild]
    BY DEF PollExit, Reap
  <1>2. /\ self \in AnalysisRecord /\ self.outcome # "payloads"
        /\ NoChild.owner = NoVideo
    BY <1>1, AnalysisState DEF AnalysisRight, NoChild
  <1>3. ASSUME NEW a, Analyse(w, a), a.pc \notin Watching,
               AnalysisRight(a), Private => AnalysisFresh(a)
        PROVE  PipeInv'
    BY <1>1, <1>2, <1>3, HostFacts, ChildReleased DEF Watching
  <1>4. CASE child[self.child].state = "failed"
    <2>1. PICK outcome \in {"v1_mps_execution_failed", "v1_subprocess_failed"} :
              Analyse(w, Failed(outcome))
      BY <1>4 DEF PollExit, RaiseFailure, Failed
    <2>2. QED
      BY <1>3, <2>1, FailedIsRight DEF Outcomes, Watching
  <1>5. ASSUME NEW a, Analyse(w, a), a \in AnalysisRecord, a.pc \in {"summary", "collect", "spawn"},
               a.run = self.run, a.config = self.config, a.outcome = self.outcome
        PROVE  PipeInv'
    <2>1. AnalysisRight(a) /\ (Private => AnalysisFresh(a))
      BY <1>1, <1>2, <1>5, StaysRight DEF Configured, Watching
    <2>2. QED
      BY <1>3, <1>5, <2>1 DEF Watching
  <1>6. CASE child[self.child].state # "failed" /\ self.step # 2
    <2>1. PICK pc \in {"summary", "collect"} : Analyse(w, [self EXCEPT !.pc = pc])
      BY <1>6 DEF PollExit, Proceed
    <2> DEFINE a == [self EXCEPT !.pc = pc]
    <2>2. /\ a \in AnalysisRecord /\ a.pc = pc
          /\ a.run = self.run /\ a.config = self.config /\ a.outcome = self.outcome
      BY <1>2 DEF AnalysisRecord
    <2> HIDE DEF a
    <2>3. QED
      BY <1>5, <2>1, <2>2 DEF a
  <1>7. CASE child[self.child].state # "failed" /\ self.step = 2
    <2> DEFINE a == [self EXCEPT !.pc = "spawn", !.step = 3]
    <2>1. /\ a \in AnalysisRecord /\ a.pc = "spawn"
          /\ a.run = self.run /\ a.config = self.config /\ a.outcome = self.outcome
      <3>1. PICK next : next = 3
        OBVIOUS
      <3>2. a = [self EXCEPT !.pc = "spawn", !.step = next] /\ next \in 1 .. 3
        BY <3>1
      <3> HIDE DEF a
      <3>3. QED
        BY <1>2, <3>2 DEF AnalysisRecord
    <2>2. Analyse(w, a)
      BY <1>7 DEF PollExit
    <2> HIDE DEF a
    <2>3. QED
      BY <1>5, <2>1, <2>2
  <1>8. QED
    BY <1>4, <1>6, <1>7

LEMMA TerminateKeeps ==
    ASSUME PipeInv, NEW w \in Analyst, NEW outcome \in {"cancelled", "v1_subprocess_timeout"},
           analysis[w].pc = "poll", Terminate(w, outcome)
    PROVE  PipeInv'
  <1> DEFINE self == analysis[w]
             a == [self EXCEPT !.pc = "terminate", !.outcome = outcome]
  <1>1. self \in AnalysisRecord /\ self.child \in Child /\ child[self.child].owner = w
        /\ child[self.child].state # "none"
    BY AnalysisState, OwnChild DEF Watching
  <1>2. /\ a \in AnalysisRecord /\ a.pc = "terminate" /\ a.child = self.child
        /\ a.run = self.run /\ a.config = self.config /\ a.outcome = outcome
    BY <1>1 DEF AnalysisRecord
  <1>3. Analyse(w, a) /\ UNCHANGED <<hostVars, file>>
    BY DEF Terminate
  <1> HIDE DEF a
  <1>4. AnalysisRight(a) /\ (Private => AnalysisFresh(a))
    BY <1>1, <1>2, StaysRight DEF Configured, Watching
  <1>5. ASSUME NEW p, p \in {child[self.child],
                             [child[self.child] EXCEPT !.state = "terminated"]},
               child' = [child EXCEPT ![self.child] = p]
        PROVE  PipeInv'
    <2>1. /\ child[self.child] \in ChildRecord /\ ChildRight(child[self.child])
          /\ Private => ChildFresh(child[self.child])
      BY <1>1, ChildState
    <2>2. CASE p = child[self.child]
      BY <1>1, <1>2, <1>3, <1>4, <1>5, <2>1, <2>2, ChildSignalled DEF Watching
    <2>3. CASE p = [child[self.child] EXCEPT !.state = "terminated"]
      <3>1. /\ p \in ChildRecord /\ p.state = "terminated" /\ p.owner = w
            /\ p.run = child[self.child].run /\ p.held = child[self.child].held
        BY <1>1, <2>1, <2>3 DEF ChildRecord
      <3>2. ChildRight(p)
        BY <1>1, <2>1, <3>1 DEF ChildRight
      <3>3. Private => ChildFresh(p)
        BY <1>1, <2>1, <3>1 DEF ChildFresh
      <3>4. QED
        BY <1>1, <1>2, <1>3, <1>4, <1>5, <3>1, <3>2, <3>3, ChildSignalled DEF Watching
    <2>4. QED
      BY <1>5, <2>2, <2>3
  <1>6. CASE Exited(w)
    <2>1. child' = [child EXCEPT ![self.child] = child[self.child]]
      BY <1>6 DEF Terminate, PipeInv, ChildrenTyped
    <2>2. QED
      BY <1>5, <2>1
  <1>7. CASE ~Exited(w)
    <2>1. child' = [child EXCEPT ![self.child] =
                       [child[self.child] EXCEPT !.state = "terminated"]]
      BY <1>7 DEF Terminate
    <2>2. QED
      BY <1>5, <2>1
  <1>8. QED
    BY <1>6, <1>7

LEMMA WaitEndsKeeps ==
    ASSUME PipeInv, NEW w \in Analyst, WaitEnds(w)
    PROVE  PipeInv'
  <1>1. /\ analysis[w].pc \in Watching /\ UNCHANGED <<hostVars, file>>
        /\ child' = [child EXCEPT ![analysis[w].child] = NoChild]
        /\ Analyse(w, Failed(analysis[w].outcome))
    BY DEF WaitEnds, Reap, Watching, RaiseFailure, Failed
  <1>2. analysis[w].outcome \in Outcomes \cup {"none"}
    BY <1>1, AnalysisState DEF AnalysisRight, AnalysisRecord, Outcomes, Watching
  <1>3. QED
    BY <1>1, <1>2, FailedIsRight, HostFacts, ChildReleased DEF Watching, NoChild

LEMMA WaitExpiresKeeps ==
    ASSUME PipeInv, NEW w \in Analyst, WaitExpires(w)
    PROVE  PipeInv'
  <1> DEFINE self == analysis[w]
             a == [self EXCEPT !.pc = "kill"]
             p == [child[self.child] EXCEPT !.state = "gone"]
  <1>1. /\ self.pc = "terminate" /\ UNCHANGED <<hostVars, file>> /\ Analyse(w, a)
        /\ child' = [child EXCEPT ![self.child] = p]
    BY DEF WaitExpires, Proceed
  <1>2. /\ self \in AnalysisRecord /\ self.child \in Child /\ self.outcome # "payloads"
        /\ child[self.child].owner = w /\ child[self.child].state # "none"
    BY <1>1, AnalysisState, OwnChild DEF Watching, AnalysisRight
  <1>3. /\ child[self.child] \in ChildRecord /\ ChildRight(child[self.child])
        /\ Private => ChildFresh(child[self.child])
    BY <1>2, ChildState
  <1>4. /\ a \in AnalysisRecord /\ a.pc = "kill" /\ a.child = self.child
        /\ a.run = self.run /\ a.config = self.config /\ a.outcome = self.outcome
    BY <1>2 DEF AnalysisRecord
  <1>5. /\ p \in ChildRecord /\ p.state = "gone" /\ p.owner = w
        /\ p.run = child[self.child].run /\ p.held = child[self.child].held
    BY <1>2, <1>3 DEF ChildRecord
  <1> HIDE DEF a, p
  <1>6. AnalysisRight(a) /\ (Private => AnalysisFresh(a))
    BY <1>1, <1>2, <1>4, StaysRight DEF Configured, Watching
  <1>7. ChildRight(p) /\ (Private => ChildFresh(p))
    BY <1>2, <1>3, <1>5 DEF ChildRight, ChildFresh
  <1>8. QED
    BY <1>1, <1>4, <1>5, <1>6, <1>7, ChildSignalled DEF Watching

LEMMA AbandonKeeps ==
    ASSUME PipeInv, NEW w \in Analyst, analysis[w].pc = "poll",
           NEW video \in BOOLEAN, Abandon(analysis[w].child, video),
           NEW a, Analyse(w, a), a.pc \notin Watching, AnalysisRight(a), AnalysisFresh(a),
           UNCHANGED <<hostVars, file>>
    PROVE  PipeInv'
  <1> DEFINE k == analysis[w].child
             p == [child[k] EXCEPT !.owner = NoVideo, !.video = video]
  <1>1. k \in Child /\ child[k].state # "none"
    BY OwnChild DEF Watching
  <1>2. child[k] \in ChildRecord /\ ChildRight(child[k]) /\ (Private => ChildFresh(child[k]))
    BY <1>1, ChildState
  <1>3. /\ p \in ChildRecord /\ p.state = child[k].state /\ p.owner = NoVideo
        /\ p.run = child[k].run /\ p.held = child[k].held
    BY <1>2 DEF ChildRecord
  <1>4. child' = [child EXCEPT ![k] = p]
    BY DEF Abandon
  <1> HIDE DEF p
  <1>5. ChildRight(p) /\ (Private => ChildFresh(p))
    BY <1>1, <1>2, <1>3 DEF ChildRight, ChildFresh
  <1>6. QED
    BY <1>3, <1>4, <1>5, ChildReleased DEF Watching

LEMMA CheckRaisesKeeps ==
    ASSUME PipeInv, NEW w \in Analyst, CheckRaises(w)
    PROVE  PipeInv'
  <1>1. /\ analysis[w].pc = "poll" /\ Abandon(analysis[w].child, Private)
        /\ Analyse(w, Failed("execution_failed")) /\ UNCHANGED <<hostVars, file>>
    BY DEF CheckRaises, InputRemains, RaiseFailure, Failed
  <1>2. QED
    BY <1>1, PrivateAssumption, FailedIsRight, AbandonKeeps DEF Outcomes, Watching

LEMMA WorkerDiesKeeps ==
    ASSUME PipeInv, NEW w \in Analyst, WorkerDies(w)
    PROVE  PipeInv'
  <1>1. /\ analysis[w].pc = "poll" /\ Abandon(analysis[w].child, TRUE)
        /\ Analyse(w, NoAnalysis) /\ UNCHANGED <<hostVars, file>>
    BY DEF WorkerDies
  <1>2. NoAnalysis.pc \notin Watching
    BY DEF NoAnalysis, Watching
  <1>3. QED
    BY <1>1, <1>2, HostFacts, AbandonKeeps

ReadsOf(w) == {ReadFile(w, f) : f \in Files}

\* The files of a run's own working tree.
LEMMA FilesRead ==
    ASSUME PipeInv, NEW r \in Video, NEW f \in Files
    PROVE  /\ file[WorkspaceOf(r)][f] \in Derived \cup {Absent, Broken}
           /\ Private /\ file[WorkspaceOf(r)][f] \in Derived =>
                 /\ file[WorkspaceOf(r)][f].run = r
                 /\ Fresh(r, file[WorkspaceOf(r)][f].model)
  BY DEF PipeInv, FilesTyped, Traceable, FilesFresh, WorkspaceOf

LEMMA ReadSummaryKeeps ==
    ASSUME PipeInv, NEW w \in Analyst, ReadTrackingSummary(w)
    PROVE  PipeInv'
  <1> DEFINE self == analysis[w]
             content == ReadFile(w, "tracking")
  <1>1. /\ self.pc = "summary" /\ UNCHANGED <<hostVars, file, child>>
        /\ self \in AnalysisRecord /\ self.outcome # "payloads"
    BY AnalysisState DEF ReadTrackingSummary, Unobserved, AnalysisRight
  <1>2. CASE ~Readable(content)
    <2>1. Analyse(w, Failed("v1_tracking_output_invalid"))
      BY <1>2 DEF ReadTrackingSummary, RaiseFailure, Failed
    <2>2. QED
      BY <1>1, <2>1, FailedIsRight, ChildlessMove DEF Outcomes, Watching
  <1>3. ASSUME NEW a, Analyse(w, a), a \in AnalysisRecord, a.pc \in {"collect", "spawn"},
               a.run = self.run, a.config = self.config, a.outcome = self.outcome
        PROVE  PipeInv'
    <2>1. AnalysisRight(a) /\ (Private => AnalysisFresh(a))
      BY <1>1, <1>3, StaysRight DEF Configured, Watching
    <2>2. QED
      BY <1>1, <1>3, <2>1, ChildlessMove DEF Watching
  <1>4. CASE Readable(content) /\ content.run \in EmptyVideo
    <2> DEFINE a == [self EXCEPT !.pc = "collect"]
    <2>1. /\ a \in AnalysisRecord /\ a.pc = "collect"
          /\ a.run = self.run /\ a.config = self.config /\ a.outcome = self.outcome
      BY <1>1 DEF AnalysisRecord
    <2>2. Analyse(w, a)
      BY <1>4 DEF ReadTrackingSummary, Proceed
    <2> HIDE DEF a
    <2>3. QED
      BY <1>3, <2>1, <2>2
  <1>5. CASE Readable(content) /\ content.run \notin EmptyVideo
    <2> DEFINE a == [self EXCEPT !.pc = "spawn", !.step = 2]
    <2>1. /\ a \in AnalysisRecord /\ a.pc = "spawn"
          /\ a.run = self.run /\ a.config = self.config /\ a.outcome = self.outcome
      <3>1. PICK next : next = 2
        OBVIOUS
      <3>2. a = [self EXCEPT !.pc = "spawn", !.step = next] /\ next \in 1 .. 3
        BY <3>1
      <3> HIDE DEF a
      <3>3. QED
        BY <1>1, <3>2 DEF AnalysisRecord
    <2>2. Analyse(w, a)
      BY <1>5 DEF ReadTrackingSummary
    <2> HIDE DEF a
    <2>3. QED
      BY <1>3, <2>1, <2>2
  <1>6. QED
    BY <1>2, <1>4, <1>5

LEMMA CollectKeeps ==
    ASSUME PipeInv, NEW w \in Analyst, Collect(w)
    PROVE  PipeInv'
  <1> DEFINE self == analysis[w]
             trackingFile == ReadFile(w, "tracking")
             sources == IF trackingFile.run \in EmptyVideo THEN {trackingFile} ELSE ReadsOf(w)
  <1>1. /\ self.pc = "collect" /\ UNCHANGED <<hostVars, file, child>>
        /\ self \in AnalysisRecord /\ self.run \in Video
        /\ AnalysisRight(self) /\ (Private => AnalysisFresh(self))
    BY AnalysisState DEF Collect, Unobserved, AnalysisRight
  <1>2. \/ Analyse(w, Failed("v1_output_invalid"))
        \/ \E content \in sources :
              /\ Readable(content)
              /\ Analyse(w, [self EXCEPT !.pc = "ended", !.outcome = "payloads",
                                         !.payload = content])
    BY DEF Collect, RaiseFailure, Failed, ReadsOf
  <1>3. CASE Analyse(w, Failed("v1_output_invalid"))
    BY <1>1, <1>3, FailedIsRight, ChildlessMove DEF Outcomes, Watching
  <1>4. ASSUME NEW content \in sources, Readable(content),
               Analyse(w, [self EXCEPT !.pc = "ended", !.outcome = "payloads",
                                       !.payload = content])
        PROVE  PipeInv'
    <2>1. PICK f \in Files : content = file[WorkspaceOf(self.run)][f]
      BY <1>4 DEF ReadsOf, ReadFile, Files
    <2>2. /\ content \in Derived
          /\ Private => content.run = self.run /\ Fresh(self.run, content.model)
      BY <1>1, <1>4, <2>1, FilesRead DEF Readable
    <2> DEFINE a == [self EXCEPT !.pc = "ended", !.outcome = "payloads", !.payload = content]
    <2>3. /\ a \in AnalysisRecord /\ a.pc = "ended" /\ a.outcome = "payloads"
          /\ a.payload = content /\ a.run = self.run /\ a.config = self.config
      BY <1>1, <2>2 DEF AnalysisRecord
    <2>4. Analyse(w, a)
      BY <1>4
    <2> HIDE DEF a
    <2>5. AnalysisRight(a) /\ (Private => AnalysisFresh(a))
      BY <1>1, <2>2, <2>3 DEF AnalysisRight, AnalysisFresh, Configured, Watching
    <2>6. QED
      BY <1>1, <2>3, <2>4, <2>5, ChildlessMove DEF Watching
  <1>5. QED
    BY <1>2, <1>3, <1>4

LEMMA EndKeeps ==
    ASSUME PipeInv, NEW w \in Analyst, EndAnalysis(w)
    PROVE  PipeInv'
  <1>1. /\ analysis[w].pc = "ended" /\ UNCHANGED <<hostVars, file, child>>
        /\ Analyse(w, NoAnalysis)
    BY DEF EndAnalysis, Unobserved
  <1>2. QED
    BY <1>1, HostFacts, ChildlessMove DEF NoAnalysis, Watching

LEMMA AnalystKeeps ==
    ASSUME PipeInv, NEW w \in Analyst,
           \/ PipelineStep(w) \/ CheckRaises(w) \/ WorkerDies(w)
           \/ \E r \in Video : BeginAnalysis(w, r)
    PROVE  PipeInv'
  <1>1. CASE PollCancelled(w)
    BY <1>1, TerminateKeeps DEF PollCancelled
  <1>2. CASE PollTimeout(w)
    BY <1>2, TerminateKeeps DEF PollTimeout
  <1>3. QED
    BY <1>1, <1>2, BeginKeeps, CheckReadinessKeeps, FixConfigKeeps, SpawnKeeps, PollExitKeeps,
       WaitEndsKeeps, WaitExpiresKeeps, ReadSummaryKeeps, CollectKeeps, EndKeeps,
       CheckRaisesKeeps, WorkerDiesKeeps
    DEF PipelineStep

----------------------------------------------------------------------------
(* The actions of a child and of the world outside.                          *)

LEMMA SameFiles ==
    ASSUME PipeInv, UNCHANGED <<hostVars, file>>
    PROVE  FilesTyped' /\ (Private => FilesFresh')
  BY SameHost DEF PipeInv, FilesTyped, Traceable, FilesFresh

LEMMA ScriptFile ==
    ASSUME NEW s \in 1 .. 3
    PROVE  Script[s] \in Files
  BY DEF Script, Files

LEMMA WrittenFiles ==
    ASSUME PipeInv, NEW r \in Video, NEW f \in Files, NEW content \in Derived \cup {Broken},
           WriteFile(r, f, content), UNCHANGED hostVars,
           Private /\ content \in Derived => content.run = r /\ Fresh(r, content.model)
    PROVE  FilesTyped' /\ (Private => FilesFresh')
  <1>1. WorkspaceOf(r) \in Video \cup {NoVideo}
    BY DEF WorkspaceOf
  <1>2. file \in [Video \cup {NoVideo} -> [Files -> Derived \cup {Absent, Broken}]]
    BY DEF PipeInv, FilesTyped
  <1>3. FilesTyped'
    BY <1>1, <1>2 DEF FilesTyped, WriteFile
  <1>4. \A d \in Video, g \in Files :
            file'[d][g] = IF d = WorkspaceOf(r) /\ g = f THEN content ELSE file[d][g]
    BY <1>1, <1>2 DEF WriteFile
  <1>5. ASSUME Private PROVE FilesFresh'
    <2>1. WorkspaceOf(r) = r
      BY <1>5 DEF WorkspaceOf
    <2>2. ASSUME NEW d \in Video, NEW g \in Files, file'[d][g] \in Derived
          PROVE  file'[d][g].run = d /\ Fresh(d, file'[d][g].model)
      BY <1>4, <1>5, <2>1, <2>2 DEF PipeInv, Traceable, FilesFresh
    <2>3. ASSUME NEW d \in Video, NEW g \in Files, file'[d][g] \in Derived
          PROVE  file'[d][g].run = d /\ Fresh(d, file[d][g].model)'
      BY <2>2, <2>3 DEF Fresh, hostVars
    <2>4. QED
      BY <2>3 DEF FilesFresh
  <1>6. QED
    BY <1>3, <1>5

LEMMA ChildReadsKeeps ==
    ASSUME PipeInv, NEW k \in Child, ChildReads(k)
    PROVE  PipeInv'
  <1> DEFINE self == child[k]
  <1>1. PICK content :
            /\ content = IF self.step = 1
                         THEN IF self.video THEN [run |-> self.run, model |-> host.model]
                                            ELSE Absent
                         ELSE file[WorkspaceOf(self.run)][Script[self.step - 1]]
            /\ ChildBecomes(k, IF content \in Derived
                               THEN [self EXCEPT !.state = "working", !.held = content]
                               ELSE [self EXCEPT !.state = "failed"])
    BY DEF ChildReads
  <1>2. /\ self.state = "starting" /\ UNCHANGED <<hostVars, file, analysis>>
        /\ self \in ChildRecord /\ ChildRight(self) /\ (Private => ChildFresh(self))
        /\ self.run \in Video /\ self.step \in 1 .. 3
    BY ChildState DEF ChildReads, ChildRight, ChildRecord
  <1>3. CASE content \in Derived
    <2> DEFINE p == [self EXCEPT !.state = "working", !.held = content]
    <2>1. /\ p \in ChildRecord /\ p.state = "working" /\ p.held = content
          /\ p.owner = self.owner /\ p.run = self.run
      BY <1>2, <1>3 DEF ChildRecord
    <2>2. child' = [child EXCEPT ![k] = p]
      BY <1>1, <1>3 DEF ChildBecomes
    <2> HIDE DEF p
    <2>3. ASSUME Private PROVE content.run = self.run /\ Fresh(self.run, content.model)
      <3>1. CASE self.step = 1
        <4>1. content = [run |-> self.run, model |-> host.model]
          BY <1>1, <1>3, <3>1, HostFacts
        <4>2. QED
          BY <1>2, <2>3, <4>1 DEF ChildFresh
      <3>2. CASE self.step # 1
        <4>1. Script[self.step - 1] \in Files /\
              content = file[WorkspaceOf(self.run)][Script[self.step - 1]]
          BY <1>1, <1>2, <3>2, ScriptFile
        <4>2. QED
          BY <1>2, <1>3, <2>3, <4>1, FilesRead
      <3>3. QED
        BY <3>1, <3>2
    <2>4. ChildRight(p) /\ (Private => ChildFresh(p))
      BY <1>2, <1>3, <2>1, <2>3 DEF ChildRight, ChildFresh
    <2>5. QED
      BY <1>2, <2>1, <2>2, <2>4, SameFiles, ChildMoves
  <1>4. CASE content \notin Derived
    <2> DEFINE p == [self EXCEPT !.state = "failed"]
    <2>1. /\ p \in ChildRecord /\ p.state = "failed" /\ p.held = self.held
          /\ p.owner = self.owner /\ p.run = self.run
      BY <1>2 DEF ChildRecord
    <2>2. child' = [child EXCEPT ![k] = p]
      BY <1>1, <1>4 DEF ChildBecomes
    <2> HIDE DEF p
    <2>3. ChildRight(p) /\ (Private => ChildFresh(p))
      BY <1>2, <2>1 DEF ChildRight, ChildFresh
    <2>4. QED
      BY <1>2, <2>1, <2>2, <2>3, SameFiles, ChildMoves
  <1>5. QED
    BY <1>3, <1>4

LEMMA ChildWritesKeeps ==
    ASSUME PipeInv, NEW k \in Child, ChildOpens(k) \/ ChildWrites(k)
    PROVE  PipeInv'
  <1> DEFINE self == child[k]
  <1>1. /\ self.state \in {"working", "writing"} /\ UNCHANGED <<hostVars, analysis>>
        /\ self \in ChildRecord /\ ChildRight(self) /\ (Private => ChildFresh(self))
        /\ self.run \in Video /\ self.held \in Derived
    BY ChildState DEF ChildOpens, ChildWrites, ChildRight
  <1>2. Script[self.step] \in Files
    BY <1>1, ScriptFile DEF ChildRecord
  <1>3. ASSUME NEW content \in Derived \cup {Broken}, NEW state \in {"writing", "succeeded"},
               WriteFile(self.run, Script[self.step], content),
               content \in Derived => content = self.held,
               ChildBecomes(k, [self EXCEPT !.state = state])
        PROVE  PipeInv'
    <2> DEFINE p == [self EXCEPT !.state = state]
    <2>1. /\ p \in ChildRecord /\ p.state = state /\ p.held = self.held
          /\ p.owner = self.owner /\ p.run = self.run
      BY <1>1 DEF ChildRecord
    <2>2. child' = [child EXCEPT ![k] = p]
      BY <1>3 DEF ChildBecomes
    <2> HIDE DEF p
    <2>3. ChildRight(p) /\ (Private => ChildFresh(p))
      BY <1>1, <2>1 DEF ChildRight, ChildFresh
    <2>4. FilesTyped' /\ (Private => FilesFresh')
      <3>1. Private /\ content \in Derived =>
                content.run = self.run /\ Fresh(self.run, content.model)
        BY <1>1, <1>3 DEF ChildFresh
      <3>2. QED
        BY <1>1, <1>2, <1>3, <3>1, WrittenFiles
    <2>5. QED
      BY <1>1, <2>1, <2>2, <2>3, <2>4, ChildMoves
  <1>4. CASE ChildOpens(k)
    BY <1>3, <1>4, HostFacts DEF ChildOpens
  <1>5. CASE ChildWrites(k)
    BY <1>1, <1>3, <1>5 DEF ChildWrites
  <1>6. QED
    BY <1>4, <1>5

LEMMA ChildEndsKeeps ==
    ASSUME PipeInv, NEW k \in Child, ChildEnds(k)
    PROVE  PipeInv'
  <1> DEFINE self == child[k]
  <1>1. /\ self.state \in {"working", "writing", "terminated"}
        /\ UNCHANGED <<hostVars, file, analysis>>
        /\ self \in ChildRecord /\ ChildRight(self) /\ (Private => ChildFresh(self))
    BY ChildState DEF ChildEnds
  <1>2. PICK state \in {"gone", "failed"} : ChildBecomes(k, [self EXCEPT !.state = state])
    <2>1. CASE self.state = "terminated"
      BY <1>1, <2>1 DEF ChildEnds, ChildRecord
    <2>2. CASE self.state # "terminated"
      BY <1>1, <2>2 DEF ChildEnds, ChildRecord
    <2>3. QED
      BY <2>1, <2>2
  <1> DEFINE p == [self EXCEPT !.state = state]
  <1>3. /\ p \in ChildRecord /\ p.state = state /\ p.held = self.held
        /\ p.owner = self.owner /\ p.run = self.run
    BY <1>1 DEF ChildRecord
  <1>4. child' = [child EXCEPT ![k] = p]
    BY <1>2 DEF ChildBecomes
  <1> HIDE DEF p
  <1>5. ChildRight(p) /\ (Private => ChildFresh(p))
    BY <1>1, <1>3 DEF ChildRight, ChildFresh
  <1>6. QED
    BY <1>1, <1>3, <1>4, <1>5, SameFiles, ChildMoves

LEMMA OrphanKeeps ==
    ASSUME PipeInv, NEW k \in Child, OrphanEnds(k)
    PROVE  PipeInv'
  <1>1. /\ child' = [child EXCEPT ![k] = NoChild] /\ child[k].owner = NoChild.owner
        /\ UNCHANGED <<hostVars, file, analysis>>
    BY DEF OrphanEnds, Reap, NoChild
  <1>2. QED
    BY <1>1, HostFacts, SameFiles, ChildMoves

\* Whoever has a child or a configuration is alive, so that a replacement of the weights
\* marks its run.
LEMMA ReplaceKeeps == PipeInv /\ ReplaceWeights => PipeInv'
  <1> SUFFICES ASSUME PipeInv, ReplaceWeights PROVE PipeInv'
    OBVIOUS
  <1>1. /\ touched' = touched \cup {r \in Video : Alive(r)}
        /\ UNCHANGED <<recorded, stopAsked, file, child, analysis>>
    BY DEF ReplaceWeights
  <1>2. PICK model \in 0 .. 2 : host' = [host EXCEPT !.model = model]
    BY DEF ReplaceWeights
  <1>3. HostTyped'
    BY <1>1, <1>2 DEF PipeInv, HostTyped, HostRecord
  <1>4. FilesTyped' /\ ChildrenTyped' /\ AnalysesTyped' /\ Linked'
    BY <1>1 DEF PipeInv, FilesTyped, ChildrenTyped, AnalysesTyped, Linked
  <1>5. \A r, m : Fresh(r, m) => Fresh(r, m)'
    BY <1>1 DEF Fresh
  <1>6. ASSUME Private PROVE Traceable'
    <2>1. \A r \in Video : recorded'[r] \in Config
      BY <1>1, <1>6 DEF PipeInv, Traceable
    <2>2. FilesFresh'
      <3>1. ASSUME NEW d \in Video, NEW g \in Files, file[d][g] \in Derived
            PROVE  file[d][g].run = d /\ Fresh(d, file[d][g].model)'
        <4>1. PICK m : m = file[d][g].model
          OBVIOUS
        <4>2. file[d][g].run = d /\ Fresh(d, m)
          BY <1>6, <3>1, <4>1 DEF PipeInv, Traceable, FilesFresh
        <4>3. Fresh(d, m)'
          BY <1>5, <4>2
        <4>4. QED
          BY <1>1, <4>1, <4>2, <4>3
      <3>2. QED
        BY <1>1, <3>1 DEF FilesFresh
    <2>3. ASSUME NEW k \in Child PROVE ChildFresh(child[k])'
      <3>1. PICK p : p = child[k]
        OBVIOUS
      <3>2. ChildFresh(p) /\ ChildRight(p)
        BY <1>6, <3>1 DEF PipeInv, Traceable, ChildrenTyped
      <3>3. p.state # "none" => p.run \in touched'
        BY <1>1, <3>1, <3>2 DEF Alive, ChildRight
      <3>4. ChildFresh(p)'
        BY <3>2, <3>3 DEF ChildFresh, Fresh
      <3>5. QED
        BY <1>1, <3>1, <3>4
    <2>4. ASSUME NEW w \in Analyst PROVE AnalysisFresh(analysis[w])'
      <3>1. PICK a : a = analysis[w]
        OBVIOUS
      <3>2. AnalysisFresh(a) /\ AnalysisRight(a)
        BY <1>6, <3>1 DEF PipeInv, Traceable, AnalysesTyped
      <3>3. a.pc \in Configured => a.run \in touched'
        BY <1>1, <3>1, <3>2 DEF Alive, AnalysisRight, Configured, Watching
      <3>4. AnalysisFresh(a)'
        BY <1>1, <3>2, <3>3 DEF AnalysisFresh, Fresh
      <3>5. QED
        BY <1>1, <3>1, <3>4
    <2>5. QED
      BY <2>1, <2>2, <2>3, <2>4 DEF Traceable
  <1>7. QED
    BY <1>3, <1>4, <1>6 DEF PipeInv

LEMMA AskKeeps ==
    ASSUME PipeInv, NEW r \in Video, AskToStop(r)
    PROVE  PipeInv'
  <1>1. /\ stopAsked' = stopAsked \cup {r}
        /\ UNCHANGED <<host, recorded, touched, file, child, analysis>>
    BY DEF AskToStop
  <1>2. HostTyped'
    BY <1>1 DEF PipeInv, HostTyped
  <1>3. FilesTyped' /\ ChildrenTyped' /\ AnalysesTyped' /\ Linked'
    BY <1>1 DEF PipeInv, FilesTyped, ChildrenTyped, AnalysesTyped, Linked
  <1>4. Private => Traceable'
    BY <1>1 DEF PipeInv, Traceable, FilesFresh, ChildFresh, AnalysisFresh, Fresh
  <1>5. QED
    BY <1>2, <1>3, <1>4 DEF PipeInv

LEMMA PipelineStepKeeps == PipeInv /\ [PipelineNext]_pipelineVars => PipeInv'
  <1> SUFFICES ASSUME PipeInv, [PipelineNext]_pipelineVars PROVE PipeInv'
    OBVIOUS
  <1>1. CASE UNCHANGED pipelineVars
    BY <1>1 DEF pipelineVars, hostVars, PipeInv, HostTyped, FilesTyped, ChildrenTyped,
                AnalysesTyped, Linked, Traceable, FilesFresh, ChildFresh, AnalysisFresh, Fresh
  <1>2. ASSUME NEW k \in Child, ChildStep(k) PROVE PipeInv'
    BY <1>2, ChildReadsKeeps, ChildWritesKeeps, ChildEndsKeeps, OrphanKeeps DEF ChildStep
  <1>3. CASE PipelineNext
    BY <1>2, <1>3, AnalystKeeps, ReplaceKeeps, AskKeeps DEF PipelineNext
  <1>4. QED
    BY <1>1, <1>3

LEMMA PipeInvHolds == PipelineSpec => []PipeInv
  BY PipeInitially, PipelineStepKeeps, PTL DEF PipelineSpec

\* However the supervisor leaves a child, by its exit, a cancellation, the time limit or
\* kill, the execution that started it still waits for it or it is gone: no execution
\* reaps the child of another, for any number of workers and runs.
THEOREM ChildrenAreStopped == PipelineSpec => []ChildrenStopped
  <1>1. PipeInv => ChildrenStopped
    BY DEF PipeInv, Linked, Awaits, Watching, ChildrenStopped
  <1>2. QED
    BY <1>1, PipeInvHolds, PTL

\* When every input lies in the directory of its run, as the local store lends it, what an
\* execution returns was computed from the video of its run and from the weights whose
\* checksum it reports, unless these were replaced during the run: whatever orphans,
\* other executions of the same run and leftovers of earlier ones share its files.
THEOREM PayloadsAreTraceable == ASSUME Private PROVE PipelineSpec => []PayloadsMatchInput
  <1>1. PipeInv => PayloadsMatchInput
    BY DEF PipeInv, Traceable, AnalysisFresh, Fresh, PayloadsMatchInput
  <1>2. QED
    BY <1>1, PipeInvHolds, PTL

LEMMA PipelineTyped == PipelineSpec => []PipelineTypeOK
  <1>1. PipeInv => PipelineTypeOK
    <2> SUFFICES ASSUME PipeInv PROVE PipelineTypeOK
      OBVIOUS
    <2>1. /\ stopAsked \subseteq Video /\ touched \subseteq Video /\ host.model \in 0 .. 2
          /\ file \in [Video \cup {NoVideo} -> [Files -> Derived \cup {Absent, Broken}]]
      BY DEF PipeInv, HostTyped, HostRecord, FilesTyped
    <2>2. \A k \in Child : child[k].state # "none" => child[k].run \in Video
      BY DEF PipeInv, ChildrenTyped, ChildRight
    <2>3. \A w \in Analyst : analysis[w] \in AnalysisRecord /\ AnalysisRight(analysis[w])
      BY DEF PipeInv, AnalysesTyped
    <2>4. \A w \in Analyst :
            /\ analysis[w].config \in Config \cup {NoConfig}
            /\ analysis[w].pc \in {"spawn", "poll", "terminate", "kill"} =>
                  analysis[w].config \in Config
            /\ analysis[w].pc \in {"poll", "terminate", "kill"} => analysis[w].child \in Child
      BY <2>3 DEF AnalysisRecord, AnalysisRight, Configured, Watching
    <2>5. QED
      BY <2>1, <2>2, <2>4 DEF PipelineTypeOK
  <1>2. QED
    BY <1>1, PipeInvHolds, PTL

----------------------------------------------------------------------------
(* The lock of a delivery.  While its worker executes and nothing excuses a  *)
(* loss, the lock outlasts the time until the next renewal by a margin that  *)
(* one failed renewal does not use up.                                       *)

LockRecord == [state : {"available", "locked", "completed", "deadletter"},
               delivery : 0 .. DeliveryLimit, left : 0 .. LockDuration]

RenewerRecord ==
    [state : {"waiting", "renewing", "ended"}, host : Consumer \cup {NoLetter},
     wait : 0 .. RenewInterval, elapsed : Nat, missed : 0 .. 2, slow : BOOLEAN,
     stopped : BOOLEAN]

ConsumerRecord == [pc : {"idle", "executing", "settling"}, letter : Letter \cup {NoLetter},
                   delivery : 0 .. DeliveryLimit]

LockRight(l) == l \in LockRecord /\ (l.state = "locked" <=> l.left > 0)

RenewerRight(r) ==
    /\ r \in RenewerRecord
    /\ r.state # "ended" => r.elapsed < RenewLifetime
    /\ r.elapsed < RenewLifetime + RenewInterval

Excused(r) == r.elapsed >= RenewLifetime \/ r.missed >= 2 \/ r.slow

\* A lock survives a failed renewal: it lasts PT5M, and is renewed every 30 s.
LockOutlastsFailure == 2 * RenewInterval < LockDuration

\* What is left of the lock when the renewer wakes.
Margin(missed) == IF missed = 0 THEN LockDuration - RenewInterval
                                ELSE LockDuration - 2 * RenewInterval

Sustained(d, l, r) ==
    \/ Excused(r)
    \/ /\ l.state = "locked" /\ l.delivery = d
       /\ \/ r.state = "waiting" /\ l.left >= r.wait + Margin(r.missed)
          \/ r.state = "renewing" /\ l.left >= Margin(r.missed)

Serving(c, k, l, r) ==
    /\ k.delivery <= l.delivery
    /\ r.host = c
    /\ k.pc = "executing" =>
          ~r.stopped /\ (LockOutlastsFailure => Sustained(k.delivery, l, r))

Served(c, k, locks, renewers) ==
    k.pc # "idle" =>
        /\ k.letter \in Letter /\ k.delivery \in Delivery
        /\ Serving(c, k, locks[k.letter], renewers[k.letter][k.delivery])

ConsumerRight(c) == Served(c, consumer[c], lock, renewer)

LocksTyped == /\ lock \in [Letter -> LockRecord] /\ \A m \in Letter : LockRight(lock[m])
              /\ over \subseteq Letter

RenewersTyped == /\ renewer \in [Letter -> [Delivery -> RenewerRecord]]
                 /\ \A m \in Letter, d \in Delivery : RenewerRight(renewer[m][d])

LockInv ==
    /\ LocksTyped /\ RenewersTyped
    /\ consumer \in [Consumer -> ConsumerRecord]
    /\ \A c \in Consumer : ConsumerRight(c)

LEMMA LockInitially == LockInit => LockInv
  <1> SUFFICES ASSUME LockInit PROVE LockInv
    OBVIOUS
  <1>1. RenewerRight(NoRenewer)
    BY LockAssumption DEF RenewerRight, RenewerRecord, NoRenewer
  <1>2. Idle \in ConsumerRecord /\ Idle.pc = "idle"
    BY LockAssumption DEF Idle, ConsumerRecord
  <1>3. [state |-> "available", delivery |-> 0, left |-> 0] \in LockRecord
    BY LockAssumption DEF LockRecord
  <1>4. LocksTyped
    BY <1>3 DEF LockInit, LocksTyped, LockRight
  <1>5. RenewersTyped
    BY <1>1 DEF LockInit, RenewersTyped, RenewerRight
  <1>6. QED
    BY <1>2, <1>4, <1>5 DEF LockInit, LockInv, ConsumerRight, Served

\* What another delivery makes of the lock does not concern a delivery that lost it.
LEMMA ServingKept ==
    ASSUME NEW c, NEW k, NEW l, NEW r, NEW next, Serving(c, k, l, r),
           k.delivery \in Int, l.delivery \in Int, next.delivery \in Int,
           l.delivery <= next.delivery,
           l.state # "locked" \/ l.delivery # k.delivery
    PROVE  Serving(c, k, next, r)
  BY DEF Serving, Sustained

\* A step about one message and one of its deliveries.
StepAbout(m, d, l, r) ==
    /\ lock' = [lock EXCEPT ![m] = l] /\ renewer' = [renewer EXCEPT ![m][d] = r]
    /\ LockRight(l) /\ RenewerRight(r) /\ over' \subseteq Letter
    /\ consumer' \in [Consumer -> ConsumerRecord]
    /\ lock[m].delivery <= l.delivery
    /\ l = lock[m] \/ lock[m].state # "locked" \/ lock[m].delivery = d
    /\ \A c \in Consumer :
          \/ consumer'[c] # consumer[c] /\ Served(c, consumer'[c], lock', renewer')
          \/ /\ consumer'[c] = consumer[c]
             /\ consumer[c].pc # "idle" /\ consumer[c].letter = m /\ consumer[c].delivery = d
                => Serving(c, consumer[c], l, r)

LEMMA DeliveryStep ==
    ASSUME LockInv, NEW m \in Letter, NEW d \in Delivery, NEW l, NEW r, StepAbout(m, d, l, r)
    PROVE  LockInv'
  <1> USE DEF StepAbout
  <1>1. /\ lock \in [Letter -> LockRecord] /\ renewer \in [Letter -> [Delivery -> RenewerRecord]]
        /\ l \in LockRecord /\ r \in RenewerRecord
    BY DEF LockInv, LocksTyped, RenewersTyped, LockRight, RenewerRight
  <1>2. \A n \in Letter : lock'[n] = IF n = m THEN l ELSE lock[n]
    BY <1>1
  <1>3. \A n \in Letter, e \in Delivery :
            renewer'[n][e] = IF n = m /\ e = d THEN r ELSE renewer[n][e]
    BY <1>1
  <1>4. LocksTyped'
    <2>1. lock' \in [Letter -> LockRecord]
      BY <1>1
    <2>2. \A n \in Letter : LockRight(lock'[n])
      BY <1>2 DEF LockInv, LocksTyped
    <2>3. QED
      BY <2>1, <2>2 DEF LocksTyped
  <1>5. RenewersTyped'
    <2>1. renewer' \in [Letter -> [Delivery -> RenewerRecord]]
      BY <1>1
    <2>2. \A n \in Letter, e \in Delivery : RenewerRight(renewer'[n][e])
      BY <1>3 DEF LockInv, RenewersTyped
    <2>3. QED
      BY <2>1, <2>2 DEF RenewersTyped
  <1>6. ASSUME NEW c \in Consumer, consumer'[c] = consumer[c], consumer[c].pc # "idle"
        PROVE  /\ consumer[c].letter \in Letter /\ consumer[c].delivery \in Delivery
               /\ Serving(c, consumer[c], lock'[consumer[c].letter],
                          renewer'[consumer[c].letter][consumer[c].delivery])
    <2> DEFINE k == consumer[c]
    <2>1. /\ k.letter \in Letter /\ k.delivery \in Delivery
          /\ Serving(c, k, lock[k.letter], renewer[k.letter][k.delivery])
      BY <1>6 DEF LockInv, ConsumerRight, Served
    <2>2. CASE k.letter # m
      BY <1>2, <1>3, <2>1, <2>2
    <2>3. CASE k.letter = m /\ k.delivery = d
      BY <1>2, <1>3, <1>6, <2>1, <2>3
    <2>4. CASE k.letter = m /\ k.delivery # d
      <3>1. renewer'[m][k.delivery] = renewer[m][k.delivery] /\ lock'[m] = l
        BY <1>2, <1>3, <2>1, <2>4
      <3>2. k.delivery \in Int /\ lock[m].delivery \in Int /\ l.delivery \in Int
        BY <1>1, <2>1, LockAssumption DEF LockRecord, Delivery
      <3>3. Serving(c, k, lock[m], renewer[m][k.delivery])
        BY <2>1, <2>4
      <3>4. CASE l = lock[m]
        BY <2>1, <2>4, <3>1, <3>3, <3>4
      <3>5. CASE l # lock[m]
        <4>1. Serving(c, k, l, renewer[m][k.delivery])
          BY <2>4, <3>2, <3>3, <3>5, ServingKept
        <4>2. QED
          BY <2>1, <2>4, <3>1, <4>1
      <3>6. QED
        BY <3>4, <3>5
    <2>5. QED
      BY <2>2, <2>3, <2>4
  <1>7. \A c \in Consumer : ConsumerRight(c)'
    BY <1>6 DEF ConsumerRight, Served
  <1>8. QED
    BY <1>4, <1>5, <1>7 DEF LockInv

\* The records that a step about a delivery reads.
LEMMA LetterState ==
    ASSUME LockInv, NEW m \in Letter
    PROVE  /\ lock[m] \in LockRecord /\ LockRight(lock[m])
           /\ lock[m].delivery \in 0 .. DeliveryLimit /\ lock[m].left \in 0 .. LockDuration
           /\ \A d \in Delivery : renewer[m][d] \in RenewerRecord /\ RenewerRight(renewer[m][d])
           /\ lock = [lock EXCEPT ![m] = lock[m]]
           /\ \A d \in Delivery : renewer = [renewer EXCEPT ![m][d] = renewer[m][d]]
           /\ over \subseteq Letter
           /\ consumer \in [Consumer -> ConsumerRecord]
  <1>1. lock \in [Letter -> LockRecord] /\ renewer \in [Letter -> [Delivery -> RenewerRecord]]
    BY DEF LockInv, LocksTyped, RenewersTyped
  <1>2. \A d \in Delivery : [renewer EXCEPT ![m][d] = renewer[m][d]] = renewer
    <2> TAKE d \in Delivery
    <2>1. [renewer[m] EXCEPT ![d] = renewer[m][d]] = renewer[m]
      BY <1>1
    <2>2. QED
      BY <1>1, <2>1
  <1>3. QED
    BY <1>1, <1>2 DEF LockInv, LocksTyped, RenewersTyped, LockRecord

LEMMA ServingState ==
    ASSUME LockInv, NEW c \in Consumer, consumer[c].pc # "idle"
    PROVE  /\ consumer[c] \in ConsumerRecord
           /\ consumer[c].letter \in Letter /\ consumer[c].delivery \in Delivery
           /\ Serving(c, consumer[c], lock[consumer[c].letter],
                      renewer[consumer[c].letter][consumer[c].delivery])
  BY DEF LockInv, ConsumerRight, Served

LEMMA ReceiveKeeps ==
    ASSUME LockInv, NEW c \in Consumer, NEW m \in Letter, ReceiveLetter(c, m)
    PROVE  LockInv'
  <1> DEFINE d == lock[m].delivery + 1
             l == [state |-> "locked", delivery |-> d, left |-> LockDuration]
             r == [NoRenewer EXCEPT !.state = "waiting", !.host = c, !.wait = RenewInterval]
             k == [pc |-> "executing", letter |-> m, delivery |-> d]
  <1>1. /\ consumer[c].pc = "idle" /\ lock[m].state = "available" /\ d <= DeliveryLimit
        /\ lock' = [lock EXCEPT ![m] = l] /\ renewer' = [renewer EXCEPT ![m][d] = r]
        /\ consumer' = [consumer EXCEPT ![c] = k] /\ over' = over
    BY DEF ReceiveLetter, Offered, SetRenewer
  <1>2. d \in Delivery /\ d \in Nat /\ lock[m].delivery \in Nat
    BY <1>1, LetterState, LockAssumption DEF Delivery
  <1>3. LockDuration \in Nat /\ LockDuration > 0 /\ RenewInterval \in Nat /\ RenewLifetime \in Nat
        /\ RenewLifetime > 0 /\ RenewInterval > 0
    BY LockAssumption
  <1>4. LockRight(l)
    BY <1>2, <1>3, LockAssumption DEF LockRight, LockRecord, Delivery
  <1>5. /\ r.state = "waiting" /\ r.host = c /\ r.wait = RenewInterval /\ r.elapsed = 0
        /\ r.missed = 0 /\ r.slow = FALSE /\ r.stopped = FALSE
    BY DEF NoRenewer
  <1>6. r \in RenewerRecord
    <2>1. NoRenewer \in RenewerRecord /\ RenewInterval \in 0 .. RenewInterval
      BY <1>3 DEF RenewerRecord, NoRenewer
    <2>2. PICK wait \in 0 .. RenewInterval : wait = RenewInterval
      BY <2>1
    <2>3. [NoRenewer EXCEPT !.state = "waiting", !.host = c, !.wait = wait] \in RenewerRecord
      BY <2>1 DEF RenewerRecord
    <2>4. QED
      BY <2>2, <2>3
  <1>7. k \in ConsumerRecord
    BY <1>2, LockAssumption DEF ConsumerRecord, Delivery
  <1>8. /\ k.pc = "executing" /\ k.letter = m /\ k.delivery = d
        /\ l.state = "locked" /\ l.delivery = d /\ l.left = LockDuration
    OBVIOUS
  <1> HIDE DEF l, r, k, d
  <1>9. RenewerRight(r)
    BY <1>3, <1>5, <1>6 DEF RenewerRight
  <1>10. Serving(c, k, l, r)
    BY <1>2, <1>3, <1>5, <1>8 DEF Serving, Sustained, Margin
  <1>11. /\ lock'[m] = l /\ renewer'[m][d] = r /\ consumer'[c] = k
         /\ \A b \in Consumer : b # c => consumer'[b] = consumer[b]
         /\ consumer' \in [Consumer -> ConsumerRecord]
    BY <1>1, <1>2, <1>7 DEF LockInv, LocksTyped, RenewersTyped
  <1>12. Served(c, consumer'[c], lock', renewer')
    BY <1>2, <1>8, <1>10, <1>11 DEF Served
  <1>13. \A b \in Consumer : ~(/\ consumer[b].pc # "idle" /\ consumer[b].letter = m
                               /\ consumer[b].delivery = d)
    BY <1>2, ServingState DEF Serving, d
  <1>14. lock[m].delivery <= l.delivery
    BY <1>2, <1>8 DEF d
  <1>15. /\ \A b \in Consumer : \/ consumer'[b] = consumer[b]
                                \/ Served(b, consumer'[b], lock', renewer')
         /\ over' \subseteq Letter
         /\ l = lock[m] \/ lock[m].state # "locked" \/ lock[m].delivery = d
    BY <1>1, <1>11, <1>12, LetterState
  <1>16. \A b \in Consumer :
            /\ consumer'[b] = consumer[b] /\ consumer[b].pc # "idle"
            /\ consumer[b].letter = m /\ consumer[b].delivery = d
            => Serving(b, consumer[b], l, r)
    BY <1>13
  <1>17. QED
    <2>1. StepAbout(m, d, l, r)
      BY <1>1, <1>4, <1>9, <1>11, <1>12, <1>14, <1>15, <1>16 DEF StepAbout
    <2>2. QED
      BY <1>2, <2>1, DeliveryStep

LEMMA RetireKeeps ==
    ASSUME LockInv, NEW c \in Consumer, NEW m \in Letter,
           DrainLetter(c, m) \/ DeadLetterLetter(c, m)
    PROVE  LockInv'
  <1>1. PICK state \in {"completed", "deadletter"} :
            lock' = [lock EXCEPT ![m].state = state, ![m].left = 0]
    BY DEF DrainLetter, DeadLetterLetter, SettleAs
  <1>2. lock[m].state = "available" /\ UNCHANGED <<over, renewer, consumer>>
    BY DEF DrainLetter, DeadLetterLetter, Offered
  <1> DEFINE l == [lock[m] EXCEPT !.state = state, !.left = 0]
  <1>3. /\ l \in LockRecord /\ l.state = state /\ l.left = 0 /\ l.delivery = lock[m].delivery
    <2>1. PICK left \in 0 .. LockDuration : left = 0
      BY LockAssumption
    <2>2. l = [lock[m] EXCEPT !.state = state, !.left = left]
      BY <2>1
    <2> HIDE DEF l
    <2>3. /\ l \in LockRecord /\ l.state = state /\ l.left = left
          /\ l.delivery = lock[m].delivery
      BY <2>2, LetterState DEF LockRecord
    <2>4. QED
      BY <2>1, <2>3
  <1>4. lock' = [lock EXCEPT ![m] = l]
    BY <1>1 DEF LockInv, LocksTyped
  <1> HIDE DEF l
  <1>5. LockRight(l)
    BY <1>3 DEF LockRight
  <1>6. 1 \in Delivery
    BY LockAssumption DEF Delivery
  <1>7. ASSUME NEW b \in Consumer, consumer[b].pc # "idle", consumer[b].letter = m,
               consumer[b].delivery = 1
        PROVE  Serving(b, consumer[b], l, renewer[m][1])
    <2>1. Serving(b, consumer[b], lock[m], renewer[m][1])
      BY <1>7, ServingState
    <2>2. consumer[b].delivery \in Int /\ lock[m].delivery \in Int /\ l.delivery \in Int
          /\ l.delivery = lock[m].delivery
      BY <1>3, <1>7, LetterState
    <2>3. QED
      BY <1>2, <2>1, <2>2, ServingKept
  <1>8. renewer' = [renewer EXCEPT ![m][1] = renewer[m][1]] /\ RenewerRight(renewer[m][1])
    BY <1>2, <1>6, LetterState
  <1>9. lock[m].delivery <= l.delivery
    BY <1>3, LetterState
  <1>10. /\ \A b \in Consumer : \/ consumer'[b] = consumer[b]
                                \/ Served(b, consumer'[b], lock', renewer')
         /\ over' \subseteq Letter /\ consumer' \in [Consumer -> ConsumerRecord]
         /\ l = lock[m] \/ lock[m].state # "locked" \/ lock[m].delivery = 1
    BY <1>2, LetterState
  <1>11. \A b \in Consumer :
            /\ consumer'[b] = consumer[b] /\ consumer[b].pc # "idle"
            /\ consumer[b].letter = m /\ consumer[b].delivery = 1
            => Serving(b, consumer[b], l, renewer[m][1])
    BY <1>7
  <1>12. QED
    <2>1. StepAbout(m, 1, l, renewer[m][1])
      BY <1>2, <1>4, <1>5, <1>8, <1>9, <1>10, <1>11 DEF StepAbout
    <2>2. QED
      BY <1>6, <2>1, DeliveryStep

\* A renewer that leaves the lock alone.
LEMMA RenewerMoves ==
    ASSUME LockInv, NEW m \in Letter, NEW d \in Delivery, NEW r,
           SetRenewer(m, d, r), UNCHANGED <<lock, over, consumer>>, RenewerRight(r),
           r.host = renewer[m][d].host, r.stopped = renewer[m][d].stopped,
           ~r.stopped /\ Sustained(d, lock[m], renewer[m][d]) => Sustained(d, lock[m], r)
    PROVE  LockInv'
  <1>1. \A b \in Consumer :
            /\ consumer'[b] = consumer[b] /\ consumer[b].pc # "idle"
            /\ consumer[b].letter = m /\ consumer[b].delivery = d
            => Serving(b, consumer[b], lock[m], r)
    BY ServingState DEF Serving
  <1>2. lock[m].delivery <= lock[m].delivery
    BY LetterState
  <1>3. /\ \A b \in Consumer : \/ consumer'[b] = consumer[b]
                               \/ Served(b, consumer'[b], lock', renewer')
        /\ over' \subseteq Letter /\ consumer' \in [Consumer -> ConsumerRecord]
        /\ lock' = [lock EXCEPT ![m] = lock[m]] /\ LockRight(lock[m])
        /\ renewer' = [renewer EXCEPT ![m][d] = r]
    BY LetterState DEF SetRenewer
  <1>4. QED
    <2>1. StepAbout(m, d, lock[m], r)
      BY <1>1, <1>2, <1>3 DEF StepAbout
    <2>2. QED
      BY <2>1, DeliveryStep

LEMMA WakeKeeps ==
    ASSUME LockInv, NEW m \in Letter, NEW d \in Delivery, WakeRenewer(m, d)
    PROVE  LockInv'
  <1> DEFINE self == renewer[m][d]
             elapsed == self.elapsed + RenewInterval
             state == IF elapsed >= RenewLifetime THEN "ended" ELSE "renewing"
             r == [self EXCEPT !.elapsed = elapsed, !.state = state]
  <1>1. self \in RenewerRecord /\ RenewerRight(self)
    BY LetterState
  <1>2. self.state = "waiting" /\ self.wait = 0 /\ SetRenewer(m, d, r)
        /\ UNCHANGED <<lock, over, consumer>>
    BY DEF WakeRenewer
  <1>3. self.elapsed \in Nat /\ RenewInterval \in Nat /\ RenewLifetime \in Nat
        /\ self.missed \in 0 .. 2 /\ LockDuration \in Nat
    BY <1>1, LockAssumption DEF RenewerRecord
  <1>4. elapsed \in Nat /\ self.elapsed <= elapsed /\ elapsed < RenewLifetime + RenewInterval
    BY <1>1, <1>2, <1>3 DEF RenewerRight
  <1>5. \/ state = "ended" /\ elapsed >= RenewLifetime
        \/ state = "renewing" /\ elapsed < RenewLifetime
    BY <1>3, <1>4
  <1> HIDE DEF elapsed, state
  <1>6. r \in RenewerRecord /\ r.state = state /\ r.elapsed = elapsed
        /\ r.host = self.host /\ r.missed = self.missed /\ r.slow = self.slow
        /\ r.stopped = self.stopped
    BY <1>1, <1>4, <1>5 DEF RenewerRecord
  <1> HIDE DEF r
  <1>7. RenewerRight(r)
    BY <1>4, <1>5, <1>6 DEF RenewerRight
  <1>8. Sustained(d, lock[m], self) => Sustained(d, lock[m], r)
    <2> SUFFICES ASSUME Sustained(d, lock[m], self) PROVE Sustained(d, lock[m], r)
      OBVIOUS
    <2>1. CASE Excused(self)
      BY <1>3, <1>4, <1>6, <2>1 DEF Excused, Sustained
    <2>2. CASE ~Excused(self)
      <3>1. /\ lock[m].state = "locked" /\ lock[m].delivery = d
            /\ lock[m].left >= self.wait + Margin(self.missed)
        BY <1>2, <2>2 DEF Sustained
      <3>2. Margin(self.missed) \in Int
        BY <1>3 DEF Margin
      <3>3. lock[m].left >= Margin(self.missed)
        BY <1>2, <3>1, <3>2, LetterState
      <3>4. QED
        BY <1>5, <1>6, <3>1, <3>3 DEF Sustained, Excused
    <2>3. QED
      BY <2>1, <2>2
  <1>9. QED
    BY <1>2, <1>6, <1>7, <1>8, RenewerMoves

LEMMA RenewFailsKeeps ==
    ASSUME LockInv, NEW m \in Letter, NEW d \in Delivery, RenewFails(m, d)
    PROVE  LockInv'
  <1> DEFINE self == renewer[m][d]
             state == IF self.stopped THEN "ended" ELSE "waiting"
             missed == IF self.missed = 2 THEN 2 ELSE self.missed + 1
             r == [self EXCEPT !.state = state, !.wait = RenewInterval, !.missed = missed]
  <1>1. self \in RenewerRecord /\ RenewerRight(self) /\ self.state = "renewing"
    BY LetterState DEF RenewFails
  <1>2. [WaitAgain(self) EXCEPT !.missed = IF @ = 2 THEN 2 ELSE @ + 1] = r
    BY <1>1 DEF WaitAgain, RenewerRecord
  <1>3. SetRenewer(m, d, r) /\ UNCHANGED <<lock, over, consumer>>
    BY <1>2 DEF RenewFails
  <1>4. RenewInterval \in Nat /\ LockDuration \in Nat /\ self.missed \in 0 .. 2
        /\ missed \in 0 .. 2 /\ state \in {"ended", "waiting"}
    BY <1>1, LockAssumption DEF RenewerRecord
  <1>5. /\ self.stopped => state = "ended"
        /\ ~self.stopped => state = "waiting"
        /\ self.missed = 0 => missed = 1
        /\ self.missed >= 1 => missed = 2
    BY <1>4
  <1> HIDE DEF missed, state
  <1>6. /\ r \in RenewerRecord /\ r.state = state /\ r.wait = RenewInterval
        /\ r.missed = missed /\ r.elapsed = self.elapsed /\ r.host = self.host
        /\ r.slow = self.slow /\ r.stopped = self.stopped
    <2>1. PICK wait \in 0 .. RenewInterval : wait = RenewInterval
      BY <1>4
    <2>2. r = [self EXCEPT !.state = state, !.wait = wait, !.missed = missed]
      BY <2>1
    <2> HIDE DEF r
    <2>3. /\ r \in RenewerRecord /\ r.state = state /\ r.wait = wait
          /\ r.missed = missed /\ r.elapsed = self.elapsed /\ r.host = self.host
          /\ r.slow = self.slow /\ r.stopped = self.stopped
      BY <1>1, <1>4, <2>2 DEF RenewerRecord
    <2>4. QED
      BY <2>1, <2>3
  <1> HIDE DEF r
  <1>7. RenewerRight(r)
    BY <1>1, <1>4, <1>6 DEF RenewerRight
  <1>8. ~r.stopped /\ Sustained(d, lock[m], self) => Sustained(d, lock[m], r)
    <2> SUFFICES ASSUME ~r.stopped, Sustained(d, lock[m], self) PROVE Sustained(d, lock[m], r)
      OBVIOUS
    <2>1. CASE Excused(self)
      BY <1>4, <1>5, <1>6, <2>1 DEF Excused, Sustained
    <2>2. CASE ~Excused(self) /\ self.missed = 0
      <3>1. /\ lock[m].state = "locked" /\ lock[m].delivery = d
            /\ lock[m].left >= LockDuration - RenewInterval
        BY <1>1, <2>2 DEF Sustained, Margin
      <3>2. lock[m].left >= RenewInterval + (LockDuration - 2 * RenewInterval)
        BY <1>4, <3>1, LetterState
      <3>3. r.state = "waiting" /\ r.missed = 1 /\ r.wait = RenewInterval
        BY <1>5, <1>6, <2>2
      <3>4. QED
        BY <3>1, <3>2, <3>3 DEF Sustained, Margin
    <2>3. CASE ~Excused(self) /\ self.missed # 0
      BY <1>4, <1>5, <1>6, <2>3 DEF Sustained, Excused
    <2>4. QED
      BY <2>1, <2>2, <2>3
  <1>9. QED
    BY <1>3, <1>6, <1>7, <1>8, RenewerMoves

LEMMA RenewSucceedsKeeps ==
    ASSUME LockInv, NEW m \in Letter, NEW d \in Delivery, RenewSucceeds(m, d)
    PROVE  LockInv'
  <1> DEFINE self == renewer[m][d]
             state == IF self.stopped THEN "ended" ELSE "waiting"
             l == [lock[m] EXCEPT !.left = LockDuration]
             r == [WaitAgain(self) EXCEPT !.missed = 0, !.slow = FALSE]
  <1>1. /\ self \in RenewerRecord /\ RenewerRight(self) /\ self.state = "renewing"
        /\ lock[m] \in LockRecord /\ lock[m].state = "locked" /\ lock[m].delivery = d
    BY LetterState DEF RenewSucceeds, Holds
  <1>2. /\ lock' = [lock EXCEPT ![m].left = LockDuration] /\ UNCHANGED <<over, consumer>>
        /\ renewer' = [renewer EXCEPT ![m][d] = r]
    BY DEF RenewSucceeds, SetRenewer
  <1>3. /\ RenewInterval \in Nat /\ LockDuration \in Nat /\ LockDuration > 0
        /\ state \in {"ended", "waiting"} /\ (~self.stopped => state = "waiting")
    BY LockAssumption
  <1>4. l \in LockRecord /\ l.state = "locked" /\ l.delivery = d /\ l.left = LockDuration
    <2>1. PICK left \in 0 .. LockDuration : left = LockDuration
      BY <1>3
    <2>2. l = [lock[m] EXCEPT !.left = left]
      BY <2>1
    <2> HIDE DEF l
    <2>3. l \in LockRecord /\ l.state = "locked" /\ l.delivery = d /\ l.left = left
      BY <1>1, <2>2 DEF LockRecord
    <2>4. QED
      BY <2>1, <2>3
  <1>5. /\ r \in RenewerRecord /\ r.state = state /\ r.wait = RenewInterval
        /\ r.missed = 0 /\ r.elapsed = self.elapsed /\ r.host = self.host
        /\ r.slow = FALSE /\ r.stopped = self.stopped
    <2>1. PICK wait \in 0 .. RenewInterval, missed \in 0 .. 2 :
              wait = RenewInterval /\ missed = 0
      BY <1>3
    <2>2. r = [self EXCEPT !.state = state, !.wait = wait, !.missed = missed, !.slow = FALSE]
      BY <1>1, <2>1 DEF WaitAgain, RenewerRecord
    <2> HIDE DEF r, state
    <2>3. /\ r \in RenewerRecord /\ r.state = state /\ r.wait = wait
          /\ r.missed = missed /\ r.elapsed = self.elapsed /\ r.host = self.host
          /\ r.slow = FALSE /\ r.stopped = self.stopped
      BY <1>1, <1>3, <2>2 DEF RenewerRecord
    <2>4. QED
      BY <2>1, <2>3
  <1>6. lock' = [lock EXCEPT ![m] = l]
    BY <1>2 DEF LockInv, LocksTyped
  <1> HIDE DEF l, r, state
  <1>7. LockRight(l) /\ RenewerRight(r)
    BY <1>1, <1>3, <1>4, <1>5 DEF LockRight, RenewerRight
  <1>8. ASSUME NEW b \in Consumer, consumer[b].pc # "idle", consumer[b].letter = m,
               consumer[b].delivery = d
        PROVE  Serving(b, consumer[b], l, r)
    <2>1. Serving(b, consumer[b], lock[m], self) /\ consumer[b].delivery \in Delivery
      BY <1>8, ServingState
    <2>2. r.state = "waiting" => Sustained(d, l, r)
      BY <1>3, <1>4, <1>5 DEF Sustained, Margin
    <2>3. QED
      BY <1>1, <1>3, <1>4, <1>5, <1>8, <2>1, <2>2 DEF Serving
  <1>9. StepAbout(m, d, l, r)
    <2>1. lock[m].delivery <= l.delivery
      BY <1>1, <1>4, LetterState
    <2>2. over' \subseteq Letter /\ consumer' \in [Consumer -> ConsumerRecord]
      BY <1>2, LetterState
    <2>3. QED
      BY <1>1, <1>2, <1>6, <1>7, <1>8, <2>1, <2>2 DEF StepAbout
  <1>10. QED
    BY <1>9, DeliveryStep

\* The worker forgets the delivery and leaves its lock and its renewer as they are.
LEMMA FinishCancelledKeeps ==
    ASSUME LockInv, NEW c \in Consumer, FinishCancelled(c)
    PROVE  LockInv'
  <1>1. /\ over' = over \cup {consumer[c].letter} /\ UNCHANGED <<lock, renewer>>
        /\ consumer' = [consumer EXCEPT ![c] = Idle] /\ consumer[c].pc # "idle"
    BY DEF FinishCancelled
  <1>2. Idle \in ConsumerRecord /\ Idle.pc = "idle"
    BY LockAssumption DEF Idle, ConsumerRecord
  <1>3. consumer[c].letter \in Letter
    BY <1>1, ServingState
  <1>4. LocksTyped' /\ RenewersTyped'
    BY <1>1, <1>3 DEF LockInv, LocksTyped, RenewersTyped
  <1>5. consumer' \in [Consumer -> ConsumerRecord]
    BY <1>1, <1>2 DEF LockInv
  <1>6. \A b \in Consumer : Served(b, consumer'[b], lock, renewer)
    BY <1>1, <1>2 DEF LockInv, ConsumerRight, Served
  <1>7. QED
    BY <1>1, <1>4, <1>5, <1>6 DEF LockInv, ConsumerRight

LEMMA FinishSettledKeeps ==
    ASSUME LockInv, NEW c \in Consumer, FinishSettled(c)
    PROVE  LockInv'
  <1>1. PICK m, d : m = consumer[c].letter /\ d = consumer[c].delivery
    OBVIOUS
  <1> DEFINE self == renewer[m][d]
             state == IF self.state = "waiting" THEN "ended" ELSE self.state
             r == [self EXCEPT !.stopped = TRUE, !.state = state]
             k == [consumer[c] EXCEPT !.pc = "settling"]
  <1>2. /\ consumer[c].pc = "executing" /\ over' = over \cup {m} /\ lock' = lock
        /\ consumer' = [consumer EXCEPT ![c].pc = "settling"]
        /\ renewer' = [renewer EXCEPT ![m][d] = StopRenewer(self)]
    BY <1>1 DEF FinishSettled, SetRenewer
  <1>3. /\ m \in Letter /\ d \in Delivery /\ consumer[c] \in ConsumerRecord
        /\ Serving(c, consumer[c], lock[m], self)
    BY <1>1, <1>2, ServingState
  <1>4. self \in RenewerRecord /\ RenewerRight(self) /\ LockRight(lock[m])
    BY <1>3, LetterState
  <1>5. state \in {"renewing", "ended"} /\ (state = "renewing" => self.state = "renewing")
    BY <1>4 DEF RenewerRecord
  <1>6. StopRenewer(self) = r
    BY <1>4 DEF StopRenewer, RenewerRecord
  <1> HIDE DEF state
  <1>7. /\ r \in RenewerRecord /\ r.state = state /\ r.elapsed = self.elapsed
        /\ r.host = self.host
    BY <1>4, <1>5 DEF RenewerRecord
  <1>8. /\ k \in ConsumerRecord /\ k.pc = "settling" /\ k.letter = m /\ k.delivery = d
    BY <1>1, <1>3 DEF ConsumerRecord
  <1>9. consumer' = [consumer EXCEPT ![c] = k]
    BY <1>2 DEF LockInv
  <1>10. renewer' = [renewer EXCEPT ![m][d] = r]
    BY <1>2, <1>6
  <1> HIDE DEF r, k
  <1>11. RenewerRight(r)
    BY <1>4, <1>5, <1>7 DEF RenewerRight
  <1>12. /\ consumer'[c] = k /\ consumer' \in [Consumer -> ConsumerRecord]
         /\ \A b \in Consumer : b # c => consumer'[b] = consumer[b]
    BY <1>8, <1>9 DEF LockInv
  <1>13. Served(c, k, lock', renewer')
    <2>1. lock'[m] = lock[m] /\ renewer'[m][d] = r
      BY <1>2, <1>3, <1>10 DEF LockInv, RenewersTyped
    <2>2. Serving(c, k, lock[m], r)
      BY <1>1, <1>3, <1>7, <1>8 DEF Serving
    <2>3. QED
      BY <1>3, <1>8, <2>1, <2>2 DEF Served
  <1>14. \A b \in Consumer : b # c => ~(/\ consumer[b].pc # "idle" /\ consumer[b].letter = m
                                        /\ consumer[b].delivery = d)
    BY <1>3, ServingState DEF Serving
  <1>15. StepAbout(m, d, lock[m], r)
    <2>1. /\ lock' = [lock EXCEPT ![m] = lock[m]] /\ over' \subseteq Letter
          /\ lock[m].delivery <= lock[m].delivery
      BY <1>2, <1>3, LetterState
    <2>2. k # consumer[c]
      BY <1>2, <1>8
    <2>3. QED
      BY <1>4, <1>10, <1>11, <1>12, <1>13, <1>14, <2>1, <2>2 DEF StepAbout
  <1>16. QED
    BY <1>3, <1>15, DeliveryStep

\* A process takes its own renewers with it, and no other's.
LEMMA DiesKeeps ==
    ASSUME LockInv, NEW c \in Consumer, Dies(c), UNCHANGED <<lock, over>>
    PROVE  LockInv'
  <1>1. /\ consumer' = [consumer EXCEPT ![c] = Idle]
        /\ renewer' = [m \in Letter |-> [d \in Delivery |->
                          IF renewer[m][d].host = c THEN NoRenewer ELSE renewer[m][d]]]
    BY DEF Dies
  <1>2. Idle \in ConsumerRecord /\ Idle.pc = "idle"
    BY LockAssumption DEF Idle, ConsumerRecord
  <1>3. RenewerRight(NoRenewer) /\ NoRenewer \in RenewerRecord
    BY LockAssumption DEF RenewerRight, RenewerRecord, NoRenewer
  <1>4. RenewersTyped'
    <2>1. \A m \in Letter, d \in Delivery :
              renewer[m][d] \in RenewerRecord /\ RenewerRight(renewer[m][d])
      BY LetterState
    <2>2. \A m \in Letter, d \in Delivery :
              renewer'[m][d] = IF renewer[m][d].host = c THEN NoRenewer ELSE renewer[m][d]
      BY <1>1
    <2>3. \A m \in Letter, d \in Delivery :
              renewer'[m][d] \in RenewerRecord /\ RenewerRight(renewer'[m][d])
      BY <1>3, <2>1, <2>2
    <2>4. renewer' \in [Letter -> [Delivery -> RenewerRecord]]
      BY <1>1, <1>3, <2>1
    <2>5. QED
      BY <2>3, <2>4 DEF RenewersTyped
  <1>5. LocksTyped' /\ consumer' \in [Consumer -> ConsumerRecord]
    BY <1>1, <1>2 DEF LockInv, LocksTyped
  <1>6. ASSUME NEW b \in Consumer PROVE Served(b, consumer'[b], lock, renewer')
    <2>1. CASE b = c
      BY <1>1, <1>2, <2>1 DEF LockInv, Served
    <2>2. CASE b # c /\ consumer[b].pc # "idle"
      <3>1. /\ consumer[b].letter \in Letter /\ consumer[b].delivery \in Delivery
            /\ Serving(b, consumer[b], lock[consumer[b].letter],
                       renewer[consumer[b].letter][consumer[b].delivery])
        BY <2>2, ServingState
      <3>2. renewer'[consumer[b].letter][consumer[b].delivery] =
                renewer[consumer[b].letter][consumer[b].delivery]
        BY <1>1, <2>2, <3>1 DEF Serving
      <3>3. consumer'[b] = consumer[b]
        BY <1>1, <2>2 DEF LockInv
      <3>4. QED
        BY <3>1, <3>2, <3>3 DEF Served
    <2>3. CASE b # c /\ consumer[b].pc = "idle"
      BY <1>1, <2>3 DEF LockInv, Served
    <2>4. QED
      BY <2>1, <2>2, <2>3
  <1>7. QED
    BY <1>4, <1>5, <1>6 DEF LockInv, ConsumerRight

LEMMA SettleKeeps ==
    ASSUME LockInv, NEW c \in Consumer, SettleLetter(c)
    PROVE  LockInv'
  <1>1. PICK m, d : m = consumer[c].letter /\ d = consumer[c].delivery
    OBVIOUS
  <1>2. /\ consumer[c].pc = "settling" /\ over' = over
        /\ m \in Letter /\ d \in Delivery /\ Serving(c, consumer[c], lock[m], renewer[m][d])
    BY <1>1, ServingState DEF SettleLetter
  <1>3. CASE ~Holds(m, d)
    BY <1>1, <1>3, DiesKeeps DEF SettleLetter
  <1>4. CASE Holds(m, d)
    <2> DEFINE l == [lock[m] EXCEPT !.state = "completed", !.left = 0]
    <2>1. /\ lock' = [lock EXCEPT ![m].state = "completed", ![m].left = 0]
          /\ consumer' = [consumer EXCEPT ![c] = Idle] /\ renewer' = renewer
          /\ lock[m].delivery = d
      BY <1>1, <1>4 DEF SettleLetter, SettleAs, Holds
    <2>2. l \in LockRecord /\ l.state = "completed" /\ l.left = 0
          /\ l.delivery = lock[m].delivery
      <3>1. PICK left \in 0 .. LockDuration : left = 0
        BY LockAssumption
      <3>2. l = [lock[m] EXCEPT !.state = "completed", !.left = left]
        BY <3>1
      <3> HIDE DEF l
      <3>3. /\ l \in LockRecord /\ l.state = "completed" /\ l.left = left
            /\ l.delivery = lock[m].delivery
        BY <1>2, <3>2, LetterState DEF LockRecord
      <3>4. QED
        BY <3>1, <3>3
    <2>3. lock' = [lock EXCEPT ![m] = l]
      BY <2>1 DEF LockInv, LocksTyped
    <2> HIDE DEF l
    <2>4. LockRight(l) /\ RenewerRight(renewer[m][d])
      BY <1>2, <2>2, LetterState DEF LockRight
    <2>5. Idle \in ConsumerRecord /\ Idle.pc = "idle" /\ Idle # consumer[c]
      BY <1>2, LockAssumption DEF Idle, ConsumerRecord
    <2>6. /\ consumer'[c] = Idle /\ consumer' \in [Consumer -> ConsumerRecord]
          /\ \A b \in Consumer : b # c => consumer'[b] = consumer[b]
      BY <2>1, <2>5 DEF LockInv
    <2>7. Served(c, Idle, lock', renewer')
      BY <2>5 DEF Served
    <2>8. \A b \in Consumer : b # c => ~(/\ consumer[b].pc # "idle" /\ consumer[b].letter = m
                                         /\ consumer[b].delivery = d)
      BY <1>2, ServingState DEF Serving
    <2>9. StepAbout(m, d, l, renewer[m][d])
      <3>1. /\ renewer' = [renewer EXCEPT ![m][d] = renewer[m][d]] /\ over' \subseteq Letter
            /\ lock[m].delivery <= l.delivery
        BY <1>2, <2>1, <2>2, LetterState
      <3>2. QED
        BY <2>1, <2>3, <2>4, <2>5, <2>6, <2>7, <2>8, <3>1 DEF StepAbout
    <2>10. QED
      BY <1>2, <2>9, DeliveryStep
  <1>5. QED
    BY <1>3, <1>4

AfterTick(r) == CASE r.state = "waiting"  -> [r EXCEPT !.wait = @ - 1]
                  [] r.state = "renewing" -> [r EXCEPT !.slow = TRUE]
                  [] OTHER                -> r

LEMMA RenewerAfterTick ==
    ASSUME NEW r, RenewerRight(r), r.state = "waiting" => r.wait > 0
    PROVE  /\ RenewerRight(AfterTick(r))
           /\ AfterTick(r).host = r.host /\ AfterTick(r).stopped = r.stopped
           /\ AfterTick(r).missed = r.missed /\ AfterTick(r).elapsed = r.elapsed
           /\ r.slow => AfterTick(r).slow
           /\ r.state = "renewing" => AfterTick(r).slow
           /\ r.state = "waiting" => /\ AfterTick(r).state = "waiting"
                                     /\ AfterTick(r).wait = r.wait - 1
  <1>1. /\ r \in RenewerRecord /\ r.wait \in Nat /\ r.wait <= RenewInterval
        /\ RenewInterval \in Nat
    BY LockAssumption DEF RenewerRight, RenewerRecord
  <1>2. CASE r.state = "waiting"
    <2>1. r.wait - 1 \in 0 .. RenewInterval
      BY <1>1, <1>2
    <2>2. PICK wait \in 0 .. RenewInterval : wait = r.wait - 1
      BY <2>1
    <2>3. AfterTick(r) = [r EXCEPT !.wait = wait]
      BY <1>2, <2>2 DEF AfterTick
    <2>4. PICK next : next = AfterTick(r)
      OBVIOUS
    <2>5. /\ next \in RenewerRecord /\ next.wait = wait /\ next.state = r.state
          /\ next.host = r.host /\ next.stopped = r.stopped /\ next.missed = r.missed
          /\ next.elapsed = r.elapsed /\ next.slow = r.slow
      BY <1>1, <2>3, <2>4 DEF RenewerRecord
    <2>6. RenewerRight(next)
      BY <2>5 DEF RenewerRight
    <2>7. QED
      BY <1>2, <2>2, <2>4, <2>5, <2>6
  <1>3. CASE r.state = "renewing"
    <2>1. AfterTick(r) = [r EXCEPT !.slow = TRUE]
      BY <1>3 DEF AfterTick
    <2>2. PICK next : next = AfterTick(r)
      OBVIOUS
    <2>3. /\ next \in RenewerRecord /\ next.slow = TRUE /\ next.state = r.state
          /\ next.host = r.host /\ next.stopped = r.stopped /\ next.missed = r.missed
          /\ next.elapsed = r.elapsed
      BY <1>1, <2>1, <2>2 DEF RenewerRecord
    <2>4. RenewerRight(next)
      BY <2>3 DEF RenewerRight
    <2>5. QED
      BY <1>3, <2>2, <2>3, <2>4
  <1>4. CASE r.state \notin {"waiting", "renewing"}
    <2>1. AfterTick(r) = r
      BY <1>4 DEF AfterTick
    <2>2. QED
      BY <1>4, <2>1
  <1>5. QED
    BY <1>2, <1>3, <1>4

LEMMA LockAfterTick ==
    ASSUME NEW l, LockRight(l)
    PROVE  /\ LockRight(Ticked(l)) /\ Ticked(l).delivery = l.delivery
           /\ l.left > 1 => /\ Ticked(l).left = l.left - 1
                            /\ Ticked(l).state = l.state
  <1> DEFINE left  == IF l.left > 0 THEN l.left - 1 ELSE 0
             state == IF l.state = "locked" /\ l.left = 1 THEN "available" ELSE l.state
  <1>1. l \in LockRecord /\ l.left \in Nat /\ l.left <= LockDuration /\ LockDuration \in Nat
    BY LockAssumption DEF LockRight, LockRecord
  <1>2. /\ left \in 0 .. LockDuration /\ (l.left > 1 => left = l.left - 1)
        /\ (left > 0 <=> l.left > 1)
    BY <1>1
  <1>3. /\ state \in {"available", "locked", "completed", "deadletter"}
        /\ (l.left > 1 => state = l.state)
        /\ (state = "locked" <=> l.left > 1)
    <2>1. l.state = "locked" <=> l.left > 0
      BY DEF LockRight
    <2>2. QED
      BY <1>1, <2>1 DEF LockRecord
  <1> HIDE DEF left, state
  <1>4. Ticked(l) = [l EXCEPT !.left = left, !.state = state]
    BY <1>1 DEF Ticked, LockRecord, left, state
  <1>5. PICK next : next = Ticked(l)
    OBVIOUS
  <1>6. next \in LockRecord /\ next.left = left /\ next.state = state
        /\ next.delivery = l.delivery
    BY <1>1, <1>2, <1>3, <1>4, <1>5 DEF LockRecord
  <1>7. LockRight(next)
    BY <1>2, <1>3, <1>6 DEF LockRight
  <1>8. QED
    BY <1>2, <1>3, <1>5, <1>6, <1>7

LEMMA TickKeeps == LockInv /\ TickLocks => LockInv'
  <1> SUFFICES ASSUME LockInv, TickLocks PROVE LockInv'
    OBVIOUS
  <1>1. /\ lock' = [m \in Letter |-> Ticked(lock[m])]
        /\ renewer' = [m \in Letter |-> [d \in Delivery |-> AfterTick(renewer[m][d])]]
        /\ UNCHANGED <<over, consumer>>
    BY DEF TickLocks, AfterTick
  <1>2. \A m \in Letter : LockRight(lock[m]) /\ lock'[m] = Ticked(lock[m])
    BY <1>1, LetterState
  <1>3. \A m \in Letter, d \in Delivery :
            /\ RenewerRight(renewer[m][d]) /\ renewer'[m][d] = AfterTick(renewer[m][d])
            /\ renewer[m][d].state = "waiting" => renewer[m][d].wait > 0
    <2>1. \A m \in Letter, d \in Delivery :
              renewer[m][d].state = "waiting" => renewer[m][d].wait > 0
      BY DEF TickLocks
    <2>2. \A m \in Letter, d \in Delivery : RenewerRight(renewer[m][d])
      BY LetterState
    <2>3. \A m \in Letter, d \in Delivery : renewer'[m][d] = AfterTick(renewer[m][d])
      BY <1>1
    <2>4. QED
      BY <2>1, <2>2, <2>3
  <1>4. LocksTyped'
    <2>1. \A m \in Letter : LockRight(lock'[m])
      BY <1>2, LockAfterTick
    <2>2. lock' \in [Letter -> LockRecord]
      BY <1>1, <1>2, <2>1 DEF LockRight
    <2>3. QED
      BY <1>1, <2>1, <2>2 DEF LockInv, LocksTyped
  <1>5. RenewersTyped'
    <2>1. \A m \in Letter, d \in Delivery : RenewerRight(AfterTick(renewer[m][d]))
      BY <1>3, RenewerAfterTick
    <2>2. renewer' \in [Letter -> [Delivery -> RenewerRecord]]
      BY <1>1, <2>1 DEF RenewerRight
    <2>3. \A m \in Letter, d \in Delivery : RenewerRight(renewer'[m][d])
      BY <1>3, <2>1
    <2>4. QED
      BY <2>2, <2>3 DEF RenewersTyped
  <1>6. ASSUME NEW b \in Consumer PROVE Served(b, consumer[b], lock', renewer')
    <2> SUFFICES ASSUME consumer[b].pc # "idle"
                 PROVE  Served(b, consumer[b], lock', renewer')
      BY DEF Served
    <2>1. PICK k, m, d : k = consumer[b] /\ m = k.letter /\ d = k.delivery
      OBVIOUS
    <2>2. m \in Letter /\ d \in Delivery /\ Serving(b, k, lock[m], renewer[m][d])
      BY <2>1, ServingState
    <2>3. PICK l, r : l = lock[m] /\ r = renewer[m][d]
      OBVIOUS
    <2>4. PICK l2, r2 : l2 = lock'[m] /\ r2 = renewer'[m][d]
      OBVIOUS
    <2>5. /\ l \in LockRecord /\ l.left \in Nat /\ l2.delivery = l.delivery
          /\ l.left > 1 => l2.left = l.left - 1 /\ l2.state = l.state
      BY <1>2, <2>2, <2>3, <2>4, LetterState, LockAfterTick, LockAssumption DEF LockRecord
    <2>6. /\ r2.host = r.host /\ r2.stopped = r.stopped /\ r2.missed = r.missed
          /\ r2.elapsed = r.elapsed /\ (r.slow => r2.slow)
          /\ r.state = "renewing" => r2.slow
          /\ r.state = "waiting" => r2.state = "waiting" /\ r2.wait = r.wait - 1
      BY <1>3, <2>2, <2>3, <2>4, RenewerAfterTick
    <2>7. /\ r.state = "waiting" => r.wait > 0
          /\ r.wait \in Nat /\ r.missed \in 0 .. 2
      BY <1>3, <2>2, <2>3, LockAssumption DEF RenewerRight, RenewerRecord
    <2>8. LockOutlastsFailure /\ Sustained(d, l, r) => Sustained(d, l2, r2)
      <3>1. CASE Excused(r) \/ r.state = "renewing"
        BY <2>6, <3>1 DEF Excused, Sustained
      <3>2. CASE ~Excused(r) /\ r.state # "renewing"
        <4> SUFFICES ASSUME LockOutlastsFailure, Sustained(d, l, r)
                     PROVE  Sustained(d, l2, r2)
          OBVIOUS
        <4>1. /\ l.state = "locked" /\ l.delivery = d /\ r.state = "waiting"
              /\ l.left >= r.wait + Margin(r.missed)
          BY <3>2 DEF Sustained
        <4>2. Margin(r.missed) \in Int /\ Margin(r.missed) > 0
          BY LockAssumption DEF Margin, LockOutlastsFailure
        <4>3. PICK margin \in Int : margin = Margin(r.missed)
          BY <4>2
        <4>4. l.left > 1 /\ l.left - 1 >= (r.wait - 1) + margin
          BY <2>5, <2>7, <4>1, <4>2, <4>3
        <4>5. l2.left >= r2.wait + margin
          BY <2>5, <2>6, <4>1, <4>4
        <4>6. QED
          BY <2>5, <2>6, <4>1, <4>3, <4>4, <4>5 DEF Sustained
      <3>3. QED
        BY <3>1, <3>2
    <2>9. Serving(b, k, l2, r2)
      BY <2>1, <2>2, <2>3, <2>5, <2>6, <2>8 DEF Serving
    <2>10. QED
      BY <2>1, <2>2, <2>4, <2>9 DEF Served
  <1>7. QED
    BY <1>1, <1>4, <1>5, <1>6 DEF LockInv, ConsumerRight

LEMMA LockStepKeeps == LockInv /\ [LockNext]_lockVars => LockInv'
  <1> SUFFICES ASSUME LockInv, [LockNext]_lockVars PROVE LockInv'
    OBVIOUS
  <1>1. CASE UNCHANGED lockVars
    BY <1>1 DEF lockVars, LockInv, LocksTyped, RenewersTyped, ConsumerRight
  <1>2. ASSUME NEW c \in Consumer, ConsumerStep(c) \/ ConsumerCrashes(c) PROVE LockInv'
    <2>1. CASE ConsumerCrashes(c)
      BY <2>1, DiesKeeps DEF ConsumerCrashes
    <2>2. CASE ConsumerStep(c)
      BY <2>2, ReceiveKeeps, RetireKeeps, FinishCancelledKeeps, FinishSettledKeeps, SettleKeeps
      DEF ConsumerStep, ClaimLetter, FinishLetter
    <2>3. QED
      BY <1>2, <2>1, <2>2
  <1>3. ASSUME NEW m \in Letter, NEW d \in Delivery, RenewerStep(m, d) PROVE LockInv'
    BY <1>3, WakeKeeps, RenewSucceedsKeeps, RenewFailsKeeps DEF RenewerStep
  <1>4. CASE LockNext
    BY <1>2, <1>3, <1>4, TickKeeps DEF LockNext
  <1>5. QED
    BY <1>1, <1>4

LEMMA LockInvHolds == LockSpec => []LockInv
  BY LockInitially, LockStepKeeps, PTL DEF LockSpec

\* A worker loses its lock in the middle of an execution only when its renewer reached the
\* maximum lifetime, two renewals in a row failed, or one took long: for any number of
\* messages, workers and deliveries, any lock duration and any interval that fits into it
\* twice, whatever other deliveries, crashes and renewers left behind do to the message.
THEOREM LockLossExplained ==
    ASSUME LockOutlastsFailure
    PROVE  LockSpec => []LockLossIsExplained
  <1>1. LockInv => LockLossIsExplained
    <2> SUFFICES ASSUME LockInv, NEW c \in Consumer, consumer[c].pc = "executing",
                        ~Holds(consumer[c].letter, consumer[c].delivery)
                 PROVE  Excused(renewer[consumer[c].letter][consumer[c].delivery])
      BY DEF LockLossIsExplained, Excused
    <2>1. QED
      BY ServingState DEF Serving, Sustained, Holds
  <1>2. QED
    BY <1>1, LockInvHolds, PTL

LEMMA LocksTypeCorrect == LockSpec => []LockTypeOK
  <1>1. LockInv => LockTypeOK
    <2> SUFFICES ASSUME LockInv PROVE LockTypeOK
      OBVIOUS
    <2>1. /\ lock \in [Letter -> LockRecord] /\ over \subseteq Letter
          /\ \A m \in Letter : lock[m].state = "locked" <=> lock[m].left > 0
      BY DEF LockInv, LocksTyped, LockRight
    <2>2. \A m \in Letter, d \in Delivery :
            /\ renewer[m][d].state \in {"waiting", "renewing", "ended"}
            /\ renewer[m][d].wait \in 0 .. RenewInterval
            /\ renewer[m][d].elapsed < RenewLifetime + RenewInterval
      BY DEF LockInv, RenewersTyped, RenewerRight, RenewerRecord
    <2>3. QED
      BY <2>1, <2>2 DEF LockTypeOK, LockRecord
  <1>2. QED
    BY <1>1, LockInvHolds, PTL

----------------------------------------------------------------------------
(* Sums.  SumFunction is a recursive function over the subsets of its       *)
(* domain.  That such a function exists, and what it computes, is shown by   *)
(* smallest counterexamples, in place of the induction theorems.             *)

Element(u) == CHOOSE x \in u : TRUE

\* g adds f up over every set of D, an element at a time.
Sums(g, f, D) == g = [u \in D |-> IF u = {} THEN 0 ELSE f[Element(u)] + g[u \ {Element(u)}]]

LEMMA ElementOfSet == \A u : u # {} => Element(u) \in u
  BY DEF Element

\* A property of the empty set that every larger subset inherits holds of all of them.
LEMMA SmallestBadSet ==
    ASSUME NEW S, IsFiniteSet(S), NEW good \in SUBSET (SUBSET S),
           {} \in good,
           \A u \in SUBSET S : u # {} /\ u \ {Element(u)} \in good => u \in good
    PROVE  S \in good
  <1> SUFFICES ASSUME S \notin good PROVE FALSE
    OBVIOUS
  <1> DEFINE bad == (SUBSET S) \ good
  <1>1. bad \subseteq FiniteSubsetsOf(S) /\ bad # {}
    BY FS_Subset DEF FiniteSubsetsOf
  <1>2. \E u \in bad : \A v \in bad : ~ (<<v, u>> \in StrictSubsetOrdering(S))
    <2>1. IsWellFoundedOn(StrictSubsetOrdering(S), FiniteSubsetsOf(S))
      BY FS_StrictSubsetOrderingWellFounded
    <2> HIDE DEF bad
    <2>2. QED
      BY <1>1, <2>1, WFMin
  <1>3. PICK u \in bad : \A v \in bad : ~ (<<v, u>> \in StrictSubsetOrdering(S))
    BY <1>2
  <1>4. u # {} /\ Element(u) \in u
    BY ElementOfSet
  <1>5. <<u \ {Element(u)}, u>> \in StrictSubsetOrdering(S)
    BY <1>4 DEF StrictSubsetOrdering
  <1>6. u \ {Element(u)} \in good
    BY <1>3, <1>5
  <1>7. QED
    BY <1>4, <1>6

\* The same for the natural numbers.
LEMMA SmallestBadNumber ==
    ASSUME NEW good \in SUBSET Nat, 0 \in good, \A n \in Nat : n \in good => n + 1 \in good
    PROVE  good = Nat
  <1> SUFFICES ASSUME good # Nat PROVE FALSE
    OBVIOUS
  <1> DEFINE bad == Nat \ good
  <1>1. bad \subseteq Nat /\ bad # {}
    OBVIOUS
  <1>2. \E n \in bad : \A m \in bad : ~ (<<m, n>> \in OpToRel(<, Nat))
    <2> HIDE DEF bad
    <2>1. QED
      BY Zenon, <1>1, NatLessThanWellFounded, WFMin
  <1>3. PICK n \in bad : \A m \in bad : ~ (<<m, n>> \in OpToRel(<, Nat))
    BY <1>2
  <1>4. n \in Nat /\ n # 0 /\ n - 1 \in Nat
    OBVIOUS
  <1>5. <<n - 1, n>> \in OpToRel(<, Nat)
    <2>1. n - 1 < n
      BY <1>4
    <2>2. QED
      BY Zenon, <1>4, <2>1 DEF OpToRel
  <1>6. n - 1 \in good
    BY Zenon, <1>3, <1>4, <1>5
  <1>7. (n - 1) + 1 \in good
    BY <1>4, <1>6
  <1>8. QED
    BY <1>4, <1>7

\* Such a function exists over the subsets of a finite set, layer by layer of their sizes.
LEMMA SumsExist ==
    ASSUME NEW S, IsFiniteSet(S), NEW f
    PROVE  \E g : Sums(g, f, SUBSET S)
  <1> DEFINE layer(n) == {u \in SUBSET S : Cardinality(u) <= n}
             good == {n \in Nat : \E g : Sums(g, f, layer(n))}
  <1>1. \A u \in SUBSET S : /\ IsFiniteSet(u) /\ Cardinality(u) \in Nat
                           /\ Cardinality(u) <= Cardinality(S)
    BY FS_Subset, FS_CardinalityType
  <1>2. \A u \in SUBSET S : u # {} => /\ Element(u) \in u
                                      /\ u \ {Element(u)} \in SUBSET S
                                      /\ Cardinality(u \ {Element(u)}) = Cardinality(u) - 1
    BY <1>1, ElementOfSet, FS_RemoveElement
  <1>3. 0 \in good
    <2> DEFINE g == [u \in layer(0) |-> 0]
    <2>1. \A u \in layer(0) : u = {}
      BY <1>1, FS_EmptySet
    <2>2. Sums(g, f, layer(0))
      BY <2>1 DEF Sums
    <2>3. QED
      BY <2>2
  <1>4. ASSUME NEW n \in Nat, n \in good PROVE n + 1 \in good
    <2>1. PICK g : Sums(g, f, layer(n))
      BY <1>4
    <2> DEFINE h == [u \in layer(n + 1) |->
                       IF u = {} THEN 0 ELSE f[Element(u)] + g[u \ {Element(u)}]]
    <2>2. \A u \in layer(n) : h[u] = g[u]
      <3>1. \A u \in layer(n) : u \in layer(n + 1)
        BY <1>1
      <3>2. \A u \in layer(n) : g[u] = IF u = {} THEN 0 ELSE f[Element(u)] + g[u \ {Element(u)}]
        BY <2>1 DEF Sums
      <3>3. QED
        BY <3>1, <3>2
    <2>3. \A u \in layer(n + 1) : u # {} => u \ {Element(u)} \in layer(n)
      BY <1>1, <1>2
    <2>4. Sums(h, f, layer(n + 1))
      <3>1. \A u \in layer(n + 1) :
               (IF u = {} THEN 0 ELSE f[Element(u)] + g[u \ {Element(u)}])
                 = (IF u = {} THEN 0 ELSE f[Element(u)] + h[u \ {Element(u)}])
        BY <2>2, <2>3
      <3> HIDE DEF layer
      <3>2. QED
        BY <3>1 DEF Sums
    <2>5. QED
      BY <2>4
  <1>5. good = Nat
    <2>1. good \in SUBSET Nat
      OBVIOUS
    <2> HIDE DEF good
    <2>2. QED
      BY <2>1, <1>3, <1>4, SmallestBadNumber
  <1>6. layer(Cardinality(S)) = SUBSET S /\ Cardinality(S) \in Nat
    BY <1>1, FS_CardinalityType
  <1>7. Cardinality(S) \in good
    BY <1>5, <1>6
  <1>8. QED
    BY <1>6, <1>7

\* SumFunction is the last of the sums over the subsets of the domain.
LEMMA SumIsLastSum ==
    ASSUME NEW S, IsFiniteSet(S), NEW f, DOMAIN f = S
    PROVE  \E g : Sums(g, f, SUBSET S) /\ SumFunction(f) = g[S]
  <1> DEFINE iter == CHOOSE g : Sums(g, f, SUBSET S)
  <1>1. Sums(iter, f, SUBSET S)
    BY SumsExist
  <1>2. SumFunctionOnSet(f, S) = iter[S]
    BY Zenon DEF SumFunctionOnSet, FoldFunctionOnSet, MapThenFoldSet, Sums, Element
  <1>3. QED
    BY <1>1, <1>2 DEF SumFunction

\* A sum of natural numbers is one, and grows with its summands.
LEMMA SumsGrow ==
    ASSUME NEW S, IsFiniteSet(S), NEW f \in [S -> Nat], NEW h \in [S -> Nat],
           \A x \in S : f[x] <= h[x]
    PROVE  SumFunction(f) \in Nat /\ SumFunction(h) \in Nat /\ SumFunction(f) <= SumFunction(h)
  <1>1. PICK F : Sums(F, f, SUBSET S) /\ SumFunction(f) = F[S]
    BY SumIsLastSum
  <1>2. PICK H : Sums(H, h, SUBSET S) /\ SumFunction(h) = H[S]
    BY SumIsLastSum
  <1> DEFINE good == {u \in SUBSET S : F[u] \in Nat /\ H[u] \in Nat /\ F[u] <= H[u]}
  <1>3. {} \in good
    BY <1>1, <1>2 DEF Sums
  <1>4. ASSUME NEW u \in SUBSET S, u # {}, u \ {Element(u)} \in good PROVE u \in good
    <2>1. Element(u) \in S
      BY <1>4, ElementOfSet
    <2>2. /\ F[u] = f[Element(u)] + F[u \ {Element(u)}]
          /\ H[u] = h[Element(u)] + H[u \ {Element(u)}]
      BY <1>1, <1>2, <1>4 DEF Sums
    <2>3. /\ f[Element(u)] \in Nat /\ h[Element(u)] \in Nat
          /\ f[Element(u)] <= h[Element(u)]
      BY <2>1
    <2>4. QED
      BY <1>4, <2>2, <2>3
  <1>5. S \in good
    <2>1. good \in SUBSET (SUBSET S)
      OBVIOUS
    <2> HIDE DEF good
    <2>2. QED
      BY <2>1, <1>3, <1>4, SmallestBadSet
  <1>6. QED
    BY <1>1, <1>2, <1>5

\* A common factor of the summands is one of the sum.
LEMMA SumsScale ==
    ASSUME NEW S, IsFiniteSet(S), NEW f \in [S -> Nat]
    PROVE  SumFunction([x \in S |-> f[x] * 100]) = SumFunction(f) * 100
  <1> DEFINE h == [x \in S |-> f[x] * 100]
  <1>1. PICK F : Sums(F, f, SUBSET S) /\ SumFunction(f) = F[S]
    BY SumIsLastSum
  <1>2. PICK H : Sums(H, h, SUBSET S) /\ SumFunction(h) = H[S]
    BY SumIsLastSum
  <1> DEFINE good == {u \in SUBSET S : F[u] \in Nat /\ H[u] = F[u] * 100}
  <1>3. {} \in good
    BY <1>1, <1>2 DEF Sums
  <1>4. ASSUME NEW u \in SUBSET S, u # {}, u \ {Element(u)} \in good PROVE u \in good
    <2>1. Element(u) \in S
      BY <1>4, ElementOfSet
    <2>2. /\ F[u] = f[Element(u)] + F[u \ {Element(u)}]
          /\ H[u] = h[Element(u)] + H[u \ {Element(u)}]
      BY <1>1, <1>2, <1>4 DEF Sums
    <2>3. f[Element(u)] \in Nat /\ h[Element(u)] = f[Element(u)] * 100
      BY <2>1
    <2>4. QED
      BY <1>4, <2>2, <2>3
  <1>5. S \in good
    <2>1. good \in SUBSET (SUBSET S)
      OBVIOUS
    <2> HIDE DEF good
    <2>2. QED
      BY <2>1, <1>3, <1>4, SmallestBadSet
  <1>6. QED
    BY <1>1, <1>2, <1>5

----------------------------------------------------------------------------
(* The timestamps of an attempt.  The stored manifest is always valid, its   *)
(* stages are reached in their order, and with clocks that agree its times   *)
(* lie in the past of every host: so no check of times ever refuses one.     *)

PhaseRecord ==
    [status : {"queued", "running", "succeeded", "skipped", "partial", "failed", "cancelled"},
     progress : {0, 10, 80, 100}, required : BOOLEAN, started : Stamp, finished : Stamp]

AttemptRecord ==
    [status : {"queued", "running", "succeeded", "partial", "failed", "cancelled"},
     created : Stamp, started : Stamp, completed : Stamp, phases : [Phase -> PhaseRecord]]

ExecutorRecord == [pc : {"rest", "phase", "work", "cancel", "fail"}, host : Station,
                   index : 1 .. Final + 1]

PhaseDone(p) == p.status \in {"succeeded", "skipped"}

\* The stages before one that has begun are done, and an optional one is never run.
Orderly(phases) ==
    /\ \A s \in Phase : phases[s].status = "queued" => phases[s].progress = 0
    /\ \A s \in Phase :
          phases[s].status = "running" => phases[s].required /\ phases[s].progress = 10
    /\ \A s \in Phase : PhaseDone(phases[s]) \/ phases[s].status \in {"queued", "running"}
    /\ \A s, t \in Phase : s < t /\ phases[t].status # "queued" => PhaseDone(phases[s])

\* What an execution in progress knows of the stages.
Reached(e, phases) ==
    /\ \A s \in Phase : s < e.index => PhaseDone(phases[s])
    /\ e.pc = "work" => e.index \in Phase /\ phases[e.index].status = "running"
    /\ e.pc = "cancel" => e.index \in Phase /\ ~PhaseDone(phases[e.index])
    /\ e.pc = "fail" /\ e.index \in Phase => ~PhaseDone(phases[e.index])

InPast(a, now) ==
    /\ a.created <= now /\ a.started <= now
    /\ \A s \in Phase : a.phases[s].started <= now
    /\ a.completed = NoTime => \A s \in Phase : a.phases[s].finished <= now

Timely ==
    /\ escapes = 0
    /\ executor.pc = "fail" \/ attempt.status = "failed" => faulted
    /\ \A h \in Station : InPast(attempt, Clock(h))

TimelineTyped ==
    /\ tick \in 1 .. LastTick /\ offset \in [Station -> 0 .. Skew]
    /\ attempt \in AttemptRecord /\ executor \in ExecutorRecord
    /\ claims \in 0 .. MaxClaims

AttemptRight(a, e) ==
    /\ ValidAttempt(a)
    /\ a.status \in {"queued", "running"} => Orderly(a.phases)
    /\ a.status = "queued" => \A s \in Phase : a.phases[s].status = "queued"
    /\ e.pc # "rest" => a.status = "running" /\ Reached(e, a.phases)

TimelineInv == TimelineTyped /\ AttemptRight(attempt, executor) /\ (ClocksAgree => Timely)

LEMMA PhaseFacts == Final \in Nat \ {0} /\ Phase = 1 .. Final
  BY TimelineAssumption DEF Phase, Final

LEMMA PhasesFinite == IsFiniteSet(Phase)
  <1>1. 1 \in Int /\ Final \in Int /\ Phase = 1 .. Final
    BY PhaseFacts
  <1>2. IsFiniteSet(1 .. Final)
    BY <1>1, FS_Interval
  <1>3. QED
    BY <1>1, <1>2

\* Every host's clock shows a time that can be recorded.
LEMMA ClockFacts ==
    ASSUME TimelineTyped, NEW h \in Station
    PROVE  Clock(h) \in Stamp /\ Clock(h) \in Nat /\ Clock(h) # NoTime
  <1>1. tick \in Nat \ {0} /\ tick <= LastTick /\ LastTick \in Nat
    BY TimelineAssumption DEF TimelineTyped
  <1>2. offset[h] \in Nat /\ offset[h] <= Skew /\ Skew \in Nat
    BY TimelineAssumption DEF TimelineTyped
  <1>3. QED
    BY <1>1, <1>2 DEF Clock, Stamp, NoTime

LEMMA StampsAreTimes == Stamp \subseteq Nat /\ NoTime \in Stamp
  BY TimelineAssumption DEF Stamp, NoTime

LEMMA SameClock ==
    ASSUME ClocksAgree, NEW g \in Station, NEW h \in Station
    PROVE  Clock(g) = Clock(h)
  BY DEF ClocksAgree, Clock

LEMMA ReachFacts ==
    ASSUME executor \in ExecutorRecord, NEW pc \in {"rest", "phase", "work", "cancel", "fail"},
           NEW i \in 1 .. Final + 1, Reach(pc, i)
    PROVE  /\ executor' \in ExecutorRecord
           /\ executor'.host = executor.host /\ executor'.pc = pc /\ executor'.index = i
  BY DEF Reach, ExecutorRecord

LEMMA AtFacts ==
    ASSUME executor \in ExecutorRecord, NEW pc \in {"rest", "phase", "work", "cancel", "fail"},
           At(pc)
    PROVE  /\ executor' \in ExecutorRecord
           /\ executor'.host = executor.host /\ executor'.pc = pc
           /\ executor'.index = executor.index
  BY DEF At, ExecutorRecord

\* A stage is set to done, or begins: the attempt stays right.
LEMMA PhaseStep ==
    ASSUME TimelineInv, executor.pc \in {"phase", "work"}, executor.index \in Phase,
           ~PhaseDone(attempt.phases[executor.index]), NEW p \in PhaseRecord, ValidPhase(p),
           ClocksAgree => \A h \in Station : p.started <= Clock(h) /\ p.finished <= Clock(h),
           SetPhase(executor.index, p),
           \/ PhaseDone(p) /\ Reach("phase", executor.index + 1)
           \/ p.status = "running" /\ p.required /\ p.progress = 10
              /\ Reach("work", executor.index),
           UNCHANGED <<tick, offset, claims, escapes, faulted>>
    PROVE  TimelineInv'
  <1> DEFINE s == executor.index
             phases == [attempt.phases EXCEPT ![s] = p]
  <1>1. /\ s \in 1 .. Final /\ Final \in Nat /\ Phase = 1 .. Final
        /\ attempt \in AttemptRecord /\ executor \in ExecutorRecord
    BY PhaseFacts DEF TimelineInv, TimelineTyped
  <1>2. attempt' = [attempt EXCEPT !.phases = phases] /\ phases \in [Phase -> PhaseRecord]
    BY <1>1 DEF SetPhase, AttemptRecord
  <1>3. /\ attempt' \in AttemptRecord /\ attempt'.phases = phases
        /\ attempt'.status = attempt.status /\ attempt'.created = attempt.created
        /\ attempt'.started = attempt.started /\ attempt'.completed = attempt.completed
    BY <1>1, <1>2 DEF AttemptRecord
  <1>4. /\ phases[s] = p
        /\ \A t \in Phase : t # s => phases[t] = attempt.phases[t]
    BY <1>1 DEF AttemptRecord
  <1>5. attempt.status = "running" /\ Reached(executor, attempt.phases)
        /\ Orderly(attempt.phases) /\ ValidAttempt(attempt)
    BY DEF TimelineInv, AttemptRight
  <1>6. /\ executor' \in ExecutorRecord /\ executor'.host = executor.host
        /\ \/ PhaseDone(p) /\ executor'.pc = "phase" /\ executor'.index = s + 1
           \/ p.status = "running" /\ p.required /\ p.progress = 10
              /\ executor'.pc = "work" /\ executor'.index = s
    <2>1. s \in 1 .. Final + 1 /\ s + 1 \in 1 .. Final + 1
      BY <1>1
    <2>2. CASE PhaseDone(p) /\ Reach("phase", executor.index + 1)
      BY <1>1, <2>1, <2>2, ReachFacts
    <2>3. CASE p.status = "running" /\ p.required /\ p.progress = 10
               /\ Reach("work", executor.index)
      BY <1>1, <2>1, <2>3, ReachFacts
    <2>4. QED
      BY <2>2, <2>3
  <1> HIDE DEF phases, s
  <1>7. ValidAttempt(attempt')
    <2>1. \A t \in Phase : ValidPhase(phases[t])
      BY <1>4, <1>5 DEF ValidAttempt
    <2>2. attempt.completed = NoTime
      BY <1>5 DEF ValidAttempt
    <2>3. QED
      BY <1>3, <1>5, <2>1, <2>2 DEF ValidAttempt
  <1>8. Orderly(phases)
    <2>1. \A t \in Phase : t < s => PhaseDone(attempt.phases[t])
      BY <1>5 DEF Reached, s
    <2>2. PhaseDone(p) \/ (p.status = "running" /\ p.required /\ p.progress = 10)
      BY <1>6
    <2>3. \A t \in Phase :
             /\ phases[t].status = "queued" => phases[t].progress = 0
             /\ phases[t].status = "running" => phases[t].required /\ phases[t].progress = 10
      BY <1>4, <1>5, <2>2 DEF Orderly, PhaseDone
    <2>4. \A t \in Phase : PhaseDone(phases[t]) \/ phases[t].status \in {"queued", "running"}
      BY <1>4, <1>5, <2>2 DEF Orderly
    <2>5. ASSUME NEW u \in Phase, NEW t \in Phase, u < t, phases[t].status # "queued"
          PROVE  PhaseDone(phases[u])
      <3>1. CASE t = s
        BY <3>1, <2>1, <2>5, <1>4, <1>1
      <3>2. CASE t # s /\ u # s
        BY <3>2, <2>5, <1>4, <1>5 DEF Orderly
      <3>3. CASE t # s /\ u = s
        BY <3>3, <2>5, <1>4, <1>5 DEF Orderly, s
      <3>4. QED
        BY <3>1, <3>2, <3>3
    <2>6. QED
      BY <2>3, <2>4, <2>5 DEF Orderly
  <1>9. Reached(executor', phases)
    BY <1>1, <1>4, <1>5, <1>6 DEF Reached, s
  <1>10. ASSUME ClocksAgree' PROVE Timely'
    <2>1. ClocksAgree /\ \A h \in Station : Clock(h)' = Clock(h)
      BY <1>10 DEF ClocksAgree, Clock
    <2>2. Timely /\ \A h \in Station : p.started <= Clock(h) /\ p.finished <= Clock(h)
      BY <2>1 DEF TimelineInv
    <2>3. ASSUME NEW h \in Station PROVE InPast(attempt', Clock(h)')
      <3>1. InPast(attempt, Clock(h))
        BY <2>2 DEF Timely
      <3>2. QED
        BY <3>1, <2>1, <2>2, <1>3, <1>4 DEF InPast
    <2>4. QED
      BY <2>2, <2>3, <1>3, <1>5, <1>6 DEF Timely
  <1>11. QED
    BY <1>1, <1>3, <1>5, <1>6, <1>7, <1>8, <1>9, <1>10
    DEF TimelineInv, TimelineTyped, AttemptRight

\* The executor moves, crashes or rests: the attempt is as it was.
LEMMA ExecutorMoves ==
    ASSUME TimelineInv, executor' \in ExecutorRecord,
           \/ executor'.pc = "rest"
           \/ attempt.status = "running" /\ Reached(executor', attempt.phases),
           ClocksAgree /\ executor'.pc = "fail" => faulted',
           faulted => faulted',
           claims' \in 0 .. MaxClaims,
           UNCHANGED <<tick, offset, attempt, escapes>>
    PROVE  TimelineInv'
  <1>1. TimelineTyped' /\ AttemptRight(attempt', executor')
    BY DEF TimelineInv, TimelineTyped, AttemptRight
  <1>2. ASSUME ClocksAgree' PROVE Timely'
    <2>1. ClocksAgree /\ \A h \in Station : Clock(h)' = Clock(h)
      BY <1>2 DEF ClocksAgree, Clock
    <2>2. QED
      BY <2>1 DEF TimelineInv, Timely
  <1>3. QED
    BY <1>1, <1>2 DEF TimelineInv

LEMMA RestFacts ==
    ASSUME NEW h \in Station
    PROVE  AtRest(h) \in ExecutorRecord /\ AtRest(h).pc = "rest"
  BY PhaseFacts DEF AtRest, ExecutorRecord

\* A refusal that nobody handles, which clocks that agree exclude.
LEMMA EscapeKeeps ==
    ASSUME TimelineInv, ~ClocksAgree, NEW h \in Station, Escape(h),
           claims' \in 0 .. MaxClaims, UNCHANGED <<tick, offset, faulted>>
    PROVE  TimelineInv'
  <1>1. ~ClocksAgree'
    BY DEF ClocksAgree
  <1>2. TimelineTyped' /\ AttemptRight(attempt', executor')
    BY RestFacts DEF Escape, TimelineInv, TimelineTyped, AttemptRight
  <1>3. QED
    BY <1>1, <1>2 DEF TimelineInv

\* A record is stored at the end of the attempt.
LEMMA RecordStored ==
    ASSUME TimelineInv, NEW h \in Station, NEW record \in AttemptRecord,
           record.status \in {"partial", "succeeded", "failed", "cancelled"},
           record.created = attempt.created, record.started = attempt.started,
           \A s \in Phase : record.phases[s].started = attempt.phases[s].started,
           ClocksAgree /\ record.status = "failed" => faulted,
           ValidAttempt(record), attempt' = record, executor' = AtRest(h),
           UNCHANGED <<tick, offset, claims, escapes, faulted>>
    PROVE  TimelineInv'
  <1>1. TimelineTyped' /\ AttemptRight(attempt', executor')
    BY RestFacts DEF TimelineInv, TimelineTyped, AttemptRight
  <1>2. ASSUME ClocksAgree' PROVE Timely'
    <2>1. ClocksAgree /\ Timely /\ \A g \in Station : Clock(g)' = Clock(g)
      BY <1>2 DEF ClocksAgree, Clock, TimelineInv
    <2>2. ASSUME NEW g \in Station PROVE InPast(attempt', Clock(g)')
      <3>1. InPast(attempt, Clock(g))
        BY <2>1 DEF Timely
      <3>2. record.completed # NoTime
        BY DEF ValidAttempt
      <3>3. QED
        BY <3>1, <3>2, <2>1 DEF InPast
    <2>3. executor'.pc = "rest"
      BY RestFacts
    <2>4. QED
      BY <2>1, <2>2, <2>3 DEF Timely
  <1>3. QED
    BY <1>1, <1>2 DEF TimelineInv

\* The same through EndAs, whose other branch lets the refusal escape.
LEMMA EndAsKeeps ==
    ASSUME TimelineInv, NEW h \in Station, NEW record \in AttemptRecord,
           record.status \in {"failed", "cancelled"},
           record.created = attempt.created, record.started = attempt.started,
           \A s \in Phase : record.phases[s].started = attempt.phases[s].started,
           ClocksAgree => ValidAttempt(record) /\ (record.status = "failed" => faulted),
           EndAs(h, record), UNCHANGED <<tick, offset, claims, faulted>>
    PROVE  TimelineInv'
  <1>1. CASE ValidAttempt(record)
    BY <1>1, RecordStored DEF EndAs
  <1>2. CASE ~ValidAttempt(record)
    <2>1. claims' \in 0 .. MaxClaims
      BY DEF TimelineInv, TimelineTyped
    <2>2. QED
      BY <1>2, <2>1, EscapeKeeps DEF EndAs
  <1>3. QED
    BY <1>1, <1>2

LEMMA RunningFacts ==
    ASSUME TimelineInv, executor.pc # "rest"
    PROVE  /\ attempt.status = "running" /\ attempt.completed = NoTime
           /\ attempt.started # NoTime
           /\ Reached(executor, attempt.phases) /\ Orderly(attempt.phases)
           /\ ValidAttempt(attempt) /\ \A s \in Phase : ValidPhase(attempt.phases[s])
           /\ attempt \in AttemptRecord /\ executor \in ExecutorRecord
           /\ executor.host \in Station /\ executor.index \in 1 .. Final + 1
           /\ \A s \in Phase : attempt.phases[s] \in PhaseRecord
  <1>1. attempt \in AttemptRecord /\ executor \in ExecutorRecord
    BY DEF TimelineInv, TimelineTyped
  <1>2. /\ executor.host \in Station /\ executor.index \in 1 .. Final + 1
        /\ \A s \in Phase : attempt.phases[s] \in PhaseRecord
    BY <1>1 DEF AttemptRecord, ExecutorRecord
  <1>3. QED
    BY <1>1, <1>2 DEF TimelineInv, AttemptRight, ValidAttempt

\* With clocks that agree, this host's clock has passed every start on record.
LEMMA NowIsLate ==
    ASSUME TimelineInv, ClocksAgree, NEW h \in Station
    PROVE  /\ attempt.created <= Clock(h) /\ attempt.started <= Clock(h)
           /\ \A s \in Phase : attempt.phases[s].started <= Clock(h)
           /\ attempt.completed = NoTime =>
                 \A s \in Phase : attempt.phases[s].finished <= Clock(h)
           /\ escapes = 0 /\ (executor.pc = "fail" => faulted)
  BY DEF TimelineInv, Timely, InPast

LEMMA BeginAttemptKeeps ==
    ASSUME TimelineInv, NEW h \in Station, Begin(h)
    PROVE  TimelineInv'
  <1> DEFINE record == IF attempt.status = "running" THEN attempt
                       ELSE [attempt EXCEPT !.status = "running", !.started = Clock(h)]
  <1>1. /\ attempt \in AttemptRecord /\ ValidAttempt(attempt) /\ Clock(h) \in Stamp
        /\ Clock(h) \in Nat /\ Clock(h) # NoTime
    BY ClockFacts DEF TimelineInv, TimelineTyped, AttemptRight
  <1>2. attempt.status \in {"queued", "running"}
    BY <1>1 DEF Begin, Over, AttemptRecord
  <1>3. /\ record \in AttemptRecord /\ record.status = "running"
        /\ record.phases = attempt.phases /\ record.created = attempt.created
        /\ record.completed = attempt.completed
        /\ record.started \in {attempt.started, Clock(h)}
        /\ attempt.status = "running" => record = attempt
        /\ attempt.status = "queued" => record.started = Clock(h)
    BY <1>1, <1>2 DEF AttemptRecord
  <1>4. claims' \in 0 .. MaxClaims
    BY TimelineAssumption DEF Begin, TimelineInv, TimelineTyped
  <1>5. Orderly(attempt.phases)
    BY <1>2 DEF TimelineInv, AttemptRight
  <1> HIDE DEF record
  <1>6. CASE ValidAttempt(record)
    <2>1. /\ attempt' = record /\ executor' = [pc |-> "phase", host |-> h, index |-> 1]
          /\ UNCHANGED <<tick, offset, asked, faulted, escapes>>
      BY <1>6 DEF Begin, record
    <2>2. executor' \in ExecutorRecord /\ executor'.pc = "phase" /\ executor'.index = 1
      BY <2>1, PhaseFacts DEF ExecutorRecord
    <2>3. Reached(executor', record.phases)
      BY <2>2, PhaseFacts DEF Reached
    <2>4. TimelineTyped' /\ AttemptRight(attempt', executor')
      BY <1>3, <1>4, <1>5, <1>6, <2>1, <2>2, <2>3 DEF TimelineInv, TimelineTyped, AttemptRight
    <2>5. ASSUME ClocksAgree' PROVE Timely'
      <3>1. ClocksAgree /\ Timely /\ \A g \in Station : Clock(g)' = Clock(g)
        BY <2>1, <2>5 DEF ClocksAgree, Clock, TimelineInv
      <3>2. ASSUME NEW g \in Station PROVE InPast(attempt', Clock(g)')
        <4>1. InPast(attempt, Clock(g)) /\ Clock(g) = Clock(h) /\ Clock(g) \in Nat
          BY <3>1, SameClock, ClockFacts DEF Timely, TimelineInv
        <4>2. QED
          BY <4>1, <3>1, <2>1, <1>1, <1>3 DEF InPast
      <3>3. QED
        BY <3>1, <3>2, <2>1, <2>2, <1>3 DEF Timely
    <2>6. QED
      BY <2>4, <2>5 DEF TimelineInv
  <1>7. CASE ~ValidAttempt(record)
    <2>1. ~ClocksAgree
      <3> SUFFICES ASSUME ClocksAgree PROVE ValidAttempt(record)
        BY <1>7
      <3>1. attempt.created <= Clock(h)
        BY NowIsLate
      <3>2. attempt.completed = NoTime /\ attempt.created \in Nat
        BY <1>1, <1>2, StampsAreTimes DEF ValidAttempt, AttemptRecord
      <3>3. QED
        BY <1>1, <1>2, <1>3, <3>1, <3>2 DEF ValidAttempt, Backwards
    <2>2. Escape(h) /\ UNCHANGED <<tick, offset, faulted>>
      BY <1>7 DEF Begin, record
    <2>3. QED
      BY <1>4, <2>1, <2>2, EscapeKeeps
  <1>8. QED
    BY <1>6, <1>7

LEMMA EnterPhaseKeeps ==
    ASSUME TimelineInv, EnterPhase
    PROVE  TimelineInv'
  <1> DEFINE s == executor.index
             p == attempt.phases[s]
  <1>1. /\ executor.pc = "phase" /\ s \in Phase /\ executor.host \in Station
        /\ p \in PhaseRecord /\ ValidPhase(p) /\ executor \in ExecutorRecord
        /\ attempt.status = "running"
        /\ Reached(executor, attempt.phases) /\ Orderly(attempt.phases)
    BY RunningFacts DEF EnterPhase
  <1>2. claims' \in 0 .. MaxClaims /\ UNCHANGED <<tick, offset, claims, escapes, faulted>>
    BY DEF EnterPhase, NothingElse, TimelineInv, TimelineTyped
  <1>3. Here \in Stamp /\ Here \in Nat /\ Here # NoTime
    BY <1>1, ClockFacts DEF Here, TimelineInv
  <1>4. s \in 1 .. Final + 1 /\ s + 1 \in 1 .. Final + 1 /\ Phase \subseteq Nat
    BY <1>1, PhaseFacts
  <1>5. CASE PhaseDone(p)
    <2>1. Reach("phase", s + 1) /\ UNCHANGED attempt
      BY <1>5 DEF EnterPhase, PhaseDone
    <2>2. executor' \in ExecutorRecord /\ executor'.pc = "phase" /\ executor'.index = s + 1
      BY <2>1, <1>1, <1>4, ReachFacts
    <2>3. Reached(executor', attempt.phases)
      <3>1. \A t \in Phase : t < s + 1 => t < s \/ t = s
        BY <1>4
      <3>2. \A t \in Phase : t < s => PhaseDone(attempt.phases[t])
        BY <1>1 DEF Reached
      <3>3. \A t \in Phase : t < executor'.index => PhaseDone(attempt.phases[t])
        BY <3>1, <3>2, <1>5, <2>2
      <3>4. QED
        BY <3>3, <2>2 DEF Reached
    <2>4. QED
      BY <1>1, <1>2, <2>1, <2>2, <2>3, ExecutorMoves
  <1>6. CASE ~PhaseDone(p) /\ ~p.required
    <2>1. SkipPhase(s)
      BY <1>6 DEF EnterPhase, PhaseDone
    <2> DEFINE q == [p EXCEPT !.status = "skipped", !.finished = Here]
    <2>2. /\ q \in PhaseRecord /\ q.status = "skipped" /\ q.finished = Here
          /\ q.started = p.started
      BY <1>1, <1>3 DEF PhaseRecord
    <2>3. SetPhase(s, q) /\ Reach("phase", s + 1)
      BY <2>1 DEF SkipPhase
    <2> HIDE DEF q
    <2>4. p.status = "queued" /\ p.started = NoTime
      BY <1>1, <1>6 DEF Orderly, ValidPhase
    <2>5. ValidPhase(q) /\ PhaseDone(q)
      BY <2>2, <2>4, <1>3 DEF ValidPhase, Backwards, PhaseDone
    <2>6. ASSUME ClocksAgree, NEW h \in Station
          PROVE  q.started <= Clock(h) /\ q.finished <= Clock(h)
      <3>1. Here = Clock(h) /\ Clock(h) \in Nat
        BY <2>6, <1>1, SameClock, ClockFacts DEF Here, TimelineInv
      <3>2. QED
        BY <3>1, <2>2, <2>4 DEF NoTime
    <2>7. QED
      BY <1>1, <1>2, <1>6, <2>2, <2>3, <2>5, <2>6, PhaseStep
  <1>7. CASE ~PhaseDone(p) /\ p.required /\ asked
    <2>1. At("cancel") /\ UNCHANGED attempt
      BY <1>7 DEF EnterPhase, PhaseDone
    <2>2. executor' \in ExecutorRecord /\ executor'.pc = "cancel" /\ executor'.index = s
      BY <2>1, <1>1, AtFacts
    <2>3. Reached(executor', attempt.phases)
      BY <1>1, <1>7, <2>2 DEF Reached
    <2>4. QED
      BY <1>1, <1>2, <2>1, <2>2, <2>3, ExecutorMoves
  <1>8. CASE ~PhaseDone(p) /\ p.required /\ ~asked
    <2>1. RunPhase(s)
      BY <1>8 DEF EnterPhase, PhaseDone
    <2> DEFINE q == [p EXCEPT !.status = "running", !.progress = 10, !.finished = NoTime,
                              !.started = IF @ = NoTime THEN Here ELSE @]
    <2>2. /\ q \in PhaseRecord /\ q.status = "running" /\ q.finished = NoTime
          /\ q.started = (IF p.started = NoTime THEN Here ELSE p.started)
          /\ q.required = p.required /\ q.progress = 10
      BY <1>1, <1>3, StampsAreTimes DEF PhaseRecord
    <2>3. SetPhase(s, q) /\ Reach("work", s)
      BY <2>1 DEF RunPhase
    <2> HIDE DEF q
    <2>4. ValidPhase(q)
      BY <2>2, <1>3 DEF ValidPhase, Backwards
    <2>5. ASSUME ClocksAgree, NEW h \in Station
          PROVE  q.started <= Clock(h) /\ q.finished <= Clock(h)
      <3>1. p.started <= Clock(h) /\ Here = Clock(h) /\ Clock(h) \in Nat
        BY <2>5, <1>1, NowIsLate, SameClock, ClockFacts DEF Here, TimelineInv
      <3>2. QED
        BY <3>1, <2>2 DEF NoTime
    <2>6. QED
      BY <1>1, <1>2, <1>8, <2>2, <2>3, <2>4, <2>5, PhaseStep
  <1>9. QED
    BY <1>1, <1>5, <1>6, <1>7, <1>8 DEF PhaseRecord

LEMMA FinishPhaseKeeps ==
    ASSUME TimelineInv, FinishPhase
    PROVE  TimelineInv'
  <1> DEFINE s == executor.index
             p == attempt.phases[s]
             q == [p EXCEPT !.status = "succeeded", !.progress = 100, !.finished = Here]
  <1>1. executor.pc = "work"
    BY DEF FinishPhase
  <1>2. /\ s \in Phase /\ executor.host \in Station
        /\ p \in PhaseRecord /\ p.status = "running" /\ ValidPhase(p)
        /\ executor \in ExecutorRecord /\ attempt.status = "running"
        /\ Reached(executor, attempt.phases)
    BY <1>1, RunningFacts DEF Reached
  <1>3. claims' \in 0 .. MaxClaims /\ UNCHANGED <<tick, offset, claims, escapes, faulted>>
    BY DEF FinishPhase, NothingElse, TimelineInv, TimelineTyped
  <1>4. Here \in Stamp /\ Here \in Nat /\ Here # NoTime
    BY <1>2, ClockFacts DEF Here, TimelineInv
  <1>5. /\ q \in PhaseRecord /\ q.status = "succeeded" /\ q.progress = 100
        /\ q.finished = Here /\ q.started = p.started
    BY <1>2, <1>4 DEF PhaseRecord
  <1>6. ASSUME asked \/ ~ValidPhase(q),
               NEW pc \in {"cancel", "fail"}, At(pc), UNCHANGED attempt,
               pc = "fail" => ~ClocksAgree
        PROVE  TimelineInv'
    <2>1. executor' \in ExecutorRecord /\ executor'.pc = pc /\ executor'.index = s
      BY <1>2, <1>6, AtFacts
    <2>2. Reached(executor', attempt.phases)
      BY <1>2, <2>1 DEF Reached, PhaseDone
    <2>3. QED
      BY <1>2, <1>3, <1>6, <2>1, <2>2, ExecutorMoves
  <1>7. ClocksAgree => ValidPhase(q)
    <2> SUFFICES ASSUME ClocksAgree PROVE ValidPhase(q)
      OBVIOUS
    <2>1. p.started <= Here /\ p.started \in Nat
      BY ZenonT(40), <1>2, NowIsLate, StampsAreTimes DEF Here, PhaseRecord
    <2>2. QED
      BY <1>4, <1>5, <2>1 DEF ValidPhase, Backwards
  <1>8. CASE asked
    BY <1>6, <1>8 DEF FinishPhase
  <1>9. CASE ~asked /\ ValidPhase(q)
    <2>1. SetPhase(s, q) /\ Reach("phase", s + 1)
      BY <1>9 DEF FinishPhase
    <2> HIDE DEF q
    <2>2. ASSUME ClocksAgree, NEW h \in Station
          PROVE  q.started <= Clock(h) /\ q.finished <= Clock(h)
      <3>1. Here = Clock(h) /\ Clock(h) \in Nat
        BY <2>2, <1>2, SameClock, ClockFacts DEF Here, TimelineInv
      <3>2. QED
        BY <2>2, <3>1, <1>2, <1>5, NowIsLate
    <2>3. PhaseDone(q) /\ ~PhaseDone(p)
      BY <1>2, <1>5 DEF PhaseDone
    <2>4. QED
      BY <1>1, <1>2, <1>3, <1>5, <1>9, <2>1, <2>2, <2>3, PhaseStep
  <1>10. CASE ~asked /\ ~ValidPhase(q)
    <2>1. At("fail") /\ UNCHANGED attempt
      BY <1>10 DEF FinishPhase
    <2>2. QED
      BY <1>6, <1>7, <1>10, <2>1
  <1>11. QED
    BY <1>8, <1>9, <1>10

LEMMA WorkRaisesKeeps ==
    ASSUME TimelineInv, WorkRaises
    PROVE  TimelineInv'
  <1>1. executor.pc # "rest" /\ executor \in ExecutorRecord /\ At("fail")
    BY DEF WorkRaises, TimelineInv, TimelineTyped
  <1>2. executor' \in ExecutorRecord /\ executor'.pc = "fail" /\ executor'.index = executor.index
    BY <1>1, AtFacts
  <1>3. attempt.status = "running" /\ Reached(executor, attempt.phases)
    BY <1>1, RunningFacts
  <1>4. Reached(executor', attempt.phases)
    BY <1>2, <1>3 DEF WorkRaises, Reached, PhaseDone
  <1>5. /\ faulted' /\ claims' \in 0 .. MaxClaims
        /\ UNCHANGED <<tick, offset, attempt, escapes>>
    BY DEF WorkRaises, TimelineInv, TimelineTyped
  <1>6. QED
    BY <1>2, <1>3, <1>4, <1>5, ExecutorMoves

\* The executor has passed every stage.
LEMMA AllDone ==
    ASSUME TimelineInv, executor.pc # "rest", executor.index \notin Phase
    PROVE  \A s \in Phase : PhaseDone(attempt.phases[s])
  <1>1. executor.index \in 1 .. Final + 1 /\ Reached(executor, attempt.phases)
    BY RunningFacts
  <1>2. \A s \in Phase : s < executor.index
    BY <1>1, PhaseFacts
  <1>3. QED
    BY <1>1, <1>2 DEF Reached

\* The outcome of a finished execution: success, or a partial one if the pipeline says so.
Outcome(partial) ==
    IF partial
    THEN [attempt EXCEPT !.status = "partial", !.completed = Here,
                         !.phases[Final].status = "partial", !.phases[Final].progress = 80]
    ELSE [attempt EXCEPT !.status = "succeeded", !.completed = Here]

LEMMA OutcomeFacts ==
    ASSUME TimelineInv, executor.pc # "rest", NEW partial \in BOOLEAN
    PROVE  /\ Outcome(partial) \in AttemptRecord
           /\ Outcome(partial).status = (IF partial THEN "partial" ELSE "succeeded")
           /\ Outcome(partial).created = attempt.created
           /\ Outcome(partial).started = attempt.started
           /\ Outcome(partial).completed = Here
           /\ ~partial => Outcome(partial).phases = attempt.phases
           /\ \A s \in Phase :
                 /\ Outcome(partial).phases[s].started = attempt.phases[s].started
                 /\ Outcome(partial).phases[s].finished = attempt.phases[s].finished
                 /\ \/ Outcome(partial).phases[s] = attempt.phases[s]
                    \/ Outcome(partial).phases[s].status = "partial"
  <1> DEFINE record == Outcome(partial)
             phases == IF partial
                       THEN [attempt.phases EXCEPT ![Final].status = "partial",
                                                   ![Final].progress = 80]
                       ELSE attempt.phases
  <1>1. /\ attempt \in AttemptRecord /\ executor.host \in Station
        /\ \A s \in Phase : attempt.phases[s] \in PhaseRecord
    BY RunningFacts
  <1>2. Here \in Stamp
    BY <1>1, ClockFacts DEF Here, TimelineInv
  <1>3. /\ phases \in [Phase -> PhaseRecord]
        /\ \A s \in Phase : /\ phases[s].started = attempt.phases[s].started
                            /\ phases[s].finished = attempt.phases[s].finished
                            /\ phases[s] = attempt.phases[s] \/ phases[s].status = "partial"
    <2>1. CASE partial
      <3>1. \A s \in Phase : phases[s] = (IF s = Final
                 THEN [attempt.phases[s] EXCEPT !.status = "partial", !.progress = 80]
                 ELSE attempt.phases[s])
        BY <1>1, <2>1 DEF AttemptRecord
      <3>2. ASSUME NEW p \in PhaseRecord
            PROVE  LET q == [p EXCEPT !.status = "partial", !.progress = 80]
                   IN  /\ q \in PhaseRecord /\ q.status = "partial"
                       /\ q.started = p.started /\ q.finished = p.finished
        BY DEF PhaseRecord
      <3>3. phases = [s \in Phase |-> phases[s]]
        BY <1>1, <2>1 DEF AttemptRecord
      <3> HIDE DEF phases
      <3>4. \A s \in Phase : phases[s] \in PhaseRecord
        BY <3>1, <3>2, <1>1
      <3>5. phases \in [Phase -> PhaseRecord]
        BY <3>3, <3>4
      <3>6. ASSUME NEW s \in Phase
            PROVE  /\ phases[s].started = attempt.phases[s].started
                   /\ phases[s].finished = attempt.phases[s].finished
                   /\ phases[s] = attempt.phases[s] \/ phases[s].status = "partial"
        <4>1. attempt.phases[s] \in PhaseRecord
          BY <1>1
        <4>2. CASE s = Final
          <5> DEFINE q == [attempt.phases[s] EXCEPT !.status = "partial", !.progress = 80]
          <5>1. /\ q.status = "partial" /\ q.started = attempt.phases[s].started
                /\ q.finished = attempt.phases[s].finished
            BY <4>1, <3>2
          <5>2. phases[s] = q
            BY <4>2, <3>1
          <5> HIDE DEF q
          <5>3. QED
            BY <5>1, <5>2
        <4>3. CASE s # Final
          BY <4>3, <3>1
        <4>4. QED
          BY <4>2, <4>3
      <3>7. QED
        BY <3>5, <3>6
    <2>2. CASE ~partial
      BY <1>1, <2>2 DEF AttemptRecord
    <2>3. QED
      BY <2>1, <2>2
  <1>4. record = [attempt EXCEPT !.status = IF partial THEN "partial" ELSE "succeeded",
                                 !.completed = Here, !.phases = phases]
    BY ZenonT(40), <1>1 DEF AttemptRecord, Outcome
  <1>5. ~partial => phases = attempt.phases
    OBVIOUS
  <1> HIDE DEF phases, record
  <1>6. /\ record \in AttemptRecord
        /\ record.status = (IF partial THEN "partial" ELSE "succeeded")
        /\ record.created = attempt.created /\ record.started = attempt.started
        /\ record.completed = Here /\ record.phases = phases
    BY <1>1, <1>2, <1>3, <1>4 DEF AttemptRecord
  <1>7. QED
    BY <1>3, <1>5, <1>6 DEF record

LEMMA ConcludeKeeps ==
    ASSUME TimelineInv, Conclude
    PROVE  TimelineInv'
  <1>1. PICK partial \in BOOLEAN :
              IF ValidAttempt(Outcome(partial))
              THEN attempt' = Outcome(partial) /\ executor' = AtRest(executor.host)
              ELSE At("fail") /\ UNCHANGED attempt
    BY DEF Conclude, Outcome
  <1>2. executor.pc = "phase" /\ executor.index \notin Phase
    BY DEF Conclude
  <1>3. /\ attempt.status = "running" /\ attempt \in AttemptRecord /\ ValidAttempt(attempt)
        /\ executor.host \in Station /\ executor \in ExecutorRecord
        /\ attempt.started # NoTime /\ Reached(executor, attempt.phases)
        /\ \A s \in Phase : attempt.phases[s] \in PhaseRecord /\ ValidPhase(attempt.phases[s])
    BY <1>2, RunningFacts
  <1>4. claims' \in 0 .. MaxClaims /\ UNCHANGED <<tick, offset, claims, escapes, faulted>>
    BY DEF Conclude, NothingElse, TimelineInv, TimelineTyped
  <1>5. Here \in Stamp /\ Here \in Nat /\ Here # NoTime
    BY <1>3, ClockFacts DEF Here, TimelineInv
  <1> DEFINE record == Outcome(partial)
             phases == record.phases
  <1>6. \A s \in Phase : /\ phases[s].started = attempt.phases[s].started
                         /\ phases[s].finished = attempt.phases[s].finished
                         /\ phases[s] = attempt.phases[s] \/ phases[s].status = "partial"
    BY <1>2, OutcomeFacts
  <1>7. /\ record \in AttemptRecord /\ record.status \in {"partial", "succeeded"}
        /\ record.created = attempt.created /\ record.started = attempt.started
        /\ record.completed = Here
    BY <1>2, OutcomeFacts
  <1>8. ClocksAgree => ValidAttempt(record)
    <2> SUFFICES ASSUME ClocksAgree PROVE ValidAttempt(record)
      OBVIOUS
    <2>1. attempt.started <= Here /\ attempt.started \in Nat
      BY <1>3, NowIsLate, StampsAreTimes DEF Here, AttemptRecord
    <2>2. \A s \in Phase : PhaseDone(attempt.phases[s])
      BY <1>2, AllDone
    <2>3. ASSUME NEW s \in Phase PROVE ValidPhase(phases[s]) /\ phases[s].status # "running"
      BY <1>3, <1>6, <2>2 DEF ValidPhase, PhaseDone
    <2>4. ~Backwards(record.created, record.started) /\ ~Backwards(record.started, Here)
      BY <1>3, <1>7, <1>5, <2>1 DEF ValidAttempt, Backwards
    <2>5. QED
      BY <1>3, <1>5, <1>7, <2>3, <2>4 DEF ValidAttempt
  <1>9. CASE ValidAttempt(record)
    <2>1. \A s \in Phase : record.phases[s].started = attempt.phases[s].started
      BY <1>6, <1>7
    <2>2. attempt' = record /\ executor' = AtRest(executor.host)
      BY <1>1, <1>9
    <2>3. QED
      BY <1>3, <1>4, <1>7, <1>9, <2>1, <2>2, RecordStored
  <1>10. CASE ~ValidAttempt(record)
    <2>1. At("fail") /\ UNCHANGED attempt
      BY <1>1, <1>10
    <2>2. /\ executor' \in ExecutorRecord /\ executor'.pc = "fail"
          /\ executor'.index = executor.index
      BY <2>1, <1>3, AtFacts
    <2>3. Reached(executor', attempt.phases)
      BY <1>2, <1>3, <2>2 DEF Reached
    <2>4. QED
      BY <1>3, <1>4, <1>8, <1>10, <2>1, <2>2, <2>3, ExecutorMoves
  <1>11. QED
    BY <1>9, <1>10

\* The running stage, if any, is stopped: the others are done or have not begun.
LEMMA StoppedFacts ==
    ASSUME TimelineInv, executor.pc \in {"fail", "cancel"},
           NEW status \in {"failed", "cancelled"}
    PROVE  /\ StoppedPhases(status) \in [Phase -> PhaseRecord]
           /\ \A s \in Phase :
                 /\ StoppedPhases(status)[s].started = attempt.phases[s].started
                 /\ StoppedPhases(status)[s].status # "running"
                 /\ ClocksAgree => ValidPhase(StoppedPhases(status)[s])
                 /\ StoppedPhases(status)[s].progress = attempt.phases[s].progress
                 /\ attempt.phases[s].status = "skipped" =>
                       StoppedPhases(status)[s].status = "skipped"
  <1> DEFINE i == executor.index
             u == IF i \in Phase THEN i ELSE Final
             stopped(p) == [p EXCEPT !.status = status, !.finished = Here]
             phases == StoppedPhases(status)
  <1>1. /\ attempt.phases \in [Phase -> PhaseRecord] /\ executor.host \in Station
        /\ Reached(executor, attempt.phases) /\ Orderly(attempt.phases)
        /\ \A s \in Phase : ValidPhase(attempt.phases[s])
    BY RunningFacts DEF AttemptRecord
  <1>2. Here \in Stamp /\ Here \in Nat /\ Here # NoTime
    BY <1>1, ClockFacts DEF Here, TimelineInv
  <1>3. ASSUME NEW p \in PhaseRecord
        PROVE  /\ stopped(p) \in PhaseRecord /\ stopped(p).started = p.started
               /\ stopped(p).finished = Here /\ stopped(p).status = status
               /\ stopped(p).progress = p.progress
    BY <1>2 DEF PhaseRecord
  <1> HIDE DEF stopped
  <1>4. /\ phases \in [Phase -> PhaseRecord]
        /\ \A s \in Phase : phases[s] = (IF s = u /\ attempt.phases[s].status = "running"
                                         THEN stopped(attempt.phases[s])
                                         ELSE attempt.phases[s])
    <2>1. CASE attempt.phases[u].status = "running"
      <3>1. phases = [attempt.phases EXCEPT ![u] = stopped(attempt.phases[u])]
        BY <1>1, <2>1 DEF StoppedPhases, stopped
      <3>2. CASE u \in Phase
        <4>1. stopped(attempt.phases[u]) \in PhaseRecord
          BY <1>1, <1>3, <3>2
        <4>2. QED
          BY <1>1, <2>1, <3>1, <3>2, <4>1
      <3>3. CASE u \notin Phase
        BY <1>1, <3>1, <3>3
      <3>4. QED
        BY <3>2, <3>3
    <2>2. CASE attempt.phases[u].status # "running"
      BY <1>1, <2>2 DEF StoppedPhases
    <2>3. QED
      BY <2>1, <2>2
  <1> HIDE DEF phases
  <1>5. ASSUME NEW s \in Phase, attempt.phases[s].status = "running" PROVE s = u
    <2>1. i \in Phase
      BY <1>5, AllDone DEF PhaseDone
    <2>2. ~PhaseDone(attempt.phases[i])
      BY <1>1, <2>1 DEF Reached
    <2>3. ~(i < s)
      BY <1>1, <1>5, <2>1, <2>2 DEF Orderly
    <2>4. ~(s < i)
      BY <1>1, <1>5 DEF Reached, PhaseDone
    <2>5. QED
      BY <2>1, <2>3, <2>4, PhaseFacts
  <1>6. ASSUME NEW s \in Phase
        PROVE  /\ phases[s].started = attempt.phases[s].started
               /\ phases[s].status # "running"
               /\ ClocksAgree => ValidPhase(phases[s])
               /\ phases[s].progress = attempt.phases[s].progress
               /\ attempt.phases[s].status = "skipped" => phases[s].status = "skipped"
    <2>1. CASE attempt.phases[s].status = "running"
      <3>1. phases[s] = stopped(attempt.phases[s])
        BY <1>4, <1>5, <2>1
      <3>2. /\ attempt.phases[s] \in PhaseRecord /\ attempt.phases[s].started \in Nat
            /\ ClocksAgree => attempt.phases[s].started <= Here
        BY <1>1, NowIsLate, StampsAreTimes DEF Here, PhaseRecord
      <3>3. /\ phases[s].started = attempt.phases[s].started
            /\ phases[s].finished = Here /\ phases[s].status = status
            /\ phases[s].progress = attempt.phases[s].progress
        BY <1>3, <3>1, <3>2
      <3>4. ClocksAgree => ValidPhase(phases[s])
        BY <1>2, <3>2, <3>3 DEF ValidPhase, Backwards
      <3>5. QED
        BY <2>1, <3>3, <3>4
    <2>2. CASE attempt.phases[s].status # "running"
      BY <1>1, <1>4, <2>2
    <2>3. QED
      BY <2>1, <2>2
  <1>7. QED
    BY <1>4, <1>6 DEF phases

LEMMA HandleStopKeeps ==
    ASSUME TimelineInv, NEW pc \in {"fail", "cancel"}, NEW status \in {"failed", "cancelled"},
           status = "failed" => pc = "fail", HandleStop(pc, status)
    PROVE  TimelineInv'
  <1> DEFINE record == [attempt EXCEPT !.status = status, !.completed = Here,
                                       !.phases = StoppedPhases(status)]
  <1>1. executor.pc = pc /\ EndAs(executor.host, record)
        /\ UNCHANGED <<tick, offset, claims, faulted>>
    BY DEF HandleStop, NothingElse
  <1>2. /\ attempt \in AttemptRecord /\ ValidAttempt(attempt) /\ executor.host \in Station
        /\ attempt.started # NoTime
    BY <1>1, RunningFacts
  <1>3. Here \in Stamp /\ Here \in Nat /\ Here # NoTime
    BY <1>2, ClockFacts DEF Here, TimelineInv
  <1>4. /\ StoppedPhases(status) \in [Phase -> PhaseRecord]
        /\ \A s \in Phase :
              /\ StoppedPhases(status)[s].started = attempt.phases[s].started
              /\ StoppedPhases(status)[s].status # "running"
              /\ ClocksAgree => ValidPhase(StoppedPhases(status)[s])
    BY <1>1, StoppedFacts
  <1>5. /\ record \in AttemptRecord /\ record.status = status
        /\ record.created = attempt.created /\ record.started = attempt.started
        /\ record.completed = Here /\ record.phases = StoppedPhases(status)
    BY <1>2, <1>3, <1>4 DEF AttemptRecord
  <1> HIDE DEF record
  <1>6. ClocksAgree => ValidAttempt(record) /\ (record.status = "failed" => faulted)
    <2> SUFFICES ASSUME ClocksAgree
                 PROVE  ValidAttempt(record) /\ (record.status = "failed" => faulted)
      OBVIOUS
    <2>1. attempt.started <= Here /\ attempt.started \in Nat /\ (executor.pc = "fail" => faulted)
      BY <1>2, NowIsLate, StampsAreTimes DEF Here, AttemptRecord
    <2>2. ~Backwards(record.created, record.started) /\ ~Backwards(record.started, Here)
      BY <1>2, <1>3, <1>5, <2>1 DEF ValidAttempt, Backwards
    <2>3. QED
      BY <1>1, <1>2, <1>3, <1>4, <1>5, <2>1, <2>2 DEF ValidAttempt
  <1>7. \A s \in Phase : record.phases[s].started = attempt.phases[s].started
    BY <1>4, <1>5
  <1>8. QED
    BY <1>1, <1>2, <1>5, <1>6, <1>7, EndAsKeeps

LEMMA WorkerCrashesKeeps ==
    ASSUME TimelineInv, WorkerCrashes
    PROVE  TimelineInv'
  <1>1. executor.host \in Station /\ claims' \in 0 .. MaxClaims
    BY DEF TimelineInv, TimelineTyped, ExecutorRecord, WorkerCrashes
  <1>2. executor' \in ExecutorRecord /\ executor'.pc = "rest"
    BY <1>1, RestFacts DEF WorkerCrashes
  <1>3. QED
    BY <1>1, <1>2, ExecutorMoves DEF WorkerCrashes

LEMMA CancelAttemptKeeps ==
    ASSUME TimelineInv, NEW h \in Station, CancelAttempt(h)
    PROVE  TimelineInv'
  <1>1. claims' \in 0 .. MaxClaims /\ UNCHANGED <<tick, offset, claims, faulted>>
    BY DEF CancelAttempt, TimelineInv, TimelineTyped
  <1>2. CASE attempt.status # "queued"
    <2>1. UNCHANGED <<attempt, executor, escapes>>
      BY <1>2 DEF CancelAttempt
    <2>2. /\ executor \in ExecutorRecord
          /\ \/ executor.pc = "rest"
             \/ attempt.status = "running" /\ Reached(executor, attempt.phases)
      BY DEF TimelineInv, TimelineTyped, AttemptRight
    <2>3. ClocksAgree /\ executor.pc = "fail" => faulted
      BY DEF TimelineInv, Timely
    <2>4. QED
      BY <1>1, <2>1, <2>2, <2>3, ExecutorMoves
  <1>3. CASE attempt.status = "queued"
    <2> DEFINE record == [attempt EXCEPT !.status = "cancelled", !.completed = Clock(h)]
    <2>1. EndAs(h, record)
      BY <1>3 DEF CancelAttempt
    <2>2. /\ attempt \in AttemptRecord /\ ValidAttempt(attempt)
          /\ \A s \in Phase : attempt.phases[s].status = "queued"
          /\ Clock(h) \in Stamp /\ Clock(h) \in Nat /\ Clock(h) # NoTime
      BY <1>3, ClockFacts DEF TimelineInv, TimelineTyped, AttemptRight
    <2>3. /\ record \in AttemptRecord /\ record.status = "cancelled"
          /\ record.created = attempt.created /\ record.started = attempt.started
          /\ record.completed = Clock(h) /\ record.phases = attempt.phases
      BY <2>2 DEF AttemptRecord
    <2> HIDE DEF record
    <2>4. ClocksAgree => ValidAttempt(record)
      <3> SUFFICES ASSUME ClocksAgree PROVE ValidAttempt(record)
        OBVIOUS
      <3>1. attempt.created <= Clock(h) /\ attempt.created \in Nat
        BY <2>2, NowIsLate, StampsAreTimes DEF AttemptRecord
      <3>2. QED
        BY <1>3, <2>2, <2>3, <3>1 DEF ValidAttempt, Backwards
    <2>5. QED
      BY <1>1, <2>1, <2>3, <2>4, EndAsKeeps
  <1>4. QED
    BY <1>2, <1>3

LEMMA TickPassesKeeps ==
    ASSUME TimelineInv, TickPasses
    PROVE  TimelineInv'
  <1>1. tick' \in 1 .. LastTick /\ tick' = tick + 1 /\ tick \in Nat
    BY TimelineAssumption DEF TickPasses, TimelineInv, TimelineTyped
  <1>2. TimelineTyped' /\ AttemptRight(attempt', executor')
    BY <1>1 DEF TickPasses, TimelineInv, TimelineTyped, AttemptRight
  <1>3. ASSUME ClocksAgree' PROVE Timely'
    <2>1. Timely /\ UNCHANGED <<offset, attempt, executor, escapes, faulted>>
      BY <1>3 DEF TickPasses, TimelineInv, ClocksAgree
    <2>2. ASSUME NEW h \in Station PROVE InPast(attempt', Clock(h)')
      <3>1. Clock(h)' = Clock(h) + 1 /\ Clock(h) \in Nat
        BY <1>1, <2>1, ClockFacts DEF Clock, TimelineInv, TimelineTyped
      <3>2. /\ attempt.created \in Nat /\ attempt.started \in Nat
            /\ \A s \in Phase : /\ attempt.phases[s].started \in Nat
                                /\ attempt.phases[s].finished \in Nat
        BY StampsAreTimes DEF TimelineInv, TimelineTyped, AttemptRecord, PhaseRecord
      <3>3. InPast(attempt, Clock(h))
        BY <2>1 DEF Timely
      <3>4. QED
        BY <3>1, <3>2, <3>3, <2>1 DEF InPast
    <2>3. QED
      BY <2>1, <2>2 DEF Timely
  <1>4. QED
    BY <1>2, <1>3 DEF TimelineInv

LEMMA TimelineInitially == TimelineInit => TimelineInv
  <1> SUFFICES ASSUME TimelineInit PROVE TimelineInv
    OBVIOUS
  <1>1. tick = 1 /\ offset \in [Station -> 0 .. Skew] /\ claims = 0 /\ escapes = 0 /\ ~faulted
    BY DEF TimelineInit
  <1>2. tick \in 1 .. LastTick /\ claims \in 0 .. MaxClaims
    BY <1>1, TimelineAssumption
  <1>3. PICK h \in Station, phases \in {CoordinatorPhases, UploadPhases} :
           /\ attempt = [status |-> "queued", created |-> Clock(h), started |-> NoTime,
                         completed |-> NoTime, phases |-> phases]
           /\ executor = AtRest(h)
    BY DEF TimelineInit
  <1>4. /\ phases \in [Phase -> PhaseRecord]
        /\ \A s \in Phase : /\ phases[s].status = "queued" /\ phases[s].started = NoTime
                            /\ phases[s].finished = NoTime /\ phases[s].progress = 0
    <2>1. ASSUME NEW r \in BOOLEAN
          PROVE  /\ NewPhase(r) \in PhaseRecord /\ NewPhase(r).status = "queued"
                 /\ NewPhase(r).started = NoTime /\ NewPhase(r).finished = NoTime
                 /\ NewPhase(r).progress = 0
      BY <2>1, StampsAreTimes DEF NewPhase, PhaseRecord
    <2>2. CASE phases = CoordinatorPhases
      BY <2>1, <2>2 DEF CoordinatorPhases
    <2>3. CASE phases = UploadPhases
      BY <2>1, <2>3 DEF UploadPhases
    <2>4. QED
      BY <2>2, <2>3
  <1>5. \A g \in Station : /\ Clock(g) \in Stamp /\ Clock(g) \in Nat
                            /\ NoTime < Clock(g)
    <2> TAKE g \in Station
    <2>1. offset[g] \in Nat /\ offset[g] <= Skew /\ Skew \in Nat /\ LastTick \in Nat \ {0}
      BY <1>1, TimelineAssumption
    <2>2. QED
      BY <1>1, <2>1 DEF Clock, Stamp, NoTime
  <1>6. attempt \in AttemptRecord /\ executor \in ExecutorRecord /\ executor.pc = "rest"
    BY <1>3, <1>4, <1>5, RestFacts, StampsAreTimes DEF AttemptRecord
  <1>7. AttemptRight(attempt, executor)
    <2>1. Orderly(attempt.phases) /\ \A s \in Phase : ValidPhase(attempt.phases[s])
      BY <1>3, <1>4 DEF Orderly, ValidPhase, Backwards
    <2>2. QED
      BY <1>3, <1>4, <1>6, <2>1 DEF AttemptRight, ValidAttempt, Backwards
  <1>8. ClocksAgree => Timely
    <2>1. ASSUME ClocksAgree, NEW g \in Station PROVE InPast(attempt, Clock(g))
      BY <1>3, <1>4, <1>5, <2>1, SameClock DEF InPast, NoTime
    <2>2. QED
      BY <1>1, <1>3, <1>6, <2>1 DEF Timely
  <1>9. QED
    BY <1>1, <1>2, <1>6, <1>7, <1>8 DEF TimelineInv, TimelineTyped

LEMMA TimelineStepKeeps == TimelineInv /\ [TimelineNext]_timelineVars => TimelineInv'
  <1> SUFFICES ASSUME TimelineInv, [TimelineNext]_timelineVars PROVE TimelineInv'
    OBVIOUS
  <1>1. CASE UNCHANGED timelineVars
    BY <1>1 DEF timelineVars, TimelineInv, TimelineTyped, AttemptRight, ClocksAgree, Timely, Clock
  <1>2. ASSUME NEW h \in Station, Begin(h) \/ CancelAttempt(h) PROVE TimelineInv'
    BY <1>2, BeginAttemptKeeps, CancelAttemptKeeps
  <1>3. CASE ExecuteAttempt
    BY <1>3, EnterPhaseKeeps, FinishPhaseKeeps, ConcludeKeeps, HandleStopKeeps
    DEF ExecuteAttempt, HandleFail, HandleCancel
  <1>4. CASE TimelineNext
    BY <1>2, <1>3, <1>4, WorkRaisesKeeps, WorkerCrashesKeeps, TickPassesKeeps DEF TimelineNext
  <1>5. QED
    BY <1>1, <1>4

LEMMA TimelineInvHolds == TimelineSpec => []TimelineInv
  BY TimelineInitially, TimelineStepKeeps, PTL DEF TimelineSpec

\* An attempt fails without an error of its work, and an exception ends a worker or a
\* request, only when the clocks of the hosts differ: for any number of hosts, stages and
\* deliveries, and wherever an execution crashes, is cancelled, or goes on elsewhere.
THEOREM ClockFaultsExplained == TimelineSpec => []ClockFaultsNeedSkew
  <1>1. TimelineInv => ClockFaultsNeedSkew
    BY DEF TimelineInv, Timely, ClockFaultsNeedSkew
  <1>2. QED
    BY <1>1, TimelineInvHolds, PTL

LEMMA TimelineTypeCorrect == TimelineSpec => []TimelineTypeOK
  <1>1. TimelineInv => TimelineTypeOK
    <2> SUFFICES ASSUME TimelineInv PROVE TimelineTypeOK
      OBVIOUS
    <2>1. /\ tick \in 1 .. LastTick /\ claims \in 0 .. MaxClaims
          /\ attempt \in AttemptRecord /\ executor \in ExecutorRecord /\ ValidAttempt(attempt)
      BY DEF TimelineInv, TimelineTyped, AttemptRight
    <2>2. attempt.status \in {"queued", "running"} <=> attempt.completed = NoTime
      BY <2>1 DEF ValidAttempt
    <2>3. /\ attempt.created \in Stamp /\ attempt.started \in Stamp
          /\ attempt.completed \in Stamp /\ attempt.phases \in [Phase -> PhaseRecord]
          /\ executor.index \in 1 .. Final + 1
          /\ attempt.status \in {"queued", "running", "succeeded", "partial", "failed",
                                 "cancelled"}
      BY <2>1 DEF AttemptRecord, ExecutorRecord
    <2>4. Over <=> attempt.completed # NoTime
      BY <2>2, <2>3 DEF Over
    <2>5. QED
      BY <2>1, <2>3, <2>4 DEF TimelineTypeOK, PhaseRecord
  <1>2. QED
    BY <1>1, TimelineInvHolds, PTL

\* What a reader is shown of two records of the attempt, the second one later.
Later(a, b) ==
    /\ \/ b.status = "partial"
       \/ /\ overall_progress(b) >= overall_progress(a)
          /\ stage_progress_percent(b) >= stage_progress_percent(a)
    /\ overall_progress(b) = 100 <=> b.status = "succeeded"
    /\ ClocksAgree => UpdatedAt(b) >= UpdatedAt(a)

LEMMA DivMonotone ==
    ASSUME NEW x \in Nat, NEW y \in Nat, x <= y, NEW n \in Nat \ {0}
    PROVE  x \div n \in Nat /\ y \div n \in Nat /\ x \div n <= y \div n
  <1> DEFINE q == x \div n
             r == y \div n
  <1>1. q \in Nat /\ r \in Nat
    OBVIOUS
  <1>2. n * q <= x /\ y < n * r + n
    OBVIOUS
  <1> HIDE DEF q, r
  <1>3. ASSUME r < q PROVE FALSE
    <2>1. r + 1 <= q /\ r + 1 \in Nat
      BY <1>1, <1>3
    <2>2. PICK k \in Nat : q = r + 1 + k
      <3>1. q - (r + 1) \in Nat /\ q = r + 1 + (q - (r + 1))
        BY <1>1, <2>1
      <3>2. QED
        BY <3>1
    <2>3. n * q = n * r + n + n * k /\ n * k \in Nat /\ n * r \in Nat
      BY <1>1, <2>2
    <2>4. n * q \in Nat
      BY <1>1
    <2>5. QED
      BY <1>2, <2>3, <2>4
  <1>4. q <= r
    BY <1>1, <1>3
  <1>5. QED
    BY <1>1, <1>4 DEF q, r

\* No stage falls behind: neither does what is shown of the attempt.
LEMMA SharesGrow ==
    ASSUME NEW a \in AttemptRecord, NEW b \in AttemptRecord,
           \A s \in Phase : /\ a.phases[s].progress <= b.phases[s].progress
                            /\ a.phases[s].status = "skipped" => b.phases[s].status = "skipped"
    PROVE  /\ WeightedProgress(a) \in Nat /\ WeightedProgress(b) \in Nat
           /\ WeightedProgress(a) <= WeightedProgress(b)
           /\ stage_progress_percent(b) >= stage_progress_percent(a)
  <1> DEFINE share(c) == [s \in Phase |-> IF c.phases[s].status = "skipped" THEN Weight[s] * 100
                                          ELSE Weight[s] * c.phases[s].progress]
             plain(c) == [s \in Phase |-> c.phases[s].progress]
  <1>1. IsFiniteSet(Phase) /\ Final \in Nat \ {0}
    BY PhaseFacts, PhasesFinite
  <1>2. ASSUME NEW s \in Phase
        PROVE  /\ a.phases[s].progress \in {0, 10, 80, 100}
               /\ b.phases[s].progress \in {0, 10, 80, 100} /\ Weight[s] \in Nat
    BY TimelineAssumption DEF AttemptRecord, PhaseRecord, Phase
  <1>3. plain(a) \in [Phase -> Nat] /\ plain(b) \in [Phase -> Nat]
    BY <1>2
  <1>4. ASSUME NEW s \in Phase
        PROVE  share(a)[s] \in Nat /\ share(b)[s] \in Nat /\ share(a)[s] <= share(b)[s]
    <2>1. ASSUME NEW x \in {0, 10, 80, 100}, NEW y \in {0, 10, 80, 100}, x <= y
          PROVE  /\ Weight[s] * x \in Nat /\ Weight[s] * y \in Nat /\ Weight[s] * 100 \in Nat
                 /\ Weight[s] * x <= Weight[s] * y /\ Weight[s] * x <= Weight[s] * 100
      <3>1. Weight[s] \in Nat
        BY <1>2
      <3>2. QED
        BY <2>1, <3>1
    <2>2. QED
      BY <1>2, <2>1
  <1>5. share(a) \in [Phase -> Nat] /\ share(b) \in [Phase -> Nat]
    <2>1. share(a) = [s \in Phase |-> share(a)[s]] /\ share(b) = [s \in Phase |-> share(b)[s]]
      OBVIOUS
    <2> HIDE DEF share
    <2>2. QED
      BY <1>4, <2>1
  <1>6. /\ SumFunction(share(a)) \in Nat /\ SumFunction(share(b)) \in Nat
        /\ SumFunction(share(a)) <= SumFunction(share(b))
    <2> HIDE DEF share
    <2>1. QED
      BY <1>1, <1>4, <1>5, SumsGrow
  <1>7. /\ SumFunction(plain(a)) \in Nat /\ SumFunction(plain(b)) \in Nat
        /\ SumFunction(plain(a)) <= SumFunction(plain(b))
    <2>1. \A s \in Phase : plain(a)[s] <= plain(b)[s]
      OBVIOUS
    <2> HIDE DEF plain
    <2>2. QED
      BY <1>1, <1>3, <2>1, SumsGrow
  <1>8. /\ SumFunction(share(a)) \div 100 \in Nat /\ SumFunction(share(b)) \div 100 \in Nat
        /\ SumFunction(share(a)) \div 100 <= SumFunction(share(b)) \div 100
    <2> HIDE DEF share
    <2>1. 100 \in Nat \ {0}
      OBVIOUS
    <2>2. QED
      BY ONLY <1>6, <2>1, DivMonotone
  <1>9. /\ SumFunction(plain(a)) \div Final \in Nat /\ SumFunction(plain(b)) \div Final \in Nat
        /\ SumFunction(plain(a)) \div Final <= SumFunction(plain(b)) \div Final
    BY ONLY <1>1, <1>7, DivMonotone
  <1>10. WeightedProgress(a) = SumFunction(share(a)) \div 100
         /\ WeightedProgress(b) = SumFunction(share(b)) \div 100
    BY Zenon DEF WeightedProgress
  <1>11. stage_progress_percent(a) = SumFunction(plain(a)) \div Final
         /\ stage_progress_percent(b) = SumFunction(plain(b)) \div Final
    BY Zenon DEF stage_progress_percent
  <1> HIDE DEF share, plain
  <1>12. QED
    BY <1>8, <1>9, <1>10, <1>11

\* The weights add up to 100 percent.
LEMMA AllDoneIsWhole ==
    ASSUME NEW a \in AttemptRecord,
           \A s \in Phase : PhaseDone(a.phases[s]) /\ ValidPhase(a.phases[s])
    PROVE  WeightedProgress(a) = 100
  <1> DEFINE share == [s \in Phase |-> IF a.phases[s].status = "skipped" THEN Weight[s] * 100
                                       ELSE Weight[s] * a.phases[s].progress]
  <1>1. share = [s \in Phase |-> Weight[s] * 100]
    BY DEF PhaseDone, ValidPhase
  <1>2. IsFiniteSet(Phase) /\ Weight \in [Phase -> Nat] /\ SumFunction(Weight) = 100
    BY PhasesFinite, TimelineAssumption DEF Phase
  <1>3. SumFunction([s \in Phase |-> Weight[s] * 100]) = SumFunction(Weight) * 100
    BY <1>2, SumsScale
  <1>4. SumFunction(share) = 10000
    <2> HIDE DEF share
    <2>1. SumFunction(share) = SumFunction(Weight) * 100
      BY <1>1, <1>3
    <2>2. QED
      BY <1>2, <2>1
  <1>5. WeightedProgress(a) = SumFunction(share) \div 100
    BY Zenon DEF WeightedProgress
  <1> HIDE DEF share
  <1>6. QED
    BY <1>4, <1>5

\* A stage that is touched last exists.
LEMMA LastExists ==
    ASSUME NEW N \in Nat, NEW T \in SUBSET (1 .. N), T # {}
    PROVE  \E s \in T : \A t \in T : t <= s
  <1> DEFINE good == {n \in Nat : \A U \in SUBSET (1 .. n) :
                                     U # {} => \E s \in U : \A t \in U : t <= s}
  <1>1. 0 \in good
    <2>1. 1 .. 0 = {}
      OBVIOUS
    <2>2. QED
      BY <2>1
  <1>2. ASSUME NEW n \in Nat, n \in good PROVE n + 1 \in good
    <2> SUFFICES ASSUME NEW U \in SUBSET (1 .. n + 1), U # {}
                 PROVE  \E s \in U : \A t \in U : t <= s
      OBVIOUS
    <2>1. CASE n + 1 \in U
      BY <2>1
    <2>2. CASE n + 1 \notin U
      <3>1. U \in SUBSET (1 .. n)
        BY <2>2
      <3>2. QED
        BY <3>1, <1>2
    <2>3. QED
      BY <2>1, <2>2
  <1>3. good \in SUBSET Nat
    OBVIOUS
  <1>4. good = Nat
    <2> HIDE DEF good
    <2>1. QED
      BY <1>1, <1>2, <1>3, SmallestBadNumber
  <1>5. N \in good
    BY <1>4
  <1>6. QED
    BY <1>5

Touched(p) == p.started # NoTime \/ p.finished # NoTime

LastChange(p) == IF p.finished # NoTime THEN p.finished ELSE p.started

\* The last change is the end, the creation, or that of the last stage touched.
LEMMA UpdatedFacts ==
    ASSUME NEW a \in AttemptRecord
    PROVE  /\ a.completed # NoTime => UpdatedAt(a) = a.completed
           /\ a.completed = NoTime /\ (\A s \in Phase : ~Touched(a.phases[s])) =>
                 UpdatedAt(a) = a.created
           /\ \A s \in Phase :
                 (/\ a.completed = NoTime /\ Touched(a.phases[s])
                  /\ \A t \in Phase : s < t => ~Touched(a.phases[t]))
                 => UpdatedAt(a) = LastChange(a.phases[s])
  <1> DEFINE changed == {s \in Phase : Touched(a.phases[s])}
             top == CHOOSE s \in changed : \A t \in changed : t <= s
  <1>1. UpdatedAt(a) =
          CASE a.completed # NoTime                   -> a.completed
            [] a.completed = NoTime /\ changed = {}   -> a.created
            [] a.completed = NoTime /\ changed # {} -> LastChange(a.phases[top])
    BY Zenon DEF UpdatedAt, LastChange, Touched
  <1>2. ASSUME NEW s \in Phase, Touched(a.phases[s]), a.completed = NoTime,
               \A t \in Phase : s < t => ~Touched(a.phases[t])
        PROVE  UpdatedAt(a) = LastChange(a.phases[s])
    <2>1. s \in changed /\ \A t \in changed : t <= s
      BY <1>2, PhaseFacts
    <2>2. top \in changed /\ \A t \in changed : t <= top
      BY <2>1
    <2>3. top = s
      <3> HIDE DEF top
      <3>1. top <= s /\ s <= top /\ top \in Nat /\ s \in Nat
        BY <2>1, <2>2, PhaseFacts
      <3>2. QED
        BY <3>1
    <2>4. changed # {}
      BY <2>1
    <2> HIDE DEF changed, top
    <2>5. UpdatedAt(a) = LastChange(a.phases[top])
      BY <1>1, <1>2, <2>4
    <2>6. QED
      BY <2>3, <2>5
  <1>3. (\A s \in Phase : ~Touched(a.phases[s])) => changed = {}
    OBVIOUS
  <1> HIDE DEF changed, top
  <1>4. /\ a.completed # NoTime => UpdatedAt(a) = a.completed
        /\ a.completed = NoTime /\ changed = {} => UpdatedAt(a) = a.created
    BY <1>1
  <1>5. QED
    BY <1>2, <1>3, <1>4

\* Either no stage is touched or one is the last touched.
LEMMA LastTouched ==
    ASSUME NEW a \in AttemptRecord
    PROVE  \/ \A s \in Phase : ~Touched(a.phases[s])
           \/ \E s \in Phase : /\ Touched(a.phases[s])
                               /\ \A t \in Phase : s < t => ~Touched(a.phases[t])
  <1> DEFINE changed == {s \in Phase : Touched(a.phases[s])}
  <1>1. changed \in SUBSET (1 .. Final) /\ Final \in Nat
    BY PhaseFacts
  <1>2. CASE changed = {}
    BY <1>2
  <1>3. CASE changed # {}
    <2>1. \E s \in changed : \A t \in changed : t <= s
      <3> HIDE DEF changed
      <3>1. QED
        BY <1>1, <1>3, LastExists
    <2>2. PICK s \in changed : \A t \in changed : t <= s
      BY <2>1
    <2>3. \A t \in Phase : s < t => ~Touched(a.phases[t])
      BY <2>2, PhaseFacts
    <2>4. QED
      BY <2>2, <2>3
  <1>4. QED
    BY <1>2, <1>3

\* Before the end, the last change is in the past of every host.
LEMMA UpdatedInPast ==
    ASSUME TimelineInv, ClocksAgree, attempt.completed = NoTime, NEW h \in Station
    PROVE  UpdatedAt(attempt) \in Nat /\ UpdatedAt(attempt) <= Clock(h)
  <1>1. attempt \in AttemptRecord
    BY DEF TimelineInv, TimelineTyped
  <1>2. /\ attempt.created \in Nat
        /\ \A s \in Phase : attempt.phases[s].started \in Nat /\ attempt.phases[s].finished \in Nat
    BY <1>1, StampsAreTimes DEF AttemptRecord, PhaseRecord
  <1>3. /\ attempt.created <= Clock(h)
        /\ \A s \in Phase : /\ attempt.phases[s].started <= Clock(h)
                            /\ attempt.phases[s].finished <= Clock(h)
    BY NowIsLate
  <1>4. CASE \A s \in Phase : ~Touched(attempt.phases[s])
    BY <1>1, <1>2, <1>3, <1>4, UpdatedFacts
  <1>5. ASSUME NEW s \in Phase, Touched(attempt.phases[s]),
               \A t \in Phase : s < t => ~Touched(attempt.phases[t])
        PROVE  UpdatedAt(attempt) \in Nat /\ UpdatedAt(attempt) <= Clock(h)
    <2>1. UpdatedAt(attempt) = LastChange(attempt.phases[s])
      BY <1>1, <1>5, UpdatedFacts
    <2>2. QED
      BY <2>1, <1>2, <1>3 DEF LastChange
  <1>6. QED
    BY <1>1, <1>4, <1>5, LastTouched

LEMMA OverallFacts ==
    ASSUME NEW a \in AttemptRecord, NEW b \in AttemptRecord,
           \A s \in Phase : /\ a.phases[s].progress <= b.phases[s].progress
                            /\ a.phases[s].status = "skipped" => b.phases[s].status = "skipped",
           a.status # "succeeded",
           b.status = "succeeded" =>
              \A s \in Phase : PhaseDone(b.phases[s]) /\ ValidPhase(b.phases[s])
    PROVE  /\ overall_progress(b) >= overall_progress(a)
           /\ stage_progress_percent(b) >= stage_progress_percent(a)
           /\ overall_progress(b) = 100 <=> b.status = "succeeded"
  <1>1. /\ WeightedProgress(a) \in Nat /\ WeightedProgress(b) \in Nat
        /\ WeightedProgress(a) <= WeightedProgress(b)
        /\ stage_progress_percent(b) >= stage_progress_percent(a)
    BY SharesGrow
  <1>2. b.status = "succeeded" => WeightedProgress(b) = 100
    BY AllDoneIsWhole
  <1>3. QED
    BY <1>1, <1>2 DEF overall_progress

\* A partial attempt shows less than 100 percent.
LEMMA PartialFacts ==
    ASSUME NEW b \in AttemptRecord, b.status = "partial"
    PROVE  overall_progress(b) # 100
  <1>1. WeightedProgress(b) \in Nat
    <2>1. \A s \in Phase : b.phases[s].progress <= b.phases[s].progress
      BY DEF AttemptRecord, PhaseRecord
    <2>2. QED
      BY <2>1, SharesGrow
  <1>2. QED
    BY <1>1 DEF overall_progress

\* A record that ends the attempt is later, when its stages are not behind.
LEMMA EndIsLater ==
    ASSUME TimelineInv, attempt.status \in {"queued", "running"},
           NEW h \in Station, NEW record \in AttemptRecord, record.completed = Clock(h),
           \/ record.status = "partial"
           \/ record.status = "succeeded"
              /\ \A s \in Phase : PhaseDone(record.phases[s]) /\ ValidPhase(record.phases[s])
           \/ record.status \in {"failed", "cancelled"},
           record.status # "partial" => \A s \in Phase :
              /\ attempt.phases[s].progress <= record.phases[s].progress
              /\ attempt.phases[s].status = "skipped" => record.phases[s].status = "skipped"
    PROVE  Later(attempt, record)
  <1>1. attempt \in AttemptRecord /\ attempt.completed = NoTime /\ Clock(h) # NoTime
    BY ClockFacts DEF TimelineInv, TimelineTyped, AttemptRight, ValidAttempt
  <1>2. ClocksAgree => UpdatedAt(record) >= UpdatedAt(attempt)
    <2>1. UpdatedAt(record) = Clock(h) /\ Clock(h) \in Nat
      BY <1>1, UpdatedFacts, ClockFacts DEF TimelineInv
    <2>2. QED
      BY <2>1, <1>1, UpdatedInPast
  <1>3. CASE record.status = "partial"
    BY <1>2, <1>3, PartialFacts DEF Later
  <1>4. CASE record.status # "partial"
    <2>1. attempt.status # "succeeded"
      OBVIOUS
    <2>2. record.status = "succeeded" =>
             \A s \in Phase : PhaseDone(record.phases[s]) /\ ValidPhase(record.phases[s])
      OBVIOUS
    <2>3. QED
      BY <1>1, <1>2, <1>4, <2>1, <2>2, OverallFacts DEF Later
  <1>5. QED
    BY <1>3, <1>4

LEMMA PhaseIsLater ==
    ASSUME TimelineInv, executor.pc # "rest", NEW s \in Phase, ~PhaseDone(attempt.phases[s]),
           NEW p \in PhaseRecord, p.progress >= attempt.phases[s].progress, Touched(p),
           ClocksAgree => \/ LastChange(p) = Here
                          \/ Touched(attempt.phases[s])
                             /\ LastChange(p) = LastChange(attempt.phases[s]),
           SetPhase(s, p)
    PROVE  Later(attempt, attempt')
  <1>1. /\ attempt \in AttemptRecord /\ attempt.status = "running" /\ attempt.completed = NoTime
        /\ Orderly(attempt.phases) /\ executor.host \in Station
        /\ \A t \in Phase : attempt.phases[t] \in PhaseRecord /\ ValidPhase(attempt.phases[t])
    BY RunningFacts
  <1> DEFINE b == [attempt EXCEPT !.phases[s] = p]
  <1>2. /\ b \in AttemptRecord /\ b.status = "running" /\ b.completed = NoTime
        /\ b.phases[s] = p /\ \A t \in Phase : t # s => b.phases[t] = attempt.phases[t]
    BY <1>1 DEF AttemptRecord
  <1>3. attempt' = b
    BY DEF SetPhase
  <1> HIDE DEF b
  <1>4. \A t \in Phase : s < t => ~Touched(attempt.phases[t]) /\ t # s
    <2> SUFFICES ASSUME NEW t \in Phase, s < t PROVE ~Touched(attempt.phases[t]) /\ t # s
      OBVIOUS
    <2>1. attempt.phases[t].status = "queued"
      BY <1>1 DEF Orderly
    <2>2. QED
      BY <1>1, <2>1, PhaseFacts DEF ValidPhase, Touched
  <1>5. \A t \in Phase : /\ attempt.phases[t].progress <= b.phases[t].progress
                         /\ attempt.phases[t].status = "skipped" => b.phases[t].status = "skipped"
    <2> TAKE t \in Phase
    <2>1. CASE t = s
      BY <2>1, <1>1, <1>2 DEF PhaseDone, PhaseRecord
    <2>2. CASE t # s
      <3>1. attempt.phases[t].progress \in {0, 10, 80, 100}
        BY <1>1 DEF PhaseRecord
      <3>2. QED
        BY <2>2, <3>1, <1>2
    <2>3. QED
      BY <2>1, <2>2
  <1>6. ASSUME ClocksAgree PROVE UpdatedAt(b) >= UpdatedAt(attempt)
    <2>1. UpdatedAt(b) = LastChange(p)
      BY <1>2, <1>4, UpdatedFacts
    <2>2. UpdatedAt(attempt) \in Nat /\ UpdatedAt(attempt) <= Here
      BY <1>1, <1>6, UpdatedInPast DEF Here
    <2>3. CASE LastChange(p) = Here
      BY <2>1, <2>2, <2>3, <1>1, ClockFacts DEF Here, TimelineInv
    <2>4. CASE Touched(attempt.phases[s]) /\ LastChange(p) = LastChange(attempt.phases[s])
      <3>1. UpdatedAt(attempt) = LastChange(attempt.phases[s])
        BY <1>1, <1>4, <2>4, UpdatedFacts
      <3>2. QED
        BY <2>1, <2>2, <2>4, <3>1
    <2>5. QED
      BY <1>6, <2>3, <2>4
  <1>7. QED
    BY <1>1, <1>2, <1>3, <1>5, <1>6, OverallFacts DEF Later

LEMMA BeginIsLater ==
    ASSUME TimelineInv, NEW h \in Station, Begin(h)
    PROVE  attempt' = attempt \/ Later(attempt, attempt')
  <1>1. /\ attempt \in AttemptRecord /\ ValidAttempt(attempt)
        /\ Clock(h) \in Stamp
    BY ClockFacts DEF TimelineInv, TimelineTyped, AttemptRight
  <1>2. attempt.status \in {"queued", "running"} /\ attempt.completed = NoTime
    BY <1>1 DEF Begin, Over, AttemptRecord, ValidAttempt
  <1>3. CASE attempt' = attempt
    BY <1>3
  <1>4. CASE attempt' # attempt
    <2> DEFINE b == [attempt EXCEPT !.status = "running", !.started = Clock(h)]
    <2>1. attempt' = b
      BY <1>4 DEF Begin, Escape
    <2>2. /\ b \in AttemptRecord /\ b.status = "running" /\ b.completed = NoTime
          /\ b.phases = attempt.phases /\ b.created = attempt.created
      BY <1>1, <1>2 DEF AttemptRecord
    <2> HIDE DEF b
    <2>3. \A s \in Phase : attempt.phases[s].progress <= b.phases[s].progress
      BY <1>1, <2>2 DEF AttemptRecord, PhaseRecord
    <2>4. UpdatedAt(b) = UpdatedAt(attempt)
      <3>1. CASE \A s \in Phase : ~Touched(attempt.phases[s])
        BY <3>1, <1>1, <1>2, <2>2, UpdatedFacts
      <3>2. ASSUME NEW s \in Phase, Touched(attempt.phases[s]),
                   \A t \in Phase : s < t => ~Touched(attempt.phases[t])
            PROVE  UpdatedAt(b) = UpdatedAt(attempt)
        BY <3>2, <1>1, <1>2, <2>2, UpdatedFacts
      <3>3. QED
        BY <1>1, <3>1, <3>2, LastTouched
    <2>5. ClocksAgree => UpdatedAt(b) >= UpdatedAt(attempt)
      BY <1>2, <2>4, UpdatedInPast
    <2>6. QED
      BY <1>1, <1>2, <2>1, <2>2, <2>3, <2>5, OverallFacts DEF Later
  <1>5. QED
    BY <1>3, <1>4

LEMMA EnterPhaseIsLater ==
    ASSUME TimelineInv, EnterPhase
    PROVE  attempt' = attempt \/ Later(attempt, attempt')
  <1> DEFINE s == executor.index
             p == attempt.phases[s]
  <1>1. /\ executor.pc = "phase" /\ s \in Phase /\ executor.host \in Station
        /\ p \in PhaseRecord /\ ValidPhase(p) /\ Orderly(attempt.phases)
    BY RunningFacts DEF EnterPhase
  <1>2. Here \in Stamp /\ Here \in Nat /\ Here # NoTime
    BY <1>1, ClockFacts DEF Here, TimelineInv
  <1>3. CASE PhaseDone(p) \/ (p.required /\ asked)
    BY <1>3 DEF EnterPhase, PhaseDone
  <1>4. CASE ~PhaseDone(p) /\ ~p.required
    <2>1. SkipPhase(s)
      BY <1>4 DEF EnterPhase, PhaseDone
    <2> DEFINE q == [p EXCEPT !.status = "skipped", !.finished = Here]
    <2>2. /\ q \in PhaseRecord /\ q.finished = Here /\ q.progress = p.progress
          /\ p.progress \in {0, 10, 80, 100}
      BY <1>1, <1>2 DEF PhaseRecord
    <2>3. SetPhase(s, q)
      BY <2>1 DEF SkipPhase
    <2> HIDE DEF q
    <2>4. Touched(q) /\ LastChange(q) = Here /\ q.progress >= p.progress
      BY <1>2, <2>2 DEF Touched, LastChange
    <2>5. QED
      BY <1>1, <1>4, <2>2, <2>3, <2>4, PhaseIsLater
  <1>5. CASE ~PhaseDone(p) /\ p.required /\ ~asked
    <2>1. RunPhase(s)
      BY <1>5 DEF EnterPhase, PhaseDone
    <2> DEFINE q == [p EXCEPT !.status = "running", !.progress = 10, !.finished = NoTime,
                              !.started = IF @ = NoTime THEN Here ELSE @]
    <2>2. /\ q \in PhaseRecord /\ q.finished = NoTime /\ q.progress = 10
          /\ q.started = (IF p.started = NoTime THEN Here ELSE p.started)
      BY <1>1, <1>2, StampsAreTimes DEF PhaseRecord
    <2>3. SetPhase(s, q)
      BY <2>1 DEF RunPhase
    <2> HIDE DEF q
    <2>4. p.status \in {"queued", "running"} /\ p.finished = NoTime /\ p.progress \in {0, 10}
      BY <1>1, <1>5 DEF Orderly, ValidPhase
    <2>5. q.progress >= p.progress
      BY <2>2, <2>4
    <2>6. Touched(q) /\ (LastChange(q) = Here \/ (Touched(p) /\ LastChange(q) = LastChange(p)))
      BY <1>2, <2>2, <2>4 DEF Touched, LastChange
    <2>7. QED
      BY <1>1, <1>5, <2>2, <2>3, <2>5, <2>6, PhaseIsLater
  <1>6. QED
    BY <1>1, <1>3, <1>4, <1>5 DEF PhaseRecord

LEMMA FinishPhaseIsLater ==
    ASSUME TimelineInv, FinishPhase
    PROVE  attempt' = attempt \/ Later(attempt, attempt')
  <1> DEFINE s == executor.index
             p == attempt.phases[s]
             q == [p EXCEPT !.status = "succeeded", !.progress = 100, !.finished = Here]
  <1>1. executor.pc = "work"
    BY DEF FinishPhase
  <1>2. /\ s \in Phase /\ executor.host \in Station /\ p \in PhaseRecord
        /\ p.status = "running"
    BY <1>1, RunningFacts DEF Reached
  <1>3. Here \in Stamp /\ Here \in Nat /\ Here # NoTime
    BY <1>2, ClockFacts DEF Here, TimelineInv
  <1>4. /\ q \in PhaseRecord /\ q.progress = 100 /\ q.finished = Here
        /\ p.progress \in {0, 10, 80, 100}
    BY <1>2, <1>3 DEF PhaseRecord
  <1>5. CASE asked \/ ~ValidPhase(q)
    BY <1>5 DEF FinishPhase
  <1>6. CASE ~asked /\ ValidPhase(q)
    <2>1. SetPhase(s, q)
      BY <1>6 DEF FinishPhase
    <2> HIDE DEF q
    <2>2. Touched(q) /\ LastChange(q) = Here /\ q.progress >= p.progress /\ ~PhaseDone(p)
      BY <1>2, <1>3, <1>4 DEF Touched, LastChange, PhaseDone
    <2>3. QED
      BY <1>1, <1>2, <1>4, <2>1, <2>2, PhaseIsLater
  <1>7. QED
    BY <1>5, <1>6

LEMMA ConcludeIsLater ==
    ASSUME TimelineInv, Conclude
    PROVE  attempt' = attempt \/ Later(attempt, attempt')
  <1>1. executor.pc = "phase" /\ executor.index \notin Phase
    BY DEF Conclude
  <1>2. CASE attempt' = attempt
    BY <1>2
  <1>3. CASE attempt' # attempt
    <2>1. PICK partial \in BOOLEAN : attempt' = Outcome(partial)
      BY <1>3 DEF Conclude, Outcome
    <2>2. /\ Outcome(partial) \in AttemptRecord
          /\ Outcome(partial).status = (IF partial THEN "partial" ELSE "succeeded")
          /\ Outcome(partial).completed = Here
          /\ ~partial => Outcome(partial).phases = attempt.phases
      BY <1>1, OutcomeFacts
    <2>3. /\ attempt.status = "running" /\ executor.host \in Station
          /\ \A s \in Phase : /\ ValidPhase(attempt.phases[s])
                              /\ attempt.phases[s].progress \in {0, 10, 80, 100}
      BY <1>1, RunningFacts DEF PhaseRecord
    <2>4. \A s \in Phase : PhaseDone(attempt.phases[s])
      BY <1>1, AllDone
    <2>5. Later(attempt, Outcome(partial))
      <3>1. CASE partial
        BY <3>1, <2>2, <2>3, EndIsLater DEF Here
      <3>2. CASE ~partial
        <4>1. \A s \in Phase : /\ attempt.phases[s].progress <= Outcome(partial).phases[s].progress
                               /\ PhaseDone(Outcome(partial).phases[s])
                               /\ ValidPhase(Outcome(partial).phases[s])
                               /\ attempt.phases[s].status = "skipped" =>
                                     Outcome(partial).phases[s].status = "skipped"
          BY <3>2, <2>2, <2>3, <2>4
        <4>2. QED
          BY <3>2, <4>1, <2>2, <2>3, EndIsLater DEF Here
      <3>3. QED
        BY <3>1, <3>2
    <2>6. QED
      BY <2>1, <2>5
  <1>4. QED
    BY <1>2, <1>3

LEMMA HandleStopIsLater ==
    ASSUME TimelineInv, NEW pc \in {"fail", "cancel"}, NEW status \in {"failed", "cancelled"},
           HandleStop(pc, status)
    PROVE  attempt' = attempt \/ Later(attempt, attempt')
  <1> DEFINE record == [attempt EXCEPT !.status = status, !.completed = Here,
                                       !.phases = StoppedPhases(status)]
  <1>1. executor.pc = pc /\ attempt' \in {attempt, record}
    BY DEF HandleStop, EndAs, Escape
  <1>2. /\ attempt \in AttemptRecord /\ executor.host \in Station /\ attempt.status = "running"
        /\ \A s \in Phase : attempt.phases[s].progress \in {0, 10, 80, 100}
    BY <1>1, RunningFacts DEF PhaseRecord
  <1>3. Here \in Stamp
    BY <1>2, ClockFacts DEF Here, TimelineInv
  <1>4. /\ StoppedPhases(status) \in [Phase -> PhaseRecord]
        /\ \A s \in Phase :
              /\ StoppedPhases(status)[s].progress = attempt.phases[s].progress
              /\ attempt.phases[s].status = "skipped" =>
                    StoppedPhases(status)[s].status = "skipped"
    BY <1>1, StoppedFacts
  <1>5. /\ record \in AttemptRecord /\ record.status = status
        /\ record.completed = Here /\ record.phases = StoppedPhases(status)
    BY <1>2, <1>3, <1>4 DEF AttemptRecord
  <1> HIDE DEF record
  <1>6. \A s \in Phase : /\ attempt.phases[s].progress <= record.phases[s].progress
                         /\ attempt.phases[s].status = "skipped" =>
                               record.phases[s].status = "skipped"
    BY <1>2, <1>4, <1>5
  <1>7. Later(attempt, record)
    BY <1>2, <1>5, <1>6, EndIsLater DEF Here
  <1>8. QED
    BY <1>1, <1>7

LEMMA CancelAttemptIsLater ==
    ASSUME TimelineInv, NEW h \in Station, CancelAttempt(h)
    PROVE  attempt' = attempt \/ Later(attempt, attempt')
  <1> DEFINE record == [attempt EXCEPT !.status = "cancelled", !.completed = Clock(h)]
  <1>1. CASE attempt.status # "queued"
    BY <1>1 DEF CancelAttempt
  <1>2. CASE attempt.status = "queued"
    <2>1. attempt' \in {attempt, record}
      BY <1>2 DEF CancelAttempt, EndAs, Escape
    <2>2. attempt \in AttemptRecord /\ Clock(h) \in Stamp
      BY ClockFacts DEF TimelineInv, TimelineTyped
    <2>3. /\ record \in AttemptRecord /\ record.status = "cancelled"
          /\ record.completed = Clock(h) /\ record.phases = attempt.phases
      BY <2>2 DEF AttemptRecord
    <2> HIDE DEF record
    <2>4. \A s \in Phase : /\ attempt.phases[s].progress <= record.phases[s].progress
                           /\ attempt.phases[s].status = "skipped" =>
                                 record.phases[s].status = "skipped"
      BY <2>2, <2>3 DEF AttemptRecord, PhaseRecord
    <2>5. Later(attempt, record)
      BY <1>2, <2>3, <2>4, EndIsLater
    <2>6. QED
      BY <2>1, <2>5
  <1>3. QED
    BY <1>1, <1>2

\* The progress and the time of the last change that a reader is shown never fall, except
\* at the end as partial, and 100 percent means success: for any number of stages, any
\* weights that add up to 100, and whatever is executed again after a crash.
THEOREM ProgressRises == TimelineSpec => ProgressNeverFalls
  <1>1. ASSUME TimelineInv, [TimelineNext]_timelineVars, attempt' # attempt
        PROVE  Later(attempt, attempt')
    <2>1. TimelineNext
      BY <1>1 DEF timelineVars
    <2>2. ASSUME NEW h \in Station, Begin(h) \/ CancelAttempt(h)
          PROVE  Later(attempt, attempt')
      BY <1>1, <2>2, BeginIsLater, CancelAttemptIsLater
    <2>3. CASE ExecuteAttempt
      BY <1>1, <2>3, EnterPhaseIsLater, FinishPhaseIsLater, ConcludeIsLater, HandleStopIsLater
      DEF ExecuteAttempt, HandleFail, HandleCancel
    <2>4. CASE WorkRaises \/ WorkerCrashes \/ TickPasses
      BY <1>1, <2>4 DEF WorkRaises, WorkerCrashes, TickPasses
    <2>5. QED
      BY <2>1, <2>2, <2>3, <2>4 DEF TimelineNext
  <1>2. TimelineInv /\ [TimelineNext]_timelineVars =>
          [attempt' # attempt =>
             /\ \/ attempt'.status = "partial"
                \/ /\ overall_progress(attempt') >= overall_progress(attempt)
                   /\ stage_progress_percent(attempt') >= stage_progress_percent(attempt)
             /\ (overall_progress(attempt') = 100 <=> attempt'.status = "succeeded")
             /\ ClocksAgree => UpdatedAt(attempt') >= UpdatedAt(attempt)]_attempt
    BY <1>1 DEF Later
  <1>3. QED
    BY <1>2, TimelineInvHolds, PTL DEF TimelineSpec, ProgressNeverFalls

----------------------------------------------------------------------------
(* The tracks of a video.  Stitching gives a track of the first half the     *)
(* second half of another one of the same rank: when a track with enough     *)
(* rows exists before, one exists after, whichever way ties are ordered.     *)

RowsTyped ==
    tracks \in [Track -> SUBSET Row] /\ players \in [Track -> [Half -> SUBSET Row]]

TracksInv ==
    /\ RowsTyped /\ reported \in BOOLEAN /\ summary \subseteq Track
    /\ step = "stitch" /\ reported => \E t \in Track : Seen(t) >= MinFrames
    /\ step = "stats" /\ reported => \E t \in Track : Observations(t) >= MinFrames
    /\ step \in {"fatigue", "over"} /\ reported => summary # {}
    /\ step # "over" => \A t \in Track : score[t] = NoScore
    /\ \A t \in Track : score[t] # NoScore => t \in summary

LEMMA RowsFinite == IsFiniteSet(Row)
  BY TrackAssumption, FS_Product DEF Row

\* Sets of rows have a size, and a larger set has at least as many rows.
LEMMA RowsCount ==
    ASSUME NEW S \in SUBSET Row, NEW T \in SUBSET S
    PROVE  /\ IsFiniteSet(S) /\ Cardinality(S) \in Nat /\ Cardinality(T) \in Nat
           /\ Cardinality(T) <= Cardinality(S)
           /\ Cardinality(S) = 0 <=> S = {}
  <1>1. IsFiniteSet(S)
    BY RowsFinite, FS_Subset
  <1>2. IsFiniteSet(T) /\ Cardinality(T) <= Cardinality(S)
    BY <1>1, FS_Subset
  <1>3. QED
    BY <1>1, <1>2, FS_CardinalityType, FS_EmptySet

\* A track has the rows of its halves, and no other.
LEMMA HalvesOfTrack ==
    ASSUME RowsTyped, NEW t \in Track
    PROVE  /\ Cardinality(SeenIn(t, 1)) \in Nat /\ Cardinality(SeenIn(t, 2)) \in Nat
           /\ Seen(t) = Cardinality(SeenIn(t, 1)) + Cardinality(SeenIn(t, 2))
           /\ \A h \in Half : t \notin Active(h) => Cardinality(SeenIn(t, h)) = 0
           /\ \A h \in Half : SeenIn(t, h) \subseteq Row
  <1>1. tracks[t] \in SUBSET Row
    BY DEF RowsTyped
  <1>2. SeenIn(t, 1) \in SUBSET tracks[t] /\ SeenIn(t, 2) \in SUBSET tracks[t]
    BY DEF SeenIn
  <1>3. /\ tracks[t] = SeenIn(t, 1) \cup SeenIn(t, 2)
        /\ SeenIn(t, 1) \cap SeenIn(t, 2) = {}
    BY DEF SeenIn, HalfOf
  <1>4. /\ IsFiniteSet(SeenIn(t, 1)) /\ IsFiniteSet(SeenIn(t, 2))
        /\ Cardinality(SeenIn(t, 1)) \in Nat /\ Cardinality(SeenIn(t, 2)) \in Nat
    BY <1>1, <1>2, RowsCount
  <1>5. Cardinality(SeenIn(t, 1) \cup SeenIn(t, 2))
           = Cardinality(SeenIn(t, 1)) + Cardinality(SeenIn(t, 2)) - Cardinality({})
    BY <1>3, <1>4, FS_Union
  <1>6. Cardinality({}) = 0
    BY FS_EmptySet
  <1>7. Seen(t) = Cardinality(SeenIn(t, 1)) + Cardinality(SeenIn(t, 2))
    BY <1>3, <1>4, <1>5, <1>6 DEF Seen
  <1>8. \A h \in Half : t \notin Active(h) => Cardinality(SeenIn(t, h)) = 0
    BY <1>6 DEF Active
  <1>9. QED
    BY <1>1, <1>2, <1>4, <1>7, <1>8 DEF Half

\* A track whose second half goes to t leaves t with at least its rows.
LEMMA GivenRows ==
    ASSUME RowsTyped, NEW first, NEW second, NEW t \in Track, NEW u \in Track,
           \/ \E i \in DOMAIN second : second[i] = u /\ first[i] = t
           \/ u = t /\ \A i \in DOMAIN second : second[i] # u
    PROVE  /\ Cardinality(Stitched(first, second, t)) >= Cardinality(SeenIn(u, 2))
           /\ Cardinality(Stitched(first, second, t)) \in Nat
  <1>1. Stitched(first, second, t) \in SUBSET Row
    <2>1. \A v \in Track : SeenIn(v, 2) \subseteq Row
      BY HalvesOfTrack DEF Half
    <2>2. QED
      BY <2>1 DEF Stitched
  <1>2. SeenIn(u, 2) \in SUBSET Stitched(first, second, t)
    BY DEF Stitched
  <1>3. QED
    BY <1>1, <1>2, RowsCount

LEMMA RankingFacts ==
    ASSUME NEW h \in Half, NEW rank \in Ranking(h)
    PROVE  /\ DOMAIN rank = 1 .. NumStitched
           /\ \A i \in 1 .. NumStitched : rank[i] \in Active(h) /\ rank[i] \in Track
           /\ \A i, j \in 1 .. NumStitched : rank[i] = rank[j] => i = j
           /\ \A i \in 1 .. NumStitched : \A t \in Active(h) :
                 Cardinality(SeenIn(t, h)) > Cardinality(SeenIn(rank[i], h)) =>
                    \E j \in 1 .. i - 1 : rank[j] = t
  BY DEF Ranking, Active

\* As many tracks of each half are stitched: the ranks are natural numbers.
LEMMA NumStitchedType == RowsTyped => NumStitched \in Nat
  <1> SUFFICES ASSUME RowsTyped PROVE NumStitched \in Nat
    OBVIOUS
  <1>1. \A h \in Half : Cardinality(Active(h)) \in Nat
    <2> TAKE h \in Half
    <2>1. Active(h) \in SUBSET Track
      BY DEF Active
    <2>2. QED
      BY <2>1, TrackAssumption, FS_Subset, FS_CardinalityType
  <1> DEFINE sizes == {TopTracks, Cardinality(Active(1)), Cardinality(Active(2))}
  <1>2. \E x \in sizes : (x \in Nat /\ \A y \in sizes : x <= y)
    <2> DEFINE a == Cardinality(Active(1))
               b == Cardinality(Active(2))
    <2>1. a \in Nat /\ b \in Nat /\ TopTracks \in Nat
      BY <1>1, TrackAssumption DEF Half
    <2> HIDE DEF a, b
    <2>2. \E x \in {TopTracks, a, b} : x \in Nat /\ \A y \in {TopTracks, a, b} : x <= y
      BY <2>1
    <2>3. QED
      BY <2>2 DEF a, b
  <1>3. sizes \subseteq Nat
    BY <1>1, TrackAssumption DEF Half
  <1> HIDE DEF sizes
  <1>4. (CHOOSE x \in sizes : \A y \in sizes : x <= y) \in sizes
    BY <1>2
  <1>5. QED
    BY <1>3, <1>4 DEF NumStitched, Min, sizes

\* Whichever way the halves are ranked, some track has at least the rows afterwards that
\* a track had before.
LEMMA StitchingKeepsRows ==
    ASSUME RowsTyped, NEW first \in Ranking(1), NEW second \in Ranking(2), NEW t \in Track
    PROVE  \E u \in Track :
              Cardinality(SeenIn(u, 1)) + Cardinality(Stitched(first, second, u)) >= Seen(t)
  <1> DEFINE before(u, h) == Cardinality(SeenIn(u, h))
             after(u) == Cardinality(Stitched(first, second, u))
  <1>1. /\ 1 \in Half /\ 2 \in Half /\ NumStitched \in Nat
        /\ \A i \in 1 .. NumStitched : first[i] \in Track /\ second[i] \in Track
        /\ DOMAIN second = 1 .. NumStitched
    BY NumStitchedType, RankingFacts DEF Half
  <1>2. \A u \in Track : before(u, 1) \in Nat /\ before(u, 2) \in Nat
    BY HalvesOfTrack
  <1>3. Seen(t) = before(t, 1) + before(t, 2)
    BY HalvesOfTrack
  <1>4. \A i \in 1 .. NumStitched :
           after(first[i]) \in Nat /\ after(first[i]) >= before(second[i], 2)
    BY <1>1, GivenRows
  <1>5. (\A i \in 1 .. NumStitched : second[i] # t) => after(t) \in Nat /\ after(t) >= before(t, 2)
    BY <1>1, GivenRows
  <1>6. \A i \in 1 .. NumStitched : first[i] = t => after(t) \in Nat
    BY <1>4
  <1>7. \A h \in Half : t \notin Active(h) => before(t, h) = 0
    BY HalvesOfTrack
  <1>8. \A i \in 1 .. NumStitched :
           before(t, 1) > before(first[i], 1) => \E j \in 1 .. i - 1 : first[j] = t
    <2> SUFFICES ASSUME NEW i \in 1 .. NumStitched, before(t, 1) > before(first[i], 1)
                 PROVE  \E j \in 1 .. i - 1 : first[j] = t
      OBVIOUS
    <2>1. t \in Active(1)
      BY <1>1, <1>2, <1>7
    <2>2. QED
      BY <2>1, <1>1, RankingFacts
  <1>9. \A i \in 1 .. NumStitched :
           before(t, 2) > before(second[i], 2) => \E j \in 1 .. i - 1 : second[j] = t
    <2> SUFFICES ASSUME NEW i \in 1 .. NumStitched, before(t, 2) > before(second[i], 2)
                 PROVE  \E j \in 1 .. i - 1 : second[j] = t
      OBVIOUS
    <2>1. t \in Active(2)
      BY <1>1, <1>2, <1>7
    <2>2. QED
      BY <2>1, <1>1, RankingFacts
  <1>10. \A i, j \in 1 .. NumStitched : first[i] = first[j] => i = j
    BY <1>1, RankingFacts
  <1> HIDE DEF before, after
  \* The track of the same rank in the first half is no shorter there.
  <1>11. ASSUME NEW j \in 1 .. NumStitched, second[j] = t,
                \A i \in 1 .. NumStitched : first[i] = t => j <= i
         PROVE  \E u \in Track : before(u, 1) + after(u) >= Seen(t)
    <2>1. before(first[j], 1) >= before(t, 1)
      <3>1. \A i \in 1 .. j - 1 : i \in 1 .. NumStitched /\ ~(j <= i)
        BY <1>1
      <3>2. ~(before(t, 1) > before(first[j], 1))
        BY <3>1, <1>8, <1>11
      <3>3. QED
        BY <3>2, <1>1, <1>2
    <2>2. after(first[j]) \in Nat /\ after(first[j]) >= before(t, 2) /\ first[j] \in Track
      BY <1>1, <1>4, <1>11
    <2>3. before(first[j], 1) + after(first[j]) >= Seen(t)
      BY <2>1, <2>2, <1>2, <1>3
    <2>4. QED
      BY <2>2, <2>3
  \* A track of the first half gets a second half no shorter than its own.
  <1>12. ASSUME NEW i \in 1 .. NumStitched, first[i] = t,
                ~ \E j \in 1 .. i - 1 : second[j] = t
         PROVE  \E u \in Track : before(u, 1) + after(u) >= Seen(t)
    <2>1. ~(before(t, 2) > before(second[i], 2)) /\ second[i] \in Track
      BY <1>1, <1>9, <1>12
    <2>2. after(t) \in Nat /\ after(t) >= before(second[i], 2)
      BY <1>4, <1>12
    <2>3. before(t, 1) + after(t) >= Seen(t)
      BY <2>1, <2>2, <1>2, <1>3
    <2>4. QED
      BY <2>3
  <1>13. ASSUME NEW i \in 1 .. NumStitched, first[i] = t,
                NEW j \in 1 .. i - 1, second[j] = t
         PROVE  \E u \in Track : before(u, 1) + after(u) >= Seen(t)
    <2>1. j \in 1 .. NumStitched /\ j <= i
      BY <1>1
    <2>2. \A k \in 1 .. NumStitched : first[k] = t => j <= k
      BY <2>1, <1>10, <1>13
    <2>3. QED
      BY <2>1, <2>2, <1>11, <1>13
  <1>14. ASSUME \A j \in 1 .. NumStitched : second[j] # t
         PROVE  \E u \in Track : before(u, 1) + after(u) >= Seen(t)
    <2>1. before(t, 1) + after(t) >= Seen(t)
      BY <1>2, <1>3, <1>5, <1>14
    <2>2. QED
      BY <2>1
  <1>15. \E u \in Track : before(u, 1) + after(u) >= Seen(t)
    <2>1. CASE \E i \in 1 .. NumStitched : first[i] = t
      <3>1. PICK i \in 1 .. NumStitched : first[i] = t
        BY <2>1
      <3>2. CASE \E j \in 1 .. i - 1 : second[j] = t
        BY <3>1, <3>2, <1>13
      <3>3. QED
        BY <3>1, <3>2, <1>12
    <2>2. CASE ~ \E i \in 1 .. NumStitched : first[i] = t
      <3>1. CASE \E j \in 1 .. NumStitched : second[j] = t
        <4>1. PICK j \in 1 .. NumStitched : second[j] = t
          BY <3>1
        <4>2. QED
          BY <4>1, <2>2, <1>11
      <3>2. QED
        BY <3>1, <1>14
    <2>3. QED
      BY <2>1, <2>2
  <1>16. QED
    BY <1>15 DEF before, after

LEMMA StatisticsInitially == StatisticsInit => TracksInv
  <1> SUFFICES ASSUME StatisticsInit PROVE TracksInv
    OBVIOUS
  <1>1. PICK seen \in [Track -> SUBSET Frame] : tracks = [t \in Track |-> {t} \X seen[t]]
    BY DEF StatisticsInit
  <1>2. RowsTyped
    BY <1>1 DEF StatisticsInit, RowsTyped, Row
  <1>3. QED
    BY <1>2 DEF StatisticsInit, TracksInv

LEMMA StatisticsStepKeeps == TracksInv /\ [StatisticsNext]_statisticsVars => TracksInv'
  <1> SUFFICES ASSUME TracksInv, [StatisticsNext]_statisticsVars PROVE TracksInv'
    OBVIOUS
  <1>1. CASE UNCHANGED statisticsVars
    BY <1>1 DEF statisticsVars, TracksInv, RowsTyped, Seen, Observations
  <1>2. CASE TrackVideo
    <2>1. /\ RowsTyped' /\ reported' \in BOOLEAN /\ summary' \subseteq Track
          /\ step' \in {"stitch", "over"} /\ (step' = "over" => ~reported')
      BY <1>2 DEF TrackVideo, TracksInv, RowsTyped
    <2>2. ASSUME reported' PROVE \E t \in Track : Seen(t)' >= MinFrames
      <3>1. PICK t \in Track : Seen(t) >= NoiseFrames /\ Seen(t) >= MinFrames
        BY <1>2, <2>2 DEF TrackVideo
      <3>2. Seen(t)' = Seen(t)
        BY <1>2, <3>1 DEF TrackVideo, Seen
      <3>3. QED
        BY <3>1, <3>2
    <2>3. QED
      BY <1>2, <2>1, <2>2 DEF TrackVideo, TracksInv
  <1>3. CASE StitchHalves
    <2>1. PICK first \in Ranking(1), second \in Ranking(2) :
             players' = [t \in Track |-> [h \in Half |->
                           IF h = 1 THEN SeenIn(t, 1) ELSE Stitched(first, second, t)]]
      BY <1>3 DEF StitchHalves
    <2>2. \A t \in Track : SeenIn(t, 1) \subseteq Row /\ Stitched(first, second, t) \subseteq Row
      BY HalvesOfTrack DEF Stitched, TracksInv, Half
    <2>3. RowsTyped'
      BY <1>3, <2>1, <2>2 DEF StitchHalves, TracksInv, RowsTyped
    <2>4. \A t \in Track : Observations(t)' =
             Cardinality(SeenIn(t, 1)) + Cardinality(Stitched(first, second, t))
      BY <2>1 DEF Observations, Half
    <2>5. ASSUME reported PROVE \E t \in Track : Observations(t)' >= MinFrames
      <3>1. PICK t \in Track : Seen(t) >= MinFrames
        BY <1>3, <2>5 DEF StitchHalves, TracksInv
      <3>2. PICK u \in Track : Observations(u)' >= Seen(t)
        BY <2>4, StitchingKeepsRows DEF TracksInv
      <3>3. Seen(t) \in Nat /\ Observations(u)' \in Nat /\ MinFrames \in Nat
        <4>1. Seen(t) \in Nat
          BY HalvesOfTrack DEF TracksInv
        <4>2. Cardinality(SeenIn(u, 1)) \in Nat /\ Cardinality(Stitched(first, second, u)) \in Nat
          BY <2>2, RowsCount
        <4>3. QED
          BY <4>1, <4>2, <2>4, TrackAssumption
      <3>4. QED
        BY <3>1, <3>2, <3>3
    <2>6. QED
      BY <1>3, <2>3, <2>5 DEF StitchHalves, TracksInv
  <1>4. CASE AggregateTracks
    <2>1. RowsTyped' /\ summary' \subseteq Track /\ step' \in {"fatigue", "over"}
      BY <1>4 DEF AggregateTracks, TracksInv, RowsTyped
    <2>2. reported => summary' # {}
      BY <1>4 DEF AggregateTracks, TracksInv
    <2>3. QED
      BY <1>4, <2>1, <2>2 DEF AggregateTracks, TracksInv
  <1>5. CASE ScoreTracks
    <2>1. RowsTyped' /\ UNCHANGED <<reported, summary>> /\ step' = "over"
      BY <1>5 DEF ScoreTracks, TracksInv, RowsTyped
    <2>2. \A t \in Track : t \notin summary => score'[t] = NoScore
      BY <1>5 DEF ScoreTracks
    <2>3. QED
      BY <1>5, <2>1, <2>2 DEF ScoreTracks, TracksInv
  <1>6. QED
    BY <1>1, <1>2, <1>3, <1>4, <1>5 DEF StatisticsNext

LEMMA TracksInvHolds == StatisticsSpec => []TracksInv
  BY StatisticsInitially, StatisticsStepKeeps, PTL DEF StatisticsSpec

\* When tracking reports that a track survives its filters, the statistics hold at least
\* one player: for any number of tracks and frames, any thresholds, and every order in
\* which ties of a half may be ranked.
THEOREM ReportedTracksAreCounted == StatisticsSpec => []ReportedTracksSurvive
  <1>1. TracksInv => ReportedTracksSurvive
    BY DEF TracksInv, ReportedTracksSurvive
  <1>2. QED
    BY <1>1, TracksInvHolds, PTL

LEMMA StatisticsTypeCorrect == StatisticsSpec => []StatisticsTypeOK
  <1>1. TracksInv => StatisticsTypeOK
    BY DEF TracksInv, RowsTyped, StatisticsTypeOK
  <1>2. QED
    BY <1>1, TracksInvHolds, PTL

----------------------------------------------------------------------------
(* The host.  One component takes steps at a time: a behaviour of the host   *)
(* is a behaviour of each component that may stutter, so what is proved of a *)
(* component holds of the host.                                              *)

LEMMA HostRunsPipeline == FairSpec => PipelineSpec
  <1>1. Init => PipelineInit
    BY DEF Init
  <1>2. [Next]_vars => [PipelineNext]_pipelineVars
    <2>1. CASE UNCHANGED vars
      BY <2>1 DEF vars
    <2>2. ASSUME Next PROVE [PipelineNext]_pipelineVars
      BY <2>2 DEF Next, PipelineNext, OnlyLock
    <2>3. QED
      BY <2>1, <2>2
  <1>3. QED
    BY <1>1, <1>2, PTL DEF FairSpec, PipelineSpec

LEMMA HostRunsLocks == FairSpec => LockSpec
  <1>1. Init => LockInit
    BY DEF Init
  <1>2. [Next]_vars => [LockNext]_lockVars
    <2>1. CASE UNCHANGED vars
      BY <2>1 DEF vars
    <2>2. ASSUME Next PROVE [LockNext]_lockVars
      BY <2>2 DEF Next, OnlyPipeline
    <2>3. QED
      BY <2>1, <2>2
  <1>3. QED
    BY <1>1, <1>2, PTL DEF FairSpec, LockSpec

LEMMA HostRunsTimeline == FairSpec => TimelineSpec
  <1>1. Init => TimelineInit
    BY DEF Init
  <1>2. [Next]_vars => [TimelineNext]_timelineVars
    <2>1. CASE UNCHANGED vars
      BY <2>1 DEF vars
    <2>2. ASSUME Next PROVE [TimelineNext]_timelineVars
      BY <2>2 DEF Next, OnlyPipeline, OnlyLock
    <2>3. QED
      BY <2>1, <2>2
  <1>3. QED
    BY <1>1, <1>2, PTL DEF FairSpec, TimelineSpec

LEMMA HostRunsStatistics == FairSpec => StatisticsSpec
  <1>1. Init => StatisticsInit
    BY DEF Init
  <1>2. [Next]_vars => [StatisticsNext]_statisticsVars
    <2>1. CASE UNCHANGED vars
      BY <2>1 DEF vars
    <2>2. ASSUME Next PROVE [StatisticsNext]_statisticsVars
      BY <2>2 DEF Next, OnlyPipeline, OnlyLock
    <2>3. QED
      BY <2>1, <2>2
  <1>3. QED
    BY <1>1, <1>2, PTL DEF FairSpec, StatisticsSpec

\* On the host, every variable of every component keeps its type, the locks and their
\* counts, the recorded times and the end of an attempt included.
THEOREM HostTypeCorrect == FairSpec => []TypeOK
  <1>1. FairSpec => /\ []PipelineTypeOK /\ []LockTypeOK
                    /\ []TimelineTypeOK /\ []StatisticsTypeOK
    BY HostRunsPipeline, HostRunsLocks, HostRunsTimeline, HostRunsStatistics,
       PipelineTyped, LocksTypeCorrect, TimelineTypeCorrect, StatisticsTypeCorrect
  <1>2. PipelineTypeOK /\ LockTypeOK /\ TimelineTypeOK /\ StatisticsTypeOK => TypeOK
    BY DEF TypeOK
  <1>3. QED
    BY <1>1, <1>2, PTL

=============================================================================
