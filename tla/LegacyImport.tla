------------------------------ MODULE LegacyImport ------------------------------
(***************************************************************************)
(* LegacyV1Importer.import_directory: the files of a V1 result directory   *)
(* are hashed, copied into a new run of the local store and hashed again,  *)
(* while V1 (which shares no lock with the importer) may rewrite them.     *)
(*                                                                         *)
(* A source file is the version of its content, 0 when it is missing; no   *)
(* version comes back once it was replaced.  Artifact a is the copy of     *)
(* source file a.  The quality warnings written beside them are constant   *)
(* and left out.                                                           *)
(***************************************************************************)
EXTENDS LocalRunStore

CONSTANTS
    Minimum,      \* the files an import cannot do without
    MaxEdits      \* bounds the changes V1 makes to its files

ASSUME MinimumAssumption == Minimum \subseteq Artifact
ASSUME EditsAssumption   == MaxEdits \in Nat /\ 1 .. MaxEdits + 1 \subseteq Content

VARIABLES
    source,   \* source file -> its version
    edits,    \* changes so far
    import    \* the local state of the importing process

importVars == <<source, edits, import>>

ImportPc == {"idle", "hash", "reserve", "manifest", "start", "read", "copy", "failed",
             "rehash", "finish", "replace", "done"}

\* "found" are the files of the first scan, "hashes" the source checksums recorded
\* in the parameters of the run, "todo" the files a loop has not visited, "held" what
\* it read, "copied" the artifact references so far, "new" the manifest to save.
ImportState == [pc     : ImportPc,
                run    : Run \cup {NoRun},
                found  : SUBSET Artifact,
                todo   : SUBSET Artifact,
                held   : Content \cup {0},
                hashes : Contents,
                copied : Contents,
                new    : Manifest]

NoImport == [pc |-> "idle", run |-> NoRun, found |-> {}, todo |-> {}, held |-> 0,
             hashes |-> NoContents, copied |-> NoContents, new |-> With("queued")]

ImportInit ==
    /\ source = NoContents
    /\ edits = 0
    /\ import = NoImport

ImportTypeOK ==
    /\ source \in Contents
    /\ edits \in 0 .. MaxEdits
    /\ import \in ImportState

Goto(state) == import' = state /\ UNCHANGED <<source, edits>>

\* V1 replaces or removes one of its files.
Edit(a) ==
    /\ edits < MaxEdits
    /\ edits' = edits + 1
    /\ \E version \in {0, edits + 2} :
          /\ source[a] # version
          /\ source' = [source EXCEPT ![a] = version]
    /\ UNCHANGED <<import, storeVars>>

\* Stages whose files are available succeed, those with a missing file are partial.
\* Seeded fault: every stage of an import is recorded as succeeded.
AllStagesSucceed(present) == [a \in Artifact |-> "succeeded"]

CompletedStages(present) ==
    [a \in Artifact |-> IF a \in present THEN "succeeded" ELSE "partial"]

\* Validation of a partial run: some required stage has to be incomplete.
EvidenceOfPartial(stages) == \E a \in Artifact : stages[a] # "succeeded"

----------------------------------------------------------------------------
(* The import, in the order of the code.  An import that misses a file of    *)
(* the minimum raises at once; the model leaves it out.                      *)

\* V1 has written the files that are found.
FindSources ==
    /\ import.pc = "idle"
    /\ \E found \in SUBSET Artifact :
          /\ Minimum \subseteq found
          /\ source' = [a \in Artifact |-> IF a \in found THEN 1 ELSE 0]
          /\ import' = [NoImport EXCEPT !.pc = "hash", !.found = found, !.todo = found]
    /\ UNCHANGED <<edits, storeVars>>

Ending(pc) == [import EXCEPT !.pc = pc]

\* A loop over the files that were found: "state" is what it becomes after file a.
\* The last file leads to pc, with the next loop ready.
Visit(state, pc) ==
    IF state.todo = {} THEN [state EXCEPT !.pc = pc, !.todo = state.found] ELSE state

Remaining == {a \in import.todo : \A b \in import.todo : a <= b}

\* A file that is gone by now raises, before anything is stored.
HashSource ==
    /\ import.pc = "hash"
    /\ \E a \in Remaining :
          Goto(IF source[a] = 0 THEN Ending("done")
               ELSE Visit([import EXCEPT !.todo = @ \ {a}, !.hashes[a] = source[a]], "reserve"))
    /\ UNCHANGED storeVars

ReserveImport(r) ==
    /\ import.pc = "reserve"
    /\ Reserve(r)
    /\ Goto([import EXCEPT !.pc = "manifest", !.run = r])

WriteImport ==
    /\ import.pc = "manifest"
    /\ WriteNewManifest(import.run)
    /\ Goto([import EXCEPT !.pc = "start"])

\* A save checks, then replaces; one that is refused raises and ends the process.
SaveImport(pc, status, contents) ==
    LET new == [status |-> status, artifacts |-> contents]
    IN  /\ import.pc = pc
        /\ Goto(IF SaveAccepts(import.run, new)
                THEN [import EXCEPT !.pc = "replace", !.new = new]
                ELSE Ending("done"))
        /\ UNCHANGED storeVars

StartImport == SaveImport("start", "running", NoContents)

ReplaceImport ==
    /\ import.pc = "replace"
    /\ ReplaceManifest(import.run, import.new)
    /\ Goto(Ending(IF import.new.status = "running" THEN "read" ELSE "done"))

\* read_bytes; a file that is gone raises in the guarded copy.
ReadSource ==
    /\ import.pc = "read"
    /\ \E a \in Remaining :
          Goto(IF source[a] = 0 THEN Ending("failed")
               ELSE [import EXCEPT !.pc = "copy", !.held = source[a]])
    /\ UNCHANGED storeVars

\* write_artifact; a run that is not running any more raises.
CopySource ==
    LET copied(a) == [import EXCEPT !.pc = "read", !.todo = @ \ {a}, !.held = 0,
                                    !.copied[a] = import.held]
    IN  /\ import.pc = "copy"
        /\ IF AcceptsArtifacts(import.run)
           THEN \E a \in Remaining :
                   /\ Link(import.run, a, import.held)
                   /\ Goto(Visit(copied(a), "rehash"))
           ELSE Goto(Ending("failed")) /\ UNCHANGED storeVars

\* The handler of a failed copy.
FailImport == SaveImport("failed", "failed", NoContents)

\* Seeded fault: the sources are not looked at again.
TrustSource ==
    /\ import.pc = "rehash"
    /\ Goto(Ending("finish"))
    /\ UNCHANGED storeVars

\* A source that changed ends the process, outside of any handler.
RehashSource ==
    /\ import.pc = "rehash"
    /\ \E a \in Remaining :
          Goto(IF source[a] = import.hashes[a]
               THEN Visit([import EXCEPT !.todo = @ \ {a}], "finish")
               ELSE Ending("done"))
    /\ UNCHANGED storeVars

\* Complete sets succeed, incomplete ones end partial if the contract accepts them.
FinishImport ==
    IF import.found = Artifact
    THEN SaveImport("finish", "succeeded", import.copied)
    ELSE IF EvidenceOfPartial(CompletedStages(import.found))
    THEN SaveImport("finish", "partial", import.copied)
    ELSE import.pc = "finish" /\ Goto(Ending("done")) /\ UNCHANGED storeVars

ImportStep ==
    \/ \E r \in Run : ReserveImport(r)
    \/ HashSource \/ WriteImport \/ StartImport \/ ReplaceImport
    \/ ReadSource \/ CopySource \/ FailImport \/ RehashSource \/ FinishImport

=============================================================================
