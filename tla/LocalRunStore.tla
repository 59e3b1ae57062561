----------------------------- MODULE LocalRunStore -----------------------------
(***************************************************************************)
(* The run store of a local deployment: one directory per attempt, shared  *)
(* by API requests, workers and imports without any lock.  This module has *)
(* the files and the store's operations; a step of an operation is one     *)
(* system call others can come between (the modules that EXTEND this one   *)
(* have the processes).                                                    *)
(*                                                                         *)
(* A manifest keeps its status and, per artifact, the content it registers *)
(* (hash and size as one number, 0 when it registers none).                *)
(***************************************************************************)
EXTENDS Deployment, Integers

CONSTANTS
    NumArtifacts,    \* artifacts of an attempt
    Content          \* the contents an artifact can have

ASSUME ArtifactAssumption == NumArtifacts \in Nat \ {0}
ASSUME ContentAssumption  == 0 \notin Content

VARIABLES
    space,     \* run -> whether its namespace is free, reserved or has a manifest
    manifest,  \* run -> the stored manifest
    input,     \* run -> its input file: none, partial while it is written, or whole
    marker,    \* run -> whether it has a cancellation marker
    artifact   \* run -> artifact -> the content of its file, 0 when absent

storeVars == <<space, manifest, input, marker, artifact>>

Status == {"queued", "running", "succeeded", "partial", "failed", "cancelled"}

Ended == {"succeeded", "partial", "failed", "cancelled"}

Artifact == 1 .. NumArtifacts

Contents == [Artifact -> Content \cup {0}]

NoContents == [a \in Artifact |-> 0]

Manifest == [status : Status, artifacts : Contents]

With(status) == [status |-> status, artifacts |-> NoContents]

StoreInit ==
    /\ space    = [r \in Run |-> "free"]
    /\ manifest = [r \in Run |-> With("queued")]
    /\ input    = [r \in Run |-> "none"]
    /\ marker   = [r \in Run |-> FALSE]
    /\ artifact = [r \in Run |-> NoContents]

StoreTypeOK ==
    /\ space \in [Run -> {"free", "reserved", "written"}]
    /\ manifest \in [Run -> Manifest]
    /\ input \in [Run -> {"none", "partial", "whole"}]
    /\ marker \in [Run -> BOOLEAN]
    /\ artifact \in [Run -> Contents]

----------------------------------------------------------------------------
(* create: mkdir reserves the name, the manifest is written into it, and a   *)
(* write that raises removes the namespace again.                            *)

Reserve(r) ==
    /\ space[r] = "free"
    /\ space' = [space EXCEPT ![r] = "reserved"]
    /\ UNCHANGED <<manifest, input, marker, artifact>>

WriteNewManifest(r) ==
    /\ space' = [space EXCEPT ![r] = "written"]
    /\ manifest' = [manifest EXCEPT ![r] = With("queued")]
    /\ UNCHANGED <<input, marker, artifact>>

RemoveNamespace(r) ==
    /\ space' = [space EXCEPT ![r] = "free"]
    /\ UNCHANGED <<manifest, input, marker, artifact>>

\* load finds a complete manifest.
Readable(r) == space[r] = "written"

Has(r, statuses) == Readable(r) /\ manifest[r].status \in statuses

----------------------------------------------------------------------------
(* save: load the stored manifest and check it, then replace the file.       *)

Successors(status) ==
    CASE status = "queued"  -> {"queued", "running", "failed", "cancelled"}
      [] status = "running" -> {"running", "succeeded", "partial", "failed", "cancelled"}
      [] OTHER              -> {}

ArtifactsVerified(r, contents) ==
    \A a \in Artifact : contents[a] # 0 => artifact[r][a] = contents[a]

SaveAccepts(r, new) ==
    /\ Readable(r)
    /\ new.status \in Successors(manifest[r].status)
    /\ new.status \in {"succeeded", "partial"} => ArtifactsVerified(r, new.artifacts)

ReplaceManifest(r, new) ==
    /\ manifest' = [manifest EXCEPT ![r] = new]
    /\ UNCHANGED <<space, input, marker, artifact>>

----------------------------------------------------------------------------
(* write_artifact: look at the status, then link the finished file; the name *)
(* can be linked once.                                                       *)

AcceptsArtifacts(r) == Has(r, {"running"})

\* Seeded fault: the file is renamed over whatever has its name.
LinkOver(r, a, content) ==
    /\ artifact' = [artifact EXCEPT ![r][a] = content]
    /\ UNCHANGED <<space, manifest, input, marker>>

Link(r, a, content) ==
    /\ artifact[r][a] = 0
    /\ artifact' = [artifact EXCEPT ![r][a] = content]
    /\ UNCHANGED <<space, manifest, input, marker>>

\* artifact_reference_integrity and read_artifact_bytes compare size and hash.
ArtifactIntegrity(r, a, content) == artifact[r][a] = content

----------------------------------------------------------------------------
(* Inputs are written in place: the name exists before the bytes do.         *)

\* input_path: one file, whatever is in it.
OneInput(r) == input[r] # "none"

HasInput(r) == Readable(r) /\ OneInput(r)

OpenInput(r) ==
    /\ input[r] = "none"
    /\ input' = [input EXCEPT ![r] = "partial"]
    /\ UNCHANGED <<space, manifest, marker, artifact>>

FinishInput(r) ==
    /\ input' = [input EXCEPT ![r] = "whole"]
    /\ UNCHANGED <<space, manifest, marker, artifact>>

RemoveInput(r) ==
    /\ input' = [input EXCEPT ![r] = "none"]
    /\ UNCHANGED <<space, manifest, marker, artifact>>

----------------------------------------------------------------------------
(* request_cancellation: load the status, then put the marker in place.      *)

AcceptsMarker(r) == Readable(r) /\ manifest[r].status \notin Ended

PutMarker(r) ==
    /\ marker' = [marker EXCEPT ![r] = TRUE]
    /\ UNCHANGED <<space, manifest, input, artifact>>

CancellationRequested(r) == marker[r]

=============================================================================
