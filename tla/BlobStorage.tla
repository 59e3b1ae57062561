------------------------------ MODULE BlobStorage ------------------------------
(***************************************************************************)
(* Inputs in Azure Blob Storage: one object per attempt, written by a      *)
(* multipart request, by the browser under a write grant, or by a server-  *)
(* side copy.  An operation of this module is one remote call; the modules *)
(* that EXTEND it have the requests that string them together.             *)
(*                                                                         *)
(* Bytes are a model value.  The service itself is external: a copy is     *)
(* pending until the service completes or fails it, an object that is      *)
(* being copied is listed but empty, and a change of an object changes its *)
(* etag (kept as the requests that have read the current one).             *)
(***************************************************************************)
EXTENDS Deployment, Integers

CONSTANTS
    Footage,      \* what a browser may upload
    Size,         \* content -> bytes; 0 is the content of an empty object
    MaxBytes,     \* the configured upload limit
    MaxUploads    \* bounds the PUTs of a behaviour

ASSUME FootageAssumption == /\ 0 \notin Footage /\ Size \in [Footage \cup {0} -> Nat]
                            /\ \A v \in Footage \cup {0} : Size[v] = 0 <=> v = 0
ASSUME BoundAssumption   == MaxBytes \in Nat /\ MaxUploads \in Nat

VARIABLES
    blob,     \* run -> its input object
    grant,    \* run -> its upload grant
    uploads   \* PUTs so far

storageVars == <<blob, grant, uploads>>

\* "tag" is the checksum in the metadata (0 when there is none), "copy" the copy
\* that wrote the object, "readers" the requests holding the current etag.
Blob == [exists  : BOOLEAN,
         data    : Footage \cup {0},
         tag     : Footage \cup {0},
         copy    : {"none", "pending", "success", "failed"},
         readers : SUBSET Request]

NoBlob == [exists |-> FALSE, data |-> 0, tag |-> 0, copy |-> "none", readers |-> {}]

StorageInit ==
    /\ blob    = [r \in Run |-> NoBlob]
    /\ grant   = [r \in Run |-> "none"]
    /\ uploads = 0

StorageTypeOK ==
    /\ blob \in [Run -> Blob]
    /\ grant \in [Run -> {"none", "open", "expired"}]
    /\ uploads \in 0 .. MaxUploads

\* An object whose bytes are all there.
Whole(r) == blob[r].exists /\ blob[r].copy \in {"none", "success"}

StoredSize(r) == IF Whole(r) THEN Size[blob[r].data] ELSE 0

Store(r, b) ==
    /\ blob' = [blob EXCEPT ![r] = b]
    /\ UNCHANGED <<grant, uploads>>

----------------------------------------------------------------------------
(* The upload grant: a create+write signature for one object, which runs     *)
(* out.  Within its lifetime the browser may repeat its PUT, which replaces  *)
(* the object with its metadata.                                             *)

AuthorizeUpload(r) ==
    /\ grant' = [grant EXCEPT ![r] = "open"]
    /\ UNCHANGED <<blob, uploads>>

Upload(r, content) ==
    /\ grant[r] = "open"
    /\ uploads < MaxUploads
    /\ uploads' = uploads + 1
    /\ blob' = [blob EXCEPT ![r] = [NoBlob EXCEPT !.exists = TRUE, !.data = content]]
    /\ UNCHANGED grant

ExpireGrant(r) ==
    /\ grant[r] = "open"
    /\ grant' = [grant EXCEPT ![r] = "expired"]
    /\ UNCHANGED <<blob, uploads>>

----------------------------------------------------------------------------
(* finalize_upload: properties, checks, download, metadata.                  *)

\* The size and content type the control plane accepts.
AcceptableUpload(r) == StoredSize(r) \in 1 .. MaxBytes

ReadProperties(c, r) == Store(r, [blob[r] EXCEPT !.readers = @ \cup {c}])

\* Seeded fault: the metadata are set whatever the object is by now.
TagAnyVersion(c, r, digest) ==
    /\ blob[r].exists
    /\ Store(r, [blob[r] EXCEPT !.tag = digest, !.readers = {}])

\* set_blob_metadata with if_match.
TagVersion(c, r, digest) ==
    /\ c \in blob[r].readers
    /\ Store(r, [blob[r] EXCEPT !.tag = digest, !.readers = {}])

----------------------------------------------------------------------------
(* put_input_file: hash the file, then one write-once upload.                *)

PutBlob(r, content) ==
    /\ ~blob[r].exists
    /\ Store(r, [NoBlob EXCEPT !.exists = TRUE, !.data = content, !.tag = content])

----------------------------------------------------------------------------
(* copy_input.                                                               *)

\* The source is listed, its metadata name a checksum, and its recorded size is the
\* size it has (an object still being copied has none yet).
CopyableSource(r) == blob[r].exists /\ blob[r].tag # 0 /\ StoredSize(r) = Size[blob[r].tag]

\* start_copy_from_url with if_none_match; the checksum that was read before goes
\* along as the metadata of the copy.
StartCopy(from, to, expected) ==
    /\ ~blob[to].exists
    /\ blob[from].exists
    /\ Store(to, [NoBlob EXCEPT !.exists = TRUE, !.tag = expected, !.copy = "pending",
                               !.data = IF Whole(from) THEN blob[from].data ELSE 0])

\* The service ends a copy, or never does.
EndCopy(r, status) ==
    /\ blob[r].copy = "pending"
    /\ Store(r, [blob[r] EXCEPT !.copy = status, !.readers = {}])

\* abort_copy raises when the copy is not pending any more.
AbortCopy(r) == EndCopy(r, "failed")

DeleteInput(r) == Store(r, NoBlob)

\* The completed copy has the size and the metadata that were expected.
CopyVerified(r, expected) ==
    blob[r].exists /\ StoredSize(r) = Size[expected] /\ blob[r].tag = expected

=============================================================================
