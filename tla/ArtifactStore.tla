--------------------------- MODULE ArtifactStore ---------------------------
(***************************************************************************)
(* Content-addressed artifacts (app/artifacts): the filesystem store of a  *)
(* single host and the S3 store of a fleet.  put() spools the bytes, then  *)
(* makes them visible under their digest in one step (os.replace, or a     *)
(* copy inside the bucket), with a temporary object in between; processes  *)
(* crash and S3 calls fail between any two of these steps.  Workers then   *)
(* verify() the reference before they hand it to the core.                 *)
(*                                                                         *)
(* A content stands for its own SHA-256 digest; a cut-off prefix of it is  *)
(* another content.                                                        *)
(***************************************************************************)
EXTENDS Naturals, FiniteSets

CONSTANTS
    Puts,           \* concurrent put() calls, each with a temporary name
    Contents,       \* contents that are stored
    SizeOf,         \* their sizes, in chunks
    SizeLimit       \* expected_max_bytes

ASSUME ArtifactAssumption ==
    SizeOf \in [Contents -> Nat] /\ SizeLimit \in Nat

VARIABLES
    store,      \* ARTIFACT_STORE_BACKEND: "filesystem" or "s3"
    upload,     \* the put() calls
    temps,      \* temporary files or objects: put -> chunks written
    objects,    \* what lies under each digest: digest -> [content, chunks]
    refs        \* digests put() has returned

artifactVars == <<store, upload, temps, objects, refs>>

Idle == [at |-> "idle"]
NoObject == [chunks |-> 0, of |-> "nothing"]
UploadSteps == {"idle", "spool", "visible", "cleanup", "verify", "done"}

(* Uploads, temporaries and objects have the types the code gives them.     *)
ArtifactTypeOK ==
    /\ store \in {"filesystem", "s3"}
    /\ \A p \in Puts : upload[p].at \in UploadSteps
    /\ DOMAIN temps \subseteq Puts
    /\ DOMAIN objects = Contents
    /\ refs \subseteq Contents

ArtifactInit ==
    /\ store \in {"filesystem", "s3"}
    /\ upload = [p \in Puts |-> Idle]
    /\ temps = [p \in {} |-> 0]
    /\ objects = [c \in Contents |-> NoObject]
    /\ refs = {}

Uploading(p, step) == upload[p].at = step
Becomes(p, step) == upload' = [upload EXCEPT ![p].at = step]
WithTemp(p, n) == [q \in DOMAIN temps \cup {p} |-> IF q = p THEN n ELSE temps[q]]
WithoutTemp(p) == [q \in DOMAIN temps \ {p} |-> temps[q]]

-----------------------------------------------------------------------------
BeginPut(p, c) ==
    /\ upload[p] = Idle
    /\ upload' = [upload EXCEPT ![p] = [at |-> "spool", content |-> c, read |-> 0]]
    /\ temps' = IF store = "filesystem" THEN WithTemp(p, 0) ELSE temps
    /\ UNCHANGED <<objects, refs>>

(* One chunk of the source: past the limit put() raises and its finally     *)
(* block removes the temporary file.  S3 spools in memory.                  *)
TooLarge(n) == n > SizeLimit

ReadChunk(p) ==
    /\ Uploading(p, "spool") /\ upload[p].read < SizeOf[upload[p].content]
    /\ IF TooLarge(upload[p].read + 1)
       THEN /\ upload' = [upload EXCEPT ![p] = [at |-> "done"]]
            /\ temps' = WithoutTemp(p)
       ELSE /\ upload' = [upload EXCEPT ![p].read = @ + 1]
            /\ temps' = IF store = "filesystem" THEN WithTemp(p, upload[p].read + 1) ELSE temps
    /\ UNCHANGED <<objects, refs>>

Spooled(p) == Uploading(p, "spool") /\ upload[p].read = SizeOf[upload[p].content]

(* upload_fileobj to the temporary key; it may fail with part of the bytes  *)
(* there, after which the finally block deletes the key.                    *)
UploadTemp(p) ==
    /\ store = "s3" /\ Spooled(p)
    /\ temps' = WithTemp(p, upload[p].read)
    /\ Becomes(p, "visible")
    /\ UNCHANGED <<objects, refs>>

UploadFails(p, n) ==
    /\ store = "s3" /\ Spooled(p) /\ n <= upload[p].read
    /\ temps' = WithTemp(p, n)
    /\ upload' = [upload EXCEPT ![p] = [at |-> "cleanup"]]
    /\ UNCHANGED <<objects, refs>>

Complete(c) == [chunks |-> SizeOf[c], of |-> "content"]

(* copy_object, server side; or fsync and os.replace, skipped when the      *)
(* destination is there already.                                            *)
MakeVisibleEarly(p) ==
    LET c == upload[p].content IN
    /\ IF store = "s3" THEN Uploading(p, "visible") ELSE Uploading(p, "spool")
    /\ objects' = [objects EXCEPT ![c] = [chunks |-> temps[p], of |-> "content"]]
    /\ IF store = "s3"
       THEN Becomes(p, "cleanup") /\ UNCHANGED temps
       ELSE Becomes(p, "verify") /\ temps' = WithoutTemp(p)
    /\ refs' = IF store = "s3" THEN refs ELSE refs \cup {c}

MakeVisible(p) ==
    LET c == upload[p].content IN
    /\ IF store = "s3" THEN Uploading(p, "visible") ELSE Spooled(p)
    /\ objects' = [objects EXCEPT ![c] = [chunks |-> temps[p], of |-> "content"]]
    /\ IF store = "s3"
       THEN Becomes(p, "cleanup") /\ UNCHANGED temps
       ELSE Becomes(p, "verify") /\ temps' = WithoutTemp(p)
    /\ refs' = IF store = "s3" THEN refs ELSE refs \cup {c}

CopyFails(p) ==
    /\ store = "s3" /\ Uploading(p, "visible")
    /\ upload' = [upload EXCEPT ![p] = [at |-> "cleanup"]]
    /\ UNCHANGED <<temps, objects, refs>>

(* delete_object of the temporary key: on the good path its failure fails   *)
(* the put and is tried again; in the finally block it is only logged.      *)
Cleanup(p, works) ==
    /\ store = "s3" /\ Uploading(p, "cleanup")
    /\ temps' = IF works THEN WithoutTemp(p) ELSE temps
    /\ IF "content" \in DOMAIN upload[p]
       THEN IF works THEN Becomes(p, "verify") /\ refs' = refs \cup {upload[p].content}
            ELSE upload' = [upload EXCEPT ![p] = [at |-> "cleanup"]] /\ UNCHANGED refs
       ELSE upload' = [upload EXCEPT ![p] = [at |-> "done"]] /\ UNCHANGED refs
    /\ UNCHANGED objects

(* verify() compares the object with the reference; the caller raises when  *)
(* they differ.                                                             *)
Verifies(c) == objects[c] = Complete(c)
VerifyPut(p) ==
    /\ Uploading(p, "verify")
    /\ upload' = [upload EXCEPT ![p] =
            [at |-> "done", verified |-> Verifies(upload[p].content)]]
    /\ UNCHANGED <<temps, objects, refs>>

(* The process dies: its calls are gone, files and objects stay.            *)
CrashStore ==
    /\ upload' = [p \in Puts |-> IF upload[p] = Idle THEN Idle ELSE [at |-> "done"]]
    /\ UNCHANGED <<temps, objects, refs>>

ArtifactStep ==
    \/ \E p \in Puts :
        \/ \E c \in Contents : BeginPut(p, c)
        \/ ReadChunk(p) \/ UploadTemp(p) \/ MakeVisible(p) \/ CopyFails(p) \/ VerifyPut(p)
        \/ \E n \in 0 .. SizeLimit : UploadFails(p, n)
        \/ \E works \in BOOLEAN : Cleanup(p, works)
    \/ CrashStore

ArtifactNext == ArtifactStep /\ UNCHANGED store

-----------------------------------------------------------------------------
(* Under a digest there is nothing or all of its content, at every moment   *)
(* of every put and after every crash; a reference that was given out keeps *)
(* resolving, and a put that ended well verifies.                           *)
DigestsAreTrue ==
    /\ \A c \in Contents : objects[c] \in {NoObject, Complete(c)}
    /\ \A c \in refs : Verifies(c)
    /\ \A p \in Puts : "verified" \in DOMAIN upload[p] => upload[p].verified
    /\ \A c \in Contents : objects[c] # NoObject => SizeOf[c] <= SizeLimit
=============================================================================
