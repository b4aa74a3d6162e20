------------------------------ MODULE BlobPush ------------------------------
(***************************************************************************)
(* What a pusher does with one request sequence, as one step: uploadOne    *)
(* and commitManifest of pkg/v1/remote/write.go.  RemoteWrite models both  *)
(* request by request; it has the proof that an upload which ends without  *)
(* an error has stored its blob (DoneStored in RemoteWriteProofs), and     *)
(* that is what the step here does.  Upload ids do not repeat, so what an  *)
(* abandoned upload leaves in the registry is of no concern to anybody.    *)
(***************************************************************************)
EXTENDS Images

CONSTANT MaxFaults      \* bound: uploads and commits that fail

VARIABLE faults

PushInit == RegInit /\ faults = 0

NoFault == UNCHANGED faults
Fault == faults < MaxFaults /\ faults' = faults + 1

\* What an upload leaves in the registry.
StoreBlob(b) ==
    /\ contents' = Put(contents, Sha256(b), b)
    /\ UNCHANGED <<uploads, manifests>>

\* uploadOne returns nil: the blob was there or has been uploaded.
UploadOne(b) == StoreBlob(b) /\ NoFault

\* uploadOne returns an error: the commit may have reached the registry.
UploadOneFails(b) ==
    /\ Fault
    /\ StoreBlob(b) \/ UNCHANGED regVars

\* checkExistingManifest: true or false without an error.
Exists(repo, doc) == ManifestStatus(repo, Sha256(doc)) = "OK"

\* commitManifest returns nil.
CommitManifest(repo, target, doc) ==
    /\ PutManifestStatus(repo, ContentTypeOf(doc), doc) = "CREATED"
    /\ PutManifest(repo, target, ContentTypeOf(doc), doc)
    /\ NoFault

\* commitManifest returns an error: the registry refused the manifest, or
\* the request or its answer was lost, or its body was cut.
CommitManifestRefused(repo, target, doc) ==
    /\ PutManifestStatus(repo, ContentTypeOf(doc), doc) # "CREATED"
    /\ PutManifest(repo, target, ContentTypeOf(doc), doc)
    /\ NoFault

CommitManifestUnanswered(repo, target, doc) ==
    /\ Fault
    /\ \/ \E wire \in {doc, Cut(doc)} :
             PutManifest(repo, target, ContentTypeOf(doc), wire)
       \/ UNCHANGED regVars

CommitManifestFails(repo, target, doc) ==
    \/ CommitManifestRefused(repo, target, doc)
    \/ CommitManifestUnanswered(repo, target, doc)
=============================================================================
