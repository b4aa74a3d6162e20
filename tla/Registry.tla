------------------------------ MODULE Registry ------------------------------
(***************************************************************************)
(* The in-memory registry of pkg/registry: the content-addressed blob      *)
(* store of blobs.go and the manifest store of manifest.go.                *)
(*                                                                         *)
(* Every handler that changes a store runs under that store's mutex from   *)
(* its first look at the map to its last write, the read of the request    *)
(* body included, so a request is one atomic step here.  What a step can   *)
(* get wrong is the body: io.Copy's error is dropped by every handler, so  *)
(* a connection that breaks leaves the handler with a proper prefix of the *)
(* body, which it stores as if it were all of it.                          *)
(*                                                                         *)
(* A handler is modelled by the status it answers (an operator on the      *)
(* state before) and by the change it makes (an action).  RegistryClients  *)
(* composes the handlers with clients that send what the API allows,       *)
(* RemoteWrite with the client of pkg/v1/remote.                           *)
(***************************************************************************)
EXTENDS Naturals, Sequences

CONSTANTS
    Repos,      \* repository names
    Tags,       \* tags a manifest can be put under
    UploadIds,  \* what rand.Int63 may return
    Blobs,      \* byte strings (sequences of chunks) that clients push
    ImageDocs,  \* manifest documents of images
    IndexDocs,  \* manifest documents of indexes
    OtherDocs,  \* manifest documents of any other media type
    Children    \* the documents each index lists

\* SHA-256 as a collision-free function of the bytes.
Sha256(bytes) == [sha256 |-> bytes]

\* A manifest document whose transfer broke off: it no longer parses.
Cut(doc) == [cut |-> doc]

Docs == ImageDocs \cup IndexDocs \cup OtherDocs
WireDocs == Docs \cup {Cut(doc) : doc \in Docs}

ASSUME RegistryAssumption ==
    /\ ImageDocs \cap IndexDocs = {}
    /\ OtherDocs \cap (ImageDocs \cup IndexDocs) = {}
    /\ Children \in [IndexDocs -> SUBSET Docs]
    /\ \A doc \in Docs : Cut(doc) \notin Docs
    \* name/tag.go: a tag has no colon, so it is never a digest.
    /\ \A tag \in Tags : \A doc \in WireDocs : tag # Sha256(doc)

VARIABLES
    contents,   \* blobs.contents: digest -> bytes
    uploads,    \* blobs.uploads: upload id -> bytes received so far
    manifests   \* manifests.manifests: repo -> target -> manifest

regVars == <<contents, uploads, manifests>>

(***************************************************************************)
(* Data.                                                                   *)
(***************************************************************************)

ContentTypes == {"image", "index", "other"}

\* The content type under which a document is sent.
ContentTypeOf(doc) ==
    CASE doc \in IndexDocs -> "index"
      [] doc \in OtherDocs -> "other"
      [] OTHER -> "image"

\* The map f after f[k] = v.
Put(f, k, v) == [x \in DOMAIN f \cup {k} |-> IF x = k THEN v ELSE f[x]]

\* The map f after delete(f, k).
Del(f, k) == [x \in DOMAIN f \ {k} |-> f[x]]

\* b.uploads[id], the nil slice when the map has no such key.
UploadBytes(id) == IF id \in DOMAIN uploads THEN uploads[id] ELSE <<>>

(***************************************************************************)
(* blobs.handle                                                            *)
(***************************************************************************)

\* HEAD and GET.
BlobStatus(digest) ==
    IF digest \in DOMAIN contents THEN "OK" ELSE "BLOB_UNKNOWN"

\* POST /blobs/uploads?digest=...: the whole blob in one request.
PostMonolithic(digest, body) ==
    /\ contents' = IF Sha256(body) = digest
                     THEN Put(contents, digest, body)
                     ELSE contents
    /\ UNCHANGED <<uploads, manifests>>

\* Mutant: the offset of a chunk is not compared with what is there.
PatchChunkAnywhere(id, start, body) ==
    /\ uploads' = Put(uploads, id, UploadBytes(id) \o body)
    /\ UNCHANGED <<contents, manifests>>

\* PATCH with a Content-Range: append one chunk at the place it names.
PatchChunk(id, start, body) ==
    /\ uploads' = IF start = Len(UploadBytes(id))
                    THEN Put(uploads, id, UploadBytes(id) \o body)
                    ELSE uploads
    /\ UNCHANGED <<contents, manifests>>

PatchStreamStatus(id) ==
    IF id \in DOMAIN uploads THEN "BLOB_UPLOAD_INVALID" ELSE "NO_CONTENT"

\* PATCH without a Content-Range: the first write streams the whole blob.
PatchStream(id, body) ==
    /\ uploads' = IF PatchStreamStatus(id) = "NO_CONTENT"
                    THEN Put(uploads, id, body)
                    ELSE uploads
    /\ UNCHANGED <<contents, manifests>>

\* Mutant: the digest is checked before the rest of the body is read.
PutBlobStatusEarly(id, digest, body) ==
    IF Sha256(UploadBytes(id)) = digest THEN "CREATED" ELSE "DIGEST_INVALID"

PutBlobStatus(id, digest, body) ==
    IF Sha256(UploadBytes(id) \o body) = digest
      THEN "CREATED" ELSE "DIGEST_INVALID"

\* Mutant: the two maps' keys are exchanged.
PutBlobSwapped(id, digest, body) ==
    /\ IF PutBlobStatus(id, digest, body) = "CREATED"
         THEN /\ contents' = Put(contents, id, UploadBytes(id) \o body)
              /\ uploads' = Del(uploads, digest)
         ELSE UNCHANGED <<contents, uploads>>
    /\ UNCHANGED manifests

\* Mutant: the upload is not deleted.
PutBlobKeepsUpload(id, digest, body) ==
    /\ contents' = IF PutBlobStatus(id, digest, body) = "CREATED"
                     THEN Put(contents, digest, UploadBytes(id) \o body)
                     ELSE contents
    /\ UNCHANGED <<uploads, manifests>>

\* Mutant: the upload is deleted on a mismatch too.
PutBlobAlwaysDeletes(id, digest, body) ==
    /\ contents' = IF PutBlobStatus(id, digest, body) = "CREATED"
                     THEN Put(contents, digest, UploadBytes(id) \o body)
                     ELSE contents
    /\ uploads' = Del(uploads, id)
    /\ UNCHANGED manifests

\* PUT /blobs/uploads/id?digest=...: check the digest, move the upload to
\* contents.  A mismatch leaves the upload where it was.
PutBlob(id, digest, body) ==
    /\ IF PutBlobStatus(id, digest, body) = "CREATED"
         THEN /\ contents' = Put(contents, digest, UploadBytes(id) \o body)
              /\ uploads' = Del(uploads, id)
         ELSE UNCHANGED <<contents, uploads>>
    /\ UNCHANGED manifests

(***************************************************************************)
(* manifests.handle                                                        *)
(***************************************************************************)

RepoManifests(repo) ==
    IF repo \in DOMAIN manifests THEN manifests[repo] ELSE <<>>

\* HEAD and GET.
ManifestStatus(repo, target) ==
    IF repo \notin DOMAIN manifests THEN "NAME_UNKNOWN"
    ELSE IF target \in DOMAIN manifests[repo] THEN "OK" ELSE "MANIFEST_UNKNOWN"

\* What v1.ParseIndexManifest finds in a document: json.Unmarshal of an
\* image manifest into an IndexManifest succeeds and lists nothing.
ListedIn(doc) == IF doc \in IndexDocs THEN Children[doc] ELSE {}

\* Mutant: a child may be in any repository, as blobs may.
PutManifestStatusAnyRepo(repo, contentType, doc) ==
    IF /\ contentType = "index"
       /\ \/ doc \notin Docs
          \/ \E child \in ListedIn(doc) :
                \A other \in DOMAIN manifests :
                    Sha256(child) \notin DOMAIN manifests[other]
      THEN "MANIFEST_UNKNOWN"
      ELSE "CREATED"

PutManifestStatus(repo, contentType, doc) ==
    IF /\ contentType = "index"
       /\ \/ doc \notin Docs
          \/ \E child \in ListedIn(doc) :
                Sha256(child) \notin DOMAIN RepoManifests(repo)
      THEN "MANIFEST_UNKNOWN"
      ELSE "CREATED"

\* PUT /manifests/target.  The repository's map is created before anything
\* is checked; the document is stored under the target, whatever the
\* target is, and under its own digest.
PutManifest(repo, target, contentType, doc) ==
    LET mf  == [contentType |-> contentType, blob |-> doc]
        old == RepoManifests(repo)
    IN  /\ manifests' =
             Put(manifests, repo,
                 IF PutManifestStatus(repo, contentType, doc) = "CREATED"
                   THEN Put(Put(old, target, mf), Sha256(doc), mf)
                   ELSE old)
        /\ UNCHANGED <<contents, uploads>>

RegInit ==
    /\ contents = <<>>
    /\ uploads = <<>>
    /\ manifests = <<>>

(***************************************************************************)
(* Properties, whoever the clients are.                                    *)
(***************************************************************************)

\* The maps of the two stores hold what their Go types say.
RegTypeOK ==
    /\ contents \in [DOMAIN contents -> Seq(Nat)]
    /\ uploads \in [DOMAIN uploads -> Seq(Nat)]
    /\ DOMAIN uploads \subseteq UploadIds
    /\ DOMAIN manifests \subseteq Repos

\* Whatever is cut, repeated or reordered, the bytes served for a digest
\* are the bytes of that digest (blobs.handle, POST and PUT with a digest).
BlobsMatchDigest == \A d \in DOMAIN contents : Sha256(contents[d]) = d
=============================================================================
