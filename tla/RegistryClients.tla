-------------------------- MODULE RegistryClients --------------------------
(***************************************************************************)
(* The registry of pkg/registry with any number of clients that send what  *)
(* the distribution API allows, over connections that may break, repeat a  *)
(* request or deliver it late.  A client is honest (it sends the bytes of  *)
(* the blob it announces, from the offset it announces) but otherwise      *)
(* unconstrained: chunks come in any order and any number of times, and    *)
(* only a prefix of any body may reach the handler.                        *)
(***************************************************************************)
EXTENDS Registry

CONSTANT BlobOf     \* the blob that the client of each upload sends

ASSUME ClientsAssumption ==
    /\ Blobs \subseteq Seq(Nat)
    /\ BlobOf \in [UploadIds -> Blobs]

\* The bytes of b from offset i on, cut anywhere by the connection.
Arriving(b, i) == {SubSeq(b, i + 1, j) : j \in i .. Len(b)}

Init == RegInit

SendMonolithic ==
    \E b \in Blobs : \E body \in Arriving(b, 0) :
        PostMonolithic(Sha256(b), body)

SendChunk ==
    \E id \in UploadIds : \E start \in 0 .. Len(BlobOf[id]) :
        \E body \in Arriving(BlobOf[id], start) : PatchChunk(id, start, body)

SendStream ==
    \E id \in UploadIds : \E body \in Arriving(BlobOf[id], 0) :
        PatchStream(id, body)

\* The closing PUT may carry the rest of the blob, from any offset.
SendPut ==
    \E id \in UploadIds : \E start \in 0 .. Len(BlobOf[id]) :
        \E body \in Arriving(BlobOf[id], start) :
            PutBlob(id, Sha256(BlobOf[id]), body)

\* A manifest is put by tag or by its digest and arrives whole or cut.
SendManifest ==
    \E repo \in Repos, doc \in Docs :
        \E target \in Tags \cup {Sha256(doc)}, wire \in {doc, Cut(doc)} :
            PutManifest(repo, target, ContentTypeOf(doc), wire)

Next == SendMonolithic \/ SendChunk \/ SendStream \/ SendPut \/ SendManifest

Spec == Init /\ [][Next]_regVars

(***************************************************************************)
(* Properties.                                                             *)
(***************************************************************************)

\* Only pushed blobs are served, and manifests are kept under tags and
\* digests with the content type they were sent with.
TypeOK ==
    /\ RegTypeOK
    /\ DOMAIN contents \subseteq {Sha256(b) : b \in Blobs}
    /\ \A repo \in DOMAIN manifests :
          /\ DOMAIN manifests[repo] \subseteq Tags \cup {Sha256(doc) : doc \in WireDocs}
          /\ \A target \in DOMAIN manifests[repo] :
                manifests[repo][target] \in
                    [contentType : ContentTypes, blob : WireDocs]

\* An open upload holds a prefix of its client's blob: a lost, repeated or
\* out-of-order chunk never leaves a gap or an overlap that the next chunk
\* would build on (the start check of the ranged PATCH, the first-write
\* check of the streaming one, and the PUT that fails without appending).
UploadIsPrefix ==
    \A id \in DOMAIN uploads :
        /\ Len(uploads[id]) <= Len(BlobOf[id])
        /\ uploads[id] = SubSeq(BlobOf[id], 1, Len(uploads[id]))

\* An upload leaves the map only in the step that stores its whole blob: a
\* PUT whose body is cut fails without losing the bytes already received.
UploadKeptUntilStored ==
    [][\A id \in DOMAIN uploads :
          id \notin DOMAIN uploads' =>
              /\ Sha256(BlobOf[id]) \in DOMAIN contents'
              /\ contents'[Sha256(BlobOf[id])] = BlobOf[id]]_regVars

\* Every child of an index stored with an index content type is in the
\* index's own repository, for as long as the index is there: children are
\* never overwritten away and an index never outlives them.
IndexChildrenPresent ==
    \A repo \in DOMAIN manifests : \A target \in DOMAIN manifests[repo] :
        LET mf == manifests[repo][target]
        IN  mf.contentType = "index" =>
                \A child \in ListedIn(mf.blob) :
                    Sha256(child) \in DOMAIN manifests[repo]
=============================================================================
