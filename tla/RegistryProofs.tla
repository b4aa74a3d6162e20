--------------------------- MODULE RegistryProofs ---------------------------
(***************************************************************************)
(* What the registry guarantees for any number of clients, blobs,          *)
(* documents and repositories.                                             *)
(***************************************************************************)
EXTENDS RegistryClients, TLAPS

(***************************************************************************)
(* What the handlers of the registry do to its stores.                     *)
(***************************************************************************)

\* f[k] = v touches f at k alone (every map write of blobs.go, manifest.go).
LEMMA PutFacts ==
    ASSUME NEW f, NEW k, NEW v
    PROVE  /\ DOMAIN Put(f, k, v) = DOMAIN f \cup {k}
           /\ Put(f, k, v)[k] = v
           /\ \A x \in DOMAIN f : x # k => Put(f, k, v)[x] = f[x]
  BY DEF Put

\* Writing a value of a map's type keeps the type.
LEMMA PutType ==
    ASSUME NEW S, NEW f, f \in [DOMAIN f -> S], NEW k, NEW v \in S
    PROVE  Put(f, k, v) \in [DOMAIN Put(f, k, v) -> S]
  BY DEF Put

\* delete(f, k) of blobs.go:212.
LEMMA DelFacts ==
    ASSUME NEW S, NEW f, f \in [DOMAIN f -> S], NEW k
    PROVE  /\ Del(f, k) \in [DOMAIN Del(f, k) -> S]
           /\ DOMAIN Del(f, k) = DOMAIN f \ {k}
  BY DEF Del

\* A digest determines the bytes.
LEMMA Sha256Injective ==
    ASSUME NEW a, NEW b, Sha256(a) = Sha256(b)
    PROVE  a = b
<1>1. Sha256(a).sha256 = a /\ Sha256(b).sha256 = b
  BY DEF Sha256
<1> QED BY <1>1

\* The store of blobs only grows.
ContentsGrow ==
    \A d \in DOMAIN contents : d \in DOMAIN contents' /\ contents'[d] = contents[d]

\* A PUT stores bytes under their own digest only, and the digest it was
\* given is stored when it answers CREATED (blobs.go:197-216).
LEMMA PutBlobEffect ==
    ASSUME RegTypeOK, BlobsMatchDigest,
           NEW id, NEW digest, NEW body \in Seq(Nat), PutBlob(id, digest, body)
    PROVE  /\ RegTypeOK' /\ BlobsMatchDigest' /\ ContentsGrow /\ UNCHANGED manifests
           /\ PutBlobStatus(id, digest, body) = "CREATED" => digest \in DOMAIN contents'
<1> DEFINE bytes == UploadBytes(id) \o body
<1>1. bytes \in Seq(Nat)
  BY DEF RegTypeOK, UploadBytes
<1>2. CASE PutBlobStatus(id, digest, body) = "CREATED"
  <2>1. Sha256(bytes) = digest
    BY <1>2 DEF PutBlobStatus
  <2>2. contents' = Put(contents, digest, bytes) /\ uploads' = Del(uploads, id)
        /\ UNCHANGED manifests
    BY <1>2 DEF PutBlob
  <2>3. RegTypeOK'
    <3>1. contents' \in [DOMAIN contents' -> Seq(Nat)]
      BY <1>1, <2>2, PutType DEF RegTypeOK
    <3>2. uploads' \in [DOMAIN uploads' -> Seq(Nat)] /\ DOMAIN uploads' \subseteq UploadIds
      <4>1. uploads \in [DOMAIN uploads -> Seq(Nat)] /\ DOMAIN uploads \subseteq UploadIds
        BY DEF RegTypeOK
      <4>2. /\ Del(uploads, id) \in [DOMAIN Del(uploads, id) -> Seq(Nat)]
            /\ DOMAIN Del(uploads, id) = DOMAIN uploads \ {id}
        BY <4>1, DelFacts
      <4>3. uploads' = Del(uploads, id)
        BY <2>2
      <4> QED BY <4>1, <4>2, <4>3
    <3> QED BY <3>1, <3>2, <2>2 DEF RegTypeOK
  <2> HIDE DEF bytes
  <2>4. digest \in DOMAIN contents' /\ contents'[digest] = bytes
    BY <2>2 DEF Put
  <2>5. \A d \in DOMAIN contents : d # digest => contents'[d] = contents[d]
    BY <2>2 DEF Put
  <2>6. DOMAIN contents' = DOMAIN contents \cup {digest}
    BY <2>2 DEF Put
  <2>7. digest \in DOMAIN contents => contents[digest] = bytes
    BY <2>1, Sha256Injective DEF BlobsMatchDigest
  <2>8. ContentsGrow
    BY <2>4, <2>5, <2>6, <2>7 DEF ContentsGrow
  <2>9. BlobsMatchDigest'
    BY <2>1, <2>4, <2>5, <2>6 DEF BlobsMatchDigest, Sha256
  <2> QED BY <2>2, <2>3, <2>4, <2>8, <2>9
<1>3. CASE PutBlobStatus(id, digest, body) # "CREATED"
  BY <1>3 DEF PutBlob, RegTypeOK, BlobsMatchDigest, ContentsGrow
<1> QED BY <1>2, <1>3

\* The manifest PUT changes manifests alone, and everything it adds to them
\* is the document it carries (manifest.go:115-161).
LEMMA PutManifestEffect ==
    ASSUME RegTypeOK, BlobsMatchDigest, NEW repo \in Repos, NEW target,
           NEW contentType, NEW doc, PutManifest(repo, target, contentType, doc)
    PROVE  /\ RegTypeOK' /\ BlobsMatchDigest' /\ UNCHANGED <<contents, uploads>>
           /\ \A r \in DOMAIN manifests' : \A x \in DOMAIN manifests'[r] :
                \/ manifests'[r][x].blob = doc
                \/ /\ r \in DOMAIN manifests /\ x \in DOMAIN manifests[r]
                   /\ manifests'[r][x] = manifests[r][x]
<1> DEFINE mf  == [contentType |-> contentType, blob |-> doc]
           old == RepoManifests(repo)
           new == IF PutManifestStatus(repo, contentType, doc) = "CREATED"
                    THEN Put(Put(old, target, mf), Sha256(doc), mf)
                    ELSE old
<1>1. manifests' = Put(manifests, repo, new) /\ UNCHANGED <<contents, uploads>>
  BY DEF PutManifest
<1>2. \A x \in DOMAIN new :
        new[x] = mf \/ (x \in DOMAIN old /\ new[x] = old[x])
  <2> HIDE DEF mf, old
  <2>1. DOMAIN Put(Put(old, target, mf), Sha256(doc), mf)
          = DOMAIN old \cup {target, Sha256(doc)}
    BY DEF Put
  <2>2. \A x \in DOMAIN old \cup {target, Sha256(doc)} :
          \/ Put(Put(old, target, mf), Sha256(doc), mf)[x] = mf
          \/ x \in DOMAIN old /\ Put(Put(old, target, mf), Sha256(doc), mf)[x] = old[x]
    BY DEF Put
  <2> QED BY <2>1, <2>2
<1>3. \A x \in DOMAIN old : repo \in DOMAIN manifests /\ old = manifests[repo]
  BY DEF RepoManifests
<1>4. mf.blob = doc
  OBVIOUS
<1> HIDE DEF mf, old, new
<1>5. DOMAIN manifests' = DOMAIN manifests \cup {repo}
      /\ manifests'[repo] = new
      /\ \A r \in DOMAIN manifests : r # repo => manifests'[r] = manifests[r]
  BY <1>1 DEF Put
<1>6. RegTypeOK' /\ BlobsMatchDigest'
  BY <1>1, <1>5 DEF RegTypeOK, BlobsMatchDigest
<1> QED BY <1>1, <1>2, <1>3, <1>4, <1>5, <1>6

(***************************************************************************)
(* Bodies.                                                                 *)
(***************************************************************************)

\* What arrives of a body is a byte string.
LEMMA ArrivingType ==
    ASSUME NEW b \in Seq(Nat), NEW i \in 0 .. Len(b), NEW body \in Arriving(b, i)
    PROVE  body \in Seq(Nat)
<1>1. PICK j \in i .. Len(b) : body = SubSeq(b, i + 1, j)
  BY DEF Arriving
<1> QED BY <1>1

\* A sequence behind another is found from the end of the other.
LEMMA SecondPart ==
    ASSUME NEW x \in Seq(Nat), NEW y \in Seq(Nat), NEW m \in 1 .. Len(y)
    PROVE  (x \o y)[Len(x) + m] = y[m]
OBVIOUS

\* What arrives from where the upload has got to extends the prefix: no gap,
\* no overlap (the start check of blobs.go:151).
LEMMA ArrivingExtends ==
    ASSUME NEW b \in Seq(Nat), NEW i \in 0 .. Len(b), NEW body \in Arriving(b, i)
    PROVE  LET all == SubSeq(b, 1, i) \o body
           IN  Len(all) <= Len(b) /\ all = SubSeq(b, 1, Len(all))
<1>1. PICK j \in i .. Len(b) : body = SubSeq(b, i + 1, j)
  BY DEF Arriving
<1> DEFINE all == SubSeq(b, 1, i) \o body
<1>2. Len(SubSeq(b, 1, i)) = i /\ Len(body) = j - i
  BY <1>1
<1>3. all \in Seq(Nat) /\ Len(all) = j
  <2>1. PICK got \in Seq(Nat) : got = SubSeq(b, 1, i)
    <3> HIDE DEF all
    <3>1. SubSeq(b, 1, i) \in Seq(Nat)
      OBVIOUS
    <3> QED BY <3>1, Zenon
  <2>2. body \in Seq(Nat) /\ Len(got) = i /\ Len(body) = j - i /\ i + (j - i) = j
    BY <1>1, <1>2, <2>1
  <2>3. got \o body \in Seq(Nat) /\ Len(got \o body) = Len(got) + Len(body)
    BY <2>2
  <2> QED BY <2>1, <2>2, <2>3
<1>4. SubSeq(b, 1, j) \in Seq(Nat) /\ Len(SubSeq(b, 1, j)) = j
  BY <1>1
<1>5. ASSUME NEW k \in 1 .. j
      PROVE  all[k] = SubSeq(b, 1, j)[k]
  <2>1. SubSeq(b, 1, j)[k] = b[k]
    BY <1>1
  <2>2. CASE k <= i
    <3>1. SubSeq(b, 1, i)[k] = b[k]
      BY <2>2, <1>1
    <3> QED BY <3>1, <2>1, <2>2, <1>1, <1>2
  <2>3. CASE k > i
    <3>1. k - i \in 1 .. Len(body)
      BY <2>3, <1>1, <1>2
    <3>2. body[k - i] = b[k]
      BY <3>1, <1>1
    <3>3. all[k] = body[k - i]
      <4>1. PICK got : got = SubSeq(b, 1, i)
        OBVIOUS
      <4>2. PICK m \in 1 .. Len(body) : m = k - i
        BY <3>1
      <4>3. SubSeq(b, 1, i) \in Seq(Nat)
        OBVIOUS
      <4>4. got \in Seq(Nat) /\ Len(got) = i /\ k = Len(got) + m
        BY <1>2, <4>1, <4>2, <4>3
      <4>5. body \in Seq(Nat)
        BY ArrivingType
      <4>6. (got \o body)[Len(got) + m] = body[m]
        BY <4>4, <4>5, SecondPart
      <4> QED BY <4>1, <4>2, <4>4, <4>6
    <3> QED BY <3>2, <3>3, <2>1
  <2>4. k \in Nat /\ i \in Nat
    BY <1>1
  <2>5. k <= i \/ k > i
    BY <2>4
  <2> HIDE DEF all
  <2> QED BY <2>2, <2>3, <2>5
<1> HIDE DEF all
<1>6. all = SubSeq(b, 1, j)
  BY <1>3, <1>4, <1>5
<1>7. Len(all) <= Len(b) /\ all = SubSeq(b, 1, Len(all))
  BY <1>1, <1>3, <1>6
<1> QED BY <1>7 DEF all

(***************************************************************************)
(* The inductive invariant.                                                *)
(***************************************************************************)

IInv == RegTypeOK /\ BlobsMatchDigest /\ UploadIsPrefix /\ IndexChildrenPresent

\* The empty registry.
LEMMA InitIInv == Init => IInv
  BY DEF Init, RegInit, IInv, RegTypeOK, BlobsMatchDigest, UploadIsPrefix,
     IndexChildrenPresent

\* The map of uploads gets a prefix of the blob at id, and changes nowhere
\* else.
LEMMA UploadExtended ==
    ASSUME IInv, NEW id \in UploadIds, NEW bytes \in Seq(Nat),
           Len(bytes) <= Len(BlobOf[id]), bytes = SubSeq(BlobOf[id], 1, Len(bytes)),
           uploads' = Put(uploads, id, bytes), UNCHANGED <<contents, manifests>>
    PROVE  IInv'
<1>1. /\ DOMAIN uploads' = DOMAIN uploads \cup {id}
      /\ uploads'[id] = bytes
      /\ \A x \in DOMAIN uploads : x # id => uploads'[x] = uploads[x]
  BY DEF Put
<1>2. uploads' \in [DOMAIN uploads' -> Seq(Nat)]
  BY PutType DEF IInv, RegTypeOK
<1>3. RegTypeOK'
  BY <1>1, <1>2 DEF IInv, RegTypeOK
<1>4. UploadIsPrefix'
  BY <1>1 DEF IInv, UploadIsPrefix
<1> QED BY <1>3, <1>4 DEF IInv, BlobsMatchDigest, IndexChildrenPresent

\* What an upload holds when a request reaches it.
LEMMA UploadFacts ==
    ASSUME IInv, NEW id \in UploadIds
    PROVE  /\ BlobOf[id] \in Seq(Nat)
           /\ UploadBytes(id) \in Seq(Nat)
           /\ Len(UploadBytes(id)) \in 0 .. Len(BlobOf[id])
           /\ UploadBytes(id) = SubSeq(BlobOf[id], 1, Len(UploadBytes(id)))
<1>1. BlobOf[id] \in Seq(Nat)
  BY ClientsAssumption
<1>2. CASE id \in DOMAIN uploads
  BY <1>1, <1>2 DEF UploadBytes, IInv, RegTypeOK, UploadIsPrefix
<1>3. CASE id \notin DOMAIN uploads
  <2>1. UploadBytes(id) = <<>>
    BY <1>3 DEF UploadBytes
  <2>2. SubSeq(BlobOf[id], 1, 0) = <<>>
    BY <1>1
  <2> QED BY <1>1, <2>1, <2>2
<1> QED BY <1>1, <1>2, <1>3

\* Nothing changed: a refused request, a stutter.
LEMMA Unchanged ==
    ASSUME IInv, UNCHANGED regVars
    PROVE  IInv'
  BY DEF IInv, regVars, RegTypeOK, BlobsMatchDigest, UploadIsPrefix,
     IndexChildrenPresent

\* POST with a digest.
LEMMA SendMonolithicStep == IInv /\ SendMonolithic => IInv'
<1> SUFFICES ASSUME IInv, NEW b \in Blobs, NEW body \in Arriving(b, 0),
                    PostMonolithic(Sha256(b), body)
             PROVE  IInv'
  BY DEF SendMonolithic
<1>1. CASE Sha256(body) = Sha256(b)
  <2>1. contents' = Put(contents, Sha256(b), body) /\ UNCHANGED <<uploads, manifests>>
    BY <1>1 DEF PostMonolithic
  <2>2. b \in Seq(Nat) /\ 0 \in 0 .. Len(b)
    BY ClientsAssumption
  <2>3. body \in Seq(Nat)
    BY <2>2, ArrivingType
  <2>4. contents' \in [DOMAIN contents' -> Seq(Nat)]
    BY <2>1, <2>3, PutType DEF IInv, RegTypeOK
  <2>5. BlobsMatchDigest'
    BY <2>1, <1>1 DEF Put, IInv, BlobsMatchDigest, Sha256
  <2>6. RegTypeOK'
    BY <2>1, <2>4 DEF IInv, RegTypeOK
  <2>7. UploadIsPrefix' /\ IndexChildrenPresent'
    BY <2>1 DEF IInv, UploadIsPrefix, IndexChildrenPresent
  <2> QED BY <2>5, <2>6, <2>7 DEF IInv
<1>2. CASE Sha256(body) # Sha256(b)
  BY <1>2, Unchanged DEF PostMonolithic, regVars
<1> QED BY <1>1, <1>2

\* PATCH with a Content-Range.
LEMMA SendChunkStep == IInv /\ SendChunk => IInv'
<1> SUFFICES ASSUME IInv, NEW id \in UploadIds, NEW start \in 0 .. Len(BlobOf[id]),
                    NEW body \in Arriving(BlobOf[id], start), PatchChunk(id, start, body)
             PROVE  IInv'
  BY DEF SendChunk
<1>1. CASE start = Len(UploadBytes(id))
  <2> DEFINE bytes == UploadBytes(id) \o body
  <2>1. uploads' = Put(uploads, id, bytes) /\ UNCHANGED <<contents, manifests>>
    BY <1>1 DEF PatchChunk
  <2>2. UploadBytes(id) = SubSeq(BlobOf[id], 1, start) /\ BlobOf[id] \in Seq(Nat)
    BY <1>1, UploadFacts
  <2>3. Len(bytes) <= Len(BlobOf[id]) /\ bytes = SubSeq(BlobOf[id], 1, Len(bytes))
    BY <2>2, ArrivingExtends
  <2>4. bytes \in Seq(Nat)
    BY <2>2, ArrivingType, UploadFacts
  <2> HIDE DEF bytes
  <2> QED BY <2>1, <2>3, <2>4, UploadExtended
<1>2. CASE start # Len(UploadBytes(id))
  BY <1>2, Unchanged DEF PatchChunk, regVars
<1> QED BY <1>1, <1>2

\* PATCH without one.
LEMMA SendStreamStep == IInv /\ SendStream => IInv'
<1> SUFFICES ASSUME IInv, NEW id \in UploadIds,
                    NEW body \in Arriving(BlobOf[id], 0), PatchStream(id, body)
             PROVE  IInv'
  BY DEF SendStream
<1>1. CASE uploads' = Put(uploads, id, body)
  <2>1. UNCHANGED <<contents, manifests>>
    BY DEF PatchStream
  <2>2. BlobOf[id] \in Seq(Nat) /\ 0 \in 0 .. Len(BlobOf[id])
    BY ClientsAssumption
  <2>3. PICK j \in 0 .. Len(BlobOf[id]) : body = SubSeq(BlobOf[id], 1, j)
    BY DEF Arriving
  <2>4. body \in Seq(Nat) /\ Len(body) = j
    BY <2>2, <2>3
  <2>5. Len(body) <= Len(BlobOf[id]) /\ body = SubSeq(BlobOf[id], 1, Len(body))
    BY <2>2, <2>3, <2>4
  <2> QED BY <1>1, <2>1, <2>4, <2>5, UploadExtended
<1>2. CASE uploads' = uploads
  BY <1>2, Unchanged DEF PatchStream, regVars
<1> QED BY <1>1, <1>2 DEF PatchStream

\* The closing PUT.
LEMMA SendPutStep == IInv /\ SendPut => IInv'
<1> SUFFICES ASSUME IInv, NEW id \in UploadIds, NEW start \in 0 .. Len(BlobOf[id]),
                    NEW body \in Arriving(BlobOf[id], start),
                    PutBlob(id, Sha256(BlobOf[id]), body)
             PROVE  IInv'
  BY DEF SendPut
<1>1. body \in Seq(Nat)
  BY ArrivingType, UploadFacts
<1>2. RegTypeOK' /\ BlobsMatchDigest' /\ UNCHANGED manifests
  BY <1>1, PutBlobEffect DEF IInv
<1>3. IndexChildrenPresent'
  BY <1>2 DEF IInv, IndexChildrenPresent
<1>4. uploads' = Del(uploads, id) \/ uploads' = uploads
  BY DEF PutBlob
<1>5. UploadIsPrefix'
  BY <1>4 DEF Del, IInv, UploadIsPrefix
<1> QED BY <1>2, <1>3, <1>5 DEF IInv

\* The manifest PUT: an index is stored only when its repository has all of
\* its children (manifest.go:137-152), and no key is ever removed.
LEMMA SendManifestStep == IInv /\ SendManifest => IInv'
<1> SUFFICES ASSUME IInv, NEW repo \in Repos, NEW doc \in Docs,
                    NEW target \in Tags \cup {Sha256(doc)}, NEW wire \in {doc, Cut(doc)},
                    PutManifest(repo, target, ContentTypeOf(doc), wire)
             PROVE  IInv'
  BY DEF SendManifest
<1> DEFINE mf == [contentType |-> ContentTypeOf(doc), blob |-> wire]
           old == RepoManifests(repo)
           created == PutManifestStatus(repo, ContentTypeOf(doc), wire) = "CREATED"
           new == IF created THEN Put(Put(old, target, mf), Sha256(wire), mf) ELSE old
<1>1. RegTypeOK' /\ BlobsMatchDigest' /\ UNCHANGED <<contents, uploads>>
  BY PutManifestEffect DEF IInv
<1>2. UploadIsPrefix'
  BY <1>1 DEF IInv, UploadIsPrefix
<1>3. manifests' = Put(manifests, repo, new)
  BY DEF PutManifest
<1>4. created /\ mf.contentType = "index" =>
        \A child \in ListedIn(mf.blob) : Sha256(child) \in DOMAIN old
  BY DEF PutManifestStatus
<1>5. \A x \in DOMAIN old : repo \in DOMAIN manifests /\ old = manifests[repo]
  BY DEF RepoManifests
<1> HIDE DEF mf, old, created
<1>6. /\ DOMAIN old \subseteq DOMAIN new
      /\ \A x \in DOMAIN new :
            (created /\ new[x] = mf) \/ (x \in DOMAIN old /\ new[x] = old[x])
  BY DEF Put
<1> HIDE DEF new
<1>7. /\ DOMAIN manifests' = DOMAIN manifests \cup {repo}
      /\ manifests'[repo] = new
      /\ \A r \in DOMAIN manifests : r # repo => manifests'[r] = manifests[r]
  BY <1>3 DEF Put
<1>8. IndexChildrenPresent'
  <2> SUFFICES ASSUME NEW r \in DOMAIN manifests', NEW x \in DOMAIN manifests'[r],
                      manifests'[r][x].contentType = "index",
                      NEW child \in ListedIn(manifests'[r][x].blob)
               PROVE  Sha256(child) \in DOMAIN manifests'[r]
    BY DEF IndexChildrenPresent, ListedIn, Sha256
  <2>1. CASE r # repo
    BY <2>1, <1>7 DEF IInv, IndexChildrenPresent
  <2>2. CASE r = repo /\ created /\ new[x] = mf
    BY <2>2, <1>4, <1>6, <1>7
  <2>3. CASE r = repo /\ x \in DOMAIN old /\ new[x] = old[x]
    <3>1. Sha256(child) \in DOMAIN old
      BY <2>3, <1>5, <1>7 DEF IInv, IndexChildrenPresent
    <3> QED BY <3>1, <2>3, <1>6, <1>7
  <2> QED BY <2>1, <2>2, <2>3, <1>6, <1>7
<1> QED BY <1>1, <1>2, <1>8 DEF IInv

\* Every request keeps the invariant.
LEMMA NextIInv == IInv /\ [Next]_regVars => IInv'
  BY SendMonolithicStep, SendChunkStep, SendStreamStep, SendPutStep, SendManifestStep,
     Unchanged DEF Next

(***************************************************************************)
(* Types: only what clients push is served, and a manifest sits under a    *)
(* tag or a digest.                                                        *)
(***************************************************************************)

\* What TypeOK says of one repository's map.
RepoOK(mfs) ==
    /\ DOMAIN mfs \subseteq Tags \cup {Sha256(doc) : doc \in WireDocs}
    /\ \A target \in DOMAIN mfs :
          mfs[target] \in [contentType : ContentTypes, blob : WireDocs]

\* The keys of the blob store are digests of blobs that clients push.
KeysOK == DOMAIN contents \subseteq {Sha256(b) : b \in Blobs}

\* A document goes out under one of the three content types.
LEMMA ContentTypeType == ASSUME NEW doc PROVE ContentTypeOf(doc) \in ContentTypes
  BY DEF ContentTypeOf, ContentTypes

\* Storing a manifest in a repository's map keeps its type.
LEMMA PutRepoOK ==
    ASSUME NEW mfs, RepoOK(mfs), NEW mf \in [contentType : ContentTypes, blob : WireDocs],
           NEW target \in Tags \cup {Sha256(doc) : doc \in WireDocs}
    PROVE  RepoOK(Put(mfs, target, mf))
<1> DEFINE new == Put(mfs, target, mf)
<1>1. /\ DOMAIN new = DOMAIN mfs \cup {target}
      /\ new[target] = mf
      /\ \A x \in DOMAIN mfs : x # target => new[x] = mfs[x]
  BY DEF Put
<1> HIDE DEF new
<1>2. ASSUME NEW x \in DOMAIN new
      PROVE  new[x] \in [contentType : ContentTypes, blob : WireDocs]
  BY <1>1 DEF RepoOK
<1>3. DOMAIN new \subseteq Tags \cup {Sha256(doc) : doc \in WireDocs}
  BY <1>1 DEF RepoOK
<1>4. RepoOK(new)
  BY <1>2, <1>3 DEF RepoOK
<1> QED BY <1>4 DEF new

\* The two puts of blobs store under the digest of a blob.
LEMMA KeysStep == TypeOK /\ Next => KeysOK'
<1> SUFFICES ASSUME TypeOK, Next PROVE KeysOK'
  OBVIOUS
<1>0. DOMAIN contents \subseteq {Sha256(b) : b \in Blobs}
  BY DEF TypeOK
<1>1. ASSUME NEW b \in Blobs, NEW bytes, contents' = Put(contents, Sha256(b), bytes)
      PROVE  KeysOK'
  <2>1. DOMAIN contents' = DOMAIN contents \cup {Sha256(b)}
    BY <1>1, PutFacts
  <2> QED BY <1>0, <2>1 DEF KeysOK
<1>2. CASE UNCHANGED contents
  BY <1>0, <1>2 DEF KeysOK
<1>3. CASE SendMonolithic
  <2>1. PICK b \in Blobs : \E body \in Arriving(b, 0) : PostMonolithic(Sha256(b), body)
    BY <1>3 DEF SendMonolithic
  <2>2. PICK body \in Arriving(b, 0) : PostMonolithic(Sha256(b), body)
    BY <2>1
  <2> QED BY <2>2, <1>1, <1>2 DEF PostMonolithic
<1>4. CASE SendPut
  <2>1. PICK id \in UploadIds : \E start \in 0 .. Len(BlobOf[id]) :
           \E body \in Arriving(BlobOf[id], start) : PutBlob(id, Sha256(BlobOf[id]), body)
    BY <1>4 DEF SendPut
  <2>2. PICK body : PutBlob(id, Sha256(BlobOf[id]), body)
    BY <2>1
  <2>3. BlobOf[id] \in Blobs
    BY ClientsAssumption
  <2> QED BY <2>2, <2>3, <1>1, <1>2 DEF PutBlob
<1>5. CASE SendChunk
  BY <1>2, <1>5 DEF SendChunk, PatchChunk
<1>6. CASE SendStream
  BY <1>2, <1>6 DEF SendStream, PatchStream
<1>7. CASE SendManifest
  BY <1>2, <1>7 DEF SendManifest, PutManifest
<1> QED BY <1>3, <1>4, <1>5, <1>6, <1>7 DEF Next

\* The put of a manifest stores what arrived, whole or cut, under the name
\* and under the digest of what arrived.
LEMMA ManifestsStep ==
    ASSUME TypeOK, Next, NEW r \in DOMAIN manifests'
    PROVE  RepoOK(manifests'[r])
<1>0. \A x \in DOMAIN manifests : RepoOK(manifests[x])
  BY DEF TypeOK, RepoOK
<1>1. CASE UNCHANGED manifests
  BY <1>0, <1>1
<1>2. CASE SendManifest
  <2>1. PICK repo \in Repos, doc \in Docs :
           \E target \in Tags \cup {Sha256(doc)}, wire \in {doc, Cut(doc)} :
              PutManifest(repo, target, ContentTypeOf(doc), wire)
    BY <1>2 DEF SendManifest
  <2>2. PICK target \in Tags \cup {Sha256(doc)}, wire \in {doc, Cut(doc)} :
           PutManifest(repo, target, ContentTypeOf(doc), wire)
    BY <2>1
  <2> DEFINE mf == [contentType |-> ContentTypeOf(doc), blob |-> wire]
             old == RepoManifests(repo)
  <2>3. PICK new : /\ manifests' = Put(manifests, repo, new)
                   /\ \/ new = old
                      \/ new = Put(Put(old, target, mf), Sha256(wire), mf)
    BY <2>2 DEF PutManifest
  <2>4. doc \in WireDocs /\ wire \in WireDocs
    BY DEF WireDocs
  <2>5. mf \in [contentType : ContentTypes, blob : WireDocs]
    BY <2>4, ContentTypeType
  <2>6. /\ target \in Tags \cup {Sha256(d) : d \in WireDocs}
        /\ Sha256(wire) \in Tags \cup {Sha256(d) : d \in WireDocs}
    BY <2>4
  <2>7. RepoOK(old)
    BY <1>0 DEF RepoManifests, RepoOK
  <2> HIDE DEF mf, old
  <2>8. RepoOK(new)
    BY <2>3, <2>5, <2>6, <2>7, PutRepoOK
  <2>9. /\ DOMAIN manifests' = DOMAIN manifests \cup {repo}
        /\ manifests'[repo] = new
        /\ \A x \in DOMAIN manifests : x # repo => manifests'[x] = manifests[x]
    BY <2>3 DEF Put
  <2>10. CASE r = repo
    BY <2>8, <2>9, <2>10
  <2>11. CASE r # repo
    <3>1. r \in DOMAIN manifests /\ manifests'[r] = manifests[r]
      BY <2>9, <2>11
    <3> QED BY <1>0, <3>1
  <2> QED BY <2>10, <2>11
<1>3. CASE SendMonolithic
  BY <1>1, <1>3 DEF SendMonolithic, PostMonolithic
<1>4. CASE SendPut
  BY <1>1, <1>4 DEF SendPut, PutBlob
<1>5. CASE SendChunk
  BY <1>1, <1>5 DEF SendChunk, PatchChunk
<1>6. CASE SendStream
  BY <1>1, <1>6 DEF SendStream, PatchStream
<1> QED BY <1>2, <1>3, <1>4, <1>5, <1>6 DEF Next

\* Every request keeps the types.
LEMMA TypeStep == IInv /\ TypeOK /\ [Next]_regVars => TypeOK'
<1> SUFFICES ASSUME IInv, TypeOK, [Next]_regVars PROVE TypeOK'
  OBVIOUS
<1>1. CASE Next
  <2>1. RegTypeOK'
    BY <1>1, NextIInv DEF IInv
  <2>2. KeysOK'
    BY <1>1, KeysStep
  <2>3. \A r \in DOMAIN manifests' : RepoOK(manifests'[r])
    BY <1>1, ManifestsStep
  <2> QED BY <2>1, <2>2, <2>3 DEF TypeOK, KeysOK, RepoOK
<1>2. CASE UNCHANGED regVars
  BY <1>2 DEF TypeOK, RegTypeOK, regVars
<1> QED BY <1>1, <1>2

(***************************************************************************)
(* Theorems.                                                               *)
(***************************************************************************)

\* The invariant holds in every state.
THEOREM Invariance == Spec => []IInv
  BY InitIInv, NextIInv, PTL DEF Spec

\* Only pushed blobs are served, and manifests are kept under tags and
\* digests with the content type they were sent with.
THEOREM TypeCorrect == Spec => []TypeOK
<1>1. Init => TypeOK
  BY DEF Init, RegInit, TypeOK, RegTypeOK
<1> QED BY <1>1, TypeStep, Invariance, PTL DEF Spec

\* What is served for a digest has that digest.
THEOREM DigestsCorrect == Spec => []BlobsMatchDigest
<1>1. IInv => BlobsMatchDigest
  BY DEF IInv
<1> QED BY <1>1, Invariance, PTL

\* Lost, cut, repeated and reordered chunks leave no gap in an upload.
THEOREM UploadsArePrefixes == Spec => []UploadIsPrefix
<1>1. IInv => UploadIsPrefix
  BY DEF IInv
<1> QED BY <1>1, Invariance, PTL

\* An index never lacks a child.
THEOREM IndexesHaveChildren == Spec => []IndexChildrenPresent
<1>1. IInv => IndexChildrenPresent
  BY DEF IInv
<1> QED BY <1>1, Invariance, PTL

\* Only the step that stores an upload's whole blob forgets the upload.
THEOREM UploadsKept == Spec => UploadKeptUntilStored
<1> DEFINE Kept == \A id \in DOMAIN uploads :
                      id \notin DOMAIN uploads' =>
                          /\ Sha256(BlobOf[id]) \in DOMAIN contents'
                          /\ contents'[Sha256(BlobOf[id])] = BlobOf[id]
<1>1. IInv /\ [Next]_regVars => [Kept]_regVars
  <2> SUFFICES ASSUME IInv, Next, NEW id \in DOMAIN uploads, id \notin DOMAIN uploads'
               PROVE  /\ Sha256(BlobOf[id]) \in DOMAIN contents'
                      /\ contents'[Sha256(BlobOf[id])] = BlobOf[id]
    OBVIOUS
  <2>1. CASE SendPut
    <3>1. PICK u \in UploadIds : \E start \in 0 .. Len(BlobOf[u]) :
            \E body \in Arriving(BlobOf[u], start) : PutBlob(u, Sha256(BlobOf[u]), body)
      BY <2>1 DEF SendPut
    <3>0. PICK start \in 0 .. Len(BlobOf[u]) :
            \E body \in Arriving(BlobOf[u], start) : PutBlob(u, Sha256(BlobOf[u]), body)
      BY <3>1
    <3>2. PICK body \in Arriving(BlobOf[u], start) : PutBlob(u, Sha256(BlobOf[u]), body)
      BY <3>0
    <3>3. /\ PutBlobStatus(u, Sha256(BlobOf[u]), body) = "CREATED"
          /\ contents' = Put(contents, Sha256(BlobOf[u]), UploadBytes(u) \o body)
          /\ uploads' = Del(uploads, u)
      BY <3>2 DEF PutBlob
    <3>4. u = id
      BY <3>3 DEF Del
    <3>5. UploadBytes(u) \o body = BlobOf[u]
      BY <3>3, Sha256Injective DEF PutBlobStatus
    <3>6. contents'[Sha256(BlobOf[u])] = UploadBytes(u) \o body
          /\ Sha256(BlobOf[u]) \in DOMAIN contents'
      BY <3>3 DEF Put
    <3> QED BY <3>4, <3>5, <3>6
  <2>2. CASE SendMonolithic
    BY <2>2 DEF SendMonolithic, PostMonolithic
  <2>3. CASE SendChunk
    BY <2>3 DEF SendChunk, PatchChunk, Put
  <2>4. CASE SendStream
    BY <2>4 DEF SendStream, PatchStream, Put
  <2>5. CASE SendManifest
    BY <2>5 DEF SendManifest, PutManifest
  <2> QED BY <2>1, <2>2, <2>3, <2>4, <2>5 DEF Next
<1> QED BY <1>1, Invariance, PTL DEF Spec, UploadKeptUntilStored
=============================================================================
