------------------------- MODULE RemoteWriteProofs -------------------------
(***************************************************************************)
(* What remote.Write guarantees for any number of writers, any images, any *)
(* retry limits and any number of faults.                                  *)
(***************************************************************************)
EXTENDS RemoteWrite, WellFoundedInduction, FiniteSetTheorems, TLAPS

(***************************************************************************)
(* What the handlers of the registry do to its stores.                     *)
(***************************************************************************)

\* f[k] = v touches f at k alone (every map write of blobs.go, manifest.go).
LEMMA PutFacts ==
    ASSUME NEW f, NEW k, NEW v
    PROVE  /\ DOMAIN Put(f, k, v) = DOMAIN f \cup {k}
           /\ Put(f, k, v)[k] = v
           /\ \A x \in DOMAIN f : x # k => Put(f, k, v)[x] = f[x]
  BY DEF Put

\* Writing a value of a map's type keeps the type.
LEMMA PutType ==
    ASSUME NEW S, NEW f, f \in [DOMAIN f -> S], NEW k, NEW v \in S
    PROVE  Put(f, k, v) \in [DOMAIN Put(f, k, v) -> S]
  BY DEF Put

\* delete(f, k) of blobs.go:212.
LEMMA DelFacts ==
    ASSUME NEW S, NEW f, f \in [DOMAIN f -> S], NEW k
    PROVE  /\ Del(f, k) \in [DOMAIN Del(f, k) -> S]
           /\ DOMAIN Del(f, k) = DOMAIN f \ {k}
  BY DEF Del

\* A digest determines the bytes.
LEMMA Sha256Injective ==
    ASSUME NEW a, NEW b, Sha256(a) = Sha256(b)
    PROVE  a = b
<1>1. Sha256(a).sha256 = a /\ Sha256(b).sha256 = b
  BY DEF Sha256
<1> QED BY <1>1

\* The store of blobs only grows.
ContentsGrow ==
    \A d \in DOMAIN contents : d \in DOMAIN contents' /\ contents'[d] = contents[d]

\* A registry that is left alone keeps what is known of it.
LEMMA RegistryUnchanged ==
    ASSUME RegTypeOK, BlobsMatchDigest, UNCHANGED regVars
    PROVE  RegTypeOK' /\ BlobsMatchDigest' /\ ContentsGrow /\ UNCHANGED manifests
  BY DEF RegTypeOK, BlobsMatchDigest, ContentsGrow, regVars

\* A PATCH changes uploads alone (blobs.go:168-187).
LEMMA PatchStreamEffect ==
    ASSUME RegTypeOK, BlobsMatchDigest,
           NEW id \in UploadIds, NEW body \in Seq(Nat), PatchStream(id, body)
    PROVE  RegTypeOK' /\ BlobsMatchDigest' /\ ContentsGrow /\ UNCHANGED manifests
<1>1. /\ uploads' \in [DOMAIN uploads' -> Seq(Nat)]
      /\ DOMAIN uploads' \subseteq UploadIds
  <2>1. CASE uploads' = Put(uploads, id, body)
    <3>1. uploads \in [DOMAIN uploads -> Seq(Nat)] /\ DOMAIN uploads \subseteq UploadIds
      BY DEF RegTypeOK
    <3>2. Put(uploads, id, body) \in [DOMAIN Put(uploads, id, body) -> Seq(Nat)]
      BY <3>1, PutType
    <3>3. DOMAIN Put(uploads, id, body) = DOMAIN uploads \cup {id}
      BY PutFacts
    <3> QED BY <2>1, <3>1, <3>2, <3>3
  <2>2. CASE uploads' = uploads
    BY <2>2 DEF RegTypeOK
  <2> QED BY <2>1, <2>2 DEF PatchStream
<1> QED BY <1>1 DEF RegTypeOK, BlobsMatchDigest, ContentsGrow, PatchStream

\* A PUT stores bytes under their own digest only, and the digest it was
\* given is stored when it answers CREATED (blobs.go:197-216).
LEMMA PutBlobEffect ==
    ASSUME RegTypeOK, BlobsMatchDigest,
           NEW id, NEW digest, NEW body \in Seq(Nat), PutBlob(id, digest, body)
    PROVE  /\ RegTypeOK' /\ BlobsMatchDigest' /\ ContentsGrow /\ UNCHANGED manifests
           /\ PutBlobStatus(id, digest, body) = "CREATED" => digest \in DOMAIN contents'
<1> DEFINE bytes == UploadBytes(id) \o body
<1>1. bytes \in Seq(Nat)
  BY DEF RegTypeOK, UploadBytes
<1>2. CASE PutBlobStatus(id, digest, body) = "CREATED"
  <2>1. Sha256(bytes) = digest
    BY <1>2 DEF PutBlobStatus
  <2>2. contents' = Put(contents, digest, bytes) /\ uploads' = Del(uploads, id)
        /\ UNCHANGED manifests
    BY <1>2 DEF PutBlob
  <2>3. RegTypeOK'
    <3>1. contents' \in [DOMAIN contents' -> Seq(Nat)]
      BY <1>1, <2>2, PutType DEF RegTypeOK
    <3>2. uploads' \in [DOMAIN uploads' -> Seq(Nat)] /\ DOMAIN uploads' \subseteq UploadIds
      <4>1. uploads \in [DOMAIN uploads -> Seq(Nat)] /\ DOMAIN uploads \subseteq UploadIds
        BY DEF RegTypeOK
      <4>2. /\ Del(uploads, id) \in [DOMAIN Del(uploads, id) -> Seq(Nat)]
            /\ DOMAIN Del(uploads, id) = DOMAIN uploads \ {id}
        BY <4>1, DelFacts
      <4>3. uploads' = Del(uploads, id)
        BY <2>2
      <4> QED BY <4>1, <4>2, <4>3
    <3> QED BY <3>1, <3>2, <2>2 DEF RegTypeOK
  <2> HIDE DEF bytes
  <2>4. digest \in DOMAIN contents' /\ contents'[digest] = bytes
    BY <2>2 DEF Put
  <2>5. \A d \in DOMAIN contents : d # digest => contents'[d] = contents[d]
    BY <2>2 DEF Put
  <2>6. DOMAIN contents' = DOMAIN contents \cup {digest}
    BY <2>2 DEF Put
  <2>7. digest \in DOMAIN contents => contents[digest] = bytes
    BY <2>1, Sha256Injective DEF BlobsMatchDigest
  <2>8. ContentsGrow
    BY <2>4, <2>5, <2>6, <2>7 DEF ContentsGrow
  <2>9. BlobsMatchDigest'
    BY <2>1, <2>4, <2>5, <2>6 DEF BlobsMatchDigest, Sha256
  <2> QED BY <2>2, <2>3, <2>4, <2>8, <2>9
<1>3. CASE PutBlobStatus(id, digest, body) # "CREATED"
  BY <1>3 DEF PutBlob, RegTypeOK, BlobsMatchDigest, ContentsGrow
<1> QED BY <1>2, <1>3

\* The manifest PUT changes manifests alone, and everything it adds to them
\* is the document it carries (manifest.go:115-161).
LEMMA PutManifestEffect ==
    ASSUME RegTypeOK, BlobsMatchDigest, NEW repo \in Repos, NEW target,
           NEW contentType, NEW doc, PutManifest(repo, target, contentType, doc)
    PROVE  /\ RegTypeOK' /\ BlobsMatchDigest' /\ UNCHANGED <<contents, uploads>>
           /\ \A r \in DOMAIN manifests' : \A x \in DOMAIN manifests'[r] :
                \/ manifests'[r][x].blob = doc
                \/ /\ r \in DOMAIN manifests /\ x \in DOMAIN manifests[r]
                   /\ manifests'[r][x] = manifests[r][x]
<1> DEFINE mf  == [contentType |-> contentType, blob |-> doc]
           old == RepoManifests(repo)
           new == IF PutManifestStatus(repo, contentType, doc) = "CREATED"
                    THEN Put(Put(old, target, mf), Sha256(doc), mf)
                    ELSE old
<1>1. manifests' = Put(manifests, repo, new) /\ UNCHANGED <<contents, uploads>>
  BY DEF PutManifest
<1>2. \A x \in DOMAIN new :
        new[x] = mf \/ (x \in DOMAIN old /\ new[x] = old[x])
  <2> HIDE DEF mf, old
  <2>1. DOMAIN Put(Put(old, target, mf), Sha256(doc), mf)
          = DOMAIN old \cup {target, Sha256(doc)}
    BY DEF Put
  <2>2. \A x \in DOMAIN old \cup {target, Sha256(doc)} :
          \/ Put(Put(old, target, mf), Sha256(doc), mf)[x] = mf
          \/ x \in DOMAIN old /\ Put(Put(old, target, mf), Sha256(doc), mf)[x] = old[x]
    BY DEF Put
  <2> QED BY <2>1, <2>2
<1>3. \A x \in DOMAIN old : repo \in DOMAIN manifests /\ old = manifests[repo]
  BY DEF RepoManifests
<1>4. mf.blob = doc
  OBVIOUS
<1> HIDE DEF mf, old, new
<1>5. DOMAIN manifests' = DOMAIN manifests \cup {repo}
      /\ manifests'[repo] = new
      /\ \A r \in DOMAIN manifests : r # repo => manifests'[r] = manifests[r]
  BY <1>1 DEF Put
<1>6. RegTypeOK' /\ BlobsMatchDigest'
  BY <1>1, <1>5 DEF RegTypeOK, BlobsMatchDigest
<1> QED BY <1>1, <1>2, <1>3, <1>4, <1>5, <1>6

\* The manifest x of repository r is there.
Listed(r, x) == r \in DOMAIN manifests /\ x \in DOMAIN manifests[r]

\* A manifest that is accepted is there under its target and its digest,
\* and nothing else in any repository changes (manifest.go:148-160).
LEMMA PutManifestAccepted ==
    ASSUME NEW repo, NEW target, NEW contentType, NEW doc,
           PutManifestStatus(repo, contentType, doc) = "CREATED",
           PutManifest(repo, target, contentType, doc)
    PROVE  \A r, x :
             /\ Listed(r, x)' <=> \/ Listed(r, x)
                                  \/ r = repo /\ x \in {target, Sha256(doc)}
             /\ r = repo /\ x \in {target, Sha256(doc)} => manifests'[r][x].blob = doc
             /\ Listed(r, x) /\ ~(r = repo /\ x \in {target, Sha256(doc)}) =>
                    manifests'[r][x] = manifests[r][x]
<1> DEFINE mf  == [contentType |-> contentType, blob |-> doc]
           old == RepoManifests(repo)
           new == Put(Put(old, target, mf), Sha256(doc), mf)
<1>1. manifests' = Put(manifests, repo, new)
  BY DEF PutManifest
<1>2. mf.blob = doc
  OBVIOUS
<1> HIDE DEF mf, old
<1>3. /\ DOMAIN new = DOMAIN old \cup {target, Sha256(doc)}
      /\ \A x \in {target, Sha256(doc)} : new[x] = mf
      /\ \A x \in DOMAIN old \ {target, Sha256(doc)} : new[x] = old[x]
  BY DEF Put
<1> HIDE DEF new
<1>4. /\ DOMAIN manifests' = DOMAIN manifests \cup {repo}
      /\ manifests'[repo] = new
      /\ \A r \in DOMAIN manifests : r # repo => manifests'[r] = manifests[r]
  BY <1>1 DEF Put
<1>5. /\ repo \in DOMAIN manifests => old = manifests[repo]
      /\ repo \notin DOMAIN manifests => DOMAIN old = {}
  BY DEF old, RepoManifests
<1> TAKE r, x
<1>6. CASE r = repo
  BY <1>2, <1>3, <1>4, <1>5, <1>6 DEF Listed
<1>7. CASE r # repo
  BY <1>4, <1>7 DEF Listed
<1> QED BY <1>6, <1>7

\* The order on slots by which Write meets the layers.
NatLess == {ss \in Nat \X Nat : ss[1] < ss[2]}

\* Any set of slots has a first one.
LEMMA NatLessWellFounded == IsWellFoundedOn(NatLess, Nat)
  BY NatLessThanWellFounded DEF NatLess, OpToRel

(***************************************************************************)
(* Uploads.                                                                *)
(***************************************************************************)

\* An upload is a writer's config or one of its layers, and has bytes.
LEMMA TaskFacts ==
    ASSUME NEW t \in Tasks
    PROVE  /\ t[1] \in Writers
           /\ t[2] \in 0 .. Len(LayersOf[ImageOf[t[1]]])
           /\ t = <<t[1], t[2]>>
           /\ Blob(t) \in Blobs
           /\ Blob(t) \in Seq(Nat)
<1>1. PICK w \in Writers : t \in {w} \X Slots(w)
  BY DEF Tasks
<1>2. t[1] = w /\ t[2] \in Slots(w) /\ t = <<t[1], t[2]>>
  BY <1>1
<1>3. ImageOf[w] \in ImageDocs /\ LayersOf[ImageOf[w]] \in Seq(Blobs)
      /\ ConfigOf[ImageOf[w]] \in Blobs
  BY WriteAssumption, ImagesAssumption
<1>4. Blob(t) \in Blobs
  <2>1. CASE t[2] = 0
    BY <2>1, <1>2, <1>3 DEF Blob
  <2>2. CASE t[2] # 0
    <3>1. t[2] \in 1 .. Len(LayersOf[ImageOf[w]])
      BY <2>2, <1>2, <1>3 DEF Slots
    <3> QED BY <3>1, <2>2, <1>2, <1>3 DEF Blob
  <2> QED BY <2>1, <2>2
<1> QED BY <1>2, <1>4, WriteAssumption, ImagesAssumption DEF Slots

\* Every upload of a writer is one of the uploads there are.
LEMMA AllTasksFacts ==
    ASSUME NEW w \in Writers
    PROVE  /\ AllTasks(w) \subseteq Tasks
           /\ LayerTasks(w) \subseteq AllTasks(w)
           /\ ConfigTask(w) \in AllTasks(w)
           /\ \A t \in AllTasks(w) : t[1] = w
<1>1. 0 \in Slots(w)
  <2>1. Len(LayersOf[ImageOf[w]]) \in Nat
    BY WriteAssumption, ImagesAssumption
  <2> QED BY <2>1 DEF Slots
<1>2. \A s \in Slots(w) : <<w, s>> \in Tasks
  BY DEF Tasks
<1> QED BY <1>1, <1>2 DEF AllTasks, LayerTasks, ConfigTask

\* Deduplication leaves out no blob: whatever an image requires, one of the
\* uploads that Write launches carries it (write.go:66-97).
LEMMA RequiredIsUploaded ==
    ASSUME NEW w \in Writers, NEW b \in Required(ImageOf[w])
    PROVE  \E t \in AllTasks(w) : Blob(t) = b
<1> DEFINE layers == LayersOf[ImageOf[w]]
<1>1. layers \in Seq(Blobs) /\ Len(layers) \in Nat
  BY WriteAssumption, ImagesAssumption
<1>2. CASE b = ConfigOf[ImageOf[w]]
  BY <1>2, AllTasksFacts DEF Blob, ConfigTask
<1>3. CASE b # ConfigOf[ImageOf[w]]
  <2>1. PICK i \in 1 .. Len(layers) : layers[i] = b /\ b \notin Foreign
    BY <1>3 DEF Required
  <2>2. \A s \in 1 .. Len(layers) :
           /\ s \in Slots(w) \ {0}
           /\ Blob(<<w, s>>) = layers[s]
    BY <1>1 DEF Slots, Blob
  <2>3. CASE IsStream(<<w, i>>)
    <3>1. <<w, i>> \in LayerTasks(w)
      BY <2>1, <2>2, <2>3 DEF LayerTasks, Uploaded
    <3> QED BY <3>1, <2>1, <2>2, AllTasksFacts
  <2>4. CASE ~IsStream(<<w, i>>)
    <3> DEFINE copies == {s \in 1 .. Len(layers) :
                            layers[s] = b /\ ~IsStream(<<w, s>>)}
    <3>1. copies \subseteq Nat /\ copies # {}
      BY <2>1, <2>4
    <3>2. PICK m \in copies : \A s \in copies : ~(<<s, m>> \in NatLess)
      <4> HIDE DEF copies
      <4> QED BY <3>1, NatLessWellFounded, WFMin
    <3>3. \A s \in copies : ~(s < m)
      BY <3>1, <3>2 DEF NatLess
    <3>4. ~Uploaded(<<w, m>>)
      <4> SUFFICES ASSUME NEW s \in 1 .. m - 1,
                          Blob(<<w, s>>) = Blob(<<w, m>>), ~IsStream(<<w, s>>)
                   PROVE  FALSE
        BY DEF Uploaded
      <4>1. m \in 1 .. Len(layers) /\ s \in 1 .. Len(layers) /\ s < m
        BY <1>1
      <4>2. s \in copies
        BY <4>1, <2>2
      <4> QED BY <4>1, <4>2, <3>3
    <3>5. <<w, m>> \in LayerTasks(w)
      BY <3>4, <2>1, <2>2 DEF LayerTasks
    <3> QED BY <3>5, <2>2, AllTasksFacts
  <2> QED BY <2>3, <2>4
<1> QED BY <1>2, <1>3

(***************************************************************************)
(* The inductive invariant: CommittedImagesComplete with the reason why a  *)
(* writer may commit.                                                      *)
(***************************************************************************)

\* An upload is done only when its blob is in the store.
DoneStored == \A t \in Tasks : task[t].pc = "done" => Digest(t) \in DOMAIN contents

\* A writer puts its manifest only when all of its uploads are done.
ReadyToCommit ==
    \A w \in Writers : wpc[w] \in {"commit", "ok"} =>
        \A t \in AllTasks(w) : task[t].pc = "done"

IInv ==
    /\ TypeOK
    /\ BlobsMatchDigest
    /\ DoneStored
    /\ ReadyToCommit
    /\ CommittedImagesComplete

(***************************************************************************)
(* The client's steps.                                                     *)
(***************************************************************************)

GoodState(rec) ==
    rec \in TaskStates /\ rec.steps < UploadSteps /\ rec.tries < TransportSteps

\* A retry leaves an upload in a state of its type, within the steps of both
\* backoffs, and never done.
LEMMA RetryFacts ==
    ASSUME NEW rec, GoodState(rec)
    PROVE  /\ \A pc \in TaskPcs : GoodState(Goto(rec, pc)) /\ Goto(rec, pc).pc = pc
           /\ GoodState(Restart(rec)) /\ Restart(rec).pc # "done"
           /\ \A r \in Unanswered(rec) :
                GoodState(r) /\ (rec.pc # "done" => r.pc # "done")
<1>0. /\ TransportSteps \in Nat \ {0} /\ UploadSteps \in Nat \ {0}
      /\ rec \in [pc : TaskPcs, steps : Nat, tries : Nat, consumed : BOOLEAN]
      /\ rec.steps < UploadSteps /\ rec.tries < TransportSteps
  BY WriteAssumption, ImagesAssumption DEF GoodState, TaskStates
<1>1. ASSUME NEW p \in TaskPcs
      PROVE  GoodState(Goto(rec, p)) /\ Goto(rec, p).pc = p
  <2>1. /\ Goto(rec, p) \in [pc : TaskPcs, steps : Nat, tries : Nat, consumed : BOOLEAN]
        /\ Goto(rec, p).steps = rec.steps
        /\ Goto(rec, p).tries = 0
        /\ Goto(rec, p).pc = p
    BY <1>0 DEF Goto
  <2> QED BY <2>1, <1>0 DEF GoodState, TaskStates
<1>2. GoodState(Restart(rec)) /\ Restart(rec).pc # "done"
  <2>1. CASE rec.pc # "head" /\ rec.steps + 1 < UploadSteps
    <3>1. Restart(rec) = [pc |-> "post", steps |-> rec.steps + 1,
                          tries |-> 0, consumed |-> rec.consumed]
      BY <2>1, <1>0 DEF Restart, Goto
    <3> QED BY <3>1, <2>1, <1>0 DEF GoodState, TaskStates, TaskPcs
  <2>2. CASE ~(rec.pc # "head" /\ rec.steps + 1 < UploadSteps)
    BY <2>2, <1>1 DEF Restart, TaskPcs
  <2> QED BY <2>1, <2>2
<1>3. GoodState(Resend(rec)) /\ (rec.pc # "done" => Resend(rec).pc # "done")
  <2>1. CASE rec.tries + 1 < TransportSteps
    <3>1. Resend(rec) = [pc |-> IF rec.pc = "patch" THEN "repatch" ELSE rec.pc,
                         steps |-> rec.steps, tries |-> rec.tries + 1,
                         consumed |-> rec.consumed]
      BY <2>1, <1>0 DEF Resend
    <3> QED BY <3>1, <2>1, <1>0 DEF GoodState, TaskStates, TaskPcs
  <2>2. CASE ~(rec.tries + 1 < TransportSteps)
    BY <2>2, <1>2 DEF Resend
  <2> QED BY <2>1, <2>2
<1>4. \A r \in Unanswered(rec) : r = Resend(rec) \/ r = Goto(rec, "failed")
  BY DEF Unanswered
<1> QED BY <1>1, <1>2, <1>3, <1>4 DEF TaskPcs

\* Reading a stream to its end is no progress of the upload.
LEMMA ReadFacts ==
    ASSUME NEW rec, GoodState(rec), NEW b \in BOOLEAN
    PROVE  /\ GoodState([rec EXCEPT !.consumed = b])
           /\ [rec EXCEPT !.consumed = b].pc = rec.pc
<1>1. rec \in [pc : TaskPcs, steps : Nat, tries : Nat, consumed : BOOLEAN]
  BY DEF GoodState, TaskStates
<1> DEFINE r == [rec EXCEPT !.consumed = b]
<1>2. r.pc = rec.pc /\ r.steps = rec.steps /\ r.tries = rec.tries
  BY <1>1
<1>3. r \in [pc : TaskPcs, steps : Nat, tries : Nat, consumed : BOOLEAN]
  BY <1>1
<1> QED BY <1>2, <1>3 DEF GoodState, TaskStates

\* Whatever is pullable stays so while manifests do not change.
LEMMA CompleteStaysComplete ==
    ASSUME CommittedImagesComplete, ContentsGrow, UNCHANGED manifests
    PROVE  CommittedImagesComplete'
  BY DEF CommittedImagesComplete, ContentsGrow, Stored

\* One goroutine of uploadOne moves: the only duty is not to call itself
\* done before its blob is stored.
LEMMA UploadStep ==
    ASSUME IInv, NEW t \in Tasks, NEW rec, GoodState(rec), Set(t, rec),
           task[t].pc # "done",
           rec.pc = "done" => Digest(t) \in DOMAIN contents',
           UNCHANGED <<wpc, wtries>>, faults' \in 0 .. MaxFaults,
           RegTypeOK', BlobsMatchDigest', ContentsGrow, UNCHANGED manifests
    PROVE  IInv'
<1>1. task' = [task EXCEPT ![t] = rec] /\ task \in [Tasks -> TaskStates]
  BY DEF Set, IInv, TypeOK
<1>2. TypeOK'
  BY <1>1 DEF IInv, TypeOK, GoodState
<1>3. DoneStored'
  <2> SUFFICES ASSUME NEW u \in Tasks, task'[u].pc = "done"
               PROVE  Digest(u) \in DOMAIN contents'
    BY DEF DoneStored, Digest, Blob, Sha256
  <2>1. CASE u = t
    BY <2>1, <1>1
  <2>2. CASE u # t
    BY <2>2, <1>1 DEF IInv, DoneStored, ContentsGrow
  <2> QED BY <2>1, <2>2
<1>4. ReadyToCommit'
  <2> SUFFICES ASSUME NEW w \in Writers, wpc[w] \in {"commit", "ok"},
                      NEW u \in AllTasks(w)
               PROVE  task'[u].pc = "done"
    BY DEF ReadyToCommit, AllTasks, LayerTasks, ConfigTask
  <2>1. task[u].pc = "done" /\ u \in Tasks
    BY AllTasksFacts DEF IInv, ReadyToCommit
  <2> QED BY <2>1, <1>1
<1>5. CommittedImagesComplete'
  BY CompleteStaysComplete DEF IInv
<1> QED BY <1>2, <1>3, <1>4, <1>5 DEF IInv

\* Every step of uploadOne keeps the invariant.
LEMMA UploadKeepsIInv ==
    ASSUME IInv, NEW t \in Tasks, Upload(t)
    PROVE  IInv'
<1>1. RegTypeOK /\ BlobsMatchDigest /\ GoodState(task[t]) /\ faults \in 0 .. MaxFaults
  BY DEF IInv, TypeOK, GoodState
<1>2. Fault => faults' \in 0 .. MaxFaults
  BY <1>1, WriteAssumption, ImagesAssumption DEF Fault
<1>3. UNCHANGED faults => faults' \in 0 .. MaxFaults
  BY <1>1
<1>4. UNCHANGED regVars => RegTypeOK' /\ BlobsMatchDigest' /\ ContentsGrow /\ UNCHANGED manifests
  BY <1>1, RegistryUnchanged
<1>5. Blob(t) \in Seq(Nat) /\ UploadId(t) \in UploadIds
  <2>1. task[t].steps \in 0 .. UploadSteps - 1
    BY <1>1, WriteAssumption, ImagesAssumption DEF GoodState, TaskStates
  <2> QED BY <2>1, TaskFacts, WriteAssumption, ImagesAssumption DEF UploadId
<1>6. \A pc \in TaskPcs : GoodState(Goto(task[t], pc)) /\ Goto(task[t], pc).pc = pc
  BY <1>1, RetryFacts
<1>7. \A r \in Unanswered(task[t]) :
        GoodState(r) /\ (task[t].pc # "done" => r.pc # "done")
  BY <1>1, RetryFacts
<1>8. CASE CheckExistingBlob(t)
  <2>1. task[t].pc = "head" /\ UNCHANGED <<regVars, wpc, wtries>>
    BY <1>8 DEF CheckExistingBlob
  <2>2. CASE /\ Set(t, Goto(task[t], IF BlobStatus(Digest(t)) = "OK" THEN "done" ELSE "post"))
             /\ UNCHANGED faults
    <3>1. BlobStatus(Digest(t)) = "OK" => Digest(t) \in DOMAIN contents'
      BY <2>1 DEF BlobStatus, regVars
    <3> QED BY <2>1, <2>2, <3>1, <1>3, <1>4, <1>6, UploadStep DEF TaskPcs
  <2>3. CASE Fault /\ \E rec \in Unanswered(task[t]) : Set(t, rec)
    BY <2>1, <2>3, <1>2, <1>4, <1>7, UploadStep
  <2> QED BY <1>8, <2>2, <2>3 DEF CheckExistingBlob
<1>9. CASE InitiateUpload(t)
  <2>1. task[t].pc = "post" /\ UNCHANGED <<regVars, wpc, wtries>>
    BY <1>9 DEF InitiateUpload
  <2>2. CASE Set(t, Goto(task[t], "patch")) /\ UNCHANGED faults
    BY <2>1, <2>2, <1>3, <1>4, <1>6, UploadStep DEF TaskPcs
  <2>3. CASE Fault /\ \E rec \in Unanswered(task[t]) : Set(t, rec)
    BY <2>1, <2>3, <1>2, <1>4, <1>7, UploadStep
  <2> QED BY <1>9, <2>2, <2>3 DEF InitiateUpload
<1>10. ASSUME task[t].pc \in {"patch", "repatch"}, NEW body \in Bodies(t)
       PROVE  body \in Seq(Nat) /\ Prefixes(body) \subseteq Seq(Nat)
  <2>1. body \in Seq(Nat)
    <3>1. CASE task[t].pc = "patch"
      BY <3>1, <1>5 DEF Bodies
    <3>2. CASE task[t].pc = "repatch" /\ IsStream(t)
      BY <3>2 DEF Bodies
    <3>3. CASE task[t].pc = "repatch" /\ ~IsStream(t)
      <4>1. PICK i \in 0 .. Len(Blob(t)) : body = SubSeq(Blob(t), i + 1, Len(Blob(t)))
        BY <3>3 DEF Bodies
      <4> QED BY <4>1, <1>5
    <3> QED BY <1>10, <3>1, <3>2, <3>3
  <2> QED BY <2>1 DEF Prefixes
<1> DEFINE read == [task[t] EXCEPT !.consumed = IsStream(t)]
<1>12. GoodState(read) /\ read.pc = task[t].pc
  <2>1. IsStream(t) \in BOOLEAN
    BY DEF IsStream
  <2> QED BY <2>1, <1>1, ReadFacts
<1> HIDE DEF read
<1>13. GoodState(Restart(read)) /\ Restart(read).pc # "done"
  BY <1>12, RetryFacts
<1>14. /\ \A pc \in TaskPcs : GoodState(Goto(read, pc)) /\ Goto(read, pc).pc = pc
       /\ \A r \in Unanswered(read) :
            GoodState(r) /\ (task[t].pc # "done" => r.pc # "done")
  BY <1>12, RetryFacts
<1>15. CASE StreamBlob(t)
  <2>1. PICK body \in Bodies(t) :
          PatchStream(UploadId(t), body) /\ Set(t, AfterPatch(t))
    BY <1>15 DEF StreamBlob
  <2>2. task[t].pc \in {"patch", "repatch"} /\ UNCHANGED <<wpc, wtries, faults>>
    BY <1>15 DEF StreamBlob
  <2>3. RegTypeOK' /\ BlobsMatchDigest' /\ ContentsGrow /\ UNCHANGED manifests
    BY <2>1, <2>2, <1>1, <1>5, <1>10, PatchStreamEffect
  <2>4. AfterPatch(t) \in {Goto(read, "put"), Restart(read)}
    BY DEF AfterPatch, read
  <2>5. GoodState(AfterPatch(t)) /\ AfterPatch(t).pc # "done"
    BY <2>4, <1>13, <1>14 DEF TaskPcs
  <2> QED BY <2>1, <2>2, <2>3, <2>5, <1>3, UploadStep
<1>16. CASE BodyUnreadable(t)
  <2>1. task[t].pc # "done" /\ Set(t, Goto(task[t], "failed"))
        /\ UNCHANGED <<regVars, wpc, wtries, faults>>
    BY <1>16 DEF BodyUnreadable
  <2> QED BY <2>1, <1>3, <1>4, <1>6, UploadStep DEF TaskPcs
<1>17. CASE StreamBlobUnanswered(t)
  <2>1. PICK body \in Bodies(t) :
          \/ /\ UNCHANGED regVars
             /\ IF IsStream(t) /\ body # <<>>
                  THEN Set(t, Goto(task[t], "hung"))
                  ELSE \E rec \in Unanswered(task[t]) : Set(t, rec)
          \/ \E cut \in Prefixes(body) :
                /\ PatchStream(UploadId(t), cut)
                /\ IF IsStream(t) /\ cut # body
                     THEN Set(t, Goto(task[t], "hung"))
                     ELSE \E rec \in Unanswered(read) : Set(t, rec)
    BY <1>17 DEF StreamBlobUnanswered, read
  <2>2. /\ task[t].pc \in {"patch", "repatch"} /\ UNCHANGED <<wpc, wtries>>
        /\ faults' \in 0 .. MaxFaults
    BY <1>17, <1>2 DEF StreamBlobUnanswered
  <2>3. PICK rec \in {Goto(task[t], "hung")} \cup Unanswered(task[t]) \cup Unanswered(read) :
          Set(t, rec)
    BY <2>1
  <2>4. GoodState(rec) /\ rec.pc # "done"
    BY <2>2, <1>6, <1>7, <1>14 DEF TaskPcs
  <2>5. RegTypeOK' /\ BlobsMatchDigest' /\ ContentsGrow /\ UNCHANGED manifests
    <3>1. CASE UNCHANGED regVars
      BY <3>1, <1>4
    <3>2. CASE \E cut \in Prefixes(body) : PatchStream(UploadId(t), cut)
      <4>1. PICK cut \in Seq(Nat) : PatchStream(UploadId(t), cut)
        BY <3>2, <2>2, <1>10
      <4> QED BY <4>1, <1>1, <1>5, PatchStreamEffect
    <3> QED BY <2>1, <3>1, <3>2
  <2> QED BY <2>2, <2>3, <2>4, <2>5, UploadStep
<1>18. CASE CommitBlob(t)
  <2>1. task[t].pc = "put" /\ UNCHANGED <<wpc, wtries>>
    BY <1>18 DEF CommitBlob
  <2>2. PutDigest(t) =>
          /\ RegTypeOK' /\ BlobsMatchDigest' /\ ContentsGrow /\ UNCHANGED manifests
          /\ PutBlobStatus(UploadId(t), Digest(t), <<>>) = "CREATED"
               => Digest(t) \in DOMAIN contents'
    <3>1. <<>> \in Seq(Nat)
      OBVIOUS
    <3> QED BY <3>1, <1>1, PutBlobEffect DEF PutDigest
  <2>3. CASE /\ PutDigest(t)
             /\ Set(t, Goto(task[t],
                  IF PutBlobStatus(UploadId(t), Digest(t), <<>>) = "CREATED"
                    THEN "done" ELSE "failed"))
             /\ UNCHANGED faults
    BY <2>1, <2>2, <2>3, <1>3, <1>6, UploadStep DEF TaskPcs
  <2>4. CASE /\ Fault
             /\ \E rec \in Unanswered(task[t]) : Set(t, rec)
             /\ UNCHANGED regVars \/ PutDigest(t)
    <3>1. RegTypeOK' /\ BlobsMatchDigest' /\ ContentsGrow /\ UNCHANGED manifests
      BY <2>2, <2>4, <1>4
    <3> QED BY <2>1, <2>4, <3>1, <1>2, <1>7, UploadStep
  <2> QED BY <1>18, <2>3, <2>4 DEF CommitBlob
<1> QED BY <1>8, <1>9, <1>15, <1>16, <1>17, <1>18 DEF Upload

\* Write launches uploads and waits for them: a step of Write that leaves the
\* registry and every finished upload alone keeps the invariant if it commits
\* only when all uploads are done.
LEMMA WriterStep ==
    ASSUME IInv, NEW w \in Writers, UNCHANGED regVars, faults' \in 0 .. MaxFaults,
           NEW pc \in WriterPcs, wpc' = [wpc EXCEPT ![w] = pc],
           pc \in {"commit", "ok"} => \A t \in AllTasks(w) : task'[t].pc = "done",
           wtries' \in [Writers -> 0 .. TransportSteps - 1],
           task' \in [Tasks -> TaskStates],
           \A t \in Tasks : GoodState(task'[t]),
           \A t \in Tasks : task'[t] = task[t] \/ (t[1] = w /\ task'[t].pc # "done")
    PROVE  IInv'
<1>1. RegTypeOK' /\ BlobsMatchDigest' /\ ContentsGrow /\ UNCHANGED manifests
  BY RegistryUnchanged DEF IInv, TypeOK
<1>2. wpc' \in [Writers -> WriterPcs]
  BY DEF IInv, TypeOK
<1>3. TypeOK'
  BY <1>1, <1>2 DEF IInv, TypeOK, GoodState
<1>4. DoneStored'
  BY <1>1 DEF IInv, DoneStored, ContentsGrow, Digest, Blob, Sha256
<1>5. ReadyToCommit'
  <2> SUFFICES ASSUME NEW v \in Writers, wpc'[v] \in {"commit", "ok"},
                      NEW u \in AllTasks(v)
               PROVE  task'[u].pc = "done"
    BY DEF ReadyToCommit, AllTasks, LayerTasks, ConfigTask
  <2>1. u[1] = v /\ u \in Tasks
    BY AllTasksFacts
  <2>2. CASE v = w
    <3>1. wpc'[v] = pc
      BY <2>2 DEF IInv, TypeOK
    <3> QED BY <3>1, <2>2
  <2>3. CASE v # w
    <3>1. wpc[v] \in {"commit", "ok"}
      BY <2>3 DEF IInv, TypeOK
    <3>2. task[u].pc = "done"
      BY <3>1 DEF IInv, ReadyToCommit
    <3> QED BY <3>2, <2>1, <2>3
  <2> QED BY <2>2, <2>3
<1>6. CommittedImagesComplete'
  BY <1>1, CompleteStaysComplete DEF IInv
<1> QED BY <1>1, <1>3, <1>4, <1>5, <1>6 DEF IInv

\* The manifest PUT of a writer that is ready to commit: the manifest that
\* arrives is whole and so are its blobs, or it is cut and no image.
LEMMA PutImageStep ==
    ASSUME IInv, NEW w \in Writers, wpc[w] = "commit",
           NEW doc \in {ImageOf[w], Cut(ImageOf[w])}, PutImage(w, doc),
           NEW pc \in {"ok", "failed"}, wpc' = [wpc EXCEPT ![w] = pc],
           wtries' \in [Writers -> 0 .. TransportSteps - 1],
           UNCHANGED task, faults' \in 0 .. MaxFaults
    PROVE  IInv'
<1>1. /\ RegTypeOK' /\ BlobsMatchDigest' /\ UNCHANGED <<contents, uploads>>
      /\ \A r \in DOMAIN manifests' : \A x \in DOMAIN manifests'[r] :
            \/ manifests'[r][x].blob = doc
            \/ /\ r \in DOMAIN manifests /\ x \in DOMAIN manifests[r]
               /\ manifests'[r][x] = manifests[r][x]
  <2>1. RepoOf[w] \in Repos
    BY WriteAssumption, ImagesAssumption
  <2> QED BY <2>1, PutManifestEffect DEF IInv, TypeOK, PutImage
<1>2. wpc' \in [Writers -> WriterPcs]
  BY DEF IInv, TypeOK, WriterPcs
<1>3. TypeOK'
  BY <1>1, <1>2 DEF IInv, TypeOK
<1>4. DoneStored'
  BY <1>1 DEF IInv, DoneStored, Digest, Blob, Sha256
<1>5. \A t \in AllTasks(w) : task[t].pc = "done" /\ t \in Tasks
  BY AllTasksFacts DEF IInv, ReadyToCommit
<1>6. ReadyToCommit'
  <2> SUFFICES ASSUME NEW v \in Writers, wpc'[v] \in {"commit", "ok"},
                      NEW u \in AllTasks(v)
               PROVE  task[u].pc = "done"
    BY DEF ReadyToCommit, AllTasks, LayerTasks, ConfigTask
  <2>1. v = w \/ wpc[v] \in {"commit", "ok"}
    BY DEF IInv, TypeOK
  <2> QED BY <2>1, <1>5 DEF IInv, ReadyToCommit
<1>7. \A b \in Required(ImageOf[w]) : Stored(b)
  <2> SUFFICES ASSUME NEW b \in Required(ImageOf[w])
               PROVE  Stored(b)
    OBVIOUS
  <2>1. PICK t \in AllTasks(w) : Blob(t) = b
    BY RequiredIsUploaded
  <2>2. Sha256(b) \in DOMAIN contents
    BY <2>1, <1>5 DEF IInv, DoneStored, Digest
  <2>3. Sha256(contents[Sha256(b)]) = Sha256(b)
    BY <2>2 DEF IInv, BlobsMatchDigest
  <2> QED BY <2>2, <2>3, Sha256Injective DEF Stored
<1>8. Cut(ImageOf[w]) \notin ImageDocs
  BY WriteAssumption, RegistryAssumption DEF Docs
<1>9. CommittedImagesComplete'
  <2> SUFFICES ASSUME NEW r \in DOMAIN manifests', NEW x \in DOMAIN manifests'[r],
                      manifests'[r][x].blob \in ImageDocs,
                      NEW b \in Required(manifests'[r][x].blob)
               PROVE  Stored(b)
    BY <1>1 DEF CommittedImagesComplete, Stored
  <2>1. CASE manifests'[r][x].blob = doc
    BY <2>1, <1>7, <1>8
  <2>2. CASE r \in DOMAIN manifests /\ x \in DOMAIN manifests[r]
             /\ manifests'[r][x] = manifests[r][x]
    BY <2>2 DEF IInv, CommittedImagesComplete
  <2> QED BY <2>1, <2>2, <1>1
<1> QED BY <1>1, <1>3, <1>4, <1>6, <1>9 DEF IInv

\* Every step of Write keeps the invariant.
LEMMA WriteKeepsIInv ==
    ASSUME IInv, NEW w \in Writers, Write(w)
    PROVE  IInv'
<1>1. /\ task \in [Tasks -> TaskStates]
      /\ \A t \in Tasks : GoodState(task[t])
      /\ wtries \in [Writers -> 0 .. TransportSteps - 1]
      /\ faults \in 0 .. MaxFaults
      /\ TransportSteps \in Nat \ {0} /\ UploadSteps \in Nat \ {0} /\ MaxFaults \in Nat
  BY WriteAssumption, ImagesAssumption DEF IInv, TypeOK, GoodState
<1>2. ASSUME NEW pc \in {"head", "post"}
      PROVE  GoodState([Idle EXCEPT !.pc = pc]) /\ [Idle EXCEPT !.pc = pc].pc # "done"
  <2>1. /\ Idle \in [pc : TaskPcs, steps : Nat, tries : Nat, consumed : BOOLEAN]
        /\ Idle.steps = 0 /\ Idle.tries = 0 /\ pc \in TaskPcs
    BY DEF Idle, TaskPcs
  <2>2. /\ [Idle EXCEPT !.pc = pc]
             \in [pc : TaskPcs, steps : Nat, tries : Nat, consumed : BOOLEAN]
        /\ [Idle EXCEPT !.pc = pc].steps = 0 /\ [Idle EXCEPT !.pc = pc].tries = 0
        /\ [Idle EXCEPT !.pc = pc].pc = pc
    BY <2>1
  <2> QED BY <2>2, <1>1 DEF GoodState, TaskStates
<1>3. ASSUME LaunchConfig(w), UNCHANGED <<regVars, wtries, faults>>
      PROVE  IInv'
  <2>1. ConfigTask(w) \in Tasks /\ ConfigTask(w)[1] = w
    BY AllTasksFacts
  <2>2. /\ task' = [task EXCEPT ![ConfigTask(w)] = [Idle EXCEPT !.pc = "head"]]
        /\ wpc' = [wpc EXCEPT ![w] = "wait"]
    BY <1>3 DEF LaunchConfig, Set
  <2>3. \A t \in Tasks : \/ task'[t] = task[t]
                         \/ t[1] = w /\ task'[t] = [Idle EXCEPT !.pc = "head"]
    BY <2>1, <2>2, <1>1
  <2>4. task' \in [Tasks -> TaskStates]
    BY <2>1, <2>2, <1>1, <1>2 DEF GoodState
  <2> QED BY <2>2, <2>3, <2>4, <1>1, <1>2, <1>3, WriterStep DEF WriterPcs
<1>4. ASSUME NEW pc \in WriterPcs \ {"commit", "ok"}, wpc' = [wpc EXCEPT ![w] = pc],
             UNCHANGED task, UNCHANGED <<regVars, wtries, faults>>
      PROVE  IInv'
  BY <1>1, <1>4, WriterStep
<1>5. CASE Launch(w)
  <2>1. /\ wpc' = [wpc EXCEPT ![w] = "launched"]
        /\ task' = [t \in Tasks |-> IF t \in LayerTasks(w)
                                      THEN [Idle EXCEPT !.pc = FirstPc(t)]
                                      ELSE task[t]]
        /\ UNCHANGED <<regVars, wtries, faults>>
    BY <1>5 DEF Launch
  <2>2. \A t \in LayerTasks(w) : t[1] = w /\ FirstPc(t) \in {"head", "post"}
    BY AllTasksFacts DEF FirstPc
  <2>3. \A t \in Tasks :
          /\ GoodState(task'[t])
          /\ task'[t] = task[t] \/ (t[1] = w /\ task'[t].pc # "done")
    BY <2>1, <2>2, <1>1, <1>2
  <2>4. task' \in [Tasks -> TaskStates]
    BY <2>1, <2>3 DEF GoodState
  <2> QED BY <2>1, <2>3, <2>4, <1>1, WriterStep DEF WriterPcs
<1>6. CASE ReadConfig(w)
  BY <1>6, <1>3, <1>4 DEF ReadConfig, WriterPcs
<1>7. CASE WaitForLayers(w)
  BY <1>7, <1>3, <1>4 DEF WaitForLayers, WriterPcs
<1>8. CASE WaitForAll(w)
  <2>1. CASE \A t \in AllTasks(w) : task[t].pc = "done"
    BY <1>8, <2>1, <1>1, WriterStep DEF WaitForAll, WriterPcs
  <2>2. CASE ~\A t \in AllTasks(w) : task[t].pc = "done"
    BY <1>8, <2>2, <1>4 DEF WaitForAll, WriterPcs
  <2> QED BY <2>1, <2>2
<1>9. [wtries EXCEPT ![w] = 0] \in [Writers -> 0 .. TransportSteps - 1]
  BY <1>1
<1>10. Fault => faults' \in 0 .. MaxFaults
  BY <1>1 DEF Fault
<1>11. CASE CommitManifest(w)
  BY <1>11, <1>1, <1>9, PutImageStep DEF CommitManifest
<1>12. CASE ManifestUnanswered(w)
  BY <1>12, <1>9, <1>10, PutImageStep DEF ManifestUnanswered
<1>13. CASE ManifestNotSent(w)
  <2>1. UNCHANGED <<regVars, task>> /\ faults' \in 0 .. MaxFaults
    BY <1>13, <1>10 DEF ManifestNotSent
  <2>2. PICK pc \in {"commit", "failed"} : wpc' = [wpc EXCEPT ![w] = pc]
    <3>1. wpc[w] = "commit" /\ wpc \in [Writers -> WriterPcs]
      BY <1>13 DEF ManifestNotSent, IInv, TypeOK
    <3> QED BY <1>13, <3>1 DEF ManifestNotSent
  <2>3. wtries' \in [Writers -> 0 .. TransportSteps - 1]
    BY <1>13, <1>1, <1>9 DEF ManifestNotSent
  <2>4. \A t \in AllTasks(w) : task[t].pc = "done"
    BY <1>13 DEF ManifestNotSent, IInv, ReadyToCommit
  <2> QED BY <2>1, <2>2, <2>3, <2>4, <1>1, WriterStep DEF WriterPcs
<1> QED BY <1>5, <1>6, <1>7, <1>8, <1>11, <1>12, <1>13 DEF Write

(***************************************************************************)
(* Theorems.                                                               *)
(***************************************************************************)

\* Nothing is uploaded or committed yet.
LEMMA InitIInv == Init => IInv
<1> SUFFICES ASSUME Init PROVE IInv
  OBVIOUS
<1>1. DOMAIN contents = {} /\ DOMAIN uploads = {} /\ DOMAIN manifests = {}
  BY DEF Init, RegInit
<1>2. RegTypeOK
  BY DEF RegTypeOK, Init, RegInit
<1>3. TransportSteps \in Nat \ {0} /\ UploadSteps \in Nat \ {0} /\ MaxFaults \in Nat
  BY WriteAssumption, ImagesAssumption
<1>4. Idle \in TaskStates /\ Idle.pc = "none" /\ Idle.steps = 0 /\ Idle.tries = 0
  BY DEF Idle, TaskStates, TaskPcs
<1>5. TypeOK
  BY <1>2, <1>3, <1>4 DEF TypeOK, Init, WriterPcs
<1> QED
  BY <1>1, <1>4, <1>5 DEF IInv, Init, BlobsMatchDigest, DoneStored, ReadyToCommit,
     CommittedImagesComplete

\* Every step of every goroutine keeps the invariant.
LEMMA NextIInv == IInv /\ [Next]_vars => IInv'
<1> SUFFICES ASSUME IInv, [Next]_vars PROVE IInv'
  OBVIOUS
<1>1. CASE \E w \in Writers : Write(w)
  BY <1>1, WriteKeepsIInv
<1>2. CASE \E t \in Tasks : Upload(t)
  BY <1>2, UploadKeepsIInv
<1>3. CASE UNCHANGED vars
  BY <1>3 DEF vars, regVars, clientVars, IInv, TypeOK, RegTypeOK, BlobsMatchDigest,
     DoneStored, ReadyToCommit, CommittedImagesComplete, Stored, AllTasks, LayerTasks,
     ConfigTask, Digest, Blob, Sha256
<1> QED BY <1>1, <1>2, <1>3 DEF Next

\* The invariant holds in every state of every push.
THEOREM Invariance == Spec => []IInv
  BY InitIInv, NextIInv, PTL DEF Spec

\* Type correctness, which bounds both retry loops: no request is sent more
\* than TransportSteps times, no upload attempted more than UploadSteps times.
THEOREM TypeCorrect == Spec => []TypeOK
<1>1. IInv => TypeOK
  BY DEF IInv
<1> QED BY <1>1, Invariance, PTL

\* The registry never serves bytes that do not have the digest asked for.
THEOREM DigestsCorrect == Spec => []BlobsMatchDigest
<1>1. IInv => BlobsMatchDigest
  BY DEF IInv
<1> QED BY <1>1, Invariance, PTL

\* A committed image is complete, whatever the faults and the interleaving.
THEOREM CommitsAreComplete == Spec => []CommittedImagesComplete
<1>1. IInv => CommittedImagesComplete
  BY DEF IInv
<1> QED BY <1>1, Invariance, PTL

(***************************************************************************)
(* What a writer reports, and what those who pull see of it.               *)
(***************************************************************************)

\* A step of any goroutine is the manifest PUT of a writer that is ready to
\* commit, which is heard of as success only if it arrived whole, or it
\* leaves all manifests alone.
LEMMA StepShape ==
    ASSUME IInv, [Next]_vars
    PROVE  \/ \E w \in Writers : \E doc \in {ImageOf[w], Cut(ImageOf[w])} :
              \E pc \in {"ok", "failed"} :
                 /\ wpc[w] = "commit" /\ PutImage(w, doc) /\ UNCHANGED task
                 /\ pc = "ok" => doc = ImageOf[w]
                 /\ wpc' = [wpc EXCEPT ![w] = pc]
           \/ /\ UNCHANGED manifests /\ ContentsGrow
              /\ \/ UNCHANGED wpc
                 \/ \E w \in Writers : \E pc \in WriterPcs \ {"ok"} :
                       ~Returned(w) /\ wpc' = [wpc EXCEPT ![w] = pc]
<1> DEFINE Quiet == UNCHANGED manifests /\ ContentsGrow
           Moves(w) == \E pc \in WriterPcs \ {"ok"} :
                          ~Returned(w) /\ wpc' = [wpc EXCEPT ![w] = pc]
<1>1. RegTypeOK /\ BlobsMatchDigest
  BY DEF IInv, TypeOK
<1>2. UNCHANGED contents => ContentsGrow
  BY DEF ContentsGrow
<1>3. ASSUME NEW t \in Tasks, Upload(t)
      PROVE  Quiet /\ UNCHANGED wpc
  <2>1. CASE CheckExistingBlob(t) \/ InitiateUpload(t) \/ BodyUnreadable(t)
    BY <2>1, <1>2 DEF CheckExistingBlob, InitiateUpload, BodyUnreadable, regVars
  <2>2. CASE StreamBlob(t) \/ StreamBlobUnanswered(t)
    BY <2>2, <1>2 DEF StreamBlob, StreamBlobUnanswered, PatchStream, regVars
  <2>3. CASE CommitBlob(t)
    <3>1. UNCHANGED wpc /\ (UNCHANGED regVars \/ PutDigest(t))
      BY <2>3 DEF CommitBlob
    <3>2. PutDigest(t) => Quiet
      <4>1. <<>> \in Seq(Nat)
        OBVIOUS
      <4> QED BY <4>1, <1>1, PutBlobEffect DEF PutDigest
    <3> QED BY <3>1, <3>2, <1>2 DEF regVars
  <2> QED BY <1>3, <2>1, <2>2, <2>3 DEF Upload
<1>4. ASSUME NEW w \in Writers, Launch(w) \/ ReadConfig(w) \/ WaitForLayers(w)
                                \/ WaitForAll(w) \/ ManifestNotSent(w)
      PROVE  Quiet /\ (UNCHANGED wpc \/ Moves(w))
  <2>1. Quiet
    BY <1>2, <1>4 DEF Launch, ReadConfig, WaitForLayers, WaitForAll, ManifestNotSent, regVars
  <2>2. ~Returned(w)
    BY <1>4 DEF Launch, ReadConfig, WaitForLayers, WaitForAll, ManifestNotSent, Returned
  <2>3. UNCHANGED wpc \/ \E pc \in WriterPcs \ {"ok"} : wpc' = [wpc EXCEPT ![w] = pc]
    BY <1>4 DEF Launch, ReadConfig, WaitForLayers, WaitForAll, ManifestNotSent, LaunchConfig,
       WriterPcs
  <2> QED BY <2>1, <2>2, <2>3
<1>5. CASE UNCHANGED vars
  BY <1>5, <1>2 DEF vars, regVars, clientVars
<1>6. ASSUME NEW w \in Writers, CommitManifest(w) \/ ManifestUnanswered(w)
      PROVE  \E doc \in {ImageOf[w], Cut(ImageOf[w])} : \E pc \in {"ok", "failed"} :
                 /\ wpc[w] = "commit" /\ PutImage(w, doc) /\ UNCHANGED task
                 /\ pc = "ok" => doc = ImageOf[w]
                 /\ wpc' = [wpc EXCEPT ![w] = pc]
  BY <1>6 DEF CommitManifest, ManifestUnanswered
<1> QED BY <1>3, <1>4, <1>5, <1>6 DEF Next, Write

\* An entry under a digest is the document of that digest.
NamesMatch ==
    \A r, x : Listed(r, x) =>
        \A doc \in WireDocs : x = Sha256(doc) => manifests[r][x].blob = doc

\* What a writer's manifest PUT does to every entry of every repository.
LEMMA PutImageEntries ==
    ASSUME NEW w \in Writers, NEW doc \in {ImageOf[w], Cut(ImageOf[w])}, PutImage(w, doc)
    PROVE  /\ ImageOf[w] \in ImageDocs /\ ImageOf[w] \in WireDocs /\ doc \in WireDocs
           /\ Cut(ImageOf[w]) \notin ImageDocs
           /\ \A d \in WireDocs : \A v \in Writers : TagOf[v] # Sha256(d)
           /\ UNCHANGED contents
           /\ \A r, x :
                /\ Listed(r, x)' <=> \/ Listed(r, x)
                                     \/ r = RepoOf[w] /\ x \in {TagOf[w], Sha256(doc)}
                /\ r = RepoOf[w] /\ x \in {TagOf[w], Sha256(doc)} => manifests'[r][x].blob = doc
                /\ Listed(r, x) /\ ~(r = RepoOf[w] /\ x \in {TagOf[w], Sha256(doc)}) =>
                       manifests'[r][x] = manifests[r][x]
<1>1. ImageOf[w] \in ImageDocs /\ \A v \in Writers : TagOf[v] \in Tags
  BY WriteAssumption, ImagesAssumption
<1>2. PutManifestStatus(RepoOf[w], "image", doc) = "CREATED"
  BY DEF PutManifestStatus
<1>3. UNCHANGED contents
  BY DEF PutImage, PutManifest
<1> QED BY <1>1, <1>2, <1>3, PutManifestAccepted, RegistryAssumption DEF PutImage, Docs, WireDocs

\* Two entries of a writer that reported success, and why they may be trusted.
Kept(w) ==
    /\ Listed(RepoOf[w], Sha256(ImageOf[w]))
    /\ manifests[RepoOf[w]][Sha256(ImageOf[w])].blob = ImageOf[w]
    /\ Listed(RepoOf[w], TagOf[w])
    /\ \E v \in Writers :
          /\ Returned(v)
          /\ RepoOf[v] = RepoOf[w] /\ TagOf[v] = TagOf[w]
          /\ manifests[RepoOf[w]][TagOf[w]].blob \in {ImageOf[v], Cut(ImageOf[v])}
          /\ \A b \in Required(ImageOf[v]) : Stored(b)

\* What is said of manifests stands on IInv and on itself.
ReportInv == IInv /\ NamesMatch /\ \A w \in Writers : wpc[w] = "ok" => Kept(w)

LEMMA InitReportInv == Init => ReportInv
<1> SUFFICES ASSUME Init PROVE ReportInv
  OBVIOUS
<1>1. DOMAIN manifests = {} /\ \A w \in Writers : wpc[w] # "ok"
  BY DEF Init, RegInit
<1> QED BY <1>1, InitIInv DEF ReportInv, NamesMatch, Listed

LEMMA NextReportInv == ReportInv /\ [Next]_vars => ReportInv'
<1> SUFFICES ASSUME ReportInv, [Next]_vars PROVE ReportInv'
  OBVIOUS
<1>1. IInv /\ IInv'
  BY NextIInv DEF ReportInv
<1>2. wpc \in [Writers -> WriterPcs]
  BY <1>1 DEF IInv, TypeOK
<1>3. ASSUME UNCHANGED manifests, ContentsGrow,
             \/ UNCHANGED wpc
             \/ \E w \in Writers : \E pc \in WriterPcs \ {"ok"} :
                   ~Returned(w) /\ wpc' = [wpc EXCEPT ![w] = pc]
      PROVE  ReportInv'
  <2>1. NamesMatch'
    BY <1>3 DEF ReportInv, NamesMatch, Listed, WireDocs, Docs, Cut, Sha256
  <2>2. \A v \in Writers : wpc'[v] = "ok" => wpc[v] = "ok"
    BY <1>2, <1>3 DEF WriterPcs
  <2>3. \A v \in Writers : Returned(v) => Returned(v)'
    BY <1>2, <1>3 DEF Returned
  <2>4. \A b : Stored(b) => Stored(b)'
    BY <1>3 DEF Stored, ContentsGrow, Sha256
  <2>5. ASSUME NEW w \in Writers, Kept(w)
        PROVE  Kept(w)'
    BY <1>3, <2>3, <2>4, <2>5 DEF Kept, Listed, Sha256, Cut, Required
  <2> QED BY <1>1, <2>1, <2>2, <2>5 DEF ReportInv
<1>4. ASSUME NEW w \in Writers, NEW doc \in {ImageOf[w], Cut(ImageOf[w])},
             NEW pc \in {"ok", "failed"}, wpc[w] = "commit", PutImage(w, doc),
             pc = "ok" => doc = ImageOf[w], wpc' = [wpc EXCEPT ![w] = pc], UNCHANGED task
      PROVE  ReportInv'
  <2>1. /\ ImageOf[w] \in ImageDocs /\ ImageOf[w] \in WireDocs /\ doc \in WireDocs
        /\ \A d \in WireDocs : \A v \in Writers : TagOf[v] # Sha256(d)
        /\ UNCHANGED contents
    BY <1>4, PutImageEntries
  <2>2. \A r, x :
          /\ Listed(r, x)' <=> \/ Listed(r, x)
                               \/ r = RepoOf[w] /\ x \in {TagOf[w], Sha256(doc)}
          /\ r = RepoOf[w] /\ x \in {TagOf[w], Sha256(doc)} => manifests'[r][x].blob = doc
          /\ Listed(r, x) /\ ~(r = RepoOf[w] /\ x \in {TagOf[w], Sha256(doc)}) =>
                 manifests'[r][x] = manifests[r][x]
    BY <1>4, PutImageEntries
  <2>3. NamesMatch'
    <3> SUFFICES ASSUME NEW r, NEW x, Listed(r, x)', NEW d \in WireDocs, x = Sha256(d)
                 PROVE  manifests'[r][x].blob = d
      BY DEF NamesMatch, WireDocs, Docs, Cut, Sha256
    <3>1. CASE r = RepoOf[w] /\ x \in {TagOf[w], Sha256(doc)}
      BY <2>1, <2>2, <3>1, Sha256Injective
    <3>2. CASE ~(r = RepoOf[w] /\ x \in {TagOf[w], Sha256(doc)})
      BY <2>2, <3>2 DEF ReportInv, NamesMatch
    <3> QED BY <3>1, <3>2
  <2>4. Returned(w)' /\ \A v \in Writers : Returned(v) => Returned(v)'
    BY <1>2, <1>4 DEF Returned
  <2>5. \A b : Stored(b) => Stored(b)'
    BY <2>1 DEF Stored, Sha256
  <2>6. \A b \in Required(ImageOf[w]) : Stored(b)
    <3> SUFFICES ASSUME NEW b \in Required(ImageOf[w])
                 PROVE  Stored(b)
      OBVIOUS
    <3>1. PICK t \in AllTasks(w) : Blob(t) = b
      BY RequiredIsUploaded
    <3>2. t \in Tasks /\ task[t].pc = "done"
      BY <1>1, <1>4, AllTasksFacts DEF IInv, ReadyToCommit
    <3>3. Sha256(b) \in DOMAIN contents /\ Sha256(contents[Sha256(b)]) = Sha256(b)
      BY <1>1, <3>1, <3>2 DEF IInv, DoneStored, Digest, BlobsMatchDigest
    <3> QED BY <3>3, Sha256Injective DEF Stored
  <2>7. ASSUME NEW u \in Writers, wpc'[u] = "ok"
        PROVE  Kept(u)'
    <3>1. u = w \/ (wpc[u] = "ok" /\ Kept(u))
      BY <1>2, <1>4, <2>7 DEF ReportInv
    <3>2. u = w => doc = ImageOf[w]
      BY <1>2, <1>4, <2>7
    <3>3. ImageOf[u] \in WireDocs
      BY WriteAssumption, ImagesAssumption DEF WireDocs, Docs
    <3>4. /\ Listed(RepoOf[u], Sha256(ImageOf[u]))'
          /\ manifests'[RepoOf[u]][Sha256(ImageOf[u])].blob = ImageOf[u]
      <4>1. CASE RepoOf[u] = RepoOf[w] /\ Sha256(ImageOf[u]) \in {TagOf[w], Sha256(doc)}
        BY <2>1, <2>2, <3>3, <4>1, Sha256Injective
      <4>2. CASE ~(RepoOf[u] = RepoOf[w] /\ Sha256(ImageOf[u]) \in {TagOf[w], Sha256(doc)})
        BY <2>2, <3>1, <3>2, <4>2 DEF Kept
      <4> QED BY <4>1, <4>2
    <3>5. Listed(RepoOf[u], TagOf[u])'
      BY <2>2, <3>1 DEF Kept
    <3>6. \E v \in Writers :
            /\ Returned(v)'
            /\ RepoOf[v] = RepoOf[u] /\ TagOf[v] = TagOf[u]
            /\ manifests'[RepoOf[u]][TagOf[u]].blob \in {ImageOf[v], Cut(ImageOf[v])}
            /\ \A b \in Required(ImageOf[v]) : Stored(b)'
      <4>1. CASE RepoOf[u] = RepoOf[w] /\ TagOf[u] = TagOf[w]
        BY <2>2, <2>4, <2>5, <2>6, <4>1
      <4>2. CASE ~(RepoOf[u] = RepoOf[w] /\ TagOf[u] = TagOf[w])
        <5>1. manifests'[RepoOf[u]][TagOf[u]] = manifests[RepoOf[u]][TagOf[u]]
          BY <2>1, <2>2, <3>1, <4>2 DEF Kept
        <5> QED BY <2>4, <2>5, <3>1, <4>2, <5>1 DEF Kept
      <4> QED BY <4>1, <4>2
    <3> QED BY <3>4, <3>5, <3>6 DEF Kept, Sha256, Cut, Required
  <2> QED BY <1>1, <2>3, <2>7 DEF ReportInv
<1> QED BY <1>1, <1>3, <1>4, StepShape

THEOREM ReportInvariance == Spec => []ReportInv
  BY InitReportInv, NextReportInv, PTL DEF Spec

\* A nil error of Write (write.go:52-148) is the truth for as long as anybody
\* looks: the image is there by digest, and what its tag names came, whole or
\* cut, from a writer of that tag that had all of its blobs in the store.
THEOREM SuccessIsStored == Spec => []ReportedSuccessIsStored
<1>1. ReportInv => ReportedSuccessIsStored
  BY DEF ReportInv, ReportedSuccessIsStored, Kept, Listed, Returned
<1> QED BY <1>1, ReportInvariance, PTL

(***************************************************************************)
(* The refinement: pushing request by request implements AtomicPush.       *)
(***************************************************************************)

\* What is on offer, once every committed image is known to be complete.
LEMMA PullableEntries ==
    ASSUME CommittedImagesComplete
    PROVE  \A i : i \in Pullable <=>
               \E r, x : /\ Listed(r, x) /\ i = <<r, x, manifests[r][x].blob>>
                         /\ manifests[r][x].blob \in ImageDocs
<1> TAKE i
<1>1. i \in Pullable => \E r, x : /\ Listed(r, x) /\ i = <<r, x, manifests[r][x].blob>>
                                  /\ manifests[r][x].blob \in ImageDocs
  BY DEF Pullable, Listed
<1>2. ASSUME NEW r, NEW x, Listed(r, x), i = <<r, x, manifests[r][x].blob>>,
             manifests[r][x].blob \in ImageDocs
      PROVE  i \in Pullable
  <2>1. \A b \in Required(i[3]) : Stored(b)
    BY <1>2 DEF CommittedImagesComplete, Listed
  <2>2. i \in {<<r, target, manifests[r][target].blob>> : target \in DOMAIN manifests[r]}
    BY <1>2 DEF Listed
  <2> QED BY <1>2, <2>1, <2>2 DEF Pullable, Listed
<1> QED BY <1>1, <1>2

\* The manifest PUT shows its image, or takes what its tag named before.
LEMMA PutImageIsPush ==
    ASSUME ReportInv, ReportInv', NEW w \in Writers,
           NEW doc \in {ImageOf[w], Cut(ImageOf[w])}, PutImage(w, doc)
    PROVE  /\ doc = ImageOf[w] => Pullable' = Abstract!Tagged(w)
           /\ doc # ImageOf[w] => Pullable' = Abstract!Untagged(w)
<1> DEFINE repo == RepoOf[w]
           tag == TagOf[w]
           mine(r, x) == r = repo /\ x \in {tag, Sha256(doc)}
<1>1. /\ ImageOf[w] \in ImageDocs /\ ImageOf[w] \in WireDocs /\ doc \in WireDocs
      /\ Cut(ImageOf[w]) \notin ImageDocs
  BY PutImageEntries
<1>2. \A r, x : /\ Listed(r, x)' <=> (Listed(r, x) \/ mine(r, x))
                /\ mine(r, x) => manifests'[r][x].blob = doc
                /\ Listed(r, x) /\ ~mine(r, x) => manifests'[r][x] = manifests[r][x]
  BY PutImageEntries
<1>3. \A i : i \in Pullable <=>
          \E r, x : /\ Listed(r, x) /\ i = <<r, x, manifests[r][x].blob>>
                    /\ manifests[r][x].blob \in ImageDocs
  BY PullableEntries DEF ReportInv, IInv
<1>4. \A i : i \in Pullable' <=>
          \E r, x : /\ Listed(r, x)' /\ i = <<r, x, manifests'[r][x].blob>>
                    /\ manifests'[r][x].blob \in ImageDocs
  <2>1. CommittedImagesComplete'
    BY DEF ReportInv, IInv
  <2>2. \A i : i \in Pullable' => \E r, x : /\ Listed(r, x)' /\ i = <<r, x, manifests'[r][x].blob>>
                                /\ manifests'[r][x].blob \in ImageDocs
    BY DEF Pullable, Listed
  <2>3. ASSUME NEW i, NEW r, NEW x, Listed(r, x)', i = <<r, x, manifests'[r][x].blob>>,
               manifests'[r][x].blob \in ImageDocs
        PROVE  i \in Pullable'
    <3>1. \A b \in Required(i[3]) : Stored(b)'
      BY <2>1, <2>3 DEF CommittedImagesComplete, Listed, Required
    <3>2. i \in {<<r, target, manifests'[r][target].blob>> : target \in DOMAIN manifests'[r]}
      BY <2>3 DEF Listed
    <3> QED BY <2>3, <3>1, <3>2 DEF Pullable, Listed, Required
  <2> QED BY <2>2, <2>3
<1>5. \A r, x : mine(r, x) /\ Listed(r, x) =>
          x = tag \/ manifests[r][x].blob = doc
  BY <1>1 DEF ReportInv, NamesMatch
<1> DEFINE kept == {i \in Pullable : ~(i[1] = repo /\ i[2] = tag)}
           added == {<<repo, tag, doc>>, <<repo, Sha256(doc), doc>>}
<1>6. \A i \in kept : i \in Pullable'
  <2> SUFFICES ASSUME NEW i \in kept PROVE i \in Pullable'
    OBVIOUS
  <2>1. PICK r, x : /\ Listed(r, x) /\ i = <<r, x, manifests[r][x].blob>>
                    /\ manifests[r][x].blob \in ImageDocs
    BY <1>3
  <2>2. i[1] = r /\ i[2] = x
    BY <2>1
  <2>3. ~(r = repo /\ x = tag)
    BY <2>2
  <2>4. manifests'[r][x].blob = manifests[r][x].blob
    BY <1>2, <1>5, <2>1, <2>3
  <2> QED BY <1>2, <1>4, <2>1, <2>4
<1>7. \A i \in Pullable' : i \in kept \/ (i \in added /\ doc \in ImageDocs)
  <2> SUFFICES ASSUME NEW i \in Pullable'
               PROVE  i \in kept \/ (i \in added /\ doc \in ImageDocs)
    OBVIOUS
  <2>1. PICK r, x : /\ Listed(r, x)' /\ i = <<r, x, manifests'[r][x].blob>>
                    /\ manifests'[r][x].blob \in ImageDocs
    BY <1>4
  <2>2. CASE mine(r, x)
    BY <1>2, <2>1, <2>2
  <2>3. CASE ~mine(r, x)
    <3>1. Listed(r, x) /\ manifests'[r][x] = manifests[r][x]
      BY <1>2, <2>1, <2>3
    <3>2. i \in Pullable
      BY <1>3, <2>1, <3>1
    <3>3. i[1] = r /\ i[2] = x
      BY <2>1
    <3> QED BY <2>3, <3>2, <3>3
  <2> QED BY <2>2, <2>3
<1>8. doc \in ImageDocs => \A i \in added : i \in Pullable'
  <2> SUFFICES ASSUME doc \in ImageDocs, NEW i \in added PROVE i \in Pullable'
    OBVIOUS
  <2>1. PICK x \in {tag, Sha256(doc)} : i = <<repo, x, doc>>
    OBVIOUS
  <2>2. Listed(repo, x)' /\ manifests'[repo][x].blob = doc
    BY <1>2
  <2> QED BY <1>4, <2>1, <2>2
<1> HIDE DEF kept, added
<1>9. CASE doc = ImageOf[w]
  <2>1. Pullable' = kept \cup added
    BY <1>1, <1>6, <1>7, <1>8, <1>9
  <2>2. Abstract!Tagged(w) = kept \cup added
    BY <1>9 DEF Abstract!Tagged, Abstract!Untagged, Abstract!DigestName, Sha256, kept, added
  <2> QED BY <1>9, <2>1, <2>2
<1>10. CASE doc # ImageOf[w]
  <2>1. doc \notin ImageDocs
    BY <1>1, <1>10
  <2>2. Pullable' = kept
    BY <1>6, <1>7, <2>1
  <2>3. Abstract!Untagged(w) = kept
    BY DEF Abstract!Untagged, kept
  <2> QED BY <1>10, <2>2, <2>3
<1> QED BY <1>9, <1>10

\* A step that leaves the manifests alone shows and hides no image.
LEMMA QuietStepHides ==
    ASSUME ReportInv, ReportInv', UNCHANGED manifests
    PROVE  Pullable' = Pullable
<1>1. CommittedImagesComplete /\ CommittedImagesComplete'
  BY DEF ReportInv, IInv
<1>2. ASSUME NEW r \in DOMAIN manifests, NEW x \in DOMAIN manifests[r],
             manifests[r][x].blob \in ImageDocs
      PROVE  /\ \A b \in Required(manifests[r][x].blob) : Stored(b)
             /\ \A b \in Required(manifests[r][x].blob) : Stored(b)'
  BY <1>1, <1>2 DEF CommittedImagesComplete, Required
<1> DEFINE all == UNION {{<<repo, target, manifests[repo][target].blob>> :
                            target \in DOMAIN manifests[repo]} : repo \in DOMAIN manifests}
<1>3. \A i \in all : \E r \in DOMAIN manifests : \E x \in DOMAIN manifests[r] :
                         i = <<r, x, manifests[r][x].blob>>
  OBVIOUS
<1>4. Pullable = {i \in all : i[3] \in ImageDocs /\ \A b \in Required(i[3]) : Stored(b)}
  BY DEF Pullable
<1>5. Pullable' = {i \in all : i[3] \in ImageDocs /\ \A b \in Required(i[3]) : Stored(b)'}
  BY DEF Pullable, Required
<1>6. \A i \in all : i[3] \in ImageDocs =>
          \A b \in Required(i[3]) : Stored(b) /\ Stored(b)'
  BY <1>2, <1>3
<1> HIDE DEF all
<1> QED BY <1>4, <1>5, <1>6

\* Every step of every goroutine is a step of AtomicPush or none at all.
LEMMA StepIsPush ==
    ASSUME ReportInv, ReportInv', [Next]_vars
    PROVE  [Abstract!Next]_Abstract!vars
<1> DEFINE result == [w \in Writers |-> IF Returned(w) THEN wpc[w] ELSE "pending"]
<1>1. IInv /\ wpc \in [Writers -> WriterPcs]
  BY DEF ReportInv, IInv, TypeOK
<1>2. ASSUME NEW w \in Writers, NEW pc \in {"ok", "failed"}, ~Returned(w),
             wpc' = [wpc EXCEPT ![w] = pc]
      PROVE  result[w] = "pending" /\ result' = [result EXCEPT ![w] = pc]
  BY <1>1, <1>2 DEF Returned
<1>3. ASSUME NEW w \in Writers, NEW pc \in WriterPcs \ {"ok", "failed"}, ~Returned(w),
             wpc' = [wpc EXCEPT ![w] = pc]
      PROVE  result' = result
  BY <1>1, <1>3 DEF Returned
<1>4. UNCHANGED wpc => result' = result
  BY DEF Returned
<1> HIDE DEF result
<1>5. CASE \E w \in Writers : \E doc \in {ImageOf[w], Cut(ImageOf[w])} :
              \E pc \in {"ok", "failed"} :
                 /\ wpc[w] = "commit" /\ PutImage(w, doc) /\ UNCHANGED task
                 /\ pc = "ok" => doc = ImageOf[w]
                 /\ wpc' = [wpc EXCEPT ![w] = pc]
  <2> PICK w \in Writers : \E doc \in {ImageOf[w], Cut(ImageOf[w])} :
              \E pc \in {"ok", "failed"} :
                 /\ wpc[w] = "commit" /\ PutImage(w, doc)
                 /\ pc = "ok" => doc = ImageOf[w]
                 /\ wpc' = [wpc EXCEPT ![w] = pc]
    BY <1>5
  <2>1. PICK doc \in {ImageOf[w], Cut(ImageOf[w])}, pc \in {"ok", "failed"} :
                 /\ wpc[w] = "commit" /\ PutImage(w, doc)
                 /\ pc = "ok" => doc = ImageOf[w]
                 /\ wpc' = [wpc EXCEPT ![w] = pc]
    OBVIOUS
  <2>2. ~Returned(w)
    BY <2>1 DEF Returned
  <2>3. result[w] = "pending" /\ result' = [result EXCEPT ![w] = pc]
    BY <1>2, <2>1, <2>2
  <2>4. /\ doc = ImageOf[w] => Pullable' = Abstract!Tagged(w)
        /\ doc # ImageOf[w] => Pullable' = Abstract!Untagged(w)
    BY <2>1, PutImageIsPush
  <2>5. pc = "ok" => Abstract!Push(w)
    BY <2>1, <2>3, <2>4 DEF Abstract!Push, Abstract!Return, result
  <2>6. pc = "failed" => Abstract!FailedPush(w)
    BY <2>3, <2>4 DEF Abstract!FailedPush, Abstract!Return, result
  <2> QED BY <2>5, <2>6 DEF Abstract!Next
<1>6. CASE /\ UNCHANGED manifests
           /\ \/ UNCHANGED wpc
              \/ \E w \in Writers : \E pc \in WriterPcs \ {"ok"} :
                    ~Returned(w) /\ wpc' = [wpc EXCEPT ![w] = pc]
  <2>1. Pullable' = Pullable
    BY <1>6, QuietStepHides
  <2>2. CASE result' = result
    BY <2>1, <2>2 DEF Abstract!vars, result
  <2>3. CASE \E w \in Writers : ~Returned(w) /\ wpc' = [wpc EXCEPT ![w] = "failed"]
    <3>1. PICK w \in Writers : ~Returned(w) /\ wpc' = [wpc EXCEPT ![w] = "failed"]
      BY <2>3
    <3>2. result[w] = "pending" /\ result' = [result EXCEPT ![w] = "failed"]
      BY <1>2, <3>1
    <3>3. Abstract!FailedPush(w)
      BY <2>1, <3>2 DEF Abstract!FailedPush, Abstract!Return, result
    <3> QED BY <3>3 DEF Abstract!Next
  <2> QED BY <1>3, <1>4, <1>6, <2>2, <2>3
<1> QED BY <1>1, <1>5, <1>6, StepShape

\* Pushing blob by blob and request by request is, to those who pull, one
\* step per push (write.go:52-148): nothing appears, vanishes or breaks but
\* by the manifest PUT of a writer whose blobs are all stored.
THEOREM PushesAreAtomic == Spec => PushIsAtomic
<1>1. Init => Abstract!Init
  BY DEF Init, RegInit, Abstract!Init, Pullable, Returned
<1>2. ReportInv /\ ReportInv' /\ [Next]_vars => [Abstract!Next]_Abstract!vars
  BY StepIsPush
<1> QED BY <1>1, <1>2, ReportInvariance, PTL DEF Spec, PushIsAtomic, Abstract!Spec

(***************************************************************************)
(* Attempts and faults: the account of what every fault has disturbed.     *)
(***************************************************************************)

Mine(w) == {t \in Tasks : t[1] = w}

\* Every upload is started once, and none of a writer's runs when it returns.
LaunchedOnce ==
    \A w \in Writers :
        /\ wpc[w] = "start" => \A t \in Mine(w) : task[t] = Idle
        /\ wpc[w] \in {"launched", "layers"} => task[ConfigTask(w)] = Idle
        /\ wpc[w] \in {"commit", "ok", "failed"} =>
              \A t \in Mine(w) : task[t].pc \in {"none", "done", "failed"}
        /\ \A t \in Mine(w) \ AllTasks(w) : task[t] = Idle

\* What the registry holds as uploads comes from attempts that were made.
UploadsAreAttempts ==
    \A id \in DOMAIN uploads :
        \E t \in Tasks : \E s \in 0 .. task[t].steps : id = UploadIdOf(t, s)

\* An attempt has sent nothing before its first PATCH; a stream that was read
\* has made an attempt before.
Early(rec) == rec.pc \in {"none", "head", "post", "patch"}

EarlyUploads ==
    \A t \in Tasks : Early(task[t]) =>
        /\ UploadId(t) \notin DOMAIN uploads
        /\ task[t].steps = 0 => ~task[t].consumed

\* The current attempt of an upload is where it would be without any fault.
Clean(t) ==
    /\ task[t].tries = 0
    /\ \/ /\ task[t].pc \in {"none", "head", "post", "patch", "done"}
          /\ UploadId(t) \notin DOMAIN uploads
       \/ /\ task[t].pc = "put"
          /\ UploadId(t) \in DOMAIN uploads /\ uploads[UploadId(t)] = Blob(t)
       \/ /\ task[t].pc = "failed" /\ task[t].steps > 0
          /\ UploadId(t) \notin DOMAIN uploads

\* The attempts that are over or are not where they should be.
Disturbed ==
    {a \in Tasks \X (0 .. UploadSteps - 1) :
        \/ a[2] < task[a[1]].steps
        \/ a[2] = task[a[1]].steps /\ ~Clean(a[1])}

\* Each of them has a fault of its own.
Paid == IsFiniteSet(Disturbed) /\ Cardinality(Disturbed) <= faults

Account ==
    /\ IInv
    /\ LaunchedOnce /\ UploadsAreAttempts /\ EarlyUploads
    /\ Paid
    /\ FaultFreeSucceeds

\* A set that grows by one element at most costs one fault at most.
LEMMA OneMore ==
    ASSUME NEW S, IsFiniteSet(S), NEW T, NEW x, T \subseteq S \cup {x}
    PROVE  /\ IsFiniteSet(T) /\ Cardinality(T) \in Nat /\ Cardinality(S) \in Nat
           /\ Cardinality(T) <= Cardinality(S) + 1
<1>1. IsFiniteSet(S \cup {x}) /\ Cardinality(S) \in Nat
      /\ Cardinality(S \cup {x}) <= Cardinality(S) + 1
      /\ Cardinality(S \cup {x}) \in Nat
  <2>1. /\ IsFiniteSet(S \cup {x})
        /\ Cardinality(S \cup {x}) = IF x \in S THEN Cardinality(S) ELSE Cardinality(S) + 1
    BY FS_AddElement
  <2>2. Cardinality(S) \in Nat /\ Cardinality(S \cup {x}) \in Nat
    BY <2>1, FS_CardinalityType
  <2> QED BY <2>1, <2>2
<1>2. IsFiniteSet(T) /\ Cardinality(T) <= Cardinality(S \cup {x})
  BY <1>1, FS_Subset
<1>3. Cardinality(T) \in Nat
  BY <1>2, FS_CardinalityType
<1> QED BY <1>1, <1>2, <1>3

LEMMA NoMore ==
    ASSUME NEW S, IsFiniteSet(S), NEW T, T \subseteq S
    PROVE  /\ IsFiniteSet(T) /\ Cardinality(T) \in Nat /\ Cardinality(S) \in Nat
           /\ Cardinality(T) <= Cardinality(S)
  BY FS_Subset, FS_CardinalityType

\* Without a fault every upload is in its first attempt, and clean.
LEMMA FaultFreeIsClean ==
    ASSUME Account, faults = 0, NEW t \in Tasks
    PROVE  task[t].steps = 0 /\ Clean(t)
<1>1. task[t].steps \in Nat /\ task[t].steps < UploadSteps /\ UploadSteps \in Nat \ {0}
  BY WriteAssumption, ImagesAssumption DEF Account, IInv, TypeOK, TaskStates
<1>2. Disturbed = {}
  <2>1. IsFiniteSet(Disturbed) /\ Cardinality(Disturbed) = 0
    BY FS_CardinalityType DEF Account, Paid
  <2> QED BY <2>1, FS_EmptySet
<1>3. <<t, 0>> \notin Disturbed
  BY <1>2
<1>4. task[t].steps = 0
  BY <1>1, <1>3 DEF Disturbed
<1> QED BY <1>1, <1>3, <1>4 DEF Disturbed

\* What a retry makes of an upload: the same attempt goes on, the next one
\* begins at its POST, or the upload fails.
LEMMA RetryShape ==
    ASSUME NEW rec, GoodState(rec)
    PROVE  /\ \A pc \in TaskPcs : /\ Goto(rec, pc).pc = pc /\ Goto(rec, pc).tries = 0
                                  /\ Goto(rec, pc).steps = rec.steps
                                  /\ Goto(rec, pc).consumed = rec.consumed
           /\ \/ Restart(rec).pc = "failed" /\ Restart(rec).steps = rec.steps
              \/ /\ Restart(rec).pc = "post" /\ Restart(rec).tries = 0
                 /\ Restart(rec).steps = rec.steps + 1
           /\ \A r \in Unanswered(rec) :
                \/ r.pc = "failed" /\ r.steps = rec.steps
                \/ r.pc = "post" /\ r.tries = 0 /\ r.steps = rec.steps + 1
                \/ /\ r.pc = IF rec.pc = "patch" THEN "repatch" ELSE rec.pc
                   /\ r.steps = rec.steps /\ r.consumed = rec.consumed
<1>1. /\ TransportSteps \in Nat \ {0} /\ UploadSteps \in Nat \ {0}
      /\ rec \in [pc : TaskPcs, steps : Nat, tries : Nat, consumed : BOOLEAN]
  BY WriteAssumption, ImagesAssumption DEF GoodState, TaskStates
<1>2. ASSUME NEW pc \in TaskPcs
      PROVE  /\ Goto(rec, pc).pc = pc /\ Goto(rec, pc).tries = 0
             /\ Goto(rec, pc).steps = rec.steps
             /\ Goto(rec, pc).consumed = rec.consumed
  BY <1>1 DEF Goto
<1>3. \/ Restart(rec).pc = "failed" /\ Restart(rec).steps = rec.steps
      \/ /\ Restart(rec).pc = "post" /\ Restart(rec).tries = 0
         /\ Restart(rec).steps = rec.steps + 1
  <2>1. CASE rec.pc # "head" /\ rec.steps + 1 < UploadSteps
    <3>1. Restart(rec) = [pc |-> "post", steps |-> rec.steps + 1,
                          tries |-> 0, consumed |-> rec.consumed]
      BY <2>1, <1>1 DEF Restart, Goto
    <3> QED BY <3>1
  <2>2. CASE ~(rec.pc # "head" /\ rec.steps + 1 < UploadSteps)
    BY <2>2, <1>2 DEF Restart, TaskPcs
  <2> QED BY <2>1, <2>2
<1>4. CASE rec.tries + 1 < TransportSteps
  <2>1. Resend(rec) = [pc |-> IF rec.pc = "patch" THEN "repatch" ELSE rec.pc,
                       steps |-> rec.steps, tries |-> rec.tries + 1,
                       consumed |-> rec.consumed]
    BY <1>1, <1>4 DEF Resend
  <2>2. /\ Resend(rec).pc = IF rec.pc = "patch" THEN "repatch" ELSE rec.pc
        /\ Resend(rec).steps = rec.steps /\ Resend(rec).consumed = rec.consumed
    BY <2>1
  <2> QED BY <1>2, <1>3, <2>2 DEF Unanswered, TaskPcs
<1>5. CASE ~(rec.tries + 1 < TransportSteps)
  BY <1>2, <1>3, <1>5 DEF Unanswered, Resend, TaskPcs
<1> QED BY <1>4, <1>5

\* No upload of the registry but id is written or deleted.
TouchesOnly(id) ==
    \A x : x # id => /\ x \in DOMAIN uploads' <=> x \in DOMAIN uploads
                     /\ x \in DOMAIN uploads => uploads'[x] = uploads[x]

\* So it is with every request of an upload (blobs.go:168-216).
LEMMA RequestsTouchOne ==
    ASSUME NEW id
    PROVE  /\ UNCHANGED regVars => TouchesOnly(id)
           /\ \A body : PatchStream(id, body) => TouchesOnly(id)
           /\ \A digest, body : PutBlob(id, digest, body) => TouchesOnly(id)
<1>1. UNCHANGED uploads => TouchesOnly(id)
  BY DEF TouchesOnly
<1>2. \A body : uploads' = Put(uploads, id, body) => TouchesOnly(id)
  BY DEF TouchesOnly, Put
<1>3. uploads' = Del(uploads, id) => TouchesOnly(id)
  BY DEF TouchesOnly, Del
<1> QED BY <1>1, <1>2, <1>3 DEF regVars, PatchStream, PutBlob

\* One goroutine of uploadOne moves to rec.  It touches no upload but that
\* of its own attempt, and disturbs an attempt only when a fault pays.
LEMMA UploadAccount ==
    ASSUME Account, IInv', NEW t \in Tasks, NEW rec, GoodState(rec), Set(t, rec),
           task[t].pc \notin {"none", "done", "failed"}, rec.pc # "none",
           UNCHANGED wpc,
           TouchesOnly(UploadId(t)),
           \/ rec.steps = task[t].steps
           \/ rec.steps = task[t].steps + 1 /\ rec.pc = "post" /\ rec.tries = 0,
           rec.steps = task[t].steps /\ Early(rec) =>
               UploadId(t) \notin DOMAIN uploads' /\ (rec.steps = 0 => ~rec.consumed),
           \/ faults' = faults + 1
           \/ faults' = faults /\ (Clean(t) => rec.steps = task[t].steps /\ Clean(t)')
    PROVE  Account'
<1>1. /\ task \in [Tasks -> TaskStates] /\ faults \in Nat /\ faults' \in Nat
      /\ MaxFaults \in Nat /\ UploadSteps \in Nat \ {0}
      /\ \A u \in Tasks : task[u].steps \in Nat /\ task[u].steps < UploadSteps
  BY WriteAssumption, ImagesAssumption DEF Account, IInv, TypeOK, TaskStates
<1>2. /\ task'[t] = rec /\ \A u \in Tasks : u # t => task'[u] = task[u]
      /\ rec.steps \in Nat
  BY <1>1 DEF Set, GoodState, TaskStates
<1>3. \A u \in Tasks : u # t => UploadId(u)' = UploadId(u) /\ UploadId(u) # UploadId(t)
  BY <1>2 DEF UploadId, UploadIdOf
<1>4. LaunchedOnce'
  <2>1. task[t] # Idle
    BY DEF Idle
  <2>2. t \in Mine(t[1]) /\ t[1] \in Writers
    BY TaskFacts DEF Mine
  <2>3. \A w \in Writers : wpc[w] \in {"start", "commit", "ok", "failed"} => t \notin Mine(w)
    BY <2>1 DEF Account, LaunchedOnce
  <2>4. \A w \in Writers : wpc[w] \in {"launched", "layers"} => t # ConfigTask(w)
    BY <2>1 DEF Account, LaunchedOnce
  <2>5. \A w \in Writers : t \notin Mine(w) \ AllTasks(w)
    BY <2>1 DEF Account, LaunchedOnce
  <2>6. \A w \in Writers : ConfigTask(w) \in Tasks
    BY AllTasksFacts
  <2>7. \A w \in Writers : Mine(w)' = Mine(w) /\ AllTasks(w)' = AllTasks(w)
                         /\ ConfigTask(w)' = ConfigTask(w) /\ Mine(w) \subseteq Tasks
    BY DEF Mine, AllTasks, LayerTasks, ConfigTask
  <2> QED BY <1>2, <2>3, <2>4, <2>5, <2>6, <2>7 DEF Account, LaunchedOnce
<1>5. UploadsAreAttempts'
  <2> SUFFICES ASSUME NEW id \in DOMAIN uploads'
               PROVE  \E u \in Tasks : \E s \in 0 .. task'[u].steps : id = UploadIdOf(u, s)
    BY DEF UploadsAreAttempts, UploadIdOf
  <2>1. CASE id = UploadId(t)
    <3>1. task[t].steps \in 0 .. task'[t].steps
      BY <1>1, <1>2
    <3> QED BY <2>1, <3>1 DEF UploadId
  <2>2. CASE id # UploadId(t)
    <3>1. PICK u \in Tasks : \E s \in 0 .. task[u].steps : id = UploadIdOf(u, s)
      BY <2>2 DEF Account, UploadsAreAttempts, TouchesOnly
    <3>2. PICK s \in 0 .. task[u].steps : id = UploadIdOf(u, s)
      BY <3>1
    <3>3. s \in 0 .. task'[u].steps
      BY <1>1, <1>2, <3>2
    <3> QED BY <3>2, <3>3
  <2> QED BY <2>1, <2>2
<1>6. rec.steps = task[t].steps + 1 => UploadId(t)' \notin DOMAIN uploads'
  <2> SUFFICES ASSUME rec.steps = task[t].steps + 1, UploadId(t)' \in DOMAIN uploads'
               PROVE  FALSE
    OBVIOUS
  <2>1. UploadId(t)' = <<t, task[t].steps + 1>> /\ UploadId(t) = <<t, task[t].steps>>
    BY <1>2 DEF UploadId, UploadIdOf
  <2>2. UploadId(t)' \in DOMAIN uploads
    BY <1>1, <2>1 DEF TouchesOnly
  <2>3. PICK u \in Tasks : \E s \in 0 .. task[u].steps : UploadId(t)' = UploadIdOf(u, s)
    BY <2>2 DEF Account, UploadsAreAttempts, TouchesOnly
  <2>4. u = t /\ task[t].steps + 1 \in 0 .. task[t].steps
    BY <2>1, <2>3 DEF UploadIdOf
  <2> QED BY <1>1, <2>4
<1>7. rec.steps = task[t].steps => UploadId(t)' = UploadId(t)
  BY <1>2 DEF UploadId
<1>8. EarlyUploads'
  <2> SUFFICES ASSUME NEW u \in Tasks, Early(task'[u])
               PROVE  /\ UploadId(u)' \notin DOMAIN uploads'
                      /\ task'[u].steps = 0 => ~task'[u].consumed
    BY DEF EarlyUploads, Early
  <2>1. CASE u = t
    BY <1>1, <1>2, <1>6, <1>7, <2>1
  <2>2. CASE u # t
    BY <1>2, <1>3, <2>2 DEF Account, EarlyUploads, TouchesOnly
  <2> QED BY <2>1, <2>2
<1>9. rec.steps = task[t].steps + 1 => Clean(t)'
  BY <1>2, <1>6 DEF Clean
<1>10. \A u \in Tasks : u # t => (Clean(u)' <=> Clean(u))
  <2> SUFFICES ASSUME NEW u \in Tasks, u # t
               PROVE  Clean(u)' <=> Clean(u)
    OBVIOUS
  <2>1. /\ task'[u] = task[u] /\ UploadId(u)' = UploadId(u) /\ Blob(u)' = Blob(u)
        /\ UploadId(u) \in DOMAIN uploads' <=> UploadId(u) \in DOMAIN uploads
        /\ UploadId(u) \in DOMAIN uploads => uploads'[UploadId(u)] = uploads[UploadId(u)]
    BY <1>2, <1>3 DEF Blob, TouchesOnly
  <2> QED BY <2>1 DEF Clean
<1>11. \A a \in Disturbed' : \/ a \in Disturbed
                             \/ a = <<t, task[t].steps>> /\ ~(Clean(t) /\ Clean(t)'
                                                             /\ rec.steps = task[t].steps)
  <2> SUFFICES ASSUME NEW a \in Tasks \X (0 .. UploadSteps - 1),
                      \/ a[2] < task'[a[1]].steps
                      \/ a[2] = task'[a[1]].steps /\ ~Clean(a[1])'
               PROVE  \/ a \in Disturbed
                      \/ a = <<t, task[t].steps>> /\ ~(Clean(t) /\ Clean(t)'
                                                      /\ rec.steps = task[t].steps)
    BY DEF Disturbed
  <2>1. CASE a[1] # t
    BY <1>2, <1>10, <2>1 DEF Disturbed
  <2>2. CASE a[1] = t
    <3>1. a = <<t, a[2]>> /\ a[2] \in Nat
      BY <1>1, <2>2
    <3>2. CASE a[2] < task[t].steps
      BY <2>2, <3>2 DEF Disturbed
    <3>3. CASE a[2] = task[t].steps
      BY <1>1, <1>2, <2>2, <3>1, <3>3
    <3>4. CASE a[2] > task[t].steps
      BY <1>1, <1>2, <1>9, <2>2, <3>1, <3>4
    <3> QED BY <1>1, <3>1, <3>2, <3>3, <3>4
  <2> QED BY <2>1, <2>2
<1>12. ~Clean(t) => <<t, task[t].steps>> \in Disturbed
  BY <1>1 DEF Disturbed
<1>13. Paid'
  <2>1. IsFiniteSet(Disturbed) /\ Cardinality(Disturbed) <= faults
    BY DEF Account, Paid
  <2>2. CASE faults' = faults + 1
    <3>1. Disturbed' \subseteq Disturbed \cup {<<t, task[t].steps>>}
      BY <1>11
    <3>2. /\ IsFiniteSet(Disturbed') /\ Cardinality(Disturbed') \in Nat
          /\ Cardinality(Disturbed) \in Nat
          /\ Cardinality(Disturbed') <= Cardinality(Disturbed) + 1
      <4> HIDE DEF Disturbed
      <4> QED BY <2>1, <3>1, OneMore
    <3>3. Cardinality(Disturbed') <= faults'
      BY <1>1, <2>1, <2>2, <3>2
    <3> QED BY <3>2, <3>3 DEF Paid
  <2>3. CASE faults' = faults /\ (Clean(t) => rec.steps = task[t].steps /\ Clean(t)')
    <3>1. Disturbed' \subseteq Disturbed
      BY <1>11, <1>12, <2>3
    <3> QED BY <1>1, <2>1, <2>3, <3>1, NoMore DEF Paid
  <2> QED BY <2>2, <2>3
<1>14. FaultFreeSucceeds'
  BY <1>1 DEF Account, FaultFreeSucceeds
<1> QED BY <1>4, <1>5, <1>8, <1>13, <1>14 DEF Account

\* The request of an upload met a fault: whatever becomes of the attempt,
\* the fault pays for it.
LEMMA FaultAccount ==
    ASSUME Account, IInv', NEW t \in Tasks, NEW rec, GoodState(rec), Set(t, rec),
           task[t].pc \in {"head", "post", "patch", "repatch", "put"},
           UNCHANGED wpc, TouchesOnly(UploadId(t)), Fault,
           \/ rec.pc \in {"failed", "hung"} /\ rec.steps = task[t].steps
           \/ rec.pc = "post" /\ rec.tries = 0 /\ rec.steps = task[t].steps + 1
           \/ /\ rec.pc = IF task[t].pc = "patch" THEN "repatch" ELSE task[t].pc
              /\ rec.steps = task[t].steps
              /\ Early(rec) => rec.consumed = task[t].consumed /\ UNCHANGED uploads
    PROVE  Account'
<1>1. faults' = faults + 1
  BY DEF Fault
<1>2. task[t].steps \in Nat
  BY DEF Account, IInv, TypeOK, TaskStates
<1>3. /\ rec.pc # "none"
      /\ \/ rec.steps = task[t].steps
         \/ rec.steps = task[t].steps + 1 /\ rec.pc = "post" /\ rec.tries = 0
  OBVIOUS
<1>4. rec.steps = task[t].steps /\ Early(rec) =>
        UploadId(t) \notin DOMAIN uploads' /\ (rec.steps = 0 => ~rec.consumed)
  <2> SUFFICES ASSUME rec.steps = task[t].steps, Early(rec)
               PROVE  UploadId(t) \notin DOMAIN uploads' /\ (rec.steps = 0 => ~rec.consumed)
    OBVIOUS
  <2>1. /\ rec.pc = IF task[t].pc = "patch" THEN "repatch" ELSE task[t].pc
        /\ rec.consumed = task[t].consumed /\ UNCHANGED uploads
    BY <1>2 DEF Early
  <2>2. Early(task[t])
    BY <2>1 DEF Early
  <2> QED BY <2>1, <2>2 DEF Account, EarlyUploads
<1> QED BY <1>1, <1>3, <1>4, UploadAccount

\* Every step of uploadOne keeps the account.
LEMMA UploadKeepsAccount ==
    ASSUME Account, NEW t \in Tasks, Upload(t)
    PROVE  Account'
<1>1. IInv'
  BY UploadKeepsIInv DEF Account
<1>2. /\ GoodState(task[t]) /\ task[t] \in TaskStates /\ task[t].steps \in Nat
      /\ Blob(t) \in Seq(Nat)
  BY TaskFacts DEF Account, IInv, TypeOK, GoodState, TaskStates
<1> DEFINE read == [task[t] EXCEPT !.consumed = IsStream(t)]
<1>3. /\ GoodState(read) /\ read.pc = task[t].pc
      /\ read.steps = task[t].steps /\ read.tries = task[t].tries
  <2>1. IsStream(t) \in BOOLEAN
    BY DEF IsStream
  <2>2. task[t] \in [pc : TaskPcs, steps : Nat, tries : Nat, consumed : BOOLEAN]
    BY <1>2 DEF TaskStates
  <2> QED BY <2>1, <2>2, <1>2, ReadFacts
<1> HIDE DEF read
<1>4. \A rec \in Unanswered(task[t]) \cup Unanswered(read) : GoodState(rec)
  BY <1>2, <1>3, RetryFacts
<1>5. \A rec \in Unanswered(task[t]) \cup Unanswered(read) :
        \/ rec.pc = "failed" /\ rec.steps = task[t].steps
        \/ rec.pc = "post" /\ rec.tries = 0 /\ rec.steps = task[t].steps + 1
        \/ /\ rec.pc = IF task[t].pc = "patch" THEN "repatch" ELSE task[t].pc
           /\ rec.steps = task[t].steps
  BY <1>2, <1>3, RetryShape
<1>6. \A rec \in Unanswered(task[t]) :
        \/ rec.pc = "failed" \/ rec.steps = task[t].steps + 1
        \/ rec.consumed = task[t].consumed
  BY <1>2, RetryShape
<1>7. \A pc \in TaskPcs :
        /\ GoodState(Goto(task[t], pc)) /\ GoodState(Goto(read, pc))
        /\ Goto(task[t], pc).pc = pc /\ Goto(task[t], pc).tries = 0
        /\ Goto(task[t], pc).steps = task[t].steps
        /\ Goto(task[t], pc).consumed = task[t].consumed
        /\ Goto(read, pc).pc = pc /\ Goto(read, pc).tries = 0
        /\ Goto(read, pc).steps = task[t].steps
  BY <1>2, <1>3, RetryFacts, RetryShape
<1>8. \A rec : Set(t, rec) =>
        task'[t] = rec /\ (rec.steps = task[t].steps => UploadId(t)' = UploadId(t))
  BY <1>2 DEF Set, UploadId, Account, IInv, TypeOK
<1>9. Blob(t)' = Blob(t)
  BY DEF Blob
<1>10. CASE CheckExistingBlob(t)
  <2>1. task[t].pc = "head" /\ UNCHANGED <<regVars, wpc>> /\ TouchesOnly(UploadId(t))
        /\ UNCHANGED uploads
    BY <1>10, RequestsTouchOne DEF CheckExistingBlob, regVars
  <2>2. ASSUME NEW pc \in {"done", "post"}, Set(t, Goto(task[t], pc)), UNCHANGED faults
        PROVE  Account'
    <3>1. Early(task[t])
      BY <2>1 DEF Early
    <3>2. UploadId(t) \notin DOMAIN uploads' /\ (task[t].steps = 0 => ~task[t].consumed)
      BY <2>1, <3>1 DEF Account, EarlyUploads
    <3>3. Clean(t)'
      BY <1>7, <1>8, <2>2, <3>2 DEF Clean, TaskPcs
    <3> QED BY <1>1, <1>7, <2>1, <2>2, <3>2, <3>3, UploadAccount DEF TaskPcs
  <2>3. CASE Fault /\ \E rec \in Unanswered(task[t]) : Set(t, rec)
    <3>1. PICK rec \in Unanswered(task[t]) : Set(t, rec)
      BY <2>3
    <3>2. \/ rec.pc \in {"failed", "hung"} /\ rec.steps = task[t].steps
          \/ rec.pc = "post" /\ rec.tries = 0 /\ rec.steps = task[t].steps + 1
          \/ /\ rec.pc = IF task[t].pc = "patch" THEN "repatch" ELSE task[t].pc
             /\ rec.steps = task[t].steps
             /\ Early(rec) => rec.consumed = task[t].consumed /\ UNCHANGED uploads
      BY <1>2, <1>5, <1>6, <2>1
    <3> QED BY <1>1, <1>4, <2>1, <2>3, <3>1, <3>2, FaultAccount
  <2> QED BY <1>10, <2>2, <2>3 DEF CheckExistingBlob
<1>11. CASE InitiateUpload(t)
  <2>1. task[t].pc = "post" /\ UNCHANGED <<regVars, wpc>> /\ TouchesOnly(UploadId(t))
        /\ UNCHANGED uploads
    BY <1>11, RequestsTouchOne DEF InitiateUpload, regVars
  <2>2. CASE Set(t, Goto(task[t], "patch")) /\ UNCHANGED faults
    <3>1. Early(task[t])
      BY <2>1 DEF Early
    <3>2. UploadId(t) \notin DOMAIN uploads' /\ (task[t].steps = 0 => ~task[t].consumed)
      BY <2>1, <3>1 DEF Account, EarlyUploads
    <3>3. Clean(t)'
      BY <1>7, <1>8, <2>2, <3>2 DEF Clean, TaskPcs
    <3> QED BY <1>1, <1>7, <2>1, <2>2, <3>2, <3>3, UploadAccount DEF TaskPcs
  <2>3. CASE Fault /\ \E rec \in Unanswered(task[t]) : Set(t, rec)
    <3>1. PICK rec \in Unanswered(task[t]) : Set(t, rec)
      BY <2>3
    <3>2. \/ rec.pc \in {"failed", "hung"} /\ rec.steps = task[t].steps
          \/ rec.pc = "post" /\ rec.tries = 0 /\ rec.steps = task[t].steps + 1
          \/ /\ rec.pc = IF task[t].pc = "patch" THEN "repatch" ELSE task[t].pc
             /\ rec.steps = task[t].steps
             /\ Early(rec) => rec.consumed = task[t].consumed /\ UNCHANGED uploads
      BY <1>2, <1>5, <1>6, <2>1
    <3> QED BY <1>1, <1>4, <2>1, <2>3, <3>1, <3>2, FaultAccount
  <2> QED BY <1>11, <2>2, <2>3 DEF InitiateUpload
<1>12. CASE StreamBlob(t)
  <2>1. PICK body \in Bodies(t) : PatchStream(UploadId(t), body) /\ Set(t, AfterPatch(t))
    BY <1>12 DEF StreamBlob
  <2>2. /\ task[t].pc \in {"patch", "repatch"} /\ UNCHANGED <<wpc, faults>>
        /\ TouchesOnly(UploadId(t))
    BY <1>12, <2>1, RequestsTouchOne DEF StreamBlob
  <2>3. CASE PatchStreamStatus(UploadId(t)) = "NO_CONTENT"
    <3>1. AfterPatch(t) = Goto(read, "put")
      BY <2>3 DEF AfterPatch, read
    <3>2. Clean(t) => Clean(t)'
      <4> SUFFICES ASSUME Clean(t) PROVE Clean(t)'
        OBVIOUS
      <4>1. task[t].pc = "patch" /\ body = Blob(t)
        BY <2>1, <2>2 DEF Clean, Bodies
      <4>2. uploads' = Put(uploads, UploadId(t), Blob(t))
        BY <2>1, <2>3, <4>1 DEF PatchStream
      <4>3. UploadId(t) \in DOMAIN uploads' /\ uploads'[UploadId(t)] = Blob(t)
        BY <4>2 DEF Put
      <4> QED BY <1>7, <1>8, <1>9, <2>1, <3>1, <4>3 DEF Clean, TaskPcs
    <3>3. GoodState(Goto(read, "put")) /\ Goto(read, "put").pc = "put"
          /\ Goto(read, "put").steps = task[t].steps /\ ~Early(Goto(read, "put"))
      BY <1>7 DEF TaskPcs, Early
    <3> QED BY <1>1, <2>1, <2>2, <3>1, <3>2, <3>3, UploadAccount
  <2>4. CASE PatchStreamStatus(UploadId(t)) # "NO_CONTENT"
    <3>1. AfterPatch(t) = Restart(read)
      BY <2>4 DEF AfterPatch, read
    <3>2. ~Clean(t)
      <4>1. UploadId(t) \in DOMAIN uploads
        BY <2>4 DEF PatchStreamStatus
      <4> QED BY <2>2, <4>1 DEF Clean
    <3>3. \/ Restart(read).pc = "failed" /\ Restart(read).steps = task[t].steps
          \/ /\ Restart(read).pc = "post" /\ Restart(read).tries = 0
             /\ Restart(read).steps = task[t].steps + 1
      BY <1>3, RetryShape
    <3>4. GoodState(Restart(read))
      BY <1>3, RetryFacts
    <3>5. ~(Restart(read).steps = task[t].steps /\ Early(Restart(read)))
      BY <1>2, <3>3 DEF Early
    <3> QED BY <1>1, <2>1, <2>2, <3>1, <3>2, <3>3, <3>4, <3>5, UploadAccount
  <2> QED BY <2>3, <2>4
<1>13. CASE BodyUnreadable(t)
  <2>1. /\ task[t].pc \in {"patch", "repatch"} /\ Set(t, Goto(task[t], "failed"))
        /\ UNCHANGED <<regVars, wpc, faults>> /\ TouchesOnly(UploadId(t))
        /\ UNCHANGED uploads
        /\ task[t].pc = "patch" => ~CanOpen(t)
    BY <1>13, RequestsTouchOne DEF BodyUnreadable, regVars
  <2>2. Clean(t) => Clean(t)'
    <3> SUFFICES ASSUME Clean(t) PROVE Clean(t)'
      OBVIOUS
    <3>1. task[t].pc = "patch" /\ UploadId(t) \notin DOMAIN uploads
      BY <2>1 DEF Clean
    <3>2. task[t].consumed /\ Early(task[t])
      BY <2>1, <3>1 DEF CanOpen, Early
    <3>3. task[t].steps > 0
      BY <1>2, <3>2 DEF Account, EarlyUploads
    <3> QED BY <1>7, <1>8, <2>1, <3>1, <3>3 DEF Clean, TaskPcs
  <2>3. GoodState(Goto(task[t], "failed")) /\ Goto(task[t], "failed").pc = "failed"
        /\ Goto(task[t], "failed").steps = task[t].steps /\ ~Early(Goto(task[t], "failed"))
    BY <1>7 DEF TaskPcs, Early
  <2> QED BY <1>1, <2>1, <2>2, <2>3, UploadAccount
<1>14. CASE StreamBlobUnanswered(t)
  <2>1. /\ task[t].pc \in {"patch", "repatch"} /\ UNCHANGED wpc /\ Fault
        /\ TouchesOnly(UploadId(t))
    BY <1>14, RequestsTouchOne DEF StreamBlobUnanswered
  <2>2. PICK rec \in {Goto(task[t], "hung")} \cup Unanswered(task[t]) \cup Unanswered(read) :
          Set(t, rec)
    BY <1>14 DEF StreamBlobUnanswered, read
  <2>3. GoodState(rec)
    BY <1>4, <1>7 DEF TaskPcs
  <2>4. \/ rec.pc \in {"failed", "hung"} /\ rec.steps = task[t].steps
        \/ rec.pc = "post" /\ rec.tries = 0 /\ rec.steps = task[t].steps + 1
        \/ rec.pc = "repatch" /\ rec.steps = task[t].steps
    BY <1>5, <1>7, <2>1, <2>2 DEF TaskPcs
  <2> QED BY <1>1, <2>1, <2>2, <2>3, <2>4, FaultAccount DEF Early
<1>15. CASE CommitBlob(t)
  <2>1. task[t].pc = "put" /\ UNCHANGED wpc
    BY <1>15 DEF CommitBlob
  <2>2. PutDigest(t) => TouchesOnly(UploadId(t))
    BY RequestsTouchOne DEF PutDigest
  <2>3. CASE /\ PutDigest(t)
             /\ Set(t, Goto(task[t],
                  IF PutBlobStatus(UploadId(t), Digest(t), <<>>) = "CREATED"
                    THEN "done" ELSE "failed"))
             /\ UNCHANGED faults
    <3>1. PICK pc \in {"done", "failed"} :
            /\ Set(t, Goto(task[t], pc))
            /\ PutBlobStatus(UploadId(t), Digest(t), <<>>) = "CREATED" => pc = "done"
      BY <2>3
    <3>2. Clean(t) => Clean(t)'
      <4> SUFFICES ASSUME Clean(t) PROVE Clean(t)'
        OBVIOUS
      <4>1. UploadId(t) \in DOMAIN uploads /\ uploads[UploadId(t)] = Blob(t)
        BY <2>1 DEF Clean
      <4>2. UploadBytes(UploadId(t)) \o <<>> = Blob(t)
        BY <1>2, <4>1 DEF UploadBytes
      <4>3. PutBlobStatus(UploadId(t), Digest(t), <<>>) = "CREATED"
        BY <4>2 DEF PutBlobStatus, Digest
      <4>4. UploadId(t) \notin DOMAIN uploads'
        BY <2>3, <4>3 DEF PutDigest, PutBlob, Del
      <4> QED BY <1>7, <1>8, <3>1, <4>3, <4>4 DEF Clean, TaskPcs
    <3>3. GoodState(Goto(task[t], pc)) /\ Goto(task[t], pc).pc = pc
          /\ Goto(task[t], pc).steps = task[t].steps /\ ~Early(Goto(task[t], pc))
      BY <1>7 DEF TaskPcs, Early
    <3> QED BY <1>1, <2>1, <2>2, <2>3, <3>1, <3>2, <3>3, UploadAccount
  <2>4. CASE /\ Fault
             /\ \E rec \in Unanswered(task[t]) : Set(t, rec)
             /\ UNCHANGED regVars \/ PutDigest(t)
    <3>1. PICK rec \in Unanswered(task[t]) : Set(t, rec)
      BY <2>4
    <3>2. TouchesOnly(UploadId(t))
      BY <2>2, <2>4, RequestsTouchOne
    <3> QED BY <1>1, <1>4, <1>5, <2>1, <2>4, <3>1, <3>2, FaultAccount DEF Early
  <2> QED BY <1>15, <2>3, <2>4 DEF CommitBlob
<1> QED BY <1>10, <1>11, <1>12, <1>13, <1>14, <1>15 DEF Upload

\* Upload t is launched.
Launched(t) ==
    /\ task[t] = Idle
    /\ task'[t].pc \in {"head", "post"} /\ task'[t].steps = 0
    /\ task'[t].tries = 0 /\ ~task'[t].consumed

\* A step of Write launches uploads or waits for them, and fails only when
\* a fault is behind it.
LEMMA WriterAccount ==
    ASSUME Account, IInv', NEW w \in Writers, NEW pc \in WriterPcs \ {"start"},
           wpc' = [wpc EXCEPT ![w] = pc], UNCHANGED uploads,
           \A t \in Tasks : task'[t] = task[t] \/ (t \in AllTasks(w) /\ Launched(t)),
           \/ faults' = faults + 1
           \/ faults' = faults /\ (pc = "failed" => faults # 0),
           pc \in {"launched", "layers"} => task'[ConfigTask(w)] = Idle,
           pc \in {"commit", "ok", "failed"} =>
               \A t \in AllTasks(w) : task'[t].pc \in {"none", "done", "failed"}
    PROVE  Account'
<1>1. /\ faults \in Nat /\ faults' \in Nat /\ UploadSteps \in Nat \ {0}
      /\ wpc \in [Writers -> WriterPcs]
      /\ \A t \in Tasks : task[t].steps \in Nat
  BY WriteAssumption, ImagesAssumption DEF Account, IInv, TypeOK, TaskStates
<1>2. /\ Idle.pc = "none" /\ Idle.steps = 0 /\ Idle.tries = 0 /\ Idle.consumed = FALSE
  BY DEF Idle
<1>3. wpc'[w] = pc /\ \A v \in Writers : v # w => wpc'[v] = wpc[v]
  BY <1>1
<1>4. \A t \in Tasks : /\ task'[t].steps = task[t].steps
                       /\ UploadId(t)' = UploadId(t) /\ Blob(t)' = Blob(t)
  BY <1>2 DEF Launched, UploadId, Blob
<1>5. \A v \in Writers : /\ AllTasks(v) \subseteq Mine(v)
                         /\ Mine(v)' = Mine(v) /\ AllTasks(v)' = AllTasks(v)
                         /\ ConfigTask(v)' = ConfigTask(v) /\ Mine(v) \subseteq Tasks
                         /\ ConfigTask(v) \in AllTasks(v)
                         /\ \A t \in Mine(v) : t[1] = v
  BY AllTasksFacts DEF Mine, AllTasks, LayerTasks, ConfigTask
<1>6. \A t \in Mine(w) \ AllTasks(w) : task'[t] = Idle
  BY <1>5 DEF Account, LaunchedOnce
<1>7. LaunchedOnce'
  <2> SUFFICES ASSUME NEW v \in Writers
               PROVE  /\ wpc'[v] = "start" => \A t \in Mine(v) : task'[t] = Idle
                      /\ wpc'[v] \in {"launched", "layers"} => task'[ConfigTask(v)] = Idle
                      /\ wpc'[v] \in {"commit", "ok", "failed"} =>
                            \A t \in Mine(v) : task'[t].pc \in {"none", "done", "failed"}
                      /\ \A t \in Mine(v) \ AllTasks(v) : task'[t] = Idle
    BY <1>5 DEF LaunchedOnce, Idle
  <2>1. CASE v = w
    BY <2>1, <1>2, <1>3, <1>5, <1>6
  <2>2. CASE v # w
    <3>1. \A t \in Mine(v) : task'[t] = task[t]
      BY <2>2, <1>5
    <3> QED BY <2>2, <3>1, <1>3, <1>5 DEF Account, LaunchedOnce
  <2> QED BY <2>1, <2>2
<1>8. UploadsAreAttempts'
  <2> SUFFICES ASSUME NEW id \in DOMAIN uploads
               PROVE  \E t \in Tasks : \E s \in 0 .. task'[t].steps : id = UploadIdOf(t, s)
    BY DEF UploadsAreAttempts, UploadIdOf
  <2> QED BY <1>4 DEF Account, UploadsAreAttempts
<1>9. EarlyUploads'
  <2> SUFFICES ASSUME NEW t \in Tasks, Early(task'[t])
               PROVE  /\ UploadId(t) \notin DOMAIN uploads
                      /\ task'[t].steps = 0 => ~task'[t].consumed
    BY <1>4 DEF EarlyUploads, Early
  <2>1. CASE task'[t] = task[t]
    BY <2>1 DEF Account, EarlyUploads
  <2>2. CASE Launched(t)
    BY <2>2, <1>2 DEF Account, EarlyUploads, Early, Launched
  <2> QED BY <2>1, <2>2
<1>10. \A t \in Tasks : Clean(t) => Clean(t)'
  <2> SUFFICES ASSUME NEW t \in Tasks, Clean(t)
               PROVE  Clean(t)'
    OBVIOUS
  <2>1. CASE task'[t] = task[t]
    BY <2>1, <1>4 DEF Clean
  <2>2. CASE Launched(t)
    BY <2>2, <1>2, <1>4 DEF Clean, Launched
  <2> QED BY <2>1, <2>2
<1>11. Disturbed' \subseteq Disturbed
  <2> SUFFICES ASSUME NEW a \in Tasks \X (0 .. UploadSteps - 1),
                      \/ a[2] < task'[a[1]].steps
                      \/ a[2] = task'[a[1]].steps /\ ~Clean(a[1])'
               PROVE  a \in Disturbed
    BY DEF Disturbed
  <2> QED BY <1>4, <1>10 DEF Disturbed
<1>12. Paid'
  <2>1. IsFiniteSet(Disturbed) /\ Cardinality(Disturbed) <= faults
    BY DEF Account, Paid
  <2>2. /\ IsFiniteSet(Disturbed') /\ Cardinality(Disturbed') \in Nat
        /\ Cardinality(Disturbed) \in Nat
        /\ Cardinality(Disturbed') <= Cardinality(Disturbed)
    <3> HIDE DEF Disturbed
    <3> QED BY <2>1, <1>11, NoMore
  <2>3. Cardinality(Disturbed') <= faults'
    BY <1>1, <2>1, <2>2
  <2> QED BY <2>2, <2>3 DEF Paid
<1>13. FaultFreeSucceeds'
  BY <1>1, <1>3 DEF Account, FaultFreeSucceeds
<1> QED BY <1>7, <1>8, <1>9, <1>12, <1>13 DEF Account

\* Without a fault no upload fails.
LEMMA FailureNeedsFault ==
    ASSUME Account, NEW t \in Tasks, task[t].pc = "failed"
    PROVE  faults # 0
<1> SUFFICES ASSUME faults = 0
             PROVE  FALSE
  OBVIOUS
<1>1. task[t].steps = 0 /\ Clean(t)
  BY FaultFreeIsClean
<1> QED BY <1>1 DEF Clean

\* Every step of Write keeps the account.
LEMMA WriteKeepsAccount ==
    ASSUME Account, NEW w \in Writers, Write(w)
    PROVE  Account'
<1>1. IInv'
  BY WriteKeepsIInv DEF Account
<1>2. /\ task \in [Tasks -> TaskStates] /\ wpc \in [Writers -> WriterPcs]
      /\ faults \in Nat
  BY WriteAssumption, ImagesAssumption DEF Account, IInv, TypeOK
<1>3. /\ AllTasks(w) \subseteq Mine(w) /\ Mine(w) \subseteq Tasks
      /\ LayerTasks(w) \subseteq AllTasks(w)
      /\ ConfigTask(w) \in AllTasks(w) /\ ConfigTask(w) \notin LayerTasks(w)
      /\ AllTasks(w) = LayerTasks(w) \cup {ConfigTask(w)}
  BY AllTasksFacts DEF Mine, LayerTasks, ConfigTask, AllTasks
<1>4. \A pc : LET rec == [Idle EXCEPT !.pc = pc]
             IN  rec.pc = pc /\ rec.steps = 0 /\ rec.tries = 0 /\ rec.consumed = FALSE
  BY DEF Idle
<1>5. Idle.pc = "none"
  BY DEF Idle
<1>6. ASSUME LaunchConfig(w), wpc[w] \in {"launched", "layers"}, UNCHANGED <<regVars, faults>>
      PROVE  Account'
  <2>1. /\ task' = [task EXCEPT ![ConfigTask(w)] = [Idle EXCEPT !.pc = "head"]]
        /\ wpc' = [wpc EXCEPT ![w] = "wait"] /\ UNCHANGED uploads
    BY <1>6 DEF LaunchConfig, Set, regVars
  <2>2. task[ConfigTask(w)] = Idle
    BY <1>6 DEF Account, LaunchedOnce
  <2>3. task'[ConfigTask(w)] = [Idle EXCEPT !.pc = "head"]
        /\ \A t \in Tasks : t # ConfigTask(w) => task'[t] = task[t]
    BY <2>1, <1>2, <1>3
  <2>4. Launched(ConfigTask(w))
    BY <2>2, <2>3, <1>4 DEF Launched
  <2>5. \A t \in Tasks : task'[t] = task[t] \/ (t \in AllTasks(w) /\ Launched(t))
    BY <2>3, <2>4, <1>3
  <2>6. "wait" \in WriterPcs \ {"start"}
    BY DEF WriterPcs
  <2> QED BY <1>1, <1>6, <2>1, <2>5, <2>6, WriterAccount
<1>7. CASE Launch(w)
  <2>1. /\ wpc[w] = "start" /\ wpc' = [wpc EXCEPT ![w] = "launched"]
        /\ task' = [t \in Tasks |-> IF t \in LayerTasks(w)
                                      THEN [Idle EXCEPT !.pc = FirstPc(t)]
                                      ELSE task[t]]
        /\ UNCHANGED <<uploads, faults>>
    BY <1>7 DEF Launch, regVars
  <2>2. \A t \in Mine(w) : task[t] = Idle
    BY <2>1 DEF Account, LaunchedOnce
  <2>3. \A t \in LayerTasks(w) : FirstPc(t) \in {"head", "post"}
    BY DEF FirstPc
  <2>4. \A t \in LayerTasks(w) : Launched(t)
    <3> SUFFICES ASSUME NEW t \in LayerTasks(w)
                 PROVE  Launched(t)
      OBVIOUS
    <3>1. task[t] = Idle /\ task'[t] = [Idle EXCEPT !.pc = FirstPc(t)]
      BY <1>3, <2>1, <2>2
    <3> QED BY <1>4, <2>3, <3>1 DEF Launched
  <2>5. \A t \in Tasks : task'[t] = task[t] \/ (t \in AllTasks(w) /\ Launched(t))
    BY <2>1, <2>4, <1>3
  <2>6. task'[ConfigTask(w)] = Idle
    BY <2>1, <2>2, <1>3
  <2>7. "launched" \in WriterPcs \ {"start"}
    BY DEF WriterPcs
  <2> QED BY <1>1, <2>1, <2>5, <2>6, <2>7, WriterAccount
<1>8. CASE ReadConfig(w)
  <2>1. wpc[w] = "launched" /\ UNCHANGED <<regVars, faults>>
    BY <1>8 DEF ReadConfig
  <2>2. CASE LaunchConfig(w)
    BY <1>6, <2>1, <2>2
  <2>3. CASE wpc' = [wpc EXCEPT ![w] = "layers"] /\ UNCHANGED task
    <3>1. task[ConfigTask(w)] = Idle
      BY <2>1 DEF Account, LaunchedOnce
    <3> QED BY <1>1, <2>1, <2>3, <3>1, WriterAccount DEF WriterPcs, regVars
  <2> QED BY <1>8, <2>2, <2>3 DEF ReadConfig
<1>9. CASE WaitForLayers(w)
  <2>1. wpc[w] = "layers" /\ UNCHANGED <<regVars, faults>>
        /\ \A t \in LayerTasks(w) : Finished(t)
    BY <1>9 DEF WaitForLayers
  <2>2. CASE LaunchConfig(w)
    BY <1>6, <2>1, <2>2
  <2>3. CASE /\ ~\A t \in LayerTasks(w) : task[t].pc = "done"
             /\ wpc' = [wpc EXCEPT ![w] = "failed"] /\ UNCHANGED task
    <3>1. PICK t \in LayerTasks(w) : task[t].pc = "failed"
      BY <2>1, <2>3 DEF Finished
    <3>2. faults # 0
      BY <1>3, <3>1, FailureNeedsFault
    <3>3. task[ConfigTask(w)].pc = "none"
      BY <2>1, <1>5 DEF Account, LaunchedOnce
    <3>4. \A u \in AllTasks(w) : task[u].pc \in {"none", "done", "failed"}
      BY <1>3, <2>1, <3>3 DEF Finished
    <3> QED BY <1>1, <2>1, <2>3, <3>2, <3>4, WriterAccount DEF WriterPcs, regVars
  <2> QED BY <1>9, <2>2, <2>3 DEF WaitForLayers
<1>10. CASE WaitForAll(w)
  <2>1. /\ \A t \in AllTasks(w) : Finished(t)
        /\ UNCHANGED <<regVars, task, faults>>
    BY <1>10 DEF WaitForAll
  <2>2. PICK pc \in {"commit", "failed"} :
          /\ wpc' = [wpc EXCEPT ![w] = pc]
          /\ pc = "failed" => ~\A t \in AllTasks(w) : task[t].pc = "done"
    BY <1>10 DEF WaitForAll
  <2>3. pc = "failed" => faults # 0
    <3> SUFFICES ASSUME pc = "failed"
                 PROVE  faults # 0
      OBVIOUS
    <3>1. PICK t \in AllTasks(w) : task[t].pc = "failed"
      BY <2>1, <2>2 DEF Finished
    <3> QED BY <1>3, <3>1, FailureNeedsFault
  <2>4. \A u \in AllTasks(w) : task[u].pc \in {"none", "done", "failed"}
    BY <2>1 DEF Finished
  <2> QED BY <1>1, <2>1, <2>2, <2>3, <2>4, WriterAccount DEF WriterPcs, regVars
<1>11. ASSUME wpc[w] = "commit"
       PROVE  \A u \in AllTasks(w) : task[u].pc \in {"none", "done", "failed"}
  BY <1>3, <1>11 DEF Account, LaunchedOnce
<1>12. CASE CommitManifest(w)
  <2>1. UNCHANGED <<uploads, task, faults>> /\ wpc' = [wpc EXCEPT ![w] = "ok"]
        /\ wpc[w] = "commit"
    BY <1>12 DEF CommitManifest, PutImage, PutManifest
  <2> QED BY <1>1, <1>11, <2>1, WriterAccount DEF WriterPcs
<1>13. CASE ManifestNotSent(w)
  <2>1. UNCHANGED <<uploads, task>> /\ wpc[w] = "commit" /\ faults' = faults + 1
    BY <1>13 DEF ManifestNotSent, Fault, regVars
  <2>2. PICK pc \in {"commit", "failed"} : wpc' = [wpc EXCEPT ![w] = pc]
    BY <1>2, <1>13, <2>1 DEF ManifestNotSent
  <2> QED BY <1>1, <1>11, <2>1, <2>2, WriterAccount DEF WriterPcs
<1>14. CASE ManifestUnanswered(w)
  <2>1. UNCHANGED <<uploads, task>> /\ wpc[w] = "commit" /\ faults' = faults + 1
        /\ wpc' = [wpc EXCEPT ![w] = "failed"]
    BY <1>14 DEF ManifestUnanswered, Fault, PutImage, PutManifest
  <2> QED BY <1>1, <1>11, <2>1, WriterAccount DEF WriterPcs
<1> QED BY <1>7, <1>8, <1>9, <1>10, <1>12, <1>13, <1>14 DEF Write

\* Nothing is attempted yet.
LEMMA InitAccount == Init => Account
<1> SUFFICES ASSUME Init PROVE Account
  OBVIOUS
<1>1. /\ \A w \in Writers : wpc[w] = "start"
      /\ \A t \in Tasks : task[t] = Idle
      /\ DOMAIN uploads = {} /\ faults = 0
  BY DEF Init, RegInit
<1>2. Idle.pc = "none" /\ Idle.steps = 0 /\ Idle.tries = 0 /\ Idle.consumed = FALSE
  BY DEF Idle
<1>3. LaunchedOnce
  BY <1>1, AllTasksFacts DEF LaunchedOnce, Mine
<1>4. UploadsAreAttempts /\ EarlyUploads
  BY <1>1, <1>2 DEF UploadsAreAttempts, EarlyUploads
<1>5. Paid
  <2>1. \A t \in Tasks : Clean(t)
    BY <1>1, <1>2 DEF Clean
  <2>2. Disturbed = {}
    BY <1>1, <1>2, <2>1 DEF Disturbed
  <2> QED BY <1>1, <2>2, FS_EmptySet DEF Paid
<1>6. FaultFreeSucceeds
  BY <1>1 DEF FaultFreeSucceeds
<1> QED BY InitIInv, <1>3, <1>4, <1>5, <1>6 DEF Account

\* Every step of every goroutine keeps the account.
LEMMA NextAccount == Account /\ [Next]_vars => Account'
<1> SUFFICES ASSUME Account, [Next]_vars PROVE Account'
  OBVIOUS
<1>1. CASE \E w \in Writers : Write(w)
  BY <1>1, WriteKeepsAccount
<1>2. CASE \E t \in Tasks : Upload(t)
  BY <1>2, UploadKeepsAccount
<1>3. CASE UNCHANGED vars
  <2>1. IInv'
    BY <1>3, NextIInv DEF Account
  <2>2. UNCHANGED <<wpc, task, uploads, faults>>
    BY <1>3 DEF vars, regVars, clientVars
  <2>3. LaunchedOnce' /\ UploadsAreAttempts' /\ EarlyUploads'
    BY <2>2 DEF Account, LaunchedOnce, UploadsAreAttempts, EarlyUploads, Mine, AllTasks,
       LayerTasks, ConfigTask, UploadId, UploadIdOf, Early, Idle
  <2>4. Disturbed' = Disturbed
    BY <2>2 DEF Disturbed, Clean, UploadId, UploadIdOf, Blob
  <2>5. Paid' /\ FaultFreeSucceeds'
    BY <2>2, <2>4 DEF Account, Paid, FaultFreeSucceeds
  <2> QED BY <2>1, <2>3, <2>5 DEF Account
<1> QED BY <1>1, <1>2, <1>3 DEF Next

\* The account holds in every state of every push.
THEOREM AccountInvariance == Spec => []Account
  BY InitAccount, NextAccount, PTL DEF Spec

\* Without a fault no push fails, however many writers upload the same
\* blobs beside each other: no upload is in another's way.
THEOREM FaultFreePushesSucceed == Spec => []FaultFreeSucceeds
<1>1. Account => FaultFreeSucceeds
  BY DEF Account
<1> QED BY <1>1, AccountInvariance, PTL

\* An upload that is left in the registry when no goroutine runs belongs to
\* an attempt that was disturbed.
LEMMA LeftoversAreDisturbed ==
    ASSUME Account, \A w \in Writers : Returned(w)
    PROVE  DOMAIN uploads \subseteq Disturbed
<1> SUFFICES ASSUME NEW id \in DOMAIN uploads
             PROVE  id \in Disturbed
  OBVIOUS
<1>1. PICK t \in Tasks : \E s \in 0 .. task[t].steps : id = <<t, s>>
  BY DEF Account, UploadsAreAttempts, UploadIdOf
<1>2. PICK s \in 0 .. task[t].steps : id = <<t, s>>
  BY <1>1
<1>3. task[t].steps \in Nat /\ task[t].steps < UploadSteps /\ UploadSteps \in Nat \ {0}
  BY WriteAssumption, ImagesAssumption DEF Account, IInv, TypeOK, TaskStates
<1>4. CASE s = task[t].steps
  <2>1. id = UploadId(t)
    BY <1>2, <1>4 DEF UploadId, UploadIdOf
  <2>2. t \in Mine(t[1]) /\ t[1] \in Writers
    BY TaskFacts DEF Mine
  <2>3. task[t].pc \in {"none", "done", "failed"}
    BY <2>2 DEF Account, LaunchedOnce, Returned
  <2>4. ~Clean(t)
    BY <2>1, <2>3 DEF Clean
  <2> QED BY <1>2, <1>3, <1>4, <2>4 DEF Disturbed
<1>5. CASE s # task[t].steps
  BY <1>2, <1>3, <1>5 DEF Disturbed
<1> QED BY <1>4, <1>5

\* Every attempt cleans up after itself unless a fault hit it: when all
\* writers have returned, abandoned uploads are no more than faults were.
THEOREM OrphansAreFaults == Spec => []OrphansNeedFaults
<1>1. Account => OrphansNeedFaults
  <2> SUFFICES ASSUME Account, \A w \in Writers : Returned(w)
               PROVE  Cardinality(DOMAIN uploads) <= faults
    BY DEF OrphansNeedFaults
  <2>1. IsFiniteSet(Disturbed) /\ Cardinality(Disturbed) <= faults /\ faults \in Nat
    BY WriteAssumption, ImagesAssumption DEF Account, Paid, IInv, TypeOK
  <2>2. DOMAIN uploads \subseteq Disturbed
    BY LeftoversAreDisturbed
  <2>3. /\ Cardinality(DOMAIN uploads) \in Nat /\ Cardinality(Disturbed) \in Nat
        /\ Cardinality(DOMAIN uploads) <= Cardinality(Disturbed)
    <3> HIDE DEF Disturbed
    <3> QED BY <2>1, <2>2, NoMore
  <2> QED BY <2>1, <2>3
<1> QED BY <1>1, AccountInvariance, PTL
=============================================================================
