---------------------------- MODULE RemoteWrite ----------------------------
(***************************************************************************)
(* remote.Write (pkg/v1/remote/write.go): any number of writers push their *)
(* images to one Registry at once, over a network that fails now and then. *)
(*                                                                         *)
(* A writer uploads every layer in a goroutine of its own, and the config  *)
(* beside them or, when it depends on layers that are still being          *)
(* streamed, after them; then it commits the image by putting its          *)
(* manifest.  An upload is HEAD, POST, PATCH, PUT.  Two loops retry        *)
(* temporary errors: retryTransport resends the request (TransportSteps    *)
(* sends of it at most), uploadOne starts again from the POST (UploadSteps *)
(* attempts at most).  A resent PATCH does not rewind its body.            *)
(*                                                                         *)
(* One step is one request and what the client makes of its outcome.  A    *)
(* request may be lost on its way, or its answer may, or its body may be   *)
(* cut short at the server; each is a fault, and MaxFaults bounds them.    *)
(***************************************************************************)
EXTENDS Images, FiniteSets

CONSTANTS
    Writers,
    RepoOf, TagOf, ImageOf,     \* what each writer pushes, and where
    Streaming,                  \* <<w, i>>: w's i-th layer is a stream.Layer
    TransportSteps,             \* defaultBackoff.Steps of retry.go
    UploadSteps,                \* backoff.Steps of uploadOne
    ErrorKinds,                 \* what a fault looks like to the client
    MaxFaults                   \* bound: network faults in a behaviour

(***************************************************************************)
(* The uploads a writer may run: slot 0 is the config, slot i the i-th     *)
(* layer.                                                                  *)
(***************************************************************************)

Slots(w) == 0 .. Len(LayersOf[ImageOf[w]])
Tasks == UNION {{w} \X Slots(w) : w \in Writers}
ConfigTask(w) == <<w, 0>>

Blob(t) == IF t[2] = 0 THEN ConfigOf[ImageOf[t[1]]]
                       ELSE LayersOf[ImageOf[t[1]]][t[2]]
Digest(t) == Sha256(Blob(t))
IsStream(t) == t \in Streaming

\* Mutant: any other copy of the layer counts, not only an earlier one.
UploadedAnywhere(t) ==
    /\ ~IsStream(t)
    /\ \E s \in Slots(t[1]) \ {0, t[2]} : Blob(<<t[1], s>>) = Blob(t)

\* An earlier layer has the same digest, and the digest can be known.
Uploaded(t) ==
    /\ ~IsStream(t)
    /\ \E s \in 1 .. t[2] - 1 :
          Blob(<<t[1], s>>) = Blob(t) /\ ~IsStream(<<t[1], s>>)

\* The layers that Write starts a goroutine for.
LayerTasks(w) ==
    {t \in {w} \X (Slots(w) \ {0}) : Blob(t) \notin Foreign /\ ~Uploaded(t)}

AllTasks(w) == LayerTasks(w) \cup {ConfigTask(w)}

\* Mutant: the goroutines of a writer share the variable "location".
UploadIdShared(t, step) == <<ConfigTask(t[1]), 0>>

\* rand.Int63 does not repeat: every attempt of every upload has its own id.
UploadIdOf(t, step) == <<t, step>>

ASSUME WriteAssumption ==
    /\ RepoOf \in [Writers -> Repos]
    /\ TagOf \in [Writers -> Tags]
    /\ ImageOf \in [Writers -> ImageDocs]
    /\ Streaming \subseteq {t \in Tasks : t[2] # 0 /\ Blob(t) \notin Foreign \cup {<<>>}}
    /\ TransportSteps \in Nat \ {0}
    /\ UploadSteps \in Nat \ {0}
    /\ ErrorKinds \subseteq {"temporary", "fatal"}
    /\ MaxFaults \in Nat
    /\ \A t \in Tasks, step \in 0 .. UploadSteps - 1 :
          UploadIdOf(t, step) \in UploadIds

VARIABLES
    wpc,        \* where Write is
    wtries,     \* how often the manifest's PUT was sent in vain
    task,       \* the state of every upload
    faults

clientVars == <<wpc, wtries, task, faults>>
vars == <<regVars, clientVars>>

WriterPcs == {"start", "launched", "layers", "wait", "commit", "ok", "failed"}
TaskPcs == {"none", "head", "post", "patch", "repatch", "put", "done",
            "failed", "hung"}

\* steps: finished attempts of tryUpload.  tries: failed sends of the
\* current request.  consumed: the layer is a
\* stream and was read to its end.
TaskStates == [pc : TaskPcs, steps : Nat, tries : Nat, consumed : BOOLEAN]

Idle == [pc |-> "none", steps |-> 0, tries |-> 0, consumed |-> FALSE]

Init ==
    /\ RegInit
    /\ wpc = [w \in Writers |-> "start"]
    /\ wtries = [w \in Writers |-> 0]
    /\ task = [t \in Tasks |-> Idle]
    /\ faults = 0

(***************************************************************************)
(* Retries.                                                                *)
(***************************************************************************)

UploadId(t) == UploadIdOf(t, task[t].steps)

Goto(rec, pc) == [rec EXCEPT !.pc = pc, !.tries = 0]
Set(t, rec) == task' = [task EXCEPT ![t] = rec]

Fault == faults < MaxFaults /\ faults' = faults + 1

\* Mutant: an attempt is not counted.
RestartForever(rec) ==
    IF rec.pc # "head" THEN Goto(rec, "post") ELSE Goto(rec, "failed")

\* tryUpload returned a temporary error.  The HEAD is outside of tryUpload.
Restart(rec) ==
    IF rec.pc # "head" /\ rec.steps + 1 < UploadSteps
      THEN [Goto(rec, "post") EXCEPT !.steps = @ + 1]
      ELSE Goto(rec, "failed")

\* Mutant: one send too many.
ResendOnceMore(rec) ==
    IF rec.tries < TransportSteps
      THEN [rec EXCEPT !.tries = @ + 1,
                       !.pc = IF @ = "patch" THEN "repatch" ELSE @]
      ELSE Restart(rec)

\* The round trip of rec's request returned a temporary error.
Resend(rec) ==
    IF rec.tries + 1 < TransportSteps
      THEN [rec EXCEPT !.tries = @ + 1,
                       !.pc = IF @ = "patch" THEN "repatch" ELSE @]
      ELSE Restart(rec)

\* What may become of an upload whose request got no answer: the error is
\* temporary (a timeout) or it is not (a reset, a cancelled context).
Unanswered(rec) ==
    {IF kind = "temporary" THEN Resend(rec) ELSE Goto(rec, "failed") :
        kind \in ErrorKinds}

(***************************************************************************)
(* uploadOne: checkExistingBlob, initiateUpload, streamBlob, commitBlob.   *)
(***************************************************************************)

CheckExistingBlob(t) ==
    /\ task[t].pc = "head"
    /\ \/ /\ Set(t, Goto(task[t],
                         IF BlobStatus(Digest(t)) = "OK" THEN "done" ELSE "post"))
          /\ UNCHANGED faults
       \/ Fault /\ \E rec \in Unanswered(task[t]) : Set(t, rec)
    /\ UNCHANGED <<regVars, wpc, wtries>>

\* This registry never mounts: it answers every POST with a new upload id
\* and keeps nothing until the first PATCH.
InitiateUpload(t) ==
    /\ task[t].pc = "post"
    /\ \/ Set(t, Goto(task[t], "patch")) /\ UNCHANGED faults
       \/ Fault /\ \E rec \in Unanswered(task[t]) : Set(t, rec)
    /\ UNCHANGED <<regVars, wpc, wtries>>

\* What a PATCH may carry: the blob, or on a resend what the first send has
\* left unread of it (nothing of a stream: its pipe is at its end).
Bodies(t) ==
    CASE task[t].pc = "patch" -> {Blob(t)}
      [] task[t].pc = "repatch" ->
            IF IsStream(t) THEN {<<>>}
            ELSE {SubSeq(Blob(t), i + 1, Len(Blob(t))) : i \in 0 .. Len(Blob(t))}

Prefixes(body) == {SubSeq(body, 1, i) : i \in 0 .. Len(body)}

AfterPatch(t) ==
    LET rec == [task[t] EXCEPT !.consumed = IsStream(t)]
    IN  IF PatchStreamStatus(UploadId(t)) = "NO_CONTENT"
          THEN Goto(rec, "put")
          ELSE Restart(rec)     \* BLOB_UPLOAD_INVALID is a temporary code

CanOpen(t) == task[t].pc = "repatch" \/ ~IsStream(t) \/ ~task[t].consumed

StreamBlob(t) ==
    /\ task[t].pc \in {"patch", "repatch"}
    /\ CanOpen(t)
    /\ \E body \in Bodies(t) :
          PatchStream(UploadId(t), body) /\ Set(t, AfterPatch(t))
    /\ UNCHANGED <<wpc, wtries, faults>>

\* Compressed returns ErrConsumed, or the resent body was closed by the
\* first send and can't be read: neither is temporary, and nothing is sent.
BodyUnreadable(t) ==
    /\ \/ task[t].pc = "patch" /\ ~CanOpen(t)
       \/ task[t].pc = "repatch" /\ ~IsStream(t)
    /\ Set(t, Goto(task[t], "failed"))
    /\ UNCHANGED <<regVars, wpc, wtries, faults>>

\* The PATCH gets no answer.  It reached the registry with some prefix of
\* its body, or did not.  A stream that is closed before its end hangs in
\* compressedReader.Close, on a pipe that nobody reads any more.
StreamBlobUnanswered(t) ==
    /\ task[t].pc \in {"patch", "repatch"}
    /\ CanOpen(t)
    /\ Fault
    /\ \E body \in Bodies(t) :
          \/ /\ UNCHANGED regVars
             /\ IF IsStream(t) /\ body # <<>>
                  THEN Set(t, Goto(task[t], "hung"))
                  ELSE \E rec \in Unanswered(task[t]) : Set(t, rec)
          \/ \E cut \in Prefixes(body) :
                /\ PatchStream(UploadId(t), cut)
                /\ IF IsStream(t) /\ cut # body
                     THEN Set(t, Goto(task[t], "hung"))
                     ELSE \E rec \in Unanswered([task[t] EXCEPT !.consumed = IsStream(t)]) :
                            Set(t, rec)
    /\ UNCHANGED <<wpc, wtries>>

PutDigest(t) == PutBlob(UploadId(t), Digest(t), <<>>)

CommitBlob(t) ==
    /\ task[t].pc = "put"
    /\ \/ /\ PutDigest(t)
          /\ Set(t, Goto(task[t],
                IF PutBlobStatus(UploadId(t), Digest(t), <<>>) = "CREATED"
                  THEN "done"
                  ELSE "failed"))     \* DIGEST_INVALID is not temporary
          /\ UNCHANGED faults
       \/ /\ Fault
          /\ \E rec \in Unanswered(task[t]) : Set(t, rec)
          /\ UNCHANGED regVars \/ PutDigest(t)
    /\ UNCHANGED <<wpc, wtries>>

Upload(t) ==
    \/ CheckExistingBlob(t)
    \/ InitiateUpload(t)
    \/ StreamBlob(t) \/ BodyUnreadable(t) \/ StreamBlobUnanswered(t)
    \/ CommitBlob(t)

(***************************************************************************)
(* Write and commitManifest.                                               *)
(***************************************************************************)

Finished(t) == task[t].pc \in {"done", "failed"}
DigestKnown(t) == IsStream(t) => task[t].consumed

FirstPc(t) == IF IsStream(t) THEN "post" ELSE "head"

Launch(w) ==
    /\ wpc[w] = "start"
    /\ wpc' = [wpc EXCEPT ![w] = "launched"]
    /\ task' = [t \in Tasks |-> IF t \in LayerTasks(w)
                                  THEN [Idle EXCEPT !.pc = FirstPc(t)]
                                  ELSE task[t]]
    /\ UNCHANGED <<regVars, wtries, faults>>

LaunchConfig(w) ==
    /\ wpc' = [wpc EXCEPT ![w] = "wait"]
    /\ Set(ConfigTask(w), [Idle EXCEPT !.pc = "head"])

\* partial.ConfigLayer needs the DiffID of every layer: a stream has one
\* when it was read, and a hung one never lets go of the lock around it.
ReadConfig(w) ==
    /\ wpc[w] = "launched"
    /\ \A t \in LayerTasks(w) : task[t].pc # "hung"
    /\ IF \A t \in LayerTasks(w) : DigestKnown(t)
         THEN LaunchConfig(w)
         ELSE wpc' = [wpc EXCEPT ![w] = "layers"] /\ UNCHANGED task
    /\ UNCHANGED <<regVars, wtries, faults>>

\* g.Wait() before the config is read again and uploaded.
WaitForLayers(w) ==
    /\ wpc[w] = "layers"
    /\ \A t \in LayerTasks(w) : Finished(t)
    /\ IF \A t \in LayerTasks(w) : task[t].pc = "done"
         THEN LaunchConfig(w)
         ELSE wpc' = [wpc EXCEPT ![w] = "failed"] /\ UNCHANGED task
    /\ UNCHANGED <<regVars, wtries, faults>>

\* g.Wait() when the config was uploaded beside the layers, or the end of
\* the config's own upload after them.
WaitForAll(w) ==
    /\ wpc[w] = "wait"
    /\ \A t \in AllTasks(w) : Finished(t)
    /\ wpc' = [wpc EXCEPT ![w] =
                 IF \A t \in AllTasks(w) : task[t].pc = "done"
                   THEN "commit" ELSE "failed"]
    /\ UNCHANGED <<regVars, wtries, task, faults>>

PutImage(w, doc) == PutManifest(RepoOf[w], TagOf[w], "image", doc)

\* Mutant: the manifest is put while uploads are still running.
CommitManifestEarly(w) ==
    /\ wpc[w] \in {"wait", "commit"}
    /\ PutImage(w, ImageOf[w])
    /\ wpc' = [wpc EXCEPT ![w] = "ok"]
    /\ wtries' = [wtries EXCEPT ![w] = 0]
    /\ UNCHANGED <<task, faults>>

CommitManifest(w) ==
    /\ wpc[w] = "commit"
    /\ PutImage(w, ImageOf[w])
    /\ wpc' = [wpc EXCEPT ![w] = "ok"]
    /\ wtries' = [wtries EXCEPT ![w] = 0]
    /\ UNCHANGED <<task, faults>>

\* The PUT never left: it is sent again while attempts remain, whole.
ManifestNotSent(w) ==
    /\ wpc[w] = "commit"
    /\ Fault
    /\ \/ /\ "temporary" \in ErrorKinds
          /\ wtries[w] + 1 < TransportSteps
          /\ wtries' = [wtries EXCEPT ![w] = @ + 1]
          /\ UNCHANGED wpc
       \/ /\ "fatal" \in ErrorKinds \/ wtries[w] + 1 = TransportSteps
          /\ wpc' = [wpc EXCEPT ![w] = "failed"]
          /\ wtries' = [wtries EXCEPT ![w] = 0]
    /\ UNCHANGED <<regVars, task>>

\* Mutant: the error of the round trip is dropped.
ManifestUnansweredIgnored(w) ==
    /\ wpc[w] = "commit"
    /\ Fault
    /\ \E doc \in {ImageOf[w], Cut(ImageOf[w])} : PutImage(w, doc)
    /\ wpc' = [wpc EXCEPT ![w] = "ok"]
    /\ wtries' = [wtries EXCEPT ![w] = 0]
    /\ UNCHANGED task

\* The PUT was received, whole or cut, and the answer was lost.  A resend
\* finds its buffer drained, which net/http refuses for good.
ManifestUnanswered(w) ==
    /\ wpc[w] = "commit"
    /\ Fault
    /\ \E doc \in {ImageOf[w], Cut(ImageOf[w])} : PutImage(w, doc)
    /\ wpc' = [wpc EXCEPT ![w] = "failed"]
    /\ wtries' = [wtries EXCEPT ![w] = 0]
    /\ UNCHANGED task

Write(w) ==
    \/ Launch(w) \/ ReadConfig(w)
    \/ WaitForLayers(w) \/ WaitForAll(w)
    \/ CommitManifest(w) \/ ManifestNotSent(w) \/ ManifestUnanswered(w)

Next == (\E w \in Writers : Write(w)) \/ (\E t \in Tasks : Upload(t))

Spec == Init /\ [][Next]_vars

\* Some goroutine that can run does run, and its request gets an outcome:
\* the least the Go scheduler and the sockets' timeouts give.  No fairness
\* among the goroutines is needed.
FairSpec == Spec /\ WF_vars(Next)

(***************************************************************************)
(* Properties.                                                             *)
(***************************************************************************)

\* Every variable holds what its Go counterpart can; attempts stay within
\* the steps of their backoffs.
TypeOK ==
    /\ RegTypeOK
    /\ wpc \in [Writers -> WriterPcs]
    /\ wtries \in [Writers -> 0 .. TransportSteps - 1]
    /\ task \in [Tasks -> TaskStates]
    /\ \A t \in Tasks : task[t].steps < UploadSteps /\ task[t].tries < TransportSteps
    /\ faults \in 0 .. MaxFaults

\* When Write returns nil the image is in its repository by digest, and the
\* tag names the image of some writer of that tag that had uploaded all of
\* its own blobs (or what was left of that writer's manifest).
ReportedSuccessIsStored ==
    \A w \in Writers : wpc[w] = "ok" =>
        LET repo == RepoOf[w] IN
        /\ repo \in DOMAIN manifests
        /\ Sha256(ImageOf[w]) \in DOMAIN manifests[repo]
        /\ manifests[repo][Sha256(ImageOf[w])].blob = ImageOf[w]
        /\ TagOf[w] \in DOMAIN manifests[repo]
        /\ \E v \in Writers :
              /\ wpc[v] \in {"ok", "failed"}
              /\ RepoOf[v] = repo /\ TagOf[v] = TagOf[w]
              /\ manifests[repo][TagOf[w]].blob \in {ImageOf[v], Cut(ImageOf[v])}
              /\ \A b \in Required(ImageOf[v]) : Stored(b)

\* Without faults no writer fails, however the writers interleave: uploads
\* of the same blob do not disturb each other.
FaultFreeSucceeds ==
    faults = 0 => \A w \in Writers : wpc[w] # "failed"

Returned(w) == wpc[w] \in {"ok", "failed"}

\* Every attempt cleans up after itself unless a fault hit it: when all
\* writers have returned, the registry holds no more abandoned uploads than
\* there were faults.
OrphansNeedFaults ==
    (\A w \in Writers : Returned(w)) => Cardinality(DOMAIN uploads) <= faults

\* Write returns: despite faults when no layer is a stream, and in any case
\* when there are none (a stream may hang for good).
Terminates ==
    \A w \in Writers :
        \/ <>Returned(w)
        \/ <>(faults > 0) /\ (\E t \in LayerTasks(w) : IsStream(t))

\* The images whose manifest and blobs are all there.
Pullable ==
    {i \in UNION {{<<repo, target, manifests[repo][target].blob>> :
                     target \in DOMAIN manifests[repo]} : repo \in DOMAIN manifests} :
        i[3] \in ImageDocs /\ \A b \in Required(i[3]) : Stored(b)}

Abstract == INSTANCE AtomicPush
    WITH images <- Pullable,
         result <- [w \in Writers |-> IF Returned(w) THEN wpc[w] ELSE "pending"]

\* A push is atomic to those who pull: blobs that arrive one by one, from
\* several writers, in any order and more than once, never make an image
\* pullable, complete a broken one or break a pullable one.
PushIsAtomic == Abstract!Spec
=============================================================================
