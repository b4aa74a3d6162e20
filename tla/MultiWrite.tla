----------------------------- MODULE MultiWrite -----------------------------
(***************************************************************************)
(* remote.MultiWrite (pkg/v1/remote/multi_write.go): push several images   *)
(* and indexes to one repository.  All the blobs come first, then the      *)
(* manifests in batches: requested images, the manifests that indexes list *)
(* from the lowest level up, requested indexes.  A batch is a map that a   *)
(* feeder goroutine sends into a bounded channel, and Jobs workers that    *)
(* take items from it until it is closed or one of theirs fails.           *)
(***************************************************************************)
EXTENDS BlobPush, FiniteSets

CONSTANTS
    MWRepo,         \* the repository of all references
    Requested,      \* the pairs <<target, document>> that are asked for
    Workers         \* the o.jobs workers

ASSUME MultiWriteAssumption ==
    /\ MWRepo \in Repos
    /\ Requested \subseteq (Tags \cup {Sha256(doc) : doc \in Docs}) \X Docs
    \* A reference by digest is one to the document that has the digest.
    /\ \A r \in Requested : r[1] \notin Tags => r[1] = Sha256(r[2])
    /\ IsFiniteSet(Workers) /\ Workers # {}
    \* An index holds the digests of what it lists: none is below itself.
    /\ IsFiniteSet(IndexDocs)
    /\ \E height \in [IndexDocs -> 1 .. Cardinality(IndexDocs)] :
          \A doc \in IndexDocs : \A child \in ListedIn(doc) \cap IndexDocs :
              height[child] < height[doc]

VARIABLES
    mwpc,       \* "start", "running", "ok" or "failed"
    batch,      \* 0 for the blobs, then the place in ManifestBatches
    unsent,     \* the items the feeder still has
    channel,    \* the items in the channel, closed when unsent is empty
    worker      \* the state of each worker

mwVars == <<mwpc, batch, unsent, channel, worker>>

(***************************************************************************)
(* addIndexBlobs and addImageBlobs: what is pushed, and in which batches.  *)
(***************************************************************************)

RequestedDocs == {r[2] : r \in Requested}

\* newManifests[n]: what the indexes of level n - 1, or the requested ones,
\* list.  No index is below itself, so there are fewer levels than indexes
\* and the last of these sets is empty.
Levels[n \in 0 .. Cardinality(IndexDocs)] ==
    UNION {ListedIn(doc) : doc \in IF n = 0 THEN RequestedDocs ELSE Levels[n - 1]}

Depth == Cardinality({n \in DOMAIN Levels : Levels[n] # {}})

Planned == RequestedDocs \cup UNION {Levels[n] : n \in DOMAIN Levels}

\* "unknown media type": nothing at all is pushed.
Pushable == Planned \cap OtherDocs = {}

BlobBatch ==
    {[blob |-> b] : b \in UNION {Required(doc) : doc \in Planned \cap ImageDocs}}

AsItem(target, doc) == [target |-> target, doc |-> doc]

RequestedOf(docs) == {AsItem(r[1], r[2]) : r \in {q \in Requested : q[2] \in docs}}
LevelBatch(n) == {AsItem(Sha256(doc), doc) : doc \in Levels[n]}

\* Mutant: the levels are pushed in the order they were found.
ManifestBatchesTopDown ==
    <<RequestedOf(ImageDocs)>>
    \o [i \in 1 .. Depth |-> LevelBatch(i - 1)]
    \o <<RequestedOf(IndexDocs)>>

ManifestBatches ==
    <<RequestedOf(ImageDocs)>>
    \o [i \in 1 .. Depth |-> LevelBatch(Depth - i)]
    \o <<RequestedOf(IndexDocs)>>

BatchItems(k) == IF k = 0 THEN BlobBatch ELSE ManifestBatches[k]

(***************************************************************************)
(* The pool.                                                               *)
(***************************************************************************)

NoItem == [none |-> TRUE]
IdleWorker == [pc |-> "idle", item |-> NoItem]
Ended(j) == worker[j].pc \in {"done", "failed"}

MWInit ==
    /\ mwpc = "start"
    /\ batch = 0
    /\ unsent = {} /\ channel = {}
    /\ worker = [j \in Workers |-> IdleWorker]

StartBatch(k) ==
    /\ batch' = k
    /\ unsent' = BatchItems(k)
    /\ channel' = {}
    /\ worker' = [j \in Workers |-> IdleWorker]

\* Collect the blobs and the manifests.
Plan ==
    /\ mwpc = "start"
    /\ IF Pushable
         THEN mwpc' = "running" /\ StartBatch(0)
         ELSE mwpc' = "failed" /\ UNCHANGED <<batch, unsent, channel, worker>>
    /\ UNCHANGED <<regVars, faults>>

\* The feeder sends an item, in the map's random order; the channel holds
\* 2 * o.jobs of them.
Feed ==
    /\ Cardinality(channel) < 2 * Cardinality(Workers)
    /\ \E item \in unsent :
          /\ unsent' = unsent \ {item}
          /\ channel' = channel \cup {item}
    /\ UNCHANGED <<mwpc, batch, worker, regVars, faults>>

\* A worker receives an item.
Take(j) ==
    /\ worker[j].pc = "idle"
    /\ \E item \in channel :
          /\ channel' = channel \ {item}
          /\ worker' = [worker EXCEPT ![j] = [pc |-> "busy", item |-> item]]
    /\ UNCHANGED <<mwpc, batch, unsent, regVars, faults>>

\* The worker uploads its blob or commits its manifest; an error ends it.
PushItem(j) ==
    /\ worker[j].pc = "busy"
    /\ LET item == worker[j].item IN
       \/ /\ IF batch = 0 THEN UploadOne(item.blob)
                          ELSE CommitManifest(MWRepo, item.target, item.doc)
          /\ worker' = [worker EXCEPT ![j] = IdleWorker]
       \/ /\ IF batch = 0 THEN UploadOneFails(item.blob)
                          ELSE CommitManifestFails(MWRepo, item.target, item.doc)
          /\ worker' = [worker EXCEPT ![j].pc = "failed"]
    /\ UNCHANGED <<mwpc, batch, unsent, channel>>

\* Mutant: a worker leaves when the channel is empty, closed or not.
FinishWhenEmpty(j) ==
    /\ mwpc = "running"
    /\ worker[j].pc = "idle"
    /\ channel = {}
    /\ worker' = [worker EXCEPT ![j].pc = "done"]
    /\ UNCHANGED <<mwpc, batch, unsent, channel, regVars, faults>>

\* Mutant: the channel is closed for the blobs only.
FinishUnclosed(j) ==
    /\ mwpc = "running" /\ batch = 0
    /\ worker[j].pc = "idle"
    /\ unsent = {} /\ channel = {}
    /\ worker' = [worker EXCEPT ![j].pc = "done"]
    /\ UNCHANGED <<mwpc, batch, unsent, channel, regVars, faults>>

\* The channel is closed and empty.
Finish(j) ==
    /\ mwpc = "running"
    /\ worker[j].pc = "idle"
    /\ unsent = {} /\ channel = {}
    /\ worker' = [worker EXCEPT ![j].pc = "done"]
    /\ UNCHANGED <<mwpc, batch, unsent, channel, regVars, faults>>

\* Mutant: the first error is returned at once.
WaitForFirstError ==
    /\ mwpc = "running"
    /\ \/ /\ \E j \in Workers : worker[j].pc = "failed"
          /\ mwpc' = "failed"
          /\ UNCHANGED <<batch, unsent, channel, worker>>
       \/ /\ \A j \in Workers : worker[j].pc = "done"
          /\ IF batch = Len(ManifestBatches)
               THEN mwpc' = "ok" /\ UNCHANGED <<batch, unsent, channel, worker>>
               ELSE StartBatch(batch + 1) /\ UNCHANGED mwpc
    /\ UNCHANGED <<regVars, faults>>

\* g.Wait returns when all workers have; the feeder may still hold items
\* that nobody will ever take.
WaitForBatch ==
    /\ mwpc = "running"
    /\ \A j \in Workers : Ended(j)
    /\ LET failed == \E j \in Workers : worker[j].pc = "failed" IN
       IF failed \/ batch = Len(ManifestBatches)
         THEN /\ mwpc' = IF failed THEN "failed" ELSE "ok"
              /\ UNCHANGED <<batch, unsent, channel, worker>>
         ELSE StartBatch(batch + 1) /\ UNCHANGED mwpc
    /\ UNCHANGED <<regVars, faults>>

MWNext ==
    \/ Plan \/ Feed \/ WaitForBatch
    \/ \E j \in Workers : Take(j) \/ PushItem(j) \/ Finish(j)

(***************************************************************************)
(* Properties.                                                             *)
(***************************************************************************)

\* When MultiWrite returns none of its workers is at work any more, and its
\* feeder is left behind, blocked in the channel for good, only when every
\* worker has failed: one that has not drains the channel.
PoolIsQuiet ==
    mwpc \in {"ok", "failed"} =>
        /\ \A j \in Workers : worker[j].pc # "busy"
        /\ unsent \cup channel # {} => \A j \in Workers : worker[j].pc = "failed"
=============================================================================
