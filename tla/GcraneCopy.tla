----------------------------- MODULE GcraneCopy -----------------------------
(***************************************************************************)
(* gcrane.CopyRepository (pkg/gcrane/copy.go over pkg/v1/google/list.go):  *)
(* copy a repository and all repositories below it.  A walker lists each   *)
(* repository, compares it with the destination and queues a task for each *)
(* image that is missing or misses tags; jobs workers take the tasks.  The *)
(* first error cancels a context that only the walker's sends look at.     *)
(*                                                                         *)
(* crane.Copy is two steps: the manifest is fetched; it and all below it   *)
(* are written, as RemoteWrite and IndexPushers show.  Others may move the *)
(* tags of the source meanwhile.  Lists and maps are sets: in which order  *)
(* tasks are taken and tags are pushed is left open.                       *)
(***************************************************************************)
EXTENDS Naturals, Sequences, FiniteSets

CONSTANTS
    Repos, Root,
    Below,          \* the child repositories of each, in the order of a listing
    Digests,
    Tags,
    SrcImages,      \* the images of each source repository, by digest
    SrcTags,        \* the tags they have at first
    DstImages, DstTags,     \* what the destination has at first
    Jobs,           \* the values of gcrane's option jobs
    Steps,          \* GCRBackoff: attempts of a call that is retried
    Moving,         \* bound: the repositories whose tags move
    MaxFaults, MaxMoves     \* bounds: failing calls, tags that move

Tagging == UNION {[S -> Digests] : S \in SUBSET Tags}

ASSUME GcraneAssumption ==
    /\ Root \in Repos
    /\ Below \in [Repos -> Seq(Repos)]
    \* The name of a child is its parent's and one component more.
    /\ \A parent \in Repos : \A i \in DOMAIN Below[parent] :
          /\ Below[parent][i] # Root
          /\ \A other \in Repos : \A k \in DOMAIN Below[other] :
                Below[other][k] = Below[parent][i] => other = parent /\ k = i
    /\ SrcImages \in [Repos -> SUBSET Digests]
    /\ DstImages \in [Repos -> SUBSET Digests]
    /\ SrcTags \in [Repos -> Tagging] /\ DstTags \in [Repos -> Tagging]
    \* What was tagged at the destination before is there.
    /\ \A repo \in Repos : \A t \in DOMAIN DstTags[repo] : DstTags[repo][t] \in DstImages[repo]
    /\ IsFiniteSet(Tags)
    /\ Jobs \subseteq Nat \ {0} /\ IsFiniteSet(Jobs) /\ Jobs # {}
    /\ Steps \in Nat \ {0} /\ Moving \subseteq Repos
    /\ MaxFaults \in Nat /\ MaxMoves \in Nat

VARIABLES
    srcTags,        \* the source's tags: repo -> tag -> digest
    moves,
    dst,            \* the destination: whole images, and tags, of each repo
    jobs,
    walker,         \* the goroutine that walks
    tasks,          \* what is in c.tasks
    worker,         \* the goroutines that copy
    cancelled,      \* the errgroup's context
    faults,         \* calls that have failed
    final,          \* whether one of them was none that is tried again
    listed,         \* what was found in the repositories visited so far
    skipped         \* the repositories that did not answer at first

srcVars == <<srcTags, moves>>
faultVars == <<faults, final>>
walkVars == <<walker, listed, skipped>>
vars == <<srcVars, dst, jobs, walkVars, tasks, worker, cancelled, faultVars>>

\* Temporary errors, 429 and 500 and above are tried again; others are not.
FaultKinds == {"retryable", "final"}

(***************************************************************************)
(* Listings.                                                               *)
(***************************************************************************)

TagsOf(tags, digest) == {t \in DOMAIN tags : tags[t] = digest}

\* google.List: the manifests of a repository, with their tags.
Listing(images, tags) ==
    [digest \in images \cup {tags[t] : t \in DOMAIN tags} |-> TagsOf(tags, digest)]

SrcListing(repo) == Listing(SrcImages[repo], srcTags[repo])
DstListing(repo) == Listing(dst[repo].images, dst[repo].tags)

Whole(want, have) == {<<digest, want[digest]>> : digest \in DOMAIN want \ DOMAIN have}

\* Mutant: an image that is there is never looked at again.
DiffImagesByDigest(want, have) == Whole(want, have)

\* What of want is needed: images that are not there, with all their tags,
\* and others with the tags they miss, if any.
DiffImages(want, have) ==
    Whole(want, have) \cup
    {<<digest, want[digest] \ have[digest]>> :
        digest \in {d \in DOMAIN want \cap DOMAIN have : ~(want[d] \subseteq have[d])}}

Tasks(repo, need) == {[repo |-> repo, digest |-> n[1], tags |-> n[2]] : n \in need}

(***************************************************************************)
(* Initial state.                                                          *)
(***************************************************************************)

Idle == [pc |-> "idle"]

Init ==
    /\ srcTags = SrcTags /\ moves = 0
    /\ dst = [repo \in Repos |-> [images |-> DstImages[repo], tags |-> DstTags[repo]]]
    /\ jobs \in Jobs
    /\ walker = [pc |-> "list", todo |-> <<Root>>, tries |-> 0, need |-> {}]
    /\ tasks = {}
    /\ worker = [j \in 1 .. jobs |-> Idle]
    /\ cancelled = FALSE
    /\ faults = 0 /\ final = FALSE
    /\ listed = <<>>
    /\ skipped = {}

\* Somebody moves a tag of the source, maybe to an image that is new there.
MoveTag ==
    /\ moves < MaxMoves /\ moves' = moves + 1
    /\ \E repo \in Moving : \E t \in DOMAIN srcTags[repo], digest \in Digests :
          /\ digest # srcTags[repo][t]
          /\ srcTags' = [srcTags EXCEPT ![repo][t] = digest]
    /\ UNCHANGED <<dst, jobs, walkVars, tasks, worker, cancelled, faultVars>>

\* A call fails.
Fault(isFinal) ==
    /\ faults < MaxFaults /\ faults' = faults + 1
    /\ final' = (final \/ isFinal)

\* backoffErrors: whether what has failed tries times before is tried again.
\* Mutant: the last of the attempts is never made.
TriedAgainEarly(kind, tries) == kind = "retryable" /\ tries + 2 < Steps

TriedAgain(kind, tries) == kind = "retryable" /\ tries + 1 < Steps

(***************************************************************************)
(* The walker: google.Walk, walkFn and copyRepo.                           *)
(***************************************************************************)

walkerFrame == <<srcVars, dst, jobs, worker>>

Here == Head(walker.todo)

\* A call under backoffErrors failed: again, or Walk returns the error.
WalkerCallFails(kind) ==
    /\ Fault(kind = "final")
    /\ IF TriedAgain(kind, walker.tries)
         THEN walker' = [walker EXCEPT !.tries = @ + 1] /\ UNCHANGED cancelled
         ELSE walker' = [walker EXCEPT !.pc = "failed"] /\ cancelled' = TRUE

\* List by the walk, or again by walkFn.
ListRepo ==
    /\ walker.pc \in {"list", "relist"}
    /\ walker' = [walker EXCEPT !.pc = "diff", !.tries = 0]
    /\ listed' = [repo \in DOMAIN listed \cup {Here} |->
                    IF repo = Here THEN SrcListing(Here) ELSE listed[repo]]
    /\ UNCHANGED <<walkerFrame, tasks, cancelled, faultVars, skipped>>

\* The walk hands any error to walkFn, and never sees what that then lists.
ListFails ==
    /\ walker.pc = "list"
    /\ Fault(FALSE)
    /\ walker' = [walker EXCEPT !.pc = "relist"]
    /\ skipped' = skipped \cup {Here}
    /\ UNCHANGED <<walkerFrame, tasks, cancelled, listed>>

RelistFails ==
    /\ walker.pc = "relist"
    /\ \E kind \in FaultKinds : WalkerCallFails(kind)
    /\ UNCHANGED <<walkerFrame, tasks, listed, skipped>>

\* copyRepo lists the destination; a 404 is an empty listing.
DiffRepo ==
    /\ walker.pc = "diff"
    /\ walker' = [walker EXCEPT !.pc = "queue", !.tries = 0,
                    !.need = Tasks(Here, DiffImages(listed[Here], DstListing(Here)))]
    /\ UNCHANGED <<walkerFrame, tasks, cancelled, faultVars, listed, skipped>>

DiffFails ==
    /\ walker.pc = "diff"
    /\ \E kind \in FaultKinds : WalkerCallFails(kind)
    /\ UNCHANGED <<walkerFrame, tasks, listed, skipped>>

Enqueue ==
    /\ \E task \in walker.need :
          /\ tasks' = tasks \cup {task}
          /\ walker' = [walker EXCEPT !.need = @ \ {task}]
    /\ UNCHANGED <<walkerFrame, cancelled, faultVars, listed, skipped>>

\* c.tasks <- t
Queue ==
    /\ walker.pc = "queue" /\ Cardinality(tasks) < 2 * jobs
    /\ Enqueue

\* Mutant: a send waits for room only.
QueueNotCancelled == FALSE /\ UNCHANGED vars

\* <-ctx.Done(), which may be chosen when there is room as well.
QueueCancelled ==
    /\ walker.pc = "queue" /\ walker.need # {} /\ cancelled
    /\ walker' = [walker EXCEPT !.pc = "failed"]
    /\ UNCHANGED <<walkerFrame, tasks, cancelled, faultVars, listed, skipped>>

\* Depth first, but not below a repository whose listing walk has not seen.
NextRepo ==
    /\ walker.pc = "queue" /\ walker.need = {}
    /\ LET children == IF Here \in skipped THEN <<>> ELSE Below[Here]
           todo == children \o Tail(walker.todo) IN
       walker' = [walker EXCEPT !.todo = todo, !.pc = IF todo = <<>> THEN "ok" ELSE "list"]
    /\ UNCHANGED <<walkerFrame, tasks, cancelled, faultVars, listed, skipped>>

WalkEnded == walker.pc \in {"ok", "failed"}

Walk == \/ ListRepo \/ ListFails \/ RelistFails \/ DiffRepo \/ DiffFails
        \/ Queue \/ QueueCancelled \/ NextRepo

(***************************************************************************)
(* The workers: copyImages.                                                *)
(***************************************************************************)

workerFrame == <<srcVars, jobs, walkVars>>

\* With tags the image is copied by the first of them.
Take(j) ==
    /\ worker[j].pc = "idle"
    /\ \E task \in tasks : \E first \in IF task.tags = {} THEN {task.digest} ELSE task.tags :
          /\ tasks' = tasks \ {task}
          /\ worker' = [worker EXCEPT ![j] =
                            [pc |-> "fetch", tries |-> 0, task |-> task, first |-> first,
                             desc |-> task.digest, left |-> {}]]
    /\ UNCHANGED <<workerFrame, dst, cancelled, faultVars>>

\* The channel is closed and empty.
Finish(j) ==
    /\ worker[j].pc = "idle" /\ tasks = {} /\ WalkEnded
    /\ worker' = [worker EXCEPT ![j].pc = "ok"]
    /\ UNCHANGED <<workerFrame, dst, tasks, cancelled, faultVars>>

\* What remote.Get finds now.
Found(w) == IF w.task.tags = {} THEN w.task.digest ELSE srcTags[w.task.repo][w.first]

Tagged(repo, t, digest) ==
    [x \in DOMAIN dst[repo].tags \cup {t} |-> IF x = t THEN digest ELSE dst[repo].tags[x]]

\* Mutant: an image with tags is only tagged.
FetchAndTag(j) ==
    /\ worker[j].pc = "fetch"
    /\ worker' = [worker EXCEPT ![j].desc = Found(worker[j]), ![j].left = worker[j].task.tags,
                        ![j].pc = IF worker[j].task.tags = {} THEN "write" ELSE "tag"]
    /\ UNCHANGED <<workerFrame, dst, tasks, cancelled, faultVars>>

\* crane.Copy gets the manifest.
Fetch(j) ==
    /\ worker[j].pc = "fetch"
    /\ worker' = [worker EXCEPT ![j].pc = "write", ![j].desc = Found(worker[j])]
    /\ UNCHANGED <<workerFrame, dst, tasks, cancelled, faultVars>>

\* The image is at the destination, and its first tag.
Written(w) ==
    [dst EXCEPT ![w.task.repo] =
        [images |-> @.images \cup {w.desc},
         tags |-> IF w.task.tags = {} THEN @.tags ELSE Tagged(w.task.repo, w.first, w.desc)]]

\* crane.Copy returns nil; one tag needs no more.
Write(j) ==
    /\ worker[j].pc = "write"
    /\ dst' = Written(worker[j])
    /\ worker' = [worker EXCEPT ![j] =
                    IF Cardinality(@.task.tags) <= 1 THEN Idle ELSE [@ EXCEPT !.pc = "get"]]
    /\ UNCHANGED <<workerFrame, tasks, cancelled, faultVars>>

WorkerFails(j) == worker' = [worker EXCEPT ![j].pc = "failed"] /\ cancelled' = TRUE

\* Whatever error crane.Copy wraps, backoffErrors does not know it again.
\* The manifest may be there all the same.
CopyFails(j) ==
    /\ worker[j].pc \in {"fetch", "write"}
    /\ Fault(TRUE)
    /\ dst' \in {dst} \cup (IF worker[j].pc = "write" THEN {Written(worker[j])} ELSE {})
    /\ WorkerFails(j)
    /\ UNCHANGED <<workerFrame, tasks>>

\* remote.Get of the first tag, which others may have moved.
Get(j) ==
    /\ worker[j].pc = "get"
    /\ worker' = [worker EXCEPT ![j].pc = "tag", ![j].desc = Found(worker[j]),
                                ![j].left = worker[j].task.tags \ {worker[j].first}]
    /\ UNCHANGED <<workerFrame, dst, tasks, cancelled, faultVars>>

\* copyImages starts from the beginning, or its error is returned.
WorkerCallFails(j, kind) ==
    /\ Fault(kind = "final")
    /\ IF TriedAgain(kind, worker[j].tries)
         THEN /\ worker' = [worker EXCEPT ![j].pc = "fetch", ![j].tries = @ + 1, ![j].left = {}]
              /\ UNCHANGED cancelled
         ELSE WorkerFails(j)

GetFails(j) ==
    /\ worker[j].pc = "get"
    /\ \E kind \in FaultKinds : WorkerCallFails(j, kind)
    /\ UNCHANGED <<workerFrame, dst, tasks>>

TagPut(w, t) == [dst EXCEPT ![w.task.repo].tags = Tagged(w.task.repo, t, w.desc)]

\* remote.Tag: only the manifest is put.
Tag(j) ==
    /\ worker[j].pc = "tag"
    /\ \E t \in worker[j].left :
          /\ dst' = TagPut(worker[j], t)
          /\ worker' = [worker EXCEPT ![j] =
                            IF worker[j].left = {t} THEN Idle
                            ELSE [worker[j] EXCEPT !.left = @ \ {t}]]
    /\ UNCHANGED <<workerFrame, tasks, cancelled, faultVars>>

TagFails(j) ==
    /\ worker[j].pc = "tag"
    /\ \E kind \in FaultKinds : WorkerCallFails(j, kind)
    /\ \E t \in worker[j].left : dst' \in {dst, TagPut(worker[j], t)}
    /\ UNCHANGED <<workerFrame, tasks>>

\* A registry may check that the image of a manifest is there.
TagRefused(j) ==
    /\ worker[j].pc = "tag"
    /\ worker[j].desc \notin dst[worker[j].task.repo].images
    /\ WorkerFails(j)
    /\ final' = TRUE
    /\ UNCHANGED <<workerFrame, dst, tasks, faults>>

WorkersEnded == \A j \in 1 .. jobs : worker[j].pc \in {"ok", "failed"}

Work(j) == \/ Take(j) \/ Finish(j) \/ Fetch(j) \/ Write(j) \/ CopyFails(j)
           \/ Get(j) \/ GetFails(j) \/ Tag(j) \/ TagFails(j) \/ TagRefused(j)

Run == Walk \/ \E j \in 1 .. jobs : Work(j)

Next == MoveTag \/ Run

Spec == Init /\ [][Next]_vars

\* Goroutines that can run do run and calls end; no behaviour is infinite.
FairSpec == Spec /\ WF_vars(Run)

(***************************************************************************)
(* Properties.                                                             *)
(***************************************************************************)

Succeeded == walker.pc = "ok" /\ \A j \in 1 .. jobs : worker[j].pc = "ok"
Failed == walker.pc = "failed" \/ \E j \in 1 .. jobs : worker[j].pc = "failed"

\* A copy that returns nil has visited the root and all that its listings
\* name, and everything listed there has arrived: each untagged image, each
\* tag, and, when nobody moved tags, each tag on the whole image it was
\* listed with.  No task is lost between walker, channel, workers and
\* retries, and no error of a goroutine is hidden.
SuccessMeansCopied ==
    Succeeded =>
        /\ Root \in DOMAIN listed
        /\ \A repo \in DOMAIN listed \ skipped :
              \A i \in DOMAIN Below[repo] : Below[repo][i] \in DOMAIN listed
        /\ \A repo \in DOMAIN listed : \A digest \in DOMAIN listed[repo] :
              /\ listed[repo][digest] = {} => digest \in dst[repo].images
              /\ \A t \in listed[repo][digest] :
                    /\ t \in DOMAIN dst[repo].tags
                    /\ moves = 0 => /\ dst[repo].tags[t] = digest
                                    /\ digest \in dst[repo].images

\* Fewer failures than GCRBackoff has steps, of calls that are retried, do
\* not make the copy fail.  (Those of crane.Copy count as final: its errors
\* are wrapped and never retried.)
RetryableFaultsTolerated == faults < Steps /\ ~final => ~Failed

\* While nobody moves a tag of the source, a tag of the destination is that
\* of a whole image at all times, whatever fails: remote.Tag, which puts
\* the manifest only, comes after the copy of the same image.
TaggedIsWhole ==
    moves = 0 => \A repo \in Repos : \A t \in DOMAIN dst[repo].tags :
                    dst[repo].tags[t] \in dst[repo].images

\* The copy returns: when all workers have failed and the channel is full,
\* the walker still gets to know.
CopierReturns == <>(WalkEnded /\ WorkersEnded)

\* "CopyRepository copies everything from the src GCR repository to the dst
\* GCR repository": what is below a repository whose first listing failed
\* included.
EverythingCopied == Succeeded => \A repo \in Repos : SrcImages[repo] \subseteq dst[repo].images
=============================================================================
