---------------------------- MODULE GcraneProofs ----------------------------
(***************************************************************************)
(* What gcrane.CopyRepository guarantees: for any tree of repositories,    *)
(* any number of workers, and any failures.                                *)
(***************************************************************************)
EXTENDS GcraneCopy, FiniteSetTheorems, TLAPS

(***************************************************************************)
(* Types.                                                                  *)
(***************************************************************************)

TaskSet == [repo : Repos, digest : Digests, tags : SUBSET Tags]
Stores == [images : SUBSET Digests, tags : Tagging]

BusyLabels == {"fetch", "write", "get", "tag", "failed"}
BusyWorkers ==
    [pc : BusyLabels, tries : Nat, task : TaskSet, first : Tags \cup Digests,
     desc : Digests, left : SUBSET Tags]
WorkerStates == BusyWorkers \cup [pc : {"idle", "ok"}]

WalkLabels == {"list", "relist", "diff", "queue", "ok", "failed"}

TypeInv ==
    /\ srcTags \in [Repos -> Tagging] /\ moves \in Nat
    /\ \A repo \in Repos : DOMAIN srcTags[repo] = DOMAIN SrcTags[repo]
    /\ moves = 0 => srcTags = SrcTags
    /\ dst \in [Repos -> Stores]
    /\ jobs \in Nat \ {0}
    /\ walker \in [pc : WalkLabels, todo : Seq(Repos), tries : Nat, need : SUBSET TaskSet]
    /\ walker.pc \in {"list", "relist", "diff", "queue"} => walker.todo # <<>>
    /\ walker.pc = "ok" => walker.todo = <<>>
    /\ walker.pc \in {"list", "relist", "diff", "ok"} => walker.need = {}
    /\ tasks \subseteq TaskSet
    /\ worker \in [1 .. jobs -> WorkerStates]
    /\ faults \in Nat /\ final \in BOOLEAN /\ cancelled \in BOOLEAN

(***************************************************************************)
(* What the copy has come to.                                              *)
(***************************************************************************)

\* Failures are counted by whoever tries again.
RetryInv ==
    /\ walker.tries <= faults
    /\ \A j \in 1 .. jobs : worker[j].pc \in BusyLabels => worker[j].tries <= faults
    /\ cancelled \/ Failed => final \/ faults >= Steps

\* A worker leaves when there is nothing left and nothing to come.
QueueInv == \A j \in 1 .. jobs : worker[j].pc = "ok" => tasks = {} /\ WalkEnded

Elems(q) == {q[i] : i \in 1 .. Len(q)}
Distinct(q) == \A i, k \in 1 .. Len(q) : q[i] = q[k] => i = k
Todo == Elems(walker.todo)

\* The walk comes to each repository of the tree once, its parent first.
WalkInv ==
    /\ \A i, k \in 1 .. Len(walker.todo) : walker.todo[i] = walker.todo[k] => i = k
    /\ DOMAIN listed \subseteq Repos
    /\ Root \in DOMAIN listed \cup Todo
    /\ \A i \in 1 .. Len(walker.todo) : walker.todo[i] \in DOMAIN listed =>
          i = 1 /\ walker.pc \notin {"list", "relist"}
    /\ walker.pc \in {"diff", "queue"} => Here \in DOMAIN listed
    /\ \A parent \in Repos : \A i \in DOMAIN Below[parent] :
          Below[parent][i] \in DOMAIN listed \cup Todo => parent \in DOMAIN listed \ Todo
    /\ \A repo \in DOMAIN listed \ (skipped \cup Todo) : \A i \in DOMAIN Below[repo] :
          Below[repo][i] \in DOMAIN listed \cup Todo

\* Tags that a listing of the source has shown with a digest.
From(repo, digest, tags) ==
    /\ tags \subseteq DOMAIN SrcTags[repo]
    /\ moves = 0 => \A t \in tags : SrcTags[repo][t] = digest

ListedInv ==
    \A repo \in DOMAIN listed :
        /\ DOMAIN listed[repo] \subseteq Digests
        /\ \A digest \in DOMAIN listed[repo] : From(repo, digest, listed[repo][digest])

Busy(w) == w.pc \in BusyLabels

\* The task is queued, or about to be, or a worker's.
Held(task) ==
    \/ task \in walker.need \cup tasks
    \/ \E j \in 1 .. jobs : Busy(worker[j]) /\ worker[j].task = task

\* The walker has compared the repository with the destination.
Compared(repo) == repo \in DOMAIN listed /\ ~(walker.pc = "diff" /\ repo = Here)

TaskInv ==
    \A task \in TaskSet : Held(task) =>
        Compared(task.repo) /\ From(task.repo, task.digest, task.tags)

\* What a worker has fetched and written so far.
Working(w) ==
    /\ w.pc \in {"fetch", "write", "get", "tag"} =>
          w.first \in IF w.task.tags = {} THEN {w.task.digest} ELSE w.task.tags
    /\ w.pc \in {"write", "tag"} /\ (moves = 0 \/ w.task.tags = {}) => w.desc = w.task.digest
    /\ w.pc \in {"get", "tag"} => w.task.tags # {}
    /\ w.pc \in {"get", "tag"} /\ moves = 0 => w.task.digest \in dst[w.task.repo].images
    /\ w.pc = "tag" => w.left \subseteq w.task.tags

WorkInv == \A j \in 1 .. jobs : Busy(worker[j]) => Working(worker[j])

\* The tags of a repository are those of whole images.
WholeInv ==
    \A repo \in Repos : moves = 0 \/ ~Compared(repo) =>
        \A t \in DOMAIN dst[repo].tags : dst[repo].tags[t] \in dst[repo].images

\* A tag has arrived, with its image if it is still the same.
TagArrived(repo, digest, t) ==
    /\ t \in DOMAIN dst[repo].tags
    /\ moves = 0 => dst[repo].tags[t] = digest /\ digest \in dst[repo].images

\* The tags that a worker has yet to put.
Left(w) ==
    IF w.pc = "tag" THEN w.left
    ELSE IF w.pc = "get" THEN w.task.tags \ {w.first}
    ELSE w.task.tags

TagPending(repo, digest, t) ==
    \/ \E task \in walker.need \cup tasks :
          task.repo = repo /\ task.digest = digest /\ t \in task.tags
    \/ \E j \in 1 .. jobs : /\ Busy(worker[j]) /\ worker[j].task.repo = repo
                            /\ worker[j].task.digest = digest /\ t \in Left(worker[j])

ImagePending(repo, digest) == Held([repo |-> repo, digest |-> digest, tags |-> {}])

\* Whatever was listed has arrived, or a task stands for it.
ArrivalInv ==
    walker.pc # "failed" =>
    \A repo \in DOMAIN listed : Compared(repo) =>
        \A digest \in DOMAIN listed[repo] :
            /\ listed[repo][digest] = {} =>
                  digest \in dst[repo].images \/ ImagePending(repo, digest)
            /\ \A t \in listed[repo][digest] :
                  TagArrived(repo, digest, t) \/ TagPending(repo, digest, t)

CopyInv ==
    /\ QueueInv /\ WalkInv /\ ListedInv /\ TaskInv
    /\ WorkInv /\ WholeInv /\ ArrivalInv

IInv == TypeInv /\ RetryInv /\ CopyInv

(***************************************************************************)
(* Sequences, tags, and stores.                                            *)
(***************************************************************************)

\* What is left to walk after the children c of the repository at its head.
LEMMA TodoFacts ==
    ASSUME NEW c \in Seq(Repos), NEW s \in Seq(Repos), s # <<>>,
           Distinct(c), Distinct(s), Elems(c) \cap Elems(s) = {}
    PROVE  /\ c \o Tail(s) \in Seq(Repos) /\ Distinct(c \o Tail(s))
           /\ Elems(c \o Tail(s)) = Elems(c) \cup (Elems(s) \ {Head(s)})
<1>. /\ \A i, k \in 1 .. Len(c) : c[i] = c[k] => i = k
     /\ \A i, k \in 1 .. Len(s) : s[i] = s[k] => i = k
  BY DEF Distinct
<1>. \A i \in 1 .. Len(c) : \A k \in 1 .. Len(s) : c[i] # s[k]
  <2>1. \A i \in 1 .. Len(c) : c[i] \in Elems(c)
    BY DEF Elems
  <2>2. \A k \in 1 .. Len(s) : s[k] \in Elems(s)
    BY DEF Elems
  <2> QED BY <2>1, <2>2
<1>. PICK t : t = c \o Tail(s)
  OBVIOUS
<1> DEFINE r == Tail(s)
<1>1. Head(s) = s[1] /\ Len(s) \in Nat /\ Len(s) # 0 /\ 1 \in 1 .. Len(s) /\ s[1] \in Repos
  OBVIOUS
<1>2. /\ r \in Seq(Repos) /\ Len(r) = Len(s) - 1
      /\ \A i \in 1 .. Len(r) : i + 1 \in 1 .. Len(s) /\ i + 1 # 1 /\ r[i] = s[i + 1]
  BY <1>1
<1>3. \A k \in 1 .. Len(s) : k # 1 => k - 1 \in 1 .. Len(r) /\ r[k - 1] = s[k]
  <2> SUFFICES ASSUME NEW k \in 1 .. Len(s), k # 1
               PROVE  k - 1 \in 1 .. Len(r) /\ r[k - 1] = s[k]
    OBVIOUS
  <2>1. k - 1 \in 1 .. Len(r) /\ (k - 1) + 1 = k
    BY <1>1, <1>2
  <2> HIDE DEF r
  <2> QED BY <1>2, <2>1
<1>. t = c \o r
  OBVIOUS
<1> HIDE DEF r
<1>4. /\ t \in Seq(Repos) /\ Len(t) = Len(c) + Len(r) /\ Len(c) \in Nat /\ Len(r) \in Nat
      /\ \A i \in 1 .. Len(c) : t[i] = c[i] /\ i \in 1 .. Len(t)
      /\ \A i \in 1 .. Len(r) : t[Len(c) + i] = r[i] /\ Len(c) + i \in 1 .. Len(t)
  <2>1. t \in Seq(Repos) /\ Len(t) = Len(c) + Len(r) /\ Len(c) \in Nat /\ Len(r) \in Nat
    <3>1. \A a, b \in Seq(Repos) :
             /\ a \o b \in Seq(Repos) /\ Len(a \o b) = Len(a) + Len(b)
             /\ Len(a) \in Nat
      OBVIOUS
    <3> QED BY <1>2, <3>1
  <2>2. \A i \in 1 .. Len(c) : t[i] = c[i]
    BY <1>2
  <2>3. \A i \in 1 .. Len(r) : t[Len(c) + i] = r[i]
    BY <1>2
  <2>4. /\ \A i \in 1 .. Len(c) : i \in 1 .. Len(t)
        /\ \A i \in 1 .. Len(r) : Len(c) + i \in 1 .. Len(t)
    BY <2>1
  <2> QED BY <2>1, <2>2, <2>3, <2>4
<1>5. \A i \in 1 .. Len(t) :
         i \in 1 .. Len(c) \/ (i - Len(c) \in 1 .. Len(r) /\ t[i] = r[i - Len(c)])
  <2> SUFFICES ASSUME NEW i \in 1 .. Len(t), i \notin 1 .. Len(c)
               PROVE  i - Len(c) \in 1 .. Len(r) /\ t[i] = r[i - Len(c)]
    OBVIOUS
  <2>1. i - Len(c) \in 1 .. Len(r) /\ Len(c) + (i - Len(c)) = i
    BY <1>4
  <2> QED BY <1>4, <2>1
<1>6. \A i, k \in 1 .. Len(t) : t[i] = t[k] => i = k
  <2> SUFFICES ASSUME NEW i \in 1 .. Len(t), NEW k \in 1 .. Len(t), t[i] = t[k]
               PROVE  i = k
    OBVIOUS
  <2>1. CASE i \in 1 .. Len(c) /\ k \in 1 .. Len(c)
    BY <1>4, <2>1
  <2>2. ASSUME NEW m \in 1 .. Len(c), NEW n \in 1 .. Len(r)
        PROVE  c[m] # r[n]
    BY <1>2
  <2>3. CASE i \notin 1 .. Len(c) /\ k \notin 1 .. Len(c)
    <3>1. /\ i - Len(c) \in 1 .. Len(r) /\ k - Len(c) \in 1 .. Len(r)
          /\ r[i - Len(c)] = r[k - Len(c)]
      <4>1. i - Len(c) \in 1 .. Len(r) /\ t[i] = r[i - Len(c)]
        BY <1>5, <2>3
      <4>2. k - Len(c) \in 1 .. Len(r) /\ t[k] = r[k - Len(c)]
        BY <1>5, <2>3
      <4> QED BY <4>1, <4>2
    <3>2. (i - Len(c)) + 1 = (k - Len(c)) + 1
      <4>1. PICK m \in 1 .. Len(r), n \in 1 .. Len(r) :
               m = i - Len(c) /\ n = k - Len(c) /\ r[m] = r[n]
        BY <3>1
      <4>2. m + 1 \in 1 .. Len(s) /\ n + 1 \in 1 .. Len(s) /\ s[m + 1] = s[n + 1]
        BY <1>2, <4>1
      <4>3. m + 1 = n + 1
        BY <4>2
      <4> QED BY <4>1, <4>3
    <3> QED BY <1>4, <3>2
  <2>4. CASE i \in 1 .. Len(c) /\ k \notin 1 .. Len(c)
    BY <1>4, <1>5, <2>2, <2>4
  <2>5. CASE i \notin 1 .. Len(c) /\ k \in 1 .. Len(c)
    BY <1>4, <1>5, <2>2, <2>5
  <2> QED BY <2>1, <2>3, <2>4, <2>5
<1>7. Elems(t) = Elems(c) \cup (Elems(s) \ {Head(s)})
  <2>1. ASSUME NEW x \in Elems(t)
        PROVE  x \in Elems(c) \cup (Elems(s) \ {s[1]})
    <3>1. PICK i \in 1 .. Len(t) : x = t[i]
      BY <2>1 DEF Elems
    <3>2. CASE i \in 1 .. Len(c)
      BY <1>4, <3>1, <3>2 DEF Elems
    <3>3. CASE i \notin 1 .. Len(c)
      <4>1. i - Len(c) \in 1 .. Len(r) /\ x = r[i - Len(c)]
        BY <1>5, <3>1, <3>3
      <4>2. PICK k \in 1 .. Len(s) : k # 1 /\ x = s[k]
        BY <1>2, <4>1
      <4> QED BY <1>1, <4>2 DEF Elems
    <3> QED BY <3>2, <3>3
  <2>2. ASSUME NEW x \in Elems(c)
        PROVE  x \in Elems(t)
    BY <1>4 DEF Elems
  <2>3. ASSUME NEW x \in Elems(s), x # s[1]
        PROVE  x \in Elems(t)
    <3>1. PICK k \in 1 .. Len(s) : x = s[k] /\ k # 1
      BY <2>3 DEF Elems
    <3>2. k - 1 \in 1 .. Len(r) /\ r[k - 1] = x
      BY <1>3, <3>1
    <3>3. Len(c) + (k - 1) \in 1 .. Len(t) /\ t[Len(c) + (k - 1)] = x
      BY <1>4, <3>2
    <3> QED BY <3>3 DEF Elems
  <2> QED BY <1>1, <2>1, <2>2, <2>3
<1> QED BY <1>1, <1>4, <1>6, <1>7 DEF Distinct

\* Tags map to digests.
LEMMA TaggingFacts ==
    /\ \A f \in Tagging : DOMAIN f \subseteq Tags /\ f \in [DOMAIN f -> Digests]
    /\ \A f : f \in [DOMAIN f -> Digests] /\ DOMAIN f \subseteq Tags => f \in Tagging
  BY DEF Tagging

\* What a source repository may show.
LEMMA SourceFacts ==
    ASSUME TypeInv, NEW repo \in Repos
    PROVE  /\ DOMAIN SrcListing(repo) \subseteq Digests
           /\ \A digest \in DOMAIN SrcListing(repo) :
                 From(repo, digest, SrcListing(repo)[digest])
           /\ DOMAIN SrcTags[repo] \subseteq Tags
           /\ \A t \in DOMAIN SrcTags[repo] : srcTags[repo][t] \in Digests
<1>1. /\ DOMAIN srcTags[repo] = DOMAIN SrcTags[repo] /\ DOMAIN srcTags[repo] \subseteq Tags
      /\ \A t \in DOMAIN srcTags[repo] : srcTags[repo][t] \in Digests
  BY TaggingFacts DEF TypeInv
<1>2. SrcImages[repo] \subseteq Digests
  BY GcraneAssumption
<1>3. moves = 0 => srcTags = SrcTags
  BY DEF TypeInv
<1> QED BY <1>1, <1>2, <1>3 DEF SrcListing, Listing, TagsOf, From

\* A write at the destination adds an image and puts a tag, or one of these.
LEMMA StoreFacts ==
    ASSUME dst \in [Repos -> Stores], NEW repo \in Repos, NEW t \in Tags, NEW digest \in Digests
    PROVE  /\ Tagged(repo, t, digest) \in Tagging
           /\ DOMAIN Tagged(repo, t, digest) = DOMAIN dst[repo].tags \cup {t}
           /\ Tagged(repo, t, digest)[t] = digest
           /\ \A x \in DOMAIN dst[repo].tags \ {t} :
                 Tagged(repo, t, digest)[x] = dst[repo].tags[x]
<1>1. DOMAIN dst[repo].tags \subseteq Tags /\ dst[repo].tags \in [DOMAIN dst[repo].tags -> Digests]
  BY TaggingFacts DEF Stores
<1>2. /\ DOMAIN Tagged(repo, t, digest) = DOMAIN dst[repo].tags \cup {t}
      /\ Tagged(repo, t, digest)[t] = digest
      /\ \A x \in DOMAIN dst[repo].tags \ {t} :
            Tagged(repo, t, digest)[x] = dst[repo].tags[x]
      /\ Tagged(repo, t, digest) \in [DOMAIN Tagged(repo, t, digest) -> Digests]
  BY <1>1 DEF Tagged
<1> QED BY <1>1, <1>2, TaggingFacts

(***************************************************************************)
(* What the step of a worker leaves alone.                                 *)
(***************************************************************************)

\* What a step of a worker may do to the destination.
StoreMove ==
    /\ dst' \in [Repos -> Stores]
    /\ \A repo \in Repos :
          /\ dst[repo].images \subseteq dst'[repo].images
          /\ DOMAIN dst[repo].tags \subseteq DOMAIN dst'[repo].tags
          /\ \A t \in DOMAIN dst'[repo].tags :
                \/ t \in DOMAIN dst[repo].tags /\ dst'[repo].tags[t] = dst[repo].tags[t]
                \/ /\ Compared(repo)
                   /\ moves = 0 => /\ t \in DOMAIN SrcTags[repo]
                                   /\ dst'[repo].tags[t] = SrcTags[repo][t]
                                   /\ dst'[repo].tags[t] \in dst'[repo].images

\* What it may do to the tasks.
TaskMove(j) ==
    /\ UNCHANGED workerFrame
    /\ worker' \in [1 .. jobs -> WorkerStates]
    /\ \A i \in 1 .. jobs : i # j => worker'[i] = worker[i]
    /\ tasks' \subseteq tasks
    /\ \A task \in tasks \ tasks' :
          /\ Busy(worker'[j]) /\ worker'[j].task = task
          /\ Left(worker'[j]) = task.tags
    /\ Busy(worker'[j]) => Held(worker'[j].task)
    /\ worker'[j].pc = "ok" => tasks' = {} /\ WalkEnded
    /\ faults' \in Nat /\ final' \in BOOLEAN /\ cancelled' \in BOOLEAN

\* What it owes for the task it had.
Delivers(j) ==
    \A task \in TaskSet : Busy(worker[j]) /\ worker[j].task = task =>
        /\ \A t \in Left(worker[j]) :
              \/ TagArrived(task.repo, task.digest, t)'
              \/ Busy(worker'[j]) /\ worker'[j].task = task /\ t \in Left(worker'[j])
        /\ task.tags = {} =>
              \/ task.digest \in dst'[task.repo].images
              \/ Busy(worker'[j]) /\ worker'[j].task = task

\* A worker never adds to the tasks, and the others keep theirs.
LEMMA HeldBefore ==
    ASSUME NEW j \in 1 .. jobs, TaskMove(j), NEW task, Held(task)'
    PROVE  Held(task)
<1>1. UNCHANGED <<walker, jobs>> /\ tasks' \subseteq tasks
      /\ \A i \in 1 .. jobs : i # j => worker'[i] = worker[i]
  BY DEF TaskMove, workerFrame, walkVars
<1>2. CASE task \in walker'.need \cup tasks'
  BY <1>1, <1>2 DEF Held
<1>3. ASSUME NEW i \in 1 .. jobs, Busy(worker'[i]), worker'[i].task = task
      PROVE  Held(task)
  BY <1>1, <1>3 DEF Held, TaskMove
<1> QED BY <1>1, <1>2, <1>3 DEF Held, Busy

\* What has arrived stays.
LEMMA ArrivedStays ==
    ASSUME StoreMove, UNCHANGED moves, NEW repo \in Repos, NEW digest, NEW tags,
           From(repo, digest, tags), NEW t \in tags, TagArrived(repo, digest, t)
    PROVE  TagArrived(repo, digest, t)'
<1>1. t \in DOMAIN dst'[repo].tags
  BY DEF StoreMove, TagArrived
<1>2. ASSUME moves = 0
      PROVE  dst'[repo].tags[t] = digest /\ digest \in dst'[repo].images
  <2>1. /\ dst[repo].tags[t] = digest /\ digest \in dst[repo].images
        /\ SrcTags[repo][t] = digest
    BY <1>2 DEF From, TagArrived
  <2> QED BY <1>1, <1>2, <2>1 DEF StoreMove
<1> QED BY <1>1, <1>2 DEF TagArrived

\* It is enough to look at the worker that takes the step.
LEMMA WorkerStep ==
    ASSUME TypeInv, CopyInv, NEW j \in 1 .. jobs, TaskMove(j), StoreMove, Delivers(j),
           Busy(worker'[j]) => Working(worker[j])'
    PROVE  TypeInv' /\ CopyInv'
<1>1. /\ UNCHANGED <<srcTags, moves, jobs, walker, listed, skipped>>
      /\ worker' \in [1 .. jobs -> WorkerStates] /\ tasks' \subseteq tasks
      /\ \A i \in 1 .. jobs : i # j => worker'[i] = worker[i]
  BY DEF TaskMove, workerFrame, srcVars, walkVars
<1>2. TypeInv'
  BY <1>1 DEF TypeInv, TaskMove, StoreMove
<1>3. QueueInv'
  BY <1>1 DEF CopyInv, QueueInv, TaskMove, WalkEnded
<1>4. WalkInv' /\ ListedInv'
  BY <1>1 DEF CopyInv, WalkInv, ListedInv, From, Todo, Elems, Here
<1>5. \A repo : Compared(repo)' <=> Compared(repo)
  BY <1>1 DEF Compared, Here
<1>6. TaskInv'
  <2> SUFFICES ASSUME NEW task \in TaskSet, Held(task)'
               PROVE  Compared(task.repo)' /\ From(task.repo, task.digest, task.tags)'
    BY DEF TaskInv
  <2>1. Held(task)
    BY HeldBefore
  <2>2. Compared(task.repo) /\ From(task.repo, task.digest, task.tags)
    BY <2>1 DEF CopyInv, TaskInv
  <2> QED BY <1>1, <1>5, <2>2 DEF From
<1>7. WorkInv'
  <2> SUFFICES ASSUME NEW i \in 1 .. jobs, Busy(worker'[i])
               PROVE  Working(worker[i])'
    BY <1>1 DEF WorkInv, Busy
  <2>1. CASE i = j
    BY <2>1
  <2>2. CASE i # j
    <3>1. worker'[i] = worker[i] /\ worker[i] \in BusyWorkers /\ Working(worker[i])
      BY <1>1, <2>2 DEF CopyInv, WorkInv, TypeInv, Busy, WorkerStates, BusyLabels
    <3>2. worker[i].task.repo \in Repos
      BY <3>1 DEF BusyWorkers, TaskSet
    <3>3. dst[worker[i].task.repo].images \subseteq dst'[worker[i].task.repo].images
      BY <3>2 DEF StoreMove
    <3> QED BY <1>1, <3>1, <3>3 DEF Working
  <2> QED BY <2>1, <2>2
<1>8. WholeInv'
  <2> SUFFICES ASSUME NEW repo \in Repos, moves = 0 \/ ~Compared(repo),
                      NEW t \in DOMAIN dst'[repo].tags
               PROVE  dst'[repo].tags[t] \in dst'[repo].images
    BY <1>1, <1>5 DEF WholeInv
  <2> QED BY DEF StoreMove, CopyInv, WholeInv
<1>9. ArrivalInv'
  <2> SUFFICES ASSUME walker.pc # "failed", NEW repo \in DOMAIN listed, Compared(repo),
                      NEW digest \in DOMAIN listed[repo]
               PROVE  /\ listed[repo][digest] = {} =>
                            digest \in dst'[repo].images \/ ImagePending(repo, digest)'
                      /\ \A t \in listed[repo][digest] :
                            TagArrived(repo, digest, t)' \/ TagPending(repo, digest, t)'
    BY <1>1, <1>5 DEF ArrivalInv
  <2>1. repo \in Repos /\ From(repo, digest, listed[repo][digest])
    BY DEF CopyInv, WalkInv, ListedInv
  <2>2. ASSUME listed[repo][digest] = {}
        PROVE  digest \in dst'[repo].images \/ ImagePending(repo, digest)'
    <3>1. digest \in dst[repo].images \/ ImagePending(repo, digest)
      BY <2>2 DEF CopyInv, ArrivalInv
    <3>2. CASE digest \in dst[repo].images
      BY <2>1, <3>2 DEF StoreMove
    <3>3. CASE ImagePending(repo, digest)
      <4>1. PICK task : task = [repo |-> repo, digest |-> digest, tags |-> {}]
        OBVIOUS
      <4>2. Held(task) /\ task.repo = repo /\ task.digest = digest /\ task.tags = {}
        BY <3>3, <4>1 DEF ImagePending
      <4>3. Held(task)' \/ digest \in dst'[repo].images
        <5>1. CASE task \in walker.need \cup tasks
          BY <1>1, <5>1 DEF Held, TaskMove
        <5>2. CASE \E i \in 1 .. jobs : Busy(worker[i]) /\ worker[i].task = task
          <6>1. PICK i \in 1 .. jobs : Busy(worker[i]) /\ worker[i].task = task
            BY <5>2
          <6>2. CASE i = j
            <7>1. task \in TaskSet
              BY <6>1 DEF TypeInv, WorkerStates, BusyWorkers, Busy, BusyLabels
            <7> QED BY <1>1, <4>2, <6>1, <6>2, <7>1 DEF Held, Delivers
          <6>3. CASE i # j
            BY <1>1, <6>1, <6>3 DEF Held
          <6> QED BY <6>2, <6>3
        <5> QED BY <4>2, <5>1, <5>2 DEF Held
      <4> QED BY <4>1, <4>3 DEF ImagePending
    <3> QED BY <3>1, <3>2, <3>3
  <2>3. ASSUME NEW t \in listed[repo][digest]
        PROVE  TagArrived(repo, digest, t)' \/ TagPending(repo, digest, t)'
    <3>1. TagArrived(repo, digest, t) \/ TagPending(repo, digest, t)
      BY <2>3 DEF CopyInv, ArrivalInv
    <3>2. CASE TagArrived(repo, digest, t)
      BY <1>1, <2>1, <3>2, ArrivedStays
    <3>3. ASSUME NEW task \in walker.need \cup tasks,
                 task.repo = repo, task.digest = digest, t \in task.tags
          PROVE  TagPending(repo, digest, t)'
      <4>1. CASE task \in walker.need \cup tasks'
        BY <1>1, <3>3, <4>1 DEF TagPending
      <4>2. CASE task \in tasks \ tasks'
        BY <1>1, <3>3, <4>2 DEF TagPending, TaskMove
      <4> QED BY <3>3, <4>1, <4>2
    <3>4. ASSUME NEW i \in 1 .. jobs, Busy(worker[i]), worker[i].task.repo = repo,
                 worker[i].task.digest = digest, t \in Left(worker[i])
          PROVE  TagArrived(repo, digest, t)' \/ TagPending(repo, digest, t)'
      <4>1. CASE i = j
        <5>1. PICK task \in TaskSet : worker[j].task = task
          BY <1>1, <3>4, <4>1 DEF TypeInv, WorkerStates, BusyWorkers, Busy, BusyLabels
        <5>2. /\ Busy(worker[j]) /\ task.repo = repo /\ task.digest = digest
              /\ t \in Left(worker[j])
          BY <3>4, <4>1, <5>1
        <5>3. \/ TagArrived(repo, digest, t)'
              \/ Busy(worker'[j]) /\ worker'[j].task = task /\ t \in Left(worker'[j])
          BY <5>1, <5>2 DEF Delivers
        <5>4. CASE Busy(worker'[j]) /\ worker'[j].task = task /\ t \in Left(worker'[j])
          BY <1>1, <5>2, <5>4 DEF TagPending
        <5> QED BY <5>3, <5>4
      <4>2. CASE i # j
        BY <1>1, <3>4, <4>2 DEF TagPending
      <4> QED BY <4>1, <4>2
    <3> QED BY <3>1, <3>2, <3>3, <3>4 DEF TagPending
  <2> QED BY <2>2, <2>3
<1> QED BY <1>2, <1>3, <1>4, <1>6, <1>7, <1>8, <1>9 DEF CopyInv

(***************************************************************************)
(* The steps of a worker.                                                  *)
(***************************************************************************)

\* What is known of a worker that has a task.
LEMMA BusyFacts ==
    ASSUME TypeInv, CopyInv, NEW j \in 1 .. jobs, Busy(worker[j])
    PROVE  /\ worker[j] \in BusyWorkers /\ Working(worker[j])
           /\ worker[j].task \in TaskSet /\ Held(worker[j].task)
           /\ Compared(worker[j].task.repo) /\ worker[j].task.repo \in Repos
           /\ worker[j].task.digest \in Digests /\ worker[j].task.tags \subseteq Tags
           /\ From(worker[j].task.repo, worker[j].task.digest, worker[j].task.tags)
           /\ Left(worker[j]) \subseteq worker[j].task.tags
<1>1. worker[j] \in BusyWorkers /\ worker[j].task \in TaskSet
  BY DEF TypeInv, WorkerStates, BusyWorkers, Busy, BusyLabels
<1>2. Held(worker[j].task)
  BY DEF Held
<1>3. Working(worker[j])
  BY DEF CopyInv, WorkInv
<1>4. Left(worker[j]) \subseteq worker[j].task.tags
  BY <1>3 DEF Left, Working
<1> QED BY <1>1, <1>2, <1>3, <1>4 DEF CopyInv, TaskInv, TaskSet

\* What a worker finds at the source, before it has its tags left to put.
LEMMA FoundFacts ==
    ASSUME TypeInv, CopyInv, NEW j \in 1 .. jobs, worker[j].pc \in {"fetch", "get"}
    PROVE  /\ Found(worker[j]) \in Digests
           /\ moves = 0 \/ worker[j].task.tags = {} =>
                 Found(worker[j]) = worker[j].task.digest
<1>1. Busy(worker[j])
  BY DEF Busy, BusyLabels
<1> DEFINE task == worker[j].task
<1>2. /\ task.repo \in Repos /\ task.digest \in Digests
      /\ From(task.repo, task.digest, task.tags) /\ Working(worker[j])
  BY <1>1, BusyFacts
<1>3. CASE task.tags = {}
  BY <1>2, <1>3 DEF Found
<1>4. CASE task.tags # {}
  <2>1. worker[j].first \in task.tags /\ worker[j].first \in DOMAIN SrcTags[task.repo]
    BY <1>2, <1>4 DEF Working, From
  <2>2. srcTags[task.repo][worker[j].first] \in Digests
    BY <1>2, <2>1, SourceFacts
  <2>3. moves = 0 => srcTags[task.repo][worker[j].first] = task.digest
    BY <1>2, <2>1 DEF TypeInv, From
  <2> QED BY <1>4, <2>2, <2>3 DEF Found
<1> QED BY <1>3, <1>4

\* Nothing is written.
LEMMA StoreQuiet ==
    ASSUME TypeInv, UNCHANGED dst
    PROVE  StoreMove
  BY DEF StoreMove, TypeInv

\* crane.Copy writes the image, then its first tag.
LEMMA WrittenFacts ==
    ASSUME TypeInv, CopyInv, NEW j \in 1 .. jobs, worker[j].pc = "write",
           dst' = Written(worker[j]),
           NEW task, task = worker[j].task, NEW first, first = worker[j].first, UNCHANGED moves
    PROVE  /\ StoreMove
           /\ task.tags = {} \/ moves = 0 => task.digest \in dst'[task.repo].images
           /\ task.tags # {} => TagArrived(task.repo, task.digest, first)'
<1>1. Busy(worker[j])
  BY DEF Busy, BusyLabels
<1>2. /\ worker[j] \in BusyWorkers /\ task.repo \in Repos /\ task.digest \in Digests
      /\ task.tags \subseteq Tags /\ Compared(task.repo)
      /\ From(task.repo, task.digest, task.tags) /\ Working(worker[j])
  BY <1>1, BusyFacts
<1>3. PICK desc \in Digests : desc = worker[j].desc
  BY <1>2 DEF BusyWorkers
<1>4. /\ task.tags # {} => first \in task.tags /\ first \in Tags
      /\ moves = 0 \/ task.tags = {} => desc = task.digest
  BY <1>2, <1>3 DEF Working
<1> DEFINE tags == IF task.tags = {} THEN dst[task.repo].tags ELSE Tagged(task.repo, first, desc)
           store == [images |-> dst[task.repo].images \cup {desc}, tags |-> tags]
<1>5. dst' = [dst EXCEPT ![task.repo] = store]
  BY <1>3 DEF Written
<1>6. dst[task.repo] \in Stores
  BY <1>2 DEF TypeInv
<1>7. tags \in Tagging
  BY <1>2, <1>4, <1>6, StoreFacts DEF TypeInv, Stores
<1>8. store \in Stores
  BY <1>6, <1>7 DEF Stores
<1>9. /\ dst' \in [Repos -> Stores]
      /\ dst'[task.repo].images = dst[task.repo].images \cup {desc}
      /\ dst'[task.repo].tags = tags
      /\ \A repo \in Repos : repo # task.repo => dst'[repo] = dst[repo]
  BY <1>2, <1>5, <1>8 DEF TypeInv
<1>10. CASE task.tags = {}
  <2>1. tags = dst[task.repo].tags
    BY <1>10
  <2>2. StoreMove
    BY <1>9, <2>1 DEF StoreMove
  <2> QED BY <1>4, <1>9, <1>10, <2>2
<1>11. CASE task.tags # {}
  <2>1. /\ DOMAIN tags = DOMAIN dst[task.repo].tags \cup {first} /\ tags[first] = desc
        /\ \A x \in DOMAIN dst[task.repo].tags \ {first} : tags[x] = dst[task.repo].tags[x]
    <3>1. /\ DOMAIN Tagged(task.repo, first, desc) = DOMAIN dst[task.repo].tags \cup {first}
          /\ Tagged(task.repo, first, desc)[first] = desc
          /\ \A x \in DOMAIN dst[task.repo].tags \ {first} :
                Tagged(task.repo, first, desc)[x] = dst[task.repo].tags[x]
      <4> HIDE DEF tags, store
      <4> QED BY DEF Tagged
    <3> QED BY <1>11, <3>1
  <2> HIDE DEF tags, store
  <2>2. moves = 0 => first \in DOMAIN SrcTags[task.repo] /\ desc = SrcTags[task.repo][first]
    BY <1>2, <1>4, <1>11 DEF From
  <2>3. StoreMove
    <3> SUFFICES ASSUME NEW repo \in Repos
                 PROVE  /\ dst[repo].images \subseteq dst'[repo].images
                        /\ DOMAIN dst[repo].tags \subseteq DOMAIN dst'[repo].tags
                        /\ \A t \in DOMAIN dst'[repo].tags :
                              \/ t \in DOMAIN dst[repo].tags /\ dst'[repo].tags[t] = dst[repo].tags[t]
                              \/ /\ Compared(repo)
                                 /\ moves = 0 => /\ t \in DOMAIN SrcTags[repo]
                                                 /\ dst'[repo].tags[t] = SrcTags[repo][t]
                                                 /\ dst'[repo].tags[t] \in dst'[repo].images
      BY <1>9 DEF StoreMove
    <3>1. CASE repo # task.repo
      BY <1>9, <3>1
    <3>2. CASE repo = task.repo
      <4>1. /\ dst[repo].images \subseteq dst'[repo].images
            /\ desc \in dst'[repo].images /\ dst'[repo].tags = tags
        BY <1>9, <3>2
      <4>2. DOMAIN tags = DOMAIN dst[repo].tags \cup {first} /\ tags[first] = desc
        BY <2>1, <3>2
      <4>3. ASSUME NEW t \in DOMAIN tags, t # first
            PROVE  t \in DOMAIN dst[repo].tags /\ tags[t] = dst[repo].tags[t]
        BY <2>1, <3>2, <4>3
      <4>4. /\ Compared(repo)
            /\ moves = 0 => first \in DOMAIN SrcTags[repo] /\ desc = SrcTags[repo][first]
        BY <1>2, <2>2, <3>2
      <4> QED BY <4>1, <4>2, <4>3, <4>4
    <3> QED BY <3>1, <3>2
  <2>4. TagArrived(task.repo, task.digest, first)'
    BY <1>4, <1>9, <2>1 DEF TagArrived
  <2> QED BY <1>4, <1>9, <1>11, <2>3, <2>4
<1> QED BY <1>10, <1>11

\* remote.Tag puts a manifest whose image has been copied, unless somebody
\* moved the tag meanwhile.
LEMMA TagPutFacts ==
    ASSUME TypeInv, CopyInv, NEW j \in 1 .. jobs, worker[j].pc = "tag",
           NEW t \in worker[j].left, dst' = TagPut(worker[j], t),
           NEW task, task = worker[j].task, UNCHANGED moves
    PROVE  StoreMove /\ TagArrived(task.repo, task.digest, t)'
<1>1. Busy(worker[j])
  BY DEF Busy, BusyLabels
<1>2. /\ worker[j] \in BusyWorkers /\ task.repo \in Repos /\ task.digest \in Digests
      /\ task.tags \subseteq Tags /\ Compared(task.repo)
      /\ From(task.repo, task.digest, task.tags) /\ Working(worker[j])
  BY <1>1, BusyFacts
<1>3. PICK desc \in Digests : desc = worker[j].desc
  BY <1>2 DEF BusyWorkers
<1>4. /\ t \in task.tags /\ t \in Tags
      /\ moves = 0 => desc = task.digest /\ task.digest \in dst[task.repo].images
  BY <1>2, <1>3 DEF Working
<1> DEFINE tags == Tagged(task.repo, t, desc)
<1>5. dst' = [dst EXCEPT ![task.repo].tags = tags]
  BY <1>3 DEF TagPut
<1>6. dst[task.repo] \in Stores
  BY <1>2 DEF TypeInv
<1>7. /\ tags \in Tagging
      /\ DOMAIN tags = DOMAIN dst[task.repo].tags \cup {t} /\ tags[t] = desc
      /\ \A x \in DOMAIN dst[task.repo].tags \ {t} : tags[x] = dst[task.repo].tags[x]
  <2>1. tags \in Tagging
    <3>1. dst \in [Repos -> Stores]
      BY DEF TypeInv
    <3>2. task.repo \in Repos /\ t \in Tags
      BY <1>2, <1>4
    <3> QED BY <3>1, <3>2, StoreFacts
  <2>2. /\ DOMAIN tags = DOMAIN dst[task.repo].tags \cup {t} /\ tags[t] = desc
        /\ \A x \in DOMAIN dst[task.repo].tags \ {t} : tags[x] = dst[task.repo].tags[x]
    BY DEF Tagged
  <2> QED BY <2>1, <2>2
<1> HIDE DEF tags
<1>8. [dst[task.repo] EXCEPT !.tags = tags] \in Stores
  BY <1>6, <1>7 DEF Stores
<1>9. /\ dst' \in [Repos -> Stores]
      /\ dst'[task.repo].images = dst[task.repo].images
      /\ dst'[task.repo].tags = tags
      /\ \A repo \in Repos : repo # task.repo => dst'[repo] = dst[repo]
  BY <1>2, <1>5, <1>6, <1>8 DEF TypeInv, Stores
<1>10. moves = 0 => t \in DOMAIN SrcTags[task.repo] /\ desc = SrcTags[task.repo][t]
  BY <1>2, <1>4 DEF From
<1>11. StoreMove
  <2> SUFFICES ASSUME NEW repo \in Repos
               PROVE  /\ dst[repo].images \subseteq dst'[repo].images
                      /\ DOMAIN dst[repo].tags \subseteq DOMAIN dst'[repo].tags
                      /\ \A x \in DOMAIN dst'[repo].tags :
                            \/ x \in DOMAIN dst[repo].tags /\ dst'[repo].tags[x] = dst[repo].tags[x]
                            \/ /\ Compared(repo)
                               /\ moves = 0 => /\ x \in DOMAIN SrcTags[repo]
                                               /\ dst'[repo].tags[x] = SrcTags[repo][x]
                                               /\ dst'[repo].tags[x] \in dst'[repo].images
    BY <1>9 DEF StoreMove
  <2>1. CASE repo # task.repo
    BY <1>9, <2>1
  <2>2. CASE repo = task.repo
    <3>1. ASSUME NEW x \in DOMAIN dst'[repo].tags, x # t
          PROVE  x \in DOMAIN dst[repo].tags /\ dst'[repo].tags[x] = dst[repo].tags[x]
      BY <1>7, <1>9, <2>2, <3>1
    <3>2. moves = 0 => /\ t \in DOMAIN SrcTags[repo]
                       /\ dst'[repo].tags[t] = SrcTags[repo][t]
                       /\ dst'[repo].tags[t] \in dst'[repo].images
      BY <1>4, <1>7, <1>9, <1>10, <2>2
    <3>3. /\ dst[repo].images \subseteq dst'[repo].images
          /\ DOMAIN dst[repo].tags \subseteq DOMAIN dst'[repo].tags
      BY <1>7, <1>9, <2>2
    <3> QED BY <1>2, <2>2, <3>1, <3>2, <3>3
  <2> QED BY <2>1, <2>2
<1>12. TagArrived(task.repo, task.digest, t)'
  BY <1>4, <1>7, <1>9 DEF TagArrived
<1> QED BY <1>11, <1>12
\* A worker that keeps its task has put the tags that it no longer has to put.
LEMMA KeepsTask ==
    ASSUME TypeInv, CopyInv, NEW j \in 1 .. jobs, Busy(worker[j]),
           UNCHANGED <<workerFrame, tasks>>, StoreMove,
           faults' \in Nat, final' \in BOOLEAN, cancelled' \in BOOLEAN,
           NEW w \in BusyWorkers, worker' = [worker EXCEPT ![j] = w],
           NEW task, task = worker[j].task, w.task = task, Working(w)',
           \A t \in Left(worker[j]) \ Left(w) : TagArrived(task.repo, task.digest, t)'
    PROVE  TypeInv' /\ CopyInv'
<1>1. /\ worker' \in [1 .. jobs -> WorkerStates] /\ worker'[j] = w
      /\ \A i \in 1 .. jobs : i # j => worker'[i] = worker[i]
  BY DEF TypeInv, WorkerStates
<1>2. Busy(w) /\ w.pc # "ok"
  BY DEF Busy, BusyWorkers, BusyLabels
<1>3. Held(task)
  BY DEF Held
<1>4. TaskMove(j)
  BY <1>1, <1>2, <1>3 DEF TaskMove
<1>5. Delivers(j)
  BY <1>1, <1>2 DEF Delivers
<1>6. Working(worker[j])'
  BY <1>1 DEF Working
<1> QED BY <1>4, <1>5, <1>6, WorkerStep

\* A worker that is done with its task has put the image or all its tags.
LEMMA LeavesTask ==
    ASSUME TypeInv, CopyInv, NEW j \in 1 .. jobs, Busy(worker[j]),
           UNCHANGED <<workerFrame, tasks, cancelled, faultVars>>, StoreMove,
           worker' = [worker EXCEPT ![j] = Idle],
           NEW task, task = worker[j].task,
           \A t \in Left(worker[j]) : TagArrived(task.repo, task.digest, t)',
           task.tags = {} => task.digest \in dst'[task.repo].images
    PROVE  TypeInv' /\ CopyInv'
<1>1. Idle \in WorkerStates /\ ~Busy(Idle) /\ Idle.pc # "ok"
  BY DEF Idle, WorkerStates, Busy, BusyLabels
<1>2. /\ worker' \in [1 .. jobs -> WorkerStates] /\ worker'[j] = Idle
      /\ \A i \in 1 .. jobs : i # j => worker'[i] = worker[i]
  BY <1>1 DEF TypeInv
<1>3. UNCHANGED <<faults, final, cancelled>>
  BY DEF faultVars
<1>4. TaskMove(j)
  BY <1>1, <1>2, <1>3 DEF TaskMove, TypeInv
<1>5. Delivers(j)
  BY <1>2 DEF Delivers
<1> QED BY <1>1, <1>2, <1>4, <1>5, WorkerStep

LEMMA TakeStep ==
    ASSUME TypeInv, CopyInv, NEW j \in 1 .. jobs, Take(j)
    PROVE  TypeInv' /\ CopyInv'
<1>1. PICK task \in tasks : \E first \in IF task.tags = {} THEN {task.digest} ELSE task.tags :
         /\ tasks' = tasks \ {task}
         /\ worker' = [worker EXCEPT ![j] =
                           [pc |-> "fetch", tries |-> 0, task |-> task, first |-> first,
                            desc |-> task.digest, left |-> {}]]
  BY DEF Take
<1>2. PICK first \in IF task.tags = {} THEN {task.digest} ELSE task.tags :
         /\ tasks' = tasks \ {task}
         /\ worker' = [worker EXCEPT ![j] =
                           [pc |-> "fetch", tries |-> 0, task |-> task, first |-> first,
                            desc |-> task.digest, left |-> {}]]
  BY <1>1
<1>3. task \in TaskSet /\ task.digest \in Digests /\ task.tags \subseteq Tags
  BY DEF TypeInv, TaskSet
<1>4. first \in Tags \cup Digests
  BY <1>3
<1> DEFINE w == [pc |-> "fetch", tries |-> 0, task |-> task, first |-> first,
                 desc |-> task.digest, left |-> {}]
<1>5. w \in BusyWorkers
  BY <1>3, <1>4 DEF BusyWorkers, BusyLabels
<1>6. Busy(w) /\ w.task = task /\ w.pc = "fetch" /\ Left(w) = task.tags /\ w.first = first
  BY DEF Busy, BusyLabels, Left
<1>7. worker' = [worker EXCEPT ![j] = w]
  BY <1>2
<1> HIDE DEF w
<1>8. /\ worker' \in [1 .. jobs -> WorkerStates] /\ worker'[j] = w
      /\ \A i \in 1 .. jobs : i # j => worker'[i] = worker[i]
  BY <1>5, <1>7 DEF TypeInv, WorkerStates
<1>9. UNCHANGED <<workerFrame, dst, cancelled, faults, final>>
  BY DEF Take, faultVars
<1>10. Held(task)
  BY DEF Held
<1>11. tasks' \subseteq tasks /\ \A x \in tasks \ tasks' : x = task
  BY <1>2
<1>12. TaskMove(j)
  BY <1>6, <1>8, <1>9, <1>10, <1>11 DEF TaskMove, TypeInv
<1>13. ~Busy(worker[j])
  BY DEF Take, Busy, BusyLabels
<1>14. Delivers(j)
  BY <1>13 DEF Delivers
<1>15. StoreMove
  BY <1>9, StoreQuiet
<1>16. Working(worker[j])'
  BY <1>2, <1>6, <1>8 DEF Working
<1> QED BY <1>12, <1>14, <1>15, <1>16, WorkerStep

LEMMA FinishStep ==
    ASSUME TypeInv, CopyInv, NEW j \in 1 .. jobs, Finish(j)
    PROVE  TypeInv' /\ CopyInv'
<1>1. ~Busy(worker[j]) /\ worker[j] \in [pc : {"idle", "ok"}]
  BY DEF Finish, Busy, BusyLabels, TypeInv, WorkerStates, BusyWorkers
<1>2. worker' = [worker EXCEPT ![j].pc = "ok"]
  BY DEF Finish
<1>3. [worker[j] EXCEPT !.pc = "ok"] \in [pc : {"idle", "ok"}]
  BY <1>1
<1>4. /\ worker' \in [1 .. jobs -> WorkerStates] /\ worker'[j].pc = "ok"
      /\ \A i \in 1 .. jobs : i # j => worker'[i] = worker[i]
  BY <1>1, <1>2, <1>3 DEF TypeInv, WorkerStates
<1>5. ~Busy(worker'[j])
  BY <1>4 DEF Busy, BusyLabels
<1>6. UNCHANGED <<workerFrame, dst, tasks, cancelled, faults, final>>
  BY DEF Finish, faultVars
<1>7. tasks' = {} /\ WalkEnded
  BY <1>6 DEF Finish
<1>8. TaskMove(j)
  BY <1>4, <1>5, <1>6, <1>7 DEF TaskMove, TypeInv
<1>9. Delivers(j)
  BY <1>1 DEF Delivers
<1>10. StoreMove
  BY <1>6, StoreQuiet
<1> QED BY <1>5, <1>8, <1>9, <1>10, WorkerStep
\* crane.Copy has the manifest.
LEMMA FetchStep ==
    ASSUME TypeInv, CopyInv, NEW j \in 1 .. jobs, Fetch(j)
    PROVE  TypeInv' /\ CopyInv'
<1>1. /\ worker[j].pc = "fetch" /\ Busy(worker[j])
      /\ UNCHANGED <<workerFrame, moves, dst, tasks, cancelled, faults, final>>
  BY DEF Fetch, Busy, BusyLabels, workerFrame, srcVars, faultVars
<1>2. PICK task \in TaskSet : task = worker[j].task
  BY <1>1, BusyFacts
<1>3. worker[j] \in BusyWorkers /\ Working(worker[j])
  BY <1>1, BusyFacts
<1>4. PICK desc \in Digests :
         /\ desc = Found(worker[j])
         /\ moves = 0 \/ task.tags = {} => desc = task.digest
  BY <1>1, <1>2, FoundFacts
<1>5. PICK w : w = [worker[j] EXCEPT !.pc = "write", !.desc = desc]
  OBVIOUS
<1>6. w \in BusyWorkers /\ w.pc = "write" /\ w.task = task /\ w.desc = desc
      /\ w.first = worker[j].first
  BY <1>2, <1>3, <1>5 DEF BusyWorkers, BusyLabels
<1>7. worker' = [worker EXCEPT ![j] = w]
  BY <1>4, <1>5 DEF Fetch
<1>8. Working(w)'
  BY <1>1, <1>2, <1>3, <1>4, <1>6 DEF Working
<1>9. Left(worker[j]) = Left(w)
  BY <1>1, <1>2, <1>6 DEF Left
<1>10. StoreMove
  BY <1>1, StoreQuiet
<1>11. faults' \in Nat /\ final' \in BOOLEAN /\ cancelled' \in BOOLEAN
  BY <1>1 DEF TypeInv
<1> QED BY <1>1, <1>2, <1>6, <1>7, <1>8, <1>9, <1>10, <1>11, KeepsTask

\* The first of the tags is known; if there are others they are put next.
LEMMA GetStep ==
    ASSUME TypeInv, CopyInv, NEW j \in 1 .. jobs, Get(j)
    PROVE  TypeInv' /\ CopyInv'
<1>1. /\ worker[j].pc = "get" /\ Busy(worker[j])
      /\ UNCHANGED <<workerFrame, moves, dst, tasks, cancelled, faults, final>>
  BY DEF Get, Busy, BusyLabels, workerFrame, srcVars, faultVars
<1>2. PICK task \in TaskSet : task = worker[j].task
  BY <1>1, BusyFacts
<1>3. worker[j] \in BusyWorkers /\ Working(worker[j])
  BY <1>1, BusyFacts
<1>4. PICK desc \in Digests :
         /\ desc = Found(worker[j])
         /\ moves = 0 \/ task.tags = {} => desc = task.digest
  BY <1>1, <1>2, FoundFacts
<1>5. PICK w : w = [worker[j] EXCEPT !.pc = "tag", !.desc = desc,
                                     !.left = task.tags \ {worker[j].first}]
  OBVIOUS
<1>6. /\ w \in BusyWorkers /\ w.pc = "tag" /\ w.task = task /\ w.desc = desc
      /\ w.first = worker[j].first /\ w.left = task.tags \ {worker[j].first}
  BY <1>2, <1>3, <1>5 DEF BusyWorkers, BusyLabels, TaskSet
<1>7. worker' = [worker EXCEPT ![j] = w]
  BY <1>2, <1>4, <1>5 DEF Get
<1>8. Working(w)'
  BY <1>1, <1>2, <1>3, <1>4, <1>6 DEF Working
<1>9. Left(worker[j]) = Left(w)
  BY <1>1, <1>2, <1>6 DEF Left
<1>10. StoreMove
  BY <1>1, StoreQuiet
<1>11. faults' \in Nat /\ final' \in BOOLEAN /\ cancelled' \in BOOLEAN
  BY <1>1 DEF TypeInv
<1> QED BY <1>1, <1>2, <1>6, <1>7, <1>8, <1>9, <1>10, <1>11, KeepsTask

\* The image has arrived with its first tag: that may be all there is to do.
LEMMA WriteStep ==
    ASSUME TypeInv, CopyInv, NEW j \in 1 .. jobs, Write(j)
    PROVE  TypeInv' /\ CopyInv'
<1>1. /\ worker[j].pc = "write" /\ Busy(worker[j]) /\ dst' = Written(worker[j])
      /\ UNCHANGED <<workerFrame, moves, tasks, cancelled, faultVars, faults, final>>
  BY DEF Write, Busy, BusyLabels, workerFrame, srcVars, faultVars
<1>2. PICK task \in TaskSet : task = worker[j].task
  BY <1>1, BusyFacts
<1>3. PICK first : first = worker[j].first
  OBVIOUS
<1>4. worker[j] \in BusyWorkers /\ Working(worker[j])
  BY <1>1, BusyFacts
<1>5. /\ StoreMove
      /\ task.tags = {} \/ moves = 0 => task.digest \in dst'[task.repo].images
      /\ task.tags # {} => TagArrived(task.repo, task.digest, first)'
  BY <1>1, <1>2, <1>3, WrittenFacts
<1>6. Left(worker[j]) = task.tags
  BY <1>1, <1>2 DEF Left
<1>7. task.tags # {} => first \in task.tags
  BY <1>1, <1>2, <1>3, <1>4 DEF Working
<1>8. CASE Cardinality(task.tags) <= 1
  <2>1. worker' = [worker EXCEPT ![j] = Idle]
    BY <1>2, <1>8 DEF Write
  <2>2. ASSUME NEW t \in task.tags
        PROVE  t = first
    <3>1. IsFiniteSet(task.tags)
      BY GcraneAssumption, FS_Subset DEF TaskSet
    <3>2. {t, first} \subseteq task.tags
      BY <1>7, <2>2
    <3>3. Cardinality({t, first}) <= Cardinality(task.tags)
      BY <3>1, <3>2, FS_Subset
    <3>4. t # first => Cardinality({t, first}) = 2
      <4>1. IsFiniteSet({first}) /\ Cardinality({first}) = 1
        BY FS_Singleton
      <4>2. t # first => Cardinality({first} \cup {t}) = Cardinality({first}) + 1
        BY <4>1, FS_AddElement
      <4>3. {first} \cup {t} = {t, first}
        OBVIOUS
      <4> QED BY <4>1, <4>2, <4>3
    <3>5. Cardinality(task.tags) \in Nat /\ ~(2 <= Cardinality(task.tags))
      BY <1>8, <3>1, FS_CardinalityType
    <3> QED BY <3>3, <3>4, <3>5
  <2>3. \A t \in Left(worker[j]) : TagArrived(task.repo, task.digest, t)'
    BY <1>5, <1>6, <2>2
  <2> QED BY <1>1, <1>2, <1>5, <2>1, <2>3, LeavesTask
<1>9. CASE ~(Cardinality(task.tags) <= 1)
  <2>1. task.tags # {}
    BY <1>9, FS_EmptySet
  <2>2. PICK w : w = [worker[j] EXCEPT !.pc = "get"]
    OBVIOUS
  <2>3. /\ w \in BusyWorkers /\ w.pc = "get" /\ w.task = task /\ w.first = first
    BY <1>2, <1>3, <1>4, <2>2 DEF BusyWorkers, BusyLabels
  <2>4. worker' = [worker EXCEPT ![j] = w]
    BY <1>2, <1>9, <2>2 DEF Write
  <2>5. Working(w)'
    BY <1>1, <1>5, <1>7, <2>1, <2>3 DEF Working
  <2>6. Left(w) = task.tags \ {first}
    BY <2>3 DEF Left
  <2>7. \A t \in Left(worker[j]) \ Left(w) : TagArrived(task.repo, task.digest, t)'
    BY <1>5, <1>6, <2>1, <2>6
  <2>8. faults' \in Nat /\ final' \in BOOLEAN /\ cancelled' \in BOOLEAN
    BY <1>1 DEF TypeInv
  <2> QED BY <1>1, <1>2, <1>5, <2>3, <2>4, <2>5, <2>7, <2>8, KeepsTask
<1> QED BY <1>8, <1>9
\* A worker that fails keeps its task.
LEMMA WorkerFailsStep ==
    ASSUME TypeInv, CopyInv, NEW j \in 1 .. jobs, Busy(worker[j]), WorkerFails(j),
           UNCHANGED <<workerFrame, tasks>>, StoreMove, faults' \in Nat, final' \in BOOLEAN
    PROVE  TypeInv' /\ CopyInv'
<1>1. PICK task \in TaskSet : task = worker[j].task
  BY BusyFacts
<1>2. worker[j] \in BusyWorkers /\ Left(worker[j]) \subseteq task.tags
  BY <1>1, BusyFacts
<1>3. PICK w : w = [worker[j] EXCEPT !.pc = "failed"]
  OBVIOUS
<1>4. w \in BusyWorkers /\ w.pc = "failed" /\ w.task = task
  BY <1>1, <1>2, <1>3 DEF BusyWorkers, BusyLabels
<1>5. worker' = [worker EXCEPT ![j] = w] /\ cancelled' \in BOOLEAN
  BY <1>3 DEF WorkerFails
<1>6. Working(w)'
  BY <1>4 DEF Working
<1>7. Left(w) = task.tags
  BY <1>4 DEF Left
<1>8. Left(worker[j]) \ Left(w) = {}
  BY <1>2, <1>7
<1> QED BY <1>1, <1>4, <1>5, <1>6, <1>8, KeepsTask

\* A worker that tries again has all its tags to put once more.
LEMMA WorkerCallFailsStep ==
    ASSUME TypeInv, CopyInv, NEW j \in 1 .. jobs, worker[j].pc \in {"get", "tag"},
           NEW kind \in FaultKinds, WorkerCallFails(j, kind),
           UNCHANGED <<workerFrame, tasks>>, StoreMove
    PROVE  TypeInv' /\ CopyInv'
<1>1. Busy(worker[j])
  BY DEF Busy, BusyLabels
<1>2. faults' \in Nat /\ final' \in BOOLEAN
  BY DEF WorkerCallFails, Fault, TypeInv
<1>3. CASE WorkerFails(j)
  BY <1>1, <1>2, <1>3, WorkerFailsStep
<1>4. CASE ~WorkerFails(j)
  <2>1. PICK task \in TaskSet : task = worker[j].task
    BY <1>1, BusyFacts
  <2>2. worker[j] \in BusyWorkers /\ Working(worker[j]) /\ Left(worker[j]) \subseteq task.tags
    BY <1>1, <2>1, BusyFacts
  <2>3. PICK tries \in Nat : tries = worker[j].tries + 1
    BY <2>2 DEF BusyWorkers
  <2>. PICK w : w = [worker[j] EXCEPT !.pc = "fetch", !.tries = tries, !.left = {}]
    OBVIOUS
  <2>4. /\ w \in BusyWorkers /\ w.pc = "fetch" /\ w.task = task
        /\ w.first = worker[j].first
    BY <2>1, <2>2 DEF BusyWorkers, BusyLabels
  <2>5. worker' = [worker EXCEPT ![j] = w] /\ cancelled' \in BOOLEAN
    BY <1>4, <2>3 DEF WorkerCallFails, TypeInv
  <2>6. Working(w)'
    BY <2>1, <2>2, <2>4 DEF Working
  <2>7. Left(w) = task.tags
    BY <2>4 DEF Left
  <2>8. Left(worker[j]) \ Left(w) = {}
    BY <2>2, <2>7
  <2> QED BY <1>1, <1>2, <2>1, <2>4, <2>5, <2>6, <2>8, KeepsTask
<1> QED BY <1>3, <1>4

\* The tag is put, which may be the last.
LEMMA TagStep ==
    ASSUME TypeInv, CopyInv, NEW j \in 1 .. jobs, Tag(j)
    PROVE  TypeInv' /\ CopyInv'
<1>1. /\ worker[j].pc = "tag" /\ Busy(worker[j])
      /\ UNCHANGED <<workerFrame, moves, tasks, cancelled, faultVars, faults, final>>
  BY DEF Tag, Busy, BusyLabels, workerFrame, srcVars, faultVars
<1>2. PICK t \in worker[j].left :
         /\ dst' = TagPut(worker[j], t)
         /\ worker' = [worker EXCEPT ![j] =
                           IF worker[j].left = {t} THEN Idle
                           ELSE [worker[j] EXCEPT !.left = @ \ {t}]]
  BY DEF Tag
<1>3. PICK task \in TaskSet : task = worker[j].task
  BY <1>1, BusyFacts
<1>4. worker[j] \in BusyWorkers /\ Working(worker[j])
  BY <1>1, BusyFacts
<1>5. StoreMove /\ TagArrived(task.repo, task.digest, t)'
  BY <1>1, <1>2, <1>3, TagPutFacts
<1>6. Left(worker[j]) = worker[j].left /\ task.tags # {}
  BY <1>1, <1>3, <1>4 DEF Left, Working
<1>7. CASE worker[j].left = {t}
  <2>1. worker' = [worker EXCEPT ![j] = Idle]
    BY <1>2, <1>7
  <2>2. \A x \in Left(worker[j]) : TagArrived(task.repo, task.digest, x)'
    BY <1>5, <1>6, <1>7
  <2> QED BY <1>1, <1>3, <1>5, <1>6, <2>1, <2>2, LeavesTask
<1>8. CASE worker[j].left # {t}
  <2>1. PICK w : w = [worker[j] EXCEPT !.left = worker[j].left \ {t}]
    OBVIOUS
  <2>2. /\ w \in BusyWorkers /\ w.pc = "tag" /\ w.task = task
        /\ w.first = worker[j].first /\ w.desc = worker[j].desc
        /\ w.left = worker[j].left \ {t}
    BY <1>1, <1>3, <1>4, <2>1 DEF BusyWorkers, BusyLabels
  <2>3. worker' = [worker EXCEPT ![j] = w]
    BY <1>2, <1>8, <2>1
  <2>4. task.repo \in Repos /\ dst[task.repo].images \subseteq dst'[task.repo].images
    BY <1>5 DEF StoreMove, TaskSet
  <2>5. Working(w)'
    BY <1>1, <1>3, <1>4, <2>2, <2>4 DEF Working
  <2>6. \A x \in Left(worker[j]) \ Left(w) : TagArrived(task.repo, task.digest, x)'
    BY <1>5, <1>6, <2>2 DEF Left
  <2>7. faults' \in Nat /\ final' \in BOOLEAN /\ cancelled' \in BOOLEAN
    BY <1>1 DEF TypeInv
  <2> QED BY <1>1, <1>3, <1>5, <2>2, <2>3, <2>5, <2>6, <2>7, KeepsTask
<1> QED BY <1>7, <1>8

\* The calls that fail: what they wrote may be there all the same.
LEMMA CopyFailsStep ==
    ASSUME TypeInv, CopyInv, NEW j \in 1 .. jobs, CopyFails(j)
    PROVE  TypeInv' /\ CopyInv'
<1>1. /\ worker[j].pc \in {"fetch", "write"} /\ Busy(worker[j]) /\ WorkerFails(j)
      /\ UNCHANGED <<workerFrame, moves, tasks>>
      /\ faults' \in Nat /\ final' \in BOOLEAN
  BY DEF CopyFails, Busy, BusyLabels, workerFrame, srcVars, Fault, TypeInv
<1>2. CASE UNCHANGED dst
  BY <1>1, <1>2, StoreQuiet, WorkerFailsStep
<1>3. CASE worker[j].pc = "write" /\ dst' = Written(worker[j])
  <2>1. PICK task, first : task = worker[j].task /\ first = worker[j].first
    OBVIOUS
  <2>2. StoreMove
    BY <1>1, <1>3, <2>1, WrittenFacts
  <2> QED BY <1>1, <2>2, WorkerFailsStep
<1> QED BY <1>2, <1>3 DEF CopyFails

LEMMA GetFailsStep ==
    ASSUME TypeInv, CopyInv, NEW j \in 1 .. jobs, GetFails(j)
    PROVE  TypeInv' /\ CopyInv'
<1>1. PICK kind \in FaultKinds : WorkerCallFails(j, kind)
  BY DEF GetFails
<1>2. worker[j].pc \in {"get", "tag"} /\ UNCHANGED <<workerFrame, tasks>> /\ StoreMove
  BY StoreQuiet DEF GetFails
<1> QED BY <1>1, <1>2, WorkerCallFailsStep

LEMMA TagFailsStep ==
    ASSUME TypeInv, CopyInv, NEW j \in 1 .. jobs, TagFails(j)
    PROVE  TypeInv' /\ CopyInv'
<1>1. PICK kind \in FaultKinds : WorkerCallFails(j, kind)
  BY DEF TagFails
<1>2. worker[j].pc = "tag" /\ UNCHANGED <<workerFrame, moves, tasks>>
  BY DEF TagFails, workerFrame, srcVars
<1>3. PICK t \in worker[j].left : dst' \in {dst, TagPut(worker[j], t)}
  BY DEF TagFails
<1>4. PICK task : task = worker[j].task
  OBVIOUS
<1>5. CASE UNCHANGED dst
  BY <1>1, <1>2, <1>5, StoreQuiet, WorkerCallFailsStep
<1>6. CASE dst' = TagPut(worker[j], t)
  <2>1. StoreMove
    BY <1>2, <1>4, <1>6, TagPutFacts
  <2> QED BY <1>1, <1>2, <2>1, WorkerCallFailsStep
<1> QED BY <1>3, <1>5, <1>6

LEMMA TagRefusedStep ==
    ASSUME TypeInv, CopyInv, NEW j \in 1 .. jobs, TagRefused(j)
    PROVE  TypeInv' /\ CopyInv'
<1>1. /\ Busy(worker[j]) /\ WorkerFails(j) /\ UNCHANGED <<workerFrame, tasks>> /\ StoreMove
      /\ faults' \in Nat /\ final' \in BOOLEAN
  BY StoreQuiet DEF TagRefused, Busy, BusyLabels, TypeInv
<1> QED BY <1>1, WorkerFailsStep
(***************************************************************************)
(* The steps of the walker.                                                *)
(***************************************************************************)

\* No worker has left while the walker walks, and the walker leaves them as
\* they are.
LEMMA WalkerStep ==
    ASSUME TypeInv, CopyInv, UNCHANGED walkerFrame, ~WalkEnded,
           WalkInv', ListedInv', ArrivalInv',
           \A repo : Compared(repo) => Compared(repo)',
           \A task \in TaskSet : Held(task)' =>
              Held(task) \/ (Compared(task.repo)' /\ From(task.repo, task.digest, task.tags))
    PROVE  CopyInv'
<1>1. UNCHANGED <<srcTags, moves, dst, jobs, worker>>
  BY DEF walkerFrame, srcVars
<1>2. QueueInv'
  BY <1>1 DEF CopyInv, QueueInv
<1>3. TaskInv'
  BY <1>1 DEF CopyInv, TaskInv, From
<1>4. WorkInv'
  BY <1>1 DEF CopyInv, WorkInv, Working, Busy
<1>5. WholeInv'
  BY <1>1 DEF CopyInv, WholeInv
<1> QED BY <1>2, <1>3, <1>4, <1>5 DEF CopyInv

\* The walker goes on, or fails: nothing else changes.
LEMMA WalkerMoves ==
    ASSUME TypeInv, CopyInv, UNCHANGED <<walkerFrame, tasks, listed>>, ~WalkEnded, TypeInv',
           walker'.todo = walker.todo, walker'.need = walker.need, skipped \subseteq skipped',
           \/ walker'.pc = walker.pc
           \/ walker.pc = "list" /\ walker'.pc = "relist"
           \/ walker'.pc = "failed"
    PROVE  CopyInv'
<1>1. UNCHANGED <<srcTags, moves, dst, jobs, worker, Here, Todo>>
  BY DEF walkerFrame, srcVars, Here, Todo, Elems
<1>2. WalkInv'
  BY <1>1 DEF CopyInv, WalkInv
<1>3. ListedInv'
  BY <1>1 DEF CopyInv, ListedInv, From
<1>4. \A repo : Compared(repo) => Compared(repo)'
  BY <1>1 DEF Compared
<1>5. \A task : Held(task)' <=> Held(task)
  BY <1>1 DEF Held
<1>6. ArrivalInv'
  <2> SUFFICES ASSUME walker'.pc # "failed"
               PROVE  ArrivalInv'
    BY DEF ArrivalInv
  <2>1. walker.pc # "failed" /\ \A repo : Compared(repo)' <=> Compared(repo)
    BY <1>1 DEF Compared
  <2>2. /\ \A repo, digest : ImagePending(repo, digest)' <=> ImagePending(repo, digest)
        /\ \A repo, digest, t : TagPending(repo, digest, t)' <=> TagPending(repo, digest, t)
        /\ \A repo, digest, t : TagArrived(repo, digest, t)' <=> TagArrived(repo, digest, t)
    BY <1>1, <1>5 DEF ImagePending, TagPending, TagArrived
  <2> QED BY <1>1, <2>1, <2>2 DEF CopyInv, ArrivalInv
<1>7. \A task \in TaskSet : Held(task)' =>
         Held(task) \/ (Compared(task.repo)' /\ From(task.repo, task.digest, task.tags))
  <2>1. ASSUME NEW task, Held(task)'
        PROVE  Held(task)
    BY <2>1, <1>1 DEF Held, Busy
  <2> QED BY <2>1
<1>8. UNCHANGED walkerFrame
  OBVIOUS
<1> QED BY <1>2, <1>3, <1>4, <1>6, <1>7, <1>8, WalkerStep

LEMMA WalkerCallFailsStep ==
    ASSUME TypeInv, CopyInv, walker.pc \in {"relist", "diff"},
           NEW kind \in FaultKinds, WalkerCallFails(kind),
           UNCHANGED <<walkerFrame, tasks, listed, skipped>>
    PROVE  TypeInv' /\ CopyInv'
<1>1. /\ walker'.todo = walker.todo /\ walker'.need = walker.need
      /\ walker'.pc \in {walker.pc, "failed"} /\ walker'.tries \in Nat
      /\ walker' \in [pc : WalkLabels, todo : Seq(Repos), tries : Nat, need : SUBSET TaskSet]
  BY DEF WalkerCallFails, TypeInv, WalkLabels
<1>2. UNCHANGED <<srcTags, moves, dst, jobs, worker>>
  BY DEF walkerFrame, srcVars
<1>3. faults' \in Nat /\ final' \in BOOLEAN /\ cancelled' \in BOOLEAN
  <2>1. faults' \in Nat /\ final' \in BOOLEAN
    BY DEF WalkerCallFails, Fault, TypeInv
  <2>2. cancelled' \in {cancelled, TRUE} /\ cancelled \in BOOLEAN
    BY DEF WalkerCallFails, TypeInv
  <2> QED BY <2>1, <2>2
<1>4. TypeInv'
  BY <1>1, <1>2, <1>3 DEF TypeInv
<1>5. ~WalkEnded
  BY DEF WalkEnded
<1> QED BY <1>1, <1>4, <1>5, WalkerMoves

LEMMA ListFailsStep ==
    ASSUME TypeInv, CopyInv, ListFails
    PROVE  TypeInv' /\ CopyInv'
<1>1. /\ walker'.todo = walker.todo /\ walker'.need = walker.need
      /\ walker.pc = "list" /\ walker'.pc = "relist"
      /\ walker' \in [pc : WalkLabels, todo : Seq(Repos), tries : Nat, need : SUBSET TaskSet]
  BY DEF ListFails, TypeInv, WalkLabels
<1>2. UNCHANGED <<srcTags, moves, dst, jobs, worker, tasks, listed, cancelled>>
  BY DEF ListFails, walkerFrame, srcVars
<1>3. faults' \in Nat /\ final' \in BOOLEAN
  BY DEF ListFails, Fault, TypeInv
<1>4. TypeInv'
  BY <1>1, <1>2, <1>3 DEF TypeInv
<1>5. ~WalkEnded /\ UNCHANGED walkerFrame /\ skipped \subseteq skipped'
  BY <1>1 DEF ListFails, WalkEnded
<1> QED BY <1>1, <1>2, <1>4, <1>5, WalkerMoves

LEMMA QueueCancelledStep ==
    ASSUME TypeInv, CopyInv, QueueCancelled
    PROVE  TypeInv' /\ CopyInv'
<1>1. /\ walker'.todo = walker.todo /\ walker'.need = walker.need
      /\ walker.pc = "queue" /\ walker'.pc = "failed"
      /\ walker' \in [pc : WalkLabels, todo : Seq(Repos), tries : Nat, need : SUBSET TaskSet]
  BY DEF QueueCancelled, TypeInv, WalkLabels
<1>2. UNCHANGED <<srcTags, moves, dst, jobs, worker, tasks, listed, cancelled, faults, final>>
  BY DEF QueueCancelled, walkerFrame, srcVars, faultVars
<1>3. TypeInv'
  BY <1>1, <1>2 DEF TypeInv
<1>4. ~WalkEnded /\ UNCHANGED walkerFrame /\ skipped \subseteq skipped'
  BY <1>1 DEF QueueCancelled, WalkEnded
<1> QED BY <1>1, <1>2, <1>3, <1>4, WalkerMoves

\* A task that is sent is held as before.
LEMMA QueueStep ==
    ASSUME TypeInv, CopyInv, Queue
    PROVE  TypeInv' /\ CopyInv'
<1>1. PICK task \in walker.need :
         tasks' = tasks \cup {task} /\ walker' = [walker EXCEPT !.need = @ \ {task}]
  BY DEF Queue, Enqueue
<1>2. /\ walker'.todo = walker.todo /\ walker'.need = walker.need \ {task}
      /\ walker.pc = "queue" /\ walker'.pc = "queue"
      /\ walker' \in [pc : WalkLabels, todo : Seq(Repos), tries : Nat, need : SUBSET TaskSet]
  BY <1>1 DEF Queue, TypeInv, WalkLabels
<1>3. UNCHANGED <<srcTags, moves, dst, jobs, worker, listed, skipped, cancelled, faults, final,
                  Here, Todo>>
  BY <1>2 DEF Queue, Enqueue, walkerFrame, srcVars, faultVars, Here, Todo, Elems
<1>4. TypeInv'
  BY <1>1, <1>2, <1>3 DEF TypeInv
<1>5. walker'.need \cup tasks' = walker.need \cup tasks
  BY <1>1, <1>2
<1>6. WalkInv'
  BY <1>2, <1>3 DEF CopyInv, WalkInv
<1>7. ListedInv'
  BY <1>3 DEF CopyInv, ListedInv, From
<1>8. \A repo : Compared(repo)' <=> Compared(repo)
  BY <1>2, <1>3 DEF Compared
<1>9. \A x : Held(x)' <=> Held(x)
  BY <1>3, <1>5 DEF Held, Busy
<1>10. ArrivalInv'
  <2>1. /\ \A repo, digest : ImagePending(repo, digest)' <=> ImagePending(repo, digest)
        /\ \A repo, digest, t : TagPending(repo, digest, t)' <=> TagPending(repo, digest, t)
        /\ \A repo, digest, t : TagArrived(repo, digest, t)' <=> TagArrived(repo, digest, t)
    BY <1>3, <1>5, <1>9 DEF ImagePending, TagPending, TagArrived
  <2> QED BY <1>2, <1>3, <1>8, <2>1 DEF CopyInv, ArrivalInv
<1>11. ~WalkEnded /\ UNCHANGED walkerFrame
  BY <1>2 DEF Queue, Enqueue, WalkEnded
<1>12. \A x \in TaskSet : Held(x)' =>
          Held(x) \/ (Compared(x.repo)' /\ From(x.repo, x.digest, x.tags))
  <2>1. ASSUME NEW x, Held(x)'
        PROVE  Held(x)
    BY <2>1, <1>3, <1>5 DEF Held, Busy
  <2> QED BY <2>1
<1>13. \A repo : Compared(repo) => Compared(repo)'
  BY <1>8
<1> QED BY <1>4, <1>6, <1>7, <1>10, <1>11, <1>12, <1>13, WalkerStep
\* The repository has not been listed before; it is compared only later.
LEMMA ListRepoStep ==
    ASSUME TypeInv, CopyInv, ListRepo
    PROVE  TypeInv' /\ CopyInv'
<1>1. /\ walker.pc \in {"list", "relist"} /\ walker'.pc = "diff"
      /\ walker'.todo = walker.todo /\ walker'.need = walker.need
      /\ walker' \in [pc : WalkLabels, todo : Seq(Repos), tries : Nat, need : SUBSET TaskSet]
  BY DEF ListRepo, TypeInv, WalkLabels
<1>2. UNCHANGED <<srcTags, moves, dst, jobs, worker, tasks, skipped, cancelled, faults, final,
                  Here, Todo>>
  BY <1>1 DEF ListRepo, walkerFrame, srcVars, faultVars, Here, Todo, Elems
<1>3. TypeInv'
  BY <1>1, <1>2 DEF TypeInv
<1>4. PICK here \in Repos : /\ here = Here /\ here = walker.todo[1]
                            /\ 1 \in 1 .. Len(walker.todo) /\ here \in Todo
  <2>1. walker.todo \in Seq(Repos) /\ walker.todo # <<>>
    BY <1>1 DEF TypeInv
  <2>2. /\ Head(walker.todo) = walker.todo[1] /\ walker.todo[1] \in Repos
        /\ 1 \in 1 .. Len(walker.todo)
    BY <2>1
  <2> QED BY <2>2 DEF Here, Todo, Elems
<1>5. here \notin DOMAIN listed
  BY <1>1, <1>4 DEF CopyInv, WalkInv
<1>6. /\ DOMAIN listed' = DOMAIN listed \cup {here}
      /\ listed'[here] = SrcListing(here)
      /\ \A repo \in DOMAIN listed : listed'[repo] = listed[repo]
  BY <1>4, <1>5 DEF ListRepo
<1>7. WalkInv'
  <2>1. /\ \A i, k \in 1 .. Len(walker.todo) : walker.todo[i] = walker.todo[k] => i = k
        /\ DOMAIN listed' \subseteq Repos
        /\ Root \in DOMAIN listed' \cup Todo
        /\ Here \in DOMAIN listed'
    BY <1>4, <1>6 DEF CopyInv, WalkInv
  <2>2. \A i \in 1 .. Len(walker.todo) : walker.todo[i] \in DOMAIN listed' => i = 1
    BY <1>1, <1>4, <1>6 DEF CopyInv, WalkInv
  <2>3. \A parent \in Repos : \A i \in DOMAIN Below[parent] :
           Below[parent][i] \in DOMAIN listed' \cup Todo => parent \in DOMAIN listed' \ Todo
    BY <1>4, <1>6 DEF CopyInv, WalkInv
  <2>4. \A repo \in DOMAIN listed' \ (skipped \cup Todo) : \A i \in DOMAIN Below[repo] :
           Below[repo][i] \in DOMAIN listed' \cup Todo
    BY <1>4, <1>6 DEF CopyInv, WalkInv
  <2> QED BY <1>1, <1>2, <2>1, <2>2, <2>3, <2>4 DEF WalkInv
<1>8. ListedInv'
  <2> SUFFICES ASSUME NEW repo \in DOMAIN listed'
               PROVE  /\ DOMAIN listed'[repo] \subseteq Digests
                      /\ \A digest \in DOMAIN listed'[repo] :
                            From(repo, digest, listed'[repo][digest])
    BY <1>2 DEF ListedInv, From
  <2>1. CASE repo \in DOMAIN listed
    BY <1>6, <2>1 DEF CopyInv, ListedInv
  <2>2. CASE repo = here
    BY <1>6, <2>2, SourceFacts
  <2> QED BY <1>6, <2>1, <2>2
<1>9. \A repo : /\ Compared(repo)' <=> repo \in DOMAIN listed
                /\ Compared(repo) <=> repo \in DOMAIN listed
  BY <1>1, <1>2, <1>4, <1>5, <1>6 DEF Compared
<1>10. \A repo : Compared(repo) => Compared(repo)'
  BY <1>1, <1>2, <1>4, <1>5, <1>6 DEF Compared
<1>11. \A task \in TaskSet : Held(task)' =>
          Held(task) \/ (Compared(task.repo)' /\ From(task.repo, task.digest, task.tags))
  <2>1. ASSUME NEW task, Held(task)'
        PROVE  Held(task)
    BY <2>1, <1>1, <1>2 DEF Held, Busy
  <2> QED BY <2>1
<1>12. ArrivalInv'
  <2> SUFFICES ASSUME NEW repo \in DOMAIN listed, NEW digest \in DOMAIN listed[repo]
               PROVE  /\ listed[repo][digest] = {} =>
                            digest \in dst[repo].images \/ ImagePending(repo, digest)'
                      /\ \A t \in listed[repo][digest] :
                            TagArrived(repo, digest, t)' \/ TagPending(repo, digest, t)'
    BY <1>2, <1>6, <1>9 DEF ArrivalInv
  <2>1. /\ listed[repo][digest] = {} =>
              digest \in dst[repo].images \/ ImagePending(repo, digest)
        /\ \A t \in listed[repo][digest] :
              TagArrived(repo, digest, t) \/ TagPending(repo, digest, t)
    BY <1>1, <1>9 DEF CopyInv, ArrivalInv
  <2>2. /\ ImagePending(repo, digest) => ImagePending(repo, digest)'
        /\ \A t : TagPending(repo, digest, t) => TagPending(repo, digest, t)'
        /\ \A t : TagArrived(repo, digest, t) => TagArrived(repo, digest, t)'
    BY <1>1, <1>2 DEF ImagePending, Held, TagPending, TagArrived
  <2> QED BY <2>1, <2>2
<1>13. ~WalkEnded /\ UNCHANGED walkerFrame
  BY <1>1 DEF ListRepo, WalkEnded
<1> QED BY <1>3, <1>7, <1>8, <1>10, <1>11, <1>12, <1>13, WalkerStep
\* The walk goes down to the children of the repository, which it has not
\* seen before.
LEMMA NextRepoStep ==
    ASSUME TypeInv, CopyInv, NextRepo
    PROVE  TypeInv' /\ CopyInv'
<1>1. PICK here \in Repos : /\ here = Here /\ here = walker.todo[1]
                            /\ 1 \in 1 .. Len(walker.todo) /\ here \in Todo
  <2>1. walker.todo \in Seq(Repos) /\ walker.todo # <<>>
    BY DEF NextRepo, TypeInv
  <2>2. /\ Head(walker.todo) = walker.todo[1] /\ walker.todo[1] \in Repos
        /\ 1 \in 1 .. Len(walker.todo)
    BY <2>1
  <2> QED BY <2>2 DEF Here, Todo, Elems
<1>2. PICK children \in Seq(Repos) :
         children = IF here \in skipped THEN <<>> ELSE Below[here]
  <2>1. <<>> \in Seq(Repos) /\ Below[here] \in Seq(Repos)
    BY GcraneAssumption
  <2> QED BY <2>1
<1>3. /\ \A i, k \in 1 .. Len(children) : children[i] = children[k] => i = k
      /\ \A i \in 1 .. Len(children) : i \in DOMAIN Below[here] /\ children[i] = Below[here][i]
      /\ here \notin skipped => \A i \in DOMAIN Below[here] : Below[here][i] \in Elems(children)
  <2>1. DOMAIN Below[here] = 1 .. Len(Below[here])
    BY GcraneAssumption
  <2>2. CASE here \in skipped
    <3>1. children = <<>> /\ Len(<<>>) = 0 /\ 1 .. 0 = {}
      BY <1>2, <2>2
    <3> QED BY <2>2, <3>1
  <2>3. CASE here \notin skipped
    <3>1. children = Below[here]
      BY <1>2, <2>3
    <3>2. \A i \in DOMAIN Below[here] : \A k \in DOMAIN Below[here] :
             Below[here][k] = Below[here][i] => k = i
      BY GcraneAssumption
    <3> QED BY <2>1, <3>1, <3>2 DEF Elems
  <2> QED BY <2>2, <2>3
<1>4. ASSUME NEW child \in Elems(children)
      PROVE  /\ child \in Repos /\ child \notin DOMAIN listed \cup Todo
             /\ \A parent \in Repos : \A i \in DOMAIN Below[parent] :
                   Below[parent][i] = child => parent = here
  <2>1. PICK k \in 1 .. Len(children) : child = children[k]
    BY <1>4 DEF Elems
  <2>2. k \in DOMAIN Below[here] /\ child = Below[here][k]
    BY <1>3, <2>1
  <2>3. child \notin DOMAIN listed \cup Todo
    BY <1>1, <2>2 DEF CopyInv, WalkInv
  <2>4. \A parent \in Repos : \A i \in DOMAIN Below[parent] :
           Below[parent][i] = child => parent = here
    BY <2>2, GcraneAssumption
  <2>5. child \in Repos
    BY <1>2, <2>1
  <2> QED BY <2>3, <2>4, <2>5
<1>5. PICK todo : todo = children \o Tail(walker.todo)
  OBVIOUS
<1>6. /\ todo \in Seq(Repos)
      /\ \A i, k \in 1 .. Len(todo) : todo[i] = todo[k] => i = k
      /\ Elems(todo) = Elems(children) \cup (Todo \ {here})
  <2>1. PICK s \in Seq(Repos) : s = walker.todo /\ s # <<>>
    BY DEF NextRepo, TypeInv
  <2>2. Distinct(s)
    BY <2>1 DEF CopyInv, WalkInv, Distinct
  <2>3. Distinct(children)
    BY <1>3 DEF Distinct
  <2>4. here = Head(s) /\ Todo = Elems(s) /\ todo = children \o Tail(s)
    BY <1>1, <1>5, <2>1 DEF Here, Todo
  <2>5. Elems(children) \cap Elems(s) = {}
    BY <1>4, <2>4
  <2>6. /\ todo \in Seq(Repos) /\ Distinct(todo)
        /\ Elems(todo) = Elems(children) \cup (Elems(s) \ {Head(s)})
    BY <2>1, <2>2, <2>3, <2>4, <2>5, TodoFacts
  <2> QED BY <2>4, <2>6 DEF Distinct
<1>7. /\ walker.pc = "queue" /\ walker.need = {} /\ walker'.need = {}
      /\ walker'.todo = todo /\ walker'.pc = (IF todo = <<>> THEN "ok" ELSE "list")
      /\ walker' \in [pc : WalkLabels, todo : Seq(Repos), tries : Nat, need : SUBSET TaskSet]
  <2>1. walker' = [walker EXCEPT !.todo = todo, !.pc = IF todo = <<>> THEN "ok" ELSE "list"]
    BY <1>1, <1>2, <1>5 DEF NextRepo, Here
  <2> QED BY <1>6, <2>1 DEF NextRepo, TypeInv, WalkLabels
<1>8. UNCHANGED <<srcTags, moves, dst, jobs, worker, tasks, listed, skipped, cancelled,
                  faults, final>>
  BY DEF NextRepo, walkerFrame, srcVars, faultVars
<1>9. TypeInv'
  BY <1>7, <1>8 DEF TypeInv
<1>10. Todo' = Elems(todo)
  BY <1>7 DEF Todo, Elems
<1>11. \A i \in 1 .. Len(todo) : todo[i] \notin DOMAIN listed
  <2> SUFFICES ASSUME NEW i \in 1 .. Len(todo), todo[i] \in DOMAIN listed
               PROVE  FALSE
    OBVIOUS
  <2>1. todo[i] \in Elems(todo)
    BY DEF Elems
  <2>2. todo[i] \in Todo \ {here}
    BY <1>4, <1>6, <2>1
  <2>3. PICK k \in 1 .. Len(walker.todo) : todo[i] = walker.todo[k]
    BY <2>2 DEF Todo, Elems
  <2>4. k = 1
    BY <2>3 DEF CopyInv, WalkInv
  <2> QED BY <1>1, <2>2, <2>3, <2>4
<1>12. here \in DOMAIN listed
  BY <1>1, <1>7 DEF CopyInv, WalkInv
<1>13. WalkInv'
  <2>1. Root \in DOMAIN listed \cup Todo'
    BY <1>6, <1>10, <1>12 DEF CopyInv, WalkInv
  <2>2. ASSUME NEW parent \in Repos, NEW i \in DOMAIN Below[parent],
               Below[parent][i] \in DOMAIN listed \cup Todo'
        PROVE  parent \in DOMAIN listed \ Todo'
    <3>1. CASE Below[parent][i] \in Elems(children)
      <4>1. parent = here /\ here \notin Elems(children)
        BY <1>1, <1>4, <2>2, <3>1
      <4> QED BY <1>6, <1>10, <1>12, <4>1
    <3>2. CASE Below[parent][i] \in DOMAIN listed \cup Todo
      <4>1. parent \in DOMAIN listed \ Todo
        BY <2>2, <3>2 DEF CopyInv, WalkInv
      <4> QED BY <1>4, <1>6, <1>10, <4>1
    <3> QED BY <1>6, <1>10, <2>2, <3>1, <3>2
  <2>3. ASSUME NEW repo \in DOMAIN listed \ (skipped \cup Todo'), NEW i \in DOMAIN Below[repo]
        PROVE  Below[repo][i] \in DOMAIN listed \cup Todo'
    <3>1. CASE repo \in Todo
      <4>1. repo = here /\ here \notin skipped
        BY <1>6, <1>10, <2>3, <3>1
      <4>2. Below[repo][i] \in Elems(children)
        BY <1>3, <2>3, <4>1
      <4> QED BY <1>6, <1>10, <4>2
    <3>2. CASE repo \notin Todo
      <4>1. Below[repo][i] \in DOMAIN listed \cup Todo
        BY <2>3, <3>2 DEF CopyInv, WalkInv
      <4> QED BY <1>6, <1>10, <1>12, <4>1
    <3> QED BY <3>1, <3>2
  <2>4. DOMAIN listed \subseteq Repos
    BY DEF CopyInv, WalkInv
  <2>5. walker'.pc \notin {"diff", "queue"}
    BY <1>7
  <2> QED BY <1>6, <1>7, <1>8, <1>11, <2>1, <2>2, <2>3, <2>4, <2>5 DEF WalkInv
<1>14. ListedInv'
  BY <1>8 DEF CopyInv, ListedInv, From
<1>15. \A repo : Compared(repo)' <=> Compared(repo)
  BY <1>7, <1>8 DEF Compared
<1>16. \A repo : Compared(repo) => Compared(repo)'
  BY <1>15
<1>17. \A task \in TaskSet : Held(task)' =>
          Held(task) \/ (Compared(task.repo)' /\ From(task.repo, task.digest, task.tags))
  <2>1. ASSUME NEW task, Held(task)'
        PROVE  Held(task)
    BY <1>7, <1>8, <2>1 DEF Held, Busy
  <2> QED BY <2>1
<1>18. ArrivalInv'
  <2>1. /\ \A repo, digest : ImagePending(repo, digest)' <=> ImagePending(repo, digest)
        /\ \A repo, digest, t : TagPending(repo, digest, t)' <=> TagPending(repo, digest, t)
        /\ \A repo, digest, t : TagArrived(repo, digest, t)' <=> TagArrived(repo, digest, t)
    BY <1>7, <1>8 DEF ImagePending, Held, TagPending, TagArrived
  <2> QED BY <1>7, <1>8, <1>15, <2>1 DEF CopyInv, ArrivalInv
<1>19. ~WalkEnded /\ UNCHANGED walkerFrame
  BY <1>7 DEF NextRepo, WalkEnded
<1> QED BY <1>9, <1>13, <1>14, <1>16, <1>17, <1>18, <1>19, WalkerStep
\* What the comparison asks for is what the destination does not have.
LEMMA DiffRepoStep ==
    ASSUME TypeInv, CopyInv, DiffRepo
    PROVE  TypeInv' /\ CopyInv'
<1>1. PICK here \in Repos : here = Here /\ here \in DOMAIN listed
  <2>1. walker.pc = "diff" /\ walker.todo \in Seq(Repos) /\ walker.todo # <<>>
    BY DEF DiffRepo, TypeInv
  <2>2. Head(walker.todo) \in Repos
    BY <2>1
  <2> QED BY <2>1, <2>2 DEF Here, CopyInv, WalkInv
<1>2. PICK want : want = listed[here]
  OBVIOUS
<1>3. PICK have : have = DstListing(here)
  OBVIOUS
<1>4. /\ DOMAIN want \subseteq Digests
      /\ \A digest \in DOMAIN want : From(here, digest, want[digest])
      /\ DOMAIN SrcTags[here] \subseteq Tags
  BY <1>1, <1>2, SourceFacts DEF CopyInv, ListedInv
<1>5. \A digest \in DOMAIN have :
         /\ digest \in dst[here].images
         /\ \A t \in have[digest] : t \in DOMAIN dst[here].tags /\ dst[here].tags[t] = digest
  <2>1. \A t \in DOMAIN dst[here].tags : dst[here].tags[t] \in dst[here].images
    BY <1>1 DEF DiffRepo, CopyInv, WholeInv, Compared
  <2> QED BY <1>3, <2>1 DEF DstListing, Listing, TagsOf
<1>6. PICK need : need = Tasks(here, DiffImages(want, have))
  OBVIOUS
<1>7. ASSUME NEW task \in need
      PROVE  /\ task \in TaskSet /\ task.repo = here
             /\ From(task.repo, task.digest, task.tags)
  <2>1. PICK n \in DiffImages(want, have) :
           task = [repo |-> here, digest |-> n[1], tags |-> n[2]]
    BY <1>6, <1>7 DEF Tasks
  <2>2. PICK digest \in DOMAIN want :
           n = <<digest, want[digest]>> \/ n = <<digest, want[digest] \ have[digest]>>
    BY <2>1 DEF DiffImages, Whole
  <2>3. PICK tags \in SUBSET want[digest] :
           task = [repo |-> here, digest |-> digest, tags |-> tags]
    <3>1. CASE n = <<digest, want[digest]>>
      BY <2>1, <3>1
    <3>2. CASE n = <<digest, want[digest] \ have[digest]>>
      BY <2>1, <3>2
    <3> QED BY <2>2, <3>1, <3>2
  <2>4. From(here, digest, tags) /\ tags \subseteq Tags
    BY <1>4, <2>3 DEF From
  <2> QED BY <1>4, <2>3, <2>4 DEF TaskSet
<1>8. ASSUME NEW digest \in DOMAIN want
      PROVE  /\ want[digest] = {} =>
                   \/ digest \in dst[here].images
                   \/ [repo |-> here, digest |-> digest, tags |-> {}] \in need
             /\ \A t \in want[digest] :
                   \/ digest \in dst[here].images /\ t \in DOMAIN dst[here].tags
                      /\ dst[here].tags[t] = digest
                   \/ \E task \in need : task.repo = here /\ task.digest = digest /\ t \in task.tags
  <2>1. CASE digest \notin DOMAIN have
    <3>1. <<digest, want[digest]>> \in DiffImages(want, have)
      BY <1>8, <2>1 DEF DiffImages, Whole
    <3>2. [repo |-> here, digest |-> digest, tags |-> want[digest]] \in need
      BY <1>6, <3>1 DEF Tasks
    <3> QED BY <3>2
  <2>2. CASE digest \in DOMAIN have /\ want[digest] \subseteq have[digest]
    BY <1>5, <2>2
  <2>3. CASE digest \in DOMAIN have /\ ~(want[digest] \subseteq have[digest])
    <3>1. PICK tags : tags = want[digest] \ have[digest]
      OBVIOUS
    <3>2. <<digest, tags>> \in DiffImages(want, have)
      BY <1>8, <2>3, <3>1 DEF DiffImages
    <3>3. [repo |-> here, digest |-> digest, tags |-> tags] \in need
      BY <1>6, <3>2 DEF Tasks
    <3> QED BY <1>5, <2>3, <3>1, <3>3
  <2> QED BY <2>1, <2>2, <2>3
<1>9. /\ walker.pc = "diff" /\ walker.need = {} /\ walker'.need = need
      /\ walker'.todo = walker.todo /\ walker'.pc = "queue"
      /\ walker' \in [pc : WalkLabels, todo : Seq(Repos), tries : Nat, need : SUBSET TaskSet]
  <2>1. walker' = [walker EXCEPT !.pc = "queue", !.tries = 0, !.need = need]
    BY <1>1, <1>2, <1>3, <1>6 DEF DiffRepo
  <2>2. need \in SUBSET TaskSet
    BY <1>7
  <2>3. /\ walker \in [pc : WalkLabels, todo : Seq(Repos), tries : Nat, need : SUBSET TaskSet]
        /\ walker.pc = "diff" /\ walker.need = {}
    BY DEF DiffRepo, TypeInv
  <2> QED BY <2>1, <2>2, <2>3 DEF WalkLabels
<1>10. UNCHANGED <<srcTags, moves, dst, jobs, worker, tasks, listed, skipped, cancelled,
                   faults, final, Here, Todo>>
  BY <1>9 DEF DiffRepo, walkerFrame, srcVars, faultVars, Here, Todo
<1>11. TypeInv'
  BY <1>9, <1>10 DEF TypeInv
<1>12. WalkInv'
  BY <1>9, <1>10 DEF CopyInv, WalkInv
<1>13. ListedInv'
  BY <1>10 DEF CopyInv, ListedInv, From
<1>14. \A repo : Compared(repo)' <=> Compared(repo) \/ repo = here
  BY <1>1, <1>9, <1>10 DEF Compared
<1>15. \A repo : Compared(repo) => Compared(repo)'
  BY <1>14
<1>16. \A task \in TaskSet : Held(task)' =>
          Held(task) \/ (Compared(task.repo)' /\ From(task.repo, task.digest, task.tags))
  <2>1. ASSUME NEW task \in TaskSet, Held(task)', task \notin need
        PROVE  Held(task)
    BY <1>9, <1>10, <2>1 DEF Held, Busy
  <2>2. ASSUME NEW task \in need
        PROVE  Compared(task.repo)' /\ From(task.repo, task.digest, task.tags)
    <3>1. PICK repo : repo = task.repo
      OBVIOUS
    <3>2. Compared(repo)' /\ From(task.repo, task.digest, task.tags)
      BY <1>7, <1>14, <2>2, <3>1
    <3> QED BY <3>1, <3>2
  <2> QED BY <2>1, <2>2
<1>17. ArrivalInv'
  <2> SUFFICES ASSUME NEW repo \in DOMAIN listed, Compared(repo) \/ repo = here,
                      NEW digest \in DOMAIN listed[repo]
               PROVE  /\ listed[repo][digest] = {} =>
                            digest \in dst[repo].images \/ ImagePending(repo, digest)'
                      /\ \A t \in listed[repo][digest] :
                            TagArrived(repo, digest, t)' \/ TagPending(repo, digest, t)'
    BY <1>10, <1>14 DEF ArrivalInv
  <2>1. CASE repo = here
    <3>1. \A task \in need : Held(task)'
      BY <1>9 DEF Held
    <3>2. listed[repo][digest] = {} =>
             digest \in dst[repo].images \/ ImagePending(repo, digest)'
      BY <1>2, <1>8, <2>1, <3>1 DEF ImagePending
    <3>3. ASSUME NEW t \in listed[repo][digest]
          PROVE  TagArrived(repo, digest, t)' \/ TagPending(repo, digest, t)'
      <4>1. CASE /\ digest \in dst[here].images /\ t \in DOMAIN dst[here].tags
                 /\ dst[here].tags[t] = digest
        BY <1>10, <2>1, <4>1 DEF TagArrived
      <4>2. CASE \E task \in need :
                    task.repo = here /\ task.digest = digest /\ t \in task.tags
        BY <1>9, <2>1, <4>2 DEF TagPending
      <4>3. digest \in DOMAIN want /\ t \in want[digest]
        BY <1>2, <2>1, <3>3
      <4> QED BY <1>8, <4>1, <4>2, <4>3
    <3> QED BY <3>2, <3>3
  <2>2. CASE Compared(repo)
    <3>1. /\ listed[repo][digest] = {} =>
                digest \in dst[repo].images \/ ImagePending(repo, digest)
          /\ \A t \in listed[repo][digest] :
                TagArrived(repo, digest, t) \/ TagPending(repo, digest, t)
      BY <1>9, <2>2 DEF CopyInv, ArrivalInv
    <3>2. /\ ImagePending(repo, digest) => ImagePending(repo, digest)'
          /\ \A t : TagPending(repo, digest, t) => TagPending(repo, digest, t)'
          /\ \A t : TagArrived(repo, digest, t) => TagArrived(repo, digest, t)'
      BY <1>9, <1>10 DEF ImagePending, Held, TagPending, TagArrived
    <3> QED BY <3>1, <3>2
  <2> QED BY <2>1, <2>2
<1>18. ~WalkEnded /\ UNCHANGED walkerFrame
  BY <1>9 DEF DiffRepo, WalkEnded
<1> QED BY <1>11, <1>12, <1>13, <1>15, <1>16, <1>17, <1>18, WalkerStep
(***************************************************************************)
(* The invariant.                                                          *)
(***************************************************************************)

LEMMA InitIInv ==
    ASSUME Init
    PROVE  IInv
<1>1. jobs \in Nat \ {0} /\ Steps \in Nat \ {0}
  BY GcraneAssumption DEF Init
<1>2. /\ walker = [pc |-> "list", todo |-> <<Root>>, tries |-> 0, need |-> {}]
      /\ listed = <<>> /\ DOMAIN listed = {} /\ skipped = {} /\ tasks = {} /\ moves = 0
      /\ faults = 0 /\ final = FALSE /\ cancelled = FALSE
      /\ srcTags = SrcTags
  <2>1. DOMAIN <<>> = {}
    OBVIOUS
  <2> QED BY <2>1 DEF Init
<1>3. /\ worker = [j \in 1 .. jobs |-> Idle] /\ Idle \in WorkerStates
      /\ \A j \in 1 .. jobs : worker[j].pc = "idle"
  BY DEF Init, Idle, WorkerStates
<1>4. <<Root>> \in Seq(Repos) /\ <<Root>> # <<>> /\ Len(<<Root>>) = 1 /\ <<Root>>[1] = Root
  <2>1. Root \in Repos
    BY GcraneAssumption
  <2> QED BY <2>1
<1>5. dst \in [Repos -> Stores] /\ \A repo \in Repos :
         dst[repo].images = DstImages[repo] /\ dst[repo].tags = DstTags[repo]
  BY GcraneAssumption DEF Init, Stores
<1>6. TypeInv
  <2>1. walker \in [pc : WalkLabels, todo : Seq(Repos), tries : Nat, need : SUBSET TaskSet]
    BY <1>2, <1>4 DEF WalkLabels
  <2>2. srcTags \in [Repos -> Tagging]
    BY <1>2, GcraneAssumption
  <2> QED BY <1>1, <1>2, <1>3, <1>4, <1>5, <2>1, <2>2 DEF TypeInv
<1>7. RetryInv
  BY <1>2, <1>3 DEF RetryInv, BusyLabels, Failed
<1>8. QueueInv /\ WorkInv
  BY <1>3 DEF QueueInv, WorkInv, Busy, BusyLabels
<1>9. Todo = {Root}
  BY <1>2, <1>4 DEF Todo, Elems
<1>10. WalkInv
  <2>1. \A i, k \in 1 .. Len(walker.todo) : walker.todo[i] = walker.todo[k] => i = k
    BY <1>2, <1>4
  <2>2. \A parent \in Repos : \A i \in DOMAIN Below[parent] : Below[parent][i] # Root
    BY GcraneAssumption
  <2> QED BY <1>2, <1>9, <2>1, <2>2 DEF WalkInv
<1>11. ListedInv /\ ArrivalInv
  BY <1>2 DEF ListedInv, ArrivalInv
<1>12. TaskInv
  BY <1>2, <1>3 DEF TaskInv, Held, Busy, BusyLabels
<1>13. WholeInv
  BY <1>5, GcraneAssumption DEF WholeInv
<1> QED BY <1>6, <1>7, <1>8, <1>10, <1>11, <1>12, <1>13 DEF IInv, CopyInv

\* Once a tag has moved the invariant asks for less.
LEMMA MoveTagStep ==
    ASSUME TypeInv, CopyInv, MoveTag
    PROVE  TypeInv' /\ CopyInv'
<1>1. UNCHANGED <<dst, jobs, walker, listed, skipped, tasks, worker, cancelled, faults, final,
                  Here, Todo>>
  BY DEF MoveTag, walkVars, faultVars, Here, Todo
<1>2. moves' \in Nat /\ moves' # 0
  BY DEF MoveTag, TypeInv
<1>3. /\ srcTags' \in [Repos -> Tagging]
      /\ \A repo \in Repos : DOMAIN srcTags'[repo] = DOMAIN srcTags[repo]
  <2>1. PICK repo \in Moving : \E t \in DOMAIN srcTags[repo], digest \in Digests :
           srcTags' = [srcTags EXCEPT ![repo][t] = digest]
    BY DEF MoveTag
  <2>2. PICK t \in DOMAIN srcTags[repo], digest \in Digests :
           srcTags' = [srcTags EXCEPT ![repo][t] = digest]
    BY <2>1
  <2>3. repo \in Repos /\ srcTags \in [Repos -> Tagging]
    BY GcraneAssumption DEF TypeInv
  <2>4. PICK tags : tags = [srcTags[repo] EXCEPT ![t] = digest]
    OBVIOUS
  <2>5. srcTags' = [srcTags EXCEPT ![repo] = tags]
    BY <2>2, <2>4
  <2>6. tags \in Tagging /\ DOMAIN tags = DOMAIN srcTags[repo]
    <3>1. /\ DOMAIN srcTags[repo] \subseteq Tags
          /\ srcTags[repo] \in [DOMAIN srcTags[repo] -> Digests]
      BY <2>3, TaggingFacts
    <3>2. tags \in [DOMAIN srcTags[repo] -> Digests]
      BY <2>4, <3>1
    <3> QED BY <3>1, <3>2, TaggingFacts
  <2> QED BY <2>3, <2>5, <2>6
<1>4. TypeInv'
  BY <1>1, <1>2, <1>3 DEF TypeInv
<1>5. QueueInv' /\ WalkInv'
  BY <1>1 DEF CopyInv, QueueInv, WalkInv, WalkEnded
<1>6. ListedInv'
  BY <1>1, <1>2 DEF CopyInv, ListedInv, From
<1>7. \A repo : Compared(repo)' <=> Compared(repo)
  BY <1>1 DEF Compared
<1>8. TaskInv'
  <2> SUFFICES ASSUME NEW task \in TaskSet, Held(task)'
               PROVE  Compared(task.repo)' /\ From(task.repo, task.digest, task.tags)'
    BY DEF TaskInv
  <2>1. Held(task)
    BY <1>1 DEF Held, Busy
  <2>2. Compared(task.repo) /\ task.tags \subseteq DOMAIN SrcTags[task.repo]
    BY <2>1 DEF CopyInv, TaskInv, From
  <2>3. PICK repo : repo = task.repo
    OBVIOUS
  <2>4. Compared(repo)'
    BY <1>7, <2>2, <2>3
  <2> QED BY <1>2, <2>2, <2>3, <2>4 DEF From
<1>9. WorkInv'
  BY <1>1, <1>2 DEF CopyInv, WorkInv, Working, Busy
<1>10. WholeInv'
  BY <1>1, <1>2, <1>7 DEF CopyInv, WholeInv
<1>11. ArrivalInv'
  <2>1. /\ \A repo, digest : ImagePending(repo, digest)' <=> ImagePending(repo, digest)
        /\ \A repo, digest, t : TagPending(repo, digest, t)' <=> TagPending(repo, digest, t)
        /\ \A repo, digest, t : TagArrived(repo, digest, t) => TagArrived(repo, digest, t)'
    BY <1>1, <1>2 DEF ImagePending, Held, TagPending, TagArrived
  <2> QED BY <1>1, <1>7, <2>1 DEF CopyInv, ArrivalInv
<1> QED BY <1>4, <1>5, <1>6, <1>8, <1>9, <1>10, <1>11 DEF CopyInv

LEMMA CopyNext ==
    ASSUME TypeInv, CopyInv, [Next]_vars
    PROVE  TypeInv' /\ CopyInv'
<1>1. CASE MoveTag
  BY <1>1, MoveTagStep
<1>2. CASE Walk
  <2>1. CASE ListRepo
    BY <2>1, ListRepoStep
  <2>2. CASE ListFails
    BY <2>2, ListFailsStep
  <2>3. CASE RelistFails
    BY <2>3, WalkerCallFailsStep DEF RelistFails
  <2>4. CASE DiffRepo
    BY <2>4, DiffRepoStep
  <2>5. CASE DiffFails
    BY <2>5, WalkerCallFailsStep DEF DiffFails
  <2>6. CASE Queue
    BY <2>6, QueueStep
  <2>7. CASE QueueCancelled
    BY <2>7, QueueCancelledStep
  <2>8. CASE NextRepo
    BY <2>8, NextRepoStep
  <2> QED BY <1>2, <2>1, <2>2, <2>3, <2>4, <2>5, <2>6, <2>7, <2>8 DEF Walk
<1>3. ASSUME NEW j \in 1 .. jobs, Work(j)
      PROVE  TypeInv' /\ CopyInv'
  <2>1. CASE Take(j)
    BY <2>1, TakeStep
  <2>2. CASE Finish(j)
    BY <2>2, FinishStep
  <2>3. CASE Fetch(j)
    BY <2>3, FetchStep
  <2>4. CASE Write(j)
    BY <2>4, WriteStep
  <2>5. CASE CopyFails(j)
    BY <2>5, CopyFailsStep
  <2>6. CASE Get(j)
    BY <2>6, GetStep
  <2>7. CASE GetFails(j)
    BY <2>7, GetFailsStep
  <2>8. CASE Tag(j)
    BY <2>8, TagStep
  <2>9. CASE TagFails(j)
    BY <2>9, TagFailsStep
  <2>10. CASE TagRefused(j)
    BY <2>10, TagRefusedStep
  <2> QED BY <1>3, <2>1, <2>2, <2>3, <2>4, <2>5, <2>6, <2>7, <2>8, <2>9, <2>10 DEF Work
<1>4. CASE UNCHANGED vars
  <2>1. UNCHANGED <<srcTags, moves, dst, jobs, walker, listed, skipped, tasks, worker,
                    cancelled, faults, final>>
    BY <1>4 DEF vars, srcVars, walkVars, faultVars
  <2>2. TypeInv'
    BY <2>1 DEF TypeInv
  <2>3. QueueInv' /\ ListedInv' /\ WorkInv' /\ WholeInv'
    BY <2>1 DEF CopyInv, QueueInv, WalkEnded, ListedInv, From, WorkInv, Working, Busy,
                WholeInv, Compared, Here
  <2>4. WalkInv'
    BY <2>1 DEF CopyInv, WalkInv, Todo, Here
  <2>5. TaskInv' /\ ArrivalInv'
    BY <2>1 DEF CopyInv, TaskInv, Held, Busy, From, Compared, Here, ArrivalInv, ImagePending,
                TagPending, TagArrived
  <2> QED BY <2>2, <2>3, <2>4, <2>5 DEF CopyInv
<1> QED BY <1>1, <1>2, <1>3, <1>4 DEF Next, Run
\* Who gives up has been told that there is no use, or has failed as often
\* as GCRBackoff allows.
LEMMA RetryNext ==
    ASSUME TypeInv, RetryInv, [Next]_vars
    PROVE  RetryInv'
<1>1. /\ faults \in Nat /\ walker.tries \in Nat /\ Steps \in Nat
      /\ walker.tries <= faults
      /\ cancelled \/ Failed => final \/ faults >= Steps
  BY GcraneAssumption DEF TypeInv, RetryInv
<1>2. ASSUME NEW j \in 1 .. jobs
      PROVE  /\ worker[j].pc \in BusyLabels => worker[j].tries \in Nat /\ worker[j].tries <= faults
             /\ worker[j].pc \in BusyLabels \cup {"idle", "ok"}
  BY <1>2 DEF TypeInv, RetryInv, WorkerStates, BusyWorkers, BusyLabels
<1>3. ASSUME UNCHANGED <<jobs, faults, final>>, walker'.tries \in {walker.tries, 0},
             \A j \in 1 .. jobs : worker'[j].pc \in BusyLabels =>
                \/ worker'[j].tries = 0
                \/ worker[j].pc \in BusyLabels /\ worker'[j].tries = worker[j].tries,
             cancelled' \/ Failed' => cancelled \/ Failed
      PROVE  RetryInv'
  <2>1. walker'.tries <= faults'
    BY <1>1, <1>3
  <2>2. \A j \in 1 .. jobs' : worker'[j].pc \in BusyLabels => worker'[j].tries <= faults'
    BY <1>1, <1>2, <1>3
  <2>3. cancelled' \/ Failed' => final' \/ faults' >= Steps
    BY <1>1, <1>3
  <2> QED BY <2>1, <2>2, <2>3 DEF RetryInv
<1>4. CASE MoveTag
  <2>1. UNCHANGED <<jobs, walker, worker, cancelled, faults, final>>
    BY <1>4 DEF MoveTag, walkVars, faultVars
  <2> QED BY <1>3, <2>1 DEF Failed
<1>5. CASE ListRepo \/ DiffRepo \/ Queue \/ QueueCancelled \/ NextRepo
  <2>1. UNCHANGED <<jobs, worker, cancelled, faults, final>>
    BY <1>5 DEF ListRepo, DiffRepo, Queue, Enqueue, QueueCancelled, NextRepo, walkerFrame,
                faultVars
  <2>2. /\ walker'.tries \in {walker.tries, 0}
        /\ walker'.pc = "failed" => cancelled
    BY <1>5 DEF ListRepo, DiffRepo, Queue, Enqueue, QueueCancelled, NextRepo, TypeInv
  <2> QED BY <1>3, <2>1, <2>2 DEF Failed
<1>6. CASE ListFails
  <2>1. /\ UNCHANGED <<jobs, worker, cancelled>> /\ faults' = faults + 1
        /\ final' = final \/ final' = TRUE
        /\ walker'.tries = walker.tries /\ walker'.pc = "relist"
    BY <1>6 DEF ListFails, walkerFrame, Fault, TypeInv
  <2>2. final => final'
    BY <1>6 DEF ListFails, Fault
  <2>3. Failed' => Failed
    BY <2>1 DEF Failed
  <2>4. \A j \in 1 .. jobs' : worker'[j].pc \in BusyLabels => worker'[j].tries <= faults'
    BY <1>1, <1>2, <2>1
  <2>5. cancelled' \/ Failed' => final' \/ faults' >= Steps
    BY <1>1, <2>1, <2>2, <2>3
  <2> QED BY <1>1, <2>1, <2>4, <2>5 DEF RetryInv
<1>7. ASSUME NEW kind \in FaultKinds, WalkerCallFails(kind), UNCHANGED walkerFrame
      PROVE  RetryInv'
  <2>1. UNCHANGED <<jobs, worker>> /\ faults' = faults + 1
    BY <1>7 DEF walkerFrame, WalkerCallFails, Fault
  <2>2. (final => final') /\ (kind = "final" => final')
    BY <1>7 DEF WalkerCallFails, Fault
  <2>3. \A j \in 1 .. jobs' : worker'[j].pc \in BusyLabels => worker'[j].tries <= faults'
    BY <1>1, <1>2, <2>1
  <2>4. CASE TriedAgain(kind, walker.tries)
    <3>1. /\ walker'.tries = walker.tries + 1 /\ walker'.pc = walker.pc
          /\ UNCHANGED cancelled
      BY <1>7, <2>4 DEF WalkerCallFails, TypeInv
    <3>2. Failed' => Failed
      BY <2>1, <3>1 DEF Failed
    <3>3. cancelled' \/ Failed' => final' \/ faults' >= Steps
      BY <1>1, <2>1, <2>2, <3>1, <3>2
    <3> QED BY <1>1, <2>1, <2>3, <3>1, <3>3 DEF RetryInv
  <2>5. CASE ~TriedAgain(kind, walker.tries)
    <3>1. walker'.tries = walker.tries
      BY <1>7, <2>5 DEF WalkerCallFails, TypeInv
    <3>2. final' \/ faults' >= Steps
      BY <1>1, <2>1, <2>2, <2>5 DEF TriedAgain, FaultKinds
    <3> QED BY <1>1, <2>1, <2>3, <3>1, <3>2 DEF RetryInv
  <2> QED BY <2>4, <2>5
<1>8. ASSUME NEW j \in 1 .. jobs, Take(j) \/ Finish(j) \/ Fetch(j) \/ Write(j) \/ Get(j) \/ Tag(j)
      PROVE  RetryInv'
  <2>1. UNCHANGED <<jobs, walker, cancelled, faults, final>>
    BY <1>8 DEF Take, Finish, Fetch, Write, Get, Tag, workerFrame, walkVars, faultVars
  <2>2. \A i \in 1 .. jobs : i # j => worker'[i] = worker[i]
    BY <1>8 DEF Take, Finish, Fetch, Write, Get, Tag, TypeInv
  <2>3. /\ worker'[j].pc # "failed"
        /\ worker'[j].pc \in BusyLabels =>
              \/ worker'[j].tries = 0
              \/ worker[j].pc \in BusyLabels /\ worker'[j].tries = worker[j].tries
    <3>1. CASE Take(j)
      BY <3>1 DEF Take, TypeInv
    <3>2. CASE Finish(j)
      BY <1>2, <3>2 DEF Finish, TypeInv, WorkerStates, BusyWorkers, BusyLabels
    <3>3. CASE Fetch(j)
      BY <1>2, <3>3 DEF Fetch, TypeInv, WorkerStates, BusyWorkers, BusyLabels
    <3>4. CASE Get(j)
      BY <1>2, <3>4 DEF Get, TypeInv, WorkerStates, BusyWorkers, BusyLabels
    <3>5. CASE Write(j)
      BY <1>2, <3>5 DEF Write, TypeInv, WorkerStates, BusyWorkers, BusyLabels, Idle
    <3>6. CASE Tag(j)
      BY <1>2, <3>6 DEF Tag, TypeInv, WorkerStates, BusyWorkers, BusyLabels, Idle
    <3> QED BY <1>8, <3>1, <3>2, <3>3, <3>4, <3>5, <3>6
  <2>4. Failed' => Failed
    BY <2>1, <2>2, <2>3 DEF Failed
  <2> QED BY <1>3, <2>1, <2>2, <2>3, <2>4
<1>9. ASSUME NEW j \in 1 .. jobs, WorkerFails(j), UNCHANGED workerFrame,
             faults' \in {faults, faults + 1}, final' \/ faults' >= Steps,
             worker[j].pc \in BusyLabels
      PROVE  RetryInv'
  <2>1. UNCHANGED <<jobs, walker>>
    BY <1>9 DEF workerFrame, walkVars
  <2>2. /\ \A i \in 1 .. jobs : i # j => worker'[i] = worker[i]
        /\ worker'[j].tries = worker[j].tries
    BY <1>9 DEF WorkerFails, TypeInv, WorkerStates, BusyWorkers, BusyLabels
  <2>3. \A i \in 1 .. jobs' : worker'[i].pc \in BusyLabels => worker'[i].tries <= faults'
    <3>1. ASSUME NEW i \in 1 .. jobs, worker'[i].pc \in BusyLabels
          PROVE  worker'[i].tries = worker[i].tries /\ worker[i].pc \in BusyLabels
      BY <1>9, <2>2, <3>1
    <3> QED BY <1>1, <1>2, <1>9, <2>1, <3>1
  <2> QED BY <1>1, <1>9, <2>1, <2>3 DEF RetryInv
<1>10. ASSUME NEW j \in 1 .. jobs, NEW kind \in FaultKinds, WorkerCallFails(j, kind),
              UNCHANGED workerFrame, worker[j].pc \in {"get", "tag"}
       PROVE  RetryInv'
  <2>1. UNCHANGED <<jobs, walker>> /\ faults' = faults + 1 /\ worker[j].pc \in BusyLabels
    BY <1>10 DEF workerFrame, walkVars, WorkerCallFails, Fault, BusyLabels
  <2>2. (final => final') /\ (kind = "final" => final')
    BY <1>10 DEF WorkerCallFails, Fault
  <2>3. CASE TriedAgain(kind, worker[j].tries)
    <3>1. UNCHANGED cancelled /\ \A i \in 1 .. jobs : i # j => worker'[i] = worker[i]
      BY <1>10, <2>3 DEF WorkerCallFails, TypeInv
    <3>2. worker'[j].pc = "fetch" /\ worker'[j].tries = worker[j].tries + 1
      <4>1. worker[j] \in BusyWorkers /\ worker \in [1 .. jobs -> WorkerStates]
        BY <1>10 DEF TypeInv, WorkerStates
      <4>2. PICK tries : tries = worker[j].tries + 1
        OBVIOUS
      <4>3. worker' = [worker EXCEPT ![j] =
                          [worker[j] EXCEPT !.pc = "fetch", !.tries = tries, !.left = {}]]
        BY <1>10, <2>3, <4>2 DEF WorkerCallFails
      <4>4. worker'[j] = [worker[j] EXCEPT !.pc = "fetch", !.tries = tries, !.left = {}]
        BY <4>1, <4>3
      <4> QED BY <4>1, <4>2, <4>4 DEF BusyWorkers
    <3>3. Failed' => Failed
      BY <2>1, <3>1, <3>2 DEF Failed
    <3>4. cancelled' \/ Failed' => final' \/ faults' >= Steps
      BY <1>1, <2>1, <2>2, <3>1, <3>3
    <3>5. \A i \in 1 .. jobs' : worker'[i].pc \in BusyLabels => worker'[i].tries <= faults'
      BY <1>1, <1>2, <2>1, <3>1, <3>2
    <3> QED BY <1>1, <2>1, <3>4, <3>5 DEF RetryInv
  <2>4. CASE ~TriedAgain(kind, worker[j].tries)
    <3>1. WorkerFails(j)
      BY <1>10, <2>4 DEF WorkerCallFails
    <3>2. final' \/ faults' >= Steps
      BY <1>1, <1>2, <2>1, <2>2, <2>4 DEF TriedAgain, FaultKinds
    <3> QED BY <1>9, <1>10, <2>1, <3>1, <3>2
  <2> QED BY <2>3, <2>4
<1>11. ASSUME NEW j \in 1 .. jobs, CopyFails(j)
       PROVE  RetryInv'
  <2>1. WorkerFails(j) /\ UNCHANGED workerFrame /\ faults' = faults + 1 /\ final'
        /\ worker[j].pc \in BusyLabels
    BY <1>11 DEF CopyFails, Fault, BusyLabels
  <2> QED BY <1>9, <2>1
<1>12. ASSUME NEW j \in 1 .. jobs, TagRefused(j)
       PROVE  RetryInv'
  <2>1. WorkerFails(j) /\ UNCHANGED workerFrame /\ faults' = faults /\ final'
        /\ worker[j].pc \in BusyLabels
    BY <1>12 DEF TagRefused, BusyLabels
  <2> QED BY <1>9, <2>1
<1>13. ASSUME NEW j \in 1 .. jobs, GetFails(j) \/ TagFails(j)
       PROVE  RetryInv'
  BY <1>10, <1>13 DEF GetFails, TagFails
<1>14. CASE UNCHANGED vars
  <2>1. UNCHANGED <<jobs, walker, worker, cancelled, faults, final>>
    BY <1>14 DEF vars, walkVars, faultVars
  <2> QED BY <1>3, <2>1 DEF Failed
<1>15. CASE Walk
  BY <1>5, <1>6, <1>7, <1>15 DEF Walk, RelistFails, DiffFails
<1>16. ASSUME NEW j \in 1 .. jobs, Work(j)
       PROVE  RetryInv'
  BY <1>8, <1>11, <1>12, <1>13, <1>16 DEF Work
<1> QED BY <1>4, <1>14, <1>15, <1>16 DEF Next, Run
(***************************************************************************)
(* The theorems.                                                           *)
(***************************************************************************)

\* The invariant: the walk comes to each repository once, tasks stand for
\* what has not arrived, and who gives up has a reason.
THEOREM Invariance == Spec => []IInv
<1>1. Init => IInv
  BY InitIInv
<1>2. IInv /\ [Next]_vars => IInv'
  BY CopyNext, RetryNext DEF IInv
<1> QED BY <1>1, <1>2, PTL DEF Spec

\* CopyRepository returns nil only when everything it has listed has
\* arrived: nothing is lost between the walk, the channel, the workers and
\* their retries, for any tree, any number of workers and any failures.
THEOREM NilMeansCopied == Spec => []SuccessMeansCopied
<1>1. ASSUME IInv, Succeeded
      PROVE  /\ tasks = {} /\ walker.need = {} /\ walker.pc = "ok"
             /\ \A j \in 1 .. jobs : ~Busy(worker[j])
             /\ Todo = {}
  <2>1. walker.pc = "ok" /\ walker.need = {} /\ walker.todo = <<>> /\ 1 \in 1 .. jobs
    BY <1>1 DEF Succeeded, IInv, TypeInv
  <2>2. \A j \in 1 .. jobs : worker[j].pc = "ok"
    BY <1>1 DEF Succeeded
  <2>3. tasks = {}
    BY <1>1, <2>1, <2>2 DEF IInv, CopyInv, QueueInv
  <2>4. Todo = {}
    <3>1. Len(<<>>) = 0 /\ 1 .. 0 = {}
      OBVIOUS
    <3> QED BY <2>1, <3>1 DEF Todo, Elems
  <2> QED BY <2>1, <2>2, <2>3, <2>4 DEF Busy, BusyLabels
<1>2. IInv => SuccessMeansCopied
  <2> SUFFICES ASSUME IInv, Succeeded
               PROVE  SuccessMeansCopied
    BY DEF SuccessMeansCopied
  <2>1. /\ Root \in DOMAIN listed
        /\ \A repo \in DOMAIN listed \ skipped :
              \A i \in DOMAIN Below[repo] : Below[repo][i] \in DOMAIN listed
    BY <1>1 DEF IInv, CopyInv, WalkInv
  <2>2. ASSUME NEW repo \in DOMAIN listed, NEW digest \in DOMAIN listed[repo]
        PROVE  /\ listed[repo][digest] = {} => digest \in dst[repo].images
               /\ \A t \in listed[repo][digest] : TagArrived(repo, digest, t)
    <3>1. Compared(repo)
      BY <1>1 DEF Compared
    <3>2. /\ listed[repo][digest] = {} =>
                digest \in dst[repo].images \/ ImagePending(repo, digest)
          /\ \A t \in listed[repo][digest] :
                TagArrived(repo, digest, t) \/ TagPending(repo, digest, t)
      BY <1>1, <3>1 DEF IInv, CopyInv, ArrivalInv
    <3>3. ~ImagePending(repo, digest) /\ \A t : ~TagPending(repo, digest, t)
      BY <1>1 DEF ImagePending, Held, TagPending
    <3> QED BY <3>2, <3>3
  <2> QED BY <2>1, <2>2 DEF SuccessMeansCopied, TagArrived
<1> QED BY <1>2, Invariance, PTL

\* Less failures than GCRBackoff has steps never make the copy fail, however
\* they are spread over the walker and the workers.
THEOREM RetriesSuffice == Spec => []RetryableFaultsTolerated
<1>1. IInv => RetryableFaultsTolerated
  <2> SUFFICES ASSUME IInv, faults < Steps, ~final
               PROVE  ~Failed
    BY DEF RetryableFaultsTolerated
  <2>1. faults \in Nat /\ Steps \in Nat
    BY GcraneAssumption DEF IInv, TypeInv
  <2> QED BY <2>1 DEF IInv, RetryInv
<1> QED BY <1>1, Invariance, PTL

\* A tag of the destination is that of a whole image at all times, as long
\* as nobody moves tags of the source.
THEOREM TagsAreWhole == Spec => []TaggedIsWhole
<1>1. IInv => TaggedIsWhole
  BY DEF IInv, CopyInv, WholeInv, TaggedIsWhole
<1> QED BY <1>1, Invariance, PTL
=============================================================================
