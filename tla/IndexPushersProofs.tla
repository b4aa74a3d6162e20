------------------------- MODULE IndexPushersProofs -------------------------
(***************************************************************************)
(* What remote.MultiWrite and remote.WriteIndex guarantee when they push   *)
(* at once: for any documents, any number of workers and of faults.        *)
(***************************************************************************)
EXTENDS IndexPushers, WellFoundedInduction, FiniteSetTheorems, TLAPS

(***************************************************************************)
(* What the handlers of the registry do to its stores.                     *)
(***************************************************************************)

\* A digest determines the bytes.
LEMMA Sha256Injective ==
    ASSUME NEW a, NEW b, Sha256(a) = Sha256(b)
    PROVE  a = b
<1>1. Sha256(a).sha256 = a /\ Sha256(b).sha256 = b
  BY DEF Sha256
<1> QED BY <1>1

\* The manifest x of repository r is there.
Listed(r, x) == r \in DOMAIN manifests /\ x \in DOMAIN manifests[r]

\* A manifest that is accepted is there under its target and its digest,
\* and nothing else in any repository changes (manifest.go:148-160).
LEMMA PutManifestAccepted ==
    ASSUME NEW repo, NEW target, NEW contentType, NEW doc,
           PutManifestStatus(repo, contentType, doc) = "CREATED",
           PutManifest(repo, target, contentType, doc)
    PROVE  \A r, x :
             /\ Listed(r, x)' <=> \/ Listed(r, x)
                                  \/ r = repo /\ x \in {target, Sha256(doc)}
             /\ r = repo /\ x \in {target, Sha256(doc)} => manifests'[r][x].blob = doc
             /\ Listed(r, x) /\ ~(r = repo /\ x \in {target, Sha256(doc)}) =>
                    manifests'[r][x] = manifests[r][x]
<1> DEFINE mf  == [contentType |-> contentType, blob |-> doc]
           old == RepoManifests(repo)
           new == Put(Put(old, target, mf), Sha256(doc), mf)
<1>1. manifests' = Put(manifests, repo, new)
  BY DEF PutManifest
<1>2. mf.blob = doc
  OBVIOUS
<1> HIDE DEF mf, old
<1>3. /\ DOMAIN new = DOMAIN old \cup {target, Sha256(doc)}
      /\ \A x \in {target, Sha256(doc)} : new[x] = mf
      /\ \A x \in DOMAIN old \ {target, Sha256(doc)} : new[x] = old[x]
  BY DEF Put
<1> HIDE DEF new
<1>4. /\ DOMAIN manifests' = DOMAIN manifests \cup {repo}
      /\ manifests'[repo] = new
      /\ \A r \in DOMAIN manifests : r # repo => manifests'[r] = manifests[r]
  BY <1>1 DEF Put
<1>5. /\ repo \in DOMAIN manifests => old = manifests[repo]
      /\ repo \notin DOMAIN manifests => DOMAIN old = {}
  BY DEF old, RepoManifests
<1> TAKE r, x
<1>6. CASE r = repo
  BY <1>2, <1>3, <1>4, <1>5, <1>6 DEF Listed
<1>7. CASE r # repo
  BY <1>4, <1>7 DEF Listed
<1> QED BY <1>6, <1>7

\* Accepted or not, a manifest PUT removes no manifest and changes none but
\* those under its target and its digest.
LEMMA PutManifestChange ==
    ASSUME NEW repo, NEW target, NEW contentType, NEW doc,
           PutManifest(repo, target, contentType, doc)
    PROVE  \A r, x :
             /\ Listed(r, x) => Listed(r, x)'
             /\ Listed(r, x)' =>
                  \/ Listed(r, x) /\ manifests'[r][x] = manifests[r][x]
                  \/ r = repo /\ x \in {target, Sha256(doc)} /\ manifests'[r][x].blob = doc
<1>1. CASE PutManifestStatus(repo, contentType, doc) = "CREATED"
  <2> TAKE r, x
  <2> QED BY <1>1, PutManifestAccepted
<1>2. CASE PutManifestStatus(repo, contentType, doc) # "CREATED"
  <2>1. manifests' = Put(manifests, repo, RepoManifests(repo))
    BY <1>2 DEF PutManifest
  <2>2. /\ repo \in DOMAIN manifests => RepoManifests(repo) = manifests[repo]
        /\ repo \notin DOMAIN manifests => DOMAIN RepoManifests(repo) = {}
    BY DEF RepoManifests
  <2>3. /\ DOMAIN manifests' = DOMAIN manifests \cup {repo}
        /\ manifests'[repo] = RepoManifests(repo)
        /\ \A r \in DOMAIN manifests : r # repo => manifests'[r] = manifests[r]
    BY <2>1 DEF Put
  <2> TAKE r, x
  <2> QED BY <2>2, <2>3 DEF Listed
<1> QED BY <1>1, <1>2

(***************************************************************************)
(* The levels of MultiWrite.                                               *)
(***************************************************************************)

NatLess == {nn \in Nat \X Nat : nn[1] < nn[2]}

\* A set of numbers that is not empty has a least one.
LEMMA LeastNumber ==
    ASSUME NEW S, S \subseteq Nat, S # {}
    PROVE  \E m \in S : \A n \in S : m <= n
<1>1. IsWellFoundedOn(NatLess, Nat)
  BY NatLessThanWellFounded DEF NatLess, OpToRel
<1>2. PICK m \in S : \A n \in S : ~(<<n, m>> \in NatLess)
  BY <1>1, WFMin
<1>3. ASSUME NEW n \in S
      PROVE  m <= n
  <2>1. m \in Nat /\ n \in Nat /\ ~(n < m)
    BY <1>2 DEF NatLess
  <2> QED BY <2>1
<1> QED BY <1>3

Below(docs) == UNION {ListedIn(doc) : doc \in docs}

LastLevel == Cardinality(IndexDocs)

\* The recursion of Levels has a solution, so Levels is one: every level
\* after the first is what the one before lists.
LEMMA LevelsSolve ==
    /\ LastLevel \in Nat
    /\ DOMAIN Levels = 0 .. LastLevel
    /\ \A n \in 0 .. LastLevel :
          Levels[n] = Below(IF n = 0 THEN RequestedDocs ELSE Levels[n - 1])
<1>1. LastLevel \in Nat
  BY MultiWriteAssumption, FS_CardinalityType DEF LastLevel
<1> DEFINE Solves(f, k) ==
             f = [n \in 0 .. k |-> Below(IF n = 0 THEN RequestedDocs ELSE f[n - 1])]
           Unsolved == {k \in Nat : ~\E f : Solves(f, k)}
<1>2. Unsolved = {}
  <2> SUFFICES ASSUME Unsolved # {}
               PROVE  FALSE
    OBVIOUS
  <2>1. PICK m \in Unsolved : \A k \in Unsolved : m <= k
    <3>1. Unsolved \subseteq Nat
      OBVIOUS
    <3> HIDE DEF Unsolved
    <3> QED BY <3>1, LeastNumber
  <2>2. m # 0
    <3>1. Solves([n \in 0 .. 0 |-> Below(RequestedDocs)], 0)
      OBVIOUS
    <3> QED BY <3>1
  <2>3. m \in Nat /\ m - 1 \in Nat /\ m - 1 \notin Unsolved
    BY <2>1, <2>2
  <2>4. PICK f : Solves(f, m - 1)
    BY <2>3
  <2> DEFINE g == [n \in 0 .. m |-> IF n < m THEN f[n] ELSE Below(f[m - 1])]
  <2>5. Solves(g, m)
    <3>1. \A n \in 0 .. m : g[n] = Below(IF n = 0 THEN RequestedDocs ELSE g[n - 1])
      <4> SUFFICES ASSUME NEW n \in 0 .. m
                   PROVE  g[n] = Below(IF n = 0 THEN RequestedDocs ELSE g[n - 1])
        OBVIOUS
      <4>1. CASE n = m
        <5>1. g[n] = Below(f[m - 1]) /\ g[n - 1] = f[m - 1]
          BY <2>3, <4>1
        <5> QED BY <5>1, <4>1, <2>2
      <4>2. CASE n # m
        <5>1. n \in 0 .. m - 1 /\ g[n] = f[n] /\ (n # 0 => g[n - 1] = f[n - 1])
          BY <2>3, <4>2
        <5>2. f[n] = Below(IF n = 0 THEN RequestedDocs ELSE f[n - 1])
          BY <2>4, <5>1
        <5> QED BY <5>1, <5>2
      <4> QED BY <4>1, <4>2
    <3> QED BY <3>1
  <2> QED BY <2>5
<1>3. PICK f : Solves(f, LastLevel)
  BY <1>1, <1>2
<1>4. Solves(Levels, LastLevel)
  <2> HIDE DEF Unsolved
  <2> QED BY <1>3 DEF Levels, LastLevel, Below
<1> QED BY <1>1, <1>4

\* Whatever is requested or listed is a document; only an index lists any.
LEMMA DocumentFacts ==
    /\ RequestedDocs \subseteq Docs
    /\ \A doc : ListedIn(doc) \subseteq Docs /\ (doc \notin IndexDocs => ListedIn(doc) = {})
    /\ \A docs : Below(docs) \subseteq Docs
    /\ \A r \in Requested : r[2] \in Docs /\ (r[1] \in Tags \/ r[1] = Sha256(r[2]))
<1>1. \A doc : ListedIn(doc) \subseteq Docs /\ (doc \notin IndexDocs => ListedIn(doc) = {})
  BY RegistryAssumption, ImagesAssumption DEF ListedIn
<1>2. \A r \in Requested : r[2] \in Docs /\ (r[1] \in Tags \/ r[1] = Sha256(r[2]))
  BY MultiWriteAssumption
<1>3. \A docs : Below(docs) \subseteq Docs
  BY <1>1 DEF Below
<1> QED BY <1>1, <1>2, <1>3 DEF RequestedDocs

\* No index is below itself: the last level is empty.
LEMMA LastLevelIsEmpty == Levels[LastLevel] = {}
<1>1. PICK height \in [IndexDocs -> 1 .. LastLevel] :
        \A doc \in IndexDocs : \A child \in ListedIn(doc) \cap IndexDocs :
            height[child] < height[doc]
  BY MultiWriteAssumption DEF LastLevel
<1> DEFINE Low(n) == \A doc \in Levels[n] \cap IndexDocs : height[doc] + n < LastLevel
           High == {n \in 0 .. LastLevel : ~Low(n)}
<1>2. LastLevel \in Nat /\ \A doc \in IndexDocs : height[doc] \in 1 .. LastLevel
  BY LevelsSolve
<1>3. Low(0)
  <2> SUFFICES ASSUME NEW doc \in Levels[0] \cap IndexDocs
               PROVE  height[doc] < LastLevel
    BY <1>2
  <2>1. Levels[0] = Below(RequestedDocs)
    BY LevelsSolve, <1>2
  <2>2. PICK above \in RequestedDocs : doc \in ListedIn(above)
    BY <2>1 DEF Below
  <2>3. above \in IndexDocs
    BY <2>2, DocumentFacts
  <2>4. height[doc] < height[above] /\ height[above] \in 1 .. LastLevel
        /\ height[doc] \in 1 .. LastLevel
    BY <1>1, <1>2, <2>2, <2>3
  <2> QED BY <1>2, <2>4
<1>4. ASSUME NEW n \in 1 .. LastLevel, Low(n - 1)
      PROVE  Low(n)
  <2> SUFFICES ASSUME NEW doc \in Levels[n] \cap IndexDocs
               PROVE  height[doc] + n < LastLevel
    OBVIOUS
  <2>1. Levels[n] = Below(Levels[n - 1])
    BY LevelsSolve, <1>2
  <2>2. PICK above \in Levels[n - 1] : doc \in ListedIn(above)
    BY <2>1 DEF Below
  <2>3. above \in IndexDocs
    BY <2>2, DocumentFacts
  <2>4. height[doc] < height[above] /\ height[above] \in 1 .. LastLevel
        /\ height[doc] \in 1 .. LastLevel
    BY <1>1, <1>2, <2>2, <2>3
  <2>5. height[above] + (n - 1) < LastLevel
    BY <1>4, <2>2, <2>3
  <2> HIDE DEF Low
  <2> QED BY <1>2, <2>4, <2>5
<1> HIDE DEF Low
<1>5. High = {}
  <2> SUFFICES ASSUME High # {}
               PROVE  FALSE
    OBVIOUS
  <2>1. PICK m \in High : \A n \in High : m <= n
    <3>1. High \subseteq Nat
      BY <1>2
    <3> HIDE DEF High
    <3> QED BY <3>1, LeastNumber
  <2>2. m \in 0 .. LastLevel /\ ~Low(m)
    BY <2>1
  <2>3. m \in 1 .. LastLevel /\ m - 1 \in 0 .. LastLevel
    BY <1>2, <1>3, <2>2
  <2>4. m - 1 \notin High
    BY <2>1, <2>3
  <2>5. Low(m - 1)
    BY <2>3, <2>4
  <2> QED BY <1>4, <2>2, <2>3, <2>5
<1>6. CASE LastLevel = 0
  <2>1. IndexDocs = {}
    BY <1>6, <1>2
  <2>2. Levels[0] = Below(RequestedDocs)
    BY LevelsSolve, <1>2
  <2> QED BY <1>6, <2>1, <2>2, DocumentFacts DEF Below
<1>7. CASE LastLevel # 0
  <2>1. LastLevel - 1 \in 0 .. LastLevel /\ LastLevel \in 0 .. LastLevel
    BY <1>2, <1>7
  <2>2. Low(LastLevel - 1)
    BY <1>5, <2>1
  <2>3. Levels[LastLevel - 1] \cap IndexDocs = {}
    BY <1>2, <2>1, <2>2 DEF Low
  <2>4. Levels[LastLevel] = Below(Levels[LastLevel - 1])
    BY LevelsSolve, <1>7, <2>1
  <2> QED BY <2>3, <2>4, DocumentFacts DEF Below
<1> QED BY <1>6, <1>7

\* Depth counts the levels that list anything, which are the first ones.
LEMMA DepthFacts ==
    /\ Depth \in 0 .. LastLevel
    /\ \A n \in 0 .. LastLevel : Levels[n] # {} <=> n < Depth
<1> DEFINE Empty == {n \in 0 .. LastLevel : Levels[n] = {}}
<1>1. LastLevel \in Nat /\ DOMAIN Levels = 0 .. LastLevel
  BY LevelsSolve
<1>2. PICK m \in Empty : \A n \in Empty : m <= n
  <2>1. Empty \subseteq Nat /\ LastLevel \in Empty
    BY <1>1, LastLevelIsEmpty
  <2> HIDE DEF Empty
  <2> QED BY <2>1, LeastNumber
<1>3. m \in 0 .. LastLevel /\ Levels[m] = {}
  BY <1>2
<1>4. \A n \in 0 .. LastLevel : n < m => Levels[n] # {}
  <2> SUFFICES ASSUME NEW n \in 0 .. LastLevel, n < m, Levels[n] = {}
               PROVE  FALSE
    OBVIOUS
  <2>1. n \in Empty
    OBVIOUS
  <2>2. m <= n
    BY <1>2, <2>1
  <2> QED BY <1>1, <1>3, <2>2
<1> DEFINE Late == {n \in m .. LastLevel : Levels[n] # {}}
<1>5. Late = {}
  <2> SUFFICES ASSUME Late # {}
               PROVE  FALSE
    OBVIOUS
  <2>1. PICK l \in Late : \A n \in Late : l <= n
    <3>1. Late \subseteq Nat
      BY <1>1, <1>3
    <3> HIDE DEF Late
    <3> QED BY <3>1, LeastNumber
  <2>2. l \in m .. LastLevel /\ Levels[l] # {} /\ l # m
    BY <1>3, <2>1
  <2>3. l - 1 \in m .. LastLevel /\ l \in 0 .. LastLevel /\ l # 0
    BY <1>1, <1>3, <2>2
  <2>4. Levels[l - 1] = {}
    BY <1>1, <1>3, <2>1, <2>3
  <2>5. Levels[l] = Below(Levels[l - 1])
    BY <2>3, LevelsSolve
  <2> QED BY <2>2, <2>4, <2>5 DEF Below
<1>6. \A n \in 0 .. LastLevel : Levels[n] # {} <=> n < m
  BY <1>1, <1>3, <1>4, <1>5
<1>7. Depth = m
  <2>1. {n \in DOMAIN Levels : Levels[n] # {}} = 0 .. m - 1
    BY <1>1, <1>3, <1>6
  <2>2. Cardinality(0 .. m - 1) = m
    BY <1>1, <1>3, FS_Interval
  <2> QED BY <2>1, <2>2 DEF Depth
<1> QED BY <1>3, <1>6, <1>7

\* The batches of manifests, from the requested images over the levels, the
\* lowest first, to the requested indexes.
LEMMA BatchFacts ==
    /\ Len(ManifestBatches) = Depth + 2
    /\ ManifestBatches[1] = RequestedOf(ImageDocs)
    /\ \A n \in 0 .. Depth - 1 : ManifestBatches[Depth - n + 1] = LevelBatch(n)
    /\ ManifestBatches[Depth + 2] = RequestedOf(IndexDocs)
<1> DEFINE middle == [i \in 1 .. Depth |-> LevelBatch(Depth - i)]
           first == RequestedOf(ImageDocs)
           last == RequestedOf(IndexDocs)
<1>1. Depth \in Nat
  BY LevelsSolve, DepthFacts
<1>2. ManifestBatches = (<<first>> \o middle) \o <<last>>
  BY DEF ManifestBatches
<1> DEFINE All == {first, last} \cup {middle[i] : i \in 1 .. Depth}
<1>3. \A n \in 0 .. Depth - 1 : middle[Depth - n] = LevelBatch(n)
  <2> SUFFICES ASSUME NEW n \in 0 .. Depth - 1
               PROVE  middle[Depth - n] = LevelBatch(n)
    OBVIOUS
  <2>1. Depth - n \in 1 .. Depth /\ Depth - (Depth - n) = n
    BY <1>1
  <2> QED BY <2>1
<1>4. middle \in [1 .. Depth -> All]
  OBVIOUS
<1>5. middle \in Seq(All) /\ Len(middle) = Depth
  <2>1. DOMAIN middle = 1 .. Depth
    OBVIOUS
  <2> HIDE DEF middle, All
  <2> QED BY <1>1, <1>4, <2>1
<1>6. first \in All /\ last \in All
  OBVIOUS
<1> HIDE DEF middle, first, last, All
<1>7. /\ <<first>> \in Seq(All) /\ Len(<<first>>) = 1 /\ <<first>>[1] = first
      /\ <<last>> \in Seq(All) /\ Len(<<last>>) = 1 /\ <<last>>[1] = last
  BY <1>6
<1> DEFINE front == <<first>> \o middle
<1>8. /\ front \in Seq(All) /\ Len(front) = Depth + 1 /\ front[1] = first
      /\ \A i \in 1 .. Depth : front[i + 1] = middle[i]
  BY <1>1, <1>5, <1>7
<1> HIDE DEF front
<1>9. /\ Len(ManifestBatches) = Depth + 2
      /\ ManifestBatches[1] = first
      /\ \A i \in 1 .. Depth : ManifestBatches[i + 1] = middle[i]
      /\ ManifestBatches[Depth + 2] = last
  <2>1. ManifestBatches = front \o <<last>>
    BY <1>2 DEF front
  <2>2. Len(front \o <<last>>) = Depth + 2
    BY <1>1, <1>7, <1>8
  <2>3. \A i \in 1 .. Depth + 1 : (front \o <<last>>)[i] = front[i]
    BY <1>1, <1>7, <1>8
  <2>4. (front \o <<last>>)[Depth + 2] = last
    BY <1>1, <1>7, <1>8
  <2>5. \A i \in 1 .. Depth : i + 1 \in 1 .. Depth + 1
    BY <1>1
  <2> QED BY <1>1, <1>8, <2>1, <2>2, <2>3, <2>4, <2>5
<1>10. \A n \in 0 .. Depth - 1 : ManifestBatches[Depth - n + 1] = LevelBatch(n)
  <2> SUFFICES ASSUME NEW n \in 0 .. Depth - 1
               PROVE  ManifestBatches[Depth - n + 1] = LevelBatch(n)
    OBVIOUS
  <2>1. Depth - n \in 1 .. Depth
    BY <1>1
  <2> QED BY <1>3, <1>9, <2>1
<1> QED BY <1>9, <1>10 DEF first, last

(***************************************************************************)
(* The inductive invariant.                                                *)
(***************************************************************************)

\* The manifest was accepted: it is there by target and by digest, and what
\* it lists is there too.
Committed(repo, target, doc) ==
    /\ Listed(repo, target) /\ Listed(repo, Sha256(doc))
    /\ \A child \in ListedIn(doc) : Listed(repo, Sha256(child))

\* Under the digest of a document is the document, or what a fault has left.
KeysMatch ==
    \A repo \in DOMAIN manifests : \A doc \in Docs :
        Listed(repo, Sha256(doc)) =>
            \/ manifests[repo][Sha256(doc)].blob = doc
            \/ manifests[repo][Sha256(doc)].blob = Cut(doc) /\ faults > 0

RegInv == faults \in Nat /\ KeysMatch

Batches == 0 .. Depth + 2
Pushed(k, item) ==
    IF k = 0 THEN Stored(item.blob) ELSE Committed(MWRepo, item.target, item.doc)

WorkerStates ==
    [pc : {"idle", "busy", "done", "failed"},
     item : {NoItem} \cup UNION {BatchItems(k) : k \in Batches}]

PoolTypes ==
    /\ mwpc \in {"start", "running", "ok", "failed"}
    /\ batch \in Batches
    /\ unsent \cup channel \subseteq BatchItems(batch)
    /\ worker \in [Workers -> WorkerStates]
    /\ \A j \in Workers : worker[j].pc \in {"busy", "failed"} =>
                              worker[j].item \in BatchItems(batch)

\* A worker leaves when nothing is left to do, and MultiWrite returns when
\* all have left.
PoolEnds ==
    /\ mwpc \in {"running", "ok"} => Pushable
    /\ mwpc = "start" => unsent \cup channel = {} /\ \A j \in Workers : worker[j].pc = "idle"
    /\ \A j \in Workers : worker[j].pc = "done" => unsent \cup channel = {}
    /\ mwpc = "ok" => batch = Depth + 2 /\ \A j \in Workers : worker[j].pc = "done"
    /\ mwpc = "failed" =>
          \/ \A j \in Workers : Ended(j)
          \/ unsent \cup channel = {} /\ \A j \in Workers : worker[j].pc = "idle"

\* No item is lost between the feeder, the channel and the workers.
NothingLost ==
    mwpc \in {"running", "ok"} =>
        /\ \A k \in Batches : k < batch => \A item \in BatchItems(k) : Pushed(k, item)
        /\ \A item \in BatchItems(batch) :
              \/ item \in unsent \cup channel
              \/ \E j \in Workers : worker[j].pc \in {"busy", "failed"} /\ worker[j].item = item
              \/ Pushed(batch, item)

\* Without a fault no worker fails, for what an index lists is in a batch
\* before its own.
PoolIsWell ==
    faults = 0 => /\ \A j \in Workers : worker[j].pc # "failed"
                  /\ mwpc = "failed" => ~Pushable

PoolInv == PoolTypes /\ PoolEnds /\ NothingLost /\ PoolIsWell

CallStates == [doc : IndexDocs, target : Tags \cup {Sha256(doc) : doc \in IndexDocs},
               todo : SUBSET Docs]

WalkTypes ==
    /\ root \in WIIndexes
    /\ wipc \in {"walk", "image", "ok", "failed"}
    /\ stack \in Seq(CallStates)
    /\ wipc \in {"walk", "image"} => stack # <<>>
    /\ wipc = "image" => /\ pushing \in [doc : ImageDocs, blobs : SUBSET Blobs, failed : BOOLEAN]
                         /\ faults = 0 => ~pushing.failed

\* The innermost call is at the head, that of the root at the end; each call
\* but the root's puts its index under its digest.
Calls ==
    \A i \in 1 .. Len(stack) :
        IF i = Len(stack) THEN stack[i].doc = root /\ stack[i].target = WITarget
                          ELSE stack[i].target = Sha256(stack[i].doc)

\* What a call has come past is in the repository, or is being pushed.
Passing ==
    wipc \in {"walk", "image"} =>
    \A i \in 1 .. Len(stack) : \A child \in ListedIn(stack[i].doc) \ stack[i].todo :
        \/ child \in OtherDocs
        \/ Listed(WIRepo, Sha256(child))
        \/ i > 1 /\ stack[i - 1].doc = child
        \/ i = 1 /\ wipc = "image" /\ pushing.doc = child

WalkEnds ==
    /\ wipc = "ok" => Committed(WIRepo, WITarget, root)
    /\ faults = 0 /\ wipc = "failed" => ListedIn(Top.doc) \cap OtherDocs # {}

WalkInv == WalkTypes /\ Calls /\ Passing /\ WalkEnds

IInv == RegInv /\ PoolInv /\ WalkInv

(***************************************************************************)
(* The requests of both pushers.                                           *)
(***************************************************************************)

\* What is in the registry stays there, and faults are not forgotten.
Grows ==
    /\ \A b : Stored(b) => Stored(b)'
    /\ \A r, x : Listed(r, x) => Listed(r, x)'
    /\ faults' = 0 => faults = 0

\* Whatever was pushed stays pushed.
LEMMA GrowthKeeps ==
    ASSUME Grows
    PROVE  /\ \A repo, target, doc : Committed(repo, target, doc) => Committed(repo, target, doc)'
           /\ \A k, item : Pushed(k, item) => Pushed(k, item)'
<1>1. \A repo, target, doc : Committed(repo, target, doc) => Committed(repo, target, doc)'
  BY DEF Grows, Committed, Sha256, ListedIn
<1> QED BY <1>1 DEF Grows, Pushed

\* No request at all.
LEMMA QuietRequest ==
    ASSUME RegInv, UNCHANGED regVars, NoFault \/ Fault
    PROVE  Grows /\ RegInv'
<1>1. faults' \in Nat /\ (faults' = 0 => faults = 0) /\ (faults > 0 => faults' > 0)
  BY DEF RegInv, NoFault, Fault
<1>2. UNCHANGED <<contents, manifests>>
  BY DEF regVars
<1>3. Grows
  BY <1>1, <1>2 DEF Grows, Stored, Listed
<1> QED BY <1>1, <1>2, <1>3 DEF RegInv, KeysMatch, Listed

\* An upload stores its blob unless a fault is behind it.
LEMMA UploadRequest ==
    ASSUME RegInv, NEW b, UploadOne(b) \/ UploadOneFails(b)
    PROVE  /\ Grows /\ RegInv'
           /\ UploadOne(b) => Stored(b)'
           /\ UploadOneFails(b) => faults' # 0
<1>1. faults \in Nat
  BY DEF RegInv
<1>2. /\ UploadOneFails(b) => faults' = faults + 1
      /\ UploadOne(b) => UNCHANGED faults
  BY DEF UploadOneFails, UploadOne, NoFault, Fault
<1>3. faults' \in Nat /\ (faults' = 0 => faults = 0) /\ (faults > 0 => faults' > 0)
      /\ (UploadOneFails(b) => faults' # 0)
  BY <1>1, <1>2
<1>4. CASE StoreBlob(b)
  <2>1. contents' = Put(contents, Sha256(b), b) /\ UNCHANGED manifests
    BY <1>4 DEF StoreBlob
  <2>2. Stored(b)'
    BY <2>1 DEF Stored, Put
  <2>3. ASSUME NEW c, Stored(c)
        PROVE  Stored(c)'
    <3>1. CASE Sha256(c) = Sha256(b)
      BY <2>2, <3>1, Sha256Injective
    <3>2. CASE Sha256(c) # Sha256(b)
      BY <2>1, <2>3, <3>2 DEF Stored, Put
    <3> QED BY <3>1, <3>2
  <2>4. Grows
    BY <1>3, <2>1, <2>3 DEF Grows, Listed
  <2>5. RegInv'
    BY <1>3, <2>1 DEF RegInv, KeysMatch, Listed
  <2> QED BY <1>3, <2>2, <2>4, <2>5
<1>5. CASE UNCHANGED regVars /\ UploadOneFails(b)
  <2>1. Fault /\ ~UploadOne(b)
    BY <1>1, <1>2, <1>5 DEF UploadOneFails, UploadOne, NoFault
  <2> QED BY <1>3, <1>5, <2>1, QuietRequest
<1> QED BY <1>4, <1>5 DEF UploadOne, UploadOneFails

\* A manifest PUT, whole or cut, leaves every document under its own digest.
LEMMA ManifestPut ==
    ASSUME RegInv, NEW repo, NEW doc \in Docs, NEW target \in Tags \cup {Sha256(doc)},
           NEW wire, wire = doc \/ (wire = Cut(doc) /\ faults' > 0),
           PutManifest(repo, target, ContentTypeOf(doc), wire), NoFault \/ Fault
    PROVE  Grows /\ RegInv'
<1>1. faults' \in Nat /\ (faults' = 0 => faults = 0) /\ (faults > 0 => faults' > 0)
  BY DEF RegInv, NoFault, Fault
<1>2. UNCHANGED contents
  BY DEF PutManifest
<1>3. \A r, x :
        /\ Listed(r, x) => Listed(r, x)'
        /\ Listed(r, x)' =>
             \/ Listed(r, x) /\ manifests'[r][x] = manifests[r][x]
             \/ r = repo /\ x \in {target, Sha256(wire)} /\ manifests'[r][x].blob = wire
  BY PutManifestChange
<1>4. Grows
  BY <1>1, <1>2, <1>3 DEF Grows, Stored
<1>5. KeysMatch'
  <2> SUFFICES ASSUME NEW r, NEW other \in Docs, Listed(r, Sha256(other))'
               PROVE  \/ manifests'[r][Sha256(other)].blob = other
                      \/ manifests'[r][Sha256(other)].blob = Cut(other) /\ faults' > 0
    BY DEF KeysMatch, Sha256, Cut
  <2>1. CASE Listed(r, Sha256(other))
             /\ manifests'[r][Sha256(other)] = manifests[r][Sha256(other)]
    BY <1>1, <2>1 DEF RegInv, KeysMatch, Listed
  <2>2. CASE /\ Sha256(other) \in {target, Sha256(wire)}
             /\ manifests'[r][Sha256(other)].blob = wire
    <3>1. CASE Sha256(other) = target
      <4>1. target \notin Tags
        BY <3>1, RegistryAssumption DEF WireDocs
      <4>2. other = doc
        BY <3>1, <4>1, Sha256Injective
      <4> QED BY <2>2, <4>2
    <3>2. CASE Sha256(other) = Sha256(wire)
      <4>1. other = wire
        BY <3>2, Sha256Injective
      <4>2. wire # Cut(doc)
        BY <4>1, RegistryAssumption
      <4> QED BY <2>2, <4>1, <4>2
    <3> QED BY <2>2, <3>1, <3>2
  <2> QED BY <1>3, <2>1, <2>2
<1> QED BY <1>1, <1>4, <1>5 DEF RegInv

\* A commit that is not refused puts its manifest where all it lists is; one
\* is refused only when something is missing.
LEMMA ManifestRequest ==
    ASSUME RegInv, NEW repo, NEW doc \in Docs, NEW target \in Tags \cup {Sha256(doc)},
           CommitManifest(repo, target, doc) \/ CommitManifestFails(repo, target, doc)
    PROVE  /\ Grows /\ RegInv'
           /\ CommitManifest(repo, target, doc) => Committed(repo, target, doc)'
           /\ CommitManifestFails(repo, target, doc) =>
                 \/ faults' # 0
                 \/ \E child \in ListedIn(doc) : ~Listed(repo, Sha256(child))
<1>1. CASE CommitManifest(repo, target, doc)
  <2>1. Grows /\ RegInv'
    BY <1>1, ManifestPut DEF CommitManifest
  <2>2. Listed(repo, target)' /\ Listed(repo, Sha256(doc))'
    <3>1. \A r, x : r = repo /\ x \in {target, Sha256(doc)} => Listed(r, x)'
      BY <1>1, PutManifestAccepted DEF CommitManifest
    <3> QED BY <3>1
  <2>3. \A child \in ListedIn(doc) : Listed(repo, Sha256(child))
    <3>1. CASE doc \in IndexDocs
      <4>1. ContentTypeOf(doc) = "index"
        BY <3>1, RegistryAssumption DEF ContentTypeOf
      <4>2. \A child \in ListedIn(doc) : Sha256(child) \in DOMAIN RepoManifests(repo)
        BY <1>1, <4>1 DEF CommitManifest, PutManifestStatus
      <4> QED BY <4>2 DEF RepoManifests, Listed
    <3>2. CASE doc \notin IndexDocs
      BY <3>2 DEF ListedIn
    <3> QED BY <3>1, <3>2
  <2>4. Committed(repo, target, doc)'
    BY <2>1, <2>2, <2>3 DEF Committed, Grows, ListedIn, Sha256
  <2>5. ~CommitManifestFails(repo, target, doc) \/ faults' # 0
    BY <1>1 DEF CommitManifest, CommitManifestFails, CommitManifestRefused,
       CommitManifestUnanswered, Fault, RegInv
  <2> QED BY <2>1, <2>4, <2>5
<1>2. CASE CommitManifestRefused(repo, target, doc)
  <2>1. Grows /\ RegInv' /\ ~CommitManifest(repo, target, doc)
    BY <1>2, ManifestPut DEF CommitManifestRefused, CommitManifest
  <2>2. \E child \in ListedIn(doc) : Sha256(child) \notin DOMAIN RepoManifests(repo)
    BY <1>2 DEF CommitManifestRefused, PutManifestStatus
  <2> QED BY <2>1, <2>2 DEF RepoManifests, Listed
<1>3. CASE CommitManifestUnanswered(repo, target, doc)
  <2>1. Fault /\ faults' > 0 /\ faults' # 0 /\ ~NoFault
    BY <1>3 DEF CommitManifestUnanswered, Fault, NoFault, RegInv
  <2>2. CASE UNCHANGED regVars
    BY <2>1, <2>2, QuietRequest DEF CommitManifest
  <2>3. CASE \E wire \in {doc, Cut(doc)} : PutManifest(repo, target, ContentTypeOf(doc), wire)
    BY <2>1, <2>3, ManifestPut DEF CommitManifest
  <2> QED BY <1>3, <2>2, <2>3 DEF CommitManifestUnanswered
<1> QED BY <1>1, <1>2, <1>3 DEF CommitManifestFails

(***************************************************************************)
(* MultiWrite.                                                             *)
(***************************************************************************)

\* What a batch of manifests holds.
LEMMA ItemFacts ==
    /\ Depth \in Nat /\ Len(ManifestBatches) = Depth + 2
    /\ \A k \in Batches \ {0} : \A item \in BatchItems(k) :
          /\ item.doc \in Docs
          /\ item.target \in Tags \cup {Sha256(item.doc)}
<1>1. Depth \in Nat /\ Len(ManifestBatches) = Depth + 2
  BY LevelsSolve, DepthFacts, BatchFacts
<1>2. ASSUME NEW docs, NEW item \in RequestedOf(docs)
      PROVE  item.doc \in Docs /\ item.target \in Tags \cup {Sha256(item.doc)}
  <2>1. PICK r \in Requested : item = AsItem(r[1], r[2])
    BY <1>2 DEF RequestedOf
  <2>2. item.doc = r[2] /\ item.target = r[1]
    BY <2>1 DEF AsItem
  <2> QED BY <2>2, DocumentFacts
<1>3. ASSUME NEW n \in 0 .. LastLevel, NEW item \in LevelBatch(n)
      PROVE  item.doc \in Docs /\ item.target = Sha256(item.doc)
  <2>1. PICK doc \in Levels[n] : item = AsItem(Sha256(doc), doc)
    BY <1>3 DEF LevelBatch
  <2>2. item.doc = doc /\ item.target = Sha256(doc)
    BY <2>1 DEF AsItem
  <2>3. Levels[n] \subseteq Docs
    BY LevelsSolve, DocumentFacts
  <2> QED BY <2>2, <2>3
<1>4. ASSUME NEW k \in Batches \ {0}, NEW item \in BatchItems(k)
      PROVE  /\ item.doc \in Docs
             /\ item.target \in Tags \cup {Sha256(item.doc)}
  <2>1. item \in ManifestBatches[k] /\ k \in 1 .. Depth + 2
    BY <1>1, <1>4 DEF BatchItems, Batches
  <2>2. CASE k = 1 \/ k = Depth + 2
    BY <1>2, <2>1, <2>2, BatchFacts
  <2>3. CASE k \in 2 .. Depth + 1
    <3>1. Depth + 1 - k \in 0 .. Depth - 1 /\ k = Depth - (Depth + 1 - k) + 1
          /\ Depth + 1 - k \in 0 .. LastLevel
      BY <1>1, <2>3, DepthFacts, LevelsSolve
    <3>2. ManifestBatches[k] = LevelBatch(Depth + 1 - k)
      BY <3>1, BatchFacts
    <3> QED BY <1>3, <2>1, <3>1, <3>2
  <2> QED BY <1>1, <2>1, <2>2, <2>3
<1> QED BY <1>1, <1>4

\* Every level is a batch, after which only higher ones come.
LEMMA LevelIsBatch ==
    ASSUME NEW n \in 0 .. LastLevel, NEW doc \in Levels[n]
    PROVE  /\ n < Depth /\ Depth - n + 1 \in Batches \ {0}
           /\ AsItem(Sha256(doc), doc) \in BatchItems(Depth - n + 1)
<1>1. Depth \in Nat /\ LastLevel \in Nat /\ n < Depth
  BY LevelsSolve, DepthFacts
<1>2. n \in 0 .. Depth - 1 /\ Depth - n + 1 \in Batches \ {0} /\ Depth - n + 1 # 0
  BY <1>1 DEF Batches
<1>3. BatchItems(Depth - n + 1) = LevelBatch(n)
  BY <1>2, BatchFacts DEF BatchItems
<1> QED BY <1>1, <1>2, <1>3 DEF LevelBatch

\* What an index of a batch lists is in a batch before it.
LEMMA ListedComesFirst ==
    ASSUME NEW k \in Batches \ {0}, NEW item \in BatchItems(k),
           NEW child \in ListedIn(item.doc)
    PROVE  \E l \in Batches \ {0} : l < k /\ AsItem(Sha256(child), child) \in BatchItems(l)
<1>1. /\ Depth \in Nat /\ LastLevel \in Nat /\ Depth <= LastLevel
      /\ item \in ManifestBatches[k] /\ k \in 1 .. Depth + 2
  BY ItemFacts, LevelsSolve, DepthFacts DEF BatchItems, Batches
<1>2. item.doc \in IndexDocs
  BY DocumentFacts
<1>3. CASE k = 1
  <2>1. PICK r \in Requested : r[2] \in ImageDocs /\ item = AsItem(r[1], r[2])
    BY <1>1, <1>3, BatchFacts DEF RequestedOf
  <2>2. item.doc \in ImageDocs
    BY <2>1 DEF AsItem
  <2> QED BY <1>2, <2>2, RegistryAssumption
<1>4. CASE k = Depth + 2
  <2>1. PICK r \in Requested : item = AsItem(r[1], r[2])
    BY <1>1, <1>4, BatchFacts DEF RequestedOf
  <2>2. item.doc \in RequestedDocs
    BY <2>1 DEF AsItem, RequestedDocs
  <2>3. 0 \in 0 .. LastLevel /\ Levels[0] = Below(RequestedDocs)
    BY <1>1, LevelsSolve
  <2>4. child \in Levels[0]
    BY <2>2, <2>3 DEF Below
  <2>5. /\ Depth - 0 + 1 \in Batches \ {0}
        /\ AsItem(Sha256(child), child) \in BatchItems(Depth - 0 + 1)
    BY <2>3, <2>4, LevelIsBatch
  <2>6. Depth - 0 + 1 < k
    BY <1>1, <1>4
  <2> QED BY <2>5, <2>6
<1>5. CASE k \in 2 .. Depth + 1
  <2> DEFINE n == Depth + 1 - k
  <2>1. /\ n \in 0 .. Depth - 1 /\ k = Depth - n + 1
        /\ n \in 0 .. LastLevel /\ n + 1 \in 0 .. LastLevel /\ (n + 1) - 1 = n /\ n + 1 # 0
    BY <1>1, <1>5
  <2> HIDE DEF n
  <2>2. ManifestBatches[k] = LevelBatch(n)
    BY <2>1, BatchFacts
  <2>3. PICK doc \in Levels[n] : item = AsItem(Sha256(doc), doc)
    BY <1>1, <2>2 DEF LevelBatch
  <2>4. item.doc \in Levels[n]
    BY <2>3 DEF AsItem
  <2>5. Levels[n + 1] = Below(Levels[n])
    BY <2>1, LevelsSolve
  <2>6. child \in Levels[n + 1]
    BY <2>4, <2>5 DEF Below
  <2>7. /\ Depth - (n + 1) + 1 \in Batches \ {0}
        /\ AsItem(Sha256(child), child) \in BatchItems(Depth - (n + 1) + 1)
    BY <2>1, <2>6, LevelIsBatch
  <2>8. Depth - (n + 1) + 1 < k
    BY <1>1, <2>1
  <2> QED BY <2>7, <2>8
<1> QED BY <1>1, <1>3, <1>4, <1>5

\* What NothingLost says of the next state, batch by batch.
LEMMA NothingLostNext ==
    ASSUME mwpc' \in {"running", "ok"} =>
             \A k \in Batches : \A item \in BatchItems(k) :
                /\ k < batch' => Pushed(k, item)'
                /\ k = batch' =>
                     \/ item \in unsent' \cup channel'
                     \/ \E j \in Workers : /\ worker'[j].pc \in {"busy", "failed"}
                                           /\ worker'[j].item = item
                     \/ Pushed(k, item)',
           batch' \in Batches
    PROVE  NothingLost'
  BY DEF NothingLost, Pushed

\* A step that pushes nothing disturbs no pool.
LEMMA PoolUndisturbed ==
    ASSUME PoolInv, Grows, UNCHANGED mwVars
    PROVE  PoolInv'
<1>1. UNCHANGED <<mwpc, batch, unsent, channel, worker>>
  BY DEF mwVars
<1>2. PoolTypes' /\ PoolEnds'
  BY <1>1 DEF PoolInv, PoolTypes, PoolEnds, Ended
<1>3. batch' \in Batches
  BY <1>1 DEF PoolInv, PoolTypes
<1>4. NothingLost'
  BY <1>1, <1>3, GrowthKeeps, NothingLostNext DEF PoolInv, NothingLost
<1>5. PoolIsWell'
  BY <1>1 DEF PoolInv, PoolIsWell, Grows
<1> QED BY <1>2, <1>4, <1>5 DEF PoolInv

\* A batch starts with all its items unsent and all workers idle.
LEMMA StartBatchStep ==
    ASSUME PoolInv, NEW k \in Batches, StartBatch(k), Grows,
           mwpc' = "running", Pushable,
           \A l \in Batches : l < k => \A item \in BatchItems(l) : Pushed(l, item)
    PROVE  PoolInv'
<1>1. /\ batch' = k /\ unsent' = BatchItems(k) /\ channel' = {}
      /\ worker' = [j \in Workers |-> IdleWorker]
  BY DEF StartBatch
<1>2. IdleWorker \in WorkerStates /\ IdleWorker.pc = "idle"
  BY DEF IdleWorker, WorkerStates
<1>3. PoolTypes'
  BY <1>1, <1>2 DEF PoolTypes
<1>4. PoolEnds'
  BY <1>1, <1>2 DEF PoolEnds
<1>5. NothingLost'
  <2>1. \A l \in Batches : \A item \in BatchItems(l) :
           /\ l < batch' => Pushed(l, item)'
           /\ l = batch' => item \in unsent' \cup channel'
    BY <1>1, GrowthKeeps
  <2> QED BY <1>1, <2>1, NothingLostNext
<1>6. PoolIsWell'
  BY <1>1, <1>2 DEF PoolIsWell
<1> QED BY <1>3, <1>4, <1>5, <1>6 DEF PoolInv

\* Every step of MultiWrite keeps the invariant.
LEMMA MWKeepsInv ==
    ASSUME RegInv, PoolInv, MWNext
    PROVE  Grows /\ RegInv' /\ PoolInv'
<1>1. /\ batch \in Batches /\ Depth \in Nat /\ Len(ManifestBatches) = Depth + 2
      /\ worker \in [Workers -> WorkerStates] /\ Workers # {}
      /\ \A j \in Workers : worker[j] \in WorkerStates
  BY ItemFacts, MultiWriteAssumption DEF PoolInv, PoolTypes
<1>2. UNCHANGED <<regVars, faults>> => Grows /\ RegInv'
  BY QuietRequest DEF NoFault
<1>3. CASE Plan
  <2>1. Grows /\ RegInv' /\ mwpc = "start"
    BY <1>2, <1>3 DEF Plan
  <2>2. CASE Pushable
    <3>1. mwpc' = "running" /\ StartBatch(0)
      BY <1>3, <2>2 DEF Plan
    <3>2. 0 \in Batches /\ \A l \in Batches : ~(l < 0)
      BY <1>1 DEF Batches
    <3>3. PoolInv'
      BY <2>1, <2>2, <3>1, <3>2, StartBatchStep
    <3> QED BY <2>1, <3>3
  <2>3. CASE ~Pushable
    <3>1. mwpc' = "failed" /\ UNCHANGED <<batch, unsent, channel, worker>>
      BY <1>3, <2>3 DEF Plan
    <3>2. unsent \cup channel = {} /\ \A j \in Workers : worker[j].pc = "idle"
      BY <2>1 DEF PoolInv, PoolEnds
    <3>3. PoolTypes' /\ PoolEnds' /\ NothingLost' /\ PoolIsWell'
      BY <2>3, <3>1, <3>2 DEF PoolInv, PoolTypes, PoolEnds, NothingLost, PoolIsWell
    <3> QED BY <2>1, <3>3 DEF PoolInv
  <2> QED BY <2>2, <2>3
<1>4. CASE Feed
  <2>1. Grows /\ RegInv' /\ UNCHANGED <<mwpc, batch, worker>>
    BY <1>2, <1>4 DEF Feed
  <2>2. unsent' \cup channel' = unsent \cup channel
    BY <1>4 DEF Feed
  <2>3. PoolTypes' /\ PoolEnds'
    BY <2>1, <2>2 DEF PoolInv, PoolTypes, PoolEnds, Ended
  <2>4. NothingLost'
    BY <1>1, <2>1, <2>2, GrowthKeeps, NothingLostNext DEF PoolInv, NothingLost
  <2>5. PoolIsWell'
    BY <2>1 DEF PoolInv, PoolIsWell, Grows
  <2> QED BY <2>1, <2>3, <2>4, <2>5 DEF PoolInv
<1>5. ASSUME NEW j \in Workers, Take(j)
      PROVE  Grows /\ RegInv' /\ PoolInv'
  <2>1. Grows /\ RegInv' /\ UNCHANGED <<mwpc, batch, unsent>> /\ worker[j].pc = "idle"
    BY <1>2, <1>5 DEF Take
  <2>2. PICK item \in channel :
          /\ channel' = channel \ {item}
          /\ worker' = [worker EXCEPT ![j] = [pc |-> "busy", item |-> item]]
    BY <1>5 DEF Take
  <2>3. mwpc = "running" /\ \A i \in Workers : worker[i].pc # "done"
    BY <2>1, <2>2 DEF PoolInv, PoolTypes, PoolEnds, Ended
  <2>4. item \in BatchItems(batch)
    BY <2>2 DEF PoolInv, PoolTypes
  <2>5. /\ worker'[j].pc = "busy" /\ worker'[j].item = item
        /\ \A i \in Workers : i # j => worker'[i] = worker[i]
    BY <1>1, <2>2
  <2>6. PoolTypes'
    <3>1. [pc |-> "busy", item |-> item] \in WorkerStates
      BY <1>1, <2>4 DEF WorkerStates
    <3>2. worker' \in [Workers -> WorkerStates]
      BY <1>1, <2>2, <3>1
    <3> QED BY <2>1, <2>2, <2>4, <2>5, <3>2 DEF PoolInv, PoolTypes
  <2>7. PoolEnds'
    BY <2>1, <2>3, <2>5 DEF PoolInv, PoolEnds
  <2>8. NothingLost'
    <3>1. ASSUME NEW k \in Batches, k = batch, NEW other \in BatchItems(k)
          PROVE  \/ other \in unsent' \cup channel'
                 \/ \E i \in Workers : /\ worker'[i].pc \in {"busy", "failed"}
                                       /\ worker'[i].item = other
                 \/ Pushed(k, other)'
      <4>1. CASE other = item
        BY <2>5, <4>1
      <4>2. CASE other # item /\ other \in unsent \cup channel
        BY <2>1, <2>2, <4>2
      <4>3. CASE \E i \in Workers : worker[i].pc \in {"busy", "failed"} /\ worker[i].item = other
        BY <2>1, <2>5, <4>3
      <4>4. CASE Pushed(batch, other)
        BY <2>1, <3>1, <4>4, GrowthKeeps
      <4> QED BY <2>3, <3>1, <4>1, <4>2, <4>3, <4>4 DEF PoolInv, NothingLost
    <3>2. \A k \in Batches : k < batch => \A other \in BatchItems(k) : Pushed(k, other)'
      BY <2>1, <2>3, GrowthKeeps DEF PoolInv, NothingLost
    <3> QED BY <1>1, <2>1, <3>1, <3>2, NothingLostNext
  <2>9. PoolIsWell'
    BY <2>1, <2>3, <2>5 DEF PoolInv, PoolIsWell, Grows
  <2> QED BY <2>1, <2>6, <2>7, <2>8, <2>9 DEF PoolInv
<1>6. ASSUME NEW j \in Workers, PushItem(j)
      PROVE  Grows /\ RegInv' /\ PoolInv'
  <2>0. PICK item : item = worker[j].item
    OBVIOUS
  <2>1. UNCHANGED <<mwpc, batch, unsent, channel>> /\ worker[j].pc = "busy"
    BY <1>6 DEF PushItem
  <2>2. mwpc = "running" /\ item \in BatchItems(batch)
    BY <2>0, <2>1 DEF PoolInv, PoolTypes, PoolEnds, Ended
  <2>3. \/ /\ Grows /\ RegInv' /\ Pushed(batch, item)'
           /\ worker' = [worker EXCEPT ![j] = IdleWorker]
        \/ /\ Grows /\ RegInv' /\ faults' # 0
           /\ worker' = [worker EXCEPT ![j].pc = "failed"]
    <3>1. CASE batch = 0
      <4>1. \/ UploadOne(item.blob) /\ worker' = [worker EXCEPT ![j] = IdleWorker]
            \/ UploadOneFails(item.blob) /\ worker' = [worker EXCEPT ![j].pc = "failed"]
        BY <1>6, <2>0, <3>1 DEF PushItem
      <4>2. Stored(item.blob)' => Pushed(batch, item)'
        BY <2>1, <3>1 DEF Pushed
      <4>3. /\ Grows /\ RegInv'
            /\ UploadOne(item.blob) => Stored(item.blob)'
            /\ UploadOneFails(item.blob) => faults' # 0
        BY <4>1, UploadRequest
      <4> QED BY <4>1, <4>2, <4>3
    <3>2. CASE batch # 0
      <4>1. \/ /\ CommitManifest(MWRepo, item.target, item.doc)
               /\ worker' = [worker EXCEPT ![j] = IdleWorker]
            \/ /\ CommitManifestFails(MWRepo, item.target, item.doc)
               /\ worker' = [worker EXCEPT ![j].pc = "failed"]
        BY <1>6, <2>0, <3>2 DEF PushItem
      <4>2. item.doc \in Docs /\ item.target \in Tags \cup {Sha256(item.doc)}
        BY <1>1, <2>2, <3>2, ItemFacts
      <4>3. \A child \in ListedIn(item.doc) : Listed(MWRepo, Sha256(child))
        <5> SUFFICES ASSUME NEW child \in ListedIn(item.doc)
                     PROVE  Listed(MWRepo, Sha256(child))
          OBVIOUS
        <5>1. PICK l \in Batches \ {0} :
                 l < batch /\ AsItem(Sha256(child), child) \in BatchItems(l)
          BY <1>1, <2>2, <3>2, ListedComesFirst
        <5>2. Pushed(l, AsItem(Sha256(child), child))
          BY <2>2, <5>1 DEF PoolInv, NothingLost
        <5> QED BY <5>1, <5>2 DEF Pushed, Committed, AsItem
      <4>4. /\ Grows /\ RegInv'
            /\ CommitManifest(MWRepo, item.target, item.doc) =>
                  Committed(MWRepo, item.target, item.doc)'
            /\ CommitManifestFails(MWRepo, item.target, item.doc) => faults' # 0
        <5>1. /\ CommitManifest(MWRepo, item.target, item.doc) =>
                    Grows /\ RegInv' /\ Committed(MWRepo, item.target, item.doc)'
              /\ CommitManifestFails(MWRepo, item.target, item.doc) =>
                    /\ Grows /\ RegInv'
                    /\ \/ faults' # 0
                       \/ \E child \in ListedIn(item.doc) : ~Listed(MWRepo, Sha256(child))
          BY <4>2, ManifestRequest
        <5> QED BY <4>1, <4>3, <5>1
      <4>5. CASE /\ CommitManifest(MWRepo, item.target, item.doc)
                 /\ worker' = [worker EXCEPT ![j] = IdleWorker]
        <5>1. Pushed(batch, item)'
          BY <2>1, <3>2, <4>4, <4>5 DEF Pushed
        <5> QED BY <4>4, <4>5, <5>1
      <4>6. CASE /\ CommitManifestFails(MWRepo, item.target, item.doc)
                 /\ worker' = [worker EXCEPT ![j].pc = "failed"]
        BY <4>4, <4>6
      <4> QED BY <4>1, <4>5, <4>6
    <3> QED BY <3>1, <3>2
  <2>4. Grows /\ RegInv'
    BY <2>3
  <2>5. /\ worker' \in [Workers -> WorkerStates]
        /\ \A i \in Workers : i # j => worker'[i] = worker[i]
        /\ \/ worker'[j].pc = "idle" /\ Pushed(batch, item)'
           \/ worker'[j].pc = "failed" /\ worker'[j].item = item /\ faults' # 0
    <3>1. CASE worker' = [worker EXCEPT ![j] = IdleWorker] /\ Pushed(batch, item)'
      <4>1. IdleWorker \in WorkerStates /\ IdleWorker.pc = "idle"
        BY DEF IdleWorker, WorkerStates
      <4> QED BY <1>1, <3>1, <4>1
    <3>2. CASE worker' = [worker EXCEPT ![j].pc = "failed"] /\ faults' # 0
      <4>1. /\ [worker[j] EXCEPT !.pc = "failed"] \in WorkerStates
            /\ [worker[j] EXCEPT !.pc = "failed"].pc = "failed"
            /\ [worker[j] EXCEPT !.pc = "failed"].item = worker[j].item
        BY <1>1 DEF WorkerStates
      <4>2. /\ worker'[j] = [worker[j] EXCEPT !.pc = "failed"]
            /\ \A i \in Workers : i # j => worker'[i] = worker[i]
            /\ worker' \in [Workers -> WorkerStates]
        BY <1>1, <3>2, <4>1
      <4> QED BY <2>0, <3>2, <4>1, <4>2
    <3> QED BY <2>3, <3>1, <3>2
  <2>6. PoolTypes'
    BY <2>1, <2>2, <2>5 DEF PoolInv, PoolTypes
  <2>7. PoolEnds'
    BY <2>1, <2>2, <2>5 DEF PoolInv, PoolEnds
  <2>8. NothingLost'
    <3>1. ASSUME NEW k \in Batches, k = batch, NEW other \in BatchItems(k)
          PROVE  \/ other \in unsent' \cup channel'
                 \/ \E i \in Workers : /\ worker'[i].pc \in {"busy", "failed"}
                                       /\ worker'[i].item = other
                 \/ Pushed(k, other)'
      <4>1. CASE other = item
        <5>1. Pushed(batch, item)' => Pushed(k, other)'
          BY <2>1, <3>1, <4>1 DEF Pushed
        <5> QED BY <2>5, <4>1, <5>1
      <4>2. CASE other \in unsent \cup channel
        BY <2>1, <4>2
      <4>3. CASE /\ other # item
                 /\ \E i \in Workers : worker[i].pc \in {"busy", "failed"} /\ worker[i].item = other
        BY <2>0, <2>5, <4>3
      <4>4. CASE Pushed(batch, other)
        BY <2>4, <3>1, <4>4, GrowthKeeps
      <4> QED BY <2>2, <3>1, <4>1, <4>2, <4>3, <4>4 DEF PoolInv, NothingLost
    <3>2. \A k \in Batches : k < batch => \A other \in BatchItems(k) : Pushed(k, other)'
      BY <2>2, <2>4, GrowthKeeps DEF PoolInv, NothingLost
    <3> QED BY <1>1, <2>1, <3>1, <3>2, NothingLostNext
  <2>9. PoolIsWell'
    BY <2>1, <2>2, <2>4, <2>5 DEF PoolInv, PoolIsWell, Grows
  <2> QED BY <2>4, <2>6, <2>7, <2>8, <2>9 DEF PoolInv
<1>7. ASSUME NEW j \in Workers, Finish(j)
      PROVE  Grows /\ RegInv' /\ PoolInv'
  <2>1. /\ Grows /\ RegInv' /\ UNCHANGED <<mwpc, batch, unsent, channel>>
        /\ mwpc = "running" /\ worker[j].pc = "idle" /\ unsent \cup channel = {}
        /\ worker' = [worker EXCEPT ![j].pc = "done"]
    BY <1>2, <1>7 DEF Finish
  <2>2. /\ [worker[j] EXCEPT !.pc = "done"] \in WorkerStates
        /\ [worker[j] EXCEPT !.pc = "done"].pc = "done"
    BY <1>1 DEF WorkerStates
  <2>3. /\ worker'[j].pc = "done"
        /\ \A i \in Workers : i # j => worker'[i] = worker[i]
        /\ worker' \in [Workers -> WorkerStates]
    BY <1>1, <2>1, <2>2
  <2>4. PoolTypes'
    BY <2>1, <2>3 DEF PoolInv, PoolTypes
  <2>5. PoolEnds'
    BY <2>1, <2>3 DEF PoolInv, PoolEnds
  <2>6. NothingLost'
    <3>1. ASSUME NEW k \in Batches, k = batch, NEW other \in BatchItems(k)
          PROVE  \/ other \in unsent' \cup channel'
                 \/ \E i \in Workers : /\ worker'[i].pc \in {"busy", "failed"}
                                       /\ worker'[i].item = other
                 \/ Pushed(k, other)'
      <4>1. CASE \E i \in Workers : worker[i].pc \in {"busy", "failed"} /\ worker[i].item = other
        BY <2>1, <2>3, <4>1
      <4>2. CASE Pushed(batch, other)
        BY <2>1, <3>1, <4>2, GrowthKeeps
      <4> QED BY <2>1, <3>1, <4>1, <4>2 DEF PoolInv, NothingLost
    <3>2. \A k \in Batches : k < batch => \A other \in BatchItems(k) : Pushed(k, other)'
      BY <2>1, GrowthKeeps DEF PoolInv, NothingLost
    <3> QED BY <1>1, <2>1, <3>1, <3>2, NothingLostNext
  <2>7. PoolIsWell'
    BY <2>1, <2>3 DEF PoolInv, PoolIsWell, Grows
  <2> QED BY <2>1, <2>4, <2>5, <2>6, <2>7 DEF PoolInv
<1>8. CASE WaitForBatch
  <2>1. Grows /\ RegInv' /\ mwpc = "running" /\ \A j \in Workers : Ended(j)
    BY <1>2, <1>8 DEF WaitForBatch
  <2>2. CASE \E j \in Workers : worker[j].pc = "failed"
    <3>1. mwpc' = "failed" /\ UNCHANGED <<batch, unsent, channel, worker>>
      BY <1>8, <2>2 DEF WaitForBatch
    <3>2. faults' # 0
      BY <2>1, <2>2 DEF PoolInv, PoolIsWell, Grows
    <3>3. PoolTypes' /\ PoolEnds' /\ NothingLost' /\ PoolIsWell'
      BY <2>1, <3>1, <3>2 DEF PoolInv, PoolTypes, PoolEnds, Ended, NothingLost, PoolIsWell
    <3> QED BY <2>1, <3>3 DEF PoolInv
  <2>3. CASE ~\E j \in Workers : worker[j].pc = "failed"
    <3>1. \A j \in Workers : worker[j].pc = "done"
      BY <2>1, <2>3 DEF Ended
    <3>2. unsent \cup channel = {}
      BY <1>1, <3>1 DEF PoolInv, PoolEnds
    <3>3. \A k \in Batches : k <= batch => \A item \in BatchItems(k) : Pushed(k, item)
      <4>1. \A item \in BatchItems(batch) : Pushed(batch, item)
        BY <2>1, <3>1, <3>2 DEF PoolInv, NothingLost
      <4>2. \A k \in Batches : k <= batch => k < batch \/ k = batch
        BY <1>1 DEF Batches
      <4> QED BY <2>1, <4>1, <4>2 DEF PoolInv, NothingLost
    <3>4. CASE batch = Len(ManifestBatches)
      <4>1. mwpc' = "ok" /\ UNCHANGED <<batch, unsent, channel, worker>>
        BY <1>8, <2>3, <3>4 DEF WaitForBatch
      <4>2. PoolTypes' /\ PoolEnds' /\ PoolIsWell'
        BY <1>1, <2>1, <3>1, <3>4, <4>1 DEF PoolInv, PoolTypes, PoolEnds, PoolIsWell
      <4>3. NothingLost'
        BY <1>1, <2>1, <4>1, GrowthKeeps, NothingLostNext DEF PoolInv, NothingLost
      <4> QED BY <2>1, <4>2, <4>3 DEF PoolInv
    <3>5. CASE batch # Len(ManifestBatches)
      <4>1. StartBatch(batch + 1) /\ mwpc' = "running"
        BY <1>8, <2>1, <2>3, <3>5 DEF WaitForBatch
      <4>2. batch + 1 \in Batches /\ \A l \in Batches : l < batch + 1 => l <= batch
        BY <1>1, <3>5 DEF Batches
      <4>3. Pushable
        BY <2>1 DEF PoolInv, PoolEnds
      <4>4. PoolInv'
        BY <2>1, <3>3, <4>1, <4>2, <4>3, StartBatchStep
      <4> QED BY <2>1, <4>4
    <3> QED BY <3>4, <3>5
  <2> QED BY <2>2, <2>3
<1> QED BY <1>3, <1>4, <1>5, <1>6, <1>7, <1>8 DEF MWNext

(***************************************************************************)
(* WriteIndex.                                                             *)
(***************************************************************************)

\* A stack with one call less.
LEMMA TailFacts ==
    ASSUME NEW S, NEW s \in Seq(S), s # <<>>
    PROVE  /\ Len(s) \in Nat \ {0}
           /\ Tail(s) \in Seq(S) /\ Len(Tail(s)) = Len(s) - 1
           /\ Tail(s) = <<>> <=> Len(s) = 1
           /\ \A i \in 1 .. Len(s) - 1 : Tail(s)[i] = s[i + 1]
<1>1. Len(s) \in Nat \ {0}
  OBVIOUS
<1>2. Tail(s) \in Seq(S) /\ Len(Tail(s)) = Len(s) - 1
  BY <1>1
<1>3. \A i \in 1 .. Len(s) - 1 : Tail(s)[i] = s[i + 1]
  BY <1>1
<1>4. Tail(s) = <<>> <=> Len(Tail(s)) = 0
  <2>1. \A t \in Seq(S) : t = <<>> <=> Len(t) = 0
    OBVIOUS
  <2> QED BY <1>2, <2>1
<1>5. Len(Tail(s)) = 0 <=> Len(s) = 1
  BY <1>1, <1>2
<1> QED BY <1>1, <1>2, <1>3, <1>4, <1>5

\* A stack with another innermost call, and with one more.
LEMMA StackFacts ==
    ASSUME NEW S, NEW s \in Seq(S), s # <<>>, NEW x \in S
    PROVE  /\ Len(s) \in Nat \ {0} /\ Head(s) = s[1] /\ s[1] \in S
           /\ LET r == <<x>> \o Tail(s)
              IN  /\ r \in Seq(S) /\ r # <<>> /\ Len(r) = Len(s) /\ r[1] = x
                  /\ \A i \in 2 .. Len(s) : r[i] = s[i]
           /\ LET r == <<x>> \o s
              IN  /\ r \in Seq(S) /\ r # <<>> /\ Len(r) = Len(s) + 1 /\ r[1] = x
                  /\ \A i \in 1 .. Len(s) : r[i + 1] = s[i]
<1>1. Len(s) \in Nat \ {0} /\ Head(s) = s[1] /\ s[1] \in S
  OBVIOUS
<1>2. <<x>> \in Seq(S) /\ Len(<<x>>) = 1 /\ <<x>>[1] = x
  OBVIOUS
<1>3. /\ Tail(s) \in Seq(S) /\ Len(Tail(s)) = Len(s) - 1
      /\ \A i \in 1 .. Len(s) - 1 : Tail(s)[i] = s[i + 1]
  BY TailFacts
<1>4. LET r == <<x>> \o s
      IN  /\ r \in Seq(S) /\ r # <<>> /\ Len(r) = Len(s) + 1 /\ r[1] = x
          /\ \A i \in 1 .. Len(s) : r[i + 1] = s[i]
  BY <1>1, <1>2
<1>5. LET r == <<x>> \o Tail(s)
      IN  /\ r \in Seq(S) /\ r # <<>> /\ Len(r) = Len(s) /\ r[1] = x
          /\ \A i \in 2 .. Len(s) : r[i] = s[i]
  <2>1. /\ <<x>> \o Tail(s) \in Seq(S) /\ <<x>> \o Tail(s) # <<>>
        /\ Len(<<x>> \o Tail(s)) = Len(s) /\ (<<x>> \o Tail(s))[1] = x
    BY <1>1, <1>2, <1>3
  <2>2. \A i \in 2 .. Len(s) : i - 1 \in 1 .. Len(s) - 1 /\ (i - 1) + 1 = i
    BY <1>1
  <2>3. \A i \in 2 .. Len(s) : (<<x>> \o Tail(s))[i] = Tail(s)[i - 1]
    BY <1>1, <1>2, <1>3
  <2> QED BY <1>3, <2>1, <2>2, <2>3
<1> QED BY <1>1, <1>3, <1>4, <1>5

\* A step of MultiWrite disturbs no walk.
LEMMA WalkUndisturbed ==
    ASSUME WalkInv, Grows, UNCHANGED wiVars
    PROVE  WalkInv'
<1>1. UNCHANGED <<root, wipc, stack, pushing>>
  BY DEF wiVars
<1>2. WalkTypes' /\ Calls'
  BY <1>1 DEF WalkInv, WalkTypes, Calls, Grows
<1>3. Passing'
  BY <1>1 DEF WalkInv, Passing, Grows
<1>4. WalkEnds'
  <2>1. Top' = Top
    BY <1>1 DEF Top
  <2>2. Committed(WIRepo, WITarget, root) => Committed(WIRepo, WITarget, root)'
    BY <1>1, GrowthKeeps DEF Committed, Grows, Sha256, ListedIn
  <2> QED BY <1>1, <2>1, <2>2 DEF WalkInv, WalkEnds, Grows
<1> QED BY <1>2, <1>3, <1>4 DEF WalkInv

\* A walk that fails needs a fault or a document that is passed over.
LEMMA WalkFails ==
    ASSUME WalkInv, Grows, WIFails, UNCHANGED root,
           faults' # 0 \/ ListedIn(Top.doc) \cap OtherDocs # {}
    PROVE  WalkInv'
<1>1. wipc' = "failed" /\ UNCHANGED <<root, stack, pushing>>
  BY DEF WIFails
<1>2. Top' = Top
  BY <1>1 DEF Top
<1> QED BY <1>1, <1>2 DEF WalkInv, WalkTypes, Calls, Passing, WalkEnds

\* Every step of WriteIndex keeps the invariant.
LEMMA WIKeepsInv ==
    ASSUME RegInv, WalkInv, WINext
    PROVE  Grows /\ RegInv' /\ WalkInv'
<1>1. /\ UNCHANGED root /\ root \in IndexDocs /\ WIRepo \in Repos /\ WITarget \in Tags
      /\ stack \in Seq(CallStates)
  BY WriteIndexAssumption DEF WINext, WalkInv, WalkTypes
<1>2. IndexDocs \subseteq Docs /\ ImageDocs \subseteq Docs
  BY DEF Docs
<1>3. UNCHANGED <<regVars, faults>> => Grows /\ RegInv'
  BY QuietRequest DEF NoFault
<1>4. ASSUME wipc \in {"walk", "image"}
      PROVE  /\ stack # <<>> /\ Len(stack) \in Nat \ {0} /\ Top = stack[1]
             /\ Top \in CallStates /\ Top.doc \in IndexDocs
             /\ Top.target \in Tags \cup {Sha256(Top.doc)}
             /\ Len(stack) = 1 => Top.doc = root /\ Top.target = WITarget
             /\ Len(stack) # 1 => Top.target = Sha256(Top.doc)
  <2>1. /\ stack # <<>> /\ Len(stack) \in Nat \ {0} /\ Top = stack[1]
        /\ Top \in CallStates
    BY <1>1, <1>4 DEF WalkInv, WalkTypes, Top
  <2>2. 1 \in 1 .. Len(stack)
    BY <2>1
  <2>3. Top.doc \in IndexDocs
    BY <2>1 DEF CallStates
  <2>4. IF Len(stack) = 1 THEN Top.doc = root /\ Top.target = WITarget
                          ELSE Top.target = Sha256(Top.doc)
    BY <2>1, <2>2 DEF WalkInv, Calls
  <2> QED BY <1>1, <2>1, <2>3, <2>4
<1>5. CASE CheckChild
  <2>1. Grows /\ RegInv' /\ wipc = "walk" /\ UNCHANGED <<regVars, faults>>
    BY <1>3, <1>5 DEF CheckChild, NoFault
  <2>2. PICK child \in Top.todo :
          \/ /\ Exists(WIRepo, child) \/ child \in OtherDocs
             /\ stack' = Passed(child) /\ UNCHANGED <<wipc, pushing>>
          \/ /\ child \in IndexDocs
             /\ stack' = <<Call(child, Sha256(child))>> \o Passed(child)
             /\ UNCHANGED <<wipc, pushing>>
          \/ /\ child \in ImageDocs /\ stack' = Passed(child) /\ wipc' = "image"
             /\ pushing' = [doc |-> child, blobs |-> Required(child), failed |-> FALSE]
    BY <1>5 DEF CheckChild
  <2> DEFINE top == [Top EXCEPT !.todo = @ \ {child}]
  <2>3. /\ top \in CallStates /\ top.doc = Top.doc /\ top.target = Top.target
        /\ top.todo = Top.todo \ {child}
    BY <1>4, <2>1 DEF CallStates
  <2> HIDE DEF top
  <2> DEFINE passed == Passed(child)
  <2>4. /\ passed \in Seq(CallStates) /\ passed # <<>> /\ Len(passed) = Len(stack)
        /\ passed[1] = top /\ \A i \in 2 .. Len(stack) : passed[i] = stack[i]
    BY <1>1, <1>4, <2>1, <2>3, StackFacts DEF Passed, top
  <2> HIDE DEF passed
  <2>5. \A i \in 1 .. Len(stack) :
           /\ passed[i].doc = stack[i].doc /\ passed[i].target = stack[i].target
           /\ i # 1 => passed[i] = stack[i]
    BY <1>4, <2>1, <2>3, <2>4
  <2>6. \A i \in 1 .. Len(stack) : \A other \in ListedIn(passed[i].doc) \ passed[i].todo :
           \/ other \in OtherDocs
           \/ Listed(WIRepo, Sha256(other))'
           \/ i > 1 /\ passed[i - 1].doc = other
           \/ i = 1 /\ other = child
    <3> SUFFICES ASSUME NEW i \in 1 .. Len(stack),
                        NEW other \in ListedIn(passed[i].doc) \ passed[i].todo,
                        ~(i = 1 /\ other = child)
                 PROVE  \/ other \in OtherDocs
                        \/ Listed(WIRepo, Sha256(other))'
                        \/ i > 1 /\ passed[i - 1].doc = other
      OBVIOUS
    <3>1. other \in ListedIn(stack[i].doc) \ stack[i].todo
      BY <1>4, <2>1, <2>3, <2>4, <2>5
    <3>2. \/ other \in OtherDocs
          \/ Listed(WIRepo, Sha256(other))
          \/ i > 1 /\ stack[i - 1].doc = other
      BY <2>1, <3>1 DEF WalkInv, Passing
    <3>3. i > 1 => i - 1 \in 1 .. Len(stack)
      BY <1>4, <2>1
    <3> QED BY <2>1, <2>5, <3>2, <3>3 DEF Grows
  <2>7. CASE stack' = passed /\ UNCHANGED <<wipc, pushing>>
             /\ (Exists(WIRepo, child) \/ child \in OtherDocs)
    <3>1. child \in OtherDocs \/ Listed(WIRepo, Sha256(child))'
      BY <2>1, <2>7 DEF Exists, ManifestStatus, Listed, Grows
    <3>2. WalkTypes'
      BY <1>1, <2>1, <2>4, <2>7 DEF WalkInv, WalkTypes
    <3>3. Calls'
      BY <1>1, <2>4, <2>5, <2>7 DEF WalkInv, Calls
    <3>4. Passing'
      BY <2>4, <2>6, <2>7, <3>1 DEF Passing
    <3>5. WalkEnds'
      BY <2>1, <2>7 DEF WalkEnds
    <3> QED BY <2>1, <3>2, <3>3, <3>4, <3>5 DEF WalkInv
  <2>8. CASE /\ child \in IndexDocs
             /\ stack' = <<Call(child, Sha256(child))>> \o passed
             /\ UNCHANGED <<wipc, pushing>>
    <3> DEFINE call == Call(child, Sha256(child))
    <3>1. /\ call \in CallStates /\ call.doc = child /\ call.target = Sha256(child)
          /\ call.todo = ListedIn(child)
      BY <2>8, DocumentFacts DEF Call, CallStates
    <3> HIDE DEF call
    <3>2. /\ stack' \in Seq(CallStates) /\ stack' # <<>> /\ Len(stack') = Len(stack) + 1
          /\ stack'[1] = call /\ \A i \in 1 .. Len(stack) : stack'[i + 1] = passed[i]
      BY <2>4, <2>8, <3>1, StackFacts DEF call
    <3>3. \A i \in 1 .. Len(stack') : i # 1 =>
             i - 1 \in 1 .. Len(stack) /\ stack'[i] = passed[i - 1] /\ (i = Len(stack') <=> i - 1 = Len(stack))
      <4> SUFFICES ASSUME NEW i \in 1 .. Len(stack'), i # 1
                   PROVE  /\ i - 1 \in 1 .. Len(stack) /\ stack'[i] = passed[i - 1]
                          /\ i = Len(stack') <=> i - 1 = Len(stack)
        OBVIOUS
      <4>1. i - 1 \in 1 .. Len(stack) /\ (i - 1) + 1 = i
            /\ (i = Len(stack') <=> i - 1 = Len(stack))
        BY <1>4, <2>1, <3>2
      <4>2. stack'[(i - 1) + 1] = passed[i - 1]
        BY <3>2, <4>1
      <4> QED BY <4>1, <4>2
    <3>4. WalkTypes'
      BY <1>1, <2>1, <2>8, <3>2 DEF WalkInv, WalkTypes
    <3>5. Calls'
      <4> SUFFICES ASSUME NEW i \in 1 .. Len(stack')
                   PROVE  IF i = Len(stack')
                            THEN stack'[i].doc = root /\ stack'[i].target = WITarget
                            ELSE stack'[i].target = Sha256(stack'[i].doc)
        BY <1>1 DEF Calls, Sha256
      <4>1. CASE i = 1
        BY <1>4, <2>1, <3>1, <3>2, <4>1
      <4>2. CASE i # 1
        BY <2>5, <3>3, <4>2 DEF WalkInv, Calls
      <4> QED BY <4>1, <4>2
    <3>6. Passing'
      <4> SUFFICES ASSUME NEW i \in 1 .. Len(stack'),
                          NEW other \in ListedIn(stack'[i].doc) \ stack'[i].todo
                   PROVE  \/ other \in OtherDocs
                          \/ Listed(WIRepo, Sha256(other))'
                          \/ i > 1 /\ stack'[i - 1].doc = other
        BY DEF Passing
      <4>1. CASE i = 1
        BY <3>1, <3>2, <4>1
      <4>2. CASE i # 1
        <5>1. i - 1 \in 1 .. Len(stack) /\ i > 1
              /\ other \in ListedIn(passed[i - 1].doc) \ passed[i - 1].todo
          BY <3>3, <4>2
        <5>2. \/ other \in OtherDocs
              \/ Listed(WIRepo, Sha256(other))'
              \/ i - 1 > 1 /\ passed[(i - 1) - 1].doc = other
              \/ i - 1 = 1 /\ other = child
          BY <2>6, <5>1
        <5>3. CASE i - 1 > 1 /\ passed[(i - 1) - 1].doc = other
          <6>1. i - 1 \in 1 .. Len(stack') /\ i - 1 # 1
            BY <1>4, <2>1, <3>2, <5>1, <5>3
          <6>2. stack'[i - 1] = passed[(i - 1) - 1]
            BY <3>3, <6>1
          <6> QED BY <5>1, <5>3, <6>2
        <5>4. CASE i - 1 = 1 /\ other = child
          BY <3>1, <3>2, <5>1, <5>4
        <5> QED BY <5>2, <5>3, <5>4
      <4> QED BY <4>1, <4>2
    <3>7. WalkEnds'
      BY <2>1, <2>8 DEF WalkEnds
    <3> QED BY <2>1, <3>4, <3>5, <3>6, <3>7 DEF WalkInv
  <2>9. CASE /\ child \in ImageDocs /\ stack' = passed /\ wipc' = "image"
             /\ pushing' = [doc |-> child, blobs |-> Required(child), failed |-> FALSE]
    <3>1. Required(child) \subseteq Blobs
      BY <2>9, ImagesAssumption DEF Required
    <3>2. /\ pushing' \in [doc : ImageDocs, blobs : SUBSET Blobs, failed : BOOLEAN]
          /\ pushing'.doc = child /\ ~pushing'.failed
      BY <2>9, <3>1
    <3>3. WalkTypes'
      BY <1>1, <2>4, <2>9, <3>2 DEF WalkInv, WalkTypes
    <3>4. Calls'
      BY <1>1, <2>4, <2>5, <2>9 DEF WalkInv, Calls
    <3>5. Passing'
      BY <2>4, <2>6, <2>9, <3>2 DEF Passing
    <3>6. WalkEnds'
      BY <2>9 DEF WalkEnds
    <3> QED BY <2>1, <3>3, <3>4, <3>5, <3>6 DEF WalkInv
  <2> QED BY <2>2, <2>7, <2>8, <2>9 DEF passed
<1>6. CASE CheckChildFails
  <2>1. Fault /\ WIFails /\ UNCHANGED regVars
    BY <1>6 DEF CheckChildFails
  <2>2. Grows /\ RegInv' /\ faults' # 0
    BY <2>1, QuietRequest DEF Fault, RegInv
  <2> QED BY <1>1, <2>1, <2>2, WalkFails
<1>7. CASE UploadBlob
  <2>1. wipc = "image" /\ UNCHANGED <<wipc, stack>>
        /\ pushing \in [doc : ImageDocs, blobs : SUBSET Blobs, failed : BOOLEAN]
    BY <1>7 DEF UploadBlob, WalkInv, WalkTypes
  <2>2. PICK b \in pushing.blobs :
          \/ UploadOne(b) /\ pushing' = [pushing EXCEPT !.blobs = @ \ {b}]
          \/ /\ UploadOneFails(b)
             /\ pushing' = [pushing EXCEPT !.blobs = @ \ {b}, !.failed = TRUE]
    BY <1>7 DEF UploadBlob
  <2>3. Grows /\ RegInv' /\ (UploadOneFails(b) => faults' # 0)
    BY <2>2, UploadRequest
  <2>4. /\ pushing' \in [doc : ImageDocs, blobs : SUBSET Blobs, failed : BOOLEAN]
        /\ pushing'.doc = pushing.doc
    BY <2>1, <2>2
  <2>5. faults' = 0 => ~pushing'.failed
    <3>1. CASE pushing' = [pushing EXCEPT !.blobs = @ \ {b}]
      <4>1. pushing'.failed = pushing.failed
        BY <2>1, <3>1
      <4> QED BY <2>1, <2>3, <4>1 DEF WalkInv, WalkTypes, Grows
    <3> QED BY <2>2, <2>3, <3>1
  <2>6. WalkTypes' /\ Calls' /\ WalkEnds'
    BY <1>1, <2>1, <2>4, <2>5 DEF WalkInv, WalkTypes, Calls, WalkEnds
  <2>7. Passing'
    BY <2>1, <2>3, <2>4 DEF WalkInv, Passing, Grows
  <2> QED BY <2>3, <2>6, <2>7 DEF WalkInv
<1>8. CASE CommitImage
  <2> DEFINE doc == pushing.doc
  <2>1. /\ wipc = "image" /\ doc \in ImageDocs /\ doc \in Docs
        /\ faults = 0 => ~pushing.failed
        /\ ListedIn(doc) = {}
    BY <1>2, <1>8, DocumentFacts, RegistryAssumption DEF CommitImage, WalkInv, WalkTypes
  <2>2. CASE /\ CommitManifest(WIRepo, Sha256(doc), doc)
             /\ wipc' = "walk" /\ pushing' = NotPushing /\ UNCHANGED stack
    <3>1. PICK d : d = pushing.doc
      OBVIOUS
    <3>2. Grows /\ RegInv' /\ Committed(WIRepo, Sha256(d), d)'
      BY <2>1, <2>2, <3>1, ManifestRequest
    <3>3. Listed(WIRepo, Sha256(d))'
      BY <3>2 DEF Committed
    <3>4. WalkTypes' /\ Calls' /\ WalkEnds'
      BY <1>1, <1>4, <2>1, <2>2 DEF WalkInv, WalkTypes, Calls, WalkEnds
    <3>5. Passing'
      <4> SUFFICES ASSUME NEW i \in 1 .. Len(stack),
                          NEW other \in ListedIn(stack[i].doc) \ stack[i].todo
                   PROVE  \/ other \in OtherDocs
                          \/ Listed(WIRepo, Sha256(other))'
                          \/ i > 1 /\ stack[i - 1].doc = other
        BY <2>2 DEF Passing
      <4>1. \/ other \in OtherDocs
            \/ Listed(WIRepo, Sha256(other))
            \/ i > 1 /\ stack[i - 1].doc = other
            \/ d = other
        BY <2>1, <3>1 DEF WalkInv, Passing
      <4> QED BY <3>2, <3>3, <4>1 DEF Grows
    <3> QED BY <3>2, <3>4, <3>5 DEF WalkInv
  <2>3. CASE CommitManifestFails(WIRepo, Sha256(doc), doc) /\ WIFails
    <3>1. Grows /\ RegInv' /\ faults' # 0
      BY <2>1, <2>3, ManifestRequest
    <3> QED BY <1>1, <2>3, <3>1, WalkFails
  <2>4. CASE pushing.failed /\ WIFails /\ NoFault /\ UNCHANGED regVars
    <3>1. Grows /\ RegInv' /\ faults' # 0
      BY <2>1, <2>4, QuietRequest DEF NoFault
    <3> QED BY <1>1, <2>4, <3>1, WalkFails
  <2> QED BY <1>8, <2>2, <2>3, <2>4 DEF CommitImage
<1>9. CASE CommitIndex
  <2>1. wipc = "walk" /\ Top.todo = {} /\ Top.doc \in Docs
        /\ Top.target \in Tags \cup {Sha256(Top.doc)}
    BY <1>2, <1>4, <1>9 DEF CommitIndex
  <2>2. \A child \in ListedIn(Top.doc) : child \in OtherDocs \/ Listed(WIRepo, Sha256(child))
    <3>1. 1 \in 1 .. Len(stack) /\ Top = stack[1]
      BY <1>4, <2>1
    <3> QED BY <2>1, <3>1 DEF WalkInv, Passing
  <2>3. CASE /\ CommitManifest(WIRepo, Top.target, Top.doc)
             /\ stack' = Tail(stack)
             /\ wipc' = IF Tail(stack) = <<>> THEN "ok" ELSE "walk"
             /\ UNCHANGED pushing
    <3>1. PICK d, target : d = Top.doc /\ target = Top.target
      OBVIOUS
    <3>2. Grows /\ RegInv' /\ Committed(WIRepo, target, d)'
      BY <2>1, <2>3, <3>1, ManifestRequest
    <3>3. /\ Len(stack) \in Nat \ {0} /\ stack' \in Seq(CallStates)
          /\ Len(stack') = Len(stack) - 1
          /\ stack' = <<>> <=> Len(stack) = 1
          /\ \A i \in 1 .. Len(stack') :
                /\ stack'[i] = stack[i + 1] /\ i + 1 \in 1 .. Len(stack)
                /\ i = Len(stack') <=> i + 1 = Len(stack)
      <4>1. /\ Len(stack) \in Nat \ {0}
            /\ Tail(stack) \in Seq(CallStates) /\ Len(Tail(stack)) = Len(stack) - 1
            /\ Tail(stack) = <<>> <=> Len(stack) = 1
            /\ \A i \in 1 .. Len(stack) - 1 : Tail(stack)[i] = stack[i + 1]
        BY <1>1, <1>4, <2>1, TailFacts
      <4>2. \A i \in 1 .. Len(stack) - 1 :
              i + 1 \in 1 .. Len(stack) /\ (i = Len(stack) - 1 <=> i + 1 = Len(stack))
        BY <4>1
      <4> QED BY <2>3, <4>1, <4>2
    <3>4. WalkTypes'
      BY <1>1, <2>3, <3>3 DEF WalkInv, WalkTypes
    <3>5. Calls'
      <4> SUFFICES ASSUME NEW i \in 1 .. Len(stack')
                   PROVE  IF i = Len(stack')
                            THEN stack'[i].doc = root /\ stack'[i].target = WITarget
                            ELSE stack'[i].target = Sha256(stack'[i].doc)
        BY <1>1 DEF Calls, Sha256
      <4> QED BY <3>3 DEF WalkInv, Calls
    <3>6. Passing'
      <4> SUFFICES ASSUME NEW i \in 1 .. Len(stack'),
                          NEW other \in ListedIn(stack'[i].doc) \ stack'[i].todo
                   PROVE  \/ other \in OtherDocs
                          \/ Listed(WIRepo, Sha256(other))'
                          \/ i > 1 /\ stack'[i - 1].doc = other
        BY DEF Passing
      <4>1. /\ i + 1 \in 1 .. Len(stack) /\ i + 1 > 1 /\ i + 1 # 1 /\ (i + 1) - 1 = i
            /\ other \in ListedIn(stack[i + 1].doc) \ stack[i + 1].todo
        BY <3>3
      <4>2. \/ other \in OtherDocs
            \/ Listed(WIRepo, Sha256(other))
            \/ stack[i].doc = other
        BY <2>1, <4>1 DEF WalkInv, Passing
      <4>3. CASE stack[i].doc = other /\ i = 1
        <5>1. other = d
          BY <1>4, <2>1, <3>1, <4>3
        <5> QED BY <3>2, <5>1 DEF Committed
      <4>4. CASE stack[i].doc = other /\ i # 1
        <5>1. i - 1 \in 1 .. Len(stack') /\ (i - 1) + 1 = i /\ i > 1
          BY <3>3, <4>4
        <5>2. stack'[i - 1] = stack[(i - 1) + 1]
          BY <3>3, <5>1
        <5> QED BY <4>4, <5>1, <5>2
      <4> QED BY <3>2, <4>2, <4>3, <4>4 DEF Grows
    <3>7. WalkEnds'
      <4>1. wipc' = "ok" => d = root /\ target = WITarget
        BY <1>4, <2>1, <2>3, <3>1, <3>3
      <4>2. wipc' # "failed"
        BY <2>3
      <4> QED BY <1>1, <3>2, <4>1, <4>2 DEF WalkEnds
    <3> QED BY <3>2, <3>4, <3>5, <3>6, <3>7 DEF WalkInv
  <2>4. CASE CommitManifestFails(WIRepo, Top.target, Top.doc) /\ WIFails
    <3>1. /\ Grows /\ RegInv'
          /\ \/ faults' # 0
             \/ \E child \in ListedIn(Top.doc) : ~Listed(WIRepo, Sha256(child))
      BY <2>1, <2>4, ManifestRequest
    <3>2. faults' # 0 \/ ListedIn(Top.doc) \cap OtherDocs # {}
      BY <2>2, <3>1
    <3> QED BY <1>1, <2>4, <3>1, <3>2, WalkFails
  <2> QED BY <1>9, <2>3, <2>4 DEF CommitIndex
<1> QED BY <1>5, <1>6, <1>7, <1>8, <1>9 DEF WINext

(***************************************************************************)
(* The invariant holds.                                                    *)
(***************************************************************************)

\* Nothing is pushed at first, and one call is on the stack.
LEMMA InitIInv == Init => IInv
<1> SUFFICES ASSUME Init
             PROVE  IInv
  OBVIOUS
<1>1. RegInv
  BY DEF Init, PushInit, RegInit, RegInv, KeysMatch, Listed
<1>2. PoolInv
  <2>1. /\ mwpc = "start" /\ batch = 0 /\ unsent \cup channel = {}
        /\ worker = [j \in Workers |-> IdleWorker]
    BY DEF Init, MWInit
  <2>2. IdleWorker \in WorkerStates /\ IdleWorker.pc = "idle"
    BY DEF IdleWorker, WorkerStates
  <2>3. 0 \in Batches
    BY LevelsSolve, DepthFacts DEF Batches
  <2>4. \A j \in Workers : worker[j].pc = "idle"
    BY <2>1, <2>2
  <2>5. PoolTypes
    BY <2>1, <2>2, <2>3, <2>4 DEF PoolTypes
  <2> QED BY <2>1, <2>4, <2>5 DEF PoolInv, PoolEnds, NothingLost, PoolIsWell
<1>3. WalkInv
  <2>1. /\ root \in WIIndexes /\ root \in IndexDocs /\ wipc = "walk"
        /\ stack = <<Call(root, WITarget)>>
    BY WriteIndexAssumption DEF Init, WIInit
  <2> DEFINE call == Call(root, WITarget)
  <2>2. /\ call \in CallStates /\ call.doc = root /\ call.target = WITarget
        /\ call.todo = ListedIn(root)
    BY <2>1, WriteIndexAssumption, DocumentFacts DEF Call, CallStates
  <2> HIDE DEF call
  <2>3. stack \in Seq(CallStates) /\ stack # <<>> /\ Len(stack) = 1 /\ stack[1] = call
    BY <2>1, <2>2 DEF call
  <2>4. \A i \in 1 .. Len(stack) : i = 1
    BY <2>3
  <2>5. WalkTypes /\ WalkEnds
    BY <2>1, <2>3 DEF WalkTypes, WalkEnds
  <2>6. Calls
    BY <2>2, <2>3, <2>4 DEF Calls
  <2>7. Passing
    BY <2>2, <2>3, <2>4 DEF Passing
  <2> QED BY <2>5, <2>6, <2>7 DEF WalkInv
<1> QED BY <1>1, <1>2, <1>3 DEF IInv

\* A step of either push keeps the whole invariant, and the registry grows.
LEMMA NextIInv == IInv /\ [Next]_vars => Grows /\ IInv'
<1> SUFFICES ASSUME IInv, [Next]_vars
             PROVE  Grows /\ IInv'
  OBVIOUS
<1>1. RegInv /\ PoolInv /\ WalkInv
  BY DEF IInv
<1>2. CASE MWNext /\ UNCHANGED wiVars
  <2>1. Grows /\ RegInv' /\ PoolInv'
    BY <1>1, <1>2, MWKeepsInv
  <2>2. WalkInv'
    BY <1>1, <1>2, <2>1, WalkUndisturbed
  <2> QED BY <2>1, <2>2 DEF IInv
<1>3. CASE WINext /\ UNCHANGED mwVars
  <2>1. Grows /\ RegInv' /\ WalkInv'
    BY <1>1, <1>3, WIKeepsInv
  <2>2. PoolInv'
    BY <1>1, <1>3, <2>1, PoolUndisturbed
  <2> QED BY <2>1, <2>2 DEF IInv
<1>4. CASE UNCHANGED vars
  <2>1. UNCHANGED regVars /\ NoFault /\ UNCHANGED mwVars /\ UNCHANGED wiVars
    BY <1>4 DEF vars, NoFault
  <2>2. Grows /\ RegInv'
    BY <1>1, <2>1, QuietRequest
  <2>3. PoolInv' /\ WalkInv'
    BY <1>1, <2>1, <2>2, PoolUndisturbed, WalkUndisturbed
  <2> QED BY <2>2, <2>3 DEF IInv
<1> QED BY <1>2, <1>3, <1>4 DEF Next

\* The inductive invariant, of both pushes and the registry they share.
THEOREM Invariance == Spec => []IInv
<1>1. IInv /\ [Next]_vars => IInv'
  BY NextIInv
<1> QED BY InitIInv, <1>1, PTL DEF Spec

(***************************************************************************)
(* The properties of the run.                                              *)
(***************************************************************************)

\* A batch that MultiWrite has come past is pushed, all of it.
LEMMA AllPushed ==
    ASSUME PoolInv, mwpc = "ok"
    PROVE  \A k \in Batches : \A item \in BatchItems(k) : Pushed(k, item)
<1>1. /\ unsent \cup channel = {} /\ batch = Depth + 2
      /\ \A j \in Workers : worker[j].pc = "done"
  BY MultiWriteAssumption DEF PoolInv, PoolEnds
<1>2. Depth \in Nat /\ \A k \in Batches : k < batch \/ k = batch
  BY <1>1, ItemFacts DEF Batches
<1>3. \A item \in BatchItems(batch) : Pushed(batch, item)
  BY <1>1 DEF PoolInv, NothingLost
<1> QED BY <1>2, <1>3 DEF PoolInv, NothingLost

\* So is every document that was asked for, and every one that these list.
LEMMA PlannedIsPushed ==
    ASSUME PoolInv, mwpc = "ok"
    PROVE  /\ \A r \in Requested : Committed(MWRepo, r[1], r[2])
           /\ \A doc \in Planned : Committed(MWRepo, Sha256(doc), doc)
           /\ \A doc \in Planned \cap ImageDocs : \A b \in Required(doc) : Stored(b)
<1>1. /\ Depth \in Nat /\ Planned \cap OtherDocs = {}
      /\ \A k \in Batches : \A item \in BatchItems(k) : Pushed(k, item)
      /\ DOMAIN Levels = 0 .. LastLevel
  BY AllPushed, ItemFacts, LevelsSolve DEF PoolInv, PoolEnds, Pushable
<1>2. ASSUME NEW target, NEW doc, NEW k \in Batches \ {0},
             AsItem(target, doc) \in BatchItems(k)
      PROVE  Committed(MWRepo, target, doc)
  <2>1. Pushed(k, AsItem(target, doc))
    BY <1>1, <1>2
  <2> QED BY <2>1 DEF Pushed, AsItem
<1>3. ASSUME NEW r \in Requested
      PROVE  Committed(MWRepo, r[1], r[2])
  <2>1. r[2] \in ImageDocs \/ r[2] \in IndexDocs
    BY <1>1, DocumentFacts DEF Planned, RequestedDocs, Docs
  <2>2. 1 \in Batches \ {0} /\ Depth + 2 \in Batches \ {0}
    BY <1>1 DEF Batches
  <2>3. /\ BatchItems(1) = RequestedOf(ImageDocs)
        /\ BatchItems(Depth + 2) = RequestedOf(IndexDocs)
    BY <2>2, BatchFacts DEF BatchItems
  <2>4. \A docs : r[2] \in docs => AsItem(r[1], r[2]) \in RequestedOf(docs)
    BY DEF RequestedOf
  <2> QED BY <1>2, <2>1, <2>2, <2>3, <2>4
<1>4. ASSUME NEW doc \in Planned
      PROVE  Committed(MWRepo, Sha256(doc), doc)
  <2>1. CASE doc \in RequestedDocs
    <3>1. PICK r \in Requested : doc = r[2]
      BY <2>1 DEF RequestedDocs
    <3>2. Committed(MWRepo, r[1], r[2])
      BY <1>3
    <3> QED BY <3>1, <3>2 DEF Committed
  <2>2. CASE doc \notin RequestedDocs
    <3>1. PICK n \in 0 .. LastLevel : doc \in Levels[n]
      BY <1>1, <2>2 DEF Planned
    <3> QED BY <1>2, <3>1, LevelIsBatch
  <2> QED BY <2>1, <2>2
<1>5. ASSUME NEW doc \in Planned \cap ImageDocs, NEW b \in Required(doc)
      PROVE  Stored(b)
  <2>1. 0 \in Batches /\ [blob |-> b] \in BatchItems(0)
    BY <1>1 DEF Batches, BatchItems, BlobBatch
  <2>2. Pushed(0, [blob |-> b])
    BY <1>1, <2>1
  <2> QED BY <2>2 DEF Pushed
<1> QED BY <1>3, <1>4, <1>5

\* What was accepted can be pulled.
LEMMA CommittedIsServed ==
    ASSUME RegInv, NEW repo, NEW target, NEW doc \in Docs, Committed(repo, target, doc),
           doc \in ImageDocs => \A b \in Required(doc) : Stored(b)
    PROVE  Served(repo, target, doc)
<1>1. /\ repo \in DOMAIN manifests
      /\ target \in DOMAIN manifests[repo] /\ Sha256(doc) \in DOMAIN manifests[repo]
      /\ \A child \in ListedIn(doc) : Sha256(child) \in DOMAIN manifests[repo]
  BY DEF Committed, Listed
<1>2. \/ manifests[repo][Sha256(doc)].blob = doc
      \/ manifests[repo][Sha256(doc)].blob = Cut(doc) /\ faults > 0
  BY <1>1 DEF RegInv, KeysMatch, Listed
<1> QED BY <1>1, <1>2 DEF Served

\* When MultiWrite has returned (multi_write.go:136, 160) none of its workers
\* is at work, and its feeder is blocked only when all of them have failed.
THEOREM PoolReturns == Spec => []PoolIsQuiet
<1>1. IInv => PoolIsQuiet
  <2> SUFFICES ASSUME PoolInv, mwpc \in {"ok", "failed"}
               PROVE  /\ \A j \in Workers : worker[j].pc # "busy"
                      /\ unsent \cup channel # {} => \A j \in Workers : worker[j].pc = "failed"
    BY DEF IInv, PoolIsQuiet
  <2>1. \/ \A j \in Workers : Ended(j)
        \/ unsent \cup channel = {} /\ \A j \in Workers : worker[j].pc = "idle"
    BY DEF PoolInv, PoolEnds, Ended
  <2>2. \A j \in Workers : worker[j].pc = "done" => unsent \cup channel = {}
    BY DEF PoolInv, PoolEnds
  <2> QED BY <2>1, <2>2 DEF Ended
<1> QED BY Invariance, <1>1, PTL

\* A push that returns nil has put all it was asked for, and all that these
\* list, where it can be pulled (multi_write.go:46-165, write.go:390-446).
THEOREM PushesServe == Spec => []SuccessIsServed
<1>1. IInv => SuccessIsServed
  <2> SUFFICES ASSUME IInv
               PROVE  SuccessIsServed
    OBVIOUS
  <2>1. RegInv /\ PoolInv /\ WalkInv
    BY DEF IInv
  <2>2. ASSUME mwpc = "ok"
        PROVE  /\ \A r \in Requested : Served(MWRepo, r[1], r[2])
               /\ \A doc \in Planned : Served(MWRepo, Sha256(doc), doc)
    <3>1. /\ \A r \in Requested : Committed(MWRepo, r[1], r[2])
          /\ \A doc \in Planned : Committed(MWRepo, Sha256(doc), doc)
          /\ \A doc \in Planned \cap ImageDocs : \A b \in Required(doc) : Stored(b)
      BY <2>1, <2>2, PlannedIsPushed
    <3>2. \A r \in Requested : r[2] \in Planned /\ r[2] \in Docs
      BY DocumentFacts DEF Planned, RequestedDocs
    <3>3. Planned \subseteq Docs
      <4>1. \A n \in DOMAIN Levels : Levels[n] \subseteq Docs
        BY LevelsSolve, DocumentFacts
      <4> QED BY <4>1, DocumentFacts DEF Planned
    <3>4. ASSUME NEW r \in Requested
          PROVE  Served(MWRepo, r[1], r[2])
      BY <2>1, <3>1, <3>2, CommittedIsServed
    <3>5. ASSUME NEW doc \in Planned
          PROVE  Served(MWRepo, Sha256(doc), doc)
      BY <2>1, <3>1, <3>3, CommittedIsServed
    <3> QED BY <3>4, <3>5
  <2>3. ASSUME wipc = "ok"
        PROVE  Served(WIRepo, WITarget, root)
    <3>1. Committed(WIRepo, WITarget, root) /\ root \in IndexDocs
      BY <2>1, <2>3, WriteIndexAssumption DEF WalkInv, WalkEnds, WalkTypes
    <3>2. root \in Docs /\ root \notin ImageDocs
      BY <3>1, RegistryAssumption DEF Docs
    <3> QED BY <2>1, <3>1, <3>2, CommittedIsServed
  <2> QED BY <2>2, <2>3 DEF SuccessIsServed
<1> QED BY Invariance, <1>1, PTL

\* Without a fault neither push fails, unless it meets a document of an
\* unknown media type: no index is put before what it lists
\* (multi_write.go:114-131, write.go:404-441).
THEOREM FaultFreeIndexPushes == Spec => []FaultFreeSucceeds
<1>1. IInv => FaultFreeSucceeds
  BY DEF IInv, PoolInv, PoolIsWell, WalkInv, WalkEnds, FaultFreeSucceeds
<1> QED BY Invariance, <1>1, PTL

\* The two pushes never take from the registry what they share: whatever was
\* accepted once, by either of them, stays (so Exists, once true, is no
\* stale answer, write.go:404-409).
THEOREM NothingIsTaken == Spec => [][Grows]_vars
<1>1. IInv /\ [Next]_vars => [Grows]_vars
  BY NextIInv
<1> QED BY Invariance, <1>1, PTL DEF Spec

=============================================================================
