# go-containerregistry in TLA+

Models, checks and proofs of the parts of this repository in which concurrency,
retries, partial failure and shared state meet: pushing images (`pkg/v1/remote`), the
authenticating transport below it, the streaming layer, recursive copies with gcrane, the in-memory
registry (`pkg/registry`) that the repository's own tests push to; pulling images through
the layer cache into OCI layouts and tarballs; images and indexes made out of others
(`pkg/v1/mutate`), their file systems, and the tarballs they are saved in.

- [1. The system](#1-the-system)
- [2. The modules](#2-the-modules)
- [3. The runs](#3-the-runs)
- [4. The proofs](#4-the-proofs)
- [5. Where code and comments disagree](#5-where-code-and-comments-disagree)
- [6. What is not modelled](#6-what-is-not-modelled)
- [7. Plan](#7-plan)

`tlc -config MC_X.cfg MC_X` runs a check, `tlapm XProofs.tla` checks the proofs.
`PROJECT.json` maps every definition to the lines it models.

## 1. The system

| Part | State | Operations | Interacts with | What is hard | What makes it correct |
|---|---|---|---|---|---|
| Registry (`pkg/registry`) | `contents`, `uploads`, `manifests`, two mutexes | HEAD, GET, POST, PATCH, PUT of blobs; GET, HEAD, PUT of manifests | clients, over connections that break | bodies that arrive in part, requests repeated or out of order, uploads left behind | a digest names its bytes, an upload is a prefix of its blob, an index has its children |
| `remote.Write` | goroutines per layer, dedup set, retry counters | `Write`, `uploadOne`, `commitManifest` | registry, retries, transport, layers | lost answers, two nested retry loops, pushes of shared blobs at once, layers without a digest | manifest after blobs, success means stored, it returns, no fault no failure |
| `remote.WriteIndex` | a recursion over the index | existence checks, `Write` per image, commit bottom up | as `Write` | children that others push, unknown media types, options on the way down | what an index lists is there before it |
| `remote.MultiWrite` | two channels, feeder and worker goroutines, level lists | plan, upload blobs, commit batches | as `Write` | errors of some workers, the closing of channels, levels pushed in reverse | no item lost, no error hidden, batches in order, it returns |
| Retries (`internal/retry`, `transport/retry.go`) | steps left, delay | retry while temporary | every request | requests whose body is used up, what counts as temporary | bounded |
| Transport (`remote/transport`) | scheme, scopes, token, credentials, unlocked | ping, token exchange, round trip with one refresh | registry, token server, goroutines of a push | goroutines refresh at once, tokens expire | no scope once granted is lost, every request returns |
| `stream.Layer` | mutex, digest, diffID, size, consumed; a goroutine and a pipe | `Compressed`, `Read`, `Close`, `Digest` | `uploadOne`, `net/http` | two closers of one reader, a pipe write under the mutex, a second attempt | the digest is that of the bytes sent, known in time, for good |
| Remote read side | the document a reference named, the config once fetched | `Get`, `Image`, `Index`, `List`, `Catalog`, `Delete` | registry, cache, `layout.AppendImage` | a tag that moves between two requests, children that vanish, configs and bodies cut short | what is read is what the tag named, whole, or an error |
| Cache (`v1/cache`) | a file per layer and form | `Get` with its check, `Put`, a tee while a layer is read | file system, other processes | a file is there before its bytes are, truncation under readers, crashes | a hit is the layer |
| Layout (`v1/layout`) | blob files, `index.json` | `FromPath`, `Write`, `AppendImage`, `AppendDescriptor`, reading back | file system, other processes | read-modify-write of the index, a file that exists counts as written, a pool of layers | an image that is listed is there |
| gcrane (`pkg/gcrane`, `v1/google`) | task channel, workers, walker, context | recursive copy | two registries | retries, moving tags, errors while walking, who stops whom | everything listed is copied, tags name whole images, it returns |
| mutate (`v1/mutate`) | per image: base, addenda, computed config, manifest and maps; per index the same | `Append`, `Config`, `CreatedAt`, `Time`, `MediaType`, `Rebase`, `AppendManifests`, getters | `partial`, `validate`, streams | answers worked out at the first question, config files shared by pointer, several blobs of one diff ID | an image is valid, and its digest never changes |
| Extract (`v1/mutate`) | names seen, an output pipe | one pass over the layers from the top | who reads the pipe | what hides what, readers that leave, errors after the trailer | the overlay of the layers, or an error |
| Tarball writers (`v1/tarball`, `legacy/tarball`) | entries written, bytes counted, an update channel | `MultiRefWrite`, `MultiWrite`, `Image`, layers | a listener, the disk, the images | failure at every write, listeners that leave, one file for a shared layer | a tag loads what was saved under it; the writer returns and tells |
| partial, validate | none | what adapters derive, what validation compares | all images | agreement of config, manifest and layers | the reference for mutate |
| names, authn, daemon, other commands | little or none | parsing, adapters | the above | formats | agreement with their documents |

The calls go downwards: `crane` and the commands call `remote.Write`,
`WriteIndex` and `MultiWrite`; these run goroutines that send HTTP requests
through retry transport, bearer transport and `net/http` to a registry; a layer's
`Compressed` is the body of a request and is read and closed by `net/http`. `crane pull`
goes the other way: `remote.Image` gives an image whose config and layers are fetched when
somebody asks; `cache.Image` wraps its layers; `tarball`, `legacy` and `layout` read
them and write files. `crane append`, `mutate` and `rebase` put images on images,
and `crane export` reads `mutate.Extract`.

## 2. The modules

```
Registry ──┬── RegistryClients ──── MC_Registry
           │         └── RegistryProofs
           └── Images ──┬── RemoteWrite ── RemoteWriteProofs
                        │       ├── AtomicPush (abstract)
                        │       └── MC_RemoteWrite
                        └── BlobPush ──┬── MultiWrite ──┐
                                       └── WriteIndex ──┴── IndexPushers ──┬── MC_IndexPushers
                                                                           └── IndexPushersProofs
StreamLayer ──┬── MC_StreamLayer     Transport ──┬── MC_Transport     GcraneCopy ──┬── MC_GcraneCopy
              └── StreamLayerProofs              └── TransportProofs               └── GcraneProofs

RemoteImage ───────────┐
Files ──┬── FsCache ───┼── Pulls ──┬── MC_Pulls      Partial ── Mutate ── MutateIndex ── MC_Mutate
        └── Layout ────┘           └── PullsProofs
Tarball ── TarballWrite ──┬── Tarballs ──┬── MC_Tarballs
               Extract ───┘              └── TarballsProofs
```

**Registry** is `pkg/registry`. A handler that changes a map holds its mutex from
the first look at it to the last write, the read of the body included, so each
handler is one action, and a status operator says what it answers. The body is an
argument: `io.Copy`'s error is dropped by every handler, so the body of a broken
connection is a prefix of what was sent, and a manifest so cut is `Cut(doc)`.
SHA-256 is the record constructor `Sha256`, a function without collisions. Blobs
are sequences of chunks because uploads are assembled from parts; manifests are
atoms, whose children, config and layers are constants.

**RegistryClients** lets clients send whatever the API allows, in any order, cut
or repeated, each upload id being used for one blob.

**Images** says what an image needs (`Required`) and that a manifest is never
there without it (`CommittedImagesComplete`).

**RemoteWrite** is `remote.Write` request by request: `task[t]` is the goroutine
of a layer or of the config (`uploadOne`: HEAD, POST, PATCH, PUT), `wpc[w]` is
the caller. Every request may be lost before or after the registry has acted,
with a temporary or a fatal error, or have its body cut; `Resend` is
`retryTransport.RoundTrip`, which sends the same request again without rewinding
it, and `Bodies` what `net/http` then finds in it; `Restart` is the retry of
`uploadOne`. Layers that repeat are uploaded once, foreign ones not at all,
streaming ones always and only once. The last layer and the config are what `Write`
waits for in the two ways the code has.

**AtomicPush** is the abstract specification: a set of pullable images to which a
push adds one in a single step, or fails. `RemoteWrite` implements it with
`images` mapped to the manifests whose blobs are all there and `result` to the
outcomes.

**BlobPush** has `uploadOne` and `commitManifest` as one step each, for the
composed pushers. That step is what RemoteWriteProofs proves of the detailed
one: an upload that ends without an error has stored its blob (`DoneStored`), and
a commit that returns an error may or may not have reached the registry.

**MultiWrite** plans the blobs and the levels as `addIndexBlobs` does, then runs
the pool once per batch: `unsent` is the feeder's map, `channel` the channel of
capacity `2 * jobs`, `worker` the goroutines. **WriteIndex** keeps the recursion of
`writeIndex` as a stack. **IndexPushers** lets one of each run at once on one registry.

**StreamLayer** has the producer goroutine, the consumer (`net/http`), the pipe as
the rest of the write in progress, the gzip writer as what it buffers, and the
mutex. Both sides close the reader. Digests are the sequences that were hashed.

**GcraneCopy** is `gcrane.CopyRepository`: `walker` is the goroutine in `google.Walk`,
`tasks` the channel of capacity `2 * jobs`, `worker` the goroutines in `copyImages`,
`cancelled` the errgroup's context. A fault is `retryable` or `final` by what `backoffErrors`
makes of it; every fault of `crane.Copy` is final, its errors being wrapped. An image at the
destination is whole or absent, which is what the runs above show of `Write` and `WriteIndex`.

**Transport** has `NewWithContext` (ping, first token exchange) and requests that
share the unlocked fields of one `bearerTransport`; whatever another goroutine can get
between is a step of its own, from the exchange that reads scopes and credentials to the
assignments of its result. A 401 of the registry carries a challenge. A token is what it grants and when it was issued.

**RemoteImage** resolves a reference as `Descriptor.Image` does: an index is followed to the first
child that `matchesPlatform` accepts, by digest, and a child that is an index again. Others
move the tag and delete manifests between the requests. A body that ends early is found out by
the verified reader, except a config's on the second call (section 5).

**Files** is what the operating system gives processes that share a directory: `os.Create` makes an
empty file, also under readers and over a writer, who then goes on at its own offset (`Seen`, `After`); a name may be
removed under a writer; a process that dies leaves what it wrote. Content is what it is in comparison with
what should be there: none, empty, part, whole or wrong. **FsCache** is `cache.Image` and `fscache` over such
files, with what `tarball.LayerFromFile` makes of each content; **Layout** is `WriteBlob`,
`index.json` read, truncated and written over, and `layoutImage` reading back.

**Pulls** is `crane pull` with and without `--cache_path`: processes at a step in `pull[p].pc`, each layer of
`AppendImage`'s pool a job with steps of its own, the tarball formats layer after layer. Another process may get between
asking for a file and creating it, in `WriteBlob` (`WriteBlob` and `CreateBlob`, `PutBlob` and `CreateFile`) and in
`SaveOCI` (`Open`, `CreateLayout`, `InitLayout`), and truncate what is whole by then. The tarball formats fetch the config first.
One that was cut goes under the digest of the bytes that came, so under another name: its file belongs to no image, and
the image's own stays as it was. What is copied from a file of the cache is not verified: other bytes of the expected size go into the tarball.
A process dies at any step; after an error the caller may save the same `v1.Image` again (`Again`), as a library user can.

**Partial** holds the adapters of `pkg/v1/partial` and what `validate.Image` compares. **Mutate** is a heap: images
as Go pointers with their base, addenda and computed fields, and the config files they point to, since
`mutate.Config` writes through such a pointer. One action per function of the package; `Compute` is
the lazy `compute` down the chain of bases. `View` is what a program sees through the getters. **MutateIndex** adds
`AppendManifests`, `index.compute` and the lookup of an image by digest.

**Extract** is the goroutine of `mutate.Extract` entry by entry, its map of names and the end of the
pipe; the reader is `archive/tar`, which stops at the trailer, or one that copies the bytes, and either may leave.
**Tarball** has the pure parts: the entries of a tarball and of a legacy one, their calculated size, and what `tarball.Image`
makes of a tar. **TarballWrite** writes those entries one `Write` at a time, each an update on the progress
channel, with the deferred `Close` of the tar writer on every path; **Tarballs** runs the one or the other.

## 3. The runs

| Run | Question | Bounds |
|---|---|---|
| `registry` | Do the stores stay sound whatever clients send? | two repositories, one tag, two uploads, a blob of two chunks and its prefix, an image, an index and an index of it |
| `remote_write` | Are concurrent pushes atomic, complete, and do they return? | two writers, one tag; one image with a repeated and a foreign layer, one with a streamed layer of the same bytes; two faults, two steps in each retry loop |
| `stream` | Are digests right, timely and final, and does nobody hang? | three chunks, two attempts, one failing read, two observers |
| `index_push` | Do index pushes keep order, lose nothing and return? | two levels of indexes, two images that share a layer, two workers, two faults |
| `transport` | Do racing refreshes take anything away? | three requests, two of which need new scopes, one expiry, 32 kinds of server, four of credentials |
| `gcrane` | Does a recursive copy that succeeds copy what it listed, and does it return? | three repositories in a chain, up to three images, two tags, one or two workers, two faults, two steps of backoff, one tag of the root that moves |
| `gcrane_subtree` | Does it copy everything? (No: section 5) | the same, no tag moves |
| `pull` | Do pulls that share a registry, a cache and a layout save the right image, whole, and return? | two processes, four kinds of command, three images of up to two layers behind a tag that names an index first, five states that earlier pulls have left, two commands, one fault, one crash or change by others |
| `cache_hit` | Is a hit of the cache the layer? (No: section 5) | one process, three pulls of one image, no fault and no crash |
| `mutate` | Are made images valid and their digests stable, whoever asks when? | four images read, one index read, two sequences of addenda with a stream among them, two images and one index of two images made |
| `rebase_history` | Does Rebase keep the layers of an image without a history? (No: section 5) | one call |
| `tarballs` | Does a tarball load what was saved, does the listener learn how it ended, is an extracted file system the overlay? | nine images saved under one or two references in every order, listeners that leave, stay or are not there, channels of capacity 0 and 3, one fault; stacks of two layers of up to two entries and of three layers of one |

Why these are enough. Two writers are the least that race for a tag, a shared
blob and an upload; a third repeats what the second does, as they meet only in
the registry's maps. Two faults let a resend or a retry fail too, and two steps in
each retry loop reach the last attempt, whose handling differs. Two chunks tell a gap
from an overlap; three let the gzip writer hold some back and flush the rest. Two workers let one fail
while the other goes on, and two levels of indexes have an order to get wrong.
With one worker the queue of `gcrane` fills while four images are to be copied. With two late scopes appends can be lost; one expiry makes a token stale between refresh
and use. Two pulls are the least that race for a file of the cache, for a blob and for `index.json`; what more
of them would have left behind is among the initial states, and one fault or crash is the step
that leaves something for the other to find. Two images that are made are enough for one to be the base of the other, which
is computed before, after or never, and to hold the same config; Rebase takes three
images, all of which may be read ones. Every write of a tarball is where its one fault can strike; a
capacity of 3 lets the updates of the trailer go unread. A path of three names in two
layers of two entries has every pair of relations between names; three layers let the middle one be hidden by the top and hide the bottom. No state constraint is used; counters end by the guards named in the
modules (`MaxFaults`, `MaxMoves`, `MaxExpiries`, `SourceFailures`, `Attempts`, `MaxStarts`, `MaxAccidents`, `MaxSteps`, `MaxIndexes`; `Moving` says whose tags move).

Fairness. `FairSpec` is weak fairness of the whole next-state relation (of the goroutines'
own steps in StreamLayer, where nothing makes a consumer give up, and in GcraneCopy, where nobody has to move tags). It says that
some goroutine that can run does run and that a request gets an outcome, an
error being one: the Go scheduler and socket timeouts give as much. Behaviours are
finite, so more would add nothing. In Pulls it is the processes' own steps; crashes, commands
and others are never forced. In Tarballs it is the writer, the listener while it listens, and
the goroutine of Extract; nobody has to leave and nothing has to fail. A stream whose PATCH is
lost may hang for good (section 5 and `PatientConsumersReturn`), so `Terminates`
excuses writers of streams once there was a fault.

Deadlock is not checked where a program may be done (pushes return, no more images are made) or may hang as
the code may (a stream closed early); the liveness properties say
which ends are right.

The properties, and why the code could break them:

- `BlobsMatchDigest`, `UploadIsPrefix`, `UploadKeptUntilStored`, `IndexChildrenPresent`:
  the checks of start offset, first write, digest and children are all that keep
  cut and repeated requests from mixing.
- `CommittedImagesComplete`, `ReportedSuccessIsStored`, `FaultFreeSucceeds`,
  `OrphansNeedFaults`, `Terminates`, `PushIsAtomic`: dedup, waiting and retry are
  spread over three functions and several goroutines, and other writers touch the same blobs.
- `SuccessIsServed`, `PoolIsQuiet`, `BothReturn`: channels, feeder and errgroup must agree
  on every path out of a batch. A push may have been overwritten under its own digest
  by another push of the same document that was cut (`manifest.go:122` ignores the error, and a
  digest target is not compared with the bytes): `SuccessIsServed` says so.
- `DigestIsOfTheStream`, `DigestKnownAtEOF`, `DigestKnownForGood`, `PatientConsumersReturn`:
  the second close must be harmless, and the first early enough.
- `DenialNeedsCause`, `LateScopeIsGranted`, `AllReturn`: the fields are not locked. Lost
  appends are harmless to initial scopes, because a goroutine only ever adds to
  a slice it has read. The one thing two racing requests can lose is each other's late scope, which
  `LateScopeIsGranted` therefore excuses. That a resent request has a body is not the transport's to say (`AllReturn`).
- `SuccessMeansCopied`, `RetryableFaultsTolerated`, `TaggedIsWhole`, `CopierReturns`: a task is
  found by digest, copied by tag and tagged by a second look at that tag, and any of these may be
  retried alone or together; walker, channel and workers stop each other on every error. Excused: which image a tag
  names once a tag of the source has moved, for it may be one that was never copied.
- `SuccessIsTheImage`, `IndexedImagesComplete`, `IndexKeepsImages`, `PullsReturn`: tag, child, config
  and layers are fetched at different moments; what exists counts as written; the index is
  read long before it is written; a pool must end when one layer fails. Excused, because the code does
  allow it: a pull that a bad cache file or a cut config misled (`misled`, `hollow`); blobs that are being written or that a
  failed or dead writer left (`cut`), among them a whole and listed one that a second writer, who had found no file, truncates;
  and images lost when two saves into one layout overlap, in `AppendDescriptor` or because one makes the layout
  anew after the other has listed its image, or when one is cut short (`clean`).
- `EverythingValid`, `DigestIsStable`, `RebaseKeepsOwn`: an image is computed at the first question, from a base and streams
  whose state is that of the moment. Excused: images whose config file `mutate.Config` has changed in place (`lent`),
  those with two blobs of one diff ID (`Twins`), and rebases with a history that does not tell of all layers.
- `LoadsOnlyWhole`, `ProgressIsTrue`, `LegacyChain`, `Learns`, `Returns`: entries are shared between images by name, written after every kind of
  failure, and counted in another place than they are written. Excused: a foreign layer and its twin (`Confused`), a file that
  could not be created, of which nobody is told, the writer whose listener left at the error (`Cornered`), and, of the
  progress, that the total is reached when a layer is used twice. A writer that panics counts as one that ended, and a file
  without a trailer, whose error is dropped, loads like one that has it.
- `ExtractIsOverlay` compares one pass over names seen with the definition of an overlay (`Overlay`), for images without the
  cases extract does not treat as overlays (`Ordinary`), and not for a tar reader once a layer failed.

Only `registry` and `remote_write` check a type invariant: it is what their proofs begin with.

## 4. The proofs

TLAPS checks the following for every value of the constants that satisfies the modules' assumptions.

A component's proofs are in the module `...Proofs` beside it. Each is an inductive invariant `IInv`
(`THEOREM Invariance`), one lemma per action, and the theorems that follow from it. TLC checked each `IInv` on the
component's run before it was proved; `PROJECT.json` lists the theorems.

**RegistryProofs.** `IInv` is the conjunction of `RegTypeOK`, `BlobsMatchDigest`,
`UploadIsPrefix` and `IndexChildrenPresent`. It is inductive because the prefix
of an upload is what makes a ranged PATCH extend it (lemma `ArrivingExtends`), and because
manifests are only ever added or replaced under a key. `UploadsKept`, the action property,
follows from it: an upload is deleted only when the digest matches, and collision freedom makes the
bytes the blob. `TypeCorrect` adds under which keys the two maps may have anything. What each
handler does to the stores are lemmas, of which the next module has those it needs.

**RemoteWriteProofs.** `CommittedImagesComplete` alone is not inductive: a commit must
know that the uploads before it stored their blobs. `IInv` adds to the types
`BlobsMatchDigest`; `DoneStored`, that a finished upload's digest is in the registry; and
`ReadyToCommit`, that a writer about to commit has only finished uploads. Together with
the lemma that deduplication leaves out no required blob (`RequiredIsUploaded`, by well-founded
induction on the slots: the first layer with given bytes is the one uploaded) they give completeness.
Types include that both retry counters stay below their limits. Three more results rest on it:

- `SuccessIsStored`: `ReportInv` adds that manifests are kept under their own names or digests and that what a
  writer that has returned put is kept.
- `PushesAreAtomic`, the refinement of AtomicPush: every step of the detailed push is a step that makes an
  image pullable, one that reports, or a stutter.
- `FaultFreePushesSucceed` and `OrphansAreFaults`: every attempt of an upload that is over, or is not where it would be
  without faults (`Disturbed`), is paid with a fault of its own (`Paid`); an upload left in the registry is of such an
  attempt (`UploadsAreAttempts`).

**IndexPushersProofs.** `PoolInv` says of MultiWrite who is where in a batch (`PoolTypes`, `PoolEnds`),
that every item of a batch is with the feeder, in the channel, with a worker (one that failed included), or pushed,
as all items of the batches before are (`NothingLost`), and that without a fault no worker fails, since what an index lists is in
a batch before its own (`PoolIsWell`). `WalkInv` says of
WriteIndex under which name each call puts its index (`Calls`) and that the children it has passed are there or being pushed (`Passing`).
`NothingIsTaken` is what lets the two share a registry: neither takes from it what the other needs. The levels of an
index come to an end because no document contains its own digest, which `MultiWriteAssumption` says with a `height`. It
also says that a document requested by digest is requested by its own. `FaultFreeSucceeds` excuses requests with a document
of an unknown media type, whatever requests them (`~Pushable`): then MultiWrite fails before it begins.

**StreamLayerProofs.** `Flow` says that what the consumer got, what is in the pipe and what the gzip writer holds back are together
what was read, and that the other hash is of what was got; `Turns` who can be where; `Locks` that `Close` holds the mutex, also
while it waits for a reader; `Answers` that a digest is that of what was got. `DigestStays` is the action property.

**TransportProofs.** `Wanted` is what no interleaving takes from a request: the initial scopes, and the one it was told of if no
other request had come to the scopes (`Alone`). `Asking` and `Getting` follow the request's goroutine and say that the token it gets
has of these what can be granted (`Fits`). It needs `Initial # {}`, because a goroutine that has read no scopes is told by its
empty slice, and every caller of `NewWithContext` names a scope. `LateScopeIsGranted` excuses only requests that
share the transport with another that was challenged, as those are all the proof has to excuse.

**GcraneProofs.** `WalkInv` says that the walk comes to each repository once, after its parent. Names
are paths, so the repositories form a tree, which `GcraneAssumption` says of `Below`.
`ArrivalInv` is that what was listed has arrived or that a task stands for it, with the walker, in the channel or at a worker
(`Held`, `TagPending`): `NilMeansCopied` follows when the walk has ended and no task is left. `RetryInv` says that the failures
each loop has counted are among the faults. `WholeInv`, that tags name whole images, needs that what the destination had tagged before is there.

**PullsProofs.** `FilesInv` says that a blob of a layout that is there is whole, or cut, or open by the process that truncated it
last. Each pull has a local invariant for its step (`GatherInv`, `CopyInv`, `AppendInv`, `DoneInv`): the layers it
has are of the document it read, what its jobs have written or found there has its file, and so has its config unless it was misled; what they
have written into its tarball is the first layers, whole. A listed image is then sound but for `hollow` ones (`ListedInv`), and while saves have not overlapped a process in a save is
alone (`KeptInv`). `SuccessIsTheImage` also needs that the image is one its tag named while it was pulled (`ResultFits`): every
descriptor on the way down was fetched by the digest that the one above gives for the platform, so whatever set of documents contains what the
tag named and is closed under that contains the image. A layout may be found with images of earlier pulls, listed and whole, and files that are not
whole (`PullsAssumption`), which `FilesInit` counts as `cut`.

**TarballsProofs.** Of Extract, `EInv` says that the names seen and hidden are those of the entries that were handled, so that the next
entry is kept when the overlay keeps it, and that a reader has what was written: the part of `Overlay` so far. Of a
save, `WInv` says that the tar is the first of the files that are to be written, each whole but the last, that nothing follows the
file a save stops at, and that the end is told with all bytes. A file's name says what is in it (`Meant`), whatever images share it, so `ExtractFile` gives
that or nothing (`LoadIs`), and `LoadsOnlyWhole` follows for every prefix of the tar. `LegacyChain` goes up
the ids, each of which contains its parent's (`ChainIs`). `ProgressIsTrue` compares two sums: the total that is told first, over a set of images and their layers, and
what is written, over a sequence from which repeated layers were dropped. Both are brought to `SumOf`, a sum
along a sequence (`SetSum`, `FlattenSum`). Dropping files never adds bytes (`WrittenOnceSum`); that nothing is dropped when no layer is used twice is shown by
counting: as many files are left as there are different layers (`Counted`). `ByteInv` then says how far
the writer is after each step, padding included: exactly there while nothing failed, never further. Functions that recur over positions are
handled by the least place at which they could fail (`LeastNumber`), which needs no induction over data.

Assumptions: those named in the modules (`RegistryAssumption`, `ImagesAssumption`,
`WriteAssumption` and so on), evaluated by TLC on every run. They state the kinds of the constants, that a cut
document is none of the documents, that a tag (which has no colon) is no digest, that
what programs hold at once is finite, and the facts about digests and names above. Those of tarballs say that a config lists the
diff IDs of its image's layers, that sizes are numbers, that a save goes through each of its images, once, and lists each, and that a legacy save has
no listener.

Model-checked only: liveness (`Terminates`, `BothReturn`, `AllReturn`,
`PatientConsumersReturn`, `CopierReturns`, `PullsReturn`, `Learns`, `Returns`), which the provers cannot do. Everything about Mutate and MutateIndex (`EverythingValid`, `DigestIsStable`, `RebaseKeepsOwn`), which are
statements about what recursions over chains of bases compute (`Compute`, `ComputeIndex`).

## 5. Where code and comments disagree

Each of these three has a run that ends in a counterexample.

- `gcrane_subtree`: `gcrane/copy.go:68` says "CopyRepository copies everything"; after one
  failing listing, repaired by `walkFn`, the repositories below are left out and nil is returned.
- `cache_hit`: `cache/cache.go:24-25` says "Get returns the Layer cached by the given Hash, or
  ErrNotFound if no such layer was found". The file of a layer is created when the layer is opened (`cache/fs.go:50`), and
  `layout.WriteBlob` opens a layer and returns without reading it when the blob exists (`layout/write.go:152`). The
  file stays empty, and the next `Get` takes it for the layer.
- `rebase_history`: `mutate/rebase.go:136` says "In the event history was malformed or non-existent, append
  the remaining layers"; the loop below it starts at the layer after the first of those and appends one layer each time.

Seen while modelling, and kept in the model without a run of its own.

In pushes and transport: `transport/retry.go:24` says of its retries "This should cover networking blips",
but a PATCH or PUT whose answer is lost is sent again with its body consumed, or finds its upload finished. After a failing read
of its source a streaming layer can be opened again and continues where it stopped, so its DiffID is that of the rest
(`stream/layer.go:122`; `v1/layer.go:28` says "DiffID returns the Hash of the uncompressed layer"). `writeIndex` drops the options when it
walks into a nested index (`write.go:419`; `options.go:138` says "this context is used for _all_ http requests"; not in the model).
`bearer.go:110` says "Retry the request", and a request with a body cannot be sent again. A copy in gcrane is not
retried, its errors being wrapped (`gcrane/copy.go:149` says it is). When the first tag of an image moves between copy and
`remote.Get`, its other tags are put without the image, against the advice at `write.go:588`. A cut manifest overwrites a
whole one under the whole one's digest. The feeder of `MultiWrite` stays blocked when all workers
have failed. `stream.Layer.Close` before the end of the stream never returns.

In pulls: `RawConfigFile` keeps what it has read when reading fails (`remote/image.go:109`), and the next call takes it for the
config. After a hit of the uncompressed form the cache appends the layer twice (`cache.go:79`). A layout
does not open layers of foreign media types (`layout/image.go:104`; not in the model).

In mutate: `Config` changes the config of its base in place when mutate made that base (`mutate.go:102`), though
`mutate/README.md:5-8` calls images "essentially immutable". Two blobs with one diff ID are one to `Layers`. `LayerByDiffID` and
`index.Image` fall through to the base when nothing was computed yet. `validate.Image` compares the
config's size but not its digest. `Time` sets the dates of copies of the history's entries.

In Extract: the trailer is written before `CloseWithError`, so readers of tar miss the error that `mutate.go:161-165` says
they get. A directory does not hide a file of its name in a lower layer, and a whiteout hides what its own layer
has. Opaque whiteouts are plain entries. A reader that leaves is noticed at the next file with data.

In tarballs: the deferred `Close` after an error waits for a listener that has left (`tarball/write.go:149`); an error in creating the
file is told to nobody (lines 36-39); the calculated size counts a shared layer each time (line 320). The legacy writer drops the
error of the tar writer's `Close` (`legacy/tarball/write.go:196`) and panics on an image without layers (line 300).
`compressedImage.Manifest` keeps a partial manifest after an error (`tarball/image.go:314`; not in the model). Foreign layers are kept by diff ID,
so one that has a twin is confused with it. "ubuntu" and "ubuntu:latest" are one name, and the first in the file is loaded.

## 6. What is not modelled

Wording, headers, URLs, logging and JSON; durations, jitter and the cap of backoffs;
contexts and their deadlines; cross-repository mounts (`initiateUpload` never gets 201 from
`pkg/registry`); sockets whose buffers fill while a handler holds
its mutex; torn reads of Go slices and interfaces in the bearer transport; more
than one challenge per 401; redirects. Names, credentials files, the Docker daemon and the command
lines are adapters without a protocol of their own. Of the read side, `Head`, `List` and `Catalog` are left out: their pages are
read by one goroutine and only their decoding can go wrong (`catalog.go:132` decodes each page over the one before). Of layouts,
`AppendIndex`, annotations and platforms; of mutate, nested indexes, annotations and `IndexMediaType`; of
validate, the bytes of a layer; of `v1util`, the goroutine behind a compressed reader. Compression is a
constant: which layers this library would compress to the same bytes (`SameGzip`). Sockets and pipes have no buffers
beyond those named; reads of a cache file by `LayerFromFile`, three in the code, are one step.

## 7. Plan

In order; the first nine are done but for what 9 names as left.

1. Registry, RegistryClients, RegistryProofs: the base of all pushes.
2. RemoteWrite, AtomicPush, RemoteWriteProofs.
3. StreamLayer; BlobPush, MultiWrite, WriteIndex, IndexPushers.
4. Transport.
5. GcraneCopy with google.Walk: walker, bounded queue, workers, retries, a source whose
   tags move.
6. Files, FsCache, Layout, RemoteImage, and Pulls over all four.
7. Partial, Mutate, MutateIndex; Extract against the definition of an overlay.
8. Tarball, TarballWrite, Tarballs: sizes, names, the progress channel, both formats.
9. Proofs: the pipe of `stream.Layer`; the pool of MultiWrite and its order, the walk of WriteIndex; the refinement
   of AtomicPush step by step; the transport's scopes; gcrane; layouts shared by pulls, and the way
   down an index; Extract; what a tarball loads and how its progress is told. Left: Mutate.
10. List and Catalog pagination; `AppendIndex`; the goroutine of `zip.go`; Backoff.
