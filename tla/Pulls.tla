------------------------------- MODULE Pulls --------------------------------
(***************************************************************************)
(* crane pull --cache_path (cmd/crane/cmd/pull.go, pkg/crane/pull.go):     *)
(* processes that read images from a registry, through a layer cache they  *)
(* share, into a tarball of their own (tarball, legacy) or into an OCI     *)
(* layout they share.  A process may die at any step; a caller of the      *)
(* library may save again the image it has.                                *)
(*                                                                         *)
(* remote.Get and its transport are one step; what Transport and           *)
(* RemoteWrite say of retries is left out here.                            *)
(***************************************************************************)
EXTENDS RemoteImage, FsCache, Layout

CONSTANTS
    Procs,
    Kinds,          \* the commands of each process: [fmt, cached, platform]
    HistoryOf,      \* how many layers the history of an image's config tells of
    Before,         \* what earlier pulls have left: [file, images]
    MaxStarts,
    MaxAccidents    \* bounds: commands, and crashes together with changes by others

None == "none"

ASSUME PullsAssumption ==
    /\ IsFiniteSet(Images) /\ None \notin Images
    /\ LayersOf \in [Images -> Seq(Layers)]
    /\ Paths = CachePaths \cup UNION {BlobsOf(image, LayersOf[image]) : image \in Images}
    /\ Kinds \in [Procs -> SUBSET UNION Range(Kinds)]
    /\ \A p \in Procs : \A kind \in Kinds[p] : /\ kind.fmt \in {"oci", "tarball", "legacy"}
                                               /\ kind.platform \in Asked
    /\ \A before \in Before :
          /\ before.file \in [Paths -> Contents] /\ before.images \subseteq Images
          /\ \A image \in before.images : \A blob \in BlobsOf(image, LayersOf[image]) :
                before.file[blob] = "whole"

VARIABLES
    pull,       \* per process, the command it runs
    starts, crashes,
    saved,      \* the images some oci pull has reported as saved
    hollow,     \* the images listed by a pull that was misled
    clean       \* no two saves into the layout overlapped, and none was cut short

pullVars == <<pull, starts, crashes, saved, hollow, clean>>
vars == <<remoteVars, fileVars, index, pullVars>>

Idle == [pc |-> "idle", kind |-> CHOOSE kind \in UNION Range(Kinds) : TRUE, since |-> {},
         doc |-> None, img |-> None, conf |-> "none", pass |-> 1, srcs |-> <<>>, at |-> 1, jobs |-> <<>>,
         read |-> <<>>, out |-> <<>>, misled |-> FALSE]

Over == {"idle", "done", "failed"}

Init ==
    /\ RemoteInit
    /\ \E before \in Before :
          /\ file = before.file
          /\ index = IF before.images = {} THEN NoIndex ELSE Listing(SetToSeq(before.images))
          /\ saved = before.images
    /\ FilesInit
    /\ pull = [p \in Procs |-> Idle]
    /\ starts = 0 /\ crashes = 0 /\ hollow = {} /\ clean = TRUE

Goes(p, to) == pull' = [pull EXCEPT ![p].pc = to]

\* What is left of a pull that failed: the image, for who saves it again.
Failed(r) == [Idle EXCEPT !.pc = "failed", !.kind = r.kind, !.since = r.since,
                          !.img = r.img, !.conf = r.conf]
Fails(p) == pull' = [pull EXCEPT ![p] = Failed(@)]

\* And of one that succeeded: what it is judged by.
Succeeded(r) == [Idle EXCEPT !.pc = "done", !.kind = r.kind, !.since = r.since,
                             !.img = r.img, !.out = r.out, !.misled = r.misled]
Succeeds(p) == pull' = [pull EXCEPT ![p] = Succeeded(@)]

Format(p) == pull[p].kind.fmt
LayersIn(p) == LayersOf[pull[p].img]

\* A process that has opened the layout and has not ended.
Saving(p) == /\ pull[p].pc \notin Over \cup {"get", "resolve", "open"}
             /\ Format(p) = "oci"

(***************************************************************************)
(* remote.Image.                                                           *)
(***************************************************************************)

Start(p, kind) ==
    /\ pull[p].pc \in Over /\ starts < MaxStarts
    /\ pull' = [pull EXCEPT ![p] = [Idle EXCEPT !.pc = "get", !.kind = kind, !.since = {tag}]]
    /\ starts' = starts + 1
    /\ UNCHANGED <<remoteVars, fileVars, index, crashes, saved, hollow, clean>>

\* remote.Get, by tag.
Get(p) ==
    /\ pull[p].pc = "get"
    /\ \/ /\ tag \notin gone
          /\ Answered
          /\ pull' = [pull EXCEPT ![p].pc = "resolve", ![p].doc = tag]
       \/ /\ IF tag \in gone THEN Answered ELSE Failing(1)
          /\ Fails(p)
    /\ UNCHANGED <<fileVars, index, starts, crashes, saved, hollow, clean>>

\* What each format begins with, once there is an image: the tarballs name the config.
FirstStep(fmt) == IF fmt = "oci" THEN "open" ELSE "rawconfig"

\* Descriptor.Image: the children by digest.
Resolve(p) ==
    LET doc == pull[p].doc
        platform == pull[p].kind.platform
        fits == ResolvesToImage(doc, platform) /\ AllThere(doc, platform)
    IN  /\ pull[p].pc = "resolve"
        /\ \/ /\ fits
              /\ Answered
              /\ pull' = [pull EXCEPT ![p].pc = FirstStep(Format(p)),
                                      ![p].doc = None, ![p].img = Resolved(doc, platform)]
           \/ /\ IF fits THEN Failing(1) ELSE Answered
              /\ Fails(p)
        /\ UNCHANGED <<fileVars, index, starts, crashes, saved, hollow, clean>>

\* crane.SaveOCI: layout.FromPath asks for index.json.
Open(p) ==
    /\ pull[p].pc = "open"
    /\ Goes(p, IF IsLayout THEN "layers" ELSE "create")
    /\ clean' = (clean /\ \A q \in Procs : ~Saving(q))
    /\ UNCHANGED <<remoteVars, fileVars, index, starts, crashes, saved, hollow>>

\* layout.Write of an empty index, whatever another pull has made of it by now.
CreateLayout(p) ==
    /\ pull[p].pc = "create"
    /\ TruncateIndex
    /\ Goes(p, "init")
    /\ UNCHANGED <<remoteVars, fileVars, starts, crashes, saved, hollow, clean>>

InitLayout(p) ==
    /\ pull[p].pc = "init"
    /\ WriteIndexFile(<<>>)
    /\ Goes(p, "layers")
    /\ UNCHANGED <<remoteVars, fileVars, starts, crashes, saved, hollow, clean>>

(***************************************************************************)
(* remoteImage.RawConfigFile, for whoever needs the config: once fetched   *)
(* it is kept, and what is kept is what came, also when the read failed.   *)
(***************************************************************************)

FetchConfig(p) ==
    /\ pull[p].pc \in {"diffid", "rawconfig", "config"} /\ pull[p].conf = "none"
    /\ \/ /\ Answered
          /\ pull' = [pull EXCEPT ![p].conf = "whole"]
       \/ /\ Failing(1)
          /\ \E kept \in {"none", "part"} :
                pull' = [pull EXCEPT ![p] = Failed([@ EXCEPT !.conf = kept])]
    /\ UNCHANGED <<fileVars, index, starts, crashes, saved, hollow, clean>>

\* tarball's manifest has the config's name, that is the digest of what is kept, which
\* is also what is written; legacy writes the config, and parses it.
WriteRawConfig(p) ==
    /\ pull[p].pc = "rawconfig" /\ pull[p].conf # "none"
    /\ IF pull[p].conf = "whole" \/ Format(p) = "tarball"
         THEN pull' = [pull EXCEPT ![p].pc = "layers",
                                   ![p].misled = @ \/ pull[p].conf # "whole"]
         ELSE Fails(p)
    /\ UNCHANGED <<remoteVars, fileVars, index, starts, crashes, saved, hollow, clean>>

(***************************************************************************)
(* cache.image.Layers, one layer at a time.                                *)
(***************************************************************************)

GetCompressed(p) ==
    LET layer == LayersIn(p)[pull[p].at]
    IN  /\ pull[p].pc = "layers" /\ pull[p].kind.cached /\ pull[p].at <= Len(LayersIn(p))
        /\ \E content \in Seen(CachePath(layer, "digest")) :
              /\ AfterGet(layer, "digest", content)
              /\ IF Found(content, "digest")
                   THEN pull' = [pull EXCEPT
                            ![p].srcs = @ \o Appended(layer, "digest", content),
                            ![p].at = @ + 1,
                            ![p].misled = @ \/ Misleads("digest", content)]
                   ELSE Goes(p, "diffid")
        /\ UNCHANGED <<remoteVars, index, starts, crashes, saved, hollow, clean>>

\* DiffID comes from the config, which has to parse.
GetUncompressed(p) ==
    LET layer == LayersIn(p)[pull[p].at]
    IN  /\ pull[p].pc = "diffid" /\ pull[p].conf # "none"
        /\ IF pull[p].conf # "whole" THEN Fails(p)
           ELSE \E content \in Seen(CachePath(layer, "diffid")) :
                    pull' = [pull EXCEPT
                        ![p].pc = "layers",
                        ![p].srcs = @ \o Appended(layer, "diffid", content),
                        ![p].at = @ + 1,
                        ![p].misled = @ \/ Misleads("diffid", content)]
        /\ UNCHANGED <<remoteVars, fileVars, index, starts, crashes, saved, hollow, clean>>

\* tarball asks for the layers twice, and the first time finds each in the image's
\* manifest; legacy counts them.
GotLayers(p) ==
    LET all == LayersIn(p)
        srcs == IF pull[p].kind.cached THEN pull[p].srcs
                ELSE [i \in 1..Len(all) |-> FromRemote(all[i])]
        again == Format(p) = "tarball" /\ pull[p].pass = 1
        refused == \/ again /\ \E i \in 1..Len(srcs) : ~srcs[i].own
                   \/ Format(p) = "legacy" /\ HistoryOf[pull[p].img] \notin {0, Len(srcs)}
    IN  /\ pull[p].pc = "layers"
        /\ pull[p].kind.cached => pull[p].at > Len(all)
        /\ IF refused THEN Fails(p)
           ELSE IF again THEN pull' = [pull EXCEPT ![p].pass = 2, ![p].srcs = <<>>, ![p].at = 1]
           ELSE pull' = [pull EXCEPT ![p].pc = "copy", ![p].srcs = srcs,
                                     ![p].jobs = [i \in 1..Len(srcs) |-> "todo"]]
        /\ UNCHANGED <<remoteVars, fileVars, index, starts, crashes, saved, hollow, clean>>

(***************************************************************************)
(* Reading the layers: oci all at once, the others one after the other.    *)
(* legacy reads each layer twice, first for its size.                      *)
(***************************************************************************)

Job(p, i) == <<p, i>>
Source(p, i) == pull[p].srcs[i]
Form(p) == IF Format(p) = "legacy" THEN "diffid" ELSE "digest"
CachedAt(p, i) == CachePath(Source(p, i).layer, Source(p, i).form)

Turn(p, i) == /\ pull[p].pc = "copy" /\ i \in 1..Len(pull[p].jobs)
              /\ Format(p) # "oci" => \A j \in 1..(i - 1) : pull[p].jobs[j] = "done"

JobGoes(p, i, stage) == pull' = [pull EXCEPT ![p].jobs[i] = stage]

\* tarball writes one entry for the layers that have the same digest.
SameEntry(p, i) ==
    /\ Format(p) = "tarball" /\ Source(p, i).own
    /\ \E j \in 1..(i - 1) : Source(p, j).own /\ Source(p, j).layer = Source(p, i).layer

SkipLayer(p, i) ==
    /\ Turn(p, i) /\ pull[p].jobs[i] = "todo" /\ SameEntry(p, i)
    /\ pull' = [pull EXCEPT ![p].jobs[i] = "done",
                            ![p].out = Append(@, [layer |-> Source(p, i).layer, body |-> "whole"])]
    /\ UNCHANGED <<remoteVars, fileVars, index, starts, crashes, saved, hollow, clean>>

\* Layer.Compressed or Uncompressed: the cache file is there before the source is.
OpenLayer(p, i) ==
    /\ Turn(p, i) /\ pull[p].jobs[i] \in {"todo", "sized"} /\ ~SameEntry(p, i)
    /\ LET next == IF pull[p].jobs[i] = "todo" THEN "open" ELSE "reopened"
       IN  IF Format(p) = "legacy" /\ ~Source(p, i).own
             THEN JobGoes(p, i, "failed") /\ UNCHANGED fileVars /\ Answered
           ELSE IF Source(p, i).from = "cache"
             THEN /\ JobGoes(p, i, IF Exists(CachedAt(p, i)) THEN next ELSE "failed")
                  /\ UNCHANGED fileVars /\ Answered
           ELSE /\ IF pull[p].kind.cached
                     THEN Create(CachePath(Source(p, i).layer, Form(p)), Job(p, i))
                     ELSE UNCHANGED fileVars
                /\ \/ Answered /\ JobGoes(p, i, next)
                   \/ Failing(Sources(Source(p, i).layer)) /\ JobGoes(p, i, "failed")
    /\ UNCHANGED <<index, starts, crashes, saved, hollow, clean>>

\* Path.WriteBlob asks for the blob: of a layer that is there already nothing is read.
WriteBlob(p, i) ==
    LET blob == BlobPath("layer", Source(p, i).layer)
    IN  /\ Turn(p, i) /\ Format(p) = "oci" /\ pull[p].jobs[i] = "open"
        /\ IF ~Source(p, i).own \/ BlobThere(blob)
             THEN Close({Job(p, i)}, {"empty"}) /\ JobGoes(p, i, "done")
             ELSE JobGoes(p, i, "create") /\ UNCHANGED fileVars
        /\ UNCHANGED <<remoteVars, index, starts, crashes, saved, hollow, clean>>

\* And truncates it, though another may have written it since.
CreateBlob(p, i) ==
    /\ Turn(p, i) /\ Format(p) = "oci" /\ pull[p].jobs[i] = "create"
    /\ Create(BlobPath("layer", Source(p, i).layer), Job(p, i))
    /\ JobGoes(p, i, "copy")
    /\ UNCHANGED <<remoteVars, index, starts, crashes, saved, hollow, clean>>

\* io.Copy of a layer, into its cache file too.  A tar entry has the size the
\* layer had when Get computed its digest, which other bytes may have as well.
CopyLayer(p, i) ==
    LET stage == pull[p].jobs[i]
        oci == Format(p) = "oci"
        ends == IF Format(p) = "legacy" /\ stage = "open" THEN "sized" ELSE "done"
        copied(body) == [pull EXCEPT
            ![p].jobs[i] = ends,
            ![p].out = IF oci \/ ends = "sized" THEN @
                       ELSE Append(@, [layer |-> Source(p, i).layer, body |-> body]),
            ![p].misled = @ \/ body # "whole"]
    IN  /\ Turn(p, i) /\ stage \in (IF oci THEN {"copy"} ELSE {"open", "reopened"})
        /\ IF Source(p, i).from = "cache"
             THEN \E body \in {IF c = "none" THEN "part" ELSE c : c \in Seen(CachedAt(p, i))} :
                    /\ Answered
                    /\ Close({Job(p, i)}, {body})
                    /\ \/ /\ oci \/ body \in {"whole", "wrong"} \/ pull[p].misled
                          /\ pull' = copied(body)
                       \/ /\ ~oci /\ (body # "whole" \/ pull[p].misled)
                          /\ JobGoes(p, i, "failed")
             ELSE \/ Answered /\ Close({Job(p, i)}, {"whole"}) /\ pull' = copied("whole")
                  \/ /\ Failing(1)
                     /\ \E body \in BadBodies : Close({Job(p, i)}, {body})
                     /\ JobGoes(p, i, "failed")
        /\ UNCHANGED <<index, starts, crashes, saved, hollow, clean>>

\* Mutant: the layers of a layout are not waited for.
JobsBegun(p) ==
    LET jobs == ToSet(pull[p].jobs)
    IN  IF Format(p) = "oci" THEN "todo" \notin jobs
        ELSE jobs \subseteq {"done", "failed"} \/ "failed" \in jobs

\* Mutant: a layer that failed is waited for.
JobsAllDone(p) == ToSet(pull[p].jobs) \subseteq {"done"}

\* errgroup.Wait waits for every layer; the other formats stop at the first error.
JobsOver(p) ==
    LET jobs == ToSet(pull[p].jobs)
    IN  jobs \subseteq {"done", "failed"} \/ (Format(p) # "oci" /\ "failed" \in jobs)

\* Mutant: the error of a layer is dropped.
WaitForgets(p) ==
    /\ pull[p].pc = "copy" /\ JobsOver(p)
    /\ IF Format(p) = "oci" THEN Goes(p, "config") ELSE Succeeds(p)
    /\ UNCHANGED <<remoteVars, fileVars, index, starts, crashes, saved, hollow, clean>>

Wait(p) ==
    LET failed == "failed" \in ToSet(pull[p].jobs)
    IN  /\ pull[p].pc = "copy" /\ JobsOver(p)
        /\ IF failed THEN Close({Job(p, i) : i \in 1..Len(pull[p].jobs)}, {"empty"})
           ELSE UNCHANGED fileVars
        /\ IF failed THEN Fails(p)
           ELSE IF Format(p) = "oci" THEN Goes(p, "config") ELSE Succeeds(p)
        /\ UNCHANGED <<remoteVars, index, starts, crashes, saved, hollow, clean>>

(***************************************************************************)
(* The rest of Path.AppendImage: config, manifest, index.json.             *)
(***************************************************************************)

\* WriteBlob of the config or of the manifest asks for the file.  A config that was
\* cut has another name, and its file is of no image.
PutBlob(p) ==
    LET kind == pull[p].pc
        misnamed == kind = "config" /\ pull[p].conf = "part"
        after == IF kind = "config" THEN "manifest" ELSE "append"
        create == IF kind = "config" THEN "configCreate" ELSE "manifestCreate"
    IN  /\ kind \in {"config", "manifest"}
        /\ kind = "config" => pull[p].conf # "none"
        /\ pull' = [pull EXCEPT
               ![p].pc = IF misnamed \/ BlobThere(BlobPath(kind, pull[p].img)) THEN after ELSE create,
               ![p].misled = @ \/ misnamed]
        /\ UNCHANGED <<remoteVars, fileVars, index, starts, crashes, saved, hollow, clean>>

CreateFile(p, kind) ==
    /\ pull[p].pc = (IF kind = "config" THEN "configCreate" ELSE "manifestCreate")
    /\ Create(BlobPath(kind, pull[p].img), Job(p, 0))
    /\ Goes(p, IF kind = "config" THEN "configWrite" ELSE "manifestWrite")
    /\ UNCHANGED <<remoteVars, index, starts, crashes, saved, hollow, clean>>

WriteConfig(p) ==
    /\ pull[p].pc = "configWrite"
    /\ Close({Job(p, 0)}, {"whole"})
    /\ Goes(p, "manifest")
    /\ UNCHANGED <<remoteVars, index, starts, crashes, saved, hollow, clean>>

WriteManifest(p) ==
    /\ pull[p].pc = "manifestWrite"
    /\ Close({Job(p, 0)}, {"whole"})
    /\ Goes(p, "append")
    /\ UNCHANGED <<remoteVars, index, starts, crashes, saved, hollow, clean>>

\* Path.AppendDescriptor: read, truncate, write.
ReadIndex(p) ==
    /\ pull[p].pc = "append"
    /\ IF Parses THEN pull' = [pull EXCEPT ![p].pc = "index", ![p].read = index.images]
       ELSE Fails(p)
    /\ UNCHANGED <<remoteVars, fileVars, index, starts, crashes, saved, hollow, clean>>

OpenIndex(p) ==
    /\ pull[p].pc = "index"
    /\ TruncateIndex
    /\ Goes(p, "indexWrite")
    /\ UNCHANGED <<remoteVars, fileVars, starts, crashes, saved, hollow, clean>>

WriteIndex(p) ==
    /\ pull[p].pc = "indexWrite"
    /\ WriteIndexFile(AppendDescriptor(pull[p].read, pull[p].img))
    /\ Succeeds(p)
    /\ saved' = saved \cup {pull[p].img}
    /\ hollow' = IF pull[p].misled THEN hollow \cup {pull[p].img} ELSE hollow
    /\ UNCHANGED <<remoteVars, fileVars, starts, crashes, clean>>

(***************************************************************************)
(* What may happen to a pull.                                              *)
(***************************************************************************)

\* The process dies.
Crash(p) ==
    /\ pull[p].pc \notin Over /\ crashes + moves < MaxAccidents
    /\ Close({Job(p, i) : i \in 0..Len(pull[p].jobs)}, {"empty", "part"})
    /\ pull' = [pull EXCEPT ![p] = Idle]
    /\ crashes' = crashes + 1
    /\ clean' = (clean /\ ~Saving(p))
    /\ UNCHANGED <<remoteVars, index, starts, saved, hollow>>

\* After an error the caller saves the same v1.Image again.
Again(p) ==
    /\ pull[p].pc = "failed" /\ pull[p].img # None /\ starts < MaxStarts
    /\ pull' = [pull EXCEPT
           ![p] = [Idle EXCEPT !.pc = FirstStep(Format(p)), !.kind = pull[p].kind,
                               !.since = pull[p].since, !.img = pull[p].img,
                               !.conf = pull[p].conf]]
    /\ starts' = starts + 1
    /\ UNCHANGED <<remoteVars, fileVars, index, crashes, saved, hollow, clean>>

\* Others move the tag, or delete a manifest.
Others ==
    /\ crashes + moves < MaxAccidents
    /\ \/ MoveTag /\ pull' = [p \in Procs |-> [pull[p] EXCEPT !.since = @ \cup {tag'}]]
       \/ Delete /\ UNCHANGED pull
    /\ UNCHANGED <<fileVars, index, starts, crashes, saved, hollow, clean>>

LayerStep(p) == \E i \in 1..Len(pull[p].jobs) :
    SkipLayer(p, i) \/ OpenLayer(p, i) \/ WriteBlob(p, i) \/ CreateBlob(p, i) \/ CopyLayer(p, i)

Step(p) ==
    \/ Get(p) \/ Resolve(p) \/ Open(p) \/ CreateLayout(p) \/ InitLayout(p)
    \/ FetchConfig(p) \/ WriteRawConfig(p)
    \/ GetCompressed(p) \/ GetUncompressed(p) \/ GotLayers(p)
    \/ LayerStep(p) \/ Wait(p)
    \/ PutBlob(p) \/ CreateFile(p, "config") \/ CreateFile(p, "manifest")
    \/ WriteConfig(p) \/ WriteManifest(p)
    \/ ReadIndex(p) \/ OpenIndex(p) \/ WriteIndex(p)

Next ==
    \/ \E p \in Procs : Step(p) \/ Crash(p) \/ Again(p)
    \/ \E p \in Procs : \E kind \in Kinds[p] : Start(p, kind)
    \/ Others

Spec == Init /\ [][Next]_vars

\* While a process or a goroutine of its layers can go on, one of them does.  Commands
\* and accidents are bounded and no step repeats, so all of them get their turn.
FairSpec == Spec /\ WF_vars(\E p \in Procs : Step(p))

(***************************************************************************)
(* Properties.                                                             *)
(***************************************************************************)

FirstFits(children, n, platform) ==
    /\ MatchesPlatform(children[n].platform, platform)
    /\ \A k \in 1..(n - 1) : ~MatchesPlatform(children[k].platform, platform)

\* The image is below doc: in whatever has doc and, of each index in it, the first child
\* of the platform.
Fits(doc, platform, img) ==
    /\ img \in Images
    /\ \A docs \in SUBSET Docs :
          /\ doc \in docs
          /\ \A x \in docs \cap Indexes : \A n \in DOMAIN Children[x] :
                FirstFits(Children[x], n, platform) => Children[x][n].doc \in docs
          => img \in docs

\* A pull that succeeded, and that neither the cache nor a config that was cut off
\* misled, has saved what the tag named at some moment of the pull, for the
\* platform, and every layer of it, whole and in order: no fault, of the many
\* that can hit it, passes for success (pull.go:31-58, verify.go:33-43).
ResultFits(p) ==
    \E doc \in pull[p].since : Fits(doc, pull[p].kind.platform, pull[p].img)

ResultIsWhole(p) ==
    Format(p) # "oci" =>
        pull[p].out = [i \in 1..Len(LayersIn(p)) |->
                          [layer |-> LayersIn(p)[i], body |-> "whole"]]

SuccessIsTheImage ==
    \A p \in Procs : pull[p].pc = "done" /\ ~pull[p].misled => ResultFits(p) /\ ResultIsWhole(p)

\* Who reads an image that index.json lists finds it, and finds it whole, but for
\* the blobs that are being written or that a writer left when it failed or died;
\* unless the image was listed by a pull that was misled.  WriteBlob takes what
\* exists for written, so this is what two pulls that share layers owe each other
\* (layout/write.go:36-232, image.go:57-106).
IndexedImagesComplete ==
    \A img \in ToSet(index.images) \ hollow :
        LET blobs == BlobsOf(img, LayersOf[img])
            reads == ReadImage(img, LayersOf[img])
            unsure == {blob \in blobs : Writing(blob) \/ blob \in cut}
        IN  \A blob \in blobs \ unsure :
               {"whole"} = IF BlobPath("manifest", img) \in unsure THEN Seen(blob) ELSE reads[blob]

\* As long as no two saves into the layout overlapped and none was cut short by a
\* crash, the layout lists every image that a pull has saved, and a pull that
\* fails takes none away (crane/pull.go:97-107, layout/write.go:109-128).
IndexKeepsImages ==
    clean /\ (\A p \in Procs : pull[p].pc # "indexWrite") => saved \subseteq ToSet(index.images)

\* Every pull ends, at whatever step it is: whatever fails, the pool of layers comes
\* to its end (layout/write.go:198-207).
PullsReturn == \A p \in Procs : []<>(pull[p].pc \in Over)

\* What the cache says it has is the layer, whole (cache.go:24-25: "Get returns the
\* Layer cached by the given Hash, or ErrNotFound if no such layer was found").
HitIsTheLayer ==
    \A p \in Procs : \A i \in 1..Len(pull[p].srcs) :
        pull[p].srcs[i].from = "cache" /\ pull[p].srcs[i].form = "digest" => pull[p].srcs[i].own
=============================================================================
