----------------------------- MODULE PullsProofs -----------------------------
(***************************************************************************)
(* What pulls owe each other and their callers, for any number of them     *)
(* that share a layout and a cache.                                        *)
(***************************************************************************)
EXTENDS Pulls, FiniteSetTheorems, FunctionTheorems, SequenceTheorems,
        WellFoundedInduction, TLAPS

(***************************************************************************)
(* Types.                                                                  *)
(***************************************************************************)

Hands == [path : Paths, by : Procs \X Nat, mark : Marks]

Sourced == [from : {"cache", "remote"}, layer : Layers, form : {"digest", "diffid"}, own : BOOLEAN]
Entries == [layer : Layers, body : Contents]
Stages == {"todo", "open", "sized", "reopened", "create", "copy", "done", "failed"}

AppendLabels == {"config", "configCreate", "configWrite", "manifest", "manifestCreate",
                 "manifestWrite", "append", "index", "indexWrite"}
GatherLabels == {"open", "create", "init", "rawconfig", "layers", "diffid"}
ImageLabels == GatherLabels \cup {"copy", "done"} \cup AppendLabels
PullLabels == {"idle", "failed", "get", "resolve"} \cup ImageLabels

Commands == (UNION Range(Kinds)) \cup {Idle.kind}

PullStates ==
    [pc : PullLabels, kind : Commands, since : SUBSET Docs, doc : Docs \cup {None},
     img : Images \cup {None}, conf : {"none", "part", "whole"}, pass : {1, 2},
     srcs : Seq(Sourced), at : Nat \ {0}, jobs : Seq(Stages), read : Seq(Images),
     out : Seq(Entries), misled : BOOLEAN]

Indices == [is : {"none", "broken", "listing"}, images : Seq(Images)]

TypeInv ==
    /\ tag \in Docs
    /\ file \in [Paths -> Contents] /\ hands \subseteq Hands /\ cut \subseteq Paths
    /\ index \in Indices
    /\ pull \in [Procs -> PullStates]
    /\ saved \subseteq Images /\ hollow \subseteq Images /\ clean \in BOOLEAN

(***************************************************************************)
(* Files.                                                                  *)
(***************************************************************************)

\* A blob of the layout that is there is whole, or was left by a writer that
\* was not done, or belongs to the writer that truncated it last; and what is
\* open and has its name is there.
FilesInv ==
    /\ \A h \in hands : h.mark # "unlinked" => Exists(h.path)
    /\ \A path \in Paths : path.dir = "layout" /\ Exists(path) =>
          \/ path \in cut \/ file[path] = "whole"
          \/ \E h \in hands : h.path = path /\ h.mark = "open"

LayersThere(img) == \A layer \in ToSet(LayersOf[img]) : Exists(BlobPath("layer", layer))

(***************************************************************************)
(* What a pull has come to.                                                *)
(***************************************************************************)

\* The sources are those of the first layers, each with its own digest.
Faithful(srcs, layers) ==
    /\ Len(srcs) <= Len(layers)
    /\ \A i \in 1 .. Len(srcs) : srcs[i].own /\ srcs[i].layer = layers[i]

\* Whatever the cache answers, a source stands for a layer of the image.
Within(srcs, layers) == \A i \in 1 .. Len(srcs) : srcs[i].layer \in ToSet(layers)

\* What has been written is the first layers, whole.
WrittenFrom(out, layers) ==
    /\ Len(out) <= Len(layers)
    /\ \A i \in 1 .. Len(out) : out[i] = [layer |-> layers[i], body |-> "whole"]

GatherInv(r) ==
    /\ r.pc \in ImageLabels => r.img \in Images
    /\ r.pc \in {"get", "resolve", "open", "create", "init", "rawconfig"} => r.srcs = <<>> /\ r.at = 1
    /\ r.pc \in {"layers", "diffid"} /\ ~r.misled =>
          /\ Faithful(r.srcs, LayersOf[r.img])
          /\ r.kind.cached => Len(r.srcs) = r.at - 1
    /\ r.pc \in {"layers", "diffid", "copy"} => Within(r.srcs, LayersOf[r.img])
    /\ r.pc = "diffid" => r.kind.cached /\ r.at <= Len(LayersOf[r.img])
    /\ r.pc \in {"get", "resolve"} \cup GatherLabels => r.out = <<>>

\* Each layer that is being written, or is done, has its blob.
Begun(jobs, layers) ==
    \A i \in 1 .. Len(jobs) :
        jobs[i] \in {"copy", "done"} => Exists(BlobPath("layer", layers[i]))

\* The layers that are done are those that have been written.
InTurn(jobs, out) == \A i \in 1 .. Len(jobs) : jobs[i] = "done" <=> i <= Len(out)

CopyInv(r) ==
    r.pc = "copy" =>
        /\ Len(r.jobs) = Len(r.srcs)
        /\ ~r.misled =>
              /\ Faithful(r.srcs, LayersOf[r.img]) /\ Len(r.srcs) = Len(LayersOf[r.img])
              /\ r.kind.fmt = "oci" => Begun(r.jobs, LayersOf[r.img])
              /\ r.kind.fmt # "oci" => WrittenFrom(r.out, LayersOf[r.img]) /\ InTurn(r.jobs, r.out)

AppendInv(r) ==
    /\ r.pc \in {"open", "create", "init"} \cup AppendLabels => r.kind.fmt = "oci"
    /\ r.pc \in AppendLabels /\ ~r.misled => LayersThere(r.img)
    /\ r.pc \in AppendLabels \ {"config", "configCreate"} /\ ~r.misled =>
          Exists(BlobPath("config", r.img))
    /\ r.pc \in {"manifestWrite", "append", "index", "indexWrite"} =>
          Exists(BlobPath("manifest", r.img))

DoneInv(r) ==
    r.pc = "done" /\ ~r.misled /\ r.kind.fmt # "oci" =>
        WrittenFrom(r.out, LayersOf[r.img]) /\ Len(r.out) = Len(LayersOf[r.img])

Local(r) == GatherInv(r) /\ CopyInv(r) /\ AppendInv(r) /\ DoneInv(r)

PullInv == \A p \in Procs : Local(pull[p])

(***************************************************************************)
(* The index.                                                              *)
(***************************************************************************)

Sound(img) == img \in hollow \/ \A blob \in BlobsOf(img, LayersOf[img]) : Exists(blob)

ListedInv ==
    /\ \A img \in ToSet(index.images) : Sound(img)
    /\ \A p \in Procs : pull[p].pc \in {"index", "indexWrite"} =>
          \A img \in ToSet(pull[p].read) : Sound(img)

Saves(r) == r.pc \notin Over \cup {"get", "resolve", "open"} /\ r.kind.fmt = "oci"

\* Two saves into the layout that do not overlap see each other's images.
KeptInv ==
    /\ index.is # "listing" => index.images = <<>>
    /\ index.is = "none" => saved = {}
    /\ clean =>
          /\ \A p, q \in Procs : Saves(pull[p]) /\ Saves(pull[q]) => p = q
          /\ \A p \in Procs :
                /\ pull[p].pc = "create" => index.is = "none"
                /\ pull[p].pc = "init" => index.is = "broken" /\ saved = {}
                /\ pull[p].pc = "index" => saved \subseteq ToSet(pull[p].read)
                /\ pull[p].pc = "indexWrite" =>
                      index.is = "broken" /\ saved \subseteq ToSet(pull[p].read)
          /\ (\A p \in Procs : pull[p].pc \notin {"init", "indexWrite"}) =>
                index.is # "broken" /\ saved \subseteq ToSet(index.images)

IInv == TypeInv /\ FilesInv /\ PullInv /\ ListedInv /\ KeptInv

(***************************************************************************)
(* What a step does to the files.                                          *)
(***************************************************************************)

\* Blobs of the layout stay.
FileGood ==
    /\ file' \in [Paths -> Contents] /\ hands' \subseteq Hands /\ cut' \subseteq Paths
    /\ FilesInv'
    /\ \A path \in Paths : path.dir = "layout" /\ Exists(path) => Exists(path)'

LEMMA QuietGood ==
    ASSUME TypeInv, FilesInv, UNCHANGED fileVars
    PROVE  FileGood
<1>1. UNCHANGED <<file, hands, cut>>
  BY DEF fileVars
<1> QED BY <1>1 DEF FileGood, TypeInv, FilesInv, Exists

\* A file is opened again under a writer.
LEMMA RemarkedFacts ==
    ASSUME TypeInv, NEW path, NEW was, NEW mark \in Marks
    PROVE  /\ Remarked(path, was, mark) \subseteq Hands
           /\ \A h \in Remarked(path, was, mark) : \E g \in hands :
                 /\ h.path = g.path
                 /\ IF g.path = path /\ g.mark \in was THEN h.mark = mark ELSE h = g
           /\ \A g \in hands : g.path # path => g \in Remarked(path, was, mark)
<1> DEFINE New(g) == IF g.path = path /\ g.mark \in was THEN [g EXCEPT !.mark = mark] ELSE g
<1>1. ASSUME NEW g \in hands
      PROVE  /\ New(g) \in Hands /\ New(g).path = g.path
             /\ IF g.path = path /\ g.mark \in was THEN New(g).mark = mark ELSE New(g) = g
  BY <1>1 DEF TypeInv, Hands
<1>2. Remarked(path, was, mark) = {New(g) : g \in hands}
  BY DEF Remarked
<1> HIDE DEF New
<1>3. \A g \in hands : g.path # path => New(g) = g
  BY <1>1
<1> QED BY <1>1, <1>2, <1>3

LEMMA CreateGood ==
    ASSUME TypeInv, FilesInv, NEW path \in Paths, NEW by \in Procs \X Nat, Create(path, by)
    PROVE  FileGood /\ Exists(path)'
<1>1. PICK new : new = [path |-> path, by |-> by, mark |-> "open"]
  OBVIOUS
<1>2. new \in Hands /\ new.path = path /\ new.mark = "open"
  BY <1>1 DEF Hands, Marks
<1>3. PICK old : old = Remarked(path, {"open"}, "overtaken")
  OBVIOUS
<1>4. /\ old \subseteq Hands
      /\ \A h \in old : \E g \in hands :
            /\ h.path = g.path
            /\ IF g.path = path /\ g.mark \in {"open"} THEN h.mark = "overtaken" ELSE h = g
      /\ \A g \in hands : g.path # path => g \in old
  BY <1>3, RemarkedFacts DEF Marks
<1>5. file' = [file EXCEPT ![path] = "empty"] /\ hands' = old \cup {new} /\ UNCHANGED cut
  BY <1>1, <1>3 DEF Create
<1>6. /\ file' \in [Paths -> Contents] /\ file'[path] = "empty"
      /\ \A x \in Paths : x # path => file'[x] = file[x]
  BY <1>5 DEF TypeInv, Contents
<1>7. \A x \in Paths : Exists(x) => Exists(x)'
  BY <1>6 DEF Exists
<1>8. FilesInv'
  <2>1. ASSUME NEW h \in hands', h.mark # "unlinked"
        PROVE  Exists(h.path)'
    <3>1. CASE h = new
      BY <1>2, <1>6, <3>1 DEF Exists
    <3>2. CASE h \in old
      <4>1. PICK g \in hands :
               /\ h.path = g.path
               /\ IF g.path = path /\ g.mark \in {"open"} THEN h.mark = "overtaken" ELSE h = g
        BY <1>4, <3>2
      <4>2. g.mark # "unlinked" /\ g.path \in Paths
        BY <2>1, <4>1 DEF TypeInv, Hands
      <4>3. Exists(g.path)
        BY <4>2 DEF FilesInv
      <4> QED BY <1>6, <4>1, <4>2, <4>3 DEF Exists
    <3> QED BY <1>5, <3>1, <3>2
  <2>2. ASSUME NEW x \in Paths, x.dir = "layout", Exists(x)'
        PROVE  \/ x \in cut' \/ file'[x] = "whole"
               \/ \E h \in hands' : h.path = x /\ h.mark = "open"
    <3>1. CASE x = path
      BY <1>2, <1>5, <3>1
    <3>2. CASE x # path
      <4>1. file'[x] = file[x] /\ Exists(x)
        BY <1>6, <2>2, <3>2 DEF Exists
      <4>2. \/ x \in cut \/ file[x] = "whole"
            \/ \E h \in hands : h.path = x /\ h.mark = "open"
        BY <2>2, <4>1 DEF FilesInv
      <4> QED BY <1>4, <1>5, <3>2, <4>1, <4>2
    <3> QED BY <3>1, <3>2
  <2> QED BY <2>1, <2>2 DEF FilesInv
<1>9. hands' \subseteq Hands /\ cut' \subseteq Paths
  BY <1>2, <1>4, <1>5 DEF TypeInv
<1> QED BY <1>6, <1>7, <1>8, <1>9 DEF FileGood, Exists

\* Only files of the cache are removed.
LEMMA UnlinkGood ==
    ASSUME TypeInv, FilesInv, NEW path \in Paths, path.dir = "cache", Unlink(path)
    PROVE  FileGood
<1>1. PICK old : old = Remarked(path, {"open", "overtaken"}, "unlinked")
  OBVIOUS
<1>2. /\ old \subseteq Hands
      /\ \A h \in old : \E g \in hands :
            /\ h.path = g.path
            /\ IF g.path = path /\ g.mark \in {"open", "overtaken"}
                 THEN h.mark = "unlinked" ELSE h = g
      /\ \A g \in hands : g.path # path => g \in old
  BY <1>1, RemarkedFacts DEF Marks
<1>3. file' = [file EXCEPT ![path] = "none"] /\ hands' = old /\ UNCHANGED cut
  BY <1>1 DEF Unlink
<1>4. /\ file' \in [Paths -> Contents]
      /\ \A x \in Paths : x # path => file'[x] = file[x]
  BY <1>3 DEF TypeInv, Contents
<1>5. FilesInv'
  <2>1. ASSUME NEW h \in hands', h.mark # "unlinked"
        PROVE  Exists(h.path)'
    <3>1. PICK g \in hands :
             /\ h.path = g.path
             /\ IF g.path = path /\ g.mark \in {"open", "overtaken"}
                  THEN h.mark = "unlinked" ELSE h = g
      BY <1>2, <1>3
    <3>2. g.path # path /\ g.mark # "unlinked" /\ g.path \in Paths
      BY <2>1, <3>1 DEF TypeInv, Hands, Marks
    <3>3. Exists(g.path)
      BY <3>2 DEF FilesInv
    <3> QED BY <1>4, <3>1, <3>2, <3>3 DEF Exists
  <2>2. ASSUME NEW x \in Paths, x.dir = "layout", Exists(x)'
        PROVE  \/ x \in cut' \/ file'[x] = "whole"
               \/ \E h \in hands' : h.path = x /\ h.mark = "open"
    <3>1. x # path
      BY <2>2
    <3>2. file'[x] = file[x] /\ Exists(x)
      BY <1>4, <2>2, <3>1 DEF Exists
    <3>3. \/ x \in cut \/ file[x] = "whole"
          \/ \E h \in hands : h.path = x /\ h.mark = "open"
      BY <2>2, <3>2 DEF FilesInv
    <3> QED BY <1>2, <1>3, <3>1, <3>2, <3>3
  <2> QED BY <2>1, <2>2 DEF FilesInv
<1>6. \A x \in Paths : x.dir = "layout" /\ Exists(x) => Exists(x)'
  BY <1>4 DEF Exists
<1>7. hands' \subseteq Hands /\ cut' \subseteq Paths
  BY <1>2, <1>3 DEF TypeInv
<1> QED BY <1>4, <1>5, <1>6, <1>7 DEF FileGood

\* Whoever closes a file that it has truncated last leaves it whole, or the
\* path is among those that were cut.
LEMMA CloseGood ==
    ASSUME TypeInv, FilesInv, NEW who, NEW bodies, bodies \subseteq Contents \ {"none"},
           Close(who, bodies)
    PROVE  FileGood
<1> DEFINE mine == {h \in hands : h.by \in who}
           named == {h \in mine : h.mark # "unlinked"}
           at == {h.path : h \in named}
<1>1. mine = {h \in hands : h.by \in who}
  OBVIOUS
<1>2. named = {h \in mine : h.mark # "unlinked"}
  OBVIOUS
<1>3. at = {h.path : h \in named}
  OBVIOUS
<1>4. \E became \in [at -> Contents] :
         /\ \A h \in named : \E body \in bodies : became[h.path] \in After(h, body)
         /\ file' = [path \in Paths |-> IF path \in at THEN became[path] ELSE file[path]]
  BY DEF Close
<1>5. /\ hands' = hands \ mine
      /\ cut' = cut \cup (IF bodies = {"whole"} THEN {} ELSE at)
  BY DEF Close
<1> HIDE DEF mine, named, at
<1>6. PICK became \in [at -> Contents] :
         /\ \A h \in named : \E body \in bodies : became[h.path] \in After(h, body)
         /\ file' = [path \in Paths |-> IF path \in at THEN became[path] ELSE file[path]]
  BY <1>4
<1>7. /\ mine \subseteq hands /\ named \subseteq mine /\ at \subseteq Paths
      /\ \A h \in named : h.path \in at /\ h.mark # "unlinked"
  BY <1>1, <1>2, <1>3 DEF TypeInv, Hands
<1>8. /\ file' \in [Paths -> Contents]
      /\ \A path \in at : file'[path] = became[path]
      /\ \A path \in Paths \ at : file'[path] = file[path]
  BY <1>6, <1>7 DEF TypeInv
<1>9. ASSUME NEW path \in at
      PROVE  file[path] # "none" /\ became[path] # "none"
  <2>1. PICK h \in named : h.path = path
    BY <1>3, <1>9
  <2>2. file[path] # "none"
    BY <1>7, <2>1 DEF FilesInv, Exists
  <2>3. PICK body \in bodies : became[path] \in After(h, body)
    BY <1>6, <2>1
  <2>4. body # "none"
    OBVIOUS
  <2> QED BY <2>1, <2>2, <2>3, <2>4 DEF After
<1>10. \A path \in Paths : Exists(path) <=> Exists(path)'
  BY <1>8, <1>9 DEF Exists
<1>11. FilesInv'
  <2>1. ASSUME NEW h \in hands', h.mark # "unlinked"
        PROVE  Exists(h.path)'
    <3>1. h \in hands /\ h.path \in Paths /\ Exists(h.path)
      BY <1>5, <2>1 DEF TypeInv, Hands, FilesInv
    <3> QED BY <1>8, <1>9, <3>1 DEF Exists
  <2>2. ASSUME NEW path \in Paths, path.dir = "layout", Exists(path)'
        PROVE  \/ path \in cut' \/ file'[path] = "whole"
               \/ \E h \in hands' : h.path = path /\ h.mark = "open"
    <3>1. Exists(path)
      BY <1>8, <1>9, <2>2 DEF Exists
    <3>2. \/ path \in cut \/ file[path] = "whole"
          \/ \E h \in hands : h.path = path /\ h.mark = "open"
      BY <2>2, <3>1 DEF FilesInv
    <3>3. CASE path \notin at
      <4>1. ASSUME NEW h \in hands, h.path = path, h.mark = "open"
            PROVE  h \in hands'
        BY <1>1, <1>2, <1>5, <1>7, <3>3, <4>1
      <4> QED BY <1>5, <1>8, <3>2, <3>3, <4>1
    <3>4. CASE path \in at /\ bodies # {"whole"}
      BY <1>5, <3>4
    <3>5. CASE path \in at /\ bodies = {"whole"}
      <4>1. PICK h \in named : h.path = path
        BY <1>3, <3>5
      <4>2. became[path] \in After(h, "whole")
        BY <1>6, <3>5, <4>1
      <4>3. CASE file[path] = "whole"
        BY <1>8, <3>5, <4>1, <4>2, <4>3 DEF After
      <4>4. ASSUME NEW g \in hands, g.path = path, g.mark = "open", file[path] # "whole"
            PROVE  \/ file'[path] = "whole"
                   \/ \E x \in hands' : x.path = path /\ x.mark = "open"
        <5>1. CASE g \in mine
          <6>1. g \in named
            BY <1>2, <4>4, <5>1
          <6>2. became[path] \in After(g, "whole")
            BY <1>6, <3>5, <4>4, <6>1
          <6> QED BY <1>8, <3>5, <4>4, <6>2 DEF After
        <5>2. CASE g \notin mine
          BY <1>5, <4>4, <5>2
        <5> QED BY <5>1, <5>2
      <4> QED BY <1>5, <3>2, <4>3, <4>4
    <3> QED BY <3>3, <3>4, <3>5
  <2> QED BY <2>1, <2>2 DEF FilesInv
<1>12. hands' \subseteq Hands /\ cut' \subseteq Paths
  BY <1>5, <1>7 DEF TypeInv
<1> QED BY <1>8, <1>10, <1>11, <1>12 DEF FileGood
(***************************************************************************)
(* What a step of one pull does to the others.                             *)
(***************************************************************************)

LEMMA BlobsArePaths ==
    ASSUME NEW img \in Images
    PROVE  /\ LayersOf[img] \in Seq(Layers)
           /\ \A blob \in BlobsOf(img, LayersOf[img]) : blob \in Paths /\ blob.dir = "layout"
           /\ \A layer \in ToSet(LayersOf[img]) :
                 BlobPath("layer", layer) \in Paths /\ BlobPath("layer", layer).dir = "layout"
           /\ \A kind \in {"config", "manifest"} :
                 BlobPath(kind, img) \in Paths /\ BlobPath(kind, img).dir = "layout"
<1>1. LayersOf[img] \in Seq(Layers)
  BY PullsAssumption
<1>2. BlobsOf(img, LayersOf[img]) \subseteq Paths
  BY PullsAssumption
<1>3. \A blob \in BlobsOf(img, LayersOf[img]) : blob.dir = "layout"
  BY DEF BlobsOf, BlobPath
<1>4. \A layer \in ToSet(LayersOf[img]) : BlobPath("layer", layer) \in BlobsOf(img, LayersOf[img])
  BY DEF BlobsOf
<1>5. \A kind \in {"config", "manifest"} : BlobPath(kind, img) \in BlobsOf(img, LayersOf[img])
  BY DEF BlobsOf
<1> QED BY <1>1, <1>2, <1>3, <1>4, <1>5

LEMMA LayerIsPath ==
    ASSUME NEW img \in Images, NEW i \in 1 .. Len(LayersOf[img])
    PROVE  /\ LayersOf[img][i] \in Layers
           /\ LayersOf[img][i] \in ToSet(LayersOf[img])
           /\ BlobPath("layer", LayersOf[img][i]) \in Paths
           /\ BlobPath("layer", LayersOf[img][i]).dir = "layout"
<1>1. LayersOf[img] \in Seq(Layers)
  BY BlobsArePaths
<1>2. LayersOf[img][i] \in Layers
  BY <1>1
<1>3. LayersOf[img][i] \in ToSet(LayersOf[img])
  BY <1>1 DEF ToSet
<1> QED BY <1>2, <1>3, BlobsArePaths

LEMMA ImageKept ==
    ASSUME FileGood, NEW img \in Images
    PROVE  /\ \A blob \in BlobsOf(img, LayersOf[img]) : Exists(blob) => Exists(blob)'
           /\ \A i \in 1 .. Len(LayersOf[img]) :
                 Exists(BlobPath("layer", LayersOf[img][i]))
                 => Exists(BlobPath("layer", LayersOf[img][i]))'
           /\ \A kind \in {"config", "manifest"} :
                 Exists(BlobPath(kind, img)) => Exists(BlobPath(kind, img))'
           /\ LayersThere(img) => LayersThere(img)'
<1>1. \A path \in Paths : path.dir = "layout" /\ Exists(path) => Exists(path)'
  BY DEF FileGood
<1>2. \A blob \in BlobsOf(img, LayersOf[img]) : Exists(blob) => Exists(blob)'
  BY <1>1, BlobsArePaths
<1>3. \A i \in 1 .. Len(LayersOf[img]) :
         Exists(BlobPath("layer", LayersOf[img][i]))
         => Exists(BlobPath("layer", LayersOf[img][i]))'
  BY <1>1, LayerIsPath
<1>4. \A kind \in {"config", "manifest"} :
         Exists(BlobPath(kind, img)) => Exists(BlobPath(kind, img))'
  BY <1>1, BlobsArePaths
<1>5. \A layer \in ToSet(LayersOf[img]) :
         Exists(BlobPath("layer", layer)) => Exists(BlobPath("layer", layer))'
  BY <1>1, BlobsArePaths
<1>6. LayersThere(img) => LayersThere(img)'
  BY <1>5 DEF LayersThere
<1> QED BY <1>2, <1>3, <1>4, <1>6

LEMMA BegunKept ==
    ASSUME FileGood, NEW img \in Images, NEW jobs \in Seq(Stages), Len(jobs) = Len(LayersOf[img]),
           Begun(jobs, LayersOf[img])
    PROVE  Begun(jobs, LayersOf[img])'
<1>1. \A i \in 1 .. Len(LayersOf[img]) :
         Exists(BlobPath("layer", LayersOf[img][i]))
         => Exists(BlobPath("layer", LayersOf[img][i]))'
  BY ImageKept
<1> QED BY <1>1 DEF Begun

LEMMA LocalKept ==
    ASSUME FileGood, NEW r \in PullStates, Local(r)
    PROVE  Local(r)'
<1>1. GatherInv(r)' /\ DoneInv(r)'
  BY DEF Local, GatherInv, DoneInv
<1>2. r.pc \in ImageLabels => r.img \in Images
  BY DEF Local, GatherInv
<1>3. CopyInv(r)'
  <2>1. SUFFICES ASSUME r.pc = "copy" PROVE CopyInv(r)'
    BY DEF CopyInv
  <2>2. r.img \in Images /\ r.jobs \in Seq(Stages)
    BY <1>2, <2>1 DEF ImageLabels, PullStates
  <2>3. CopyInv(r)
    BY DEF Local
  <2>4. ASSUME ~r.misled, r.kind.fmt = "oci"
        PROVE  Begun(r.jobs, LayersOf[r.img])'
    <3>1. Begun(r.jobs, LayersOf[r.img]) /\ Len(r.jobs) = Len(LayersOf[r.img])
      BY <2>1, <2>3, <2>4 DEF CopyInv
    <3> QED BY <2>2, <3>1, BegunKept
  <2> QED BY <2>1, <2>3, <2>4 DEF CopyInv
<1>4. AppendInv(r)'
  <2>1. AppendInv(r)
    BY DEF Local
  <2>2. CASE r.pc \in AppendLabels
    <3>1. r.img \in Images
      BY <1>2, <2>2 DEF ImageLabels
    <3> QED BY <2>1, <2>2, <3>1, ImageKept DEF AppendInv
  <2>3. CASE r.pc \notin AppendLabels
    BY <2>1, <2>3 DEF AppendInv, AppendLabels
  <2> QED BY <2>2, <2>3
<1> QED BY <1>1, <1>3, <1>4 DEF Local

LEMMA SoundKept ==
    ASSUME FileGood, hollow \subseteq hollow', NEW img \in Images, Sound(img)
    PROVE  Sound(img)'
BY ImageKept DEF Sound

\* All pulls but one are as they were.
LEMMA RestKept ==
    ASSUME IInv, FileGood, NEW p \in Procs, NEW r \in PullStates, Local(r)',
           pull' = [pull EXCEPT ![p] = r]
    PROVE  /\ pull' \in [Procs -> PullStates] /\ pull'[p] = r
           /\ \A q \in Procs \ {p} : pull'[q] = pull[q]
           /\ PullInv'
<1>1. pull \in [Procs -> PullStates]
  BY DEF IInv, TypeInv
<1>2. /\ pull' \in [Procs -> PullStates] /\ pull'[p] = r
      /\ \A q \in Procs \ {p} : pull'[q] = pull[q]
  BY <1>1
<1>3. ASSUME NEW q \in Procs
      PROVE  Local(pull[q])'
  <2>1. CASE q = p
    BY <1>2, <2>1
  <2>2. CASE q # p
    <3>1. PICK s \in PullStates : s = pull[q]
      BY <1>1
    <3>2. Local(s)
      BY <3>1 DEF IInv, PullInv
    <3>3. Local(s)'
      BY <3>2, LocalKept
    <3>4. pull'[q] = s
      BY <1>2, <2>2, <3>1
    <3> QED BY <3>3, <3>4
  <2> QED BY <2>1, <2>2
<1> QED BY <1>2, <1>3 DEF PullInv

LEMMA ListedTypes ==
    ASSUME IInv
    PROVE  /\ ToSet(index.images) \subseteq Images
           /\ \A p \in Procs : ToSet(pull[p].read) \subseteq Images
<1>1. index.images \in Seq(Images) /\ \A p \in Procs : pull[p].read \in Seq(Images)
  BY DEF IInv, TypeInv, Indices, PullStates
<1> QED BY <1>1 DEF ToSet

\* A step that leaves the index alone, and does not come to it.
LEMMA PlainStep ==
    ASSUME IInv, FileGood, NEW p \in Procs, NEW r \in PullStates, Local(r)',
           pull' = [pull EXCEPT ![p] = r], tag' \in Docs,
           UNCHANGED <<index, saved, hollow, clean>>,
           r.pc \notin {"create", "init", "index", "indexWrite"},
           pull[p].pc \notin {"init", "indexWrite"},
           Saves(r) => Saves(pull[p])
    PROVE  IInv'
<1>1. /\ pull' \in [Procs -> PullStates] /\ pull'[p] = r
      /\ \A q \in Procs \ {p} : pull'[q] = pull[q]
      /\ PullInv'
  BY RestKept
<1>2. TypeInv'
  BY <1>1 DEF IInv, TypeInv, FileGood
<1>3. ListedInv'
  <2>1. \A img \in Images : Sound(img) => Sound(img)'
    BY SoundKept
  <2>2. \A img \in ToSet(index.images) : Sound(img)'
    BY <2>1, ListedTypes DEF IInv, ListedInv
  <2>3. ASSUME NEW q \in Procs, pull'[q].pc \in {"index", "indexWrite"},
               NEW img \in ToSet(pull'[q].read)
        PROVE  Sound(img)'
    <3>1. pull'[q] = pull[q]
      BY <1>1, <2>3
    <3> QED BY <2>1, <2>3, <3>1, ListedTypes DEF IInv, ListedInv
  <2> QED BY <2>2, <2>3 DEF ListedInv
<1>4. KeptInv'
  <2>1. \A q \in Procs : Saves(pull'[q]) => Saves(pull[q])
    BY <1>1
  <2>2. \A q \in Procs : pull'[q].pc \in {"create", "init", "index", "indexWrite"} => pull'[q] = pull[q]
    BY <1>1
  <2>3. (\A q \in Procs : pull'[q].pc \notin {"init", "indexWrite"})
        => \A q \in Procs : pull[q].pc \notin {"init", "indexWrite"}
    BY <1>1
  <2>4. \A q1, q2 \in Procs : clean /\ Saves(pull'[q1]) /\ Saves(pull'[q2]) => q1 = q2
    BY <2>1 DEF IInv, KeptInv
  <2> HIDE DEF Saves
  <2> QED BY <2>2, <2>3, <2>4 DEF IInv, KeptInv
<1> QED BY <1>1, <1>2, <1>3, <1>4 DEF IInv, FileGood

LEMMA IdleState ==
    /\ Idle \in PullStates /\ Idle.pc = "idle" /\ Idle.misled = FALSE
    /\ Idle.srcs = <<>> /\ Idle.at = 1 /\ Idle.out = <<>> /\ Idle.read = <<>>
<1>1. PICK given : given = CHOOSE kind \in UNION Range(Kinds) : TRUE
  OBVIOUS
<1>2. Idle = [pc |-> "idle", kind |-> given, since |-> {}, doc |-> None, img |-> None,
              conf |-> "none", pass |-> 1, srcs |-> <<>>, at |-> 1, jobs |-> <<>>,
              read |-> <<>>, out |-> <<>>, misled |-> FALSE]
  BY <1>1 DEF Idle
<1>3. given \in Commands
  <2>1. Idle.kind = given
    BY <1>2
  <2>2. Idle.kind \in Commands
    BY DEF Commands
  <2> QED BY <2>1, <2>2
<1>4. "idle" \in PullLabels
  BY DEF PullLabels
<1> QED BY <1>2, <1>3, <1>4 DEF PullStates

\* A pull that failed has nothing left to owe.
LEMMA FailedState ==
    ASSUME NEW r \in PullStates, NEW s, s = Failed(r)
    PROVE  s \in PullStates /\ s.pc = "failed" /\ Local(s)' /\ ~Saves(s)
<1>1. Idle \in PullStates
  BY IdleState
<1>2. s \in PullStates /\ s.pc = "failed"
  BY <1>1 DEF Failed, PullStates, PullLabels
<1> QED BY <1>2 DEF Local, GatherInv, CopyInv, AppendInv, DoneInv, ImageLabels, GatherLabels,
                    AppendLabels, Saves, Over

LEMMA FailStep ==
    ASSUME IInv, FileGood, NEW p \in Procs, Fails(p), tag' \in Docs,
           UNCHANGED <<index, saved, hollow, clean>>, pull[p].pc \notin {"init", "indexWrite"}
    PROVE  IInv'
<1>1. pull[p] \in PullStates
  BY DEF IInv, TypeInv
<1>2. PICK s : s = Failed(pull[p])
  OBVIOUS
<1>3. s \in PullStates /\ s.pc = "failed" /\ Local(s)' /\ ~Saves(s)
  BY <1>1, <1>2, FailedState
<1>4. pull' = [pull EXCEPT ![p] = s]
  BY <1>2 DEF Fails
<1> QED BY <1>3, <1>4, PlainStep
(***************************************************************************)
(* remote.Image and the config.                                            *)
(***************************************************************************)

LEMMA StartStep ==
    ASSUME IInv, NEW p \in Procs, NEW kind \in Kinds[p], Start(p, kind)
    PROVE  IInv'
<1>1. PICK r : r = [Idle EXCEPT !.pc = "get", !.kind = kind, !.since = {tag}]
  OBVIOUS
<1>2. kind \in Commands /\ tag \in Docs
  BY PullsAssumption DEF Commands, IInv, TypeInv
<1>3. r \in PullStates /\ r.pc = "get" /\ r.srcs = <<>> /\ r.at = 1 /\ r.out = <<>>
  BY <1>1, <1>2, IdleState DEF PullStates, PullLabels
<1>4. Local(r)' /\ ~Saves(r)
  BY <1>3 DEF Local, GatherInv, CopyInv, AppendInv, DoneInv, ImageLabels, GatherLabels,
              AppendLabels, Saves, Over
<1>5. pull' = [pull EXCEPT ![p] = r] /\ pull[p].pc \in Over
  BY <1>1 DEF Start
<1>6. FileGood /\ tag' \in Docs
  BY <1>2, QuietGood DEF Start, IInv, remoteVars
<1>7. UNCHANGED <<index, saved, hollow, clean>>
  BY DEF Start
<1> QED BY <1>3, <1>4, <1>5, <1>6, <1>7, PlainStep DEF Over

\* Calls of the registry leave what the tag names.
LEMMA Asking ==
    ASSUME IInv, NEW n, Answered \/ Failing(n)
    PROVE  tag' = tag /\ tag' \in Docs
BY DEF Answered, Failing, remoteVars, IInv, TypeInv

LEMMA GetStep ==
    ASSUME IInv, NEW p \in Procs, Get(p)
    PROVE  IInv'
<1>1. FileGood /\ tag' \in Docs /\ UNCHANGED <<index, saved, hollow, clean>>
  BY QuietGood, Asking DEF Get, IInv
<1>2. PICK s \in PullStates : s = pull[p] /\ Local(s)
  BY DEF IInv, TypeInv, PullInv
<1>3. s.pc = "get"
  BY <1>2 DEF Get
<1>4. CASE Fails(p)
  BY <1>1, <1>2, <1>3, <1>4, FailStep
<1>5. CASE pull' = [pull EXCEPT ![p].pc = "resolve", ![p].doc = tag]
  <2>1. PICK r : r = [s EXCEPT !.pc = "resolve", !.doc = tag]
    OBVIOUS
  <2>2. r \in PullStates /\ r.pc = "resolve" /\ r.srcs = s.srcs /\ r.at = s.at /\ r.out = s.out
    BY <2>1 DEF PullStates, PullLabels, IInv, TypeInv
  <2>3. pull' = [pull EXCEPT ![p] = r]
    BY <1>2, <1>5, <2>1 DEF IInv, TypeInv
  <2>4. Local(r)' /\ ~Saves(r)
    BY <1>2, <1>3, <2>2 DEF Local, GatherInv, CopyInv, AppendInv, DoneInv, ImageLabels,
                            GatherLabels, AppendLabels, Saves, Over
  <2> QED BY <1>1, <1>2, <1>3, <2>2, <2>3, <2>4, PlainStep
<1> QED BY <1>4, <1>5 DEF Get

\* A pull that has its image, and has read nothing of it.
LEMMA FirstState ==
    ASSUME NEW r \in PullStates, r.img \in Images, r.pc = FirstStep(r.kind.fmt),
           r.srcs = <<>>, r.at = 1, r.out = <<>>
    PROVE  /\ Local(r)' /\ ~Saves(r)
           /\ r.pc \in {"open", "rawconfig"}
<1>1. /\ r.pc \in {"open", "rawconfig"}
      /\ r.pc = "open" => r.kind.fmt = "oci"
      /\ r.kind.fmt = "oci" => r.pc = "open"
  BY DEF FirstStep
<1>2. LayersOf[r.img] \in Seq(Layers)
  BY BlobsArePaths
<1>3. Faithful(r.srcs, LayersOf[r.img]) /\ Within(r.srcs, LayersOf[r.img])
  BY <1>2 DEF Faithful, Within
<1>4. GatherInv(r)'
  BY <1>1, <1>3 DEF GatherInv
<1>5. CopyInv(r)' /\ AppendInv(r)' /\ DoneInv(r)'
  BY <1>1 DEF CopyInv, AppendInv, DoneInv, AppendLabels
<1> QED BY <1>1, <1>4, <1>5 DEF Local, Saves

LEMMA ResolveStep ==
    ASSUME IInv, NEW p \in Procs, Resolve(p)
    PROVE  IInv'
<1>1. FileGood /\ tag' \in Docs /\ UNCHANGED <<index, saved, hollow, clean>>
  BY QuietGood, Asking DEF Resolve, IInv
<1>2. PICK s \in PullStates : s = pull[p] /\ Local(s)
  BY DEF IInv, TypeInv, PullInv
<1>3. s.pc = "resolve"
  BY <1>2 DEF Resolve
<1>4. CASE Fails(p)
  BY <1>1, <1>2, <1>3, <1>4, FailStep
<1>5. CASE ~Fails(p)
  <2>1. PICK img : img = Resolved(s.doc, s.kind.platform)
    OBVIOUS
  <2>2. /\ img \in Images
        /\ pull' = [pull EXCEPT ![p].pc = FirstStep(s.kind.fmt), ![p].doc = None, ![p].img = img]
    BY <1>2, <1>5, <2>1 DEF Resolve, ResolvesToImage, Format
  <2>3. PICK r : r = [s EXCEPT !.pc = FirstStep(s.kind.fmt), !.doc = None, !.img = img]
    OBVIOUS
  <2>4. FirstStep(s.kind.fmt) \in PullLabels
    BY DEF FirstStep, PullLabels, ImageLabels, GatherLabels
  <2>5. /\ r \in PullStates /\ r.pc = FirstStep(s.kind.fmt) /\ r.kind = s.kind /\ r.img = img
        /\ r.srcs = s.srcs /\ r.at = s.at /\ r.out = s.out
    BY <2>2, <2>3, <2>4 DEF PullStates
  <2>6. pull' = [pull EXCEPT ![p] = r]
    BY <1>2, <2>2, <2>3 DEF IInv, TypeInv
  <2>7. s.srcs = <<>> /\ s.at = 1 /\ s.out = <<>>
    BY <1>2, <1>3 DEF Local, GatherInv
  <2>8. Local(r)' /\ ~Saves(r) /\ r.pc \in {"open", "rawconfig"}
    BY <2>2, <2>5, <2>7, FirstState
  <2> QED BY <1>1, <1>2, <1>3, <2>5, <2>6, <2>8, PlainStep
<1> QED BY <1>4, <1>5

LEMMA AgainStep ==
    ASSUME IInv, NEW p \in Procs, Again(p)
    PROVE  IInv'
<1>1. FileGood /\ tag' \in Docs /\ UNCHANGED <<index, saved, hollow, clean>>
  BY QuietGood DEF Again, IInv, remoteVars, TypeInv
<1>2. PICK s \in PullStates : s = pull[p]
  BY DEF IInv, TypeInv
<1>3. s.pc = "failed" /\ s.img \in Images
  BY <1>2 DEF Again, PullStates
<1>4. PICK r : r = [Idle EXCEPT !.pc = FirstStep(s.kind.fmt), !.kind = s.kind, !.since = s.since,
                                !.img = s.img, !.conf = s.conf]
  OBVIOUS
<1>5. FirstStep(s.kind.fmt) \in PullLabels
  BY DEF FirstStep, PullLabels, ImageLabels, GatherLabels
<1>6. /\ r \in PullStates /\ r.pc = FirstStep(s.kind.fmt) /\ r.kind = s.kind /\ r.img = s.img
      /\ r.srcs = <<>> /\ r.at = 1 /\ r.out = <<>>
  BY <1>4, <1>5, IdleState DEF PullStates
<1>7. pull' = [pull EXCEPT ![p] = r]
  BY <1>2, <1>4 DEF Again, Format
<1>8. Local(r)' /\ ~Saves(r) /\ r.pc \in {"open", "rawconfig"}
  BY <1>3, <1>6, FirstState
<1> QED BY <1>1, <1>2, <1>3, <1>6, <1>7, <1>8, PlainStep

LEMMA FetchConfigStep ==
    ASSUME IInv, NEW p \in Procs, FetchConfig(p)
    PROVE  IInv'
<1>1. FileGood /\ tag' \in Docs /\ UNCHANGED <<index, saved, hollow, clean>>
  BY QuietGood, Asking DEF FetchConfig, IInv
<1>2. PICK s \in PullStates : s = pull[p] /\ Local(s)
  BY DEF IInv, TypeInv, PullInv
<1>3. s.pc \in {"diffid", "rawconfig", "config"}
  BY <1>2 DEF FetchConfig
<1>4. CASE pull' = [pull EXCEPT ![p].conf = "whole"]
  <2>1. PICK r : r = [s EXCEPT !.conf = "whole"]
    OBVIOUS
  <2>2. /\ r \in PullStates /\ r.pc = s.pc /\ r.kind = s.kind /\ r.img = s.img
        /\ r.misled = s.misled /\ r.srcs = s.srcs /\ r.at = s.at /\ r.out = s.out
    BY <2>1 DEF PullStates
  <2>3. pull' = [pull EXCEPT ![p] = r]
    BY <1>2, <1>4, <2>1 DEF IInv, TypeInv
  <2>4. Local(s)'
    BY <1>1, <1>2, LocalKept
  <2>5. GatherInv(r)' /\ CopyInv(r)' /\ DoneInv(r)'
    BY <1>3, <2>2, <2>4 DEF Local, GatherInv, CopyInv, DoneInv
  <2>6. AppendInv(r)'
    BY <1>3, <2>2, <2>4 DEF Local, AppendInv, AppendLabels
  <2>7. Saves(r) => Saves(s)
    BY <2>2 DEF Saves
  <2> QED BY <1>1, <1>2, <1>3, <2>2, <2>3, <2>5, <2>6, <2>7, PlainStep DEF Local
<1>5. CASE \E kept \in {"none", "part"} :
              pull' = [pull EXCEPT ![p] = Failed([@ EXCEPT !.conf = kept])]
  <2>1. PICK kept \in {"none", "part"} :
           pull' = [pull EXCEPT ![p] = Failed([pull[p] EXCEPT !.conf = kept])]
    BY <1>5
  <2>2. PICK r : r = [s EXCEPT !.conf = kept]
    OBVIOUS
  <2>3. PICK t : t = Failed(r)
    OBVIOUS
  <2>4. r \in PullStates
    BY <2>2 DEF PullStates
  <2>5. t \in PullStates /\ t.pc = "failed" /\ Local(t)' /\ ~Saves(t)
    BY <2>3, <2>4, FailedState
  <2>6. pull' = [pull EXCEPT ![p] = t]
    BY <1>2, <2>1, <2>2, <2>3
  <2> QED BY <1>1, <1>2, <1>3, <2>5, <2>6, PlainStep
<1> QED BY <1>4, <1>5 DEF FetchConfig

LEMMA WriteRawConfigStep ==
    ASSUME IInv, NEW p \in Procs, WriteRawConfig(p)
    PROVE  IInv'
<1>1. FileGood /\ tag' \in Docs /\ UNCHANGED <<index, saved, hollow, clean>>
  BY QuietGood DEF WriteRawConfig, IInv, remoteVars, TypeInv
<1>2. PICK s \in PullStates : s = pull[p] /\ Local(s)
  BY DEF IInv, TypeInv, PullInv
<1>3. s.pc = "rawconfig"
  BY <1>2 DEF WriteRawConfig
<1>4. CASE Fails(p)
  BY <1>1, <1>2, <1>3, <1>4, FailStep
<1>5. CASE ~Fails(p)
  <2>1. PICK misled : misled = (s.misled \/ s.conf # "whole")
    OBVIOUS
  <2>2. PICK r : r = [s EXCEPT !.pc = "layers", !.misled = misled]
    OBVIOUS
  <2>3. misled \in BOOLEAN
    BY <2>1 DEF PullStates
  <2>4. /\ r \in PullStates /\ r.pc = "layers" /\ r.kind = s.kind /\ r.img = s.img
        /\ r.srcs = s.srcs /\ r.at = s.at /\ r.out = s.out
    BY <2>2, <2>3 DEF PullStates, PullLabels, ImageLabels, GatherLabels
  <2>5. pull' = [pull EXCEPT ![p].pc = "layers", ![p].misled = misled]
    BY <1>2, <1>5, <2>1 DEF WriteRawConfig
  <2>6. pull' = [pull EXCEPT ![p] = r]
    BY <1>2, <2>2, <2>5 DEF IInv, TypeInv
  <2>7. s.img \in Images /\ s.srcs = <<>> /\ s.at = 1 /\ s.out = <<>>
    BY <1>2, <1>3 DEF Local, GatherInv, ImageLabels, GatherLabels
  <2>8. LayersOf[s.img] \in Seq(Layers)
    BY <2>7, BlobsArePaths
  <2>9. Faithful(r.srcs, LayersOf[r.img]) /\ Within(r.srcs, LayersOf[r.img])
    BY <2>4, <2>7, <2>8 DEF Faithful, Within
  <2>10. Local(r)'
    BY <2>4, <2>7, <2>9 DEF Local, GatherInv, CopyInv, AppendInv, DoneInv, AppendLabels
  <2>11. Saves(r) => Saves(s)
    BY <1>3, <2>4 DEF Saves, Over
  <2> QED BY <1>1, <1>2, <1>3, <2>4, <2>6, <2>10, <2>11, PlainStep
<1> QED BY <1>4, <1>5
(***************************************************************************)
(* The layers, as the cache has them.                                      *)
(***************************************************************************)

LEMMA CacheIsPath ==
    ASSUME NEW layer \in Layers, NEW form \in {"digest", "diffid"}
    PROVE  CachePath(layer, form) \in Paths /\ CachePath(layer, form).dir = "cache"
BY PullsAssumption DEF CachePaths, CachePath

LEMMA SeenIsContent ==
    ASSUME TypeInv, NEW path \in Paths
    PROVE  Seen(path) \subseteq Contents
<1>1. file[path] \in Contents
  BY DEF TypeInv
<1> QED BY <1>1 DEF Seen, Contents

\* A source more, for the next layer.
LEMMA SourceAdded ==
    ASSUME NEW img \in Images, NEW srcs \in Seq(Sourced), NEW at \in Nat \ {0},
           at <= Len(LayersOf[img]), Within(srcs, LayersOf[img]),
           NEW x \in Sourced, x.layer = LayersOf[img][at]
    PROVE  /\ srcs \o <<x>> \in Seq(Sourced) /\ Len(srcs \o <<x>>) = Len(srcs) + 1
           /\ Within(srcs \o <<x>>, LayersOf[img])
           /\ Faithful(srcs, LayersOf[img]) /\ Len(srcs) = at - 1 /\ x.own
              => Faithful(srcs \o <<x>>, LayersOf[img])
<1>1. LayersOf[img] \in Seq(Layers) /\ at \in 1 .. Len(LayersOf[img])
  BY BlobsArePaths
<1>2. x.layer \in ToSet(LayersOf[img])
  BY <1>1, LayerIsPath
<1>3. PICK more : more = srcs \o <<x>>
  OBVIOUS
<1>4. /\ more \in Seq(Sourced) /\ Len(more) = Len(srcs) + 1
      /\ \A i \in 1 .. Len(srcs) : more[i] = srcs[i]
      /\ more[Len(srcs) + 1] = x
  BY <1>3
<1>5. \A i \in 1 .. Len(more) : i \in 1 .. Len(srcs) \/ i = Len(srcs) + 1
  BY <1>4
<1>6. Within(more, LayersOf[img])
  BY <1>2, <1>4, <1>5 DEF Within
<1>7. ASSUME Faithful(srcs, LayersOf[img]), Len(srcs) = at - 1, x.own
      PROVE  Faithful(more, LayersOf[img])
  BY <1>1, <1>4, <1>5, <1>7 DEF Faithful
<1> QED BY <1>3, <1>4, <1>6, <1>7

LEMMA GetCompressedStep ==
    ASSUME IInv, NEW p \in Procs, GetCompressed(p)
    PROVE  IInv'
<1>1. tag' \in Docs /\ UNCHANGED <<index, saved, hollow, clean>>
  BY DEF GetCompressed, IInv, remoteVars, TypeInv
<1>2. PICK s \in PullStates : s = pull[p] /\ Local(s)
  BY DEF IInv, TypeInv, PullInv
<1>3. s.pc = "layers" /\ s.kind.cached /\ s.at <= Len(LayersOf[s.img])
  BY <1>2 DEF GetCompressed, LayersIn
<1>4. PICK layer : layer = LayersOf[s.img][s.at]
  OBVIOUS
<1>5. PICK content \in Seen(CachePath(layer, "digest")) :
         /\ AfterGet(layer, "digest", content)
         /\ IF Found(content, "digest")
              THEN pull' = [pull EXCEPT
                       ![p].srcs = @ \o Appended(layer, "digest", content),
                       ![p].at = @ + 1,
                       ![p].misled = @ \/ Misleads("digest", content)]
              ELSE Goes(p, "diffid")
  BY <1>2, <1>4 DEF GetCompressed, LayersIn
<1>6. s.img \in Images /\ Within(s.srcs, LayersOf[s.img]) /\ s.out = <<>>
  BY <1>2, <1>3 DEF Local, GatherInv, ImageLabels, GatherLabels
<1>7. s.at \in 1 .. Len(LayersOf[s.img]) /\ layer \in Layers
  BY <1>3, <1>4, <1>6, BlobsArePaths, LayerIsPath DEF PullStates
<1>8. content \in Contents
  BY <1>5, <1>7, CacheIsPath, SeenIsContent DEF IInv
<1>9. FileGood
  BY <1>5, <1>7, CacheIsPath, UnlinkGood, QuietGood DEF AfterGet, IInv
<1>10. Local(s)'
  BY <1>2, <1>9, LocalKept
<1>11. CASE Found(content, "digest")
  <2>1. PICK x : x = Hit(layer, "digest", content)
    OBVIOUS
  <2>2. x \in Sourced /\ x.layer = layer /\ (content = "whole" => x.own)
    BY <1>7, <1>8, <2>1 DEF Hit, FromCache, OwnDigest, Sourced
  <2>3. PICK misled : misled = (s.misled \/ Misleads("digest", content))
    OBVIOUS
  <2>4. misled \in BOOLEAN /\ (~misled => ~s.misled /\ content = "whole")
    BY <1>11, <2>3 DEF PullStates, Misleads
  <2>5. PICK srcs : srcs = s.srcs \o <<x>>
    OBVIOUS
  <2>6. /\ srcs \in Seq(Sourced) /\ Len(srcs) = Len(s.srcs) + 1
        /\ Within(srcs, LayersOf[s.img])
        /\ Faithful(s.srcs, LayersOf[s.img]) /\ Len(s.srcs) = s.at - 1 /\ x.own
           => Faithful(srcs, LayersOf[s.img])
    BY <1>3, <1>4, <1>6, <2>2, <2>5, SourceAdded DEF PullStates
  <2>7. PICK at \in Nat \ {0} : at = s.at + 1
    BY DEF PullStates
  <2>8. PICK r : r = [s EXCEPT !.srcs = srcs, !.at = at, !.misled = misled]
    OBVIOUS
  <2>9. /\ r \in PullStates /\ r.pc = "layers" /\ r.kind = s.kind /\ r.img = s.img
        /\ r.srcs = srcs /\ r.at = at /\ r.out = s.out /\ r.misled = misled
    BY <1>3, <2>4, <2>6, <2>8 DEF PullStates
  <2>10. pull' = [pull EXCEPT ![p].srcs = s.srcs \o <<x>>, ![p].at = at, ![p].misled = misled]
    BY <1>2, <1>5, <1>11, <2>1, <2>3, <2>7 DEF Appended, IInv, TypeInv
  <2>11. pull' = [pull EXCEPT ![p] = r]
    BY <1>2, <2>5, <2>8, <2>10 DEF IInv, TypeInv
  <2>12. ~r.misled => Faithful(r.srcs, LayersOf[r.img]) /\ Len(r.srcs) = r.at - 1
    <3>1. ~s.misled => Faithful(s.srcs, LayersOf[s.img]) /\ Len(s.srcs) = s.at - 1
      BY <1>2, <1>3 DEF Local, GatherInv
    <3> QED BY <2>2, <2>4, <2>6, <2>9, <2>7, <3>1 DEF PullStates
  <2>13. Local(r)'
    BY <1>6, <2>6, <2>9, <2>12 DEF Local, GatherInv, CopyInv, AppendInv, DoneInv, AppendLabels
  <2>14. Saves(r) => Saves(s)
    BY <1>3, <2>9 DEF Saves
  <2> QED BY <1>1, <1>2, <1>3, <1>9, <2>9, <2>11, <2>13, <2>14, PlainStep
<1>12. CASE Goes(p, "diffid")
  <2>1. PICK r : r = [s EXCEPT !.pc = "diffid"]
    OBVIOUS
  <2>2. /\ r \in PullStates /\ r.pc = "diffid" /\ r.kind = s.kind /\ r.img = s.img
        /\ r.srcs = s.srcs /\ r.at = s.at /\ r.out = s.out /\ r.misled = s.misled
    BY <2>1 DEF PullStates, PullLabels, ImageLabels, GatherLabels
  <2>3. pull' = [pull EXCEPT ![p] = r]
    BY <1>2, <1>12, <2>1 DEF Goes, IInv, TypeInv
  <2>4. Local(r)'
    BY <1>3, <1>10, <2>2 DEF Local, GatherInv, CopyInv, AppendInv, DoneInv, AppendLabels,
                             ImageLabels, GatherLabels
  <2>5. Saves(r) => Saves(s)
    BY <1>3, <2>2 DEF Saves, Over
  <2> QED BY <1>1, <1>2, <1>3, <1>9, <2>2, <2>3, <2>4, <2>5, PlainStep
<1> QED BY <1>5, <1>11, <1>12

LEMMA GetUncompressedStep ==
    ASSUME IInv, NEW p \in Procs, GetUncompressed(p)
    PROVE  IInv'
<1>1. FileGood /\ tag' \in Docs /\ UNCHANGED <<index, saved, hollow, clean>>
  BY QuietGood DEF GetUncompressed, IInv, remoteVars, TypeInv
<1>2. PICK s \in PullStates : s = pull[p] /\ Local(s)
  BY DEF IInv, TypeInv, PullInv
<1>3. s.pc = "diffid"
  BY <1>2 DEF GetUncompressed
<1>4. CASE Fails(p)
  BY <1>1, <1>2, <1>3, <1>4, FailStep
<1>5. CASE ~Fails(p)
  <2>1. PICK layer : layer = LayersOf[s.img][s.at]
    OBVIOUS
  <2>2. PICK content \in Seen(CachePath(layer, "diffid")) :
           pull' = [pull EXCEPT
               ![p].pc = "layers",
               ![p].srcs = @ \o Appended(layer, "diffid", content),
               ![p].at = @ + 1,
               ![p].misled = @ \/ Misleads("diffid", content)]
    BY <1>2, <1>5, <2>1 DEF GetUncompressed, LayersIn
  <2>3. /\ s.img \in Images /\ Within(s.srcs, LayersOf[s.img]) /\ s.out = <<>>
        /\ s.kind.cached /\ s.at <= Len(LayersOf[s.img])
    BY <1>2, <1>3 DEF Local, GatherInv, ImageLabels, GatherLabels
  <2>4. s.at \in 1 .. Len(LayersOf[s.img]) /\ layer \in Layers
    BY <2>1, <2>3, BlobsArePaths, LayerIsPath DEF PullStates
  <2>5. PICK x : x = Hit(layer, "diffid", content)
    OBVIOUS
  <2>6. PICK y : y = FromRemote(layer)
    OBVIOUS
  <2>7. x \in Sourced /\ x.layer = layer /\ y \in Sourced /\ y.layer = layer /\ y.own
    BY <2>4, <2>5, <2>6 DEF Hit, FromCache, FromRemote, OwnDigest, Sourced
  <2>8. PICK misled : misled = (s.misled \/ Misleads("diffid", content))
    OBVIOUS
  <2>9. misled \in BOOLEAN /\ (~misled => ~s.misled /\ ~Found(content, "diffid"))
    BY <2>8 DEF PullStates, Misleads
  <2>10. PICK one : one = IF Found(content, "diffid") THEN s.srcs \o <<x>> ELSE s.srcs
    OBVIOUS
  <2>11. /\ one \in Seq(Sourced) /\ Within(one, LayersOf[s.img])
         /\ ~Found(content, "diffid") => one = s.srcs
    BY <2>1, <2>3, <2>7, <2>10, SourceAdded DEF PullStates
  <2>12. PICK srcs : srcs = one \o <<y>>
    OBVIOUS
  <2>13. /\ srcs \in Seq(Sourced) /\ Len(srcs) = Len(one) + 1
         /\ Within(srcs, LayersOf[s.img])
         /\ Faithful(one, LayersOf[s.img]) /\ Len(one) = s.at - 1
            => Faithful(srcs, LayersOf[s.img])
    BY <2>1, <2>3, <2>7, <2>11, <2>12, SourceAdded DEF PullStates
  <2>14. s.srcs \o Appended(layer, "diffid", content) = srcs
    <3>1. CASE Found(content, "diffid")
      <4>1. Appended(layer, "diffid", content) = <<x>> \o <<y>>
        BY <2>5, <2>6, <3>1 DEF Appended
      <4>2. s.srcs \in Seq(Sourced) /\ <<x>> \in Seq(Sourced) /\ <<y>> \in Seq(Sourced)
        BY <2>7 DEF PullStates
      <4>3. PICK had, first, last : had = s.srcs /\ first = <<x>> /\ last = <<y>>
        OBVIOUS
      <4>4. had \in Seq(Sourced) /\ first \in Seq(Sourced) /\ last \in Seq(Sourced)
        BY <4>2, <4>3
      <4>5. (had \o first) \o last = had \o (first \o last)
        BY <4>4, ConcatAssociative
      <4> QED BY <2>10, <2>12, <3>1, <4>1, <4>3, <4>5
    <3>2. CASE ~Found(content, "diffid")
      <4>1. Appended(layer, "diffid", content) = <<>> \o <<y>>
        BY <2>6, <3>2 DEF Appended
      <4>2. <<>> \o <<y>> = <<y>>
        BY <2>7, ConcatEmptySeq
      <4> QED BY <2>10, <2>12, <3>2, <4>1, <4>2
    <3> QED BY <3>1, <3>2
  <2>15. PICK at \in Nat \ {0} : at = s.at + 1
    BY DEF PullStates
  <2>16. PICK r : r = [s EXCEPT !.pc = "layers", !.srcs = srcs, !.at = at, !.misled = misled]
    OBVIOUS
  <2>17. /\ r \in PullStates /\ r.pc = "layers" /\ r.kind = s.kind /\ r.img = s.img
         /\ r.srcs = srcs /\ r.at = at /\ r.out = s.out /\ r.misled = misled
    BY <2>9, <2>13, <2>16 DEF PullStates, PullLabels, ImageLabels, GatherLabels
  <2>18. pull' = [pull EXCEPT ![p].pc = "layers",
                              ![p].srcs = s.srcs \o Appended(layer, "diffid", content),
                              ![p].at = at, ![p].misled = misled]
    BY <1>2, <2>2, <2>8, <2>15 DEF IInv, TypeInv
  <2>19. pull' = [pull EXCEPT ![p] = r]
    BY <1>2, <2>14, <2>16, <2>18 DEF IInv, TypeInv
  <2>20. ~r.misled => Faithful(r.srcs, LayersOf[r.img]) /\ Len(r.srcs) = r.at - 1
    <3>1. ~s.misled => Faithful(s.srcs, LayersOf[s.img]) /\ Len(s.srcs) = s.at - 1
      BY <1>2, <1>3, <2>3 DEF Local, GatherInv
    <3> QED BY <2>9, <2>11, <2>13, <2>17, <2>15, <3>1 DEF PullStates
  <2>21. Local(r)'
    BY <2>3, <2>13, <2>17, <2>20 DEF Local, GatherInv, CopyInv, AppendInv, DoneInv, AppendLabels
  <2>22. Saves(r) => Saves(s)
    BY <1>3, <2>17 DEF Saves, Over
  <2> QED BY <1>1, <1>2, <1>3, <2>17, <2>19, <2>21, <2>22, PlainStep
<1> QED BY <1>4, <1>5

LEMMA GotLayersStep ==
    ASSUME IInv, NEW p \in Procs, GotLayers(p)
    PROVE  IInv'
<1>1. FileGood /\ tag' \in Docs /\ UNCHANGED <<index, saved, hollow, clean>>
  BY QuietGood DEF GotLayers, IInv, remoteVars, TypeInv
<1>2. PICK s \in PullStates : s = pull[p] /\ Local(s)
  BY DEF IInv, TypeInv, PullInv
<1>3. s.pc = "layers"
  BY <1>2 DEF GotLayers
<1>4. PICK all : all = LayersOf[s.img]
  OBVIOUS
<1>5. PICK srcs : srcs = IF s.kind.cached THEN s.srcs
                         ELSE [i \in 1 .. Len(all) |-> FromRemote(all[i])]
  OBVIOUS
<1>6. PICK jobs : jobs = [i \in 1 .. Len(srcs) |-> "todo"]
  OBVIOUS
<1>7. /\ s.kind.cached => s.at > Len(all)
      /\ \/ Fails(p)
         \/ pull' = [pull EXCEPT ![p].pass = 2, ![p].srcs = <<>>, ![p].at = 1]
         \/ pull' = [pull EXCEPT ![p].pc = "copy", ![p].srcs = srcs, ![p].jobs = jobs]
  BY <1>2, <1>4, <1>5, <1>6 DEF GotLayers, LayersIn
<1>8. /\ s.img \in Images /\ Within(s.srcs, all) /\ s.out = <<>>
      /\ ~s.misled => Faithful(s.srcs, all) /\ (s.kind.cached => Len(s.srcs) = s.at - 1)
  BY <1>2, <1>3, <1>4 DEF Local, GatherInv, ImageLabels, GatherLabels
<1>9. all \in Seq(Layers) /\ \A i \in 1 .. Len(all) : all[i] \in Layers /\ all[i] \in ToSet(all)
  BY <1>4, <1>8, BlobsArePaths, LayerIsPath
<1>10. CASE Fails(p)
  BY <1>1, <1>2, <1>3, <1>10, FailStep
<1>11. CASE pull' = [pull EXCEPT ![p].pass = 2, ![p].srcs = <<>>, ![p].at = 1]
  <2>1. <<>> \in Seq(Sourced) /\ 1 \in Nat \ {0}
    OBVIOUS
  <2>2. PICK r : r = [s EXCEPT !.pass = 2, !.srcs = <<>>, !.at = 1]
    OBVIOUS
  <2>3. /\ r \in PullStates /\ r.pc = "layers" /\ r.kind = s.kind /\ r.img = s.img
        /\ r.srcs = <<>> /\ r.at = 1 /\ r.out = s.out
    BY <1>3, <2>1, <2>2 DEF PullStates
  <2>4. pull' = [pull EXCEPT ![p] = r]
    BY <1>2, <1>11, <2>2 DEF IInv, TypeInv
  <2>5. Faithful(<<>>, all) /\ Within(<<>>, all)
    BY <1>9 DEF Faithful, Within
  <2>6. Local(r)'
    BY <1>4, <1>8, <2>3, <2>5 DEF Local, GatherInv, CopyInv, AppendInv, DoneInv, AppendLabels
  <2>7. Saves(r) => Saves(s)
    BY <1>3, <2>3 DEF Saves, Over
  <2> QED BY <1>1, <1>2, <1>3, <2>3, <2>4, <2>6, <2>7, PlainStep
<1>12. CASE pull' = [pull EXCEPT ![p].pc = "copy", ![p].srcs = srcs, ![p].jobs = jobs]
  <2>1. /\ srcs \in Seq(Sourced) /\ Within(srcs, all)
        /\ ~s.misled => Faithful(srcs, all) /\ Len(srcs) = Len(all)
    <3>1. CASE s.kind.cached
      <4>1. srcs = s.srcs
        BY <1>5, <3>1
      <4>2. ~s.misled => Len(srcs) = Len(all)
        BY <1>7, <1>8, <1>9, <3>1, <4>1 DEF Faithful, PullStates
      <4> QED BY <1>8, <4>1, <4>2 DEF PullStates
    <3>2. CASE ~s.kind.cached
      <4>1. srcs = [i \in 1 .. Len(all) |-> FromRemote(all[i])]
        BY <1>5, <3>2
      <4>2. \A i \in 1 .. Len(all) : /\ FromRemote(all[i]) \in Sourced /\ FromRemote(all[i]).own
                                     /\ FromRemote(all[i]).layer = all[i]
        BY <1>9 DEF FromRemote, Sourced
      <4>3. srcs \in Seq(Sourced) /\ Len(srcs) = Len(all)
        BY <1>9, <4>1, <4>2
      <4>4. \A i \in 1 .. Len(srcs) : srcs[i].own /\ srcs[i].layer = all[i]
        BY <4>1, <4>2, <4>3
      <4> QED BY <1>9, <4>3, <4>4 DEF Within, Faithful
    <3> QED BY <3>1, <3>2
  <2>2. /\ jobs \in Seq(Stages) /\ Len(jobs) = Len(srcs)
        /\ \A i \in 1 .. Len(jobs) : jobs[i] = "todo"
    BY <1>6, <2>1 DEF Stages
  <2>3. PICK r : r = [s EXCEPT !.pc = "copy", !.srcs = srcs, !.jobs = jobs]
    OBVIOUS
  <2>4. /\ r \in PullStates /\ r.pc = "copy" /\ r.kind = s.kind /\ r.img = s.img
        /\ r.srcs = srcs /\ r.jobs = jobs /\ r.out = <<>> /\ r.misled = s.misled
    BY <1>8, <2>1, <2>2, <2>3 DEF PullStates, PullLabels, ImageLabels
  <2>5. pull' = [pull EXCEPT ![p] = r]
    BY <1>2, <1>12, <2>3 DEF IInv, TypeInv
  <2>6. Begun(jobs, all)' /\ WrittenFrom(<<>>, all) /\ InTurn(jobs, <<>>)
    BY <1>9, <2>2 DEF Begun, WrittenFrom, InTurn
  <2>7. CopyInv(r)'
    BY <1>4, <2>1, <2>2, <2>4, <2>6 DEF CopyInv
  <2>8. Local(r)'
    BY <1>4, <1>8, <2>1, <2>4, <2>7 DEF Local, GatherInv, AppendInv, DoneInv, AppendLabels,
                                         GatherLabels
  <2>9. Saves(r) => Saves(s)
    BY <1>3, <2>4 DEF Saves, Over
  <2> QED BY <1>1, <1>2, <1>3, <2>4, <2>5, <2>8, <2>9, PlainStep
<1> QED BY <1>7, <1>10, <1>11, <1>12
(***************************************************************************)
(* Reading the layers.                                                     *)
(***************************************************************************)

Staged(s, i, stage, misled) ==
    [s EXCEPT !.jobs = [s.jobs EXCEPT ![i] = stage], !.misled = misled]
Entered(s, i, body, misled) ==
    [s EXCEPT !.jobs = [s.jobs EXCEPT ![i] = "done"],
              !.out = Append(s.out, [layer |-> s.srcs[i].layer, body |-> body]),
              !.misled = misled]

\* A layer that is neither written nor given up yet.
LEMMA StageState ==
    ASSUME NEW s \in PullStates, Local(s)', s.pc = "copy", NEW i \in 1 .. Len(s.jobs),
           s.jobs[i] # "done", NEW stage \in Stages \ {"copy", "done"},
           NEW misled \in BOOLEAN, s.misled => misled,
           NEW r, r = Staged(s, i, stage, misled)
    PROVE  r \in PullStates /\ r.pc = "copy" /\ Local(r)' /\ (Saves(r) => Saves(s))
<1>1. PICK jobs : jobs = [s.jobs EXCEPT ![i] = stage]
  OBVIOUS
<1>2. s.jobs \in Seq(Stages)
  BY DEF PullStates
<1>3. /\ jobs \in Seq(Stages) /\ Len(jobs) = Len(s.jobs) /\ jobs[i] = stage
      /\ \A j \in 1 .. Len(s.jobs) : j # i => jobs[j] = s.jobs[j]
  BY <1>1, <1>2
<1>4. /\ r \in PullStates /\ r.pc = "copy" /\ r.kind = s.kind /\ r.img = s.img
      /\ r.srcs = s.srcs /\ r.jobs = jobs /\ r.out = s.out /\ r.misled = misled
  BY <1>1, <1>3 DEF PullStates, Staged
<1>5. GatherInv(r)' /\ AppendInv(r)' /\ DoneInv(r)'
  BY <1>4 DEF Local, GatherInv, AppendInv, DoneInv, AppendLabels, GatherLabels
<1>6. ASSUME Begun(s.jobs, LayersOf[s.img])' PROVE Begun(jobs, LayersOf[s.img])'
  BY <1>3, <1>6 DEF Begun
<1>7. ASSUME InTurn(s.jobs, s.out) PROVE InTurn(jobs, s.out)
  BY <1>3, <1>7 DEF InTurn
<1>8. CopyInv(s)'
  BY DEF Local
<1>9. CopyInv(r)'
  BY <1>3, <1>4, <1>6, <1>7, <1>8 DEF CopyInv
<1>10. Saves(r) => Saves(s)
  BY <1>4 DEF Saves
<1> QED BY <1>4, <1>5, <1>9, <1>10 DEF Local

\* A layer whose blob is there.
LEMMA BlobState ==
    ASSUME NEW s \in PullStates, Local(s)', s.pc = "copy", NEW i \in 1 .. Len(s.jobs),
           NEW stage \in {"copy", "done"}, NEW misled \in BOOLEAN, s.misled => misled,
           s.kind.fmt = "oci",
           ~misled => Exists(BlobPath("layer", LayersOf[s.img][i]))',
           NEW r, r = Staged(s, i, stage, misled)
    PROVE  r \in PullStates /\ r.pc = "copy" /\ Local(r)' /\ (Saves(r) => Saves(s))
<1>1. PICK jobs : jobs = [s.jobs EXCEPT ![i] = stage]
  OBVIOUS
<1>2. s.jobs \in Seq(Stages)
  BY DEF PullStates
<1>3. /\ jobs \in Seq(Stages) /\ Len(jobs) = Len(s.jobs) /\ jobs[i] = stage
      /\ \A j \in 1 .. Len(s.jobs) : j # i => jobs[j] = s.jobs[j]
  BY <1>1, <1>2 DEF Stages
<1>4. /\ r \in PullStates /\ r.pc = "copy" /\ r.kind = s.kind /\ r.img = s.img
      /\ r.srcs = s.srcs /\ r.jobs = jobs /\ r.out = s.out /\ r.misled = misled
  BY <1>1, <1>3 DEF PullStates, Staged
<1>5. GatherInv(r)' /\ AppendInv(r)' /\ DoneInv(r)'
  BY <1>4 DEF Local, GatherInv, AppendInv, DoneInv, AppendLabels, GatherLabels
<1>6. ASSUME Begun(s.jobs, LayersOf[s.img])', ~misled PROVE Begun(jobs, LayersOf[s.img])'
  BY <1>3, <1>6 DEF Begun
<1>7. CopyInv(s)'
  BY DEF Local
<1>8. CopyInv(r)'
  BY <1>3, <1>4, <1>6, <1>7 DEF CopyInv
<1>9. Saves(r) => Saves(s)
  BY <1>4 DEF Saves
<1> QED BY <1>4, <1>5, <1>8, <1>9 DEF Local

\* A layer that has got its entry.
LEMMA EntryState ==
    ASSUME NEW s \in PullStates, Local(s)', s.pc = "copy", NEW i \in 1 .. Len(s.jobs),
           s.jobs[i] # "done", \A j \in 1 .. (i - 1) : s.jobs[j] = "done",
           NEW misled \in BOOLEAN, s.misled => misled, s.kind.fmt # "oci",
           NEW body \in Contents, ~misled => body = "whole",
           NEW r, r = Entered(s, i, body, misled)
    PROVE  r \in PullStates /\ r.pc = "copy" /\ Local(r)' /\ ~Saves(r)
<1>1. PICK jobs : jobs = [s.jobs EXCEPT ![i] = "done"]
  OBVIOUS
<1>2. PICK entry : entry = [layer |-> s.srcs[i].layer, body |-> body]
  OBVIOUS
<1>3. PICK out : out = Append(s.out, entry)
  OBVIOUS
<1>4. /\ s.jobs \in Seq(Stages) /\ s.srcs \in Seq(Sourced) /\ s.out \in Seq(Entries)
      /\ Len(s.jobs) = Len(s.srcs)
  BY DEF PullStates, Local, CopyInv
<1>5. /\ jobs \in Seq(Stages) /\ Len(jobs) = Len(s.jobs) /\ jobs[i] = "done"
      /\ \A j \in 1 .. Len(s.jobs) : j # i => jobs[j] = s.jobs[j]
  BY <1>1, <1>4 DEF Stages
<1>6. entry \in Entries
  <2>1. s.srcs[i] \in Sourced
    BY <1>4
  <2> QED BY <1>2, <2>1 DEF Entries, Sourced
<1>7. /\ out \in Seq(Entries) /\ Len(out) = Len(s.out) + 1 /\ out[Len(s.out) + 1] = entry
      /\ \A j \in 1 .. Len(s.out) : out[j] = s.out[j]
  BY <1>3, <1>4, <1>6
<1>8. /\ r \in PullStates /\ r.pc = "copy" /\ r.kind = s.kind /\ r.img = s.img
      /\ r.srcs = s.srcs /\ r.jobs = jobs /\ r.out = out /\ r.misled = misled
  BY <1>1, <1>2, <1>3, <1>5, <1>7 DEF PullStates, Entered
<1>9. GatherInv(r)' /\ AppendInv(r)' /\ DoneInv(r)'
  BY <1>8 DEF Local, GatherInv, AppendInv, DoneInv, AppendLabels, GatherLabels
<1>10. CopyInv(s)'
  BY DEF Local
<1>11. ASSUME ~misled
       PROVE  WrittenFrom(out, LayersOf[s.img]) /\ InTurn(jobs, out)
  <2>1. PICK all : all = LayersOf[s.img]
    OBVIOUS
  <2>2. /\ Faithful(s.srcs, all) /\ Len(s.srcs) = Len(all)
        /\ WrittenFrom(s.out, all) /\ InTurn(s.jobs, s.out)
    BY <1>10, <1>11, <2>1 DEF CopyInv
  <2>3. Len(s.out) = i - 1
    <3>1. ~(i <= Len(s.out))
      BY <2>2 DEF InTurn
    <3>2. i # 1 => i - 1 <= Len(s.out)
      BY <2>2 DEF InTurn
    <3> QED BY <1>4, <3>1, <3>2
  <2>4. entry = [layer |-> all[i], body |-> "whole"]
    BY <1>2, <1>4, <1>11, <2>2 DEF Faithful
  <2>5. \A j \in 1 .. Len(out) : j \in 1 .. Len(s.out) \/ j = i
    BY <1>4, <1>7, <2>3
  <2>6. WrittenFrom(out, all)
    <3>1. Len(out) = i /\ i <= Len(all)
      BY <1>4, <1>7, <2>2, <2>3
    <3>2. out[i] = [layer |-> all[i], body |-> "whole"]
      BY <1>4, <1>7, <2>3, <2>4
    <3>3. \A j \in 1 .. Len(s.out) : out[j] = [layer |-> all[j], body |-> "whole"]
      BY <1>7, <2>2 DEF WrittenFrom
    <3>4. \A j \in 1 .. Len(out) : out[j] = [layer |-> all[j], body |-> "whole"]
      BY <2>5, <3>2, <3>3
    <3> QED BY <3>1, <3>4 DEF WrittenFrom
  <2>7. InTurn(jobs, out)
    BY <1>4, <1>5, <1>7, <2>2, <2>3 DEF InTurn
  <2> QED BY <2>1, <2>6, <2>7
<1>12. CopyInv(r)'
  BY <1>4, <1>5, <1>8, <1>10, <1>11 DEF CopyInv
<1>13. ~Saves(r)
  BY <1>8 DEF Saves
<1> QED BY <1>8, <1>9, <1>12, <1>13 DEF Local

\* Where a process is that reads a layer.
LEMMA TurnState ==
    ASSUME IInv, NEW p \in Procs, NEW i, Turn(p, i), NEW s, s = pull[p]
    PROVE  /\ s \in PullStates /\ Local(s) /\ s.pc = "copy" /\ i \in 1 .. Len(s.jobs)
           /\ s.jobs \in Seq(Stages) /\ s.img \in Images
           /\ s.srcs[i] \in Sourced /\ s.srcs[i].layer \in ToSet(LayersOf[s.img])
           /\ ~s.misled => /\ s.srcs[i].own /\ s.srcs[i].layer = LayersOf[s.img][i]
                           /\ i \in 1 .. Len(LayersOf[s.img])
           /\ s.kind.fmt # "oci" => \A j \in 1 .. (i - 1) : s.jobs[j] = "done"
           /\ Job(p, i) \in Procs \X Nat
<1>1. s \in PullStates /\ Local(s) /\ s.pc = "copy" /\ i \in 1 .. Len(s.jobs)
  BY DEF IInv, TypeInv, PullInv, Turn
<1>2. /\ s.jobs \in Seq(Stages) /\ s.srcs \in Seq(Sourced) /\ Len(s.srcs) = Len(s.jobs)
      /\ s.img \in Images /\ Within(s.srcs, LayersOf[s.img])
      /\ ~s.misled => Faithful(s.srcs, LayersOf[s.img]) /\ Len(s.srcs) = Len(LayersOf[s.img])
  BY <1>1 DEF PullStates, Local, CopyInv, GatherInv, ImageLabels
<1>3. s.srcs[i] \in Sourced /\ s.srcs[i].layer \in ToSet(LayersOf[s.img])
  BY <1>1, <1>2 DEF Within
<1>4. ~s.misled => /\ s.srcs[i].own /\ s.srcs[i].layer = LayersOf[s.img][i]
                   /\ i \in 1 .. Len(LayersOf[s.img])
  BY <1>1, <1>2 DEF Faithful
<1>5. s.kind.fmt # "oci" => \A j \in 1 .. (i - 1) : s.jobs[j] = "done"
  BY DEF Turn, Format
<1>6. Job(p, i) \in Procs \X Nat
  BY <1>1, <1>2 DEF Job
<1> QED BY <1>1, <1>2, <1>3, <1>4, <1>5, <1>6
\* A step of a layer that goes to a stage of its own.
LEMMA JobGoesStep ==
    ASSUME IInv, FileGood, NEW p \in Procs, NEW i, Turn(p, i), pull[p].jobs[i] # "done",
           NEW stage \in Stages \ {"copy", "done"}, JobGoes(p, i, stage),
           tag' \in Docs, UNCHANGED <<index, saved, hollow, clean>>
    PROVE  IInv'
<1>1. PICK s : s = pull[p]
  OBVIOUS
<1>2. /\ s \in PullStates /\ Local(s) /\ s.pc = "copy" /\ i \in 1 .. Len(s.jobs)
      /\ s.jobs \in Seq(Stages)
  BY <1>1, TurnState
<1>3. Local(s)'
  BY <1>2, LocalKept
<1>4. PICK r : r = Staged(s, i, stage, s.misled)
  OBVIOUS
<1>5. s.misled \in BOOLEAN /\ s.jobs[i] # "done"
  BY <1>1, <1>2 DEF PullStates
<1>6. r \in PullStates /\ r.pc = "copy" /\ Local(r)' /\ (Saves(r) => Saves(s))
  BY <1>2, <1>3, <1>4, <1>5, StageState
<1>7. pull' = [pull EXCEPT ![p] = r]
  BY <1>1, <1>2, <1>4 DEF JobGoes, Staged, PullStates, IInv, TypeInv
<1> QED BY <1>1, <1>2, <1>6, <1>7, PlainStep

LEMMA SkipLayerStep ==
    ASSUME IInv, NEW p \in Procs, NEW i, SkipLayer(p, i)
    PROVE  IInv'
<1>1. FileGood /\ tag' \in Docs /\ UNCHANGED <<index, saved, hollow, clean>>
  BY QuietGood DEF SkipLayer, IInv, remoteVars, TypeInv
<1>2. PICK s : s = pull[p]
  OBVIOUS
<1>3. Turn(p, i) /\ s.jobs[i] = "todo" /\ s.kind.fmt = "tarball"
  BY <1>2 DEF SkipLayer, SameEntry, Format
<1>4. /\ s \in PullStates /\ Local(s) /\ s.pc = "copy" /\ i \in 1 .. Len(s.jobs)
      /\ s.jobs \in Seq(Stages) /\ \A j \in 1 .. (i - 1) : s.jobs[j] = "done"
  BY <1>2, <1>3, TurnState
<1>5. Local(s)'
  BY <1>1, <1>4, LocalKept
<1>6. PICK r : r = Entered(s, i, "whole", s.misled)
  OBVIOUS
<1>7. s.misled \in BOOLEAN /\ "whole" \in Contents /\ s.kind.fmt # "oci" /\ s.jobs[i] # "done"
  BY <1>3, <1>4 DEF PullStates, Contents
<1>8. r \in PullStates /\ r.pc = "copy" /\ Local(r)' /\ ~Saves(r)
  BY <1>4, <1>5, <1>6, <1>7, EntryState
<1>9. pull' = [pull EXCEPT ![p] = r]
  BY <1>2, <1>4, <1>6 DEF SkipLayer, Entered, Source, PullStates, IInv, TypeInv
<1> QED BY <1>1, <1>2, <1>4, <1>8, <1>9, PlainStep

LEMMA OpenLayerStep ==
    ASSUME IInv, NEW p \in Procs, NEW i, OpenLayer(p, i)
    PROVE  IInv'
<1>1. UNCHANGED <<index, saved, hollow, clean>> /\ Turn(p, i) /\ pull[p].jobs[i] # "done"
  BY DEF OpenLayer
<1>2. PICK next \in {"open", "reopened"} :
         next = IF pull[p].jobs[i] = "todo" THEN "open" ELSE "reopened"
  OBVIOUS
<1>3. PICK layer : layer = Source(p, i).layer
  OBVIOUS
<1>4. /\ \E stage \in {next, "failed"} : JobGoes(p, i, stage)
      /\ \/ UNCHANGED fileVars
         \/ Create(CachePath(layer, Form(p)), Job(p, i))
      /\ \E n \in {0, Sources(layer)} : Answered \/ Failing(n)
  BY <1>2, <1>3 DEF OpenLayer
<1>5. tag' \in Docs
  BY <1>4, Asking
<1>6. layer \in Layers /\ Job(p, i) \in Procs \X Nat
  BY <1>1, <1>3, TurnState DEF Source, Sourced
<1>7. CachePath(layer, Form(p)) \in Paths
  BY <1>6, CacheIsPath DEF Form
<1>8. FileGood
  BY <1>4, <1>6, <1>7, CreateGood, QuietGood DEF IInv
<1>9. PICK stage \in Stages \ {"copy", "done"} : JobGoes(p, i, stage)
  BY <1>2, <1>4 DEF Stages
<1> QED BY <1>1, <1>5, <1>8, <1>9, JobGoesStep

\* A step of a layer of the layout whose blob is there from now on.
LEMMA BlobGoesStep ==
    ASSUME IInv, FileGood, NEW p \in Procs, NEW i, Turn(p, i), Format(p) = "oci",
           NEW stage \in {"copy", "done"}, JobGoes(p, i, stage),
           NEW blob, blob = BlobPath("layer", Source(p, i).layer),
           ~pull[p].misled => Exists(blob)',
           tag' \in Docs, UNCHANGED <<index, saved, hollow, clean>>
    PROVE  IInv'
<1>1. PICK s : s = pull[p]
  OBVIOUS
<1>2. /\ s \in PullStates /\ Local(s) /\ s.pc = "copy" /\ i \in 1 .. Len(s.jobs)
      /\ s.jobs \in Seq(Stages)
      /\ ~s.misled => s.srcs[i].layer = LayersOf[s.img][i]
  BY <1>1, TurnState
<1>3. Local(s)' /\ s.kind.fmt = "oci" /\ s.misled \in BOOLEAN
  BY <1>1, <1>2, LocalKept DEF Format, PullStates
<1>4. PICK r : r = Staged(s, i, stage, s.misled)
  OBVIOUS
<1>5. ~s.misled => Exists(BlobPath("layer", LayersOf[s.img][i]))'
  <2>1. PICK path : path = BlobPath("layer", LayersOf[s.img][i])
    OBVIOUS
  <2>2. ~s.misled => path = blob
    BY <1>1, <1>2, <2>1 DEF Source
  <2>3. ~s.misled => Exists(path)'
    BY <1>1, <2>2
  <2> QED BY <2>1, <2>3
<1>6. r \in PullStates /\ r.pc = "copy" /\ Local(r)' /\ (Saves(r) => Saves(s))
  BY <1>2, <1>3, <1>4, <1>5, BlobState
<1>7. pull' = [pull EXCEPT ![p] = r]
  BY <1>1, <1>2, <1>4 DEF JobGoes, Staged, PullStates, IInv, TypeInv
<1> QED BY <1>1, <1>2, <1>6, <1>7, PlainStep

\* Where the blob of a layer is.
LEMMA BlobOfTurn ==
    ASSUME IInv, NEW p \in Procs, NEW i, Turn(p, i),
           NEW blob, blob = BlobPath("layer", Source(p, i).layer)
    PROVE  /\ blob \in Paths /\ blob.dir = "layout" /\ Job(p, i) \in Procs \X Nat
           /\ ~pull[p].misled => Source(p, i).own
<1>1. PICK s : s = pull[p]
  OBVIOUS
<1>2. /\ s.img \in Images /\ s.srcs[i].layer \in ToSet(LayersOf[s.img])
      /\ ~s.misled => s.srcs[i].own
      /\ Job(p, i) \in Procs \X Nat
  BY <1>1, TurnState
<1> QED BY <1>1, <1>2, BlobsArePaths DEF Source

LEMMA WriteBlobStep ==
    ASSUME IInv, NEW p \in Procs, NEW i, WriteBlob(p, i)
    PROVE  IInv'
<1>1. /\ tag' \in Docs /\ UNCHANGED <<index, saved, hollow, clean>>
      /\ Turn(p, i) /\ pull[p].jobs[i] = "open" /\ Format(p) = "oci"
  BY DEF WriteBlob, IInv, remoteVars, TypeInv
<1>2. PICK blob : blob = BlobPath("layer", Source(p, i).layer)
  OBVIOUS
<1>3. blob \in Paths /\ blob.dir = "layout" /\ (~pull[p].misled => Source(p, i).own)
  BY <1>1, <1>2, BlobOfTurn
<1>4. CASE ~Source(p, i).own \/ Exists(blob)
  <2>1. Close({Job(p, i)}, {"empty"}) /\ JobGoes(p, i, "done")
    BY <1>2, <1>4 DEF WriteBlob, BlobThere
  <2>2. {"empty"} \subseteq Contents \ {"none"}
    BY DEF Contents
  <2>3. FileGood
    BY <2>1, <2>2, CloseGood DEF IInv
  <2>4. ~pull[p].misled => Exists(blob)'
    BY <1>3, <1>4, <2>3 DEF FileGood
  <2> QED BY <1>1, <1>2, <2>1, <2>3, <2>4, BlobGoesStep
<1>5. CASE ~(~Source(p, i).own \/ Exists(blob))
  <2>1. JobGoes(p, i, "create") /\ UNCHANGED fileVars
    BY <1>2, <1>5 DEF WriteBlob, BlobThere
  <2>2. FileGood
    BY <2>1, QuietGood DEF IInv
  <2>3. "create" \in Stages \ {"copy", "done"} /\ pull[p].jobs[i] # "done"
    BY <1>1 DEF Stages
  <2> QED BY <1>1, <2>1, <2>2, <2>3, JobGoesStep
<1> QED BY <1>4, <1>5

LEMMA CreateBlobStep ==
    ASSUME IInv, NEW p \in Procs, NEW i, CreateBlob(p, i)
    PROVE  IInv'
<1>1. /\ tag' \in Docs /\ UNCHANGED <<index, saved, hollow, clean>>
      /\ Turn(p, i) /\ Format(p) = "oci" /\ JobGoes(p, i, "copy")
  BY DEF CreateBlob, IInv, remoteVars, TypeInv
<1>2. PICK blob : blob = BlobPath("layer", Source(p, i).layer)
  OBVIOUS
<1>3. blob \in Paths /\ Job(p, i) \in Procs \X Nat
  BY <1>1, <1>2, BlobOfTurn
<1>4. FileGood /\ Exists(blob)'
  BY <1>2, <1>3, CreateGood DEF CreateBlob, IInv
<1> QED BY <1>1, <1>2, <1>4, BlobGoesStep

\* A layer that was read to its end.
LEMMA CopiedStep ==
    ASSUME IInv, FileGood, NEW p \in Procs, NEW i, Turn(p, i), NEW body \in Contents,
           tag' \in Docs, UNCHANGED <<index, saved, hollow, clean>>,
           NEW ends \in {"sized", "done"}, ends = "sized" => Format(p) = "legacy",
           pull[p].jobs[i] \in (IF Format(p) = "oci" THEN {"copy"} ELSE {"open", "reopened"}),
           pull' = [pull EXCEPT
                       ![p].jobs[i] = ends,
                       ![p].out = IF Format(p) = "oci" \/ ends = "sized" THEN @
                                  ELSE Append(@, [layer |-> Source(p, i).layer, body |-> body]),
                       ![p].misled = @ \/ body # "whole"]
    PROVE  IInv'
<1>1. PICK s : s = pull[p]
  OBVIOUS
<1>2. /\ s \in PullStates /\ Local(s) /\ s.pc = "copy" /\ i \in 1 .. Len(s.jobs)
      /\ s.jobs \in Seq(Stages) /\ s.img \in Images
      /\ s.kind.fmt # "oci" => \A j \in 1 .. (i - 1) : s.jobs[j] = "done"
  BY <1>1, TurnState
<1>3. Local(s)'
  BY <1>2, LocalKept
<1>4. PICK misled \in BOOLEAN : misled = (s.misled \/ body # "whole")
  OBVIOUS
<1>5. PICK out : out = IF s.kind.fmt = "oci" \/ ends = "sized" THEN s.out
                       ELSE Append(s.out, [layer |-> s.srcs[i].layer, body |-> body])
  OBVIOUS
<1>6. PICK r : r = [s EXCEPT !.jobs = [s.jobs EXCEPT ![i] = ends], !.out = out, !.misled = misled]
  OBVIOUS
<1>7. pull' = [pull EXCEPT ![p].jobs[i] = ends, ![p].out = out, ![p].misled = misled]
  BY <1>1, <1>4, <1>5 DEF Format, Source, IInv, TypeInv
<1>8. pull' = [pull EXCEPT ![p] = r]
  BY <1>1, <1>6, <1>7 DEF IInv, TypeInv
<1>9. s.jobs[i] # "done" /\ (s.kind.fmt = "oci" => s.jobs[i] = "copy") /\ (s.misled => misled)
  BY <1>1, <1>4 DEF Format
<1>10. r \in PullStates /\ r.pc = "copy" /\ Local(r)' /\ (Saves(r) => Saves(s))
  <2>1. CASE ends = "sized"
    <3>1. r = Staged(s, i, "sized", misled)
      BY <1>2, <1>5, <1>6, <2>1 DEF PullStates, Staged
    <3>2. "sized" \in Stages \ {"copy", "done"}
      BY DEF Stages
    <3> QED BY <1>2, <1>3, <1>9, <3>1, <3>2, StageState
  <2>2. CASE ends = "done" /\ s.kind.fmt = "oci"
    <3>1. r = Staged(s, i, "done", misled)
      BY <1>2, <1>5, <1>6, <2>2 DEF PullStates, Staged
    <3>2. ~misled => Exists(BlobPath("layer", LayersOf[s.img][i]))'
      <4>1. CopyInv(s)'
        BY <1>3 DEF Local
      <4>2. ~misled => Begun(s.jobs, LayersOf[s.img])'
        BY <1>2, <1>9, <2>2, <4>1 DEF CopyInv
      <4> QED BY <1>2, <1>9, <2>2, <4>2 DEF Begun
    <3> QED BY <1>2, <1>3, <1>9, <2>2, <3>1, <3>2, BlobState
  <2>3. CASE ends = "done" /\ s.kind.fmt # "oci"
    <3>1. r = Entered(s, i, body, misled)
      BY <1>5, <1>6, <2>3 DEF Entered
    <3>2. ~misled => body = "whole"
      BY <1>4
    <3> QED BY <1>2, <1>3, <1>9, <2>3, <3>1, <3>2, EntryState
  <2> QED BY <2>1, <2>2, <2>3
<1> QED BY <1>1, <1>2, <1>8, <1>10, PlainStep

LEMMA CopyLayerStep ==
    ASSUME IInv, NEW p \in Procs, NEW i, CopyLayer(p, i)
    PROVE  IInv'
<1>1. /\ UNCHANGED <<index, saved, hollow, clean>> /\ Turn(p, i)
      /\ pull[p].jobs[i] \in (IF Format(p) = "oci" THEN {"copy"} ELSE {"open", "reopened"})
  BY DEF CopyLayer
<1>2. PICK ends \in {"sized", "done"} :
         ends = IF Format(p) = "legacy" /\ pull[p].jobs[i] = "open" THEN "sized" ELSE "done"
  OBVIOUS
<1>3. \E body \in Contents \ {"none"} :
         /\ Close({Job(p, i)}, {body})
         /\ \/ JobGoes(p, i, "failed")
            \/ pull' = [pull EXCEPT
                           ![p].jobs[i] = ends,
                           ![p].out = IF Format(p) = "oci" \/ ends = "sized" THEN @
                                      ELSE Append(@, [layer |-> Source(p, i).layer, body |-> body]),
                           ![p].misled = @ \/ body # "whole"]
  <2>1. CASE Source(p, i).from = "cache"
    <3>1. Source(p, i) \in Sourced
      BY <1>1, TurnState DEF Source
    <3>2. CachedAt(p, i) \in Paths
      BY <3>1, CacheIsPath DEF CachedAt, Sourced
    <3>3. \A body \in {IF c = "none" THEN "part" ELSE c : c \in Seen(CachedAt(p, i))} :
             body \in Contents \ {"none"}
      BY <3>2, SeenIsContent DEF Contents, IInv
    <3>4. \E body \in {IF c = "none" THEN "part" ELSE c : c \in Seen(CachedAt(p, i))} :
             /\ Close({Job(p, i)}, {body})
             /\ \/ JobGoes(p, i, "failed")
                \/ pull' = [pull EXCEPT
                               ![p].jobs[i] = ends,
                               ![p].out =
                                   IF Format(p) = "oci" \/ ends = "sized" THEN @
                                   ELSE Append(@, [layer |-> Source(p, i).layer, body |-> body]),
                               ![p].misled = @ \/ body # "whole"]
      BY <1>2, <2>1 DEF CopyLayer
    <3> QED BY <3>3, <3>4
  <2>2. CASE Source(p, i).from # "cache"
    <3>1. {"whole", "empty", "part"} \subseteq Contents \ {"none"}
      BY DEF Contents
    <3> QED BY <1>2, <2>2, <3>1 DEF CopyLayer, BadBodies
  <2> QED BY <2>1, <2>2
<1>4. tag' \in Docs
  <2>1. Answered \/ Failing(1)
    BY DEF CopyLayer
  <2> QED BY <2>1, Asking
<1>5. PICK body \in Contents \ {"none"} :
         /\ Close({Job(p, i)}, {body})
         /\ \/ JobGoes(p, i, "failed")
            \/ pull' = [pull EXCEPT
                           ![p].jobs[i] = ends,
                           ![p].out = IF Format(p) = "oci" \/ ends = "sized" THEN @
                                      ELSE Append(@, [layer |-> Source(p, i).layer, body |-> body]),
                           ![p].misled = @ \/ body # "whole"]
  BY <1>3
<1>6. FileGood
  BY <1>5, CloseGood DEF IInv
<1>7. CASE JobGoes(p, i, "failed")
  <2>1. "failed" \in Stages \ {"copy", "done"} /\ pull[p].jobs[i] # "done"
    BY <1>1 DEF Stages
  <2> QED BY <1>1, <1>4, <1>6, <1>7, <2>1, JobGoesStep
<1>8. CASE ~JobGoes(p, i, "failed")
  <2>1. ends = "sized" => Format(p) = "legacy"
    BY <1>2
  <2>2. pull' = [pull EXCEPT
                    ![p].jobs[i] = ends,
                    ![p].out = IF Format(p) = "oci" \/ ends = "sized" THEN @
                               ELSE Append(@, [layer |-> Source(p, i).layer, body |-> body]),
                    ![p].misled = @ \/ body # "whole"]
    BY <1>5, <1>8
  <2>3. body \in Contents
    OBVIOUS
  <2> QED BY <1>1, <1>4, <1>6, <2>1, <2>2, <2>3, CopiedStep
<1> QED BY <1>7, <1>8
LEMMA LayerStepStep ==
    ASSUME IInv, NEW p \in Procs, LayerStep(p)
    PROVE  IInv'
<1>1. PICK i : \/ SkipLayer(p, i) \/ OpenLayer(p, i) \/ WriteBlob(p, i) \/ CreateBlob(p, i)
               \/ CopyLayer(p, i)
  BY DEF LayerStep
<1> QED BY <1>1, SkipLayerStep, OpenLayerStep, WriteBlobStep, CreateBlobStep, CopyLayerStep

\* A pull of a tarball that succeeds has an entry for each layer.
LEMMA SucceededState ==
    ASSUME NEW s \in PullStates, NEW r, r = Succeeded(s), s.img \in Images,
           ~s.misled /\ s.kind.fmt # "oci"
           => WrittenFrom(s.out, LayersOf[s.img]) /\ Len(s.out) = Len(LayersOf[s.img])
    PROVE  r \in PullStates /\ r.pc = "done" /\ Local(r)' /\ ~Saves(r) /\ r.read = <<>>
<1>1. /\ r \in PullStates /\ r.pc = "done" /\ r.kind = s.kind /\ r.img = s.img
      /\ r.out = s.out /\ r.misled = s.misled /\ r.read = <<>>
  BY IdleState DEF Succeeded, PullStates, PullLabels, ImageLabels
<1>2. GatherInv(r)' /\ CopyInv(r)' /\ AppendInv(r)' /\ DoneInv(r)'
  BY <1>1 DEF GatherInv, CopyInv, AppendInv, DoneInv, AppendLabels, GatherLabels
<1> QED BY <1>1, <1>2 DEF Local, Saves, Over

LEMMA WaitStep ==
    ASSUME IInv, NEW p \in Procs, Wait(p)
    PROVE  IInv'
<1>1. /\ tag' \in Docs /\ UNCHANGED <<index, saved, hollow, clean>>
      /\ pull[p].pc = "copy" /\ JobsOver(p)
  BY DEF Wait, IInv, remoteVars, TypeInv
<1>2. PICK s \in PullStates : s = pull[p] /\ Local(s)
  BY DEF IInv, TypeInv, PullInv
<1>3. /\ s.img \in Images /\ Len(s.jobs) = Len(s.srcs)
      /\ ~s.misled =>
            /\ Len(s.jobs) = Len(LayersOf[s.img])
            /\ s.kind.fmt = "oci" => Begun(s.jobs, LayersOf[s.img])
            /\ s.kind.fmt # "oci" => WrittenFrom(s.out, LayersOf[s.img]) /\ InTurn(s.jobs, s.out)
  BY <1>1, <1>2 DEF Local, GatherInv, CopyInv, ImageLabels
<1>4. s.jobs \in Seq(Stages) /\ s.out \in Seq(Entries) /\ LayersOf[s.img] \in Seq(Layers)
  BY <1>3, BlobsArePaths DEF PullStates
<1>5. CASE "failed" \in ToSet(s.jobs)
  <2>1. Fails(p) /\ \E who : Close(who, {"empty"})
    BY <1>2, <1>5 DEF Wait
  <2>2. {"empty"} \subseteq Contents \ {"none"}
    BY DEF Contents
  <2>3. PICK who : Close(who, {"empty"})
    BY <2>1
  <2>4. FileGood
    BY <2>2, <2>3, CloseGood DEF IInv
  <2> QED BY <1>1, <2>1, <2>4, FailStep
<1>6. CASE "failed" \notin ToSet(s.jobs)
  <2>1. FileGood
    BY <1>2, <1>6, QuietGood DEF Wait, IInv
  <2>2. ToSet(s.jobs) \subseteq {"done", "failed"}
    BY <1>1, <1>2, <1>6 DEF JobsOver
  <2>3. \A i \in 1 .. Len(s.jobs) : s.jobs[i] = "done"
    <3>1. \A i \in 1 .. Len(s.jobs) : s.jobs[i] \in ToSet(s.jobs)
      BY <1>4 DEF ToSet
    <3> QED BY <1>6, <2>2, <3>1
  <2>4. CASE s.kind.fmt = "oci"
    <3>1. Goes(p, "config")
      BY <1>2, <1>6, <2>4 DEF Wait, Format
    <3>2. PICK r : r = [s EXCEPT !.pc = "config"]
      OBVIOUS
    <3>3. /\ r \in PullStates /\ r.pc = "config" /\ r.kind = s.kind /\ r.img = s.img
          /\ r.misled = s.misled
      BY <3>2 DEF PullStates, PullLabels, ImageLabels, AppendLabels
    <3>4. pull' = [pull EXCEPT ![p] = r]
      BY <1>2, <3>1, <3>2 DEF Goes, IInv, TypeInv
    <3>5. ~s.misled => LayersThere(s.img)
      <4>1. ASSUME ~s.misled, NEW layer \in ToSet(LayersOf[s.img])
            PROVE  Exists(BlobPath("layer", layer))
        <5>1. PICK i \in 1 .. Len(LayersOf[s.img]) : layer = LayersOf[s.img][i]
          BY <1>4, <4>1 DEF ToSet
        <5> QED BY <1>3, <1>4, <2>3, <2>4, <4>1, <5>1 DEF Begun
      <4> QED BY <4>1 DEF LayersThere
    <3>6. ~s.misled => LayersThere(s.img)'
      BY <1>3, <2>1, <3>5, ImageKept
    <3>7. AppendInv(r)'
      BY <2>4, <3>3, <3>6 DEF AppendInv, AppendLabels
    <3>8. Local(r)'
      BY <1>3, <3>3, <3>7 DEF Local, GatherInv, CopyInv, DoneInv, GatherLabels
    <3>9. Saves(r) => Saves(s)
      BY <1>1, <1>2, <3>3 DEF Saves, Over
    <3> QED BY <1>1, <1>2, <2>1, <3>3, <3>4, <3>8, <3>9, PlainStep
  <2>5. CASE s.kind.fmt # "oci"
    <3>1. PICK r : r = Succeeded(s)
      OBVIOUS
    <3>2. pull' = [pull EXCEPT ![p] = r]
      BY <1>2, <1>6, <2>5, <3>1 DEF Wait, Format, Succeeds
    <3>3. ~s.misled => WrittenFrom(s.out, LayersOf[s.img]) /\ Len(s.out) = Len(LayersOf[s.img])
      <4>1. ASSUME ~s.misled
            PROVE  Len(s.out) = Len(LayersOf[s.img])
        <5>1. Len(s.out) <= Len(LayersOf[s.img])
          BY <1>3, <2>5, <4>1 DEF WrittenFrom
        <5>2. Len(s.jobs) = 0 \/ Len(s.jobs) \in 1 .. Len(s.jobs)
          BY <1>4
        <5>3. Len(s.jobs) <= Len(s.out)
          BY <1>3, <1>4, <2>3, <2>5, <4>1, <5>2 DEF InTurn
        <5> QED BY <1>3, <1>4, <4>1, <5>1, <5>3
      <4> QED BY <1>3, <2>5, <4>1
    <3>4. r \in PullStates /\ r.pc = "done" /\ Local(r)' /\ ~Saves(r)
      BY <1>3, <2>5, <3>1, <3>3, SucceededState
    <3> QED BY <1>1, <1>2, <2>1, <3>2, <3>4, PlainStep
  <2> QED BY <2>4, <2>5
<1> QED BY <1>5, <1>6

(***************************************************************************)
(* The config, the manifest and the index.                                 *)
(***************************************************************************)

Onward(s, to, misled) == [s EXCEPT !.pc = to, !.misled = misled]

\* A pull that writes into the layout, and goes on with the rest of its image.
LEMMA AppendState ==
    ASSUME FileGood, NEW s \in PullStates, Local(s), s.pc \in AppendLabels,
           NEW to \in AppendLabels, NEW misled \in BOOLEAN, s.misled => misled,
           to \notin {"config", "configCreate"} /\ ~misled => Exists(BlobPath("config", s.img))',
           to \in {"manifestWrite", "append", "index", "indexWrite"}
           => Exists(BlobPath("manifest", s.img))',
           NEW r, r = Onward(s, to, misled)
    PROVE  /\ r \in PullStates /\ r.pc = to /\ r.kind = s.kind /\ r.img = s.img
           /\ Local(r)' /\ Saves(r) /\ Saves(s)
<1>1. /\ r \in PullStates /\ r.pc = to /\ r.kind = s.kind /\ r.img = s.img
      /\ r.misled = misled
  BY DEF Onward, PullStates, PullLabels, ImageLabels
<1>2. s.img \in Images /\ s.kind.fmt = "oci" /\ (~s.misled => LayersThere(s.img))
  BY DEF Local, GatherInv, AppendInv, ImageLabels
<1>3. ~misled => LayersThere(s.img)'
  BY <1>2, ImageKept
<1>4. AppendInv(r)'
  BY <1>1, <1>2, <1>3 DEF AppendInv, AppendLabels
<1>5. Local(r)'
  BY <1>1, <1>2, <1>4 DEF Local, GatherInv, CopyInv, DoneInv, GatherLabels, AppendLabels
<1> QED BY <1>1, <1>2, <1>5 DEF Saves, Over, AppendLabels

\* Such a pull goes on, and the files keep their order.
LEMMA AppendStep ==
    ASSUME IInv, FileGood, NEW p \in Procs, pull[p].pc \in AppendLabels \ {"indexWrite"},
           NEW to \in AppendLabels \ {"index", "indexWrite"},
           NEW misled \in BOOLEAN, pull[p].misled => misled,
           pull' = [pull EXCEPT ![p].pc = to, ![p].misled = misled],
           NEW config, config = BlobPath("config", pull[p].img),
           NEW manifest, manifest = BlobPath("manifest", pull[p].img),
           to \notin {"config", "configCreate"} /\ ~misled => Exists(config)',
           to \in {"manifestWrite", "append"} => Exists(manifest)',
           tag' \in Docs, UNCHANGED <<index, saved, hollow, clean>>
    PROVE  IInv'
<1>1. PICK s \in PullStates : s = pull[p] /\ Local(s)
  BY DEF IInv, TypeInv, PullInv
<1>2. PICK r : r = Onward(s, to, misled)
  OBVIOUS
<1>3. to \notin {"config", "configCreate"} /\ ~misled => Exists(BlobPath("config", s.img))'
  BY <1>1
<1>4. to \in {"manifestWrite", "append", "index", "indexWrite"}
      => Exists(BlobPath("manifest", s.img))'
  BY <1>1
<1>5. s.pc \in AppendLabels /\ s.misled => misled
  BY <1>1
<1>6. r \in PullStates /\ r.pc = to /\ Local(r)' /\ Saves(s)
  BY <1>1, <1>2, <1>3, <1>4, <1>5, AppendState
<1>7. pull' = [pull EXCEPT ![p] = r]
  BY <1>1, <1>2 DEF Onward, IInv, TypeInv
<1> QED BY <1>1, <1>6, <1>7, PlainStep DEF AppendLabels

LEMMA PutBlobStep ==
    ASSUME IInv, NEW p \in Procs, PutBlob(p)
    PROVE  IInv'
<1>1. FileGood /\ tag' \in Docs /\ UNCHANGED <<index, saved, hollow, clean>>
  BY QuietGood DEF PutBlob, IInv, remoteVars, TypeInv
<1>2. PICK s \in PullStates : s = pull[p] /\ Local(s)
  BY DEF IInv, TypeInv, PullInv
<1>3. s.pc \in {"config", "manifest"} /\ s.img \in Images
  BY <1>2 DEF PutBlob, Local, GatherInv, ImageLabels, AppendLabels
<1>4. PICK misnamed \in BOOLEAN : misnamed = (s.pc = "config" /\ s.conf = "part")
  OBVIOUS
<1>5. PICK misled \in BOOLEAN : misled = (s.misled \/ misnamed)
  OBVIOUS
<1>6. PICK config, manifest : config = BlobPath("config", s.img)
                              /\ manifest = BlobPath("manifest", s.img)
  OBVIOUS
<1>7. PICK to : to = IF misnamed \/ Exists(BlobPath(s.pc, s.img))
                       THEN IF s.pc = "config" THEN "manifest" ELSE "append"
                     ELSE IF s.pc = "config" THEN "configCreate" ELSE "manifestCreate"
  OBVIOUS
<1>8. pull' = [pull EXCEPT ![p].pc = to, ![p].misled = misled]
  BY <1>2, <1>4, <1>5, <1>7 DEF PutBlob, BlobThere, IInv, TypeInv
<1>9. to \in {"configCreate", "manifest", "manifestCreate", "append"}
  BY <1>7
<1>10. to \in AppendLabels \ {"index", "indexWrite"}
  BY <1>9 DEF AppendLabels
<1>11. to \notin {"config", "configCreate"} /\ ~misled => Exists(config)
  <2>1. CASE s.pc = "config"
    BY <1>5, <1>6, <1>7, <2>1
  <2>2. CASE s.pc = "manifest"
    BY <1>2, <1>5, <1>6, <2>2 DEF Local, AppendInv, AppendLabels
  <2> QED BY <1>3, <2>1, <2>2
<1>12. to \in {"manifestWrite", "append"} => Exists(manifest)
  BY <1>3, <1>4, <1>6, <1>7
<1>13. (Exists(config) => Exists(config)') /\ (Exists(manifest) => Exists(manifest)')
  <2>1. config \in Paths /\ config.dir = "layout" /\ manifest \in Paths /\ manifest.dir = "layout"
    BY <1>3, <1>6, BlobsArePaths
  <2> QED BY <1>1, <2>1 DEF FileGood
<1>14. /\ pull[p].pc \in AppendLabels \ {"indexWrite"} /\ (pull[p].misled => misled)
       /\ config = BlobPath("config", pull[p].img) /\ manifest = BlobPath("manifest", pull[p].img)
  BY <1>2, <1>3, <1>5, <1>6 DEF AppendLabels
<1>15. /\ to \notin {"config", "configCreate"} /\ ~misled => Exists(config)'
       /\ to \in {"manifestWrite", "append"} => Exists(manifest)'
  BY <1>11, <1>12, <1>13
<1> QED BY <1>1, <1>8, <1>10, <1>14, <1>15, AppendStep

LEMMA CreateFileStep ==
    ASSUME IInv, NEW p \in Procs, NEW kind \in {"config", "manifest"}, CreateFile(p, kind)
    PROVE  IInv'
<1>1. tag' \in Docs /\ UNCHANGED <<index, saved, hollow, clean>>
  BY DEF CreateFile, IInv, remoteVars, TypeInv
<1>2. PICK s \in PullStates : s = pull[p] /\ Local(s)
  BY DEF IInv, TypeInv, PullInv
<1>3. s.pc = (IF kind = "config" THEN "configCreate" ELSE "manifestCreate")
  BY <1>2 DEF CreateFile
<1>4. s.pc \in AppendLabels \ {"indexWrite"} /\ s.img \in Images
  BY <1>2, <1>3 DEF Local, GatherInv, ImageLabels, AppendLabels
<1>5. PICK config, manifest : config = BlobPath("config", s.img)
                              /\ manifest = BlobPath("manifest", s.img)
  OBVIOUS
<1>6. config \in Paths /\ config.dir = "layout" /\ manifest \in Paths /\ manifest.dir = "layout"
  BY <1>4, <1>5, BlobsArePaths
<1>7. PICK blob : blob = BlobPath(kind, s.img)
  OBVIOUS
<1>8. blob = (IF kind = "config" THEN config ELSE manifest) /\ blob \in Paths
  BY <1>5, <1>6, <1>7
<1>9. FileGood /\ Exists(blob)'
  <2>1. Create(blob, Job(p, 0))
    BY <1>2, <1>7 DEF CreateFile
  <2>2. Job(p, 0) \in Procs \X Nat
    BY DEF Job
  <2> QED BY <1>8, <2>1, <2>2, CreateGood DEF IInv
<1>10. PICK to : to = IF kind = "config" THEN "configWrite" ELSE "manifestWrite"
  OBVIOUS
<1>11. PICK misled \in BOOLEAN : misled = s.misled
  BY DEF PullStates
<1>12. pull' = [pull EXCEPT ![p].pc = to, ![p].misled = misled]
  BY <1>2, <1>10, <1>11 DEF CreateFile, Goes, PullStates, IInv, TypeInv
<1>13. to \in AppendLabels \ {"index", "indexWrite"}
  BY <1>10 DEF AppendLabels
<1>14. to \notin {"config", "configCreate"} /\ ~misled => Exists(config)'
  <2>1. CASE kind = "config"
    BY <1>8, <1>9, <2>1
  <2>2. CASE kind = "manifest"
    <3>1. ~misled => Exists(config)
      BY <1>2, <1>3, <1>5, <1>11, <2>2 DEF Local, AppendInv, AppendLabels
    <3> QED BY <1>6, <1>9, <3>1 DEF FileGood
  <2> QED BY <2>1, <2>2
<1>15. to \in {"manifestWrite", "append"} => Exists(manifest)'
  BY <1>8, <1>9, <1>10
<1>16. /\ pull[p].pc \in AppendLabels \ {"indexWrite"} /\ (pull[p].misled => misled)
       /\ config = BlobPath("config", pull[p].img) /\ manifest = BlobPath("manifest", pull[p].img)
  BY <1>2, <1>4, <1>5, <1>11
<1> QED BY <1>1, <1>9, <1>12, <1>13, <1>14, <1>15, <1>16, AppendStep

\* The writer of the config or the manifest is done.
LEMMA FileWritten ==
    ASSUME IInv, NEW p \in Procs, Close({Job(p, 0)}, {"whole"}),
           NEW to \in {"manifest", "append"}, Goes(p, to),
           pull[p].pc = (IF to = "manifest" THEN "configWrite" ELSE "manifestWrite"),
           tag' \in Docs, UNCHANGED <<index, saved, hollow, clean>>
    PROVE  IInv'
<1>1. PICK s \in PullStates : s = pull[p] /\ Local(s)
  BY DEF IInv, TypeInv, PullInv
<1>2. {"whole"} \subseteq Contents \ {"none"}
  BY DEF Contents
<1>3. FileGood
  BY <1>2, CloseGood DEF IInv
<1>4. PICK config, manifest : config = BlobPath("config", s.img)
                              /\ manifest = BlobPath("manifest", s.img)
  OBVIOUS
<1>5. /\ s.pc \in AppendLabels \ {"indexWrite"} /\ s.img \in Images
      /\ ~s.misled => Exists(config)
      /\ to = "append" => Exists(manifest)
  BY <1>1, <1>4 DEF Local, GatherInv, AppendInv, ImageLabels, AppendLabels
<1>6. config \in Paths /\ config.dir = "layout" /\ manifest \in Paths /\ manifest.dir = "layout"
  BY <1>4, <1>5, BlobsArePaths
<1>7. (~s.misled => Exists(config)') /\ (to = "append" => Exists(manifest)')
  BY <1>3, <1>5, <1>6 DEF FileGood
<1>8. PICK misled \in BOOLEAN : misled = s.misled
  BY DEF PullStates
<1>9. pull' = [pull EXCEPT ![p].pc = to, ![p].misled = misled]
  BY <1>1, <1>8 DEF Goes, PullStates, IInv, TypeInv
<1>10. to \in AppendLabels \ {"index", "indexWrite"}
  BY DEF AppendLabels
<1>11. /\ pull[p].pc \in AppendLabels \ {"indexWrite"} /\ (pull[p].misled => misled)
       /\ config = BlobPath("config", pull[p].img) /\ manifest = BlobPath("manifest", pull[p].img)
  BY <1>1, <1>4, <1>5, <1>8
<1>12. /\ to \notin {"config", "configCreate"} /\ ~misled => Exists(config)'
       /\ to \in {"manifestWrite", "append"} => Exists(manifest)'
  BY <1>7, <1>8
<1> QED BY <1>3, <1>9, <1>10, <1>11, <1>12, AppendStep

LEMMA WriteConfigStep ==
    ASSUME IInv, NEW p \in Procs, WriteConfig(p)
    PROVE  IInv'
<1>1. tag' \in Docs /\ UNCHANGED <<index, saved, hollow, clean>>
  BY DEF WriteConfig, IInv, remoteVars, TypeInv
<1> QED BY <1>1, FileWritten DEF WriteConfig

LEMMA WriteManifestStep ==
    ASSUME IInv, NEW p \in Procs, WriteManifest(p)
    PROVE  IInv'
<1>1. tag' \in Docs /\ UNCHANGED <<index, saved, hollow, clean>>
  BY DEF WriteManifest, IInv, remoteVars, TypeInv
<1> QED BY <1>1, FileWritten DEF WriteManifest
(***************************************************************************)
(* Steps that have to do with the index.                                   *)
(***************************************************************************)

\* A step of one pull, whatever it does to the index.
LEMMA IndexStep ==
    ASSUME IInv, FileGood, NEW p \in Procs, NEW r \in PullStates, Local(r)',
           pull' = [pull EXCEPT ![p] = r], tag' \in Docs,
           index' \in Indices, saved' \subseteq Images,
           hollow \subseteq hollow', hollow' \subseteq Images, clean' \in BOOLEAN,
           \A img \in ToSet(index'.images) : Sound(img)',
           r.pc \in {"index", "indexWrite"} => \A img \in ToSet(r.read) : Sound(img)',
           KeptInv'
    PROVE  IInv'
<1>1. /\ pull' \in [Procs -> PullStates] /\ pull'[p] = r
      /\ \A q \in Procs \ {p} : pull'[q] = pull[q]
      /\ PullInv'
  BY RestKept
<1>2. TypeInv'
  BY <1>1 DEF TypeInv, FileGood
<1>3. ListedInv'
  <2>1. ASSUME NEW q \in Procs, pull'[q].pc \in {"index", "indexWrite"},
               NEW img \in ToSet(pull'[q].read)
        PROVE  Sound(img)'
    <3>1. CASE q = p
      BY <1>1, <2>1, <3>1
    <3>2. CASE q # p
      <4>1. pull'[q] = pull[q]
        BY <1>1, <3>2
      <4>2. img \in Images /\ Sound(img)
        BY <2>1, <4>1, ListedTypes DEF IInv, ListedInv
      <4> QED BY <4>2, SoundKept
    <3> QED BY <3>1, <3>2
  <2> QED BY <2>1 DEF ListedInv
<1> QED BY <1>1, <1>2, <1>3 DEF IInv, FileGood

LEMMA Savers ==
    ASSUME IInv
    PROVE  /\ \A q \in Procs : Saving(q) <=> Saves(pull[q])
           /\ \A q \in Procs : pull[q].pc \in {"create", "init", "index", "indexWrite"} => Saves(pull[q])
<1>1. \A q \in Procs : Saving(q) <=> Saves(pull[q])
  BY DEF Saving, Saves, Format
<1>2. ASSUME NEW q \in Procs, pull[q].pc \in {"create", "init", "index", "indexWrite"}
      PROVE  Saves(pull[q])
  <2>1. AppendInv(pull[q])
    BY DEF IInv, PullInv, Local
  <2> QED BY <1>2, <2>1 DEF AppendInv, AppendLabels, Saves, Over
<1> QED BY <1>1, <1>2

\* While no saves overlap, no other is at the index.
LEMMA Alone ==
    ASSUME IInv, clean, NEW p \in Procs, Saves(pull[p])
    PROVE  \A q \in Procs \ {p} : /\ ~Saves(pull[q])
                                  /\ pull[q].pc \notin {"create", "init", "index", "indexWrite"}
<1>1. \A q \in Procs \ {p} : ~Saves(pull[q])
  BY DEF IInv, KeptInv
<1> QED BY <1>1, Savers

LEMMA OpenStep ==
    ASSUME IInv, NEW p \in Procs, Open(p)
    PROVE  IInv'
<1>1. /\ FileGood /\ tag' \in Docs /\ UNCHANGED <<index, saved, hollow>>
      /\ clean' = (clean /\ \A q \in Procs : ~Saving(q))
  BY QuietGood DEF Open, IInv, remoteVars, TypeInv
<1>2. PICK s \in PullStates : s = pull[p] /\ Local(s)
  BY DEF IInv, TypeInv, PullInv
<1>3. s.pc = "open"
  BY <1>2 DEF Open
<1>4. PICK to : to = IF IsLayout THEN "layers" ELSE "create"
  OBVIOUS
<1>5. Goes(p, to) /\ to \in {"layers", "create"} /\ (to = "create" => index = NoIndex)
  BY <1>4 DEF Open, IsLayout
<1>6. PICK r : r = [s EXCEPT !.pc = to]
  OBVIOUS
<1>7. /\ r \in PullStates /\ r.pc = to /\ r.kind = s.kind /\ r.img = s.img
      /\ r.srcs = s.srcs /\ r.at = s.at /\ r.out = s.out
  BY <1>5, <1>6 DEF PullStates, PullLabels, ImageLabels, GatherLabels
<1>8. pull' = [pull EXCEPT ![p] = r]
  BY <1>2, <1>5, <1>6 DEF Goes, IInv, TypeInv
<1>9. /\ s.img \in Images /\ s.srcs = <<>> /\ s.at = 1 /\ s.out = <<>> /\ s.kind.fmt = "oci"
  BY <1>2, <1>3 DEF Local, GatherInv, AppendInv, ImageLabels, GatherLabels
<1>10. LayersOf[s.img] \in Seq(Layers)
  BY <1>9, BlobsArePaths
<1>11. Faithful(r.srcs, LayersOf[r.img]) /\ Within(r.srcs, LayersOf[r.img])
  BY <1>7, <1>9, <1>10 DEF Faithful, Within
<1>12. Local(r)'
  BY <1>5, <1>7, <1>9, <1>11 DEF Local, GatherInv, CopyInv, AppendInv, DoneInv, AppendLabels
<1>13. pull'[p] = r /\ \A q \in Procs \ {p} : pull'[q] = pull[q]
  BY <1>7, <1>8, <1>12, <1>1, RestKept
<1>14. \A img \in ToSet(index'.images) : Sound(img)'
  BY <1>1, ListedTypes, SoundKept DEF IInv, ListedInv
<1>15. KeptInv'
  <2>1. (index'.is # "listing" => index'.images = <<>>) /\ (index'.is = "none" => saved' = {})
    BY <1>1 DEF IInv, KeptInv
  <2>2. ASSUME clean'
        PROVE  /\ clean /\ \A q \in Procs : ~Saves(pull[q])
               /\ \A q \in Procs : pull[q].pc \notin {"create", "init", "index", "indexWrite"}
    BY <1>1, <2>2, Savers
  <2>3. ASSUME clean', NEW q1 \in Procs, NEW q2 \in Procs, Saves(pull'[q1]), Saves(pull'[q2])
        PROVE  q1 = q2
    BY <1>13, <2>2, <2>3
  <2>4. ASSUME clean', NEW q \in Procs
        PROVE  /\ pull'[q].pc = "create" => index'.is = "none"
               /\ pull'[q].pc \notin {"init", "index", "indexWrite"}
    <3>1. CASE q = p
      BY <1>1, <1>5, <1>7, <1>13, <3>1 DEF NoIndex
    <3>2. CASE q # p
      BY <1>13, <2>2, <2>4, <3>2
    <3> QED BY <3>1, <3>2
  <2>5. ASSUME clean'
        PROVE  index'.is # "broken" /\ saved' \subseteq ToSet(index'.images)
    BY <1>1, <2>2, <2>5 DEF IInv, KeptInv
  <2> HIDE DEF Saves
  <2> QED BY <2>1, <2>3, <2>4, <2>5 DEF KeptInv
<1>16. index' \in Indices /\ clean' \in BOOLEAN /\ saved' \subseteq Images
  <2>1. index \in Indices /\ clean \in BOOLEAN /\ saved \subseteq Images
    BY DEF IInv, TypeInv
  <2> QED BY <1>1, <2>1
<1>17. r.pc \notin {"index", "indexWrite"}
  BY <1>5, <1>7
<1> QED BY <1>1, <1>7, <1>8, <1>12, <1>14, <1>15, <1>16, <1>17, IndexStep DEF IInv, TypeInv

LEMMA CreateLayoutStep ==
    ASSUME IInv, NEW p \in Procs, CreateLayout(p)
    PROVE  IInv'
<1>1. FileGood /\ tag' \in Docs /\ UNCHANGED <<saved, hollow, clean>> /\ index' = Broken
  BY QuietGood DEF CreateLayout, TruncateIndex, IInv, remoteVars, TypeInv
<1>2. PICK s \in PullStates : s = pull[p] /\ Local(s)
  BY DEF IInv, TypeInv, PullInv
<1>3. s.pc = "create" /\ Goes(p, "init")
  BY <1>2 DEF CreateLayout
<1>4. index' \in Indices /\ index'.images = <<>> /\ index'.is = "broken"
  BY <1>1 DEF Broken, Indices
<1>5. PICK r : r = [s EXCEPT !.pc = "init"]
  OBVIOUS
<1>6. /\ r \in PullStates /\ r.pc = "init" /\ r.kind = s.kind /\ r.img = s.img
      /\ r.srcs = s.srcs /\ r.at = s.at /\ r.out = s.out
  BY <1>5 DEF PullStates, PullLabels, ImageLabels, GatherLabels
<1>7. pull' = [pull EXCEPT ![p] = r]
  BY <1>2, <1>3, <1>5 DEF Goes, IInv, TypeInv
<1>8. Local(r)'
  <2>1. Local(s)'
    BY <1>1, <1>2, LocalKept
  <2> QED BY <1>3, <1>6, <2>1 DEF Local, GatherInv, CopyInv, AppendInv, DoneInv, ImageLabels,
                                  GatherLabels, AppendLabels
<1>9. pull'[p] = r /\ \A q \in Procs \ {p} : pull'[q] = pull[q]
  BY <1>1, <1>6, <1>7, <1>8, RestKept
<1>10. \A img \in ToSet(index'.images) : Sound(img)'
  BY <1>4 DEF ToSet
<1>11. Saves(pull[p])
  BY <1>2, <1>3, Savers
<1>12. KeptInv'
  <2>1. ASSUME clean
        PROVE  /\ \A q \in Procs \ {p} :
                     /\ ~Saves(pull'[q])
                     /\ pull'[q].pc \notin {"create", "init", "index", "indexWrite"}
               /\ saved = {}
    <3>1. saved = {}
      BY <1>2, <1>3, <2>1 DEF IInv, KeptInv
    <3> QED BY <1>9, <1>11, <2>1, <3>1, Alone
  <2> HIDE DEF Saves
  <2> QED BY <1>1, <1>4, <1>6, <1>9, <2>1 DEF KeptInv
<1>13. TypeInv /\ r.pc \notin {"index", "indexWrite"}
  BY <1>6 DEF IInv
<1> QED BY <1>1, <1>4, <1>6, <1>7, <1>8, <1>10, <1>12, <1>13, IndexStep DEF TypeInv

LEMMA InitLayoutStep ==
    ASSUME IInv, NEW p \in Procs, InitLayout(p)
    PROVE  IInv'
<1>1. FileGood /\ tag' \in Docs /\ UNCHANGED <<saved, hollow, clean>>
  BY QuietGood DEF InitLayout, IInv, remoteVars, TypeInv
<1>2. PICK s \in PullStates : s = pull[p] /\ Local(s)
  BY DEF IInv, TypeInv, PullInv
<1>3. s.pc = "init" /\ Goes(p, "layers")
  BY <1>2 DEF InitLayout
<1>4. index' = IF Len(index.images) > 0 THEN Broken ELSE Listing(<<>>)
  BY DEF InitLayout, WriteIndexFile
<1>5. index' \in Indices /\ index'.images = <<>> /\ index'.is \in {"broken", "listing"}
  BY <1>4 DEF Indices, Broken, Listing
<1>6. PICK r : r = [s EXCEPT !.pc = "layers"]
  OBVIOUS
<1>7. /\ r \in PullStates /\ r.pc = "layers" /\ r.kind = s.kind /\ r.img = s.img
      /\ r.srcs = s.srcs /\ r.at = s.at /\ r.out = s.out
  BY <1>6 DEF PullStates, PullLabels, ImageLabels, GatherLabels
<1>8. pull' = [pull EXCEPT ![p] = r]
  BY <1>2, <1>3, <1>6 DEF Goes, IInv, TypeInv
<1>9. /\ s.img \in Images /\ s.srcs = <<>> /\ s.at = 1 /\ s.out = <<>>
  BY <1>2, <1>3 DEF Local, GatherInv, ImageLabels, GatherLabels
<1>10. LayersOf[s.img] \in Seq(Layers)
  BY <1>9, BlobsArePaths
<1>11. Faithful(r.srcs, LayersOf[r.img]) /\ Within(r.srcs, LayersOf[r.img])
  BY <1>7, <1>9, <1>10 DEF Faithful, Within
<1>12. Local(r)'
  BY <1>7, <1>9, <1>11 DEF Local, GatherInv, CopyInv, AppendInv, DoneInv, AppendLabels
<1>13. /\ pull'[p] = r /\ \A q \in Procs \ {p} : pull'[q] = pull[q]
  BY <1>1, <1>7, <1>8, <1>12, RestKept
<1>14. \A img \in ToSet(index'.images) : Sound(img)'
  BY <1>5 DEF ToSet
<1>15. Saves(pull[p])
  BY <1>2, <1>3, Savers
<1>16. KeptInv'
  <2>1. (index'.is # "listing" => index'.images = <<>>) /\ (index'.is = "none" => saved' = {})
    BY <1>5
  <2>2. ASSUME clean
        PROVE  /\ \A q \in Procs \ {p} : /\ ~Saves(pull'[q])
                                         /\ pull'[q].pc \notin {"create", "init", "index", "indexWrite"}
               /\ index'.is = "listing" /\ saved = {}
    <3>1. index.is = "broken" /\ saved = {}
      BY <1>2, <1>3, <2>2 DEF IInv, KeptInv
    <3>2. index.images = <<>>
      BY <3>1 DEF IInv, KeptInv
    <3>3. index'.is = "listing"
      BY <1>4, <3>2 DEF Listing
    <3> QED BY <1>13, <1>15, <2>2, <3>1, <3>3, Alone
  <2>3. r.pc = "layers"
    BY <1>7
  <2> HIDE DEF Saves
  <2> QED BY <1>1, <1>13, <2>1, <2>2, <2>3 DEF KeptInv
<1> QED BY <1>1, <1>5, <1>7, <1>8, <1>12, <1>14, <1>16, IndexStep DEF IInv, TypeInv
LEMMA ReadIndexStep ==
    ASSUME IInv, NEW p \in Procs, ReadIndex(p)
    PROVE  IInv'
<1>1. FileGood /\ tag' \in Docs /\ UNCHANGED <<index, saved, hollow, clean>>
  BY QuietGood DEF ReadIndex, IInv, remoteVars, TypeInv
<1>2. PICK s \in PullStates : s = pull[p] /\ Local(s)
  BY DEF IInv, TypeInv, PullInv
<1>3. s.pc = "append"
  BY <1>2 DEF ReadIndex
<1>4. CASE ~Parses
  BY <1>1, <1>2, <1>3, <1>4, FailStep DEF ReadIndex
<1>5. CASE Parses
  <2>1. pull' = [pull EXCEPT ![p].pc = "index", ![p].read = index.images]
    BY <1>5 DEF ReadIndex
  <2>2. PICK read \in Seq(Images) : read = index.images
    BY DEF IInv, TypeInv, Indices
  <2>3. PICK r : r = [s EXCEPT !.pc = "index", !.read = read]
    OBVIOUS
  <2>4. /\ r \in PullStates /\ r.pc = "index" /\ r.kind = s.kind /\ r.img = s.img
        /\ r.misled = s.misled /\ r.conf = s.conf /\ r.read = read
    BY <2>2, <2>3 DEF PullStates, PullLabels, ImageLabels, AppendLabels
  <2>5. pull' = [pull EXCEPT ![p] = r]
    BY <1>2, <2>1, <2>2, <2>3 DEF IInv, TypeInv
  <2>6. Local(s)'
    BY <1>1, <1>2, LocalKept
  <2>7. Local(r)'
    BY <1>3, <2>4, <2>6 DEF Local, GatherInv, CopyInv, AppendInv, DoneInv, ImageLabels,
                            GatherLabels, AppendLabels
  <2>8. pull'[p] = r /\ \A q \in Procs \ {p} : pull'[q] = pull[q]
    BY <1>1, <2>4, <2>5, <2>7, RestKept
  <2>9. \A img \in ToSet(index.images) : Sound(img)'
    BY <1>1, ListedTypes, SoundKept DEF IInv, ListedInv
  <2>10. Saves(pull[p])
    <3>1. s.kind.fmt = "oci"
      BY <1>2, <1>3 DEF Local, AppendInv, AppendLabels
    <3> QED BY <1>2, <1>3, <3>1 DEF Saves, Over
  <2>11. KeptInv'
    <3>1. (index.is # "listing" => index.images = <<>>) /\ (index.is = "none" => saved = {})
      BY DEF IInv, KeptInv
    <3>2. ASSUME clean
          PROVE  /\ \A q \in Procs \ {p} : /\ ~Saves(pull'[q])
                                           /\ pull'[q].pc \notin {"create", "init", "index", "indexWrite"}
                 /\ index.is # "broken" /\ saved \subseteq ToSet(index.images)
      <4>1. \A q \in Procs \ {p} : /\ ~Saves(pull[q])
                                   /\ pull[q].pc \notin {"create", "init", "index", "indexWrite"}
        BY <2>10, <3>2, Alone
      <4>2. \A q \in Procs : pull[q].pc \notin {"init", "indexWrite"}
        BY <1>2, <1>3, <4>1
      <4>3. index.is # "broken" /\ saved \subseteq ToSet(index.images)
        BY <3>2, <4>2 DEF IInv, KeptInv
      <4> QED BY <2>8, <4>1, <4>3
    <3> HIDE DEF Saves
    <3> QED BY <1>1, <2>2, <2>4, <2>8, <3>1, <3>2 DEF KeptInv
  <2>12. TypeInv
    BY DEF IInv
  <2> QED BY <1>1, <2>2, <2>4, <2>5, <2>7, <2>9, <2>11, <2>12, IndexStep DEF TypeInv
<1> QED BY <1>4, <1>5

LEMMA OpenIndexStep ==
    ASSUME IInv, NEW p \in Procs, OpenIndex(p)
    PROVE  IInv'
<1>1. /\ FileGood /\ tag' \in Docs /\ UNCHANGED <<saved, hollow, clean>>
      /\ index' = Broken
  BY QuietGood DEF OpenIndex, TruncateIndex, IInv, remoteVars, TypeInv
<1>2. PICK s \in PullStates : s = pull[p] /\ Local(s)
  BY DEF IInv, TypeInv, PullInv
<1>3. s.pc = "index" /\ Goes(p, "indexWrite")
  BY <1>2 DEF OpenIndex
<1>4. PICK r : r = [s EXCEPT !.pc = "indexWrite"]
  OBVIOUS
<1>5. /\ r \in PullStates /\ r.pc = "indexWrite" /\ r.kind = s.kind /\ r.img = s.img
      /\ r.misled = s.misled /\ r.conf = s.conf /\ r.read = s.read
  BY <1>4 DEF PullStates, PullLabels, ImageLabels, AppendLabels
<1>6. pull' = [pull EXCEPT ![p] = r]
  BY <1>2, <1>3, <1>4 DEF Goes, IInv, TypeInv
<1>7. Local(s)'
  BY <1>1, <1>2, LocalKept
<1>8. Local(r)'
  BY <1>3, <1>5, <1>7 DEF Local, GatherInv, CopyInv, AppendInv, DoneInv, ImageLabels,
                          GatherLabels, AppendLabels
<1>9. pull'[p] = r /\ \A q \in Procs \ {p} : pull'[q] = pull[q]
  BY <1>1, <1>5, <1>6, <1>8, RestKept
<1>10. index' \in Indices /\ index'.images = <<>> /\ index'.is = "broken"
  BY <1>1 DEF Broken, Indices
<1>11. \A img \in ToSet(index'.images) : Sound(img)'
  BY <1>10 DEF ToSet
<1>12. \A img \in ToSet(r.read) : Sound(img)'
  BY <1>1, <1>2, <1>3, <1>5, ListedTypes, SoundKept DEF IInv, ListedInv
<1>13. Saves(pull[p])
  BY <1>2, <1>3, Savers
<1>14. KeptInv'
  <2>1. ASSUME clean
        PROVE  /\ \A q \in Procs \ {p} : /\ ~Saves(pull'[q])
                                         /\ pull'[q].pc \notin {"create", "init", "index", "indexWrite"}
               /\ saved \subseteq ToSet(s.read)
    <3>1. saved \subseteq ToSet(s.read)
      BY <1>2, <1>3, <2>1 DEF IInv, KeptInv
    <3> QED BY <1>9, <1>13, <2>1, <3>1, Alone
  <2> HIDE DEF Saves
  <2> QED BY <1>1, <1>5, <1>9, <1>10, <2>1 DEF KeptInv
<1>15. TypeInv
  BY DEF IInv
<1> QED BY <1>1, <1>5, <1>6, <1>8, <1>10, <1>11, <1>12, <1>14, <1>15, IndexStep DEF TypeInv

LEMMA WriteIndexStep ==
    ASSUME IInv, NEW p \in Procs, WriteIndex(p)
    PROVE  IInv'
<1>1. FileGood /\ tag' \in Docs /\ UNCHANGED clean
  BY QuietGood DEF WriteIndex, IInv, remoteVars, TypeInv
<1>2. PICK s \in PullStates : s = pull[p] /\ Local(s)
  BY DEF IInv, TypeInv, PullInv
<1>3. s.pc = "indexWrite" /\ Succeeds(p)
  BY <1>2 DEF WriteIndex
<1>4. PICK images : images = Append(s.read, s.img)
  OBVIOUS
<1>5. /\ index' = IF Len(index.images) > Len(images) THEN Broken ELSE Listing(images)
      /\ saved' = saved \cup {s.img}
      /\ hollow' = IF s.misled THEN hollow \cup {s.img} ELSE hollow
  BY <1>2, <1>4 DEF WriteIndex, WriteIndexFile, AppendDescriptor
<1>6. /\ s.img \in Images /\ s.kind.fmt = "oci" /\ s.read \in Seq(Images)
      /\ ~s.misled => LayersThere(s.img)
      /\ ~s.misled => Exists(BlobPath("config", s.img))
      /\ Exists(BlobPath("manifest", s.img))
  BY <1>2, <1>3 DEF Local, GatherInv, AppendInv, ImageLabels, AppendLabels, PullStates
<1>7. /\ images \in Seq(Images) /\ Len(images) = Len(s.read) + 1
      /\ ToSet(images) = ToSet(s.read) \cup {s.img}
  <2>1. /\ images \in Seq(Images) /\ Len(images) = Len(s.read) + 1 /\ images[Len(images)] = s.img
        /\ \A i \in 1 .. Len(s.read) : images[i] = s.read[i]
    BY <1>4, <1>6
  <2>2. \A i \in 1 .. Len(images) : i \in 1 .. Len(s.read) \/ i = Len(images)
    BY <1>6, <2>1
  <2>3. \A x \in ToSet(images) : x \in ToSet(s.read) \cup {s.img}
    BY <1>6, <2>1, <2>2 DEF ToSet
  <2>4. 1 .. Len(s.read) \subseteq 1 .. Len(images) /\ Len(images) \in 1 .. Len(images)
    BY <1>6, <2>1
  <2>5. \A x \in ToSet(s.read) \cup {s.img} : x \in ToSet(images)
    BY <1>6, <2>1, <2>4 DEF ToSet
  <2> QED BY <2>1, <2>3, <2>5
<1>8. PICK r : r = Succeeded(s)
  OBVIOUS
<1>9. r \in PullStates /\ r.pc = "done" /\ Local(r)' /\ ~Saves(r)
  BY <1>2, <1>6, <1>8, SucceededState
<1>10. pull' = [pull EXCEPT ![p] = r]
  BY <1>2, <1>3, <1>8 DEF Succeeds
<1>11. pull'[p] = r /\ \A q \in Procs \ {p} : pull'[q] = pull[q]
  BY <1>1, <1>9, <1>10, RestKept
<1>12. /\ index' \in Indices /\ index'.is \in {"broken", "listing"}
       /\ index'.images \in {<<>>, images} /\ (index'.is = "broken" => index'.images = <<>>)
  BY <1>5, <1>7 DEF Broken, Listing, Indices
<1>13. /\ hollow \subseteq hollow' /\ hollow' \subseteq Images /\ saved' \subseteq Images
  BY <1>5, <1>6 DEF IInv, TypeInv
<1>14. Sound(s.img)'
  <2>1. CASE s.misled
    BY <1>5, <2>1 DEF Sound
  <2>2. CASE ~s.misled
    <3>1. \A blob \in BlobsOf(s.img, LayersOf[s.img]) : Exists(blob)
      BY <1>6, <2>2 DEF BlobsOf, LayersThere
    <3>2. Sound(s.img)
      BY <3>1 DEF Sound
    <3> QED BY <1>1, <1>6, <1>13, <3>2, SoundKept
  <2> QED BY <2>1, <2>2
<1>15. \A img \in ToSet(index'.images) : Sound(img)'
  <2>1. \A img \in ToSet(s.read) : Sound(img)'
    BY <1>1, <1>2, <1>3, <1>13, ListedTypes, SoundKept DEF IInv, ListedInv
  <2>2. ToSet(<<>>) = {}
    BY DEF ToSet
  <2> QED BY <1>7, <1>12, <1>14, <2>1, <2>2
<1>16. Saves(pull[p])
  BY <1>2, <1>3, Savers
<1>17. KeptInv'
  <2>1. ASSUME clean
        PROVE  /\ \A q \in Procs \ {p} : /\ ~Saves(pull'[q])
                                         /\ pull'[q].pc \notin {"create", "init", "index", "indexWrite"}
               /\ index'.is = "listing" /\ saved' \subseteq ToSet(index'.images)
    <3>1. index.is = "broken" /\ saved \subseteq ToSet(s.read)
      BY <1>2, <1>3, <2>1 DEF IInv, KeptInv
    <3>2. index.images = <<>>
      BY <3>1 DEF IInv, KeptInv
    <3>3. index' = Listing(images)
      BY <1>5, <1>6, <1>7, <3>2
    <3>4. index'.is = "listing" /\ saved' \subseteq ToSet(index'.images)
      BY <1>5, <1>7, <3>1, <3>3 DEF Listing
    <3> QED BY <1>11, <1>16, <2>1, <3>4, Alone
  <2>2. r.pc = "done" /\ ~Saves(r)
    BY <1>9
  <2> HIDE DEF Saves
  <2> QED BY <1>1, <1>11, <1>12, <2>1, <2>2 DEF KeptInv
<1>18. TypeInv /\ r.pc \notin {"index", "indexWrite"}
  BY <1>9 DEF IInv
<1> QED BY <1>1, <1>9, <1>10, <1>12, <1>13, <1>15, <1>17, <1>18, IndexStep DEF TypeInv

(***************************************************************************)
(* What may happen to a pull.                                              *)
(***************************************************************************)

LEMMA CrashStep ==
    ASSUME IInv, NEW p \in Procs, Crash(p)
    PROVE  IInv'
<1>1. /\ tag' \in Docs /\ UNCHANGED <<index, saved, hollow>>
      /\ pull' = [pull EXCEPT ![p] = Idle] /\ clean' = (clean /\ ~Saving(p))
  BY DEF Crash, IInv, remoteVars, TypeInv
<1>2. PICK who : Close(who, {"empty", "part"})
  BY DEF Crash
<1>3. {"empty", "part"} \subseteq Contents \ {"none"}
  BY DEF Contents
<1>4. FileGood
  BY <1>2, <1>3, CloseGood DEF IInv
<1>5. PICK r : r = Idle
  OBVIOUS
<1>6. r \in PullStates /\ r.pc = "idle"
  BY <1>5, IdleState
<1>7. Local(r)' /\ ~Saves(r)
  BY <1>6 DEF Local, GatherInv, CopyInv, AppendInv, DoneInv, ImageLabels, GatherLabels,
              AppendLabels, Saves, Over
<1>8. pull' = [pull EXCEPT ![p] = r]
  BY <1>1, <1>5
<1>9. CASE Saves(pull[p])
  <2>1. clean' = FALSE
    BY <1>1, <1>9, Savers
  <2>2. KeptInv'
    BY <1>1, <2>1 DEF IInv, KeptInv
  <2>3. \A img \in ToSet(index'.images) : Sound(img)'
    BY <1>1, <1>4, ListedTypes, SoundKept DEF IInv, ListedInv
  <2>4. TypeInv /\ r.pc \notin {"index", "indexWrite"} /\ clean' \in BOOLEAN
    BY <1>6, <2>1 DEF IInv
  <2> QED BY <1>1, <1>4, <1>6, <1>7, <1>8, <2>2, <2>3, <2>4, IndexStep DEF TypeInv
<1>10. CASE ~Saves(pull[p])
  <2>1. pull[p].pc \notin {"init", "indexWrite"}
    BY <1>10, Savers
  <2>2. clean' = clean
    <3>1. ~Saving(p) /\ clean \in BOOLEAN
      BY <1>10, Savers DEF IInv, TypeInv
    <3> QED BY <1>1, <3>1
  <2> QED BY <1>1, <1>4, <1>6, <1>7, <1>8, <2>1, <2>2, PlainStep
<1> QED BY <1>9, <1>10

LEMMA OthersStep ==
    ASSUME IInv, Others
    PROVE  IInv'
<1>1. UNCHANGED fileVars /\ UNCHANGED <<index, saved, hollow, clean>>
  BY DEF Others
<1>2. FileGood
  BY <1>1, QuietGood DEF IInv
<1>3. tag' \in Docs
  BY RemoteImageAssumption DEF Others, MoveTag, Delete, IInv, TypeInv
<1>4. \A q \in Procs : /\ pull'[q] \in PullStates /\ pull'[q].pc = pull[q].pc
                       /\ pull'[q].read = pull[q].read /\ pull'[q].kind = pull[q].kind
                       /\ Local(pull[q])'
  <2>1. TAKE q \in Procs
  <2>2. PICK s \in PullStates : s = pull[q] /\ Local(s)
    BY DEF IInv, TypeInv, PullInv
  <2>3. Local(s)'
    BY <1>2, <2>2, LocalKept
  <2>4. PICK r : r = pull'[q]
    OBVIOUS
  <2>5. PICK since \in SUBSET Docs : since = s.since \cup {tag'}
    BY <1>3 DEF PullStates
  <2>6. r = s \/ r = [s EXCEPT !.since = since]
    BY <2>2, <2>4, <2>5 DEF Others
  <2>7. /\ r \in PullStates /\ r.pc = s.pc /\ r.kind = s.kind /\ r.img = s.img /\ r.conf = s.conf
        /\ r.srcs = s.srcs /\ r.at = s.at /\ r.jobs = s.jobs /\ r.read = s.read /\ r.out = s.out
        /\ r.misled = s.misled
    BY <2>6 DEF PullStates
  <2>8. Local(r)'
    BY <2>3, <2>7 DEF Local, GatherInv, CopyInv, AppendInv, DoneInv
  <2> QED BY <2>2, <2>4, <2>7, <2>8
<1>5. pull' \in [Procs -> PullStates]
  <2>1. pull' = [q \in Procs |-> pull'[q]]
    BY DEF Others, IInv, TypeInv
  <2> QED BY <1>4, <2>1
<1>6. TypeInv'
  BY <1>1, <1>2, <1>3, <1>5 DEF FileGood, IInv, TypeInv
<1>7. PullInv'
  BY <1>4 DEF PullInv
<1>8. ListedInv'
  BY <1>1, <1>2, <1>4, ListedTypes, SoundKept DEF IInv, ListedInv
<1>9. \A q \in Procs : Saves(pull'[q]) <=> Saves(pull[q])
  BY <1>4 DEF Saves
<1>10. KeptInv'
  <2> HIDE DEF Saves
  <2> QED BY <1>1, <1>4, <1>9 DEF IInv, KeptInv
<1> QED BY <1>2, <1>6, <1>7, <1>8, <1>10 DEF IInv, FileGood
(***************************************************************************)
(* The invariant.                                                          *)
(***************************************************************************)

LEMMA ListOfAll ==
    ASSUME NEW S, IsFiniteSet(S)
    PROVE  SetToSeq(S) \in Seq(S) /\ ToSet(SetToSeq(S)) = S
<1>1. PICK n \in Nat : n = Cardinality(S) /\ ExistsBijection(1 .. n, S)
  BY FS_CardinalityType
<1>2. \E f \in [1 .. n -> S] : IsInjective(f)
  BY <1>1 DEF ExistsBijection, Bijection, Injection
<1>3. PICK list : list = SetToSeq(S)
  OBVIOUS
<1>4. list = CHOOSE f \in [1 .. n -> S] : IsInjective(f)
  BY <1>1, <1>3 DEF SetToSeq
<1>5. list \in [1 .. n -> S] /\ IsInjective(list)
  BY <1>2, <1>4
<1>6. list \in Injection(1 .. n, S)
  BY <1>5 DEF Injection
<1>7. Cardinality(1 .. n) = n
  BY FS_Interval
<1>8. list \in Surjection(1 .. n, S)
  BY <1>1, <1>6, <1>7, FS_Injection
<1>9. \A x \in S : \E i \in 1 .. n : list[i] = x
  BY <1>8 DEF Surjection
<1>10. list \in Seq(S) /\ Len(list) = n
  BY <1>5
<1>11. ToSet(list) = S
  BY <1>5, <1>9, <1>10 DEF ToSet
<1> QED BY <1>3, <1>10, <1>11

LEMMA InitIInv == Init => IInv
<1> SUFFICES ASSUME Init PROVE IInv
  OBVIOUS
<1>1. PICK before \in Before :
         /\ file = before.file
         /\ index = IF before.images = {} THEN NoIndex ELSE Listing(SetToSeq(before.images))
         /\ saved = before.images
  BY DEF Init
<1>2. /\ before.file \in [Paths -> Contents] /\ before.images \subseteq Images
      /\ \A img \in before.images : \A blob \in BlobsOf(img, LayersOf[img]) :
            before.file[blob] = "whole"
  BY PullsAssumption
<1>3. /\ hands = {} /\ cut = {path \in Paths : file[path] \notin {"none", "whole"}}
      /\ pull = [p \in Procs |-> Idle] /\ hollow = {} /\ clean = TRUE /\ tag = FirstTag
  BY DEF Init, FilesInit, RemoteInit
<1>4. PICK images \in Seq(Images) :
         /\ ToSet(images) = before.images
         /\ index = IF before.images = {} THEN NoIndex ELSE Listing(images)
  <2>1. IsFiniteSet(before.images)
    BY <1>2, FS_Subset, PullsAssumption
  <2>2. PICK images : images = SetToSeq(before.images)
    OBVIOUS
  <2>3. images \in Seq(before.images) /\ ToSet(images) = before.images
    BY <2>1, <2>2, ListOfAll
  <2>4. images \in Seq(Images)
    BY <1>2, <2>3
  <2> QED BY <1>1, <2>2, <2>3, <2>4
<1>5. /\ index \in Indices /\ index.is \in {"none", "listing"}
      /\ ToSet(index.images) = before.images
      /\ index.is = "none" => index.images = <<>> /\ before.images = {}
  <2>1. CASE before.images = {}
    BY <1>4, <2>1 DEF NoIndex, Indices, ToSet
  <2>2. CASE before.images # {}
    BY <1>4, <2>2 DEF Listing, Indices
  <2> QED BY <2>1, <2>2
<1>6. \A p \in Procs : pull[p] = Idle
  BY <1>3
<1>7. TypeInv
  BY <1>1, <1>2, <1>3, <1>5, IdleState, RemoteImageAssumption DEF TypeInv
<1>8. FilesInv
  BY <1>3 DEF FilesInv, Exists
<1>9. Local(Idle)
  BY IdleState DEF Local, GatherInv, CopyInv, AppendInv, DoneInv, ImageLabels, GatherLabels,
                   AppendLabels
<1>10. PullInv
  BY <1>6, <1>9 DEF PullInv
<1>11. ListedInv
  <2>1. \A img \in before.images : Sound(img)
    BY <1>1, <1>2 DEF Sound, Exists
  <2> QED BY <1>5, <1>6, <2>1, IdleState DEF ListedInv
<1>12. KeptInv
  <2>1. ~Saves(Idle)
    BY IdleState DEF Saves, Over
  <2> HIDE DEF Saves
  <2> QED BY <1>1, <1>5, <1>6, <2>1, IdleState DEF KeptInv
<1> QED BY <1>7, <1>8, <1>10, <1>11, <1>12 DEF IInv

LEMMA NextIInv == IInv /\ [Next]_vars => IInv'
<1> SUFFICES ASSUME IInv, [Next]_vars PROVE IInv'
  OBVIOUS
<1>1. ASSUME NEW p \in Procs, Step(p)
      PROVE  IInv'
  BY <1>1, GetStep, ResolveStep, OpenStep, CreateLayoutStep, InitLayoutStep, FetchConfigStep, WriteRawConfigStep,
     GetCompressedStep, GetUncompressedStep, GotLayersStep, LayerStepStep, WaitStep,
     PutBlobStep, CreateFileStep, WriteConfigStep, WriteManifestStep, ReadIndexStep, OpenIndexStep,
     WriteIndexStep
  DEF Step
<1>2. ASSUME UNCHANGED vars
      PROVE  IInv'
  <2>1. UNCHANGED <<tag, file, hands, cut, index, pull, saved, hollow, clean>>
    BY <1>2 DEF vars, remoteVars, fileVars, pullVars
  <2>2. TypeInv' /\ FilesInv'
    BY <2>1 DEF IInv, TypeInv, FilesInv, Exists
  <2>3. PullInv'
    <3>1. FileGood
      <4>1. UNCHANGED fileVars
        BY <2>1 DEF fileVars
      <4> QED BY <4>1, QuietGood DEF IInv
    <3>2. ASSUME NEW p \in Procs
          PROVE  Local(pull[p])'
      <4>1. PICK s \in PullStates : s = pull[p] /\ Local(s)
        BY DEF IInv, TypeInv, PullInv
      <4>2. Local(s)' /\ pull'[p] = s
        BY <2>1, <3>1, <4>1, LocalKept
      <4> QED BY <4>2
    <3> QED BY <3>2 DEF PullInv
  <2>4. ListedInv'
    BY <2>1 DEF IInv, ListedInv, Sound, Exists
  <2>5. KeptInv'
    <3> HIDE DEF Saves
    <3> QED BY <2>1 DEF IInv, KeptInv
  <2> QED BY <2>2, <2>3, <2>4, <2>5 DEF IInv
<1> QED BY <1>1, <1>2, CrashStep, AgainStep, StartStep, OthersStep DEF Next

\* Every pull, whatever the others do to the cache, the layout, the tag and
\* itself, keeps what it and the files of the layout owe each other.
THEOREM Invariance == Spec => []IInv
<1> QED BY InitIInv, NextIInv, PTL DEF Spec

(***************************************************************************)
(* What follows from it.                                                   *)
(***************************************************************************)

\* A blob that nobody writes and that was never cut is whole for its readers.
LEMMA SureIsWhole ==
    ASSUME IInv, NEW path \in Paths, path.dir = "layout", Exists(path),
           ~Writing(path), path \notin cut
    PROVE  Seen(path) = {"whole"}
<1>1. \A h \in hands : h.path = path => h.mark \notin {"open", "overtaken"}
  BY DEF Writing, Writers
<1>2. file[path] = "whole"
  BY <1>1 DEF IInv, FilesInv
<1>3. Writers(path, {"overtaken"}) = {}
  BY <1>1 DEF Writers
<1> QED BY <1>2, <1>3 DEF Seen

\* Who reads an image that index.json lists finds each blob of it, and finds it
\* whole if no writer has it open and none left it cut, for any number of pulls that
\* share the layout; but for the images listed by a pull that was misled
\* (layout/write.go:36-232, image.go:57-106).
THEOREM ListedIsWhole == Spec => []IndexedImagesComplete
<1>1. IInv => IndexedImagesComplete
  <2> SUFFICES ASSUME IInv PROVE IndexedImagesComplete
    OBVIOUS
  <2>1. ASSUME NEW img \in ToSet(index.images) \ hollow,
               NEW blob \in BlobsOf(img, LayersOf[img]), ~Writing(blob), blob \notin cut
        PROVE  Seen(blob) = {"whole"}
    <3>1. img \in Images /\ Exists(blob)
      BY <2>1, ListedTypes DEF IInv, ListedInv, Sound
    <3>2. blob \in Paths /\ blob.dir = "layout"
      BY <3>1, BlobsArePaths
    <3> QED BY <2>1, <3>1, <3>2, SureIsWhole
  <2>2. ASSUME NEW img \in ToSet(index.images)
        PROVE  FindDescriptor(img) # <<>>
    <3>1. index.images # <<>>
      BY <2>2 DEF ToSet
    <3>2. Parses
      BY <3>1 DEF IInv, KeptInv, Parses
    <3>3. FindDescriptor(img) = <<img>>
      BY <2>2, <3>2 DEF FindDescriptor
    <3> QED BY <3>3
  <2>3. ASSUME NEW img \in ToSet(index.images) \ hollow,
               NEW blob \in BlobsOf(img, LayersOf[img]), ~Writing(blob), blob \notin cut,
               ~Writing(BlobPath("manifest", img)), BlobPath("manifest", img) \notin cut
        PROVE  ReadImage(img, LayersOf[img])[blob] = {"whole"}
    <3>1. BlobPath("manifest", img) \in BlobsOf(img, LayersOf[img])
      BY DEF BlobsOf
    <3>2. Seen(BlobPath("manifest", img)) = {"whole"} /\ Seen(blob) = {"whole"}
      BY <2>1, <2>3, <3>1
    <3>3. FindDescriptor(img) # <<>>
      BY <2>2
    <3>4. ReadImage(img, LayersOf[img])[blob] = Seen(blob)
      BY <3>2, <3>3 DEF ReadImage
    <3> QED BY <3>2, <3>4
  <2>4. \A img : BlobPath("manifest", img) \in BlobsOf(img, LayersOf[img])
    BY DEF BlobsOf
  <2> HIDE DEF IInv
  <2> QED BY <2>1, <2>3, <2>4 DEF IndexedImagesComplete
<1> QED BY <1>1, Invariance, PTL

\* As long as no two saves into the layout overlapped and no crash cut one short, the
\* layout lists every image that a pull has saved (layout/write.go:109-128).
THEOREM SavedIsListed == Spec => []IndexKeepsImages
<1>1. IInv => IndexKeepsImages
  <2> SUFFICES ASSUME IInv, clean, \A p \in Procs : pull[p].pc # "indexWrite"
               PROVE  saved \subseteq ToSet(index.images)
    BY DEF IndexKeepsImages
  <2>1. CASE \E p \in Procs : pull[p].pc = "init"
    <3>1. saved = {}
      BY <2>1 DEF IInv, KeptInv
    <3> QED BY <3>1
  <2>2. CASE \A p \in Procs : pull[p].pc # "init"
    <3>1. \A p \in Procs : pull[p].pc \notin {"init", "indexWrite"}
      BY <2>2
    <3> QED BY <3>1 DEF IInv, KeptInv
  <2> QED BY <2>1, <2>2
<1> QED BY <1>1, Invariance, PTL

\* A tarball of a pull that succeeded, and that neither the cache nor a cut config
\* misled, has every layer of the image, whole and in order: no fault passes for
\* success (crane/pull.go:31-58, verify.go:33-43).
THEOREM TarballsAreWhole ==
    Spec => [](\A p \in Procs : pull[p].pc = "done" /\ ~pull[p].misled => ResultIsWhole(p))
<1>1. IInv => \A p \in Procs : pull[p].pc = "done" /\ ~pull[p].misled => ResultIsWhole(p)
  <2> SUFFICES ASSUME IInv, NEW p \in Procs, pull[p].pc = "done", ~pull[p].misled,
                      Format(p) # "oci"
               PROVE  pull[p].out = [i \in 1 .. Len(LayersIn(p)) |->
                                        [layer |-> LayersIn(p)[i], body |-> "whole"]]
    BY DEF ResultIsWhole
  <2>1. PICK s \in PullStates : s = pull[p] /\ Local(s)
    BY DEF IInv, TypeInv, PullInv
  <2>2. PICK all : all = LayersOf[s.img]
    OBVIOUS
  <2>3. WrittenFrom(s.out, all) /\ Len(s.out) = Len(all)
    BY <2>1, <2>2 DEF Local, DoneInv, Format
  <2>4. s.out \in Seq(Entries)
    BY DEF PullStates
  <2>5. /\ s.out = [i \in 1 .. Len(s.out) |-> s.out[i]]
        /\ \A i \in 1 .. Len(s.out) : s.out[i] = [layer |-> all[i], body |-> "whole"]
    BY <2>3, <2>4 DEF WrittenFrom
  <2>6. s.out = [i \in 1 .. Len(all) |-> [layer |-> all[i], body |-> "whole"]]
    BY <2>3, <2>5
  <2> QED BY <2>1, <2>2, <2>6 DEF LayersIn
<1> QED BY <1>1, Invariance, PTL

(***************************************************************************)
(* Resolving a reference.                                                  *)
(***************************************************************************)

NatLess == {nn \in Nat \X Nat : nn[1] < nn[2]}

\* A set of numbers that is not empty has a least one.
LEMMA LeastNumber ==
    ASSUME NEW S, S \subseteq Nat, S # {}
    PROVE  \E m \in S : \A n \in S : m <= n
<1>1. IsWellFoundedOn(NatLess, Nat)
  BY NatLessThanWellFounded DEF NatLess, OpToRel
<1>2. PICK m \in S : \A n \in S : ~(<<n, m>> \in NatLess)
  BY <1>1, WFMin
<1>3. ASSUME NEW n \in S
      PROVE  m <= n
  <2>1. m \in Nat /\ n \in Nat /\ ~(n < m)
    BY <1>2 DEF NatLess
  <2> QED BY <2>1
<1> QED BY <1>3

Depth == Cardinality(Docs)

\* A descent of one document more.
Descend(below, depth) ==
    [platform \in Platforms |-> [doc \in Docs |->
        IF ChildByPlatform(doc, platform) = 0 \/ depth = 0 THEN <<doc>>
        ELSE <<doc>> \o below[platform][Children[doc][ChildByPlatform(doc, platform)].doc]]]

\* What a descent of one document more is, for a document.
LEMMA DescendAt ==
    ASSUME NEW below, NEW depth, NEW platform \in Platforms, NEW doc \in Docs,
           NEW child, child = ChildByPlatform(doc, platform)
    PROVE  Descend(below, depth)[platform][doc] =
               IF child = 0 \/ depth = 0 THEN <<doc>>
               ELSE <<doc>> \o below[platform][Children[doc][child].doc]
BY DEF Descend

\* The recursion of Descents has a solution, so Descents is one.
LEMMA DescentsSolve ==
    /\ Depth \in Nat
    /\ \A n \in 0 .. Depth : Descents[n] = Descend(Descents[n - 1], n)
<1>1. Depth \in Nat
  BY RemoteImageAssumption, FS_CardinalityType DEF Depth
<1> DEFINE Solves(f, k) == f = [n \in 0 .. k |-> Descend(f[n - 1], n)]
           Unsolved == {k \in Nat : ~\E f : Solves(f, k)}
<1>2. \A x, y : Descend(x, 0) = Descend(y, 0)
  BY DEF Descend
<1>3. Unsolved = {}
  <2> SUFFICES ASSUME Unsolved # {}
               PROVE  FALSE
    OBVIOUS
  <2>1. PICK m \in Unsolved : \A k \in Unsolved : m <= k
    <3>1. Unsolved \subseteq Nat
      OBVIOUS
    <3> HIDE DEF Unsolved
    <3> QED BY <3>1, LeastNumber
  <2>2. m # 0
    <3> DEFINE f == [n \in 0 .. 0 |-> Descend(<<>>, 0)]
    <3>1. \A n \in 0 .. 0 : f[n] = Descend(f[n - 1], n)
      BY <1>2
    <3>2. Solves(f, 0)
      BY <3>1
    <3> QED BY <3>2
  <2>3. m \in Nat /\ m - 1 \in Nat /\ m - 1 \notin Unsolved
    <3>1. m \in Nat
      OBVIOUS
    <3>2. m - 1 \in Nat /\ ~(m <= m - 1)
      BY <2>2, <3>1
    <3> HIDE DEF Unsolved
    <3> QED BY <2>1, <3>1, <3>2
  <2>4. PICK f : Solves(f, m - 1)
    BY <2>3
  <2> DEFINE g == [n \in 0 .. m |-> IF n < m THEN f[n] ELSE Descend(f[m - 1], m)]
  <2>5. Solves(g, m)
    <3>1. \A n \in 0 .. m : g[n] = Descend(g[n - 1], n)
      <4> SUFFICES ASSUME NEW n \in 0 .. m
                   PROVE  g[n] = Descend(g[n - 1], n)
        OBVIOUS
      <4>1. CASE n = m
        <5>1. g[n] = Descend(f[m - 1], m) /\ g[n - 1] = f[m - 1]
          BY <2>3, <4>1
        <5> QED BY <5>1, <4>1, <2>2
      <4>2. CASE n # m
        <5>1. n \in 0 .. m - 1 /\ g[n] = f[n] /\ (n # 0 => g[n - 1] = f[n - 1])
          BY <2>3, <4>2
        <5>2. f[n] = Descend(f[n - 1], n)
          BY <2>4, <5>1
        <5> QED BY <1>2, <5>1, <5>2
      <4> QED BY <4>1, <4>2
    <3> QED BY <3>1
  <2> QED BY <2>5
<1>4. PICK f : Solves(f, Depth)
  BY <1>1, <1>3
<1>5. Solves(Descents, Depth)
  <2> HIDE DEF Unsolved
  <2> QED BY <1>4 DEF Descents, Depth, Descend
<1> QED BY <1>1, <1>5

\* childByPlatform is the first child of the platform.
LEMMA ChildFits ==
    ASSUME NEW doc, NEW platform, ChildByPlatform(doc, platform) # 0
    PROVE  /\ doc \in Indexes /\ ChildByPlatform(doc, platform) \in DOMAIN Children[doc]
           /\ FirstFits(Children[doc], ChildByPlatform(doc, platform), platform)
<1> DEFINE all == Children[doc]
           fit == {n \in 1 .. Len(all) : MatchesPlatform(all[n].platform, platform)}
           child == ChildByPlatform(doc, platform)
<1>1. doc \in Indexes /\ fit # {} /\ child = CHOOSE n \in fit : \A k \in fit : n <= k
  BY DEF ChildByPlatform, SelectInSeq, Min
<1>2. all \in Seq(ToSet(all))
  BY <1>1, RemoteImageAssumption
<1>3. DOMAIN all = 1 .. Len(all) /\ Len(all) \in Nat
  BY <1>2
<1>4. \E n \in fit : \A k \in fit : n <= k
  <2>1. fit \subseteq Nat
    OBVIOUS
  <2> HIDE DEF fit
  <2> QED BY <1>1, <2>1, LeastNumber
<1>5. child \in fit /\ \A k \in fit : child <= k
  <2> HIDE DEF fit, child
  <2> QED BY <1>1, <1>4
<1>6. \A k \in 1 .. (child - 1) : k \notin fit
  <2> SUFFICES ASSUME NEW k \in 1 .. (child - 1)
               PROVE  k \notin fit
    OBVIOUS
  <2>1. child \in Nat /\ ~(child <= k)
    BY <1>5
  <2> QED BY <1>5, <2>1
<1>7. \A k \in 1 .. (child - 1) : ~MatchesPlatform(all[k].platform, platform)
  <2>1. \A k \in 1 .. (child - 1) : k \in 1 .. Len(all)
    BY <1>3, <1>5
  <2> QED BY <1>6, <2>1
<1> QED BY <1>1, <1>3, <1>5, <1>7 DEF FirstFits

\* Every descent from what is in a closed set of documents ends in it.
LEMMA DescentsStay ==
    ASSUME NEW platform \in Platforms, NEW docs \in SUBSET Docs,
           \A x \in docs \cap Indexes : \A n \in DOMAIN Children[x] :
               FirstFits(Children[x], n, platform) => Children[x][n].doc \in docs
    PROVE  \A n \in 0 .. Depth : \A x \in docs :
               LET descent == Descents[n][platform][x]
               IN  descent \in Seq(Docs) \ {<<>>} /\ Last(descent) \in docs
<1> DEFINE Stays(descent) == descent \in Seq(Docs) \ {<<>>} /\ Last(descent) \in docs
           Astray == {n \in 0 .. Depth : ~\A x \in docs : Stays(Descents[n][platform][x])}
<1>1. ASSUME Astray # {}
      PROVE  FALSE
  <2>1. PICK m \in Astray : \A k \in Astray : m <= k
    <3>1. Astray \subseteq Nat
      BY DescentsSolve
    <3> HIDE DEF Astray
    <3> QED BY <1>1, <3>1, LeastNumber
  <2>2. m \in 0 .. Depth /\ Depth \in Nat
    BY DescentsSolve
  <2>3. \A x \in docs : Stays(Descents[m][platform][x])
    <3> SUFFICES ASSUME NEW x \in docs
                 PROVE  Stays(Descents[m][platform][x])
      OBVIOUS
    <3>1. PICK child : child = ChildByPlatform(x, platform)
      OBVIOUS
    <3>2. Descents[m] = Descend(Descents[m - 1], m)
      BY <2>2, DescentsSolve
    <3>3. Descents[m][platform][x] =
              IF child = 0 \/ m = 0 THEN <<x>>
              ELSE <<x>> \o Descents[m - 1][platform][Children[x][child].doc]
      <4>1. PICK below : below = Descents[m - 1]
        OBVIOUS
      <4>2. x \in Docs /\ Descents[m] = Descend(below, m)
        BY <3>2, <4>1
      <4>3. Descend(below, m)[platform][x] =
                IF child = 0 \/ m = 0 THEN <<x>>
                ELSE <<x>> \o below[platform][Children[x][child].doc]
        <5> HIDE DEF Astray
        <5> QED BY <3>1, <4>2, DescendAt
      <4> HIDE DEF Astray
      <4> QED BY <4>1, <4>2, <4>3, Zenon
    <3>4. CASE child = 0 \/ m = 0
      <4>1. Descents[m][platform][x] = <<x>>
        BY <3>3, <3>4
      <4>2. <<x>> \in Seq(Docs) /\ <<x>> # <<>> /\ Last(<<x>>) = x
        BY DEF Last
      <4> QED BY <4>1, <4>2
    <3>5. CASE child # 0 /\ m # 0
      <4>1. PICK y : y = Children[x][child].doc
        OBVIOUS
      <4>2. y \in docs
        BY <3>1, <3>5, <4>1, ChildFits
      <4>3. m - 1 \in 0 .. Depth /\ ~(m <= m - 1)
        BY <2>2, <3>5
      <4>4. m - 1 \notin Astray
        <5> HIDE DEF Astray
        <5> QED BY <2>1, <4>3
      <4>5. PICK rest : rest = Descents[m - 1][platform][y]
        OBVIOUS
      <4>6. rest \in Seq(Docs) /\ rest # <<>> /\ Last(rest) \in docs
        BY <4>2, <4>3, <4>4, <4>5
      <4>7. Descents[m][platform][x] = <<x>> \o rest
        BY <3>3, <3>5, <4>1, <4>5
      <4>8. /\ <<x>> \o rest \in Seq(Docs) /\ <<x>> \o rest # <<>>
            /\ Last(<<x>> \o rest) = Last(rest)
        <5>1. x \in Docs /\ <<x>> \in Seq(Docs) /\ Len(<<x>>) = 1
          OBVIOUS
        <5>2. Len(rest) \in Nat \ {0}
          BY <4>6
        <5>3. <<x>> \o rest \in Seq(Docs) /\ Len(<<x>> \o rest) = 1 + Len(rest)
          BY <4>6, <5>1
        <5>4. (<<x>> \o rest)[1 + Len(rest)] = rest[Len(rest)]
          BY <4>6, <5>1, <5>2
        <5> QED BY <5>2, <5>3, <5>4 DEF Last
      <4> QED BY <4>6, <4>7, <4>8
    <3> QED BY <3>4, <3>5
  <2> QED BY <2>1, <2>3
<1> QED BY <1>1

\* What a reference is resolved to, when it is an image, is the one below it for the platform.
LEMMA ResolvedFits ==
    ASSUME NEW doc \in Docs, NEW platform \in Platforms, Resolved(doc, platform) \in Images
    PROVE  Fits(doc, platform, Resolved(doc, platform))
<1> SUFFICES ASSUME NEW docs \in SUBSET Docs, doc \in docs,
                    \A x \in docs \cap Indexes : \A n \in DOMAIN Children[x] :
                        FirstFits(Children[x], n, platform) => Children[x][n].doc \in docs
             PROVE  Resolved(doc, platform) \in docs
  BY DEF Fits
<1>1. Depth \in 0 .. Depth
  BY DescentsSolve
<1> QED BY <1>1, DescentsStay DEF Resolved, DocsTo, Depth

(***************************************************************************)
(* The image that a pull saves.                                            *)
(***************************************************************************)

\* What a pull resolves, and what it has resolved, is what the tag named since it began.
FitInv(r) ==
    /\ r.pc # "idle" => r.kind \in UNION Range(Kinds)
    /\ r.pc = "get" => tag \in r.since
    /\ r.pc = "resolve" => r.doc \in r.since
    /\ r.img # None => \E doc \in r.since : Fits(doc, r.kind.platform, r.img)

AllFit == \A p \in Procs : FitInv(pull[p])

\* A step of a pull that has its image, or fails to get it.
Carries(s, t) ==
    /\ s.pc # "idle" /\ t.pc \notin {"get", "resolve"}
    /\ t.kind = s.kind /\ t.since = s.since /\ t.img = s.img

\* The pull of p alone takes a step.
Moves(p) ==
    /\ UNCHANGED tag
    /\ \A q \in Procs \ {p} : pull'[q] = pull[q]
    /\ Carries(pull[p], pull'[p])

LEMMA MovesFits ==
    ASSUME AllFit, NEW p \in Procs, Moves(p)
    PROVE  AllFit'
<1>1. UNCHANGED tag
  BY DEF Moves
<1>2. ASSUME NEW q \in Procs
      PROVE  FitInv(pull[q])'
  <2>1. PICK s, t : s = pull[q] /\ t = pull'[q]
    OBVIOUS
  <2>2. FitInv(s)
    BY <2>1 DEF AllFit
  <2>3. s = t \/ Carries(s, t)
    BY <2>1 DEF Moves
  <2>4. FitInv(t)'
    BY <1>1, <2>2, <2>3 DEF FitInv, Carries
  <2> QED BY <2>1, <2>4 DEF FitInv
<1> QED BY <1>2 DEF AllFit

\* A pull is replaced.
LEMMA RestFits ==
    ASSUME TypeInv, AllFit, NEW p \in Procs, NEW r, pull' = [pull EXCEPT ![p] = r],
           UNCHANGED tag, FitInv(r)'
    PROVE  AllFit'
<1>1. pull'[p] = r /\ \A q \in Procs \ {p} : pull'[q] = pull[q]
  BY DEF TypeInv
<1>2. ASSUME NEW q \in Procs
      PROVE  FitInv(pull[q])'
  <2>1. PICK s, t : s = pull[q] /\ t = pull'[q]
    OBVIOUS
  <2>2. FitInv(s) /\ (t = s \/ t = r)
    BY <1>1, <2>1 DEF AllFit
  <2>3. FitInv(t)'
    BY <2>2 DEF FitInv
  <2> QED BY <2>1, <2>3 DEF FitInv
<1> QED BY <1>2 DEF AllFit

\* The ways a pull goes on.
LEMMA CarriedBy ==
    ASSUME TypeInv, NEW p \in Procs, UNCHANGED tag, pull[p].pc # "idle",
           \/ Fails(p) \/ Succeeds(p)
           \/ \E to : to \notin {"get", "resolve"} /\ Goes(p, to)
    PROVE  Moves(p)
<1>1. PICK s \in PullStates : s = pull[p]
  BY DEF TypeInv
<1>2. pull \in [Procs -> PullStates]
  BY DEF TypeInv
<1>3. CASE Fails(p)
  BY <1>1, <1>2, <1>3, IdleState DEF Fails, Failed, Moves, Carries, PullStates
<1>4. CASE Succeeds(p)
  BY <1>1, <1>2, <1>4, IdleState DEF Succeeds, Succeeded, Moves, Carries, PullStates
<1>5. CASE \E to : to \notin {"get", "resolve"} /\ Goes(p, to)
  BY <1>1, <1>2, <1>5 DEF Goes, Moves, Carries, PullStates
<1> QED BY <1>3, <1>4, <1>5

LEMMA SimpleMoves ==
    ASSUME TypeInv, NEW p \in Procs,
           \/ Open(p) \/ CreateLayout(p) \/ InitLayout(p) \/ WriteRawConfig(p) \/ PutBlob(p)
           \/ (\E kind \in {"config", "manifest"} : CreateFile(p, kind))
           \/ WriteConfig(p) \/ WriteManifest(p) \/ ReadIndex(p) \/ OpenIndex(p) \/ WriteIndex(p)
    PROVE  Moves(p)
<1>1. PICK s \in PullStates : s = pull[p]
  BY DEF TypeInv
<1>2. pull \in [Procs -> PullStates]
  BY DEF TypeInv
<1>3. CASE Open(p)
  BY <1>3, CarriedBy DEF Open, remoteVars
<1>4. CASE InitLayout(p)
  BY <1>4, CarriedBy DEF InitLayout, remoteVars
<1>5. CASE WriteRawConfig(p)
  <2>1. UNCHANGED tag /\ pull[p].pc # "idle"
    BY <1>5 DEF WriteRawConfig, remoteVars
  <2>2. CASE Fails(p)
    BY <2>1, <2>2, CarriedBy
  <2>3. CASE ~Fails(p)
    BY <1>1, <1>2, <1>5, <2>1, <2>3 DEF WriteRawConfig, Moves, Carries, PullStates
  <2> QED BY <2>2, <2>3
<1>6. CASE PutBlob(p)
  <2>1. UNCHANGED tag /\ s.pc \in {"config", "manifest"}
    BY <1>1, <1>6 DEF PutBlob, remoteVars
  <2>2. PICK to \in {"configCreate", "manifest", "manifestCreate", "append"}, misled \in BOOLEAN :
           pull' = [pull EXCEPT ![p].pc = to, ![p].misled = misled]
    BY <1>1, <1>6, <2>1 DEF PutBlob, PullStates
  <2> QED BY <1>1, <1>2, <2>1, <2>2 DEF Moves, Carries, PullStates
<1>7. CASE WriteConfig(p)
  BY <1>7, CarriedBy DEF WriteConfig, remoteVars
<1>8. CASE WriteManifest(p)
  BY <1>8, CarriedBy DEF WriteManifest, remoteVars
<1>9. CASE ReadIndex(p)
  <2>1. UNCHANGED tag /\ pull[p].pc # "idle"
    BY <1>9 DEF ReadIndex, remoteVars
  <2>2. CASE Fails(p)
    BY <2>1, <2>2, CarriedBy
  <2>3. CASE ~Fails(p)
    BY <1>1, <1>2, <1>9, <2>1, <2>3 DEF ReadIndex, Moves, Carries, PullStates
  <2> QED BY <2>2, <2>3
<1>10. CASE OpenIndex(p)
  BY <1>10, CarriedBy DEF OpenIndex, remoteVars
<1>11. CASE WriteIndex(p)
  BY <1>11, CarriedBy DEF WriteIndex, remoteVars
<1>12. CASE CreateLayout(p)
  BY <1>12, CarriedBy DEF CreateLayout, remoteVars
<1>13. ASSUME NEW kind \in {"config", "manifest"}, CreateFile(p, kind)
       PROVE  Moves(p)
  BY <1>13, CarriedBy DEF CreateFile, remoteVars
<1> QED BY <1>3, <1>4, <1>5, <1>6, <1>7, <1>8, <1>9, <1>10, <1>11, <1>12, <1>13

LEMMA LayersMoves ==
    ASSUME TypeInv, NEW p \in Procs,
           FetchConfig(p) \/ GetCompressed(p) \/ GetUncompressed(p) \/ GotLayers(p) \/ Wait(p)
    PROVE  Moves(p)
<1>1. PICK s \in PullStates : s = pull[p]
  BY DEF TypeInv
<1>2. pull \in [Procs -> PullStates]
  BY DEF TypeInv
<1>3. CASE FetchConfig(p)
  <2>1. UNCHANGED tag
    BY <1>3 DEF FetchConfig, Answered, Failing, remoteVars
  <2>2. s.pc \in {"diffid", "rawconfig", "config"}
    BY <1>1, <1>3 DEF FetchConfig
  <2>3. CASE pull' = [pull EXCEPT ![p].conf = "whole"]
    BY <1>1, <1>2, <2>1, <2>2, <2>3 DEF Moves, Carries, PullStates
  <2>4. CASE \E kept \in {"none", "part"} :
                 pull' = [pull EXCEPT ![p] = Failed([@ EXCEPT !.conf = kept])]
    <3>1. PICK kept : pull' = [pull EXCEPT ![p] = Failed([pull[p] EXCEPT !.conf = kept])]
      BY <2>4
    <3>2. PICK r : r = [s EXCEPT !.conf = kept]
      OBVIOUS
    <3>3. r.kind = s.kind /\ r.since = s.since /\ r.img = s.img
      BY <3>2 DEF PullStates
    <3>4. pull' = [pull EXCEPT ![p] = Failed(r)]
      BY <1>1, <3>1, <3>2
    <3> QED BY <1>1, <1>2, <2>1, <2>2, <3>3, <3>4, IdleState
            DEF Failed, Moves, Carries, PullStates
  <2> QED BY <1>3, <2>3, <2>4 DEF FetchConfig
<1>4. CASE GetCompressed(p)
  <2>1. UNCHANGED tag /\ pull[p].pc = "layers"
    BY <1>4 DEF GetCompressed, remoteVars
  <2>2. CASE Goes(p, "diffid")
    BY <2>1, <2>2, CarriedBy
  <2>3. CASE ~Goes(p, "diffid")
    <3>1. PICK layer : layer = LayersIn(p)[pull[p].at]
      OBVIOUS
    <3>2. PICK content : pull' = [pull EXCEPT
                            ![p].srcs = @ \o Appended(layer, "digest", content),
                            ![p].at = @ + 1,
                            ![p].misled = @ \/ Misleads("digest", content)]
      BY <1>4, <2>3, <3>1 DEF GetCompressed
    <3> QED BY <1>1, <1>2, <2>1, <3>2 DEF Moves, Carries, PullStates
  <2> QED BY <2>2, <2>3
<1>5. CASE GetUncompressed(p)
  <2>1. UNCHANGED tag /\ pull[p].pc = "diffid"
    BY <1>5 DEF GetUncompressed, remoteVars
  <2>2. CASE Fails(p)
    BY <2>1, <2>2, CarriedBy
  <2>3. CASE ~Fails(p)
    <3>1. PICK layer : layer = LayersIn(p)[pull[p].at]
      OBVIOUS
    <3>2. PICK content : pull' = [pull EXCEPT
                            ![p].pc = "layers",
                            ![p].srcs = @ \o Appended(layer, "diffid", content),
                            ![p].at = @ + 1,
                            ![p].misled = @ \/ Misleads("diffid", content)]
      BY <1>5, <2>3, <3>1 DEF GetUncompressed
    <3> QED BY <1>1, <1>2, <2>1, <3>2 DEF Moves, Carries, PullStates
  <2> QED BY <2>2, <2>3
<1>6. CASE GotLayers(p)
  <2>1. UNCHANGED tag /\ pull[p].pc = "layers"
    BY <1>6 DEF GotLayers, remoteVars
  <2>2. CASE Fails(p)
    BY <2>1, <2>2, CarriedBy
  <2>3. PICK srcs : srcs = IF pull[p].kind.cached THEN pull[p].srcs
                           ELSE [i \in 1 .. Len(LayersIn(p)) |-> FromRemote(LayersIn(p)[i])]
    OBVIOUS
  <2>4. PICK jobs : jobs = [i \in 1 .. Len(srcs) |-> "todo"]
    OBVIOUS
  <2>5. \/ Fails(p)
        \/ pull' = [pull EXCEPT ![p].pass = 2, ![p].srcs = <<>>, ![p].at = 1]
        \/ pull' = [pull EXCEPT ![p].pc = "copy", ![p].srcs = srcs, ![p].jobs = jobs]
    BY <1>6, <2>3, <2>4 DEF GotLayers
  <2>6. CASE pull' = [pull EXCEPT ![p].pass = 2, ![p].srcs = <<>>, ![p].at = 1]
    BY <1>1, <1>2, <2>1, <2>6 DEF Moves, Carries, PullStates
  <2>7. CASE pull' = [pull EXCEPT ![p].pc = "copy", ![p].srcs = srcs, ![p].jobs = jobs]
    BY <1>1, <1>2, <2>1, <2>7 DEF Moves, Carries, PullStates
  <2> QED BY <2>2, <2>5, <2>6, <2>7
<1>7. CASE Wait(p)
  BY <1>7, CarriedBy DEF Wait, remoteVars
<1> QED BY <1>3, <1>4, <1>5, <1>6, <1>7

LEMMA LayerMoves ==
    ASSUME TypeInv, NEW p \in Procs, LayerStep(p)
    PROVE  Moves(p)
<1>1. PICK s \in PullStates : s = pull[p]
  BY DEF TypeInv
<1>2. pull \in [Procs -> PullStates]
  BY DEF TypeInv
<1>3. PICK i : \/ SkipLayer(p, i) \/ OpenLayer(p, i) \/ WriteBlob(p, i) \/ CreateBlob(p, i)
               \/ CopyLayer(p, i)
  BY DEF LayerStep
<1>4. s.pc = "copy"
  BY <1>1, <1>3 DEF SkipLayer, OpenLayer, WriteBlob, CreateBlob, CopyLayer, Turn
<1>5. UNCHANGED tag
  BY <1>3 DEF SkipLayer, OpenLayer, WriteBlob, CreateBlob, CopyLayer, Answered, Failing, remoteVars
<1>6. ASSUME NEW to, JobGoes(p, i, to)
      PROVE  Moves(p)
  BY <1>1, <1>2, <1>4, <1>5, <1>6 DEF JobGoes, Moves, Carries, PullStates
<1>7. CASE SkipLayer(p, i)
  BY <1>1, <1>2, <1>4, <1>5, <1>7 DEF SkipLayer, Moves, Carries, PullStates
<1>8. CASE OpenLayer(p, i)
  BY <1>6, <1>8 DEF OpenLayer
<1>9. CASE WriteBlob(p, i)
  BY <1>6, <1>9 DEF WriteBlob
<1>10. CASE CreateBlob(p, i)
  BY <1>6, <1>10 DEF CreateBlob
<1>11. CASE CopyLayer(p, i)
  <2>1. \/ JobGoes(p, i, "failed")
        \/ \E body, ends :
              pull' = [pull EXCEPT
                  ![p].jobs[i] = ends,
                  ![p].out = IF Format(p) = "oci" \/ ends = "sized" THEN @
                             ELSE Append(@, [layer |-> Source(p, i).layer, body |-> body]),
                  ![p].misled = @ \/ body # "whole"]
    <3>1. CASE Source(p, i).from = "cache"
      BY <1>11, <3>1 DEF CopyLayer
    <3>2. CASE Source(p, i).from # "cache"
      BY <1>11, <3>2 DEF CopyLayer
    <3> QED BY <3>1, <3>2
  <2>2. CASE JobGoes(p, i, "failed")
    BY <1>6, <2>2
  <2>3. ASSUME NEW body, NEW ends,
               pull' = [pull EXCEPT
                  ![p].jobs[i] = ends,
                  ![p].out = IF Format(p) = "oci" \/ ends = "sized" THEN @
                             ELSE Append(@, [layer |-> Source(p, i).layer, body |-> body]),
                  ![p].misled = @ \/ body # "whole"]
        PROVE  Moves(p)
    BY <1>1, <1>2, <1>4, <1>5, <2>3 DEF Moves, Carries, PullStates
  <2> QED BY <2>1, <2>2, <2>3
<1> QED BY <1>3, <1>7, <1>8, <1>9, <1>10, <1>11

LEMMA StartFits ==
    ASSUME TypeInv, AllFit, NEW p \in Procs, NEW kind \in Kinds[p], Start(p, kind)
    PROVE  AllFit'
<1>1. PICK r : r = [Idle EXCEPT !.pc = "get", !.kind = kind, !.since = {tag}]
  OBVIOUS
<1>2. r.pc = "get" /\ r.kind = kind /\ r.since = {tag} /\ r.img = None
  BY <1>1, IdleState DEF PullStates, Idle
<1>3. UNCHANGED tag /\ pull' = [pull EXCEPT ![p] = r]
  BY <1>1 DEF Start, remoteVars
<1>4. kind \in UNION Range(Kinds)
  BY PullsAssumption
<1>5. FitInv(r)'
  BY <1>2, <1>3, <1>4 DEF FitInv
<1> QED BY <1>3, <1>5, RestFits

LEMMA GetFits ==
    ASSUME TypeInv, AllFit, NEW p \in Procs, Get(p)
    PROVE  AllFit'
<1>1. PICK s \in PullStates : s = pull[p] /\ s.pc = "get"
  BY DEF TypeInv, Get
<1>2. UNCHANGED tag
  BY DEF Get, Answered, Failing, remoteVars
<1>3. CASE Fails(p)
  <2>1. Moves(p)
    BY <1>1, <1>2, <1>3, CarriedBy
  <2> QED BY <2>1, MovesFits
<1>4. CASE pull' = [pull EXCEPT ![p].pc = "resolve", ![p].doc = tag]
  <2>1. PICK r : r = [s EXCEPT !.pc = "resolve", !.doc = tag]
    OBVIOUS
  <2>2. pull' = [pull EXCEPT ![p] = r]
    BY <1>1, <1>4, <2>1 DEF TypeInv
  <2>3. r.pc = "resolve" /\ r.doc = tag /\ r.kind = s.kind /\ r.since = s.since /\ r.img = s.img
    BY <2>1 DEF PullStates
  <2>4. FitInv(r)'
    BY <1>1, <1>2, <2>3 DEF AllFit, FitInv
  <2> QED BY <1>2, <2>2, <2>4, RestFits
<1> QED BY <1>3, <1>4 DEF Get

LEMMA ResolveFits ==
    ASSUME TypeInv, AllFit, NEW p \in Procs, Resolve(p)
    PROVE  AllFit'
<1>1. PICK s \in PullStates : s = pull[p] /\ s.pc = "resolve"
  BY DEF TypeInv, Resolve
<1>2. UNCHANGED tag
  BY DEF Resolve, Answered, Failing, remoteVars
<1>3. CASE Fails(p)
  <2>1. Moves(p)
    BY <1>1, <1>2, <1>3, CarriedBy
  <2> QED BY <2>1, MovesFits
<1>4. CASE ~Fails(p)
  <2>1. PICK img : img = Resolved(s.doc, s.kind.platform)
    OBVIOUS
  <2>2. /\ img \in Images
        /\ pull' = [pull EXCEPT ![p].pc = FirstStep(s.kind.fmt), ![p].doc = None, ![p].img = img]
    BY <1>1, <1>4, <2>1 DEF Resolve, ResolvesToImage, Format
  <2>3. PICK r : r = [s EXCEPT !.pc = FirstStep(s.kind.fmt), !.doc = None, !.img = img]
    OBVIOUS
  <2>4. pull' = [pull EXCEPT ![p] = r]
    BY <1>1, <2>2, <2>3 DEF TypeInv
  <2>5. /\ r.pc \in {"open", "rawconfig"}
        /\ r.kind = s.kind /\ r.since = s.since /\ r.img = img
    BY <2>3 DEF PullStates, FirstStep
  <2>6. s.doc \in s.since /\ s.since \subseteq Docs /\ s.kind \in UNION Range(Kinds)
    BY <1>1 DEF AllFit, FitInv, PullStates
  <2>7. s.kind.platform \in Platforms
    BY <2>6, PullsAssumption DEF Range, Platforms
  <2>8. Fits(s.doc, s.kind.platform, img)
    BY <2>1, <2>2, <2>6, <2>7, ResolvedFits
  <2>9. FitInv(r)'
    BY <1>2, <2>5, <2>6, <2>8 DEF FitInv
  <2> QED BY <1>2, <2>4, <2>9, RestFits
<1> QED BY <1>3, <1>4

LEMMA AgainFits ==
    ASSUME TypeInv, AllFit, NEW p \in Procs, Again(p)
    PROVE  AllFit'
<1>1. PICK s \in PullStates : s = pull[p] /\ s.pc = "failed"
  BY DEF TypeInv, Again
<1>2. UNCHANGED tag
  BY DEF Again, remoteVars
<1>3. PICK r : r = [Idle EXCEPT !.pc = FirstStep(s.kind.fmt), !.kind = s.kind, !.since = s.since,
                                !.img = s.img, !.conf = s.conf]
  OBVIOUS
<1>4. pull' = [pull EXCEPT ![p] = r]
  BY <1>1, <1>3 DEF Again, Format
<1>5. /\ r.pc \in {"open", "rawconfig"}
      /\ r.kind = s.kind /\ r.since = s.since /\ r.img = s.img
  BY <1>3, IdleState DEF PullStates, FirstStep
<1>6. FitInv(r)'
  BY <1>1, <1>2, <1>5 DEF AllFit, FitInv
<1> QED BY <1>2, <1>4, <1>6, RestFits

LEMMA CrashFits ==
    ASSUME TypeInv, AllFit, NEW p \in Procs, Crash(p)
    PROVE  AllFit'
<1>1. UNCHANGED tag /\ pull' = [pull EXCEPT ![p] = Idle]
  BY DEF Crash, remoteVars
<1>2. PICK r : r = Idle
  OBVIOUS
<1>3. r.pc = "idle" /\ r.img = None
  BY <1>2 DEF Idle
<1>4. FitInv(r)'
  BY <1>3 DEF FitInv
<1> QED BY <1>1, <1>2, <1>4, RestFits

LEMMA OthersFit ==
    ASSUME TypeInv, AllFit, Others
    PROVE  AllFit'
<1>1. CASE Delete /\ UNCHANGED pull
  BY <1>1 DEF Delete, AllFit, FitInv
<1>2. CASE MoveTag /\ pull' = [p \in Procs |-> [pull[p] EXCEPT !.since = @ \cup {tag'}]]
  <2>1. PICK named : named = tag'
    OBVIOUS
  <2> SUFFICES ASSUME NEW q \in Procs
               PROVE  FitInv(pull[q])'
    BY DEF AllFit
  <2>2. PICK s \in PullStates : s = pull[q]
    BY DEF TypeInv
  <2>3. PICK t : t = [s EXCEPT !.since = @ \cup {named}]
    OBVIOUS
  <2>4. pull'[q] = t
    BY <1>2, <2>1, <2>2, <2>3
  <2>5. /\ t.pc = s.pc /\ t.kind = s.kind /\ t.doc = s.doc /\ t.img = s.img
        /\ t.since = s.since \cup {named}
    BY <2>3 DEF PullStates
  <2>6. FitInv(s)
    BY <2>2 DEF AllFit
  <2>7. FitInv(t)'
    BY <2>1, <2>5, <2>6 DEF FitInv
  <2> QED BY <2>4, <2>7 DEF FitInv
<1> QED BY <1>1, <1>2 DEF Others

LEMMA FitInvariance == Spec => []AllFit
<1>1. Init => AllFit
  <2>1. Idle.pc = "idle" /\ Idle.img = None
    BY DEF Idle
  <2> QED BY <2>1 DEF Init, AllFit, FitInv
<1>2. TypeInv /\ AllFit /\ [Next]_vars => AllFit'
  <2> SUFFICES ASSUME TypeInv, AllFit, [Next]_vars
               PROVE  AllFit'
    OBVIOUS
  <2>1. ASSUME NEW p \in Procs, Step(p)
        PROVE  AllFit'
    <3>1. \/ Get(p) \/ Resolve(p) \/ Moves(p)
      BY <2>1, SimpleMoves, LayersMoves, LayerMoves DEF Step
    <3> QED BY <3>1, GetFits, ResolveFits, MovesFits
  <2>2. CASE UNCHANGED vars
    BY <2>2 DEF vars, pullVars, remoteVars, AllFit, FitInv
  <2> QED BY <2>1, <2>2, CrashFits, AgainFits, StartFits, OthersFit DEF Next
<1>3. IInv => TypeInv
  BY DEF IInv
<1> QED BY <1>1, <1>2, <1>3, Invariance, PTL DEF Spec

\* A pull that succeeded, and was not misled by the cache or by a cut config, has the
\* image that the tag named at some moment, for the platform, whole: no fault passes
\* for success (crane/pull.go:31-58, remote/index.go:117-159, verify.go:33-43).
THEOREM SuccessIsIt == Spec => []SuccessIsTheImage
<1>1. IInv /\ AllFit => \A p \in Procs : pull[p].pc = "done" /\ ~pull[p].misled => ResultFits(p)
  <2> SUFFICES ASSUME IInv, AllFit, NEW p \in Procs, pull[p].pc = "done"
               PROVE  ResultFits(p)
    OBVIOUS
  <2>1. pull[p].img \in Images
    BY DEF IInv, PullInv, Local, GatherInv, ImageLabels
  <2>2. pull[p].img # None
    BY <2>1, PullsAssumption
  <2> QED BY <2>2 DEF AllFit, FitInv, ResultFits
<1>2. /\ IInv /\ AllFit
      /\ \A p \in Procs : pull[p].pc = "done" /\ ~pull[p].misled => ResultIsWhole(p)
      => SuccessIsTheImage
  BY <1>1 DEF SuccessIsTheImage
<1> QED BY <1>2, Invariance, FitInvariance, TarballsAreWhole, PTL
=============================================================================
