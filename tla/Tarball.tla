------------------------------ MODULE Tarball -------------------------------
(***************************************************************************)
(* Image tarballs: the files that pkg/v1/tarball and pkg/legacy/tarball    *)
(* write for some references, in order, and what tarball.Image makes of a  *)
(* tar.  A layer stands for the digest of its blob, and a config, which    *)
(* has an id and diff IDs, for its own digest.                             *)
(***************************************************************************)
EXTENDS Naturals, Sequences, SequencesExt, FiniteSets, FiniteSetsExt

CONSTANTS
    LayersOf, ConfigOf,     \* of each image; two images may be equal
    Told,                   \* how many entries of its history have a layer
    DiffOf, SizeOf,         \* of each layer
    Foreign,                \* the layers that must not be distributed
    ConfigSize, ManifestSize,
    Block                   \* the size of a block of a tar file

ASSUME TarballAssumption ==
    /\ Block \in Nat \ {0} /\ ConfigSize \in Nat /\ ManifestSize \in Nat
    /\ DOMAIN ConfigOf = DOMAIN LayersOf
    /\ \A i \in DOMAIN LayersOf :
          /\ LayersOf[i] \in Seq(ToSet(LayersOf[i]))
          /\ \A x \in ToSet(LayersOf[i]) : SizeOf[x] \in Nat
          /\ ConfigOf[i].diffids = [n \in 1..Len(LayersOf[i]) |-> DiffOf[LayersOf[i][n]]]

(***************************************************************************)
(* References to images.  A reference is [kind, repo, tag]; the tag may be *)
(* left out.                                                               *)
(***************************************************************************)

\* dedupRefToImage: the images, and the tags of each.
ImagesIn(refs) == {refs[ref] : ref \in DOMAIN refs}
TagsOf(refs, i) == {ref \in DOMAIN refs : refs[ref] = i /\ ref.kind = "tag"}

\* Tag.Name: several ways to write a tag are the same.
Name(ref) == <<ref.repo, IF ref.tag = "" THEN "latest" ELSE ref.tag>>

\* BlobToDiffID, of a blob that the manifest describes.
BlobToDiffID(i, layer) ==
    ConfigOf[i].diffids[SelectInSeq(LayersOf[i], LAMBDA x : x = layer)]

\* updateLayerSources: the descriptors of the foreign layers, by diff ID; the last one
\* stays.
LayerSources(i) ==
    LET last(d) ==
            SelectLastInSeq(LayersOf[i], LAMBDA x : x \in Foreign /\ BlobToDiffID(i, x) = d)
    IN  [d \in {BlobToDiffID(i, x) : x \in ToSet(LayersOf[i]) \cap Foreign} |->
            LayersOf[i][last(d)]]

Descriptor(refs, i, files) ==
    [config |-> <<"config", ConfigOf[i]>>, tags |-> TagsOf(refs, i), layers |-> files,
     sources |-> LayerSources(i)]

\* A file that is written; what it is made from may have to be fetched.
File(name, data, size, fetched) ==
    [name |-> name, data |-> data, size |-> size, fetched |-> fetched]

ConfigFile(i) == File(<<"config", ConfigOf[i]>>, ConfigOf[i], ConfigSize, TRUE)
ManifestFile(m) == File(<<"manifest.json">>, m, ManifestSize, FALSE)

(***************************************************************************)
(* tarball.MultiRefWrite.                                                  *)
(***************************************************************************)

LayerName(layer) == <<"layer", layer>>

\* calculateManifest; it sorts by tags, here the order is any.
CalculateManifest(refs, order) ==
    [n \in 1..Len(order) |->
        Descriptor(refs, order[n], [k \in 1..Len(LayersOf[order[n]]) |->
                                       LayerName(LayersOf[order[n]][k])])]

\* Mutant: layers of one diff ID are one.
SameDiffID(x, y) ==
    /\ x.name[1] = y.name[1]
    /\ IF x.name[1] = "layer" THEN DiffOf[x.name[2]] = DiffOf[y.name[2]] ELSE x.name = y.name

SameFile(x, y) == x.name = y.name

\* Of the files of all images: a layer is written once, however many images have it,
\* a config as often as an image has it.
WrittenOnce(files) ==
    LET first(n) == \/ files[n].name[1] = "config"
                    \/ \A k \in 1..(n - 1) : ~SameFile(files[k], files[n])
        once[n \in 0..Len(files)] ==
            IF n = 0 THEN <<>>
            ELSE IF first(n) THEN Append(once[n - 1], files[n]) ELSE once[n - 1]
    IN  once[Len(files)]

\* The files of an image.
LayerFile(layer) == File(LayerName(layer), <<"gzip", layer>>, SizeOf[layer], TRUE)
ImageFiles(i) ==
    <<ConfigFile(i)>> \o [n \in 1..Len(LayersOf[i]) |-> LayerFile(LayersOf[i][n])]

\* writeImagesToTar: the images in some order, and the manifest in the end.
WriteImagesToTar(refs, order, sorted) ==
    LET files == FlattenSeq([n \in 1..Len(order) |-> ImageFiles(order[n])])
    IN  Append(WrittenOnce(files), ManifestFile(CalculateManifest(refs, sorted)))

Padding(size) == (Block - (size % Block)) % Block

\* Mutant: without the header.
SizeWithoutHeader(size) == size + Padding(size)

CalculateSingleFileInTarSize(size) == size + Padding(size) + Block

\* calculateTarballSize counts a layer as often as it is used.
CalculateTarballSize(refs) ==
    LET size(i, n) == CalculateSingleFileInTarSize(SizeOf[LayersOf[i][n]])
        image(i) == CalculateSingleFileInTarSize(ConfigSize)
                    + MapThenSumSet(LAMBDA n : size(i, n), 1..Len(LayersOf[i]))
    IN  MapThenSumSet(image, ImagesIn(refs))
        + CalculateSingleFileInTarSize(ManifestSize) + 2 * Block

(***************************************************************************)
(* legacy MultiWrite.                                                      *)
(***************************************************************************)

\* Mutant: the parent is not part of the id.
IDWithoutParent(layer, parent, raw) == <<layer, <<>>, raw>>

\* The id of a layer in an image: the hash of its digest, its parent's id and, on top,
\* the config.
V1LayerID(layer, parent, raw) == <<layer, parent, raw>>

\* newV1Layer and, with the config, newTopV1Layer.
V1LayerIDs(i) ==
    LET top(n) == IF n = Len(LayersOf[i]) THEN <<ConfigOf[i]>> ELSE <<>>
        id[n \in 0..Len(LayersOf[i])] ==
            IF n = 0 THEN <<>> ELSE V1LayerID(LayersOf[i][n], id[n - 1], top(n))
    IN  [n \in 1..Len(LayersOf[i]) |-> id[n]]

\* What is written of a layer.
V1Files(layer, id, parent) ==
    <<File(<<"layer.tar", id>>, <<"tar", DiffOf[layer]>>, SizeOf[layer], TRUE),
      File(<<"json", id>>, [id |-> id, parent |-> parent], 1, FALSE),
      File(<<"VERSION", id>>, <<"1.0">>, 1, FALSE)>>

\* An image whose history tells of other layers is an error; for one without layers
\* there is no top layer, and its id is asked of nothing.
Stops(i) == IF Told[i] \notin {0, Len(LayersOf[i])} THEN <<"error">>
            ELSE IF LayersOf[i] = <<>> THEN <<"panic">> ELSE <<>>

\* The files of an image; one that stops has its config only.
V1ImageFiles(i) ==
    LET ids == V1LayerIDs(i)
        parent(k) == IF k = 1 THEN <<>> ELSE ids[k - 1]
        layers == [k \in 1..Len(LayersOf[i]) |-> V1Files(LayersOf[i][k], ids[k], parent(k))]
    IN  <<ConfigFile(i)>> \o IF Stops(i) = <<>> THEN FlattenSeq(layers) ELSE <<>>

\* The two lists of the images.
V1Manifest(refs, order) ==
    [n \in 1..Len(order) |->
        Descriptor(refs, order[n], [k \in 1..Len(LayersOf[order[n]]) |->
                                       <<"layer.tar", V1LayerIDs(order[n])[k]>>])]
V1Repositories(refs, order) ==
    UNION {{[tag |-> ref, id |-> Last(V1LayerIDs(i))] : ref \in TagsOf(refs, i)} :
               i \in ToSet(order)}

\* MultiWrite: the images sorted, here in any order, up to one that stops.
MultiWrite(refs, order) ==
    LET stop == SelectInSeq(order, LAMBDA i : Stops(i) # <<>>)
        upto == IF stop = 0 THEN Len(order) ELSE stop
        files == FlattenSeq([n \in 1..upto |-> V1ImageFiles(order[n])])
    IN  WrittenOnce(files)
        \o IF stop # 0 THEN <<File(Stops(order[stop]), <<>>, 0, FALSE)>>
           ELSE <<ManifestFile(V1Manifest(refs, order)),
                  File(<<"repositories">>, V1Repositories(refs, order), 1, FALSE)>>

(***************************************************************************)
(* tarball.Image, of a sequence of [name, data, whole]; a result is        *)
(* a sequence of one, or none for an error.                                *)
(***************************************************************************)

\* extractFileFromTar: the first of the name, if what is read of it is there.
ExtractFile(tar, name) ==
    LET n == SelectInSeq(tar, LAMBDA file : file.name = name)
    IN  IF n # 0 /\ tar[n].whole THEN <<tar[n].data>> ELSE <<>>

FindDescriptor(m, tag) ==
    LET n == SelectInSeq(m, LAMBDA d : \E ref \in d.tags : Name(ref) = Name(tag))
    IN  IF n = 0 THEN <<>> ELSE <<m[n]>>

\* loadTarDescriptorAndConfig.
TarDescriptorAndConfig(tar, tag) ==
    LET m == ExtractFile(tar, <<"manifest.json">>)
        desc == IF m = <<>> THEN <<>> ELSE FindDescriptor(m[1], tag)
        config == IF desc = <<>> THEN <<>> ELSE ExtractFile(tar, desc[1].config)
    IN  IF config = <<>> THEN <<>> ELSE <<[desc |-> desc[1], config |-> config[1]]>>

\* areLayersCompressed looks at the first.
LayersCompressed(tar, desc) == ExtractFile(tar, desc.layers[1])[1][1] = "gzip"

\* What each layer is: by the manifest of the compressed image or by the diff IDs of the
\* other, except the foreign ones, whose descriptors were kept.
LayerIDs(tar, desc, config) ==
    [n \in 1..Len(desc.layers) |->
        IF config.diffids[n] \in DOMAIN desc.sources THEN desc.sources[config.diffids[n]]
        ELSE ExtractFile(tar, desc.layers[n])[1][2]]

\* The place where a layer is looked for: the first that has its digest, or its diff ID.
LayerByDigest(ids, digest) == SelectInSeq(ids, LAMBDA x : x = digest)
LayerByDiffID(config, diffid) == SelectInSeq(config.diffids, LAMBDA x : x = diffid)

\* Compressed and Uncompressed of what is found.
Contents(tar, desc, place) == ExtractFile(tar, desc.layers[place])[1]

\* Image: its layers, each with an id and some content.
Load(tar, tag) ==
    LET found == TarDescriptorAndConfig(tar, tag)
        desc == found[1].desc
        config == found[1].config
        ids == LayerIDs(tar, desc, config)
        place(n) == IF LayersCompressed(tar, desc) THEN LayerByDigest(ids, ids[n])
                    ELSE LayerByDiffID(config, config.diffids[n])
        there == \A n \in 1..Len(desc.layers) : ExtractFile(tar, desc.layers[n]) # <<>>
    IN  IF found = <<>> \/ ~there THEN <<>>
        ELSE <<[config |-> config,
                layers |-> [n \in 1..Len(ids) |->
                               [is |-> ids[n], gives |-> Contents(tar, desc, place(n))]]]>>
=============================================================================
