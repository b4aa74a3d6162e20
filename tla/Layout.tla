------------------------------- MODULE Layout -------------------------------
(***************************************************************************)
(* An OCI image layout (pkg/v1/layout): blobs named by their digest and    *)
(* the file index.json, which lists the images.  A blob that exists is not *)
(* written again, whatever is in it; index.json is read, changed and       *)
(* written over, with nothing that keeps two writers apart.                *)
(***************************************************************************)
EXTENDS Files, Sequences, SequencesExt

VARIABLE index      \* index.json: its state and the images it lists

NoIndex == [is |-> "none", images |-> <<>>]
Broken == [is |-> "broken", images |-> <<>>]
Listing(images) == [is |-> "listing", images |-> images]

BlobPath(kind, of) == [dir |-> "layout", form |-> kind, of |-> of]

\* The files of an image with these layers.
BlobsOf(image, layers) ==
    {BlobPath("layer", layer) : layer \in ToSet(layers)}
    \cup {BlobPath("config", image), BlobPath("manifest", image)}

\* Path.WriteBlob: what exists, in whatever state, is not written, and r is not read.
BlobThere(path) == Exists(path)

(***************************************************************************)
(* index.json.                                                             *)
(***************************************************************************)

\* FromPath asks whether the file exists, and nothing more.
IsLayout == index # NoIndex

\* Path.WriteFile truncates the file, then writes it; of a longer list that
\* another wrote in between, the end stays.
TruncateIndex == index' = Broken
WriteIndexFile(images) ==
    index' = IF Len(index.images) > Len(images) THEN Broken ELSE Listing(images)

\* IndexManifest: what is truncated, or has another's end, does not parse.
Parses == index.is = "listing"

\* Mutant: the new descriptor replaces the last one.
ReplaceDescriptor(read, image) == (IF read = <<>> THEN <<>> ELSE Front(read)) \o <<image>>

\* What Path.AppendDescriptor writes, given what it has read.
AppendDescriptor(read, image) == Append(read, image)

(***************************************************************************)
(* Reading.                                                                *)
(***************************************************************************)

\* layoutIndex.findDescriptor, of the index as it is now: the first entry with the
\* digest, and an error where there is none or index.json does not parse.
FindDescriptor(image) ==
    IF Parses /\ image \in ToSet(index.images) THEN <<image>> ELSE <<>>

\* layoutImage: RawManifest, RawConfigFile, LayerByDigest.  Each gives what its file
\* may hold and compares it with nothing; what a manifest that is not whole names
\* is not found.  (That LayerByDigest refuses foreign layers is left out.)
ReadImage(image, layers) ==
    LET manifest == BlobPath("manifest", image)
        named == FindDescriptor(image) # <<>> /\ Seen(manifest) = {"whole"}
    IN  [blob \in BlobsOf(image, layers) |->
            IF blob = manifest \/ named THEN Seen(blob) ELSE {"none"}]
=============================================================================
