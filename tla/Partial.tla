------------------------------ MODULE Partial -------------------------------
(***************************************************************************)
(* What the adapters of pkg/v1/partial make of the few things an image     *)
(* knows of itself, and what validate.Image compares.  An image is a view: *)
(* its config, its manifest and the layers it gives.  A layer stands for   *)
(* the digest of its blob; several may have the same diff ID.  A config    *)
(* stands for its own digest.                                              *)
(***************************************************************************)
EXTENDS Naturals, Sequences, SequencesExt

CONSTANTS
    Layers,
    DiffOf      \* the diff ID of each layer

None == "none"

\* A manifest, as far as it is told apart here.
Manifest(config, layers, media) == [config |-> config, layers |-> layers, media |-> media]

DiffIDsOf(layers) == [n \in 1..Len(layers) |-> DiffOf[layers[n]]]

\* DiffIDToBlob: the blob that stands where the diff ID first stands.  This is also
\* how an image that knows its manifest finds a layer by its diff ID.
DiffIDToBlob(manifest, config, diffid) ==
    IF Len(config.diffids) = Len(manifest.layers) /\ diffid \in ToSet(config.diffids)
      THEN manifest.layers[SelectInSeq(config.diffids, LAMBDA x : x = diffid)]
    ELSE None

\* Image.Layers: of what knows its manifest, and of what knows its diff IDs.
CompressedLayers(manifest) == manifest.layers
UncompressedLayers(config, byDiffID) ==
    [n \in 1..Len(config.diffids) |-> byDiffID[config.diffids[n]]]

(***************************************************************************)
(* validate.Image.                                                         *)
(***************************************************************************)

\* validateLayers: every layer is found, and is the one config and manifest list
\* at its place.
ValidLayers(view) ==
    /\ Len(view.layers) = Len(view.manifest.layers)
    /\ \A n \in 1..Len(view.layers) :
          /\ view.layers[n] = view.manifest.layers[n]
          /\ view.config.diffids[n] = DiffOf[view.layers[n]]

\* validateConfig compares the size the manifest gives for the config; here it
\* is the digest that is compared.
ValidConfig(view) == view.manifest.config = view.config

Valid(view) == ValidLayers(view) /\ ValidConfig(view)

\* A history tells of every layer, in order, and of none there is not.
WellFormed(config) ==
    Len(SelectSeq(config.history, LAMBDA entry : ~entry.empty)) = Len(config.diffids)
=============================================================================
