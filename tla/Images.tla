------------------------------- MODULE Images -------------------------------
(***************************************************************************)
(* Images in a Registry: the blobs an image document refers to, and what   *)
(* it means that the registry can serve it.  The pushers of pkg/v1/remote  *)
(* (RemoteWrite, MultiWrite, WriteIndex) extend this module.               *)
(***************************************************************************)
EXTENDS Registry

CONSTANTS
    ConfigOf, LayersOf,     \* the blobs of each image document
    Foreign                 \* layers that are not distributable

ASSUME ImagesAssumption ==
    /\ Blobs \subseteq Seq(Nat)
    /\ ConfigOf \in [ImageDocs -> Blobs \ Foreign]
    /\ LayersOf \in [ImageDocs -> Seq(Blobs)]

\* What the registry needs to serve an image (foreign layers live elsewhere).
Required(doc) ==
    {ConfigOf[doc]} \cup
    ({LayersOf[doc][i] : i \in 1 .. Len(LayersOf[doc])} \ Foreign)

Stored(b) == Sha256(b) \in DOMAIN contents /\ contents[Sha256(b)] = b

\* An image manifest is in the registry only together with all of the
\* image's blobs, bytes and all: a pusher commits after every upload is done,
\* whatever was lost, cut, resent or retried on the way, and whichever of
\* several pushers uploaded a blob they share.
CommittedImagesComplete ==
    \A repo \in DOMAIN manifests : \A target \in DOMAIN manifests[repo] :
        LET doc == manifests[repo][target].blob
        IN  doc \in ImageDocs => \A b \in Required(doc) : Stored(b)
=============================================================================
