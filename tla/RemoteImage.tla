---------------------------- MODULE RemoteImage -----------------------------
(***************************************************************************)
(* remote.Image and what it gives (pkg/v1/remote/descriptor.go, index.go,  *)
(* image.go): a reference is resolved, through indexes, to the image of a  *)
(* platform, whose config and layers are fetched when they are asked for.  *)
(* Only what is fetched by digest is checked against a digest.  Others     *)
(* move the tag, and delete manifests, meanwhile.                          *)
(*                                                                         *)
(* A digest names one document for good, so a document stands for its      *)
(* digest.  A fault is a call that fails or a body that ends early.        *)
(***************************************************************************)
EXTENDS Naturals, Sequences, FiniteSets, SequencesExt

CONSTANTS
    Images, Indexes, Schema1s,  \* the documents of the registry, by media type
    Children,       \* what an index lists: [doc, platform], in order
    LayersOf,       \* the layers of each image
    ForeignURLs,    \* how many other sources the descriptor of a layer names
    Asked,          \* the platforms that are asked for
    FirstTag, TagTargets,   \* what the tag names, and may be moved to
    Deletable,      \* the manifests that may be deleted
    MaxFaults, MaxMoves     \* bounds: faults, and changes by others

Docs == Images \cup Indexes \cup Schema1s

Platforms == Asked \cup
             UNION {{c.platform : c \in ToSet(Children[x])} : x \in Indexes}

ASSUME RemoteImageAssumption ==
    /\ IsFiniteSet(Docs)
    /\ TagTargets \cup {FirstTag} \subseteq Docs /\ Deletable \subseteq Docs
    /\ \A x \in Indexes : /\ Children[x] \in Seq(ToSet(Children[x]))
                         /\ \A c \in ToSet(Children[x]) : c.doc \in Docs
    /\ MaxFaults \in Nat /\ MaxMoves \in Nat

VARIABLES
    tag,        \* what the tag names
    gone,       \* the manifests that were deleted
    moves,      \* changes by others
    faults      \* faults that have happened

remoteVars == <<tag, gone, moves, faults>>

RemoteInit == tag = FirstTag /\ gone = {} /\ moves = 0 /\ faults = 0

(***************************************************************************)
(* Others.                                                                 *)
(***************************************************************************)

MoveTag ==
    /\ moves < MaxMoves
    /\ \E doc \in TagTargets \ {tag} : tag' = doc
    /\ moves' = moves + 1
    /\ UNCHANGED <<gone, faults>>

\* remote.Delete of a manifest, by digest.
Delete ==
    /\ moves < MaxMoves
    /\ \E doc \in Deletable \ gone : gone' = gone \cup {doc}
    /\ moves' = moves + 1
    /\ UNCHANGED <<tag, faults>>

(***************************************************************************)
(* Resolving a reference.                                                  *)
(***************************************************************************)

MatchesPlatform(given, required) ==
    /\ given.arch = required.arch
    /\ required.variant # "" => given.variant = required.variant
    /\ required.features \subseteq given.features

\* The place of the first child of the platform, or 0.
ChildByPlatform(doc, platform) ==
    IF doc \in Indexes
      THEN SelectInSeq(Children[doc], LAMBDA c : MatchesPlatform(c.platform, platform))
      ELSE 0

\* The documents Descriptor.Image fetches from doc to an image: by digest, from
\* an index the first child of the platform, for that child the same again.
Descents[depth \in 0..Cardinality(Docs)] ==
    [platform \in Platforms |-> [doc \in Docs |->
        LET child == ChildByPlatform(doc, platform)
        IN  IF child = 0 \/ depth = 0 THEN <<doc>>
            ELSE <<doc>> \o Descents[depth - 1][platform][Children[doc][child].doc]]]

DocsTo(doc, platform) == Descents[Cardinality(Docs)][platform][doc]

Resolved(doc, platform) == Last(DocsTo(doc, platform))

\* A schema 1 image, or an index without a child for the platform, is no image.
ResolvesToImage(doc, platform) == Resolved(doc, platform) \in Images

\* fetchManifest of all that has to be fetched below doc.
AllThere(doc, platform) == ToSet(Tail(DocsTo(doc, platform))) \cap gone = {}

(***************************************************************************)
(* Calls and bodies.                                                       *)
(***************************************************************************)

\* A call is answered, or fails n times in a row.
Answered == UNCHANGED remoteVars
Failing(n) == /\ faults + n <= MaxFaults
              /\ faults' = faults + n
              /\ UNCHANGED <<tag, gone, moves>>

\* remoteImageLayer.Compressed asks the registry, then the layer's URLs.
Sources(layer) == 1 + ForeignURLs[layer]

\* A body that ends early: VerifyReadCloser says so at its end, whatever the
\* connection says.
BadBodies == {"empty", "part"}
=============================================================================
