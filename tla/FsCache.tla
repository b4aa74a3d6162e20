------------------------------ MODULE FsCache -------------------------------
(***************************************************************************)
(* The layer cache on disk (pkg/v1/cache): a file per layer and form, named *)
(* by the digest of its compressed or its uncompressed bytes, filled while *)
(* the layer is read from where it comes from.  Nothing compares a file    *)
(* with its name: Get takes for the layer whatever tarball.LayerFromFile   *)
(* can read, and that is also an empty file.                               *)
(*                                                                         *)
(* LayerFromFile reads the file three times; here that is one step.        *)
(***************************************************************************)
EXTENDS Files, Sequences

CONSTANTS
    Layers,
    SameGzip    \* the layers whose blob is what this library's gzip makes of them

CachePath(layer, form) == [dir |-> "cache", form |-> form, of |-> layer]
CachePaths == {CachePath(layer, form) : layer \in Layers, form \in {"digest", "diffid"}}

\* A layer of an image: from the cache, or the one below with a cache to fill.
\* `own' says whether the digest it reports is that of the image's layer.
FromCache(layer, form, own) ==
    [from |-> "cache", layer |-> layer, form |-> form, own |-> own]
FromRemote(layer) == [from |-> "remote", layer |-> layer, form |-> "digest", own |-> TRUE]

(***************************************************************************)
(* fscache.Get: gunzip of what is cut ends in ErrUnexpectedEOF, and the    *)
(* file goes; an uncompressed file, and an empty one, has nothing to say.  *)
(***************************************************************************)
Incomplete(content, form) == form = "digest" /\ content = "part"

Found(content, form) == content # "none" /\ ~Incomplete(content, form)

OwnDigest(layer, content, form) ==
    content = "whole" /\ (form = "digest" \/ layer \in SameGzip)

\* cache.image.Layers for one layer: the layer that is found, and after one that
\* is found uncompressed also the layer below; else only the layer below.
Hit(layer, form, content) == FromCache(layer, form, OwnDigest(layer, content, form))

Appended(layer, form, content) ==
    IF form = "digest" THEN <<Hit(layer, form, content)>>
    ELSE (IF Found(content, form) THEN <<Hit(layer, form, content)>> ELSE <<>>)
         \o <<FromRemote(layer)>>

\* What is wrong with a hit: the file is not the layer, or the layer comes twice.
Misleads(form, content) == Found(content, form) /\ (form = "diffid" \/ content # "whole")

\* fscache.Get removes an incomplete file (fscache.Delete).
AfterGet(layer, form, content) ==
    IF Incomplete(content, form) THEN Unlink(CachePath(layer, form))
    ELSE UNCHANGED fileVars
=============================================================================
