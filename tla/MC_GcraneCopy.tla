---------------------------- MODULE MC_GcraneCopy ----------------------------
(* A repository with one below it and one below that.  The destination has *)
(* an image under a tag that another has by now, and one without its tag.  *)
EXTENDS GcraneCopy, TLC

CONSTANTS root, sub, leaf, a, b, c, t1, t2

NoTags == [t \in {} |-> a]

MCBelow == (root :> <<sub>>) @@ (sub :> <<leaf>>) @@ (leaf :> <<>>)
MCSrcImages == (root :> {a, b}) @@ (sub :> {a}) @@ (leaf :> {b, c})
MCSrcTags == (root :> (t1 :> a @@ t2 :> a)) @@ (sub :> (t1 :> a)) @@ (leaf :> NoTags)
MCDstImages == (root :> {b}) @@ (sub :> {a}) @@ (leaf :> {})
MCDstTags == (root :> (t1 :> b)) @@ (sub :> NoTags) @@ (leaf :> NoTags)
=============================================================================
