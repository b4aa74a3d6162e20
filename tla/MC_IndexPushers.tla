-------------------------- MODULE MC_IndexPushers --------------------------
(* MultiWrite pushes an index of an index and an image, and that image by  *)
(* a tag of its own; WriteIndex pushes the outer index too, or one that    *)
(* lists a document which is neither an image nor an index.                *)
EXTENDS IndexPushers, TLC

CONSTANTS r1, t1, t2, imgA, imgB, inner, outer, mixed, other, j1, j2

shared == <<1>>
configA == <<2>>
configB == <<3>>

MCBlobs == {shared, configA, configB}
MCConfigOf == (imgA :> configA) @@ (imgB :> configB)
MCLayersOf == (imgA :> <<shared>>) @@ (imgB :> <<shared>>)
MCChildren == (inner :> {imgA}) @@ (outer :> {inner, imgB}) @@ (mixed :> {inner, other})
MCRequested == {<<t1, outer>>, <<t2, imgB>>}
=============================================================================
