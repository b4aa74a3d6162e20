---------------------------- MODULE MC_Registry ----------------------------
(* Two uploads of a two-chunk blob and of its own first chunk, an image,   *)
(* an index of it and an index of that index, in two repositories.         *)
EXTENDS RegistryClients, TLC

CONSTANTS r1, r2, t1, u1, u2, img, idx, idx2

MCBlobs == {<<1, 2>>, <<1>>}
MCBlobOf == (u1 :> <<1, 2>>) @@ (u2 :> <<1>>)
MCChildren == (idx :> {img}) @@ (idx2 :> {idx})
=============================================================================
