-------------------------- MODULE MC_RemoteWrite --------------------------
(* Two writers push to one tag: one an image with the same layer twice and *)
(* a foreign layer, the other an image whose layer has the same bytes but  *)
(* comes from a stream.                                                    *)
EXTENDS RemoteWrite, TLC

CONSTANTS w1, w2, r1, t1, imgA, imgB

layer == <<1, 2>>
foreign == <<3>>
configA == <<4>>
configB == <<5>>

MCBlobs == {layer, foreign, configA, configB}
MCForeign == {foreign}
MCStreaming == {<<w2, 1>>}
MCImageOf == (w1 :> imgA) @@ (w2 :> imgB)
MCRepoOf == [w \in {w1, w2} |-> r1]
MCTagOf == [w \in {w1, w2} |-> t1]
MCConfigOf == (imgA :> configA) @@ (imgB :> configB)
MCLayersOf == (imgA :> <<layer, foreign, layer>>) @@ (imgB :> <<layer>>)
MCUploadIds == {<<<<w, s>>, n>> : w \in {w1, w2}, s \in 0 .. 3, n \in 0 .. 2}
MCChildren == <<>>
=============================================================================
