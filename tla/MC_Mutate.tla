----------------------------- MODULE MC_Mutate ------------------------------
(***************************************************************************)
(* A base and its successor, an image built on the base and one without a  *)
(* history; a layer that was compressed twice, a stream and an entry of    *)
(* the history without a layer to append.                                  *)
(***************************************************************************)
EXTENDS MutateIndex, TLC

MCLayers == {"base", "base2", "own", "own-again", "stream", "base@0", "own@0"}
MCDiffOf == ("base" :> "d1") @@ ("base2" :> "d2") @@ ("own" :> "d3") @@ ("own-again" :> "d3")
            @@ ("stream" :> "d4") @@ ("base@0" :> "d5") @@ ("own@0" :> "d6")
MCStripped == ("base" :> "base@0") @@ ("base2" :> "base@0") @@ ("own" :> "own@0")
              @@ ("own-again" :> "own@0") @@ ("stream" :> "own@0")
              @@ ("base@0" :> "base@0") @@ ("own@0" :> "own@0")

Said(by) == [by |-> by, empty |-> FALSE]
Only(by) == [by |-> by, empty |-> TRUE]

Image(layers, history, conf, os) ==
    [layers |-> layers, media |-> "docker",
     config |-> [diffids |-> [n \in 1..Len(layers) |-> MCDiffOf[layers[n]]],
                 history |-> history, conf |-> conf, created |-> "", os |-> os]]

MCConfs == {[cmd |-> "sh", host |-> ""]}
Built == [cmd |-> "app", host |-> "builder"]
Unset == [cmd |-> "", host |-> ""]

MCRead == <<Image(<<>>, <<>>, Unset, ""),
            Image(<<"base">>, <<Said("base")>>, Unset, "os1"),
            Image(<<"base2">>, <<Only("label"), Said("base2")>>, Unset, "os2"),
            Image(<<"base", "own">>, <<Said("base"), Only("env"), Said("own")>>, Built, "os1")>>
MCAddenda == {<<[layer |-> "own-again", history |-> Said("own")]>>,
              <<[layer |-> None, history |-> Only("env")],
                [layer |-> "stream", history |-> Said("stream")]>>}

\* What an index that is read lists.
MCListed == <<3, 4>>

\* An image on a base, neither with a history.
MCUntold == <<Image(<<>>, <<>>, Unset, ""),
              Image(<<"base">>, <<>>, Unset, "os1"),
              Image(<<"base", "own">>, <<>>, Built, "os1")>>
MCNone == <<>>
=============================================================================
