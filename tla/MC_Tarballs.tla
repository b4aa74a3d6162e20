---------------------------- MODULE MC_Tarballs -----------------------------
(***************************************************************************)
(* Two images on one base, one that uses a layer twice, one whose layer    *)
(* was compressed anew and is foreign, and one without layers; stacks of   *)
(* two layers of up to two entries and of three layers of one.             *)
(***************************************************************************)
EXTENDS Tarballs, TLC

MCLayersOf == ("app" :> <<"base", "own">>) @@ ("app2" :> <<"base", "other">>)
              @@ ("tall" :> <<"base", "own", "other">>) @@ ("moved" :> <<"other", "own", "base">>)
              @@ ("twice" :> <<"base", "base">>) @@ ("again" :> <<"base", "own-again">>)
              @@ ("foreign" :> <<"base", "leaf">>) @@ ("bare" :> <<>>)
              @@ ("confused" :> <<"own", "own-leaf">>)
MCDiffOf == ("base" :> "d1") @@ ("own" :> "d2") @@ ("other" :> "d3") @@ ("own-again" :> "d2")
            @@ ("leaf" :> "d4") @@ ("own-leaf" :> "d2")
MCConfigOf == [i \in DOMAIN MCLayersOf |->
                  [id |-> i, diffids |-> [n \in 1..Len(MCLayersOf[i]) |-> MCDiffOf[MCLayersOf[i][n]]]]]
MCTold == [i \in DOMAIN MCLayersOf |-> IF i = "again" THEN 1 ELSE IF i = "app2" THEN 2 ELSE 0]
MCSizeOf == ("base" :> 4) @@ ("own" :> 5) @@ ("other" :> 0) @@ ("own-again" :> 3) @@ ("leaf" :> 1)
            @@ ("own-leaf" :> 1)

Tag(tag) == [kind |-> "tag", repo |-> "r", tag |-> tag]
Digest(i) == [kind |-> "digest", repo |-> "r", tag |-> i]

\* What is saved: one or two tags, by one or two names, and a digest.
Saves == {Tag("") :> i : i \in DOMAIN MCLayersOf}
         \cup {(Tag("") :> "app") @@ (Tag("latest") :> "app2"),
               (Tag("v1") :> "app") @@ (Tag("v2") :> "app") @@ (Digest("app") :> "app"),
               (Tag("v1") :> "tall") @@ (Tag("v2") :> "moved"),
               (Tag("v1") :> "app") @@ (Digest("again") :> "again"),
               (Tag("v1") :> "app") @@ (Tag("v2") :> "again")}

JobsOf(refs, how, who, cap) ==
    {[how |-> how, refs |-> refs, order |-> order, sorted |-> sorted,
      listens |-> who, cap |-> cap] :
        order \in SetToSeqs(ImagesIn(refs)),
        sorted \in IF how = "legacy" THEN {<<>>} ELSE SetToSeqs(ImagesIn(refs))}

MCJobs == UNION {JobsOf(refs, "tarball", who, cap) :
                    refs \in Saves, who \in {"leaves", "stays"}, cap \in {0, 3}}
          \cup UNION {JobsOf(refs, "tarball", "no", 0) : refs \in Saves}
          \cup UNION {JobsOf(refs, "legacy", "no", 0) : refs \in Saves}

Entry(kind, path) == [path |-> path, kind |-> kind]
Entries == {Entry(kind, <<"a">>) : kind \in {"dir", "file", "whiteout"}}
           \cup {Entry(kind, <<"a", "x">>) : kind \in {"file", "whiteout"}}
           \cup {Entry("file", <<"a", "x", "y">>), Entry("file", <<"b">>)}
MCStacks == TupleOf(BoundedSeq(Entries, 2), 2) \cup TupleOf(BoundedSeq(Entries, 1), 3)
=============================================================================
