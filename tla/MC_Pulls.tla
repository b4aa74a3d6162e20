------------------------------ MODULE MC_Pulls ------------------------------
(***************************************************************************)
(* Two commands at a time, an image of two layers and one that shares a    *)
(* layer with it, behind a tag that may come to name an index.             *)
(***************************************************************************)
EXTENDS Pulls

amd64 == [arch |-> "amd64", variant |-> "", features |-> {}]
armv6 == [arch |-> "arm", variant |-> "v6", features |-> {}]
armv7 == [arch |-> "arm", variant |-> "v7", features |-> {"neon"}]
mips == [arch |-> "mips", variant |-> "", features |-> {}]
anyArm == [arch |-> "arm", variant |-> "", features |-> {"neon"}]

MCImages == {"app", "app-arm", "app-twice"}
MCIndexes == {"list"}
MCSchema1s == {"old"}
MCLayers == {"base", "own"}
MCLayersOf == ("app" :> <<"base", "own">>) @@ ("app-arm" :> <<"base">>)
              @@ ("app-twice" :> <<"base", "base">>)
MCChildren == [x \in MCIndexes |-> <<[doc |-> "app-twice", platform |-> armv6],
                                    [doc |-> "old", platform |-> mips],
                                    [doc |-> "app-arm", platform |-> armv7],
                                    [doc |-> "app", platform |-> amd64]>>]
MCForeignURLs == [layer \in MCLayers |-> IF layer = "own" THEN 1 ELSE 0]
MCHistoryOf == [image \in MCImages |-> IF image = "app-twice" THEN 2 ELSE 0]
MCPaths == {[dir |-> "cache", form |-> form, of |-> layer] :
               form \in {"digest", "diffid"}, layer \in MCLayers}
           \cup {[dir |-> "layout", form |-> "layer", of |-> layer] : layer \in MCLayers}
           \cup {[dir |-> "layout", form |-> form, of |-> image] :
                    form \in {"config", "manifest"}, image \in MCImages}

Command(fmt, cached, platform) == [fmt |-> fmt, cached |-> cached, platform |-> platform]
MCKinds == [p \in {"p", "q"} |->
    {Command("oci", TRUE, anyArm)} \cup
    IF p = "p" THEN {Command("oci", FALSE, amd64), Command("tarball", TRUE, armv6)}
    ELSE {Command("legacy", TRUE, armv7)}]
MCAsked == {amd64, anyArm, armv6, armv7}

\* A first pull; the cache after a tarball, after a legacy tarball, and after a
\* crash; a layout that was pulled to without the cache, then with it.
Left(digest, diffid, images) ==
    [file |-> [path \in MCPaths |->
        IF path.dir = "layout" THEN IF images = {} THEN "none" ELSE
            IF path \in BlobsOf("app-arm", <<"base">>) THEN "whole" ELSE "none"
        ELSE IF path.of # "base" THEN "none"
        ELSE IF path.form = "digest" THEN digest ELSE diffid],
     images |-> images]
MCBefore == {Left("none", "none", {}), Left("whole", "none", {}), Left("none", "whole", {}),
             Left("part", "none", {}), Left("empty", "none", {"app-arm"})}

\* One process at a time, and nothing goes wrong: the cache is filled and used.
MCFirst == {Left("none", "none", {})}
MCTwoKinds == [p \in {"p"} |-> {Command("oci", FALSE, armv7), Command("oci", TRUE, armv7)}]
=============================================================================
