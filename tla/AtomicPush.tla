----------------------------- MODULE AtomicPush -----------------------------
(***************************************************************************)
(* What pushing images promises to those who pull: an image appears whole, *)
(* in one step, under its tag and under its digest, when its push returns; *)
(* nothing else makes an image appear, change or vanish.  A push that      *)
(* fails may still have taken effect, or have left its tag broken: its     *)
(* manifest travelled, and nobody knows how far.                           *)
(***************************************************************************)
CONSTANTS Writers, RepoOf, TagOf, ImageOf

VARIABLES
    images,     \* the triples <<repository, tag or digest, image>> on offer
    result      \* writer -> "pending", "ok" or "failed"

vars == <<images, result>>

DigestName(image) == [sha256 |-> image]

Init ==
    /\ images = {}
    /\ result = [w \in Writers |-> "pending"]

Untagged(w) == {i \in images : ~(i[1] = RepoOf[w] /\ i[2] = TagOf[w])}

Tagged(w) ==
    Untagged(w) \cup {<<RepoOf[w], TagOf[w], ImageOf[w]>>,
                      <<RepoOf[w], DigestName(ImageOf[w]), ImageOf[w]>>}

Return(w, r) ==
    /\ result[w] = "pending"
    /\ result' = [result EXCEPT ![w] = r]

Push(w) == Return(w, "ok") /\ images' = Tagged(w)

FailedPush(w) ==
    Return(w, "failed") /\ images' \in {images, Tagged(w), Untagged(w)}

Next == \E w \in Writers : Push(w) \/ FailedPush(w)

Spec == Init /\ [][Next]_vars
=============================================================================
