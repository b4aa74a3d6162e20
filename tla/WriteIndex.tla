----------------------------- MODULE WriteIndex -----------------------------
(***************************************************************************)
(* remote.WriteIndex (pkg/v1/remote/write.go, writeIndex): push an index.  *)
(* The index is walked depth first; a child that the repository has is     *)
(* skipped, an index is walked, an image is written by Write, any other    *)
(* document is passed over; then the index's own manifest is committed.    *)
(***************************************************************************)
EXTENDS BlobPush

CONSTANTS WIRepo, WITarget, WIIndexes    \* where, as what, one of which

ASSUME WriteIndexAssumption ==
    WIRepo \in Repos /\ WITarget \in Tags /\ WIIndexes \subseteq IndexDocs

VARIABLES
    root,       \* the index that is pushed
    wipc,       \* "walk", "image", "ok" or "failed"
    stack,      \* the calls of writeIndex, innermost first
    pushing     \* the image that Write is pushing

wiVars == <<root, wipc, stack, pushing>>

\* A call of writeIndex: the children it has not come to yet.  (A nested call is not
\* given the caller's options, which are left out.)
Call(doc, target) == [doc |-> doc, target |-> target, todo |-> ListedIn(doc)]

Top == Head(stack)
NotPushing == [doc |-> "none", blobs |-> {}, failed |-> FALSE]

WIInit ==
    /\ root \in WIIndexes
    /\ wipc = "walk"
    /\ stack = <<Call(root, WITarget)>>
    /\ pushing = NotPushing

Passed(child) == <<[Top EXCEPT !.todo = @ \ {child}]>> \o Tail(stack)

WIFails == wipc' = "failed" /\ UNCHANGED <<stack, pushing>>

\* The children are pushed in the order of the index, of which nothing is
\* known here.
CheckChild ==
    /\ wipc = "walk"
    /\ \E child \in Top.todo :
       \/ /\ \/ Exists(WIRepo, child)
             \/ child \in OtherDocs
          /\ stack' = Passed(child)
          /\ UNCHANGED <<wipc, pushing>>
       \/ /\ ~Exists(WIRepo, child) /\ child \in IndexDocs
          /\ stack' = <<Call(child, Sha256(child))>> \o Passed(child)
          /\ UNCHANGED <<wipc, pushing>>
       \/ /\ ~Exists(WIRepo, child) /\ child \in ImageDocs
          /\ stack' = Passed(child)
          /\ wipc' = "image"
          /\ pushing' = [doc |-> child, blobs |-> Required(child), failed |-> FALSE]
    /\ NoFault /\ UNCHANGED regVars

CheckChildFails ==
    /\ wipc = "walk" /\ Top.todo # {}
    /\ Fault
    /\ WIFails /\ UNCHANGED regVars

\* A goroutine of Write ends.
UploadBlob ==
    /\ wipc = "image"
    /\ \E b \in pushing.blobs :
       \/ /\ UploadOne(b)
          /\ pushing' = [pushing EXCEPT !.blobs = @ \ {b}]
       \/ /\ UploadOneFails(b)
          /\ pushing' = [pushing EXCEPT !.blobs = @ \ {b}, !.failed = TRUE]
    /\ UNCHANGED <<wipc, stack>>

\* Write waited for all of them: it returns an error, or commits the image.
CommitImage ==
    /\ wipc = "image" /\ pushing.blobs = {}
    /\ \/ /\ ~pushing.failed
          /\ CommitManifest(WIRepo, Sha256(pushing.doc), pushing.doc)
          /\ wipc' = "walk" /\ pushing' = NotPushing
          /\ UNCHANGED stack
       \/ /\ ~pushing.failed
          /\ CommitManifestFails(WIRepo, Sha256(pushing.doc), pushing.doc)
          /\ WIFails
       \/ /\ pushing.failed
          /\ WIFails
          /\ NoFault /\ UNCHANGED regVars

CommitIndex ==
    /\ wipc = "walk" /\ Top.todo = {}
    /\ \/ /\ CommitManifest(WIRepo, Top.target, Top.doc)
          /\ stack' = Tail(stack)
          /\ wipc' = IF Tail(stack) = <<>> THEN "ok" ELSE "walk"
          /\ UNCHANGED pushing
       \/ CommitManifestFails(WIRepo, Top.target, Top.doc) /\ WIFails

WINext ==
    /\ CheckChild \/ CheckChildFails \/ UploadBlob \/ CommitImage \/ CommitIndex
    /\ UNCHANGED root

=============================================================================
