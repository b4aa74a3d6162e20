------------------------------ MODULE Tarballs ------------------------------
(***************************************************************************)
(* The tar streams this repository makes: the file system of an image for  *)
(* a reader that may leave (Extract), and a tarball of images for a        *)
(* listener that may leave (TarballWrite).  A behavior is one of the two.  *)
(***************************************************************************)
EXTENDS TarballWrite, Extract

CONSTANTS
    Jobs            \* the saves

\* A save goes through each of its images, once, and lists each.  The legacy one tells
\* nobody of its progress.
ASSUME JobsAssumption ==
    \A j \in Jobs :
        LET images == ImagesIn(j.refs)
        IN  /\ j.how \in {"tarball", "legacy"}
            /\ images \subseteq DOMAIN LayersOf
            /\ j.order \in Seq(images) /\ ToSet(j.order) = images
            /\ \A m, n \in 1..Len(j.order) : j.order[m] = j.order[n] => m = n
            /\ j.how = "legacy" => j.listens = "no"
            /\ j.how = "tarball" => j.sorted \in Seq(images) /\ ToSet(j.sorted) = images

vars == <<writeVars, extractVars>>

Idle == [how |-> "extract", listens |-> "no", cap |-> 0,
         refs |-> <<>>, order |-> <<>>, sorted |-> <<>>]

Init ==
    \/ WriteInit(Jobs) /\ ExtractInit({<<>>}) /\ reader.how = "copy"
    \/ WriteInit({Idle}) /\ ExtractInit(Stacks)

Saving == job.how # "extract"

SaveStep == Saving /\ WriteStep /\ UNCHANGED extractVars
SaveFault == Saving /\ WriteFault /\ UNCHANGED extractVars
Listen == Saving /\ Receive /\ UNCHANGED extractVars
Export == ~Saving /\ ExtractStep /\ UNCHANGED writeVars
ReaderLeaves == ~Saving /\ CloseReader /\ UNCHANGED writeVars

Next == SaveStep \/ SaveFault \/ Listen \/ Export \/ ReaderLeaves

\* The goroutines are scheduled, and readers read until they close; nothing has to fail
\* and nobody has to leave.
Spec == Init /\ [][Next]_vars /\ WF_vars(SaveStep) /\ WF_vars(Listen) /\ WF_vars(Export)

\* A save returns as SaveReturns has it, and so does the goroutine of Extract, also
\* when its reader leaves (mutate.go:143-145).
Returns ==
    /\ Saving => SaveReturns
    /\ ~Saving => <>(at \in {"returned", "failed"})

Learns == Saving => ListenerLearns
=============================================================================
