------------------------------ MODULE Extract -------------------------------
(***************************************************************************)
(* mutate.Extract: the file system of an image as one tar stream, which a  *)
(* goroutine writes to a pipe while somebody reads it.  Layers are gone    *)
(* through from the top; an entry is written unless one above hides it.    *)
(*                                                                         *)
(* An entry has a path, a sequence of names; it is a directory, or a       *)
(* whiteout of the path, or a file.  A pipe has no buffer: a write is what *)
(* the reader reads.  Sizes and attributes of entries are left out, except *)
(* that a directory has no data.                                           *)
(***************************************************************************)
EXTENDS Naturals, Sequences, SequencesExt, FiniteSets

CONSTANTS
    Stacks          \* the images: sequences of layers, which are sequences of entries

\* A header has a name that is not empty, once it is clean.
ASSUME StacksAssumption ==
    \A stack \in Stacks :
        /\ stack \in Seq(ToSet(stack))
        /\ \A some \in ToSet(stack) :
              /\ some \in Seq(ToSet(some))
              /\ \A e \in ToSet(some) : /\ e.kind \in {"dir", "file", "whiteout"}
                                       /\ e.path \in Seq(ToSet(e.path)) \ {<<>>}

VARIABLES
    layers,         \* the image, from the bottom
    layer, entry,   \* what extract is at: a layer, and how many of its entries are done
    fileMap,        \* the names that were handled: [seen, hides]
    at,             \* where extract is
    out,            \* what the reader has got: [layer, entry]
    reader,         \* [how, open, end]: "tar" or "copy"; what ended it
    fault           \* whether a layer could not be opened or read

extractVars == <<layers, layer, entry, fileMap, at, out, reader, fault>>

(***************************************************************************)
(* Names.                                                                  *)
(***************************************************************************)

\* The name an entry is remembered by: a directory keeps the slash at its end.
NameOf(e) == [path |-> e.path, slash |-> e.kind = "dir"]

\* filepath.Dir, again and again.
Dirs(name) ==
    {[path |-> SubSeq(name.path, 1, n), slash |-> FALSE] :
        n \in 1..(Len(name.path) - IF name.slash THEN 0 ELSE 1)}

\* Mutant: only the directory the entry is in.
InWhiteoutParent(map, name) ==
    [path |-> Front(name.path), slash |-> FALSE] \in map.hides

InWhiteoutDir(map, name) == Dirs(name) \cap map.hides # {}

Skipped(map, e) == NameOf(e) \in map.seen \/ InWhiteoutDir(map, NameOf(e))

\* What is not a directory hides what is below it.
Handled(map, e) ==
    [seen |-> map.seen \cup {NameOf(e)},
     hides |-> map.hides \cup IF e.kind = "dir" THEN {} ELSE {NameOf(e)}]

(***************************************************************************)
(* extract, and who reads what it writes.                                  *)
(***************************************************************************)

ExtractInit(stacks) ==
    /\ layers \in stacks
    /\ layer = Len(layers) /\ entry = 0 /\ at = "open"
    /\ fileMap = [seen |-> {}, hides |-> {}]
    /\ out = <<>> /\ fault = FALSE
    /\ reader \in [how : {"tar", "copy"}, open : {TRUE}, end : {""}]

\* The end of extract: the deferred Close of the tar writer, then CloseWithError.
\* A reader of tar stops at the trailer that Close writes, one that copies the
\* bytes at the pipe's end.  Nothing is written after a write that failed.
CloseStream(how) ==
    /\ at' = how
    /\ reader' = IF ~reader.open THEN reader
                 ELSE [reader EXCEPT !.open = FALSE,
                           !.end = IF reader.how = "tar" THEN "EOF"
                                   ELSE IF how = "failed" THEN "error" ELSE "EOF"]

OpenLayer ==
    /\ at = "open" /\ layer > 0
    /\ at' = "next" /\ entry' = 0
    /\ UNCHANGED <<layers, layer, fileMap, out, reader, fault>>

\* A layer that cannot be listed or opened, and one that cannot be read on.
Fault ==
    /\ at \in {"open", "next"}
    /\ fault' = TRUE /\ CloseStream("failed")
    /\ UNCHANGED <<layers, layer, entry, fileMap, out>>

EndOfLayer ==
    /\ at = "next" /\ entry = Len(layers[layer])
    /\ layer' = layer - 1 /\ at' = "open"
    /\ UNCHANGED <<layers, entry, fileMap, out, reader, fault>>

\* One header, and its data: the error of the header's write is dropped, that of the
\* data's is not.
NextEntry ==
    /\ at = "next" /\ entry < Len(layers[layer])
    /\ LET e == layers[layer][entry + 1]
           writes == ~Skipped(fileMap, e) /\ e.kind # "whiteout"
       IN  /\ fileMap' = IF Skipped(fileMap, e) THEN fileMap ELSE Handled(fileMap, e)
           /\ out' = IF writes /\ reader.open THEN Append(out, [layer |-> layer, entry |-> e])
                     ELSE out
           /\ IF writes /\ ~reader.open /\ e.kind = "file" THEN CloseStream("failed")
              ELSE UNCHANGED <<at, reader>>
    /\ entry' = entry + 1
    /\ UNCHANGED <<layers, layer, fault>>

Done ==
    /\ at = "open" /\ layer = 0
    /\ CloseStream("returned")
    /\ UNCHANGED <<layers, layer, entry, fileMap, out, fault>>

\* A reader that has seen enough closes the pipe.
CloseReader ==
    /\ reader.open
    /\ reader' = [reader EXCEPT !.open = FALSE]
    /\ UNCHANGED <<layers, layer, entry, fileMap, at, out, fault>>

ExtractStep == OpenLayer \/ Fault \/ EndOfLayer \/ NextEntry \/ Done

(***************************************************************************)
(* The overlay.                                                            *)
(***************************************************************************)

\* An entry of a layer hides what has its path, or is below it unless it is itself a
\* directory, in every layer beneath.
Hides(upper, e) ==
    \/ upper.path = e.path
    \/ IsStrictPrefix(upper.path, e.path) /\ upper.kind # "dir"

Overlay(stack) ==
    LET shown(n) == {e \in ToSet(stack[n]) :
                        /\ e.kind # "whiteout"
                        /\ \A m \in (n + 1)..Len(stack) :
                              \A upper \in ToSet(stack[m]) : ~Hides(upper, e)}
    IN  UNION {{[layer |-> n, entry |-> e] : e \in shown(n)} : n \in 1..Len(stack)}

\* Images that extract does not treat as overlays: a directory over a file of its name,
\* which it remembers with a slash, and a whiteout over what its own layer has,
\* or two entries of one path there.
Ordinary(stack) ==
    /\ \A n \in 1..Len(stack), m \in 1..Len(stack) :
          n < m => \A e \in ToSet(stack[n]), upper \in ToSet(stack[m]) :
                       upper.path = e.path /\ upper.kind = "dir" => e.kind # "file"
    /\ \A n \in 1..Len(stack) :
          \A j, k \in 1..Len(stack[n]) : j # k => ~Hides(stack[n][j], stack[n][k])

\* Who reads the stream to a clean end has the overlay of the layers, each path once,
\* whatever was opened, replaced or removed in which order (mutate.go:158-245).  If a
\* layer failed this is so for who copies the stream only: a reader of tar takes the
\* trailer that Close writes for the end, and misses the error that
\* mutate.go:161-165 says it is returned.
ExtractIsOverlay ==
    reader.end = "EOF" /\ (reader.how = "tar" => ~fault) /\ Ordinary(layers) =>
        /\ ToSet(out) = Overlay(layers)
        /\ Cardinality({o.entry.path : o \in ToSet(out)}) = Len(out)
=============================================================================
