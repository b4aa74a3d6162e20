--------------------------- MODULE TarballsProofs ---------------------------
(***************************************************************************)
(* What the reader of an extracted image has got at the end of the stream; *)
(* what a saved tarball loads, and what the listener of the save was told. *)
(* For images of any layers.                                               *)
(***************************************************************************)
EXTENDS Tarballs, FiniteSetTheorems, SequenceTheorems, WellFoundedInduction, TLAPS

(***************************************************************************)
(* The invariant of extract.                                               *)
(***************************************************************************)

IsEntry(e) ==
    /\ e.kind \in {"dir", "file", "whiteout"}
    /\ e.path \in Seq(ToSet(e.path)) \ {<<>>}

IsStack(stack) ==
    /\ stack \in Seq(ToSet(stack))
    /\ \A n \in DOMAIN stack : /\ stack[n] \in Seq(ToSet(stack[n]))
                               /\ \A k \in DOMAIN stack[n] : IsEntry(stack[n][k])

\* Entry k of layer n was handled.
Before(n, k) == n > layer \/ (n = layer /\ at = "next" /\ k <= entry)

Past == UNION {{layers[n][k] : k \in {j \in DOMAIN layers[n] : Before(n, j)}} : n \in DOMAIN layers}

\* The map has the names of the entries that were handled, but those it hides, and
\* hides with those that are no directories.
MapOf(map, past) ==
    /\ map.seen \subseteq {NameOf(p) : p \in past}
    /\ map.hides = {name \in map.seen : ~name.slash}
    /\ \A p \in past : NameOf(p) \in map.seen \/ InWhiteoutDir(map, NameOf(p))

\* The reader has what was written, all of it: it still reads, or it was told the end.
Reads == reader.open \/ (reader.end = "EOF" /\ (reader.how = "tar" => ~fault))

\* An entry and the layer it is of.
Outs == [layer : DOMAIN layers, entry : UNION {ToSet(layers[n]) : n \in DOMAIN layers}]

Readers == [how : {"tar", "copy"}, open : BOOLEAN, end : {"", "EOF", "error"}]

ExtractTypeOK ==
    /\ IsStack(layers)
    /\ layer \in 0..Len(layers)
    /\ entry \in Nat
    /\ at \in {"open", "next", "failed", "returned"}
    /\ at = "next" => layer > 0 /\ entry <= Len(layers[layer])
    /\ reader \in Readers
    /\ out \in Seq(Outs)

ReaderOK ==
    /\ reader.open => at \in {"open", "next"} /\ reader.end = ""
    /\ reader.end = "EOF" /\ (reader.how = "tar" => ~fault) => at = "returned" /\ layer = 0

\* What the reader has is the part of the overlay that was gone through.
Written ==
    {o \in Overlay(layers) :
        \E k \in DOMAIN layers[o.layer] : layers[o.layer][k] = o.entry /\ Before(o.layer, k)}

OutIsWritten ==
    /\ ToSet(out) = Written
    /\ \A i, j \in DOMAIN out : out[i].entry.path = out[j].entry.path => i = j

EInv ==
    /\ ExtractTypeOK
    /\ ReaderOK
    /\ at \in {"open", "next"} => MapOf(fileMap, Past)
    /\ Reads /\ Ordinary(layers) => OutIsWritten

(***************************************************************************)
(* Names.                                                                  *)
(***************************************************************************)

\* A path is its own prefix, and the names above a path are its prefixes.
LEMMA NameFacts ==
    ASSUME NEW e, IsEntry(e)
    PROVE  /\ NameOf(e).path = e.path /\ NameOf(e).slash = (e.kind = "dir")
           /\ Len(e.path) \in Nat \ {0} /\ SubSeq(e.path, 1, Len(e.path)) = e.path
<1>1. e.path \in Seq(ToSet(e.path)) /\ e.path # <<>>
  BY DEF IsEntry
<1> QED BY <1>1 DEF NameOf

\* What is among the names above an entry: its proper prefixes, and its path if the
\* entry is a directory (filepath.Dir in inWhiteoutDir).
LEMMA DirsFacts ==
    ASSUME NEW e, IsEntry(e), NEW name
    PROVE  name \in Dirs(NameOf(e)) <=>
             \E n \in 1..Len(e.path) :
                /\ n < Len(e.path) \/ e.kind = "dir"
                /\ name = [path |-> SubSeq(e.path, 1, n), slash |-> FALSE]
<1> DEFINE last == Len(e.path) - (IF e.kind = "dir" THEN 0 ELSE 1)
<1>1. Dirs(NameOf(e)) = {[path |-> SubSeq(e.path, 1, n), slash |-> FALSE] : n \in 1..last}
  BY NameFacts DEF Dirs
<1>2. \A n : n \in 1..last <=> n \in 1..Len(e.path) /\ (n < Len(e.path) \/ e.kind = "dir")
  <2>1. CASE e.kind = "dir"
    BY <2>1, NameFacts
  <2>2. CASE e.kind # "dir"
    BY <2>2, NameFacts
  <2> QED BY <2>1, <2>2
<1> HIDE DEF last
<1> QED BY <1>1, <1>2

\* What is above the name of something above an entry is above the entry.
LEMMA DirsTransitive ==
    ASSUME NEW p, IsEntry(p), NEW e, IsEntry(e), p.kind # "dir",
           NameOf(p) \in Dirs(NameOf(e))
    PROVE  Dirs(NameOf(p)) \subseteq Dirs(NameOf(e))
<1> SUFFICES ASSUME NEW name \in Dirs(NameOf(p)) PROVE name \in Dirs(NameOf(e))
  OBVIOUS
<1>1. PICK n \in 1..Len(e.path) : /\ n < Len(e.path) \/ e.kind = "dir"
                                 /\ NameOf(p) = [path |-> SubSeq(e.path, 1, n), slash |-> FALSE]
  BY DirsFacts
<1>2. PICK k \in 1..Len(p.path) : /\ k < Len(p.path)
                                 /\ name = [path |-> SubSeq(p.path, 1, k), slash |-> FALSE]
  BY DirsFacts
<1>3. p.path = SubSeq(e.path, 1, n)
  BY <1>1, NameFacts
<1>4. e.path \in Seq(ToSet(e.path)) /\ Len(e.path) \in Nat
  BY NameFacts DEF IsEntry
<1>5. Len(p.path) = n
  BY <1>3, <1>4
<1>6. k \in 1..Len(e.path) /\ k < n /\ k < Len(e.path)
  BY <1>2, <1>4, <1>5
<1>7. SubSeq(SubSeq(e.path, 1, n), 1, k) = SubSeq(e.path, 1, k)
  <2>1. SubSeq(e.path, 1, n) \in Seq(ToSet(e.path)) /\ Len(SubSeq(e.path, 1, n)) = n
        /\ \A i \in 1..n : SubSeq(e.path, 1, n)[i] = e.path[i]
    BY <1>4
  <2> HIDE DEF IsEntry
  <2>2. Len(SubSeq(SubSeq(e.path, 1, n), 1, k)) = k
        /\ \A i \in 1..k : SubSeq(SubSeq(e.path, 1, n), 1, k)[i] = e.path[i]
    BY <2>1, <1>6
  <2>3. Len(SubSeq(e.path, 1, k)) = k /\ \A i \in 1..k : SubSeq(e.path, 1, k)[i] = e.path[i]
    BY <1>4, <1>6
  <2>4. SubSeq(SubSeq(e.path, 1, n), 1, k) \in Seq(ToSet(e.path))
    BY <2>1, <1>6
  <2>5. SubSeq(e.path, 1, k) \in Seq(ToSet(e.path))
    BY <1>4, <1>6
  <2> QED BY <2>2, <2>3, <2>4, <2>5, <1>6
<1>8. name = [path |-> SubSeq(e.path, 1, k), slash |-> FALSE]
  BY <1>2, <1>3, <1>7
<1> QED BY <1>6, <1>8, DirsFacts

\* A file or whiteout above an entry hides it, and only that has its name above it.
LEMMA AboveHides ==
    ASSUME NEW p, IsEntry(p), NEW e, IsEntry(e), p.kind # "dir"
    PROVE  /\ NameOf(p) \in Dirs(NameOf(e)) => Hides(p, e)
           /\ IsStrictPrefix(p.path, e.path) => NameOf(p) \in Dirs(NameOf(e))
           /\ p.path = e.path /\ e.kind = "dir" => NameOf(p) \in Dirs(NameOf(e))
<1>1. /\ e.path \in Seq(ToSet(e.path)) /\ Len(e.path) \in Nat \ {0}
      /\ p.path \in Seq(ToSet(p.path)) /\ Len(p.path) \in Nat \ {0}
      /\ SubSeq(p.path, 1, Len(p.path)) = p.path
      /\ SubSeq(e.path, 1, Len(e.path)) = e.path
  BY NameFacts DEF IsEntry
<1>2. NameOf(p) = [path |-> p.path, slash |-> FALSE]
  BY DEF NameOf
<1>3. ASSUME NameOf(p) \in Dirs(NameOf(e))
      PROVE  Hides(p, e)
  <2>1. PICK n \in 1..Len(e.path) : NameOf(p) = [path |-> SubSeq(e.path, 1, n), slash |-> FALSE]
    BY <1>3, DirsFacts
  <2>2. p.path = SubSeq(e.path, 1, n)
    BY <1>2, <2>1
  <2>3. Len(p.path) = n
    BY <1>1, <2>2
  <2> QED BY <1>1, <2>2, <2>3 DEF Hides, IsStrictPrefix, IsPrefix
<1>4. ASSUME IsStrictPrefix(p.path, e.path)
      PROVE  NameOf(p) \in Dirs(NameOf(e))
  <2>1. Len(p.path) <= Len(e.path) /\ p.path = SubSeq(e.path, 1, Len(p.path)) /\ p.path # e.path
    BY <1>4, <1>1 DEF IsStrictPrefix, IsPrefix
  <2>2. Len(p.path) \in 1..Len(e.path) /\ Len(p.path) < Len(e.path)
    BY <2>1, <1>1
  <2> QED BY <2>1, <2>2, <1>2, DirsFacts
<1>5. ASSUME p.path = e.path, e.kind = "dir"
      PROVE  NameOf(p) \in Dirs(NameOf(e))
  <2>1. Len(e.path) \in 1..Len(e.path) /\ p.path = SubSeq(e.path, 1, Len(e.path))
    BY <1>1, <1>5
  <2> QED BY <2>1, <1>2, <1>5, DirsFacts
<1> QED BY <1>3, <1>4, <1>5

(***************************************************************************)
(* The map.                                                                *)
(***************************************************************************)

\* What is skipped has something that was handled over it.
LEMMA SkippedIsHidden ==
    ASSUME NEW map, NEW past, \A p \in past : IsEntry(p), MapOf(map, past),
           NEW e, IsEntry(e), Skipped(map, e)
    PROVE  \E p \in past : Hides(p, e)
<1>1. CASE NameOf(e) \in map.seen
  <2>1. PICK p \in past : NameOf(p) = NameOf(e)
    BY <1>1 DEF MapOf
  <2>2. p.path = e.path
    BY <2>1, NameFacts
  <2> QED BY <2>2 DEF Hides
<1>2. CASE InWhiteoutDir(map, NameOf(e))
  <2>1. PICK name : name \in Dirs(NameOf(e)) /\ name \in map.hides
    BY <1>2 DEF InWhiteoutDir
  <2>2. PICK p \in past : name = NameOf(p) /\ ~name.slash
    BY <2>1 DEF MapOf
  <2>3. p.kind # "dir"
    BY <2>2, NameFacts
  <2> QED BY <2>1, <2>2, <2>3, AboveHides
<1> QED BY <1>1, <1>2 DEF Skipped

\* What has something over it is skipped, unless that is a directory over what is none.
LEMMA HiddenIsSkipped ==
    ASSUME NEW map, NEW past, \A p \in past : IsEntry(p), MapOf(map, past),
           NEW e, IsEntry(e), NEW p \in past, Hides(p, e),
           p.path = e.path /\ p.kind = "dir" => e.kind = "dir"
    PROVE  Skipped(map, e)
<1>1. ASSUME p.kind # "dir", NameOf(p) \in Dirs(NameOf(e))
      PROVE  Skipped(map, e)
  <2>1. CASE NameOf(p) \in map.seen
    <3>1. NameOf(p) \in map.hides
      BY <2>1, <1>1, NameFacts DEF MapOf
    <3> QED BY <3>1, <1>1 DEF Skipped, InWhiteoutDir
  <2>2. CASE InWhiteoutDir(map, NameOf(p))
    <3>1. Dirs(NameOf(p)) \subseteq Dirs(NameOf(e))
      BY <1>1, DirsTransitive
    <3> QED BY <2>2, <3>1 DEF Skipped, InWhiteoutDir
  <2> QED BY <2>1, <2>2 DEF MapOf
<1>2. ASSUME p.path = e.path, p.kind = "dir" <=> e.kind = "dir"
      PROVE  Skipped(map, e)
  <2>1. NameOf(p) = NameOf(e)
    BY <1>2 DEF NameOf
  <2> QED BY <2>1 DEF MapOf, Skipped
<1>3. CASE p.path = e.path
  <2>1. CASE p.kind = "dir"
    BY <1>2, <1>3, <2>1
  <2>2. CASE p.kind # "dir" /\ e.kind # "dir"
    BY <1>2, <1>3, <2>2
  <2>3. CASE p.kind # "dir" /\ e.kind = "dir"
    BY <1>1, <1>3, <2>3, AboveHides
  <2> QED BY <2>1, <2>2, <2>3
<1>4. CASE IsStrictPrefix(p.path, e.path) /\ p.kind # "dir"
  BY <1>1, <1>4, AboveHides
<1> QED BY <1>3, <1>4 DEF Hides

\* One more entry is handled.
LEMMA MapOfNext ==
    ASSUME NEW map, NEW past, MapOf(map, past), NEW e, IsEntry(e)
    PROVE  MapOf(IF Skipped(map, e) THEN map ELSE Handled(map, e), past \cup {e})
<1>1. CASE Skipped(map, e)
  BY <1>1 DEF MapOf, Skipped
<1>2. CASE ~Skipped(map, e)
  <2> DEFINE new == Handled(map, e)
  <2>1. /\ new.seen = map.seen \cup {NameOf(e)}
        /\ new.hides = map.hides \cup (IF e.kind = "dir" THEN {} ELSE {NameOf(e)})
    BY DEF Handled
  <2> HIDE DEF new
  <2>2. new.hides = {name \in new.seen : ~name.slash}
    <3>1. NameOf(e).slash <=> e.kind = "dir"
      BY NameFacts
    <3>2. map.hides = {name \in map.seen : ~name.slash}
      BY DEF MapOf
    <3> QED BY <2>1, <3>1, <3>2
  <2>3. new.seen \subseteq {NameOf(p) : p \in past \cup {e}}
    BY <2>1 DEF MapOf
  <2>4. \A p \in past \cup {e} : NameOf(p) \in new.seen \/ InWhiteoutDir(new, NameOf(p))
    BY <2>1 DEF MapOf, InWhiteoutDir
  <2>5. MapOf(new, past \cup {e})
    BY <2>2, <2>3, <2>4 DEF MapOf
  <2> QED BY <1>2, <2>5 DEF new
<1> QED BY <1>1, <1>2

(***************************************************************************)
(* The steps of extract.                                                   *)
(***************************************************************************)

\* Entry e of layer n is in the overlay.
Shown(stack, n, e) ==
    /\ e.kind # "whiteout"
    /\ \A m \in (n + 1)..Len(stack) : \A upper \in ToSet(stack[m]) : ~Hides(upper, e)

\* The members of an overlay.
LEMMA InOverlay ==
    ASSUME NEW stack, NEW o
    PROVE  o \in Overlay(stack) <=>
             \E n \in 1..Len(stack) : \E e \in ToSet(stack[n]) :
                 o = [layer |-> n, entry |-> e] /\ Shown(stack, n, e)
  BY DEF Overlay, Shown

\* The members of what was handled.
LEMMA InPast ==
    ASSUME NEW e
    PROVE  e \in Past <=> \E n \in DOMAIN layers : \E k \in DOMAIN layers[n] :
                              Before(n, k) /\ e = layers[n][k]
  BY DEF Past

\* The members of the part of the overlay that was gone through.
LEMMA InWritten ==
    ASSUME IsStack(layers), NEW o
    PROVE  o \in Written <=> \E n \in DOMAIN layers : \E k \in DOMAIN layers[n] :
                                 /\ Before(n, k) /\ Shown(layers, n, layers[n][k])
                                 /\ o = [layer |-> n, entry |-> layers[n][k]]
<1>1. DOMAIN layers = 1..Len(layers)
  BY DEF IsStack
<1>2. ASSUME o \in Written
      PROVE  \E n \in DOMAIN layers : \E k \in DOMAIN layers[n] :
                 /\ Before(n, k) /\ Shown(layers, n, layers[n][k])
                 /\ o = [layer |-> n, entry |-> layers[n][k]]
  <2>1. o \in Overlay(layers)
    BY <1>2 DEF Written
  <2>2. PICK n \in 1..Len(layers) : \E e \in ToSet(layers[n]) :
          o = [layer |-> n, entry |-> e] /\ Shown(layers, n, e)
    BY <2>1, InOverlay
  <2>3. PICK k \in DOMAIN layers[o.layer] : layers[o.layer][k] = o.entry /\ Before(o.layer, k)
    BY <1>2 DEF Written
  <2> QED BY <1>1, <2>2, <2>3
<1>3. ASSUME NEW n \in DOMAIN layers, NEW k \in DOMAIN layers[n],
             Before(n, k), Shown(layers, n, layers[n][k]),
             o = [layer |-> n, entry |-> layers[n][k]]
      PROVE  o \in Written
  <2>1. o \in Overlay(layers)
    BY <1>1, <1>3, InOverlay DEF ToSet
  <2>2. layers[o.layer][k] = o.entry /\ Before(o.layer, k) /\ k \in DOMAIN layers[o.layer]
    BY <1>3
  <2> QED BY <2>1, <2>2 DEF Written
<1> QED BY <1>2, <1>3

\* Only the next entry adds to what was handled.
LEMMA SameBefore ==
    ASSUME UNCHANGED layers,
           \A n \in DOMAIN layers : \A k \in DOMAIN layers[n] : Before(n, k)' <=> Before(n, k)
    PROVE  Past' = Past /\ Written' = Written
<1>1. Past' = Past
  <2>1. \A n \in DOMAIN layers : {k \in DOMAIN layers[n] : Before(n, k)'} = {k \in DOMAIN layers[n] : Before(n, k)}
    OBVIOUS
  <2> QED BY <2>1 DEF Past
<1>2. Written' = Written
  <2>1. \A o \in Overlay(layers) : o.layer \in DOMAIN layers
    BY InOverlay
  <2> QED BY <2>1 DEF Written
<1> QED BY <1>1, <1>2

\* Layers and entries are what the type says.
LEMMA LayerFacts ==
    ASSUME IsStack(layers)
    PROVE  /\ DOMAIN layers = 1..Len(layers) /\ Len(layers) \in Nat
           /\ \A n \in DOMAIN layers :
                 /\ DOMAIN layers[n] = 1..Len(layers[n]) /\ Len(layers[n]) \in Nat
                 /\ \A k \in DOMAIN layers[n] : IsEntry(layers[n][k])
  BY DEF IsStack

\* A step that opens or leaves a layer, or ends, and keeps what was handled and written.
LEMMA QuietStep ==
    ASSUME EInv, UNCHANGED <<layers, fileMap, out>>, ExtractTypeOK', ReaderOK',
           Reads' => Reads, at' \in {"open", "next"} => at \in {"open", "next"},
           Past' = Past, Written' = Written
    PROVE  EInv'
<1>1. UNCHANGED layers /\ UNCHANGED fileMap /\ UNCHANGED out
  OBVIOUS
<1>2. (at \in {"open", "next"} => MapOf(fileMap, Past))'
  BY <1>1 DEF EInv, MapOf, InWhiteoutDir
<1>3. (Reads /\ Ordinary(layers) => OutIsWritten)'
  <2>1. Ordinary(layers)' <=> Ordinary(layers)
    BY <1>1
  <2> QED BY <1>1, <2>1 DEF EInv, OutIsWritten
<1> QED BY <1>2, <1>3 DEF EInv

LEMMA OpenLayerKeeps ==
    ASSUME EInv, OpenLayer
    PROVE  EInv'
<1>1. ExtractTypeOK /\ ReaderOK /\ IsStack(layers) /\ Len(layers) \in Nat
  BY LayerFacts DEF EInv, ExtractTypeOK
<1>2. at = "open" /\ layer > 0 /\ at' = "next" /\ entry' = 0
      /\ layers' = layers /\ layer' = layer /\ fileMap' = fileMap /\ out' = out
      /\ reader' = reader /\ fault' = fault
  BY DEF OpenLayer
<1>3. ExtractTypeOK'
  <2>1. layer \in DOMAIN layers
    <3>1. layer \in 1..Len(layers)
      BY <1>1, <1>2 DEF ExtractTypeOK
    <3> QED BY <1>1, <3>1, LayerFacts
  <2>2. 0 <= Len(layers[layer])
    BY <1>1, <2>1, LayerFacts
  <2>3. Outs' = Outs
    BY <1>2 DEF Outs
  <2> QED BY <1>1, <1>2, <2>2, <2>3 DEF ExtractTypeOK
<1>4. ReaderOK'
  BY <1>1, <1>2 DEF ReaderOK
<1>5. \A n \in DOMAIN layers : \A k \in DOMAIN layers[n] : Before(n, k)' <=> Before(n, k)
  BY <1>1, <1>2, LayerFacts DEF Before
<1>6. Past' = Past /\ Written' = Written
  BY <1>2, <1>5, SameBefore
<1>7. Reads' => Reads
  BY <1>2 DEF Reads
<1> QED BY <1>2, <1>3, <1>4, <1>6, <1>7, QuietStep

LEMMA EndOfLayerKeeps ==
    ASSUME EInv, EndOfLayer
    PROVE  EInv'
<1>1. ExtractTypeOK /\ ReaderOK /\ IsStack(layers) /\ Len(layers) \in Nat
  BY LayerFacts DEF EInv, ExtractTypeOK
<1>2. at = "next" /\ entry = Len(layers[layer]) /\ at' = "open" /\ layer' = layer - 1
      /\ layers' = layers /\ entry' = entry /\ fileMap' = fileMap /\ out' = out
      /\ reader' = reader /\ fault' = fault
  BY DEF EndOfLayer
<1>3. layer \in 1..Len(layers)
  BY <1>1, <1>2 DEF ExtractTypeOK
<1>4. ExtractTypeOK'
  <2>1. Outs' = Outs
    BY <1>2 DEF Outs
  <2>2. layer' \in 0..Len(layers)
    BY <1>1, <1>2, <1>3
  <2> QED BY <1>1, <1>2, <2>1, <2>2 DEF ExtractTypeOK
<1>5. ReaderOK'
  BY <1>1, <1>2 DEF ReaderOK
<1>6. \A n \in DOMAIN layers : \A k \in DOMAIN layers[n] : Before(n, k)' <=> Before(n, k)
  <2> SUFFICES ASSUME NEW n \in DOMAIN layers, NEW k \in DOMAIN layers[n]
               PROVE  Before(n, k)' <=> Before(n, k)
    OBVIOUS
  <2>1. n \in 1..Len(layers) /\ k \in 1..Len(layers[n]) /\ Len(layers[n]) \in Nat
    BY <1>1, LayerFacts
  <2>2. CASE n = layer
    BY <1>2, <1>3, <2>1, <2>2 DEF Before
  <2>3. CASE n # layer
    BY <1>2, <1>3, <2>1, <2>3 DEF Before
  <2> QED BY <2>2, <2>3
<1>7. Past' = Past /\ Written' = Written
  BY <1>2, <1>6, SameBefore
<1>8. Reads' => Reads
  BY <1>2 DEF Reads
<1> QED BY <1>2, <1>4, <1>5, <1>7, <1>8, QuietStep

LEMMA DoneKeeps ==
    ASSUME EInv, Done
    PROVE  EInv'
<1>1. ExtractTypeOK /\ ReaderOK /\ IsStack(layers) /\ Len(layers) \in Nat
  BY LayerFacts DEF EInv, ExtractTypeOK
<1>2. at = "open" /\ layer = 0 /\ at' = "returned"
      /\ layers' = layers /\ layer' = layer /\ entry' = entry /\ fileMap' = fileMap
      /\ out' = out /\ fault' = fault
  BY DEF Done, CloseStream
<1>3. reader' = IF reader.open THEN [reader EXCEPT !.open = FALSE, !.end = "EOF"] ELSE reader
  BY DEF Done, CloseStream
<1>4. reader \in Readers
  BY <1>1 DEF ExtractTypeOK
<1>5. ExtractTypeOK'
  <2>1. Outs' = Outs
    BY <1>2 DEF Outs
  <2>2. reader' \in Readers
    BY <1>3, <1>4 DEF Readers
  <2> QED BY <1>1, <1>2, <2>1, <2>2 DEF ExtractTypeOK
<1>6. ReaderOK'
  <2>1. ~reader'.open
    BY <1>3, <1>4 DEF Readers
  <2> QED BY <2>1, <1>2 DEF ReaderOK
<1>7. \A n \in DOMAIN layers : \A k \in DOMAIN layers[n] : Before(n, k)' <=> Before(n, k)
  BY <1>2 DEF Before
<1>8. Past' = Past /\ Written' = Written
  BY <1>2, <1>7, SameBefore
<1>9. Reads' => Reads
  BY <1>2, <1>3 DEF Reads
<1> QED BY <1>2, <1>5, <1>6, <1>8, <1>9, QuietStep

\* A stream that a reader has left, or that failed, is none the reader has all of.
LEMMA LostStep ==
    ASSUME EInv, UNCHANGED <<layers, fileMap>>, ExtractTypeOK', ReaderOK', ~Reads',
           at' \in {"open", "next"} => Past' = Past /\ at \in {"open", "next"}
    PROVE  EInv'
<1>1. UNCHANGED layers /\ UNCHANGED fileMap
  OBVIOUS
<1>2. (at \in {"open", "next"} => MapOf(fileMap, Past))'
  BY <1>1 DEF EInv, MapOf, InWhiteoutDir
<1> QED BY <1>2 DEF EInv

LEMMA FaultKeeps ==
    ASSUME EInv, Fault
    PROVE  EInv'
<1>1. ExtractTypeOK /\ ReaderOK /\ IsStack(layers) /\ Len(layers) \in Nat
  BY LayerFacts DEF EInv, ExtractTypeOK
<1>2. at \in {"open", "next"} /\ at' = "failed" /\ fault' = TRUE
      /\ layers' = layers /\ layer' = layer /\ entry' = entry /\ fileMap' = fileMap
      /\ out' = out
  BY DEF Fault, CloseStream
<1>3. reader' = IF reader.open
                  THEN [reader EXCEPT !.open = FALSE,
                            !.end = IF reader.how = "tar" THEN "EOF" ELSE "error"]
                  ELSE reader
  BY DEF Fault, CloseStream
<1>4. reader \in Readers
  BY <1>1 DEF ExtractTypeOK
<1>5. ExtractTypeOK'
  <2>1. Outs' = Outs
    BY <1>2 DEF Outs
  <2>2. reader' \in Readers
    BY <1>3, <1>4 DEF Readers
  <2> QED BY <1>1, <1>2, <2>1, <2>2 DEF ExtractTypeOK
<1>6. ~reader'.open /\ reader'.how = reader.how
  BY <1>3, <1>4 DEF Readers
<1>7. ~(reader'.end = "EOF" /\ reader'.how = "copy")
  <2>1. CASE reader.open
    BY <1>3, <1>4, <2>1 DEF Readers
  <2>2. CASE ~reader.open
    BY <1>1, <1>2, <1>3, <2>2 DEF ReaderOK
  <2> QED BY <2>1, <2>2
<1>8. ~(reader'.end = "EOF" /\ (reader'.how = "tar" => ~fault'))
  BY <1>2, <1>4, <1>6, <1>7 DEF Readers
<1>9. ReaderOK' /\ ~Reads'
  BY <1>2, <1>6, <1>8 DEF ReaderOK, Reads
<1> QED BY <1>2, <1>5, <1>9, LostStep

LEMMA CloseReaderKeeps ==
    ASSUME EInv, CloseReader
    PROVE  EInv'
<1>1. ExtractTypeOK /\ ReaderOK /\ IsStack(layers) /\ Len(layers) \in Nat
  BY LayerFacts DEF EInv, ExtractTypeOK
<1>2. reader.open /\ reader' = [reader EXCEPT !.open = FALSE]
      /\ layers' = layers /\ layer' = layer /\ entry' = entry /\ fileMap' = fileMap
      /\ at' = at /\ out' = out /\ fault' = fault
  BY DEF CloseReader
<1>3. reader \in Readers
  BY <1>1 DEF ExtractTypeOK
<1>4. ExtractTypeOK'
  <2>1. Outs' = Outs
    BY <1>2 DEF Outs
  <2>2. reader' \in Readers
    BY <1>2, <1>3 DEF Readers
  <2> QED BY <1>1, <1>2, <2>1, <2>2 DEF ExtractTypeOK
<1>5. reader'.end = "" /\ ~reader'.open
  BY <1>1, <1>2, <1>3 DEF ReaderOK, Readers
<1>6. ReaderOK' /\ ~Reads'
  BY <1>5 DEF ReaderOK, Reads
<1>7. at \in {"open", "next"}
  BY <1>1, <1>2 DEF ReaderOK
<1>8. Past' = Past
  BY <1>2 DEF Past, Before
<1> QED BY <1>2, <1>4, <1>6, <1>7, <1>8, LostStep

(***************************************************************************)
(* The next entry.                                                         *)
(***************************************************************************)

Upcoming == layers[layer][entry + 1]

\* The next entry is one of the layer it is in, and was not handled.
LEMMA NextFacts ==
    ASSUME EInv, at = "next", entry < Len(layers[layer])
    PROVE  /\ layer \in DOMAIN layers /\ entry + 1 \in DOMAIN layers[layer]
           /\ IsEntry(Upcoming) /\ ~Before(layer, entry + 1)
           /\ \A p \in Past : IsEntry(p)
<1>1. IsStack(layers) /\ layer \in 0..Len(layers) /\ layer > 0 /\ entry \in Nat
  BY DEF EInv, ExtractTypeOK
<1>2. layer \in DOMAIN layers
  BY <1>1, LayerFacts
<1>3. entry + 1 \in DOMAIN layers[layer]
  BY <1>1, <1>2, LayerFacts
<1>4. IsEntry(Upcoming)
  BY <1>1, <1>2, <1>3, LayerFacts DEF Upcoming
<1>5. ~Before(layer, entry + 1)
  <2>1. layer \in Nat
    BY <1>1, LayerFacts
  <2> QED BY <1>1, <2>1 DEF Before
<1>6. \A p \in Past : IsEntry(p)
  BY <1>1, LayerFacts, InPast
<1> QED BY <1>2, <1>3, <1>4, <1>5, <1>6

\* In an ordinary image the next entry is written when it is of the overlay, for what
\* is over it is of a layer above, and all those were handled.
LEMMA WritesShown ==
    ASSUME EInv, at = "next", entry < Len(layers[layer]), MapOf(fileMap, Past),
           Ordinary(layers), Upcoming.kind # "whiteout"
    PROVE  Skipped(fileMap, Upcoming) <=> ~Shown(layers, layer, Upcoming)
<1>1. IsStack(layers) /\ layer \in 1..Len(layers) /\ Len(layers) \in Nat /\ entry \in Nat
  BY LayerFacts DEF EInv, ExtractTypeOK
<1>2. ASSUME Skipped(fileMap, Upcoming)
      PROVE  ~Shown(layers, layer, Upcoming)
  <2>1. PICK p \in Past : Hides(p, Upcoming)
    BY <1>2, NextFacts, SkippedIsHidden
  <2>2. PICK n \in DOMAIN layers : \E k \in DOMAIN layers[n] : Before(n, k) /\ p = layers[n][k]
    BY InPast
  <2>3. PICK k \in DOMAIN layers[n] : Before(n, k) /\ p = layers[n][k]
    BY <2>2
  <2>4. n \in 1..Len(layers) /\ k \in 1..Len(layers[n]) /\ Len(layers[n]) \in Nat
    BY <1>1, <2>3, LayerFacts
  <2>5. CASE n = layer
    <3>1. k # entry + 1
      BY <2>3, <2>5, NextFacts
    <3>2. k \in 1..Len(layers[layer]) /\ entry + 1 \in 1..Len(layers[layer])
      BY <1>1, <2>4, <2>5
    <3>3. ~Hides(layers[layer][k], layers[layer][entry + 1])
      BY <1>1, <3>1, <3>2 DEF Ordinary
    <3> QED BY <2>1, <2>3, <2>5, <3>3 DEF Upcoming
  <2>6. CASE n # layer
    <3>1. n \in (layer + 1)..Len(layers)
      BY <1>1, <2>3, <2>4, <2>6 DEF Before
    <3>2. p \in ToSet(layers[n])
      BY <2>3 DEF ToSet
    <3> QED BY <2>1, <3>1, <3>2 DEF Shown
  <2> QED BY <2>5, <2>6
<1>3. ASSUME ~Shown(layers, layer, Upcoming)
      PROVE  Skipped(fileMap, Upcoming)
  <2>1. PICK m \in (layer + 1)..Len(layers) : \E upper \in ToSet(layers[m]) : Hides(upper, Upcoming)
    BY <1>3 DEF Shown
  <2>2. PICK upper \in ToSet(layers[m]) : Hides(upper, Upcoming)
    BY <2>1
  <2>3. PICK k \in DOMAIN layers[m] : upper = layers[m][k]
    BY DEF ToSet
  <2>4. m \in DOMAIN layers /\ m \in 1..Len(layers) /\ m > layer
    BY <1>1, LayerFacts
  <2>5. upper \in Past
    BY <2>3, <2>4, InPast DEF Before
  <2>6. upper.path = Upcoming.path /\ upper.kind = "dir" => Upcoming.kind = "dir"
    <3>1. layer < m /\ Upcoming \in ToSet(layers[layer])
      BY <1>1, <2>4, NextFacts DEF Upcoming, ToSet
    <3>2. upper.path = Upcoming.path /\ upper.kind = "dir" => Upcoming.kind # "file"
      BY <1>1, <2>2, <2>4, <3>1 DEF Ordinary
    <3> QED BY <3>2, NextFacts DEF IsEntry
  <2> QED BY <2>2, <2>5, <2>6, NextFacts, HiddenIsSkipped
<1> QED BY <1>2, <1>3

\* One entry more was handled.
LEMMA PastNext ==
    ASSUME EInv, at = "next", entry < Len(layers[layer]), UNCHANGED layers, UNCHANGED layer,
           entry' = entry + 1, at' = "next"
    PROVE  /\ Past' = Past \cup {Upcoming}
           /\ Written' = Written \cup (IF Shown(layers, layer, Upcoming)
                                         THEN {[layer |-> layer, entry |-> Upcoming]} ELSE {})
<1>1. IsStack(layers) /\ layer \in 1..Len(layers) /\ Len(layers) \in Nat /\ entry \in Nat
  BY LayerFacts DEF EInv, ExtractTypeOK
<1>2. \A n \in DOMAIN layers : \A k \in DOMAIN layers[n] :
          Before(n, k)' <=> Before(n, k) \/ (n = layer /\ k = entry + 1)
  <2> SUFFICES ASSUME NEW n \in DOMAIN layers, NEW k \in DOMAIN layers[n]
               PROVE  Before(n, k)' <=> Before(n, k) \/ (n = layer /\ k = entry + 1)
    OBVIOUS
  <2>1. n \in Nat /\ k \in Nat
    BY <1>1, LayerFacts
  <2> QED BY <1>1, <2>1 DEF Before
<1>3. layer \in DOMAIN layers /\ entry + 1 \in DOMAIN layers[layer]
  BY NextFacts
<1>4. Past' = Past \cup {Upcoming}
  <2>1. \A e : e \in Past' <=> \E n \in DOMAIN layers : \E k \in DOMAIN layers[n] :
                              Before(n, k)' /\ e = layers[n][k]
    BY DEF Past
  <2>2. \A e : e \in Past' <=> e \in Past \/ e = Upcoming
    BY <1>2, <1>3, <2>1, InPast DEF Upcoming
  <2> QED BY <2>2
<1>5. \A o : o \in Written' <=> \E n \in DOMAIN layers : \E k \in DOMAIN layers[n] :
                 /\ Before(n, k)' /\ Shown(layers, n, layers[n][k])
                 /\ o = [layer |-> n, entry |-> layers[n][k]]
  <2>1. \A o : o \in Written' <=>
            /\ o \in Overlay(layers)
            /\ \E k \in DOMAIN layers[o.layer] : layers[o.layer][k] = o.entry /\ Before(o.layer, k)'
    BY DEF Written
  <2> TAKE o
  <2>2. ASSUME o \in Written'
        PROVE  \E n \in DOMAIN layers : \E k \in DOMAIN layers[n] :
                 /\ Before(n, k)' /\ Shown(layers, n, layers[n][k])
                 /\ o = [layer |-> n, entry |-> layers[n][k]]
    <3>1. PICK n \in 1..Len(layers) : \E e \in ToSet(layers[n]) :
              o = [layer |-> n, entry |-> e] /\ Shown(layers, n, e)
      BY <2>1, <2>2, InOverlay
    <3>2. PICK k \in DOMAIN layers[o.layer] :
              layers[o.layer][k] = o.entry /\ Before(o.layer, k)'
      BY <2>1, <2>2
    <3> QED BY <1>1, <3>1, <3>2, LayerFacts
  <2>3. ASSUME NEW n \in DOMAIN layers, NEW k \in DOMAIN layers[n],
               Before(n, k)', Shown(layers, n, layers[n][k]),
               o = [layer |-> n, entry |-> layers[n][k]]
        PROVE  o \in Written'
    <3>1. o \in Overlay(layers)
      BY <1>1, <2>3, LayerFacts, InOverlay DEF ToSet
    <3>2. layers[o.layer][k] = o.entry /\ Before(o.layer, k)' /\ k \in DOMAIN layers[o.layer]
      BY <2>3
    <3> QED BY <2>1, <3>1, <3>2
  <2> QED BY <2>2, <2>3
<1>6. \A o : o \in Written' <=>
          \/ o \in Written
          \/ Shown(layers, layer, Upcoming) /\ o = [layer |-> layer, entry |-> Upcoming]
  BY <1>1, <1>2, <1>3, <1>5, InWritten DEF Upcoming
<1> QED BY <1>4, <1>6

\* What the reader gets is new to it.
LEMMA AppendOut ==
    ASSUME EInv, at = "next", entry < Len(layers[layer]), MapOf(fileMap, Past), OutIsWritten,
           ~Skipped(fileMap, Upcoming), Shown(layers, layer, Upcoming), Ordinary(layers),
           NEW o, o = [layer |-> layer, entry |-> Upcoming]
    PROVE  /\ ToSet(Append(out, o)) = Written \cup {o}
           /\ \A i, j \in DOMAIN Append(out, o) :
                 Append(out, o)[i].entry.path = Append(out, o)[j].entry.path => i = j
<1>1. out \in Seq(Outs) /\ IsStack(layers)
  BY DEF EInv, ExtractTypeOK
<1>2. /\ DOMAIN Append(out, o) = DOMAIN out \cup {Len(out) + 1}
      /\ Append(out, o)[Len(out) + 1] = o
      /\ \A i \in DOMAIN out : Append(out, o)[i] = out[i] /\ i # Len(out) + 1
  BY <1>1
<1>3. ToSet(Append(out, o)) = Written \cup {o}
  BY <1>2 DEF OutIsWritten, ToSet
<1>4. \A i \in DOMAIN out : out[i].entry.path # Upcoming.path
  <2> SUFFICES ASSUME NEW i \in DOMAIN out, out[i].entry.path = Upcoming.path
               PROVE  FALSE
    OBVIOUS
  <2>1. out[i] \in Written
    BY DEF OutIsWritten, ToSet
  <2>2. PICK n \in DOMAIN layers : \E k \in DOMAIN layers[n] :
                 Before(n, k) /\ out[i] = [layer |-> n, entry |-> layers[n][k]]
    BY <1>1, <2>1, InWritten
  <2>3. PICK k \in DOMAIN layers[n] :
                 Before(n, k) /\ out[i] = [layer |-> n, entry |-> layers[n][k]]
    BY <2>2
  <2>4. layers[n][k] \in Past /\ layers[n][k].path = Upcoming.path
    BY <2>3, InPast
  <2>5. Hides(layers[n][k], Upcoming)
    BY <2>4 DEF Hides
  <2>6. n \in 1..Len(layers) /\ Len(layers) \in Nat /\ layer \in 1..Len(layers)
        /\ k \in 1..Len(layers[n]) /\ entry \in Nat
    BY <1>1, <2>3, LayerFacts, NextFacts DEF EInv, ExtractTypeOK
  <2>7. CASE n = layer
    <3>1. k # entry + 1
      BY <2>3, <2>7, NextFacts
    <3>2. k \in 1..Len(layers[layer]) /\ entry + 1 \in 1..Len(layers[layer])
      BY <1>1, <2>6, <2>7, LayerFacts, NextFacts
    <3>3. ~Hides(layers[layer][k], layers[layer][entry + 1])
      BY <2>6, <3>1, <3>2 DEF Ordinary
    <3> QED BY <2>5, <2>7, <3>3 DEF Upcoming
  <2>8. CASE n # layer
    <3>1. n \in (layer + 1)..Len(layers)
      BY <2>3, <2>6, <2>8 DEF Before
    <3>2. layers[n][k] \in ToSet(layers[n])
      BY <2>3 DEF ToSet
    <3> QED BY <2>5, <3>1, <3>2 DEF Shown
  <2> QED BY <2>7, <2>8
<1>5. o.entry = Upcoming
  OBVIOUS
<1>6. \A i, j \in DOMAIN Append(out, o) :
          Append(out, o)[i].entry.path = Append(out, o)[j].entry.path => i = j
  <2> SUFFICES ASSUME NEW i \in DOMAIN Append(out, o), NEW j \in DOMAIN Append(out, o),
                      Append(out, o)[i].entry.path = Append(out, o)[j].entry.path
               PROVE  i = j
    OBVIOUS
  <2>1. CASE i \in DOMAIN out /\ j \in DOMAIN out
    BY <1>2, <2>1 DEF OutIsWritten
  <2>2. CASE i \in DOMAIN out /\ j = Len(out) + 1
    BY <1>2, <1>4, <1>5, <2>2
  <2>3. CASE i = Len(out) + 1 /\ j \in DOMAIN out
    BY <1>2, <1>4, <1>5, <2>3
  <2> QED BY <1>2, <2>1, <2>2, <2>3
<1> QED BY <1>3, <1>6

LEMMA NextEntryKeeps ==
    ASSUME EInv, NextEntry
    PROVE  EInv'
<1> DEFINE writes == ~Skipped(fileMap, Upcoming) /\ Upcoming.kind # "whiteout"
           o == [layer |-> layer, entry |-> Upcoming]
<1>1. ExtractTypeOK /\ ReaderOK /\ IsStack(layers) /\ Len(layers) \in Nat /\ entry \in Nat
  BY LayerFacts DEF EInv, ExtractTypeOK
<1>2. at = "next" /\ entry < Len(layers[layer]) /\ entry' = entry + 1
      /\ layers' = layers /\ layer' = layer /\ fault' = fault
  BY DEF NextEntry
<1>3. /\ fileMap' = IF Skipped(fileMap, Upcoming) THEN fileMap ELSE Handled(fileMap, Upcoming)
      /\ out' = IF writes /\ reader.open THEN Append(out, o) ELSE out
      /\ IF writes /\ ~reader.open /\ Upcoming.kind = "file" THEN CloseStream("failed")
         ELSE at' = at /\ reader' = reader
  BY DEF NextEntry, Upcoming
<1>4. reader' = reader /\ (reader.open => at' = at) /\ at' \in {"next", "failed"}
  BY <1>2, <1>3 DEF CloseStream
<1>5. layer \in DOMAIN layers /\ entry + 1 \in DOMAIN layers[layer] /\ IsEntry(Upcoming)
  BY <1>2, NextFacts
<1>6. ExtractTypeOK'
  <2>1. Outs' = Outs
    BY <1>2 DEF Outs
  <2>2. o \in Outs
    <3>1. Upcoming \in ToSet(layers[layer])
      BY <1>5 DEF Upcoming, ToSet
    <3> QED BY <1>5, <3>1 DEF Outs
  <2>3. out' \in Seq(Outs)
    <3>1. out \in Seq(Outs)
      BY <1>1 DEF ExtractTypeOK
    <3> HIDE DEF o
    <3> QED BY <1>3, <2>2, <3>1
  <2>4. entry + 1 <= Len(layers[layer])
    BY <1>1, <1>5, LayerFacts
  <2> HIDE DEF o, writes
  <2> QED BY <1>1, <1>2, <1>4, <2>1, <2>3, <2>4 DEF ExtractTypeOK
<1>7. ReaderOK'
  BY <1>1, <1>2, <1>4 DEF ReaderOK
<1>8. at' = "next" =>
        /\ Past' = Past \cup {Upcoming}
        /\ Written' = Written \cup (IF Shown(layers, layer, Upcoming) THEN {o} ELSE {})
  BY <1>2, PastNext
<1>9. MapOf(fileMap, Past)
  BY <1>2 DEF EInv
<1>10. ASSUME at' \in {"open", "next"}
       PROVE  MapOf(fileMap, Past)'
  <2>1. Past' = Past \cup {Upcoming}
    BY <1>4, <1>8, <1>10
  <2>2. MapOf(IF Skipped(fileMap, Upcoming) THEN fileMap ELSE Handled(fileMap, Upcoming), Past \cup {Upcoming})
    BY <1>5, <1>9, MapOfNext
  <2>3. MapOf(fileMap', Past')
    BY <1>3, <2>1, <2>2
  <2> QED BY <2>3 DEF MapOf, InWhiteoutDir
<1>11. ASSUME Reads', Ordinary(layers)'
       PROVE  OutIsWritten'
  <2>1. reader.open
    BY <1>1, <1>2, <1>4, <1>11 DEF Reads, ReaderOK
  <2>2. Ordinary(layers)
    BY <1>2, <1>11
  <2>3. OutIsWritten
    BY <2>1, <2>2 DEF EInv, Reads
  <2>4. Written' = Written \cup (IF Shown(layers, layer, Upcoming) THEN {o} ELSE {})
    BY <1>2, <1>4, <1>8, <2>1
  <2>5. CASE writes
    <3>1. Shown(layers, layer, Upcoming) /\ ~Skipped(fileMap, Upcoming)
      BY <1>2, <1>9, <2>2, <2>5, WritesShown
    <3>2. out' = Append(out, o)
      BY <1>3, <2>1, <2>5
    <3>3. Written' = Written \cup {o}
      BY <2>4, <3>1
    <3>4. /\ ToSet(Append(out, o)) = Written \cup {o}
          /\ \A i, j \in DOMAIN Append(out, o) :
                 Append(out, o)[i].entry.path = Append(out, o)[j].entry.path => i = j
      BY <1>2, <1>9, <2>2, <2>3, <3>1, AppendOut
    <3> HIDE DEF o
    <3> QED BY <3>2, <3>3, <3>4 DEF OutIsWritten
  <2>6. CASE ~writes
    <3>1. ~Shown(layers, layer, Upcoming)
      <4>1. CASE Upcoming.kind = "whiteout"
        BY <4>1 DEF Shown
      <4>2. CASE Upcoming.kind # "whiteout"
        BY <1>2, <1>9, <2>2, <2>6, <4>2, WritesShown
      <4> QED BY <4>1, <4>2
    <3>2. out' = out
      BY <1>3, <2>6
    <3>3. Written' = Written
      BY <2>4, <3>1
    <3> QED BY <2>3, <3>2, <3>3 DEF OutIsWritten
  <2> QED BY <2>5, <2>6
<1> QED BY <1>6, <1>7, <1>10, <1>11 DEF EInv

(***************************************************************************)
(* The theorem.                                                            *)
(***************************************************************************)

\* A sequence whose members' paths differ has as many paths as members.
LEMMA DistinctPaths ==
    ASSUME NEW T, NEW s \in Seq(T),
           \A i, j \in DOMAIN s : s[i].entry.path = s[j].entry.path => i = j
    PROVE  Cardinality({o.entry.path : o \in ToSet(s)}) = Len(s)
<1> DEFINE Paths == {o.entry.path : o \in ToSet(s)}
           f == [i \in 1..Len(s) |-> s[i].entry.path]
<1>1. Len(s) \in Nat /\ DOMAIN s = 1..Len(s)
  OBVIOUS
<1>2. f \in Bijection(1..Len(s), Paths)
  <2>1. f \in [1..Len(s) -> Paths]
    BY <1>1 DEF ToSet
  <2>2. \A i, j \in 1..Len(s) : f[i] = f[j] => i = j
    BY <1>1
  <2>3. \A path \in Paths : \E i \in 1..Len(s) : f[i] = path
    BY <1>1 DEF ToSet
  <2> HIDE DEF f, Paths
  <2> QED BY <2>1, <2>2, <2>3 DEF Bijection, Injection, Surjection, IsInjective
<1>3. IsFiniteSet(1..Len(s)) /\ Cardinality(1..Len(s)) = Len(s)
  BY <1>1, FS_Interval
<1> HIDE DEF f, Paths
<1>4. Cardinality(Paths) = Cardinality(1..Len(s))
  BY <1>2, <1>3, FS_Bijection DEF ExistsBijection
<1> QED BY <1>3, <1>4 DEF Paths

\* An export of an image, or none, begins with nothing handled and nothing written.
LEMMA ExtractInitHolds ==
    ASSUME NEW stacks, \A stack \in stacks : IsStack(stack), ExtractInit(stacks)
    PROVE  EInv
<1>1. IsStack(layers)
  BY DEF ExtractInit
<1>2. layer = Len(layers) /\ entry = 0 /\ at = "open"
  BY DEF ExtractInit
<1>3. out = <<>>
  BY DEF ExtractInit
<1>4. fileMap.seen = {} /\ fileMap.hides = {}
  BY DEF ExtractInit
<1>5. reader \in Readers /\ reader.open /\ reader.end = ""
  BY DEF ExtractInit, Readers
<1>6. Len(layers) \in Nat /\ DOMAIN layers = 1..Len(layers)
  BY <1>1, LayerFacts
<1>7. ExtractTypeOK /\ ReaderOK
  <2>1. out \in Seq(Outs)
    BY <1>3
  <2>2. layer \in 0..Len(layers) /\ entry \in Nat /\ at # "next"
    BY <1>2, <1>6
  <2> QED BY <1>1, <1>2, <1>5, <2>1, <2>2 DEF ExtractTypeOK, ReaderOK
<1>8. \A n \in DOMAIN layers : \A k \in DOMAIN layers[n] : ~Before(n, k)
  BY <1>2, <1>6 DEF Before
<1>9. Past = {} /\ Written = {}
  <2>1. \A e : e \notin Past
    BY <1>8, InPast
  <2>2. \A o : o \notin Written
    BY <1>1, <1>8, InWritten
  <2> QED BY <2>1, <2>2
<1>10. MapOf(fileMap, Past)
  BY <1>4, <1>9 DEF MapOf
<1>11. OutIsWritten
  <2>1. DOMAIN out = {}
    BY <1>3
  <2> QED BY <1>9, <2>1 DEF OutIsWritten, ToSet
<1> QED BY <1>7, <1>10, <1>11 DEF EInv

LEMMA ExtractInv == Spec => []EInv
<1>1. Init => EInv
  <2>1. ASSUME ExtractInit({<<>>})
        PROVE  EInv
    <3>1. \A stack \in {<<>>} : IsStack(stack)
      BY DEF IsStack, ToSet
    <3> QED BY <2>1, <3>1, ExtractInitHolds
  <2>2. ASSUME ExtractInit(Stacks)
        PROVE  EInv
    <3>1. \A stack \in Stacks : IsStack(stack)
      BY StacksAssumption DEF IsStack, IsEntry, ToSet
    <3> QED BY <2>2, <3>1, ExtractInitHolds
  <2> QED BY <2>1, <2>2 DEF Init
<1>2. EInv /\ [Next]_vars => EInv'
  <2> SUFFICES ASSUME EInv, [Next]_vars
               PROVE  EInv'
    OBVIOUS
  <2>1. ASSUME UNCHANGED extractVars
        PROVE  EInv'
    <3>1. layers' = layers /\ layer' = layer /\ entry' = entry /\ fileMap' = fileMap
          /\ at' = at /\ out' = out /\ reader' = reader /\ fault' = fault
      BY <2>1 DEF extractVars
    <3>2. Past' = Past /\ Written' = Written /\ Outs' = Outs
      BY <3>1 DEF Past, Written, Before, Outs
    <3>3. ExtractTypeOK' /\ ReaderOK' /\ (Reads' <=> Reads)
      BY <3>1, <3>2 DEF EInv, ExtractTypeOK, ReaderOK, Reads
    <3>4. MapOf(fileMap, Past)' <=> MapOf(fileMap, Past)
      BY <3>1, <3>2 DEF MapOf, InWhiteoutDir
    <3>5. OutIsWritten' <=> OutIsWritten
      BY <3>1, <3>2 DEF OutIsWritten
    <3> QED BY <3>1, <3>3, <3>4, <3>5 DEF EInv
  <2>2. CASE SaveStep \/ SaveFault \/ Listen
    BY <2>1, <2>2 DEF SaveStep, SaveFault, Listen
  <2>3. CASE Export
    BY <2>3, OpenLayerKeeps, FaultKeeps, EndOfLayerKeeps, NextEntryKeeps, DoneKeeps
       DEF Export, ExtractStep
  <2>4. CASE ReaderLeaves
    BY <2>4, CloseReaderKeeps DEF ReaderLeaves
  <2>5. CASE UNCHANGED vars
    BY <2>1, <2>5 DEF vars
  <2> QED BY <2>2, <2>3, <2>4, <2>5 DEF Next
<1> QED BY <1>1, <1>2, PTL DEF Spec

\* Whatever the layers have in them, who reads the stream of mutate.Extract to a clean
\* end has the overlay of the layers, each path once (mutate.go:158-245).
THEOREM ExtractIsTheOverlay == Spec => []ExtractIsOverlay
<1>1. EInv => ExtractIsOverlay
  <2> SUFFICES ASSUME EInv, reader.end = "EOF", reader.how = "tar" => ~fault, Ordinary(layers)
               PROVE  /\ ToSet(out) = Overlay(layers)
                      /\ Cardinality({o.entry.path : o \in ToSet(out)}) = Len(out)
    BY DEF ExtractIsOverlay
  <2>1. OutIsWritten /\ layer = 0 /\ IsStack(layers) /\ out \in Seq(Outs)
    BY DEF EInv, Reads, ReaderOK, ExtractTypeOK
  <2>2. Written = Overlay(layers)
    <3>1. \A o \in Overlay(layers) : o \in Written
      <4> SUFFICES ASSUME NEW o \in Overlay(layers)
                   PROVE  o \in Written
        OBVIOUS
      <4>1. PICK n \in 1..Len(layers) : \E e \in ToSet(layers[n]) :
                o = [layer |-> n, entry |-> e] /\ Shown(layers, n, e)
        BY InOverlay
      <4>2. PICK k \in DOMAIN layers[n] :
                o = [layer |-> n, entry |-> layers[n][k]] /\ Shown(layers, n, layers[n][k])
        BY <4>1 DEF ToSet
      <4>3. n \in DOMAIN layers /\ Before(n, k)
        BY <2>1, LayerFacts DEF Before
      <4> QED BY <2>1, <4>2, <4>3, InWritten
    <3> QED BY <3>1 DEF Written
  <2>3. Cardinality({o.entry.path : o \in ToSet(out)}) = Len(out)
    BY <2>1, DistinctPaths DEF OutIsWritten
  <2> QED BY <2>1, <2>2, <2>3 DEF OutIsWritten
<1> QED BY <1>1, ExtractInv, PTL

(***************************************************************************)
(* A least number.                                                         *)
(***************************************************************************)

NatLess == {nn \in Nat \X Nat : nn[1] < nn[2]}

\* A set of numbers that is not empty has a least one.
LEMMA LeastNumber ==
    ASSUME NEW S, S \subseteq Nat, S # {}
    PROVE  \E m \in S : \A n \in S : m <= n
<1>1. IsWellFoundedOn(NatLess, Nat)
  BY NatLessThanWellFounded DEF NatLess, OpToRel
<1>2. PICK m \in S : \A n \in S : ~(<<n, m>> \in NatLess)
  BY <1>1, WFMin
<1>3. ASSUME NEW n \in S
      PROVE  m <= n
  <2>1. m \in Nat /\ n \in Nat /\ ~(n < m)
    BY <1>2 DEF NatLess
  <2> QED BY <2>1
<1> QED BY <1>3

(***************************************************************************)
(* Induction and recursion up to a number.                                 *)
(***************************************************************************)

\* A set that has 0, and each number up to k with the one before it.
LEMMA UpTo ==
    ASSUME NEW k \in Nat, NEW S, 0 \in S, \A n \in 1..k : n - 1 \in S => n \in S
    PROVE  \A n \in 0..k : n \in S
<1> DEFINE Missing == {n \in 0..k : n \notin S}
<1> SUFFICES ASSUME Missing # {}
             PROVE  FALSE
  OBVIOUS
<1>1. Missing \subseteq Nat
  OBVIOUS
<1>2. PICK m \in Missing : \A n \in Missing : m <= n
  <2> HIDE DEF Missing
  <2> QED BY <1>1, LeastNumber
<1>3. m \in 1..k /\ m \notin S
  OBVIOUS
<1>4. m - 1 \in 0..k /\ ~(m <= m - 1)
  BY <1>3
<1>5. m - 1 \notin Missing
  <2> HIDE DEF Missing
  <2> QED BY <1>2, <1>4
<1> QED BY <1>3, <1>4, <1>5

\* f is `base', and from each number the step to the next.
Recurs(f, k, base, steps) == f = [n \in 0..k |-> IF n = 0 THEN base ELSE steps[n][f[n - 1]]]

\* A recursive function has a value at each number, if its steps stay in a set.
LEMMA Recursion ==
    ASSUME NEW k \in Nat, NEW S, NEW base \in S, NEW steps,
           \A n \in 1..k : \A x \in S : steps[n][x] \in S
    PROVE  \E f : Recurs(f, k, base, steps) /\ \A n \in 0..k : f[n] \in S
<1> DEFINE Solves(f, m) == /\ f = [n \in 0..m |-> IF n = 0 THEN base ELSE steps[n][f[n - 1]]]
                           /\ \A n \in 0..m : f[n] \in S
           Solved == {m \in 0..k : \E f : Solves(f, m)}
<1>1. 0 \in Solved
  <2> DEFINE f == [n \in 0..0 |-> base]
  <2>1. \A n \in 0..0 : f[n] = (IF n = 0 THEN base ELSE steps[n][f[n - 1]]) /\ f[n] \in S
    OBVIOUS
  <2>2. Solves(f, 0)
    BY <2>1
  <2> HIDE DEF f, Solves
  <2> QED BY <2>2
<1>2. ASSUME NEW m \in 1..k, m - 1 \in Solved
      PROVE  m \in Solved
  <2>1. PICK f : Solves(f, m - 1)
    BY <1>2
  <2> DEFINE g == [n \in 0..m |-> IF n < m THEN f[n] ELSE steps[m][f[m - 1]]]
  <2>2. \A n \in 0..m - 1 : f[n] = (IF n = 0 THEN base ELSE steps[n][f[n - 1]]) /\ f[n] \in S
    BY <2>1
  <2>3. steps[m][f[m - 1]] \in S
    BY <2>2
  <2>4. \A n \in 0..m : g[n] = (IF n = 0 THEN base ELSE steps[n][g[n - 1]]) /\ g[n] \in S
    <3> SUFFICES ASSUME NEW n \in 0..m
                 PROVE  g[n] = (IF n = 0 THEN base ELSE steps[n][g[n - 1]]) /\ g[n] \in S
      OBVIOUS
    <3>1. CASE n = m
      <4>1. g[n] = steps[m][f[m - 1]] /\ g[n - 1] = f[m - 1]
        BY <3>1
      <4> QED BY <2>3, <3>1, <4>1
    <3>2. CASE n # m
      <4>1. n \in 0..m - 1 /\ g[n] = f[n] /\ (n # 0 => g[n - 1] = f[n - 1])
        BY <3>2
      <4> QED BY <2>2, <4>1
    <3> QED BY <3>1, <3>2
  <2>5. Solves(g, m)
    BY <2>4
  <2> HIDE DEF g, Solves
  <2> QED BY <2>5
<1>3. \A n \in 0..k : n \in Solved
  <2> HIDE DEF Solved
  <2> QED BY <1>1, <1>2, UpTo
<1>4. k \in Solved
  BY <1>3
<1> QED BY <1>4 DEF Recurs

(***************************************************************************)
(* Sequences.                                                              *)
(***************************************************************************)

\* A sequence is one of its own members.
LEMMA OwnSeq ==
    ASSUME NEW T, NEW s \in Seq(T)
    PROVE  /\ s \in Seq(ToSet(s)) /\ Len(s) \in Nat /\ DOMAIN s = 1..Len(s)
           /\ ToSet(s) \subseteq T
  BY DEF ToSet

LEMMA AppendSet ==
    ASSUME NEW T, NEW s \in Seq(T), NEW x
    PROVE  /\ ToSet(Append(s, x)) = ToSet(s) \cup {x}
           /\ Append(s, x) \in Seq(ToSet(Append(s, x)))
<1>1. s \in Seq(T \cup {x})
  OBVIOUS
<1>2. /\ DOMAIN Append(s, x) = DOMAIN s \cup {Len(s) + 1} /\ DOMAIN s = 1..Len(s)
      /\ Len(Append(s, x)) = Len(s) + 1
      /\ Append(s, x)[Len(s) + 1] = x
      /\ \A i \in DOMAIN s : Append(s, x)[i] = s[i]
  BY <1>1
<1>3. Append(s, x) \in Seq(T \cup {x})
  BY <1>1
<1> QED BY <1>2, <1>3, OwnSeq DEF ToSet

LEMMA AppendFacts ==
    ASSUME NEW T, NEW s \in Seq(T), NEW x, NEW t, t = Append(s, x)
    PROVE  /\ Len(s) \in Nat /\ Len(t) = Len(s) + 1 /\ t[Len(s) + 1] = x
           /\ \A i \in 1..Len(s) : t[i] = s[i]
           /\ t \in Seq(ToSet(t))
<1>1. s \in Seq(T \cup {x})
  OBVIOUS
<1>2. /\ Len(s) \in Nat /\ Len(t) = Len(s) + 1 /\ t[Len(s) + 1] = x
      /\ \A i \in 1..Len(s) : t[i] = s[i]
  BY <1>1
<1>3. t \in Seq(ToSet(t))
  BY AppendSet
<1> QED BY <1>2, <1>3

LEMMA ExceptFacts ==
    ASSUME NEW T, NEW s \in Seq(T), NEW n \in 1..Len(s), NEW x, NEW t,
           t = [s EXCEPT ![n] = x]
    PROVE  /\ Len(t) = Len(s) /\ t \in Seq(ToSet(t))
           /\ \A i \in 1..Len(s) : t[i] = IF i = n THEN x ELSE s[i]
<1>1. s \in Seq(T \cup {x})
  OBVIOUS
<1>2. PICK U : U = T \cup {x}
  OBVIOUS
<1>3. s \in Seq(U) /\ x \in U
  BY <1>1, <1>2
<1>4. t \in Seq(U)
  BY <1>3, ExceptSeq
<1>5. Len(t) = Len(s) /\ \A i \in 1..Len(s) : t[i] = IF i = n THEN x ELSE s[i]
  BY <1>3
<1> QED BY <1>4, <1>5, OwnSeq

LEMMA AppendAll ==
    ASSUME NEW T, NEW s \in Seq(T), NEW S, NEW x \in S, \A k \in 1..Len(s) : s[k] \in S
    PROVE  \A k \in 1..Len(Append(s, x)) : Append(s, x)[k] \in S
<1>1. s \in Seq(T \cup {x})
  OBVIOUS
<1>2. /\ Len(s) \in Nat /\ Len(Append(s, x)) = Len(s) + 1
      /\ Append(s, x)[Len(s) + 1] = x
      /\ \A i \in 1..Len(s) : Append(s, x)[i] = s[i]
  BY <1>1
<1> QED BY <1>2

LEMMA ConcatSet ==
    ASSUME NEW T, NEW s \in Seq(T), NEW t \in Seq(T)
    PROVE  /\ s \o t \in Seq(T)
           /\ ToSet(s \o t) = ToSet(s) \cup ToSet(t)
<1>1. /\ Len(s) \in Nat /\ Len(t) \in Nat /\ Len(s \o t) = Len(s) + Len(t)
      /\ DOMAIN (s \o t) = 1..(Len(s) + Len(t)) /\ DOMAIN s = 1..Len(s) /\ DOMAIN t = 1..Len(t)
      /\ \A i \in 1..Len(s) : (s \o t)[i] = s[i]
      /\ \A i \in 1..Len(t) : (s \o t)[Len(s) + i] = t[i]
  OBVIOUS
<1>2. \A i \in 1..(Len(s) + Len(t)) : i \in 1..Len(s) \/ \E j \in 1..Len(t) : i = Len(s) + j
  <2> SUFFICES ASSUME NEW i \in 1..(Len(s) + Len(t)), i \notin 1..Len(s)
               PROVE  \E j \in 1..Len(t) : i = Len(s) + j
    OBVIOUS
  <2>1. i - Len(s) \in 1..Len(t) /\ i = Len(s) + (i - Len(s))
    BY <1>1
  <2> QED BY <2>1
<1>3. ToSet(s \o t) \subseteq ToSet(s) \cup ToSet(t)
  <2> SUFFICES ASSUME NEW x \in ToSet(s \o t)
               PROVE  x \in ToSet(s) \cup ToSet(t)
    OBVIOUS
  <2>1. PICK i \in 1..(Len(s) + Len(t)) : x = (s \o t)[i]
    BY <1>1 DEF ToSet
  <2>2. CASE i \in 1..Len(s)
    BY <1>1, <2>1, <2>2 DEF ToSet
  <2>3. ASSUME NEW j \in 1..Len(t), i = Len(s) + j
        PROVE  x \in ToSet(t)
    BY <1>1, <2>1, <2>3 DEF ToSet
  <2> QED BY <1>2, <2>2, <2>3
<1>4. ToSet(s) \subseteq ToSet(s \o t)
  BY <1>1 DEF ToSet
<1>5. ToSet(t) \subseteq ToSet(s \o t)
  <2> SUFFICES ASSUME NEW j \in 1..Len(t)
               PROVE  t[j] \in ToSet(s \o t)
    BY <1>1 DEF ToSet
  <2>1. Len(s) + j \in 1..(Len(s) + Len(t))
    BY <1>1
  <2> QED BY <1>1, <2>1 DEF ToSet
<1> QED BY <1>3, <1>4, <1>5

\* FlattenSeq puts the sequences together, one after the other.
LEMMA FlattenSteps ==
    ASSUME NEW T, NEW seqs \in Seq(Seq(T))
    PROVE  \E f : /\ f[0] = <<>> /\ FlattenSeq(seqs) = f[Len(seqs)]
                  /\ \A n \in 0..Len(seqs) : f[n] \in Seq(T)
                  /\ \A n \in 1..Len(seqs) : f[n] = f[n - 1] \o seqs[n]
<1> DEFINE k == Len(seqs)
           Is(f) == f = [i \in 1..k |-> IF i = 1 THEN seqs[i] ELSE f[i - 1] \o seqs[i]]
           it == CHOOSE f : Is(f)
           S == Seq(T)
           base == <<>>
           steps == [n \in 1..k |-> [x \in S |-> x \o seqs[n]]]
<1>1. k \in Nat /\ \A n \in 1..k : seqs[n] \in Seq(T)
  OBVIOUS
<1>2. \A n \in 1..k : \A x \in Seq(T) : steps[n][x] = x \o seqs[n] /\ steps[n][x] \in Seq(T)
  <2> HIDE DEF k
  <2> QED BY <1>1
<1>3. PICK f : Recurs(f, k, base, steps) /\ \A n \in 0..k : f[n] \in S
  <2>1. base \in S
    OBVIOUS
  <2>2. \A n \in 1..k : \A x \in S : steps[n][x] \in S
    BY <1>2
  <2> HIDE DEF steps, k, S, base
  <2> QED BY <1>1, <2>1, <2>2, Recursion
<1>4. \A n \in 1..k : f[n] = f[n - 1] \o seqs[n]
  <2> SUFFICES ASSUME NEW n \in 1..k
               PROVE  f[n] = f[n - 1] \o seqs[n]
    OBVIOUS
  <2>1. n \in 0..k /\ n # 0 /\ n - 1 \in 0..k
    BY <1>1
  <2>2. f[n] = steps[n][f[n - 1]] /\ f[n - 1] \in Seq(T)
    <3> HIDE DEF steps, k
    <3> QED BY <1>3, <2>1 DEF Recurs
  <2> HIDE DEF steps, k
  <2> QED BY <1>2, <2>2
<1>5. f[0] = <<>>
  <2>1. 0 \in 0..k
    BY <1>1
  <2> HIDE DEF steps, k
  <2> QED BY <1>3, <2>1 DEF Recurs
<1>6. \A x \in Seq(T) : <<>> \o x = x
  OBVIOUS
<1>7. \E g : Is(g)
  <2> DEFINE g == [i \in 1..k |-> f[i]]
  <2>1. \A i \in 1..k : g[i] = IF i = 1 THEN seqs[i] ELSE g[i - 1] \o seqs[i]
    <3> SUFFICES ASSUME NEW i \in 1..k
                 PROVE  g[i] = IF i = 1 THEN seqs[i] ELSE g[i - 1] \o seqs[i]
      OBVIOUS
    <3>1. CASE i = 1
      <4>1. f[i] = f[i - 1] \o seqs[i]
        BY <1>4
      <4>2. i - 1 = 0
        BY <3>1
      <4>3. seqs[i] \in Seq(T)
        BY <1>1
      <4> QED BY <1>5, <1>6, <3>1, <4>1, <4>2, <4>3
    <3>2. CASE i # 1
      <4>1. i - 1 \in 1..k
        BY <1>1, <3>2
      <4> QED BY <1>4, <3>2, <4>1
    <3> QED BY <3>1, <3>2
  <2>2. Is(g)
    <3> HIDE DEF k
    <3> QED BY <2>1
  <2> HIDE DEF g, Is
  <2> QED BY <2>2
<1>8. Is(it)
  <2> HIDE DEF Is
  <2> QED BY <1>7
<1>9. \A i \in 1..k : it[i] = IF i = 1 THEN seqs[i] ELSE it[i - 1] \o seqs[i]
  <2> HIDE DEF it, k
  <2> QED BY <1>8
<1>10. FlattenSeq(seqs) = IF k = 0 THEN seqs ELSE it[k]
  BY DEF FlattenSeq
<1>11. k = 0 => seqs = <<>>
  OBVIOUS
<1> HIDE DEF it, k
<1> DEFINE h == [n \in 0..k |-> IF n = 0 THEN <<>> ELSE it[n]]
<1>12. h[0] = <<>> /\ FlattenSeq(seqs) = h[k]
  BY <1>1, <1>10, <1>11
<1>13. \A n \in 1..k : h[n] = h[n - 1] \o seqs[n]
  <2> SUFFICES ASSUME NEW n \in 1..k
               PROVE  h[n] = h[n - 1] \o seqs[n]
    OBVIOUS
  <2>1. CASE n = 1
    <3>1. h[n] = seqs[n] /\ h[n - 1] = <<>> /\ seqs[n] \in Seq(T)
      BY <1>1, <1>9, <2>1
    <3> QED BY <1>6, <3>1
  <2>2. CASE n # 1
    <3>1. h[n] = it[n] /\ h[n - 1] = it[n - 1]
      BY <1>1, <2>2
    <3> QED BY <1>9, <2>2, <3>1
  <2> QED BY <2>1, <2>2
<1> DEFINE Good == {n \in 0..k : h[n] \in Seq(T)}
<1>14. \A n \in 0..k : n \in Good
  <2>1. 0 \in Good
    BY <1>1, <1>12
  <2>2. \A n \in 1..k : n - 1 \in Good => n \in Good
    <3> SUFFICES ASSUME NEW n \in 1..k, h[n - 1] \in Seq(T)
                 PROVE  n \in 0..k /\ h[n] \in Seq(T)
      OBVIOUS
    <3> HIDE DEF h
    <3>1. h[n - 1] \o seqs[n] \in Seq(T) /\ n \in 0..k
      BY <1>1, ConcatSet
    <3>2. h[n] = h[n - 1] \o seqs[n]
      BY <1>13
    <3> QED BY <3>1, <3>2
  <2> HIDE DEF Good
  <2> QED BY <1>1, <2>1, <2>2, UpTo
<1> HIDE DEF h
<1>15. \A n \in 0..k : h[n] \in Seq(T)
  BY <1>14
<1> QED BY <1>12, <1>13, <1>15 DEF k

\* FlattenSeq has the members of the sequences.
LEMMA FlattenMembers ==
    ASSUME NEW T, NEW seqs \in Seq(Seq(T))
    PROVE  /\ FlattenSeq(seqs) \in Seq(T)
           /\ ToSet(FlattenSeq(seqs)) = UNION {ToSet(seqs[n]) : n \in DOMAIN seqs}
<1>1. PICK f : /\ f[0] = <<>> /\ FlattenSeq(seqs) = f[Len(seqs)]
               /\ \A n \in 0..Len(seqs) : f[n] \in Seq(T)
               /\ \A n \in 1..Len(seqs) : f[n] = f[n - 1] \o seqs[n]
  BY FlattenSteps
<1>2. PICK k \in Nat : k = Len(seqs) /\ DOMAIN seqs = 1..k /\ \A n \in 1..k : seqs[n] \in Seq(T)
  OBVIOUS
<1> DEFINE Good == {n \in 0..k : ToSet(f[n]) = UNION {ToSet(seqs[i]) : i \in 1..n}}
<1>3. 0 \in Good
  BY <1>1 DEF ToSet
<1>4. ASSUME NEW n \in 1..k, n - 1 \in Good
      PROVE  n \in Good
  <2>1. f[n] = f[n - 1] \o seqs[n] /\ seqs[n] \in Seq(T)
    BY <1>1, <1>2
  <2>5. f[n - 1] \in Seq(T)
    <3>1. n - 1 \in 0..k
      OBVIOUS
    <3> QED BY <1>1, <1>2, <3>1
  <2>2. ToSet(f[n]) = ToSet(f[n - 1]) \cup ToSet(seqs[n])
    BY <2>1, <2>5, ConcatSet
  <2>3. ToSet(f[n - 1]) = UNION {ToSet(seqs[i]) : i \in 1..n - 1}
    BY <1>4
  <2>4. n \in 0..k /\ 1..n = 1..n - 1 \cup {n}
    OBVIOUS
  <2> QED BY <2>2, <2>3, <2>4
<1>5. \A n \in 0..k : n \in Good
  <2> HIDE DEF Good
  <2> QED BY <1>3, <1>4, UpTo
<1>6. k \in 0..k
  OBVIOUS
<1>7. ToSet(f[k]) = UNION {ToSet(seqs[i]) : i \in 1..k}
  BY <1>5, <1>6
<1> QED BY <1>1, <1>2, <1>6, <1>7

(***************************************************************************)
(* Sums.                                                                   *)
(***************************************************************************)

\* What the members of a sequence cost, by the function c.
SumOf(s, c) ==
    LET sum[n \in 0..Len(s)] == IF n = 0 THEN 0 ELSE sum[n - 1] + c[s[n]]
    IN  sum[Len(s)]

\* The sums of the first members.
Sums(p, s, c) ==
    /\ p[0] = 0
    /\ \A n \in 1..Len(s) : p[n] = p[n - 1] + c[s[n]]
    /\ \A n \in 0..Len(s) : p[n] \in Nat

LEMMA SumIs ==
    ASSUME NEW T, NEW c \in [T -> Nat], NEW s \in Seq(T)
    PROVE  /\ \E p : Sums(p, s, c) /\ SumOf(s, c) = p[Len(s)]
           /\ SumOf(s, c) \in Nat
<1> DEFINE k == Len(s)
           Is(f) == f = [n \in 0..k |-> IF n = 0 THEN 0 ELSE f[n - 1] + c[s[n]]]
           it == CHOOSE f : Is(f)
           steps == [n \in 1..k |-> [x \in Nat |-> x + c[s[n]]]]
<1>1. k \in Nat /\ \A n \in 1..k : s[n] \in T /\ c[s[n]] \in Nat
  OBVIOUS
<1> HIDE DEF k
<1>2. \A n \in 1..k : \A x \in Nat : steps[n][x] = x + c[s[n]] /\ steps[n][x] \in Nat
  BY <1>1
<1>3. PICK f : Recurs(f, k, 0, steps) /\ \A n \in 0..k : f[n] \in Nat
  <2>1. 0 \in Nat /\ \A n \in 1..k : \A x \in Nat : steps[n][x] \in Nat
    BY <1>2
  <2> HIDE DEF steps
  <2>2. PICK zero \in Nat : zero = 0
    OBVIOUS
  <2>3. \E f : Recurs(f, k, zero, steps) /\ \A n \in 0..k : f[n] \in Nat
    BY <1>1, <2>1, Recursion
  <2> QED BY <2>2, <2>3
<1>4. Is(f)
  <2>1. f = [n \in 0..k |-> IF n = 0 THEN 0 ELSE steps[n][f[n - 1]]]
    BY <1>3 DEF Recurs
  <2> HIDE DEF steps
  <2>2. \A n \in 0..k : (IF n = 0 THEN 0 ELSE steps[n][f[n - 1]])
                        = (IF n = 0 THEN 0 ELSE f[n - 1] + c[s[n]])
    <3> TAKE n \in 0..k
    <3>1. CASE n = 0
      BY <3>1
    <3>2. CASE n # 0
      <4>1. n \in 1..k /\ f[n - 1] \in Nat
        BY <1>1, <1>3, <3>2
      <4> QED BY <1>2, <3>2, <4>1
    <3> QED BY <3>1, <3>2
  <2> QED BY <2>1, <2>2
<1>5. Is(it)
  <2> HIDE DEF Is
  <2> QED BY <1>4
<1>6. SumOf(s, c) = it[k]
  BY DEF SumOf, k
<1> HIDE DEF it
<1>7. it[0] = 0 /\ \A n \in 1..k : it[n] = it[n - 1] + c[s[n]]
  <2>1. \A n \in 0..k : it[n] = IF n = 0 THEN 0 ELSE it[n - 1] + c[s[n]]
    BY <1>5
  <2> QED BY <1>1, <2>1
<1>8. \A n \in 0..k : it[n] \in Nat
  <2> DEFINE S == {n \in 0..k : it[n] \in Nat}
  <2>1. 0 \in S
    BY <1>1, <1>7
  <2>2. \A n \in 1..k : n - 1 \in S => n \in S
    BY <1>1, <1>7
  <2> HIDE DEF S
  <2>3. \A n \in 0..k : n \in S
    BY <1>1, <2>1, <2>2, UpTo
  <2> QED BY <2>3 DEF S
<1> QED BY <1>1, <1>6, <1>7, <1>8 DEF Sums, k

\* There is one sum.
LEMMA SumsAre ==
    ASSUME NEW T, NEW c \in [T -> Nat], NEW s \in Seq(T), NEW p, Sums(p, s, c)
    PROVE  SumOf(s, c) = p[Len(s)]
<1>1. PICK q : Sums(q, s, c) /\ SumOf(s, c) = q[Len(s)]
  BY SumIs
<1>2. PICK k \in Nat : k = Len(s)
  OBVIOUS
<1> DEFINE S == {n \in 0..k : p[n] = q[n]}
<1>3. 0 \in S
  BY <1>1, <1>2 DEF Sums
<1>4. \A n \in 1..k : n - 1 \in S => n \in S
  <2> SUFFICES ASSUME NEW n \in 1..k, p[n - 1] = q[n - 1]
               PROVE  n \in 0..k /\ p[n] = q[n]
    OBVIOUS
  <2>1. p[n] = p[n - 1] + c[s[n]] /\ q[n] = q[n - 1] + c[s[n]]
    BY <1>1, <1>2 DEF Sums
  <2> QED BY <2>1
<1> HIDE DEF S
<1>5. \A n \in 0..k : n \in S
  BY <1>2, <1>3, <1>4, UpTo
<1>6. k \in 0..k
  BY <1>2
<1> QED BY <1>1, <1>2, <1>5, <1>6 DEF S

LEMMA SumEmpty ==
    ASSUME NEW T, NEW c \in [T -> Nat], NEW s \in Seq(T), Len(s) = 0
    PROVE  SumOf(s, c) = 0
BY SumIs DEF Sums

\* Arithmetic, which the solver does only out of sight of sequences.
LEMMA AddUp == \A x, y, z \in Nat : x + (y + z) = (x + y) + z
OBVIOUS

LEMMA SumConcat ==
    ASSUME NEW T, NEW c \in [T -> Nat], NEW s \in Seq(T), NEW t \in Seq(T)
    PROVE  SumOf(s \o t, c) = SumOf(s, c) + SumOf(t, c)
<1>1. PICK p : Sums(p, s, c) /\ SumOf(s, c) = p[Len(s)]
  BY SumIs
<1>2. PICK q : Sums(q, t, c) /\ SumOf(t, c) = q[Len(t)]
  BY SumIs
<1>3. PICK a \in Nat, b \in Nat : a = Len(s) /\ b = Len(t)
  OBVIOUS
<1>4. PICK all : all = s \o t /\ all \in Seq(T)
  <2>1. s \o t \in Seq(T)
    BY ConcatSet
  <2> QED BY <2>1
<1>5. Len(all) = a + b /\ \A n \in 1..(a + b) : all[n] = IF n <= a THEN s[n] ELSE t[n - a]
  BY <1>3, <1>4
<1> DEFINE r == [n \in 0..(a + b) |-> IF n <= a THEN p[n] ELSE p[a] + q[n - a]]
<1>6. /\ \A n \in 0..a : p[n] \in Nat
      /\ \A n \in 1..a : p[n] = p[n - 1] + c[s[n]]
      /\ \A n \in 0..b : q[n] \in Nat
      /\ \A n \in 1..b : q[n] = q[n - 1] + c[t[n]]
      /\ p[0] = 0 /\ q[0] = 0
  BY <1>1, <1>2, <1>3 DEF Sums
<1>7. \A n \in 0..(a + b) : r[n] \in Nat
  <2> TAKE n \in 0..(a + b)
  <2>1. CASE n <= a
    BY <1>6, <2>1
  <2>2. CASE ~(n <= a)
    <3>1. n - a \in 0..b /\ a \in 0..a
      BY <2>2
    <3> QED BY <1>6, <2>2, <3>1
  <2> QED BY <2>1, <2>2
<1>8. \A n \in 1..(a + b) : r[n] = r[n - 1] + c[all[n]]
  <2> TAKE n \in 1..(a + b)
  <2>1. CASE n <= a
    <3>1. n \in 1..a /\ n - 1 <= a /\ n \in 0..(a + b) /\ n - 1 \in 0..(a + b)
      BY <2>1
    <3> QED BY <1>5, <1>6, <2>1, <3>1
  <2>2. CASE ~(n <= a)
    <3>1. n - a \in 1..b /\ n \in 0..(a + b) /\ n - 1 \in 0..(a + b) /\ n - a - 1 \in 0..b
          /\ a \in 0..a
      BY <2>2
    <3>2. q[n - a] = q[n - a - 1] + c[t[n - a]] /\ q[n - a - 1] \in Nat /\ p[a] \in Nat
      BY <1>6, <3>1
    <3>3. r[n - 1] = p[a] + q[n - a - 1]
      <4>1. CASE n - 1 = a
        <5>1. n - a - 1 = 0 /\ n - 1 <= a
          BY <4>1
        <5> QED BY <1>6, <3>1, <3>2, <4>1, <5>1
      <4>2. CASE n - 1 # a
        <5>1. ~(n - 1 <= a) /\ (n - 1) - a = n - a - 1
          BY <2>2, <4>2
        <5> QED BY <3>1, <5>1
      <4> QED BY <4>1, <4>2
    <3>4. r[n] = p[a] + q[n - a] /\ all[n] = t[n - a]
      BY <1>5, <2>2, <3>1
    <3>5. c[t[n - a]] \in Nat
      BY <1>3, <3>1
    <3> HIDE DEF r
    <3>6. PICK x \in Nat, y \in Nat, z \in Nat : x = p[a] /\ y = q[n - a - 1] /\ z = c[t[n - a]]
      BY <3>2, <3>5
    <3>7. r[n] = x + (y + z) /\ r[n - 1] = x + y /\ c[all[n]] = z
      BY <3>2, <3>3, <3>4, <3>6
    <3>8. x + (y + z) = (x + y) + z
      BY AddUp, Zenon
    <3> QED BY <3>7, <3>8
  <2> QED BY <2>1, <2>2
<1>9. r[0] = 0
  BY <1>6
<1>10. r[a + b] = p[a] + q[b]
  <2>1. CASE b = 0
    <3>1. a + b = a /\ a + b \in 0..(a + b) /\ p[a] \in Nat
      BY <1>6, <2>1
    <3> QED BY <1>6, <2>1, <3>1
  <2>2. CASE b # 0
    <3>1. ~(a + b <= a) /\ a + b \in 0..(a + b) /\ a + b - a = b
      BY <2>2
    <3> QED BY <3>1
  <2> QED BY <2>1, <2>2
<1> HIDE DEF r
<1>11. Sums(r, all, c)
  BY <1>5, <1>7, <1>8, <1>9 DEF Sums
<1>12. SumOf(all, c) = r[a + b]
  BY <1>4, <1>5, <1>11, SumsAre
<1> QED BY <1>1, <1>2, <1>3, <1>4, <1>10, <1>12

LEMMA SumOne ==
    ASSUME NEW T, NEW c \in [T -> Nat], NEW x \in T
    PROVE  <<x>> \in Seq(T) /\ SumOf(<<x>>, c) = c[x]
<1>1. PICK one : one = <<x>> /\ one \in Seq(T)
  <2>1. <<x>> \in Seq(T)
    OBVIOUS
  <2> QED BY <2>1
<1>2. Len(one) = 1 /\ one[1] = x
  BY <1>1
<1>3. PICK p : Sums(p, one, c) /\ SumOf(one, c) = p[Len(one)]
  BY <1>1, SumIs
<1>4. p[1] = p[0] + c[one[1]] /\ p[0] = 0
  <2>1. 1 \in 1..Len(one) /\ 1 - 1 = 0
    BY <1>2
  <2> QED BY <1>3, <2>1 DEF Sums
<1>5. c[x] \in Nat
  OBVIOUS
<1> QED BY <1>1, <1>2, <1>3, <1>4, <1>5

LEMMA SumAppend ==
    ASSUME NEW T, NEW c \in [T -> Nat], NEW s \in Seq(T), NEW x \in T
    PROVE  SumOf(Append(s, x), c) = SumOf(s, c) + c[x]
<1>1. Append(s, x) = s \o <<x>>
  OBVIOUS
<1>2. PICK one : one = <<x>> /\ one \in Seq(T)
  <2>1. <<x>> \in Seq(T)
    OBVIOUS
  <2> QED BY <2>1
<1>3. SumOf(s \o one, c) = SumOf(s, c) + SumOf(one, c)
  BY <1>2, SumConcat
<1>4. SumOf(one, c) = c[x]
  BY <1>2, SumOne
<1> QED BY <1>1, <1>2, <1>3, <1>4

\* The function d has, for the names of some sequences, what those cost.
Totals(d, names, seqs, c) ==
    /\ c \in [DOMAIN c -> Nat] /\ seqs \in Seq(Seq(DOMAIN c))
    /\ d \in [DOMAIN d -> Nat] /\ names \in Seq(DOMAIN d)
    /\ Len(names) = Len(seqs) /\ \A n \in 1..Len(seqs) : d[names[n]] = SumOf(seqs[n], c)

\* The sum over sequences put together is the sum of their sums.
LEMMA FlattenSum ==
    ASSUME NEW c, NEW d, NEW names, NEW seqs, Totals(d, names, seqs, c)
    PROVE  SumOf(FlattenSeq(seqs), c) = SumOf(names, d)
<1> DEFINE T == DOMAIN c
<1>0. /\ c \in [T -> Nat] /\ seqs \in Seq(Seq(T)) /\ d \in [DOMAIN d -> Nat]
      /\ names \in Seq(DOMAIN d) /\ Len(names) = Len(seqs)
      /\ \A n \in 1..Len(seqs) : d[names[n]] = SumOf(seqs[n], c)
  BY DEF Totals
<1> HIDE DEF T
<1>1. PICK f : /\ f[0] = <<>> /\ FlattenSeq(seqs) = f[Len(seqs)]
               /\ \A n \in 0..Len(seqs) : f[n] \in Seq(T)
               /\ \A n \in 1..Len(seqs) : f[n] = f[n - 1] \o seqs[n]
  BY <1>0, FlattenSteps
<1>2. PICK k \in Nat : k = Len(seqs) /\ \A n \in 1..k : seqs[n] \in Seq(T)
  BY <1>0
<1> DEFINE p == [n \in 0..k |-> SumOf(f[n], c)]
<1>3. p[0] = 0
  <2>1. f[0] \in Seq(T) /\ Len(f[0]) = 0
    BY <1>1, <1>2
  <2>2. SumOf(f[0], c) = 0
    BY <1>0, <2>1, SumEmpty
  <2> QED BY <2>2
<1>4. \A n \in 0..k : p[n] \in Nat
  <2> TAKE n \in 0..k
  <2>1. f[n] \in Seq(T)
    BY <1>1, <1>2
  <2>2. SumOf(f[n], c) \in Nat
    BY <1>0, <2>1, SumIs
  <2> QED BY <2>2
<1>5. \A n \in 1..k : p[n] = p[n - 1] + d[names[n]]
  <2> TAKE n \in 1..k
  <2>1. f[n] = f[n - 1] \o seqs[n] /\ seqs[n] \in Seq(T)
    BY <1>1, <1>2
  <2>2. n - 1 \in 0..k /\ n \in 0..k
    OBVIOUS
  <2>3. f[n - 1] \in Seq(T)
    BY <1>1, <1>2, <2>2
  <2>4. SumOf(f[n - 1] \o seqs[n], c) = SumOf(f[n - 1], c) + SumOf(seqs[n], c)
    BY <1>0, <2>1, <2>3, SumConcat
  <2>5. d[names[n]] = SumOf(seqs[n], c)
    BY <1>0, <1>2
  <2>6. p[n] = SumOf(f[n], c) /\ p[n - 1] = SumOf(f[n - 1], c)
    BY <2>2
  <2> HIDE DEF p
  <2> QED BY <2>1, <2>4, <2>5, <2>6
<1> HIDE DEF p
<1>6. Len(names) = k
  BY <1>0, <1>2
<1>7. Sums(p, names, d)
  BY <1>3, <1>4, <1>5, <1>6 DEF Sums
<1>8. SumOf(names, d) = p[Len(names)]
  BY <1>0, <1>7, SumsAre
<1>9. k \in 0..k
  OBVIOUS
<1> QED BY <1>1, <1>2, <1>6, <1>8, <1>9 DEF p

\* The sum is the length where each member counts for one.
LEMMA SumOfOnes ==
    ASSUME NEW T, NEW c \in [T -> Nat], NEW s \in Seq(T), \A n \in 1..Len(s) : c[s[n]] = 1
    PROVE  SumOf(s, c) = Len(s)
<1>1. PICK k \in Nat : k = Len(s) /\ \A n \in 1..k : s[n] \in T
  OBVIOUS
<1> DEFINE p == [n \in 0..k |-> n]
<1>2. p[0] = 0 /\ p[k] = k /\ (\A n \in 0..k : p[n] \in Nat) /\ \A n \in 1..k : p[n] = p[n - 1] + 1
  OBVIOUS
<1>3. \A n \in 1..k : c[s[n]] = 1
  BY <1>1
<1> HIDE DEF p
<1>4. Sums(p, s, c)
  BY <1>1, <1>2, <1>3 DEF Sums
<1>5. SumOf(s, c) = p[Len(s)]
  BY <1>4, SumsAre
<1> QED BY <1>1, <1>2, <1>5

\* There are no more things that members with a weight stand for than their weights.
LEMMA Counted ==
    ASSUME NEW T, NEW w \in [T -> Nat], NEW s \in Seq(T), NEW g, NEW A,
           \A y \in A : \E n \in 1..Len(s) : w[s[n]] >= 1 /\ y = g[s[n]]
    PROVE  IsFiniteSet(A) /\ Cardinality(A) <= SumOf(s, w)
<1>1. PICK k \in Nat : k = Len(s) /\ \A n \in 1..k : s[n] \in T
  OBVIOUS
<1>2. PICK p : Sums(p, s, w) /\ SumOf(s, w) = p[k]
  BY <1>1, SumIs
<1>3. /\ p[0] = 0 /\ \A n \in 0..k : p[n] \in Nat
      /\ \A n \in 1..k : p[n] = p[n - 1] + w[s[n]]
  BY <1>1, <1>2 DEF Sums
<1> DEFINE B(n) == {y \in A : \E m \in 1..n : w[s[m]] >= 1 /\ y = g[s[m]]}
           Good == {n \in 0..k : IsFiniteSet(B(n)) /\ Cardinality(B(n)) <= p[n]}
<1>4. 0 \in Good
  <2>1. B(0) = {}
    OBVIOUS
  <2>2. IsFiniteSet({}) /\ Cardinality({}) = 0
    BY FS_EmptySet
  <2>3. 0 \in 0..k /\ 0 <= 0
    OBVIOUS
  <2> HIDE DEF B
  <2>4. IsFiniteSet(B(0)) /\ Cardinality(B(0)) = p[0]
    BY <1>3, <2>1, <2>2
  <2> QED BY <1>3, <2>3, <2>4
<1>5. ASSUME NEW n \in 1..k, n - 1 \in Good
      PROVE  n \in Good
  <2>1. n \in 0..k /\ n - 1 \in 0..k /\ s[n] \in T
    BY <1>1
  <2>2. w[s[n]] \in Nat
    BY <2>1
  <2>3. p[n] = p[n - 1] + w[s[n]] /\ p[n - 1] \in Nat
    BY <1>3, <2>1
  <2>4. IsFiniteSet(B(n - 1)) /\ Cardinality(B(n - 1)) <= p[n - 1]
    <3> HIDE DEF B
    <3> QED BY <1>5
  <2>5. \A m \in 1..n : m = n \/ m \in 1..n - 1
    OBVIOUS
  <2>6. Cardinality(B(n - 1)) \in Nat
    BY <2>4, FS_CardinalityType
  <2>7. CASE w[s[n]] >= 1
    <3> DEFINE C == B(n - 1) \cup {g[s[n]]}
    <3>1. B(n) \subseteq C
      BY <2>5
    <3>2. IsFiniteSet(C) /\ Cardinality(C) \in Nat /\ Cardinality(C) <= Cardinality(B(n - 1)) + 1
      <4> HIDE DEF B
      <4>1. /\ IsFiniteSet(C)
            /\ Cardinality(C) = Cardinality(B(n - 1)) \/ Cardinality(C) = Cardinality(B(n - 1)) + 1
        BY <2>4, FS_AddElement
      <4> QED BY <2>6, <4>1
    <3>3. IsFiniteSet(B(n)) /\ Cardinality(B(n)) <= Cardinality(C) /\ Cardinality(B(n)) \in Nat
      <4> HIDE DEF B, C
      <4> QED BY <3>1, <3>2, FS_Subset, FS_CardinalityType
    <3> HIDE DEF B, C
    <3>4. Cardinality(B(n)) <= p[n]
      BY <2>2, <2>3, <2>4, <2>6, <2>7, <3>2, <3>3
    <3> QED BY <2>1, <3>3, <3>4
  <2>8. CASE ~(w[s[n]] >= 1)
    <3>1. B(n) = B(n - 1)
      BY <2>5, <2>8
    <3> HIDE DEF B
    <3>2. p[n] = p[n - 1]
      BY <2>2, <2>3, <2>8
    <3> QED BY <2>1, <2>4, <3>1, <3>2
  <2> QED BY <2>7, <2>8
<1>6. \A n \in 0..k : n \in Good
  <2> HIDE DEF Good
  <2> QED BY <1>4, <1>5, UpTo
<1>7. k \in Good
  <2>1. k \in 0..k
    OBVIOUS
  <2> QED BY <1>6, <2>1
<1>8. B(k) = A
  BY <1>1
<1> HIDE DEF B
<1> QED BY <1>2, <1>7, <1>8

\* The members of a sequence are finitely many.
LEMMA FiniteMembers ==
    ASSUME NEW T, NEW s \in Seq(T), NEW A, \A y \in A : \E n \in 1..Len(s) : y = s[n]
    PROVE  IsFiniteSet(A)
<1>1. PICK w \in [T -> Nat] : \A x \in T : w[x] = 1
  <2>1. [x \in T |-> 1] \in [T -> Nat]
    OBVIOUS
  <2> QED BY <2>1
<1>2. PICK g : \A x \in T : g[x] = x
  <2>1. \A x \in T : [y \in T |-> y][x] = x
    OBVIOUS
  <2> QED BY <2>1
<1>3. \A n \in 1..Len(s) : w[s[n]] >= 1 /\ g[s[n]] = s[n]
  <2>1. \A n \in 1..Len(s) : s[n] \in T
    OBVIOUS
  <2>2. 1 >= 1
    OBVIOUS
  <2> QED BY <1>1, <1>2, <2>1, <2>2
<1>4. \A y \in A : \E n \in 1..Len(s) : w[s[n]] >= 1 /\ y = g[s[n]]
  BY <1>3
<1>5. IsFiniteSet(A) /\ Cardinality(A) <= SumOf(s, w)
  BY <1>4, Counted
<1> QED BY <1>5

\* The costs of the members of u, and nothing for others.
Part(T, c, u) == [x \in T |-> IF x \in u THEN c[x] ELSE 0]

\* No member is there twice.
Unrepeated(s) == \A m, n \in 1..Len(s) : s[m] = s[n] => m = n

\* What a member of u that is in s adds to the sum.
PartsAdd(T, c, s) ==
    \A u : \A x \in u : x \in ToSet(s) =>
        SumOf(s, Part(T, c, u)) = c[x] + SumOf(s, Part(T, c, u \ {x}))

\* A member of a sequence without repetitions adds its cost once.
LEMMA PartSum ==
    ASSUME NEW T, NEW c \in [T -> Nat], NEW s \in Seq(T),
           Unrepeated(s)
    PROVE  PartsAdd(T, c, s)
<1> SUFFICES ASSUME NEW u, NEW x \in u, x \in ToSet(s)
             PROVE  SumOf(s, Part(T, c, u)) = c[x] + SumOf(s, Part(T, c, u \ {x}))
  BY DEF PartsAdd
<1>1. PICK k \in Nat : k = Len(s) /\ DOMAIN s = 1..k /\ \A n \in 1..k : s[n] \in T
  OBVIOUS
<1>2. PICK m \in 1..k : s[m] = x
  BY <1>1 DEF ToSet
<1>3. \A n \in 1..k : s[n] = x => n = m
  BY <1>1, <1>2 DEF Unrepeated
<1>4. PICK a \in [T -> Nat], b \in [T -> Nat] : a = Part(T, c, u) /\ b = Part(T, c, u \ {x})
  <2>1. \A z : Part(T, c, z) \in [T -> Nat]
    BY DEF Part
  <2> QED BY <2>1
<1>5. \A n \in 1..k : n # m => a[s[n]] = b[s[n]]
  BY <1>1, <1>3, <1>4 DEF Part
<1>6. x \in T /\ c[x] \in Nat /\ a[s[m]] = c[x] /\ b[s[m]] = 0
  BY <1>1, <1>2, <1>4 DEF Part
<1>7. PICK p : Sums(p, s, a) /\ SumOf(s, a) = p[Len(s)]
  BY SumIs
<1>8. PICK q : Sums(q, s, b) /\ SumOf(s, b) = q[Len(s)]
  BY SumIs
<1>9. /\ p[0] = 0 /\ q[0] = 0
      /\ \A n \in 1..k : p[n] = p[n - 1] + a[s[n]] /\ q[n] = q[n - 1] + b[s[n]]
      /\ \A n \in 0..k : p[n] \in Nat /\ q[n] \in Nat
  BY <1>1, <1>7, <1>8 DEF Sums
<1> DEFINE Good == {n \in 0..k : p[n] = q[n] + IF n < m THEN 0 ELSE c[x]}
<1>10. 0 \in Good
  <2>1. 0 < m /\ 0 \in 0..k
    OBVIOUS
  <2>2. 0 = 0 + 0
    OBVIOUS
  <2>3. p[0] = q[0] + IF 0 < m THEN 0 ELSE c[x]
    BY <1>9, <2>1, <2>2
  <2> QED BY <2>1, <2>3
<1>11. ASSUME NEW n \in 1..k, n - 1 \in Good
       PROVE  n \in Good
  <2>1. n \in 0..k /\ n - 1 \in 0..k
    OBVIOUS
  <2>2. /\ p[n] = p[n - 1] + a[s[n]] /\ q[n] = q[n - 1] + b[s[n]]
        /\ p[n - 1] \in Nat /\ q[n - 1] \in Nat /\ p[n] \in Nat /\ q[n] \in Nat
    BY <1>9, <2>1
  <2>3. p[n - 1] = q[n - 1] + IF n - 1 < m THEN 0 ELSE c[x]
    BY <1>11
  <2>4. CASE n = m
    <3>1. n - 1 < m /\ ~(n < m)
      BY <2>4
    <3>2. p[n - 1] = q[n - 1] /\ p[n] = p[n - 1] + c[x] /\ q[n] = q[n - 1]
      BY <1>6, <2>2, <2>3, <2>4, <3>1
    <3> QED BY <2>1, <3>1, <3>2
  <2>5. CASE n # m
    <3>1. n - 1 < m <=> n < m
      BY <2>5
    <3>2. a[s[n]] = b[s[n]] /\ b[s[n]] \in Nat
      BY <1>1, <1>4, <1>5, <2>5
    <3>3. CASE n < m
      <4>1. p[n - 1] = q[n - 1]
        <5>1. p[n - 1] = q[n - 1] + 0 /\ q[n - 1] \in Nat
          BY <2>2, <2>3, <3>1, <3>3
        <5> QED BY <5>1
      <4> QED BY <2>1, <2>2, <3>2, <3>3, <4>1
    <3>4. CASE ~(n < m)
      <4>1. p[n - 1] = q[n - 1] + c[x]
        BY <2>3, <3>1, <3>4
      <4>2. p[n] = q[n] + c[x]
        <5>1. PICK y \in Nat, z \in Nat, w \in Nat : y = q[n - 1] /\ z = b[s[n]] /\ w = c[x]
          BY <1>6, <2>2, <3>2
        <5>2. p[n] = (y + w) + z /\ q[n] = y + z
          BY <2>2, <3>2, <4>1, <5>1
        <5>3. (y + w) + z = (y + z) + w
          OBVIOUS
        <5> QED BY <5>1, <5>2, <5>3
      <4> QED BY <2>1, <3>4, <4>2
    <3> QED BY <3>3, <3>4
  <2> QED BY <2>4, <2>5
<1>12. \A n \in 0..k : n \in Good
  <2> HIDE DEF Good
  <2> QED BY <1>10, <1>11, UpTo
<1>13. p[k] = q[k] + c[x]
  <2>1. k \in Good
    <3>1. k \in 0..k
      OBVIOUS
    <3> HIDE DEF Good
    <3> QED BY <1>12, <3>1
  <2>2. ~(k < m)
    BY <1>2
  <2> QED BY <2>1, <2>2
<1>14. q[k] \in Nat
  BY <1>9
<1> QED BY <1>1, <1>4, <1>6, <1>7, <1>8, <1>13, <1>14

\* f is the function by which MapThenSumSet adds the costs c in a set.
IsSetSum(f, c, S) ==
    f = [u \in SUBSET S |-> IF u = {} THEN 0
                            ELSE LET x == CHOOSE x \in u : TRUE IN c[x] + f[u \ {x}]]

\* The sum over a set is the sum over a sequence of its members.
LEMMA SetSum ==
    ASSUME NEW T, NEW c \in [T -> Nat], NEW s \in Seq(T), NEW S, S = ToSet(s),
           Unrepeated(s)
    PROVE  /\ \E f : IsSetSum(f, c, S)
           /\ \A f : IsSetSum(f, c, S) => f[S] = SumOf(s, c)
<1> DEFINE one(u) == CHOOSE x \in u : TRUE
           v == [u \in SUBSET S |-> SumOf(s, Part(T, c, u))]
<1>1. \A u : Part(T, c, u) \in [T -> Nat]
  BY DEF Part
<1>8. \A u : \A x \in u : x \in ToSet(s) =>
         SumOf(s, Part(T, c, u)) = c[x] + SumOf(s, Part(T, c, u \ {x}))
  <2> HIDE DEF one, v
  <2>1. PartsAdd(T, c, s)
    BY PartSum
  <2> QED BY <2>1 DEF PartsAdd
<1>2. PICK k \in Nat : k = Len(s) /\ DOMAIN s = 1..k /\ \A n \in 1..k : s[n] \in T
  OBVIOUS
<1>3. v[{}] = 0
  <2> DEFINE none == Part(T, c, {})
             zero == [n \in 0..k |-> 0]
  <2>1. none \in [T -> Nat] /\ \A x \in T : none[x] = 0
    BY DEF Part
  <2>2. (\A n \in 1..k : none[s[n]] = 0) /\ zero[k] = 0
    BY <1>2, <2>1
  <2> HIDE DEF none
  <2>3. Sums(zero, s, none)
    <3>1. /\ zero[0] = 0 /\ \A n \in 0..k : zero[n] \in Nat
          /\ \A n \in 1..k : zero[n] = zero[n - 1] + 0
      OBVIOUS
    <3> HIDE DEF zero
    <3> QED BY <1>2, <2>2, <3>1 DEF Sums
  <2> HIDE DEF zero
  <2>4. SumOf(s, none) = zero[Len(s)]
    BY <2>1, <2>3, SumsAre
  <2> QED BY <1>2, <2>2, <2>4 DEF none
<1>4. v[S] = SumOf(s, c)
  <2>1. \A n \in 1..k : Part(T, c, S)[s[n]] = c[s[n]]
    BY <1>2 DEF Part, ToSet
  <2>2. PICK d \in [T -> Nat] : d = Part(T, c, S)
    BY <1>1
  <2>3. \A n \in 1..Len(s) : d[s[n]] = c[s[n]]
    BY <1>2, <2>1, <2>2
  <2>4. SumOf(s, d) = SumOf(s, c)
    <3>1. PICK p : Sums(p, s, d) /\ SumOf(s, d) = p[Len(s)]
      BY SumIs
    <3>2. Sums(p, s, c)
      BY <2>3, <3>1 DEF Sums
    <3>3. SumOf(s, c) = p[Len(s)]
      BY <3>2, SumsAre
    <3> QED BY <3>1, <3>3
  <2> QED BY <2>2, <2>4
<1>5. \A u \in SUBSET S : u # {} => v[u] = c[one(u)] + v[u \ {one(u)}]
  <2> SUFFICES ASSUME NEW u \in SUBSET S, u # {}
               PROVE  v[u] = c[one(u)] + v[u \ {one(u)}]
    OBVIOUS
  <2>1. PICK x : x = one(u) /\ x \in u
    OBVIOUS
  <2>2. x \in ToSet(s) /\ u \ {x} \in SUBSET S
    BY <2>1
  <2>3. SumOf(s, Part(T, c, u)) = c[x] + SumOf(s, Part(T, c, u \ {x}))
    BY <1>8, <2>1, <2>2
  <2> QED BY <2>1, <2>2, <2>3
<1>6. IsSetSum(v, c, S)
  <2>1. \A u \in SUBSET S : v[u] = IF u = {} THEN 0 ELSE c[one(u)] + v[u \ {one(u)}]
    <3> HIDE DEF v, one
    <3> QED BY <1>3, <1>5
  <2>2. v = [u \in SUBSET S |-> v[u]]
    OBVIOUS
  <2> HIDE DEF v
  <2>3. v = [u \in SUBSET S |-> IF u = {} THEN 0 ELSE c[one(u)] + v[u \ {one(u)}]]
    <3> HIDE DEF one
    <3> QED BY <2>1, <2>2
  <2> QED BY <2>3 DEF IsSetSum
<1> HIDE DEF v
<1>7. ASSUME NEW f, IsSetSum(f, c, S)
      PROVE  f[S] = v[S]
  <2>1. /\ f[{}] = 0
        /\ \A u \in SUBSET S : u # {} => f[u] = c[one(u)] + f[u \ {one(u)}]
    <3>1. \A u \in SUBSET S : f[u] = IF u = {} THEN 0 ELSE c[one(u)] + f[u \ {one(u)}]
      BY <1>7 DEF IsSetSum
    <3>2. {} \in SUBSET S
      OBVIOUS
    <3> HIDE DEF one
    <3> QED BY <3>1, <3>2
  <2>2. IsFiniteSet(S)
    <3>1. \A y \in S : \E n \in 1..Len(s) : y = s[n]
      BY <1>2 DEF ToSet
    <3> QED BY <3>1, FiniteMembers
  <2> DEFINE Wrong == {u \in SUBSET S : f[u] # v[u]}
             Sizes == {Cardinality(u) : u \in Wrong}
  <2> SUFFICES ASSUME Wrong # {}
               PROVE  FALSE
    <3>1. S \in SUBSET S
      OBVIOUS
    <3> QED BY <3>1
  <2>3. \A u \in SUBSET S : IsFiniteSet(u) /\ Cardinality(u) \in Nat
    BY <2>2, FS_Subset, FS_CardinalityType
  <2>4. Sizes \subseteq Nat /\ Sizes # {}
    BY <2>3
  <2>5. PICK size \in Sizes : \A other \in Sizes : size <= other
    <3> HIDE DEF Sizes
    <3> QED BY <2>4, LeastNumber
  <2>6. PICK u \in Wrong : size = Cardinality(u)
    BY <2>5
  <2>7. u \in SUBSET S /\ f[u] # v[u]
    BY <2>6
  <2>8. u # {}
    BY <1>3, <2>1, <2>7
  <2>9. PICK x : x = one(u) /\ x \in u
    BY <2>8
  <2>10. /\ u \ {x} \in SUBSET S /\ Cardinality(u \ {x}) = Cardinality(u) - 1
         /\ Cardinality(u) \in Nat
    BY <2>3, <2>7, <2>9, FS_RemoveElement
  <2>11. u \ {x} \notin Wrong
    <3>1. ASSUME u \ {x} \in Wrong
          PROVE  FALSE
      <4>1. Cardinality(u \ {x}) \in Sizes
        BY <3>1
      <4>2. size <= Cardinality(u \ {x})
        <5> HIDE DEF Sizes
        <5> QED BY <2>5, <4>1
      <4> QED BY <2>6, <2>10, <4>2
    <3> QED BY <3>1
  <2>12. f[u \ {x}] = v[u \ {x}]
    BY <2>10, <2>11
  <2> HIDE DEF one
  <2> QED BY <1>5, <2>1, <2>7, <2>8, <2>9, <2>12
<1> QED BY <1>4, <1>6, <1>7

(***************************************************************************)
(* Files.                                                                  *)
(***************************************************************************)

\* Whether the n-th of the files is one that is written.
Kept(files, n) == \/ files[n].name[1] = "config"
                  \/ \A k \in 1..(n - 1) : ~SameFile(files[k], files[n])

LEMMA WrittenOnceSteps ==
    ASSUME NEW T, NEW files \in Seq(T)
    PROVE  \E f : /\ f[0] = <<>> /\ WrittenOnce(files) = f[Len(files)]
                  /\ \A n \in 0..Len(files) : f[n] \in Seq(T)
                  /\ \A n \in 1..Len(files) :
                        f[n] = IF Kept(files, n) THEN Append(f[n - 1], files[n]) ELSE f[n - 1]
<1> DEFINE k == Len(files)
           Is(f) == f = [n \in 0..k |-> IF n = 0 THEN <<>>
                           ELSE IF Kept(files, n) THEN Append(f[n - 1], files[n]) ELSE f[n - 1]]
           it == CHOOSE f : Is(f)
           S == Seq(T)
           base == <<>>
           steps == [n \in 1..k |-> [x \in S |-> IF Kept(files, n) THEN Append(x, files[n]) ELSE x]]
<1>1. k \in Nat /\ \A n \in 1..k : files[n] \in T
  OBVIOUS
<1>2. \A n \in 1..k : \A x \in Seq(T) :
        /\ steps[n][x] = IF Kept(files, n) THEN Append(x, files[n]) ELSE x
        /\ steps[n][x] \in Seq(T)
  <2> HIDE DEF k
  <2> QED BY <1>1
<1>3. PICK f : Recurs(f, k, base, steps) /\ \A n \in 0..k : f[n] \in S
  <2>1. base \in S
    OBVIOUS
  <2>2. \A n \in 1..k : \A x \in S : steps[n][x] \in S
    BY <1>2
  <2> HIDE DEF steps, k, S, base
  <2> QED BY <1>1, <2>1, <2>2, Recursion
<1>4. Is(f)
  <2>1. \A n \in 0..k : f[n] = IF n = 0 THEN <<>>
                   ELSE IF Kept(files, n) THEN Append(f[n - 1], files[n]) ELSE f[n - 1]
    <3> TAKE n \in 0..k
    <3> HIDE DEF steps, k
    <3>1. CASE n = 0
      BY <1>3, <3>1 DEF Recurs
    <3>2. CASE n # 0
      <4>1. n \in 1..k /\ n - 1 \in 0..k
        BY <1>1, <3>2
      <4>2. f[n] = steps[n][f[n - 1]] /\ f[n - 1] \in Seq(T)
        BY <1>3, <3>2, <4>1 DEF Recurs
      <4> QED BY <1>2, <3>2, <4>1, <4>2
    <3> QED BY <3>1, <3>2
  <2>2. f = [n \in 0..k |-> f[n]]
    BY <1>3 DEF Recurs
  <2> HIDE DEF k
  <2> QED BY <2>1, <2>2
<1>5. Is(it)
  <2> HIDE DEF Is
  <2> QED BY <1>4
<1>6. WrittenOnce(files) = it[k]
  BY DEF WrittenOnce, Kept
<1>7. \A n \in 0..k : it[n] = IF n = 0 THEN <<>>
                ELSE IF Kept(files, n) THEN Append(it[n - 1], files[n]) ELSE it[n - 1]
  <2> HIDE DEF it, k
  <2> QED BY <1>5
<1> HIDE DEF it, k
<1>8. it[0] = <<>>
  <2>1. 0 \in 0..k
    BY <1>1
  <2> QED BY <1>7, <2>1
<1>9. \A n \in 1..k : it[n] = IF Kept(files, n) THEN Append(it[n - 1], files[n]) ELSE it[n - 1]
  <2> TAKE n \in 1..k
  <2>1. n \in 0..k /\ n # 0
    BY <1>1
  <2> QED BY <1>7, <2>1
<1> DEFINE Good == {n \in 0..k : it[n] \in Seq(T)}
<1>10. \A n \in 0..k : n \in Good
  <2>1. 0 \in Good
    <3>1. 0 \in 0..k
      BY <1>1
    <3>2. it[0] \in Seq(T)
      BY <1>8
    <3> QED BY <3>1, <3>2
  <2>2. \A n \in 1..k : n - 1 \in Good => n \in Good
    <3> SUFFICES ASSUME NEW n \in 1..k, it[n - 1] \in Seq(T)
                 PROVE  n \in 0..k /\ it[n] \in Seq(T)
      OBVIOUS
    <3>1. n \in 0..k /\ files[n] \in T
      BY <1>1
    <3>2. Append(it[n - 1], files[n]) \in Seq(T)
      BY <3>1
    <3>3. it[n] = Append(it[n - 1], files[n]) \/ it[n] = it[n - 1]
      BY <1>9
    <3> QED BY <3>1, <3>2, <3>3
  <2> HIDE DEF Good
  <2> QED BY <1>1, <2>1, <2>2, UpTo
<1>11. \A n \in 0..k : it[n] \in Seq(T)
  BY <1>10
<1> QED BY <1>6, <1>8, <1>9, <1>11 DEF k

\* A layer that is in several images is written once, under its name
\* (tarball/write.go:189-192).
LEMMA WrittenOnceNames ==
    ASSUME NEW T, NEW files \in Seq(T)
    PROVE  /\ WrittenOnce(files) \in Seq(T)
           /\ ToSet(WrittenOnce(files)) \subseteq ToSet(files)
           /\ \A x \in ToSet(files) : \E y \in ToSet(WrittenOnce(files)) : y.name = x.name
<1>1. PICK f : /\ f[0] = <<>> /\ WrittenOnce(files) = f[Len(files)]
               /\ \A n \in 0..Len(files) : f[n] \in Seq(T)
               /\ \A n \in 1..Len(files) :
                     f[n] = IF Kept(files, n) THEN Append(f[n - 1], files[n]) ELSE f[n - 1]
  BY WrittenOnceSteps
<1>2. PICK k \in Nat : k = Len(files) /\ DOMAIN files = 1..k /\ \A n \in 1..k : files[n] \in T
  OBVIOUS
<1> DEFINE Good == {n \in 0..k : /\ ToSet(f[n]) \subseteq ToSet(files)
                                 /\ \A j \in 1..n : \E y \in ToSet(f[n]) : y.name = files[j].name}
<1>3. 0 \in Good
  BY <1>1 DEF ToSet
<1>4. ASSUME NEW n \in 1..k, n - 1 \in Good
      PROVE  n \in Good
  <2>1. /\ n \in 0..k /\ n - 1 \in 0..k /\ files[n] \in T
        /\ \A j \in 1..n : j = n \/ j \in 1..n - 1
    BY <1>2
  <2>2. /\ ToSet(f[n - 1]) \subseteq ToSet(files)
        /\ \A j \in 1..n - 1 : \E y \in ToSet(f[n - 1]) : y.name = files[j].name
    BY <1>4
  <2>3. files[n] \in ToSet(files) /\ f[n - 1] \in Seq(T)
    BY <1>1, <1>2, <2>1 DEF ToSet
  <2>4. f[n] = IF Kept(files, n) THEN Append(f[n - 1], files[n]) ELSE f[n - 1]
    BY <1>1, <1>2
  <2>5. CASE Kept(files, n)
    <3>1. f[n] = Append(f[n - 1], files[n])
      BY <2>4, <2>5
    <3>2. ToSet(f[n]) = ToSet(f[n - 1]) \cup {files[n]}
      BY <2>3, <3>1, AppendSet
    <3> QED BY <2>1, <2>2, <2>3, <3>2
  <2>6. CASE ~Kept(files, n)
    <3>1. f[n] = f[n - 1]
      BY <2>4, <2>6
    <3>2. PICK j \in 1..n - 1 : files[j].name = files[n].name
      BY <2>6 DEF Kept, SameFile
    <3> QED BY <2>1, <2>2, <3>1, <3>2
  <2> QED BY <2>5, <2>6
<1>5. \A n \in 0..k : n \in Good
  <2> HIDE DEF Good
  <2> QED BY <1>3, <1>4, UpTo
<1>6. k \in 0..k
  OBVIOUS
<1>7. /\ ToSet(f[k]) \subseteq ToSet(files)
      /\ \A j \in 1..k : \E y \in ToSet(f[k]) : y.name = files[j].name
  BY <1>5, <1>6
<1>8. ASSUME NEW x \in ToSet(files)
      PROVE  \E y \in ToSet(f[k]) : y.name = x.name
  <2>1. PICK j \in 1..k : x = files[j]
    BY <1>2 DEF ToSet
  <2> QED BY <1>7, <2>1
<1> QED BY <1>1, <1>2, <1>6, <1>7, <1>8

\* Of the files that have a cost, the function w counts all but the configs.
Counts(w, c) ==
    /\ c \in [DOMAIN c -> Nat] /\ w \in [DOMAIN c -> Nat]
    /\ \A x \in DOMAIN c : x.name[1] # "config" => w[x] >= 1

\* What is written costs no more than all the files.  It costs as much when nothing is
\* left out, as can be told by counting what is not always written.
LEMMA WrittenOnceSum ==
    ASSUME NEW c, NEW w, Counts(w, c), NEW files \in Seq(DOMAIN c)
    PROVE  LET once == WrittenOnce(files)
           IN  /\ SumOf(once, c) <= SumOf(files, c)
               /\ SumOf(once, w) >= SumOf(files, w) => SumOf(once, c) = SumOf(files, c)
<1> DEFINE T == DOMAIN c
<1>0. /\ c \in [T -> Nat] /\ w \in [T -> Nat] /\ files \in Seq(T)
      /\ \A x \in T : x.name[1] # "config" => w[x] >= 1
  BY DEF Counts
<1> HIDE DEF T
<1>1. PICK f : /\ f[0] = <<>> /\ WrittenOnce(files) = f[Len(files)]
               /\ \A n \in 0..Len(files) : f[n] \in Seq(T)
               /\ \A n \in 1..Len(files) :
                     f[n] = IF Kept(files, n) THEN Append(f[n - 1], files[n]) ELSE f[n - 1]
  BY <1>0, WrittenOnceSteps
<1>2. PICK k \in Nat : k = Len(files) /\ \A n \in 1..k : files[n] \in T
  BY <1>0
<1>3. PICK p : Sums(p, files, c) /\ SumOf(files, c) = p[k]
  BY <1>0, <1>2, SumIs
<1>4. PICK q : Sums(q, files, w) /\ SumOf(files, w) = q[k]
  BY <1>0, <1>2, SumIs
<1> DEFINE a(n) == SumOf(f[n], c)
           b(n) == SumOf(f[n], w)
           Good == {n \in 0..k : /\ a(n) <= p[n] /\ b(n) <= q[n]
                                 /\ b(n) >= q[n] => a(n) = p[n]}
<1>5. \A n \in 0..k : a(n) \in Nat /\ b(n) \in Nat /\ p[n] \in Nat /\ q[n] \in Nat
  <2> TAKE n \in 0..k
  <2>1. f[n] \in Seq(T)
    BY <1>1, <1>2
  <2>2. SumOf(f[n], c) \in Nat /\ SumOf(f[n], w) \in Nat
    BY <1>0, <2>1, SumIs
  <2> QED BY <1>2, <1>3, <1>4, <2>2 DEF Sums
<1>6. 0 \in Good
  <2>1. f[0] \in Seq(T) /\ Len(f[0]) = 0
    BY <1>1, <1>2
  <2>2. a(0) = 0 /\ b(0) = 0
    BY <1>0, <2>1, SumEmpty
  <2>3. p[0] = 0 /\ q[0] = 0
    BY <1>3, <1>4 DEF Sums
  <2> HIDE DEF a, b
  <2> QED BY <2>2, <2>3
<1>7. ASSUME NEW n \in 1..k, n - 1 \in Good
      PROVE  n \in Good
  <2>1. n \in 0..k /\ n - 1 \in 0..k /\ files[n] \in T
    BY <1>2
  <2>2. p[n] = p[n - 1] + c[files[n]] /\ q[n] = q[n - 1] + w[files[n]]
    BY <1>2, <1>3, <1>4 DEF Sums
  <2>3. c[files[n]] \in Nat /\ w[files[n]] \in Nat
    BY <1>0, <2>1
  <2>4. f[n] = IF Kept(files, n) THEN Append(f[n - 1], files[n]) ELSE f[n - 1]
    BY <1>1, <1>2
  <2>5. f[n - 1] \in Seq(T)
    BY <1>1, <1>2, <2>1
  <2>6. /\ a(n - 1) \in Nat /\ b(n - 1) \in Nat /\ p[n - 1] \in Nat /\ q[n - 1] \in Nat
    BY <1>5, <2>1
  <2>7. /\ a(n - 1) <= p[n - 1] /\ b(n - 1) <= q[n - 1]
        /\ b(n - 1) >= q[n - 1] => a(n - 1) = p[n - 1]
    BY <1>7
  <2>8. CASE Kept(files, n)
    <3>1. f[n] = Append(f[n - 1], files[n])
      BY <2>4, <2>8
    <3>2. a(n) = a(n - 1) + c[files[n]] /\ b(n) = b(n - 1) + w[files[n]]
      BY <1>0, <2>1, <2>5, <3>1, SumAppend
    <3> HIDE DEF a, b
    <3>3. a(n) <= p[n] /\ b(n) <= q[n] /\ (b(n) >= q[n] => a(n) = p[n])
      BY <2>2, <2>3, <2>6, <2>7, <3>2
    <3> QED BY <2>1, <3>3
  <2>9. CASE ~Kept(files, n)
    <3>1. a(n) = a(n - 1) /\ b(n) = b(n - 1)
      BY <2>4, <2>9
    <3>2. w[files[n]] >= 1
      BY <1>0, <2>1, <2>9 DEF Kept
    <3> HIDE DEF a, b
    <3>3. a(n) <= p[n] /\ b(n) <= q[n] /\ ~(b(n) >= q[n])
      BY <2>2, <2>3, <2>6, <2>7, <3>1, <3>2
    <3> QED BY <2>1, <3>3
  <2> QED BY <2>8, <2>9
<1>8. \A n \in 0..k : n \in Good
  <2> HIDE DEF Good
  <2> QED BY <1>2, <1>6, <1>7, UpTo
<1>9. k \in 0..k
  OBVIOUS
<1>10. a(k) <= p[k] /\ (b(k) >= q[k] => a(k) = p[k])
  <2>1. k \in Good
    BY <1>8, <1>9
  <2> HIDE DEF a, b
  <2> QED BY <2>1
<1> QED BY <1>1, <1>2, <1>3, <1>4, <1>10

\* What a search of a sequence finds: the first that has what is searched, the last,
\* or nothing when none has it.
LEMMA FoundFirst ==
    ASSUME NEW k \in Nat, NEW I, I \subseteq 1..k, I # {}
    PROVE  Min(I) \in I
<1>1. I \subseteq Nat
  OBVIOUS
<1>2. PICK m \in I : \A n \in I : m <= n
  BY <1>1, LeastNumber
<1> QED BY <1>2 DEF Min

LEMMA FoundLast ==
    ASSUME NEW k \in Nat, NEW I, I \subseteq 1..k, I # {}
    PROVE  Max(I) \in I
<1> DEFINE J == {k - n : n \in I}
<1>1. J \subseteq Nat /\ J # {}
  <2>1. \A n \in I : n \in 1..k /\ k - n \in Nat
    OBVIOUS
  <2>2. \A x \in J : x \in Nat
    BY <2>1
  <2>3. PICK n \in I : TRUE
    OBVIOUS
  <2>4. k - n \in J
    OBVIOUS
  <2> QED BY <2>2, <2>4
<1>2. PICK m \in J : \A n \in J : m <= n
  <2> HIDE DEF J
  <2> QED BY <1>1, LeastNumber
<1>3. PICK i \in I : m = k - i
  OBVIOUS
<1>4. \A n \in I : i >= n
  <2> SUFFICES ASSUME NEW n \in I
               PROVE  i >= n
    OBVIOUS
  <2>1. k - i <= k - n
    BY <1>2, <1>3
  <2> QED BY <2>1
<1> QED BY <1>4 DEF Max

\* The digests of an image's diff IDs are in the order of its layers.
LEMMA DiffIDs ==
    ASSUME NEW i \in DOMAIN LayersOf
    PROVE  /\ LayersOf[i] \in Seq(ToSet(LayersOf[i])) /\ Len(LayersOf[i]) \in Nat
           /\ DOMAIN LayersOf[i] = 1..Len(LayersOf[i])
           /\ ConfigOf[i].diffids = [n \in 1..Len(LayersOf[i]) |-> DiffOf[LayersOf[i][n]]]
           /\ \A x \in ToSet(LayersOf[i]) : BlobToDiffID(i, x) = DiffOf[x]
<1>1. /\ LayersOf[i] \in Seq(ToSet(LayersOf[i])) /\ Len(LayersOf[i]) \in Nat
      /\ DOMAIN LayersOf[i] = 1..Len(LayersOf[i])
      /\ ConfigOf[i].diffids = [n \in 1..Len(LayersOf[i]) |-> DiffOf[LayersOf[i][n]]]
  BY TarballAssumption
<1>2. ASSUME NEW x \in ToSet(LayersOf[i])
      PROVE  BlobToDiffID(i, x) = DiffOf[x]
  <2> DEFINE I == {n \in 1..Len(LayersOf[i]) : LayersOf[i][n] = x}
  <2>1. I # {}
    BY <1>1 DEF ToSet
  <2>2. Min(I) \in I
    BY <1>1, <2>1, FoundFirst
  <2>3. BlobToDiffID(i, x) = ConfigOf[i].diffids[Min(I)]
    BY <2>1 DEF BlobToDiffID, SelectInSeq
  <2> QED BY <1>1, <2>2, <2>3
<1> QED BY <1>1, <1>2

\* The descriptors that are kept of the foreign layers of an image.
LEMMA Sources ==
    ASSUME NEW i \in DOMAIN LayersOf
    PROVE  \A d :
             /\ d \in DOMAIN LayerSources(i) <=>
                    \E x \in ToSet(LayersOf[i]) : x \in Foreign /\ DiffOf[x] = d
             /\ d \in DOMAIN LayerSources(i) =>
                    /\ LayerSources(i)[d] \in ToSet(LayersOf[i]) \cap Foreign
                    /\ DiffOf[LayerSources(i)[d]] = d
<1> DEFINE I(d) == {n \in 1..Len(LayersOf[i]) :
                       LayersOf[i][n] \in Foreign /\ BlobToDiffID(i, LayersOf[i][n]) = d}
           last(d) == IF I(d) # {} THEN Max(I(d)) ELSE 0
           D == {BlobToDiffID(i, x) : x \in ToSet(LayersOf[i]) \cap Foreign}
<1>1. LayerSources(i) = [d \in D |-> LayersOf[i][last(d)]]
  BY DEF LayerSources, SelectLastInSeq
<1>2. \A d : d \in D <=> \E x \in ToSet(LayersOf[i]) : x \in Foreign /\ DiffOf[x] = d
  <2>1. \A x \in ToSet(LayersOf[i]) : BlobToDiffID(i, x) = DiffOf[x]
    BY DiffIDs
  <2> QED BY <2>1
<1>3. ASSUME NEW d \in D
      PROVE  /\ LayersOf[i][last(d)] \in ToSet(LayersOf[i]) \cap Foreign
             /\ DiffOf[LayersOf[i][last(d)]] = d
  <2>1. I(d) # {}
    BY DiffIDs DEF ToSet
  <2>2. Max(I(d)) \in I(d)
    BY <2>1, DiffIDs, FoundLast
  <2>3. last(d) \in I(d)
    BY <2>1, <2>2
  <2>4. LayersOf[i][last(d)] \in ToSet(LayersOf[i])
    BY <2>3, DiffIDs DEF ToSet
  <2> QED BY <2>3, <2>4, DiffIDs
<1> HIDE DEF last, D
<1> QED BY <1>1, <1>2, <1>3

\* The ids of the layers of an image in a legacy tarball: each is made from the layer,
\* the id of its parent and, on top, the config (legacy/tarball/write.go:56-117).
LEMMA V1IDs ==
    ASSUME NEW i \in DOMAIN LayersOf
    PROVE  LET ids == V1LayerIDs(i)
               k == Len(LayersOf[i])
           IN  /\ DOMAIN ids = 1..k /\ ids \in Seq(ToSet(ids)) /\ Len(ids) = k
               /\ \A n \in 1..k :
                     /\ ids[n][1] = LayersOf[i][n]
                     /\ ids[n][2] = IF n = 1 THEN <<>> ELSE ids[n - 1]
                     /\ ids[n] # <<>>
<1> DEFINE k == Len(LayersOf[i])
           top(n) == IF n = k THEN <<ConfigOf[i]>> ELSE <<>>
           next(n, x) == V1LayerID(LayersOf[i][n], x, top(n))
           Is(f, m) == f = [n \in 0..m |-> IF n = 0 THEN <<>> ELSE next(n, f[n - 1])]
           it == CHOOSE f : Is(f, k)
           Solved == {m \in 0..k : \E f : Is(f, m)}
           ids == V1LayerIDs(i)
<1>1. k \in Nat
  BY DiffIDs
<1>2. 0 \in Solved
  <2> DEFINE f == [n \in 0..0 |-> <<>>]
  <2>1. f = [n \in 0..0 |-> IF n = 0 THEN <<>> ELSE next(n, f[n - 1])]
    <3> HIDE DEF next
    <3> QED OBVIOUS
  <2>2. Is(f, 0)
    BY <2>1
  <2>3. 0 \in 0..k
    BY <1>1
  <2> HIDE DEF Is, f, k
  <2> QED BY <2>2, <2>3
<1>3. ASSUME NEW m \in 1..k, m - 1 \in Solved
      PROVE  m \in Solved
  <2>1. PICK f : Is(f, m - 1)
    BY <1>3
  <2> DEFINE g == [n \in 0..m |-> IF n < m THEN f[n] ELSE next(m, f[m - 1])]
  <2>2. \A n \in 0..m : g[n] = IF n = 0 THEN <<>> ELSE next(n, g[n - 1])
    <3> SUFFICES ASSUME NEW n \in 0..m
                 PROVE  g[n] = IF n = 0 THEN <<>> ELSE next(n, g[n - 1])
      OBVIOUS
    <3> HIDE DEF next
    <3>1. CASE n = m
      <4>1. g[n] = next(m, f[m - 1]) /\ g[n - 1] = f[m - 1] /\ n # 0
        BY <3>1
      <4> HIDE DEF g
      <4> QED BY <3>1, <4>1
    <3>2. CASE n # m
      <4>1. n \in 0..m - 1 /\ g[n] = f[n] /\ (n # 0 => g[n - 1] = f[n - 1])
        BY <3>2
      <4>2. f[n] = IF n = 0 THEN <<>> ELSE next(n, f[n - 1])
        BY <2>1, <4>1
      <4> HIDE DEF g
      <4> QED BY <4>1, <4>2
    <3> QED BY <3>1, <3>2
  <2>3. Is(g, m)
    <3> HIDE DEF next
    <3> QED BY <2>2
  <2>4. m \in 0..k
    BY <1>1
  <2> HIDE DEF Is, g, k
  <2> QED BY <2>3, <2>4
<1>4. \A m \in 0..k : m \in Solved
  <2> HIDE DEF Solved, k
  <2> QED BY <1>1, <1>2, <1>3, UpTo
<1>5. \E f : Is(f, k)
  <2>1. k \in 0..k
    BY <1>1
  <2> HIDE DEF Is, k
  <2> QED BY <1>4, <2>1
<1>6. Is(it, k)
  <2> HIDE DEF Is, k
  <2> QED BY <1>5
<1>7. ids = [n \in 1..k |-> it[n]]
  BY DEF V1LayerIDs
<1>8. \A n \in 0..k : it[n] = IF n = 0 THEN <<>> ELSE next(n, it[n - 1])
  <2> HIDE DEF it, next, k
  <2> QED BY <1>6
<1> HIDE DEF it, ids
<1>9. DOMAIN ids = 1..k /\ \A n \in 1..k : ids[n] = it[n]
  BY <1>7
<1>10. ids \in Seq(ToSet(ids)) /\ Len(ids) = k
  <2>1. \A n \in 1..k : ids[n] \in ToSet(ids)
    BY <1>9 DEF ToSet
  <2> HIDE DEF k
  <2> QED BY <1>1, <1>7, <1>9, <2>1
<1>11. ASSUME NEW n \in 1..k
       PROVE  /\ ids[n][1] = LayersOf[i][n]
              /\ ids[n][2] = IF n = 1 THEN <<>> ELSE ids[n - 1]
              /\ ids[n] # <<>>
  <2>1. n \in 0..k /\ n # 0 /\ (n # 1 => n - 1 \in 1..k) /\ 0 \in 0..k
    BY <1>1
  <2>2. ids[n] = <<LayersOf[i][n], it[n - 1], top(n)>>
    <3> HIDE DEF top, k
    <3> QED BY <1>8, <1>9, <2>1 DEF V1LayerID
  <2>3. it[n - 1] = IF n = 1 THEN <<>> ELSE ids[n - 1]
    <3>1. CASE n = 1
      <4>1. n - 1 = 0 /\ it[0] = <<>>
        <5> HIDE DEF next, k
        <5> QED BY <1>8, <2>1, <3>1
      <4> QED BY <3>1, <4>1
    <3>2. CASE n # 1
      BY <1>9, <2>1, <3>2
    <3> QED BY <3>1, <3>2
  <2> HIDE DEF top
  <2> QED BY <2>2, <2>3
<1> QED BY <1>9, <1>10, <1>11 DEF ids

\* A sequence of one.
LEMMA OneSet ==
    ASSUME NEW x
    PROVE  <<x>> \in Seq({x}) /\ ToSet(<<x>>) = {x}
<1>1. DOMAIN <<x>> = {1} /\ <<x>>[1] = x
  OBVIOUS
<1> QED BY <1>1 DEF ToSet

LEMMA ImageFilesSet ==
    ASSUME NEW i \in DOMAIN LayersOf
    PROVE  /\ ImageFiles(i) \in Seq(ToSet(ImageFiles(i)))
           /\ ToSet(ImageFiles(i)) = {ConfigFile(i)} \cup {LayerFile(x) : x \in ToSet(LayersOf[i])}
<1> DEFINE layers_ == [n \in 1..Len(LayersOf[i]) |-> LayerFile(LayersOf[i][n])]
           T == {ConfigFile(i)} \cup {LayerFile(x) : x \in ToSet(LayersOf[i])}
<1>1. <<ConfigFile(i)>> \in Seq(T) /\ ToSet(<<ConfigFile(i)>>) = {ConfigFile(i)}
  BY OneSet
<1>2. layers_ \in Seq(T) /\ ToSet(layers_) = {LayerFile(x) : x \in ToSet(LayersOf[i])}
  <2>1. \A n \in 1..Len(LayersOf[i]) : LayersOf[i][n] \in ToSet(LayersOf[i])
    BY DiffIDs DEF ToSet
  <2>2. layers_ \in Seq(T)
    <3>1. \A n \in 1..Len(LayersOf[i]) : LayerFile(LayersOf[i][n]) \in T
      BY <2>1
    <3>2. Len(LayersOf[i]) \in Nat
      BY DiffIDs
    <3> HIDE DEF T
    <3> QED BY <3>1, <3>2
  <2>3. ToSet(layers_) = {LayerFile(x) : x \in ToSet(LayersOf[i])}
    <3>1. DOMAIN layers_ = DOMAIN LayersOf[i]
          /\ \A n \in DOMAIN layers_ : layers_[n] = LayerFile(LayersOf[i][n])
      BY DiffIDs
    <3> HIDE DEF layers_
    <3> QED BY <3>1 DEF ToSet
  <2> QED BY <2>2, <2>3
<1>3. ImageFiles(i) = <<ConfigFile(i)>> \o layers_
  BY DEF ImageFiles
<1> HIDE DEF layers_
<1>4. ImageFiles(i) \in Seq(T) /\ ToSet(ImageFiles(i)) = T
  <2>1. ToSet(<<ConfigFile(i)>>) \cup ToSet(layers_) = T
    BY <1>1, <1>2
  <2>2. PICK one : one = <<ConfigFile(i)>>
    OBVIOUS
  <2>3. one \o layers_ \in Seq(T) /\ ToSet(one \o layers_) = ToSet(one) \cup ToSet(layers_)
    <3> HIDE DEF T
    <3> QED BY <1>1, <1>2, <2>2, ConcatSet
  <2> HIDE DEF T
  <2> QED BY <1>3, <2>1, <2>2, <2>3
<1> QED BY <1>4

LEMMA V1ImageFilesSet ==
    ASSUME NEW i \in DOMAIN LayersOf
    PROVE  LET ids == V1LayerIDs(i)
               parent(k) == IF k = 1 THEN <<>> ELSE ids[k - 1]
               layer_(k) == ToSet(V1Files(LayersOf[i][k], ids[k], parent(k)))
           IN  /\ V1ImageFiles(i) \in Seq(ToSet(V1ImageFiles(i)))
               /\ ToSet(V1ImageFiles(i)) =
                     {ConfigFile(i)}
                     \cup IF Stops(i) = <<>> THEN UNION {layer_(k) : k \in 1..Len(LayersOf[i])} ELSE {}
<1> DEFINE ids == V1LayerIDs(i)
           parent(k) == IF k = 1 THEN <<>> ELSE ids[k - 1]
           files(k) == V1Files(LayersOf[i][k], ids[k], parent(k))
           all == [k \in 1..Len(LayersOf[i]) |-> files(k)]
           U == UNION {ToSet(files(k)) : k \in 1..Len(LayersOf[i])}
           T == {ConfigFile(i)} \cup U
<1>1. <<ConfigFile(i)>> \in Seq(T) /\ ToSet(<<ConfigFile(i)>>) = {ConfigFile(i)}
  BY OneSet
<1>2. all \in Seq(Seq(T)) /\ DOMAIN all = 1..Len(LayersOf[i]) /\ \A k \in DOMAIN all : all[k] = files(k)
  <2>1. Len(LayersOf[i]) \in Nat
    BY DiffIDs
  <2>2. ASSUME NEW k \in 1..Len(LayersOf[i])
        PROVE  files(k) \in Seq(T)
    <3>1. files(k) \in Seq(ToSet(files(k)))
      <4>1. DOMAIN files(k) = 1..3
        BY DEF V1Files
      <4>2. files(k) = [n \in 1..3 |-> files(k)[n]]
        BY DEF V1Files
      <4> HIDE DEF files
      <4>3. \A n \in 1..3 : files(k)[n] \in ToSet(files(k))
        BY <4>1 DEF ToSet
      <4> QED BY <4>2, <4>3
    <3>2. ToSet(files(k)) \subseteq T
      <4> HIDE DEF files
      <4> QED OBVIOUS
    <3> HIDE DEF files, T
    <3> QED BY <3>1, <3>2
  <2> HIDE DEF files, T
  <2> QED BY <2>1, <2>2
<1> HIDE DEF files
<1>3. FlattenSeq(all) \in Seq(T) /\ ToSet(FlattenSeq(all)) = U
  <2>1. FlattenSeq(all) \in Seq(T) /\ ToSet(FlattenSeq(all)) = UNION {ToSet(all[k]) : k \in DOMAIN all}
    <3> HIDE DEF T, all
    <3> QED BY <1>2, FlattenMembers
  <2>2. UNION {ToSet(all[k]) : k \in DOMAIN all} = U
    <3>1. \A k \in 1..Len(LayersOf[i]) : all[k] = files(k)
      BY <1>2
    <3>2. DOMAIN all = 1..Len(LayersOf[i])
      BY <1>2
    <3> HIDE DEF all
    <3> QED BY <3>1, <3>2
  <2> QED BY <2>1, <2>2
<1>4. V1ImageFiles(i) = <<ConfigFile(i)>> \o IF Stops(i) = <<>> THEN FlattenSeq(all) ELSE <<>>
  BY DEF V1ImageFiles, files
<1>5. V1ImageFiles(i) \in Seq(T)
      /\ ToSet(V1ImageFiles(i)) = {ConfigFile(i)} \cup IF Stops(i) = <<>> THEN U ELSE {}
  <2>1. CASE Stops(i) = <<>>
    <3>1. PICK one : one = <<ConfigFile(i)>>
      OBVIOUS
    <3>2. PICK rest : rest = FlattenSeq(all)
      OBVIOUS
    <3> HIDE DEF T, U, all
    <3>3. one \o rest \in Seq(T) /\ ToSet(one \o rest) = ToSet(one) \cup ToSet(rest)
      BY <1>1, <1>3, <3>1, <3>2, ConcatSet
    <3> QED BY <1>1, <1>3, <1>4, <2>1, <3>1, <3>2, <3>3
  <2>2. CASE Stops(i) # <<>>
    <3>1. <<>> \in Seq(T) /\ ToSet(<<>>) = {}
      BY DEF ToSet
    <3> HIDE DEF T, U, all
    <3> QED BY <1>1, <1>4, <2>2, <3>1, ConcatSet
  <2> QED BY <2>1, <2>2
<1>6. V1ImageFiles(i) \in Seq(ToSet(V1ImageFiles(i)))
  <2> HIDE DEF T
  <2> QED BY <1>5, OwnSeq
<1> QED BY <1>5, <1>6 DEF files

(***************************************************************************)
(* What there is to write.                                                 *)
(***************************************************************************)

Legacy(j) == j.how = "legacy"

\* The files of a save.
TodoOf(j) == IF Legacy(j) THEN MultiWrite(j.refs, j.order)
             ELSE WriteImagesToTar(j.refs, j.order, j.sorted)

Order(j) == IF Legacy(j) THEN j.order ELSE j.sorted

\* What the manifest says of the layers of an image.
Places(j, i) ==
    [k \in 1..Len(LayersOf[i]) |->
        IF Legacy(j) THEN <<"layer.tar", V1LayerIDs(i)[k]>> ELSE LayerName(LayersOf[i][k])]

ManifestOf(j) ==
    [n \in 1..Len(Order(j)) |-> Descriptor(j.refs, Order(j)[n], Places(j, Order(j)[n]))]

\* The data that a file of each name has.
Meant(j, x) ==
    /\ \A c : x.name = <<"config", c>> => x.data = c
    /\ \A l : x.name = LayerName(l) => x.data = <<"gzip", l>>
    /\ \A id : x.name = <<"layer.tar", id>> => x.data = <<"tar", DiffOf[id[1]]>>
    /\ \A id : x.name = <<"json", id>> => x.data.parent = id[2]
    /\ x.name = <<"manifest.json">> => x.data = ManifestOf(j)
    /\ x.name = <<"repositories">> => x.data = V1Repositories(j.refs, j.order)

\* Where the legacy writer gives up or panics.
IsStop(x) == x.name \in {<<"error">>, <<"panic">>}

\* The files without which an image does not load, and those of the legacy chain.
Needs(j, i) ==
    {<<"config", ConfigOf[i]>>} \cup {Places(j, i)[k] : k \in 1..Len(LayersOf[i])}
    \cup (IF Legacy(j) THEN {<<"json", V1LayerIDs(i)[k]>> : k \in 1..Len(LayersOf[i])} ELSE {})

NeedsOf(j) ==
    (UNION {Needs(j, i) : i \in ImagesIn(j.refs)})
    \cup {<<"manifest.json">>} \cup (IF Legacy(j) THEN {<<"repositories">>} ELSE {})

\* Names of different kinds differ.
LEMMA Kinds ==
    ASSUME NEW a, NEW b
    PROVE  /\ <<"config", a>> # LayerName(b) /\ <<"config", a>> # <<"layer.tar", b>>
           /\ <<"config", a>> # <<"json", b>> /\ <<"config", a>> # <<"VERSION", b>>
           /\ LayerName(a) # <<"layer.tar", b>> /\ LayerName(a) # <<"json", b>>
           /\ LayerName(a) # <<"VERSION", b>>
           /\ <<"layer.tar", a>> # <<"json", b>> /\ <<"layer.tar", a>> # <<"VERSION", b>>
           /\ <<"json", a>> # <<"VERSION", b>>
           /\ \A s \in {"manifest.json", "repositories", "error", "panic"} :
                 <<"config", a>> # <<s>> /\ LayerName(a) # <<s>> /\ <<"layer.tar", a>> # <<s>>
                 /\ <<"json", a>> # <<s>> /\ <<"VERSION", a>> # <<s>>
           /\ <<"manifest.json">> # <<"repositories">>
           /\ \A s \in {"error", "panic"} : <<"manifest.json">> # <<s>> /\ <<"repositories">> # <<s>>
           /\ <<"config", a>> = <<"config", b>> => a = b
           /\ LayerName(a) = LayerName(b) => a = b
           /\ <<"layer.tar", a>> = <<"layer.tar", b>> => a = b
           /\ <<"json", a>> = <<"json", b>> => a = b
<1>1. \A x, y : DOMAIN <<x, y>> = 1..2 /\ <<x, y>>[1] = x /\ <<x, y>>[2] = y
  OBVIOUS
<1>2. \A x : DOMAIN <<x>> = 1..1 /\ <<x>>[1] = x
  OBVIOUS
<1> QED BY <1>1, <1>2 DEF LayerName

LEMMA FilesMeant ==
    ASSUME NEW j
    PROVE  /\ \A i : Meant(j, ConfigFile(i)) /\ ~IsStop(ConfigFile(i))
           /\ \A l : Meant(j, LayerFile(l)) /\ ~IsStop(LayerFile(l))
           /\ Meant(j, ManifestFile(ManifestOf(j))) /\ ~IsStop(ManifestFile(ManifestOf(j)))
           /\ \A l, id, parent : id[1] = l /\ id[2] = parent =>
                 \A x \in ToSet(V1Files(l, id, parent)) : Meant(j, x) /\ ~IsStop(x)
<1>2. \A i : Meant(j, ConfigFile(i)) /\ ~IsStop(ConfigFile(i))
  <2> TAKE i
  <2>1. ConfigFile(i).name = <<"config", ConfigOf[i]>> /\ ConfigFile(i).data = ConfigOf[i]
    BY DEF ConfigFile, File
  <2> QED BY <2>1, Kinds DEF Meant, IsStop
<1>3. \A l : Meant(j, LayerFile(l)) /\ ~IsStop(LayerFile(l))
  <2> TAKE l
  <2>1. LayerFile(l).name = LayerName(l) /\ LayerFile(l).data = <<"gzip", l>>
    BY DEF LayerFile, File
  <2> QED BY <2>1, Kinds DEF Meant, IsStop
<1>4. Meant(j, ManifestFile(ManifestOf(j))) /\ ~IsStop(ManifestFile(ManifestOf(j)))
  <2>1. /\ ManifestFile(ManifestOf(j)).name = <<"manifest.json">>
        /\ ManifestFile(ManifestOf(j)).data = ManifestOf(j)
    BY DEF ManifestFile, File
  <2> QED BY <2>1, Kinds DEF Meant, IsStop
<1>5. ASSUME NEW l, NEW id, NEW parent, id[1] = l, id[2] = parent,
             NEW x \in ToSet(V1Files(l, id, parent))
      PROVE  Meant(j, x) /\ ~IsStop(x)
  <2>1. \/ x = File(<<"layer.tar", id>>, <<"tar", DiffOf[l]>>, SizeOf[l], TRUE)
        \/ x = File(<<"json", id>>, [id |-> id, parent |-> parent], 1, FALSE)
        \/ x = File(<<"VERSION", id>>, <<"1.0">>, 1, FALSE)
    <3> DEFINE s == V1Files(l, id, parent)
    <3>1. PICK n \in DOMAIN s : x = s[n]
      BY <1>5 DEF ToSet
    <3>2. n \in 1..3
      BY DEF V1Files
    <3>3. n = 1 \/ n = 2 \/ n = 3
      BY <3>2
    <3>4. /\ s[1] = File(<<"layer.tar", id>>, <<"tar", DiffOf[l]>>, SizeOf[l], TRUE)
          /\ s[2] = File(<<"json", id>>, [id |-> id, parent |-> parent], 1, FALSE)
          /\ s[3] = File(<<"VERSION", id>>, <<"1.0">>, 1, FALSE)
      BY DEF V1Files
    <3> HIDE DEF s
    <3> QED BY <3>1, <3>3, <3>4
  <2>2. CASE x = File(<<"layer.tar", id>>, <<"tar", DiffOf[l]>>, SizeOf[l], TRUE)
    <3>1. x.name = <<"layer.tar", id>> /\ x.data = <<"tar", DiffOf[id[1]]>>
      BY <1>5, <2>2 DEF File
    <3> QED BY <3>1, Kinds DEF Meant, IsStop
  <2>3. CASE x = File(<<"json", id>>, [id |-> id, parent |-> parent], 1, FALSE)
    <3>1. x.name = <<"json", id>> /\ x.data.parent = id[2]
      BY <1>5, <2>3 DEF File
    <3> QED BY <3>1, Kinds DEF Meant, IsStop
  <2>4. CASE x = File(<<"VERSION", id>>, <<"1.0">>, 1, FALSE)
    <3>1. x.name = <<"VERSION", id>>
      BY <2>4 DEF File
    <3> QED BY <3>1, Kinds DEF Meant, IsStop
  <2> QED BY <2>1, <2>2, <2>3, <2>4
<1>6. \A l, id, parent : id[1] = l /\ id[2] = parent =>
                 \A x \in ToSet(V1Files(l, id, parent)) : Meant(j, x) /\ ~IsStop(x)
  BY <1>5
<1> QED BY <1>2, <1>3, <1>4, <1>6

\* Of the files of all images each name is written.
LEMMA OnceOfAll ==
    ASSUME NEW k \in Nat, NEW seqs, seqs = [n \in 1..k |-> seqs[n]],
           \A n \in 1..k : seqs[n] \in Seq(ToSet(seqs[n]))
    PROVE  LET once == WrittenOnce(FlattenSeq(seqs))
               U == UNION {ToSet(seqs[n]) : n \in 1..k}
           IN  /\ once \in Seq(U)
               /\ \A x \in ToSet(once) : x \in U
               /\ \A x \in U : \E y \in ToSet(once) : y.name = x.name
<1> DEFINE U == UNION {ToSet(seqs[n]) : n \in 1..k}
           flat == FlattenSeq(seqs)
<1>1. \A n \in 1..k : seqs[n] \in Seq(U)
  <2> SUFFICES ASSUME NEW n \in 1..k
               PROVE  seqs[n] \in Seq(U)
    OBVIOUS
  <2>1. ToSet(seqs[n]) \subseteq U
    OBVIOUS
  <2> HIDE DEF U
  <2> QED BY <2>1
<1>2. seqs \in Seq(Seq(U)) /\ DOMAIN seqs = 1..k
  <2> HIDE DEF U
  <2> QED BY <1>1
<1>3. flat \in Seq(U) /\ ToSet(flat) = U
  <2>1. flat \in Seq(U) /\ ToSet(flat) = UNION {ToSet(seqs[n]) : n \in DOMAIN seqs}
    <3> HIDE DEF U
    <3> QED BY <1>2, FlattenMembers
  <2> QED BY <1>2, <2>1
<1> HIDE DEF flat, U
<1>4. /\ WrittenOnce(flat) \in Seq(U)
      /\ ToSet(WrittenOnce(flat)) \subseteq ToSet(flat)
      /\ \A x \in ToSet(flat) : \E y \in ToSet(WrittenOnce(flat)) : y.name = x.name
  BY <1>3, WrittenOnceNames
<1> QED BY <1>3, <1>4 DEF flat, U

\* What a file is called.
LEMMA FileNames ==
    /\ \A i : ConfigFile(i).name = <<"config", ConfigOf[i]>>
    /\ \A l : LayerFile(l).name = LayerName(l)
    /\ \A m : ManifestFile(m).name = <<"manifest.json">>
    /\ \A l, id, parent :
          /\ \E x \in ToSet(V1Files(l, id, parent)) : x.name = <<"layer.tar", id>>
          /\ \E x \in ToSet(V1Files(l, id, parent)) : x.name = <<"json", id>>
<1>1. \A i : ConfigFile(i).name = <<"config", ConfigOf[i]>>
  BY DEF ConfigFile, File
<1>2. \A l : LayerFile(l).name = LayerName(l)
  BY DEF LayerFile, File
<1>3. \A m : ManifestFile(m).name = <<"manifest.json">>
  BY DEF ManifestFile, File
<1>4. ASSUME NEW l, NEW id, NEW parent
      PROVE  /\ \E x \in ToSet(V1Files(l, id, parent)) : x.name = <<"layer.tar", id>>
             /\ \E x \in ToSet(V1Files(l, id, parent)) : x.name = <<"json", id>>
  <2> DEFINE s == V1Files(l, id, parent)
  <2>1. /\ 1 \in DOMAIN s /\ 2 \in DOMAIN s
        /\ s[1].name = <<"layer.tar", id>> /\ s[2].name = <<"json", id>>
    BY DEF V1Files, File
  <2> HIDE DEF s
  <2>2. s[1] \in ToSet(s) /\ s[2] \in ToSet(s)
    BY <2>1 DEF ToSet
  <2> QED BY <2>1, <2>2 DEF s
<1> QED BY <1>1, <1>2, <1>3, <1>4

\* What is needed is one of the lists, or of an image.
LEMMA InNeeds ==
    ASSUME NEW j, NEW name \in NeedsOf(j)
    PROVE  \/ name = <<"manifest.json">> \/ (Legacy(j) /\ name = <<"repositories">>)
           \/ \E i \in ImagesIn(j.refs) : name \in Needs(j, i)
<1> DEFINE A == UNION {Needs(j, i) : i \in ImagesIn(j.refs)}
           B == {<<"manifest.json">>}
           C == {<<"repositories">>}
<1>1. name \in A \/ name \in B \/ (Legacy(j) /\ name \in C)
  <2>1. NeedsOf(j) = A \cup B \cup (IF Legacy(j) THEN C ELSE {})
    BY DEF NeedsOf
  <2> HIDE DEF A, B, C
  <2> QED BY <2>1
<1>2. name \in A => \E i \in ImagesIn(j.refs) : name \in Needs(j, i)
  OBVIOUS
<1>3. (name \in B => name = <<"manifest.json">>) /\ (name \in C => name = <<"repositories">>)
  OBVIOUS
<1> HIDE DEF A, B, C
<1> QED BY <1>1, <1>2, <1>3

LEMMA TarballTodo ==
    ASSUME NEW j \in Jobs, ~Legacy(j)
    PROVE  /\ TodoOf(j) \in Seq(ToSet(TodoOf(j)))
           /\ \A x \in ToSet(TodoOf(j)) : Meant(j, x)
           /\ \A name \in NeedsOf(j) : \E x \in ToSet(TodoOf(j)) : x.name = name
<1> DEFINE k == Len(j.order)
           seqs == [n \in 1..k |-> ImageFiles(j.order[n])]
           once == WrittenOnce(FlattenSeq(seqs))
           U == UNION {ToSet(seqs[n]) : n \in 1..k}
           last == ManifestFile(ManifestOf(j))
<1>1. /\ j.how = "tarball" /\ ImagesIn(j.refs) \subseteq DOMAIN LayersOf
      /\ j.order \in Seq(ImagesIn(j.refs)) /\ ToSet(j.order) = ImagesIn(j.refs)
  BY JobsAssumption DEF Legacy
<1>2. k \in Nat /\ \A n \in 1..k : j.order[n] \in ImagesIn(j.refs) /\ j.order[n] \in DOMAIN LayersOf
  BY <1>1
<1>3. /\ once \in Seq(U)
      /\ \A x \in ToSet(once) : x \in U
      /\ \A x \in U : \E y \in ToSet(once) : y.name = x.name
  <2>1. \A n \in 1..k : seqs[n] \in Seq(ToSet(seqs[n]))
    BY <1>2, ImageFilesSet
  <2>2. seqs = [n \in 1..k |-> seqs[n]]
    OBVIOUS
  <2> HIDE DEF seqs, k
  <2> QED BY <1>2, <2>1, <2>2, OnceOfAll
<1>4. \A x : x \in U <=> \E i \in ImagesIn(j.refs) : x \in ToSet(ImageFiles(i))
  <2>1. \A i \in ImagesIn(j.refs) : \E n \in 1..k : i = j.order[n]
    BY <1>1 DEF ToSet
  <2> QED BY <1>2, <2>1
<1>5. TodoOf(j) = Append(once, last)
  <2>1. CalculateManifest(j.refs, j.sorted) = ManifestOf(j)
    BY <1>1 DEF CalculateManifest, ManifestOf, Places, Order, Legacy
  <2> QED BY <2>1 DEF TodoOf, WriteImagesToTar
<1> HIDE DEF once, U, last
<1>6. ToSet(TodoOf(j)) = ToSet(once) \cup {last} /\ TodoOf(j) \in Seq(ToSet(TodoOf(j)))
  BY <1>3, <1>5, AppendSet
<1>7. \A x \in U : \E i \in ImagesIn(j.refs) : x = ConfigFile(i) \/ \E l : x = LayerFile(l)
  BY <1>1, <1>4, ImageFilesSet
<1>8. ASSUME NEW x \in ToSet(TodoOf(j))
      PROVE  Meant(j, x)
  <2>1. x = last \/ x \in U
    BY <1>3, <1>6
  <2>2. CASE x = last
    BY <2>2, FilesMeant DEF last
  <2>3. CASE x \in U
    BY <1>7, <2>3, FilesMeant
  <2> QED BY <2>1, <2>2, <2>3
<1>9. ASSUME NEW name \in NeedsOf(j)
      PROVE  \E x \in ToSet(TodoOf(j)) : x.name = name
  <2>1. CASE name = <<"manifest.json">>
    BY <1>6, <2>1, FileNames DEF last
  <2>2. ASSUME NEW i \in ImagesIn(j.refs), name \in Needs(j, i)
        PROVE  \E x \in ToSet(TodoOf(j)) : x.name = name
    <3>1. \E x \in ToSet(ImageFiles(i)) : x.name = name
      <4>1. i \in DOMAIN LayersOf
        BY <1>1
      <4>2. CASE name = <<"config", ConfigOf[i]>>
        BY <4>1, <4>2, ImageFilesSet, FileNames
      <4>3. ASSUME NEW n \in 1..Len(LayersOf[i]), name = Places(j, i)[n]
            PROVE  \E x \in ToSet(ImageFiles(i)) : x.name = name
        <5>1. name = LayerName(LayersOf[i][n])
          BY <4>3 DEF Places
        <5>2. LayersOf[i][n] \in ToSet(LayersOf[i])
          BY <4>1, DiffIDs DEF ToSet
        <5> QED BY <4>1, <5>1, <5>2, ImageFilesSet, FileNames
      <4> QED BY <2>2, <4>2, <4>3 DEF Needs
    <3>2. PICK x \in ToSet(ImageFiles(i)) : x.name = name
      BY <3>1
    <3>3. x \in U
      BY <1>4
    <3> QED BY <1>3, <1>6, <3>2, <3>3
  <2>3. name = <<"manifest.json">> \/ \E i \in ImagesIn(j.refs) : name \in Needs(j, i)
    BY InNeeds
  <2> QED BY <2>1, <2>2, <2>3
<1> QED BY <1>6, <1>8, <1>9

LEMMA LegacyTodo ==
    ASSUME NEW j \in Jobs, Legacy(j)
    PROVE  /\ TodoOf(j) \in Seq(ToSet(TodoOf(j)))
           /\ \A x \in ToSet(TodoOf(j)) : Meant(j, x)
           /\ (\A x \in ToSet(TodoOf(j)) : ~IsStop(x)) =>
                 /\ \A name \in NeedsOf(j) : \E x \in ToSet(TodoOf(j)) : x.name = name
                 /\ \A i \in ImagesIn(j.refs) : LayersOf[i] # <<>>
<1> DEFINE stop == SelectInSeq(j.order, LAMBDA i : Stops(i) # <<>>)
           k == IF stop = 0 THEN Len(j.order) ELSE stop
           seqs == [n \in 1..k |-> V1ImageFiles(j.order[n])]
           once == WrittenOnce(FlattenSeq(seqs))
           U == UNION {ToSet(seqs[n]) : n \in 1..k}
           stopped == File(Stops(j.order[stop]), <<>>, 0, FALSE)
           last == ManifestFile(ManifestOf(j))
           repos == File(<<"repositories">>, V1Repositories(j.refs, j.order), 1, FALSE)
           rest == IF stop # 0 THEN <<stopped>> ELSE <<last, repos>>
           V == U \cup {stopped, last, repos}
<1>1. /\ ImagesIn(j.refs) \subseteq DOMAIN LayersOf
      /\ j.order \in Seq(ImagesIn(j.refs)) /\ ToSet(j.order) = ImagesIn(j.refs)
      /\ Len(j.order) \in Nat
  BY JobsAssumption DEF Legacy
<1>2. \/ stop = 0 /\ \A n \in 1..Len(j.order) : Stops(j.order[n]) = <<>>
      \/ stop \in 1..Len(j.order) /\ Stops(j.order[stop]) # <<>>
  <2> DEFINE I == {n \in 1..Len(j.order) : Stops(j.order[n]) # <<>>}
  <2>1. stop = IF I # {} THEN Min(I) ELSE 0
    BY DEF SelectInSeq
  <2>2. CASE I = {}
    BY <2>1, <2>2
  <2>3. CASE I # {}
    <3>1. Min(I) \in I
      BY <1>1, <2>3, FoundFirst
    <3> QED BY <2>1, <2>3, <3>1
  <2> QED BY <2>2, <2>3
<1> HIDE DEF stop
<1>3. k \in Nat /\ k <= Len(j.order)
  BY <1>1, <1>2
<1>4. \A n \in 1..k : j.order[n] \in ImagesIn(j.refs) /\ j.order[n] \in DOMAIN LayersOf
  <2>1. \A n \in 1..k : n \in 1..Len(j.order)
    BY <1>1, <1>3
  <2> QED BY <1>1, <2>1
<1>5. TodoOf(j) = once \o rest
  <2>1. V1Manifest(j.refs, j.order) = ManifestOf(j)
    BY DEF V1Manifest, ManifestOf, Places, Order, Legacy
  <2> QED BY <2>1 DEF TodoOf, MultiWrite, stop
<1> HIDE DEF k
<1>6. /\ once \in Seq(U)
      /\ \A x \in ToSet(once) : x \in U
      /\ \A x \in U : \E y \in ToSet(once) : y.name = x.name
  <2>1. \A n \in 1..k : seqs[n] \in Seq(ToSet(seqs[n]))
    BY <1>4, V1ImageFilesSet
  <2>2. seqs = [n \in 1..k |-> seqs[n]]
    OBVIOUS
  <2> HIDE DEF seqs
  <2> QED BY <1>3, <2>1, <2>2, OnceOfAll
<1>7. \A x : x \in U <=> \E n \in 1..k : x \in ToSet(V1ImageFiles(j.order[n]))
  OBVIOUS
<1>8. rest \in Seq(V) /\ ToSet(rest) = IF stop # 0 THEN {stopped} ELSE {last, repos}
  <2> HIDE DEF stopped, last, repos, U
  <2>1. rest \in Seq(V)
    <3>1. stopped \in V /\ last \in V /\ repos \in V
      OBVIOUS
    <3> HIDE DEF V
    <3>2. <<stopped>> \in Seq(V) /\ <<last, repos>> \in Seq(V)
      BY <3>1
    <3> QED BY <3>2
  <2>2. CASE stop # 0
    BY <2>2, OneSet
  <2>3. CASE stop = 0
    <3>1. DOMAIN <<last, repos>> = {1, 2} /\ <<last, repos>>[1] = last /\ <<last, repos>>[2] = repos
      OBVIOUS
    <3>2. ToSet(<<last, repos>>) = {last, repos}
      BY <3>1 DEF ToSet
    <3> QED BY <2>3, <3>2
  <2> QED BY <2>1, <2>2, <2>3
<1> HIDE DEF once, U, last, repos, stopped, rest
<1>9. ToSet(TodoOf(j)) = ToSet(once) \cup ToSet(rest) /\ TodoOf(j) \in Seq(ToSet(TodoOf(j)))
  <2>1. once \in Seq(V)
    BY <1>6
  <2> HIDE DEF V
  <2> QED BY <1>5, <1>8, <2>1, ConcatSet, OwnSeq
<1>10. \A x \in U : Meant(j, x) /\ ~IsStop(x)
  <2> SUFFICES ASSUME NEW n \in 1..k, NEW x \in ToSet(V1ImageFiles(j.order[n]))
               PROVE  Meant(j, x) /\ ~IsStop(x)
    BY <1>7
  <2>1. PICK i \in DOMAIN LayersOf : i = j.order[n]
    BY <1>4
  <2>2. CASE x = ConfigFile(i)
    BY <2>2, FilesMeant
  <2>3. CASE x # ConfigFile(i)
    <3> DEFINE ids == V1LayerIDs(i)
               parent(m) == IF m = 1 THEN <<>> ELSE ids[m - 1]
    <3>1. PICK m \in 1..Len(LayersOf[i]) : x \in ToSet(V1Files(LayersOf[i][m], ids[m], parent(m)))
      BY <2>1, <2>3, V1ImageFilesSet
    <3>2. ids[m][1] = LayersOf[i][m] /\ ids[m][2] = parent(m)
      BY V1IDs
    <3> HIDE DEF ids, parent
    <3> QED BY <3>1, <3>2, FilesMeant
  <2> QED BY <2>2, <2>3
<1>11. ASSUME NEW x \in ToSet(TodoOf(j))
       PROVE  Meant(j, x)
  <2>1. x \in U \/ (stop # 0 /\ x = stopped) \/ x = last \/ x = repos
    BY <1>6, <1>8, <1>9
  <2>2. CASE x = last
    BY <2>2, FilesMeant DEF last
  <2>3. CASE x = repos
    <3>1. x.name = <<"repositories">> /\ x.data = V1Repositories(j.refs, j.order)
      BY <2>3 DEF repos, File
    <3> QED BY <3>1, Kinds DEF Meant
  <2>4. CASE stop # 0 /\ x = stopped
    <3>1. x.name = Stops(j.order[stop])
      BY <2>4 DEF stopped, File
    <3>2. Stops(j.order[stop]) = <<"error">> \/ Stops(j.order[stop]) = <<"panic">>
      BY <1>2, <2>4 DEF Stops
    <3> QED BY <3>1, <3>2, Kinds DEF Meant
  <2> QED BY <1>10, <2>1, <2>2, <2>3, <2>4
<1>12. ASSUME \A x \in ToSet(TodoOf(j)) : ~IsStop(x)
       PROVE  stop = 0
  <2> SUFFICES ASSUME stop # 0
               PROVE  FALSE
    OBVIOUS
  <2>1. stopped \in ToSet(TodoOf(j))
    BY <1>8, <1>9
  <2>2. stopped.name = Stops(j.order[stop])
    BY DEF stopped, File
  <2>3. Stops(j.order[stop]) = <<"error">> \/ Stops(j.order[stop]) = <<"panic">>
    BY <1>2 DEF Stops
  <2> QED BY <1>12, <2>1, <2>2, <2>3 DEF IsStop
<1>13. ASSUME stop = 0, NEW i \in ImagesIn(j.refs)
       PROVE  /\ LayersOf[i] # <<>>
              /\ Stops(i) = <<>>
              /\ \A x \in ToSet(V1ImageFiles(i)) : x \in U
  <2>1. PICK n \in 1..Len(j.order) : i = j.order[n]
    BY <1>1 DEF ToSet
  <2>2. Stops(i) = <<>>
    BY <1>2, <1>13, <2>1
  <2>3. n \in 1..k
    BY <1>13, <2>1 DEF k
  <2> QED BY <1>7, <2>1, <2>2, <2>3 DEF Stops
<1>14. ASSUME stop = 0, NEW name \in NeedsOf(j)
       PROVE  \E x \in ToSet(TodoOf(j)) : x.name = name
  <2>1. CASE name = <<"manifest.json">>
    <3>1. last \in ToSet(TodoOf(j))
      BY <1>8, <1>9, <1>14
    <3> QED BY <2>1, <3>1, FileNames DEF last
  <2>2. CASE name = <<"repositories">>
    <3>1. repos \in ToSet(TodoOf(j)) /\ repos.name = <<"repositories">>
      BY <1>8, <1>9, <1>14 DEF repos, File
    <3> QED BY <2>2, <3>1
  <2>3. ASSUME NEW i \in ImagesIn(j.refs), name \in Needs(j, i)
        PROVE  \E x \in ToSet(TodoOf(j)) : x.name = name
    <3> DEFINE ids == V1LayerIDs(i)
               parent(m) == IF m = 1 THEN <<>> ELSE ids[m - 1]
    <3>1. i \in DOMAIN LayersOf /\ Stops(i) = <<>> /\ \A x \in ToSet(V1ImageFiles(i)) : x \in U
      BY <1>1, <1>13, <1>14
    <3>2. \E x \in ToSet(V1ImageFiles(i)) : x.name = name
      <4>1. CASE name = <<"config", ConfigOf[i]>>
        BY <3>1, <4>1, V1ImageFilesSet, FileNames
      <4>2. ASSUME NEW m \in 1..Len(LayersOf[i]),
                   name = <<"layer.tar", ids[m]>> \/ name = <<"json", ids[m]>>
            PROVE  \E x \in ToSet(V1ImageFiles(i)) : x.name = name
        <5>1. \A x \in ToSet(V1Files(LayersOf[i][m], ids[m], parent(m))) : x \in ToSet(V1ImageFiles(i))
          BY <3>1, V1ImageFilesSet
        <5> HIDE DEF ids, parent
        <5>2. \E x \in ToSet(V1Files(LayersOf[i][m], ids[m], parent(m))) : x.name = name
          <6>1. PICK id, l, up : id = ids[m] /\ l = LayersOf[i][m] /\ up = parent(m)
            OBVIOUS
          <6>2. /\ \E x \in ToSet(V1Files(l, id, up)) : x.name = <<"layer.tar", id>>
                /\ \E x \in ToSet(V1Files(l, id, up)) : x.name = <<"json", id>>
            BY FileNames
          <6> QED BY <4>2, <6>1, <6>2
        <5> QED BY <5>1, <5>2
      <4>3. \/ name = <<"config", ConfigOf[i]>>
            \/ \E m \in 1..Len(LayersOf[i]) : name = <<"layer.tar", ids[m]>> \/ name = <<"json", ids[m]>>
        BY <2>3 DEF Needs, Places
      <4> HIDE DEF ids
      <4> QED BY <4>1, <4>2, <4>3
    <3>3. PICK x \in ToSet(V1ImageFiles(i)) : x.name = name
      BY <3>2
    <3> QED BY <1>6, <1>9, <3>1, <3>3
  <2>4. \/ name = <<"manifest.json">> \/ name = <<"repositories">>
        \/ \E i \in ImagesIn(j.refs) : name \in Needs(j, i)
    BY InNeeds
  <2> QED BY <2>1, <2>2, <2>3, <2>4
<1> QED BY <1>9, <1>11, <1>12, <1>13, <1>14

\* Whatever is saved, the file of each name has the data it is meant to have, and if
\* the writer does not stop, whatever an image needs is there.
LEMMA TodoHolds ==
    ASSUME NEW j \in Jobs
    PROVE  /\ TodoOf(j) \in Seq(ToSet(TodoOf(j)))
           /\ \A x \in ToSet(TodoOf(j)) : Meant(j, x)
           /\ (\A x \in ToSet(TodoOf(j)) : ~IsStop(x)) =>
                 /\ \A name \in NeedsOf(j) : \E x \in ToSet(TodoOf(j)) : x.name = name
                 /\ Legacy(j) => \A i \in ImagesIn(j.refs) : LayersOf[i] # <<>>
  BY TarballTodo, LegacyTodo

(***************************************************************************)
(* What is loaded.                                                         *)
(***************************************************************************)

\* A tar of files that have the data they are meant to have; they need not be all,
\* nor whole.
GoodTar(t) == t \in Seq(ToSet(t)) /\ \A x \in ToSet(t) : Meant(job, x)

\* extractFileFromTar gives the data of a file of the name, and gives some if one is
\* there and all are whole (tarball/image.go:197-227).
LEMMA ExtractFacts ==
    ASSUME NEW t, t \in Seq(ToSet(t)), NEW name
    PROVE  /\ ExtractFile(t, name) # <<>> =>
                 \E x \in ToSet(t) : x.name = name /\ ExtractFile(t, name) = <<x.data>>
           /\ (\E x \in ToSet(t) : x.name = name) /\ (\A x \in ToSet(t) : x.whole) =>
                 ExtractFile(t, name) # <<>>
<1> DEFINE I == {n \in 1..Len(t) : t[n].name = name}
           n == IF I # {} THEN Min(I) ELSE 0
<1>1. Len(t) \in Nat /\ DOMAIN t = 1..Len(t)
  OBVIOUS
<1>2. ExtractFile(t, name) = IF n # 0 /\ t[n].whole THEN <<t[n].data>> ELSE <<>>
  BY DEF ExtractFile, SelectInSeq
<1>3. I # {} => n \in I
  <2>1. I # {} => Min(I) \in I
    BY <1>1, FoundFirst
  <2> QED BY <2>1
<1>4. n # 0 => I # {}
  OBVIOUS
<1>5. \A k \in I : k # 0 /\ t[k] \in ToSet(t) /\ t[k].name = name
  BY <1>1 DEF ToSet
<1>6. (\E x \in ToSet(t) : x.name = name) => I # {}
  BY <1>1 DEF ToSet
<1> HIDE DEF n, I
<1>7. ASSUME ExtractFile(t, name) # <<>>
      PROVE  \E x \in ToSet(t) : x.name = name /\ ExtractFile(t, name) = <<x.data>>
  BY <1>2, <1>3, <1>4, <1>5, <1>7
<1>8. ASSUME \E x \in ToSet(t) : x.name = name, \A x \in ToSet(t) : x.whole
      PROVE  ExtractFile(t, name) # <<>>
  <2>1. n \in I /\ n # 0 /\ t[n].whole
    BY <1>3, <1>5, <1>6, <1>8
  <2>2. ExtractFile(t, name) = <<t[n].data>>
    BY <1>2, <2>1
  <2>3. \A x : <<x>> # <<>>
    OBVIOUS
  <2> QED BY <2>2, <2>3
<1> QED BY <1>7, <1>8

\* What is found under a name, if anything.
LEMMA FindsMeant ==
    ASSUME NEW t, GoodTar(t)
    PROVE  /\ \A c : ExtractFile(t, <<"config", c>>) \in {<<>>, <<c>>}
           /\ \A l : ExtractFile(t, LayerName(l)) \in {<<>>, <<<<"gzip", l>>>>}
           /\ \A id : ExtractFile(t, <<"layer.tar", id>>) \in {<<>>, <<<<"tar", DiffOf[id[1]]>>>>}
           /\ \A id : ExtractFile(t, <<"json", id>>) # <<>> =>
                         ExtractFile(t, <<"json", id>>)[1].parent = id[2]
           /\ ExtractFile(t, <<"manifest.json">>) \in {<<>>, <<ManifestOf(job)>>}
           /\ ExtractFile(t, <<"repositories">>) \in {<<>>, <<V1Repositories(job.refs, job.order)>>}
<1>1. ASSUME NEW name, ExtractFile(t, name) # <<>>
      PROVE  \E x : x.name = name /\ Meant(job, x) /\ ExtractFile(t, name) = <<x.data>>
  BY <1>1, ExtractFacts DEF GoodTar
<1>2. \A c : ExtractFile(t, <<"config", c>>) \in {<<>>, <<c>>}
  <2> SUFFICES ASSUME NEW c, ExtractFile(t, <<"config", c>>) # <<>>
               PROVE  ExtractFile(t, <<"config", c>>) = <<c>>
    OBVIOUS
  <2>1. PICK x : x.name = <<"config", c>> /\ Meant(job, x)
                 /\ ExtractFile(t, <<"config", c>>) = <<x.data>>
    BY <1>1
  <2> QED BY <2>1 DEF Meant
<1>3. \A l : ExtractFile(t, LayerName(l)) \in {<<>>, <<<<"gzip", l>>>>}
  <2> SUFFICES ASSUME NEW l, ExtractFile(t, LayerName(l)) # <<>>
               PROVE  ExtractFile(t, LayerName(l)) = <<<<"gzip", l>>>>
    OBVIOUS
  <2>1. PICK x : x.name = LayerName(l) /\ Meant(job, x)
                 /\ ExtractFile(t, LayerName(l)) = <<x.data>>
    BY <1>1
  <2> QED BY <2>1 DEF Meant
<1>4. \A id : ExtractFile(t, <<"layer.tar", id>>) \in {<<>>, <<<<"tar", DiffOf[id[1]]>>>>}
  <2> SUFFICES ASSUME NEW id, ExtractFile(t, <<"layer.tar", id>>) # <<>>
               PROVE  ExtractFile(t, <<"layer.tar", id>>) = <<<<"tar", DiffOf[id[1]]>>>>
    OBVIOUS
  <2>1. PICK x : x.name = <<"layer.tar", id>> /\ Meant(job, x)
                 /\ ExtractFile(t, <<"layer.tar", id>>) = <<x.data>>
    BY <1>1
  <2> QED BY <2>1 DEF Meant
<1>5. ASSUME NEW id, ExtractFile(t, <<"json", id>>) # <<>>
      PROVE  ExtractFile(t, <<"json", id>>)[1].parent = id[2]
  <2>1. PICK x : x.name = <<"json", id>> /\ Meant(job, x)
                 /\ ExtractFile(t, <<"json", id>>) = <<x.data>>
    BY <1>1, <1>5
  <2> QED BY <2>1 DEF Meant
<1>6. ExtractFile(t, <<"manifest.json">>) \in {<<>>, <<ManifestOf(job)>>}
  <2> SUFFICES ASSUME ExtractFile(t, <<"manifest.json">>) # <<>>
               PROVE  ExtractFile(t, <<"manifest.json">>) = <<ManifestOf(job)>>
    OBVIOUS
  <2>1. PICK x : x.name = <<"manifest.json">> /\ Meant(job, x)
                 /\ ExtractFile(t, <<"manifest.json">>) = <<x.data>>
    BY <1>1
  <2> QED BY <2>1 DEF Meant
<1>7. ExtractFile(t, <<"repositories">>) \in {<<>>, <<V1Repositories(job.refs, job.order)>>}
  <2> SUFFICES ASSUME ExtractFile(t, <<"repositories">>) # <<>>
               PROVE  ExtractFile(t, <<"repositories">>) = <<V1Repositories(job.refs, job.order)>>
    OBVIOUS
  <2>1. PICK x : x.name = <<"repositories">> /\ Meant(job, x)
                 /\ ExtractFile(t, <<"repositories">>) = <<x.data>>
    BY <1>1
  <2> QED BY <2>1 DEF Meant
<1> QED BY <1>2, <1>3, <1>4, <1>5, <1>6, <1>7

\* What a file is found to hold for a layer.
Blob(i, n) == IF Legacy(job) THEN <<"tar", DiffOf[LayersOf[i][n]]>> ELSE <<"gzip", LayersOf[i][n]>>

LEMMA FindsBlob ==
    ASSUME NEW t, GoodTar(t), NEW i \in DOMAIN LayersOf, NEW n \in 1..Len(LayersOf[i]),
           ExtractFile(t, Places(job, i)[n]) # <<>>
    PROVE  ExtractFile(t, Places(job, i)[n]) = <<Blob(i, n)>>
<1>1. CASE Legacy(job)
  <2>1. PICK id : id = V1LayerIDs(i)[n]
    OBVIOUS
  <2>2. id[1] = LayersOf[i][n]
    BY <2>1, V1IDs
  <2>3. Places(job, i)[n] = <<"layer.tar", id>>
    BY <1>1, <2>1 DEF Places
  <2>4. ExtractFile(t, <<"layer.tar", id>>) \in {<<>>, <<<<"tar", DiffOf[id[1]]>>>>}
    BY FindsMeant
  <2> QED BY <1>1, <2>2, <2>3, <2>4 DEF Blob
<1>2. CASE ~Legacy(job)
  <2>1. Places(job, i)[n] = LayerName(LayersOf[i][n])
    BY <1>2 DEF Places
  <2>2. ExtractFile(t, LayerName(LayersOf[i][n])) \in {<<>>, <<<<"gzip", LayersOf[i][n]>>>>}
    BY FindsMeant
  <2> QED BY <1>2, <2>1, <2>2 DEF Blob
<1> QED BY <1>1, <1>2

\* The descriptor that is found is that of an image saved under the name
\* (Manifest.findDescriptor).
LEMMA FindsDescriptor ==
    ASSUME job \in Jobs, NEW tag
    PROVE  /\ FindDescriptor(ManifestOf(job), tag) # <<>> =>
                 \E i \in ImagesIn(job.refs) :
                    /\ FindDescriptor(ManifestOf(job), tag)
                          = <<Descriptor(job.refs, i, Places(job, i))>>
                    /\ \E other \in TagsOf(job.refs, i) : Name(other) = Name(tag)
           /\ tag \in DOMAIN job.refs /\ tag.kind = "tag" =>
                 FindDescriptor(ManifestOf(job), tag) # <<>>
<1> DEFINE m == ManifestOf(job)
           I == {n \in 1..Len(m) : \E ref \in m[n].tags : Name(ref) = Name(tag)}
           n == IF I # {} THEN Min(I) ELSE 0
           desc(i) == Descriptor(job.refs, i, Places(job, i))
<1>1. /\ Order(job) \in Seq(ImagesIn(job.refs)) /\ ToSet(Order(job)) = ImagesIn(job.refs)
  BY JobsAssumption DEF Order, Legacy
<1>2. Len(Order(job)) \in Nat /\ \A k \in 1..Len(Order(job)) : Order(job)[k] \in ImagesIn(job.refs)
  BY <1>1
<1>3. Len(m) = Len(Order(job)) /\ \A k \in 1..Len(m) : m[k] = desc(Order(job)[k])
  BY <1>2 DEF ManifestOf
<1>4. \A i : desc(i).tags = TagsOf(job.refs, i)
  BY DEF Descriptor
<1>5. FindDescriptor(m, tag) = IF n = 0 THEN <<>> ELSE <<m[n]>>
  BY DEF FindDescriptor, SelectInSeq
<1> HIDE DEF m, desc
<1>6. I # {} => n \in I /\ n # 0
  <2>1. I # {} => Min(I) \in I
    BY <1>2, <1>3, FoundFirst
  <2> QED BY <2>1
<1>7. I = {} => n = 0
  OBVIOUS
<1>8. \A k \in I : k \in 1..Len(m) /\ \E ref \in m[k].tags : Name(ref) = Name(tag)
  OBVIOUS
<1>9. ASSUME tag \in DOMAIN job.refs, tag.kind = "tag"
      PROVE  I # {}
  <2>1. job.refs[tag] \in ImagesIn(job.refs) /\ tag \in TagsOf(job.refs, job.refs[tag])
    BY <1>9 DEF ImagesIn, TagsOf
  <2>2. PICK k \in 1..Len(m) : Order(job)[k] = job.refs[tag]
    BY <1>1, <1>3, <2>1 DEF ToSet
  <2>3. tag \in m[k].tags
    BY <1>3, <1>4, <2>1, <2>2
  <2> QED BY <2>3
<1> HIDE DEF I, n
<1>10. ASSUME I # {}
       PROVE  \E i \in ImagesIn(job.refs) :
                    /\ FindDescriptor(m, tag) = <<desc(i)>>
                    /\ \E other \in TagsOf(job.refs, i) : Name(other) = Name(tag)
  <2>1. n \in 1..Len(m) /\ n # 0 /\ \E ref \in m[n].tags : Name(ref) = Name(tag)
    BY <1>6, <1>8, <1>10
  <2>2. PICK i \in ImagesIn(job.refs) : i = Order(job)[n]
    BY <1>2, <1>3, <2>1
  <2>3. m[n] = desc(i)
    BY <1>3, <2>1, <2>2
  <2> QED BY <1>4, <1>5, <2>1, <2>3
<1>11. I # {} => FindDescriptor(m, tag) # <<>>
  <2>1. \A x : <<x>> # <<>>
    OBVIOUS
  <2> QED BY <1>5, <1>6, <2>1
<1> QED BY <1>5, <1>7, <1>9, <1>10, <1>11 DEF m, desc

\* The descriptor of a foreign layer is its own, if no layer of the image has its
\* diff ID; one that is not foreign has none.
LEMMA SourceIs ==
    ASSUME NEW i \in DOMAIN LayersOf, ~Confused(i), NEW n \in 1..Len(LayersOf[i])
    PROVE  /\ ConfigOf[i].diffids[n] = DiffOf[LayersOf[i][n]]
           /\ DiffOf[LayersOf[i][n]] \in DOMAIN LayerSources(i) <=> LayersOf[i][n] \in Foreign
           /\ LayersOf[i][n] \in Foreign =>
                 LayerSources(i)[DiffOf[LayersOf[i][n]]] = LayersOf[i][n]
<1> DEFINE x == LayersOf[i][n]
<1>1. x \in ToSet(LayersOf[i]) /\ ConfigOf[i].diffids[n] = DiffOf[x]
  BY DiffIDs DEF ToSet
<1> HIDE DEF x
<1>2. \A y \in ToSet(LayersOf[i]) : y \in Foreign /\ DiffOf[y] = DiffOf[x] => y = x
  BY <1>1 DEF Confused
<1>3. DiffOf[x] \in DOMAIN LayerSources(i) <=> x \in Foreign
  BY <1>1, <1>2, Sources
<1>4. x \in Foreign => LayerSources(i)[DiffOf[x]] = x
  <2> SUFFICES ASSUME x \in Foreign
               PROVE  LayerSources(i)[DiffOf[x]] = x
    OBVIOUS
  <2>1. PICK y : y = LayerSources(i)[DiffOf[x]]
    OBVIOUS
  <2>2. y \in ToSet(LayersOf[i]) /\ y \in Foreign /\ DiffOf[y] = DiffOf[x]
    BY <1>3, <2>1, Sources
  <2> QED BY <1>2, <2>1, <2>2
<1> QED BY <1>1, <1>3, <1>4 DEF x

\* A file that is complete gives what the image was, by the descriptor of the image.
LEMMA GivesContent ==
    ASSUME NEW t, GoodTar(t), NEW i \in DOMAIN LayersOf, ~Confused(i),
           job.how \in {"tarball", "legacy"},
           \A n \in 1..Len(LayersOf[i]) : ExtractFile(t, Places(job, i)[n]) # <<>>,
           NEW desc, desc = Descriptor(job.refs, i, Places(job, i))
    PROVE  LET ids == LayerIDs(t, desc, ConfigOf[i])
               place(n) == IF LayersCompressed(t, desc) THEN LayerByDigest(ids, ids[n])
                           ELSE LayerByDiffID(ConfigOf[i], ConfigOf[i].diffids[n])
           IN  [n \in 1..Len(ids) |-> [is |-> ids[n], gives |-> Contents(t, desc, place(n))]]
               = Content(i).layers
<1> DEFINE k == Len(LayersOf[i])
           ids == LayerIDs(t, desc, ConfigOf[i])
           place(n) == IF LayersCompressed(t, desc) THEN LayerByDigest(ids, ids[n])
                       ELSE LayerByDiffID(ConfigOf[i], ConfigOf[i].diffids[n])
           x(n) == LayersOf[i][n]
           id(n) == IF Legacy(job) /\ x(n) \notin Foreign THEN DiffOf[x(n)] ELSE x(n)
<1>1. k \in Nat /\ \A n \in 1..k : ConfigOf[i].diffids[n] = DiffOf[x(n)]
  BY DiffIDs
<1>2. /\ desc.layers = Places(job, i) /\ desc.sources = LayerSources(i)
      /\ Len(desc.layers) = k
  <2>1. desc.layers = Places(job, i) /\ desc.sources = LayerSources(i)
    BY DEF Descriptor
  <2>2. Len(Places(job, i)) = k
    BY <1>1 DEF Places
  <2> QED BY <2>1, <2>2
<1>3. \A n \in 1..k : ExtractFile(t, desc.layers[n]) = <<Blob(i, n)>>
  BY <1>2, FindsBlob
<1>4. Len(ids) = k /\ \A n \in 1..k : ids[n] = id(n)
  <2>1. ids = [n \in 1..k |->
                  IF ConfigOf[i].diffids[n] \in DOMAIN desc.sources
                    THEN desc.sources[ConfigOf[i].diffids[n]]
                    ELSE ExtractFile(t, desc.layers[n])[1][2]]
    BY <1>2 DEF LayerIDs
  <2>2. ASSUME NEW n \in 1..k
        PROVE  ids[n] = id(n)
    <3>1. ids[n] = IF x(n) \in Foreign THEN x(n) ELSE Blob(i, n)[2]
      <4>1. ExtractFile(t, desc.layers[n])[1] = Blob(i, n)
        BY <1>3
      <4> HIDE DEF ids, x
      <4>2. /\ ConfigOf[i].diffids[n] = DiffOf[x(n)]
            /\ DiffOf[x(n)] \in DOMAIN LayerSources(i) <=> x(n) \in Foreign
            /\ x(n) \in Foreign => LayerSources(i)[DiffOf[x(n)]] = x(n)
        BY SourceIs DEF x
      <4> HIDE DEF k
      <4> QED BY <1>2, <2>1, <4>1, <4>2
    <3>2. Blob(i, n)[2] = IF Legacy(job) THEN DiffOf[x(n)] ELSE x(n)
      BY DEF Blob
    <3> HIDE DEF ids, x
    <3> QED BY <3>1, <3>2
  <2>3. Len(ids) = k
    <3> HIDE DEF k, ids
    <3> QED BY <1>1, <2>1
  <2> QED BY <2>2, <2>3
<1> HIDE DEF ids
<1>5. k # 0 => (LayersCompressed(t, desc) <=> ~Legacy(job))
  <2> SUFFICES ASSUME k # 0
               PROVE  LayersCompressed(t, desc) <=> ~Legacy(job)
    OBVIOUS
  <2>1. 1 \in 1..k
    BY <1>1
  <2>2. ExtractFile(t, desc.layers[1])[1] = Blob(i, 1)
    BY <1>3, <2>1
  <2>3. Blob(i, 1)[1] = IF Legacy(job) THEN "tar" ELSE "gzip"
    BY DEF Blob
  <2> QED BY <2>2, <2>3 DEF LayersCompressed
<1>6. ASSUME NEW n \in 1..k
      PROVE  Contents(t, desc, place(n)) = Blob(i, n)
  <2>1. k # 0
    BY <1>1
  <2>2. CASE Legacy(job)
    <3> DEFINE I == {p \in 1..Len(ConfigOf[i].diffids) :
                        ConfigOf[i].diffids[p] = ConfigOf[i].diffids[n]}
    <3>1. Len(ConfigOf[i].diffids) = k
      <4>1. ConfigOf[i].diffids = [m \in 1..k |-> DiffOf[LayersOf[i][m]]]
        BY TarballAssumption
      <4>2. k \in Nat
        BY <1>1
      <4> HIDE DEF k
      <4> QED BY <4>1, <4>2
    <3>2. I # {}
      BY <3>1
    <3>3. place(n) = Min(I)
      BY <1>5, <2>1, <2>2, <3>2 DEF LayerByDiffID, SelectInSeq
    <3>4. Min(I) \in I
      BY <1>1, <3>1, <3>2, FoundFirst
    <3>5. PICK p \in 1..k : p = place(n) /\ DiffOf[x(p)] = DiffOf[x(n)]
      BY <1>1, <3>1, <3>3, <3>4
    <3>6. Contents(t, desc, p) = Blob(i, p)
      BY <1>3 DEF Contents
    <3> HIDE DEF place
    <3> QED BY <2>2, <3>5, <3>6 DEF Blob
  <2>3. CASE ~Legacy(job)
    <3> DEFINE I == {p \in 1..Len(ids) : ids[p] = ids[n]}
    <3>1. I # {}
      BY <1>4
    <3>2. place(n) = Min(I)
      BY <1>5, <2>1, <2>3, <3>1 DEF LayerByDigest, SelectInSeq
    <3>3. Min(I) \in I
      BY <1>1, <1>4, <3>1, FoundFirst
    <3>4. PICK p \in 1..k : p = place(n) /\ id(p) = id(n)
      BY <1>4, <3>2, <3>3
    <3>5. Contents(t, desc, p) = Blob(i, p)
      BY <1>3 DEF Contents
    <3> HIDE DEF place
    <3> QED BY <2>3, <3>4, <3>5 DEF Blob
  <2> QED BY <2>2, <2>3
<1>7. \A n \in 1..k : [is |-> ids[n], gives |-> Contents(t, desc, place(n))]
                      = [is |-> id(n), gives |-> Blob(i, n)]
  <2> HIDE DEF place, id, k
  <2> QED BY <1>4, <1>6
<1>8. Content(i).layers = [n \in 1..k |-> [is |-> id(n), gives |-> Blob(i, n)]]
  <2>1. CASE Legacy(job)
    BY <2>1 DEF Content, Blob, Legacy
  <2>2. CASE ~Legacy(job)
    <3>1. job.how = "tarball"
      BY <2>2 DEF Legacy
    <3> QED BY <2>2, <3>1 DEF Content, Blob
  <2> QED BY <2>1, <2>2
<1>9. [n \in 1..Len(ids) |-> [is |-> ids[n], gives |-> Contents(t, desc, place(n))]]
      = [n \in 1..k |-> [is |-> id(n), gives |-> Blob(i, n)]]
  <2>1. Len(ids) = k
    BY <1>4
  <2> HIDE DEF place, id, k
  <2> QED BY <1>7, <2>1
<1> QED BY <1>8, <1>9 DEF ids

\* A tar that is loaded gives an image that was saved under the name, whole.
LEMMA LoadIs ==
    ASSUME job \in Jobs, NEW t, GoodTar(t), NEW tag
    PROVE  /\ Load(t, tag) # <<>> =>
                 \E i \in ImagesIn(job.refs) :
                    /\ \E other \in TagsOf(job.refs, i) : Name(other) = Name(tag)
                    /\ ~Confused(i) => Load(t, tag)[1] = Content(i)
           /\ /\ tag \in DOMAIN job.refs /\ tag.kind = "tag"
              /\ \A name \in NeedsOf(job) : ExtractFile(t, name) # <<>>
              => Load(t, tag) # <<>>
<1> DEFINE found == TarDescriptorAndConfig(t, tag)
           m == ExtractFile(t, <<"manifest.json">>)
           descs == IF m = <<>> THEN <<>> ELSE FindDescriptor(m[1], tag)
           configs == IF descs = <<>> THEN <<>> ELSE ExtractFile(t, descs[1].config)
           ids(desc, config) == LayerIDs(t, desc, config)
           place(desc, config, n) ==
               IF LayersCompressed(t, desc) THEN LayerByDigest(ids(desc, config), ids(desc, config)[n])
               ELSE LayerByDiffID(config, config.diffids[n])
           layers_(desc, config) ==
               [n \in 1..Len(ids(desc, config)) |->
                   [is |-> ids(desc, config)[n], gives |-> Contents(t, desc, place(desc, config, n))]]
           there(desc) == \A n \in 1..Len(desc.layers) : ExtractFile(t, desc.layers[n]) # <<>>
<1>1. found = IF configs = <<>> THEN <<>> ELSE <<[desc |-> descs[1], config |-> configs[1]]>>
  BY DEF TarDescriptorAndConfig
<1>2. Load(t, tag) = IF found = <<>> \/ ~there(found[1].desc) THEN <<>>
                     ELSE <<[config |-> found[1].config,
                             layers |-> layers_(found[1].desc, found[1].config)]>>
  BY DEF Load
<1>3. /\ m \in {<<>>, <<ManifestOf(job)>>}
      /\ job.how \in {"tarball", "legacy"} /\ ImagesIn(job.refs) \subseteq DOMAIN LayersOf
  BY FindsMeant, JobsAssumption
<1>4. \A x : <<x>> # <<>> /\ <<x>>[1] = x
  OBVIOUS
<1>5. \A i \in DOMAIN LayersOf :
        LET desc == Descriptor(job.refs, i, Places(job, i))
        IN  /\ desc.config = <<"config", ConfigOf[i]>>
            /\ desc.layers = Places(job, i) /\ Len(desc.layers) = Len(LayersOf[i])
  <2> TAKE i \in DOMAIN LayersOf
  <2>1. Len(Places(job, i)) = Len(LayersOf[i])
    BY DiffIDs DEF Places
  <2> QED BY <2>1 DEF Descriptor
<1> HIDE DEF m, layers_
<1>6. ASSUME Load(t, tag) # <<>>
      PROVE  \E i \in ImagesIn(job.refs) :
                    /\ \E other \in TagsOf(job.refs, i) : Name(other) = Name(tag)
                    /\ ~Confused(i) => Load(t, tag)[1] = Content(i)
  <2>1. configs # <<>> /\ descs # <<>> /\ m # <<>>
    <3> HIDE DEF there
    <3> QED BY <1>1, <1>2, <1>6
  <2>2. m[1] = ManifestOf(job) /\ descs = FindDescriptor(ManifestOf(job), tag)
    BY <1>3, <1>4, <2>1
  <2>3. PICK i \in ImagesIn(job.refs) :
                    /\ descs = <<Descriptor(job.refs, i, Places(job, i))>>
                    /\ \E other \in TagsOf(job.refs, i) : Name(other) = Name(tag)
    BY <2>1, <2>2, FindsDescriptor
  <2>4. PICK desc : desc = Descriptor(job.refs, i, Places(job, i))
    OBVIOUS
  <2>5. descs[1] = desc /\ i \in DOMAIN LayersOf
    BY <1>3, <1>4, <2>3, <2>4
  <2>6. configs = <<ConfigOf[i]>>
    <3>1. configs = ExtractFile(t, <<"config", ConfigOf[i]>>)
      BY <1>5, <2>1, <2>4, <2>5
    <3>2. ExtractFile(t, <<"config", ConfigOf[i]>>) \in {<<>>, <<ConfigOf[i]>>}
      BY FindsMeant
    <3> QED BY <2>1, <3>1, <3>2
  <2> HIDE DEF descs, configs
  <2>7. found # <<>> /\ found[1].desc = desc /\ found[1].config = ConfigOf[i]
    <3>1. found = <<[desc |-> desc, config |-> ConfigOf[i]]>>
      BY <1>1, <1>4, <2>1, <2>5, <2>6
    <3> HIDE DEF found
    <3> QED BY <1>4, <3>1
  <2> HIDE DEF found
  <2>8. there(desc)
    <3> HIDE DEF there
    <3> QED BY <1>2, <1>6, <2>7
  <2>9. Load(t, tag) = <<[config |-> ConfigOf[i], layers |-> layers_(desc, ConfigOf[i])]>>
    <3> HIDE DEF there
    <3> QED BY <1>2, <2>7, <2>8
  <2>10. ASSUME ~Confused(i)
         PROVE  Load(t, tag)[1] = Content(i)
    <3>1. \A n \in 1..Len(LayersOf[i]) : ExtractFile(t, Places(job, i)[n]) # <<>>
      BY <1>5, <2>4, <2>5, <2>8
    <3>2. layers_(desc, ConfigOf[i]) = Content(i).layers
      BY <1>3, <2>4, <2>5, <2>10, <3>1, GivesContent DEF layers_
    <3>3. Content(i) = [config |-> ConfigOf[i], layers |-> Content(i).layers]
      BY DEF Content
    <3> QED BY <1>4, <2>9, <3>2, <3>3
  <2> QED BY <2>3, <2>10
<1>7. ASSUME tag \in DOMAIN job.refs, tag.kind = "tag",
             \A name \in NeedsOf(job) : ExtractFile(t, name) # <<>>
      PROVE  Load(t, tag) # <<>>
  <2>1. m # <<>> /\ m[1] = ManifestOf(job)
    <3>1. <<"manifest.json">> \in NeedsOf(job)
      BY DEF NeedsOf
    <3> QED BY <1>3, <1>4, <1>7, <3>1 DEF m
  <2>2. PICK i \in ImagesIn(job.refs) : descs = <<Descriptor(job.refs, i, Places(job, i))>>
    BY <1>7, <2>1, FindsDescriptor
  <2>3. PICK desc : desc = Descriptor(job.refs, i, Places(job, i))
    OBVIOUS
  <2>4. descs # <<>> /\ descs[1] = desc /\ i \in DOMAIN LayersOf
    BY <1>3, <1>4, <2>2, <2>3
  <2>5. \A name \in Needs(job, i) : ExtractFile(t, name) # <<>>
    BY <1>7 DEF NeedsOf
  <2>6. configs # <<>>
    <3>1. <<"config", ConfigOf[i]>> \in Needs(job, i)
      BY DEF Needs
    <3> QED BY <1>5, <2>3, <2>4, <2>5, <3>1
  <2> HIDE DEF descs, configs
  <2>7. found # <<>> /\ found[1].desc = desc
    <3>1. found = <<[desc |-> desc, config |-> configs[1]]>>
      BY <1>1, <2>4, <2>6
    <3> HIDE DEF found
    <3> QED BY <1>4, <3>1
  <2> HIDE DEF found
  <2>8. there(desc)
    <3>1. \A n \in 1..Len(LayersOf[i]) : Places(job, i)[n] \in Needs(job, i)
      BY DEF Needs
    <3> QED BY <1>5, <2>3, <2>4, <2>5, <3>1
  <2> HIDE DEF there
  <2> QED BY <1>2, <1>4, <2>7, <2>8
<1> QED BY <1>6, <1>7

(***************************************************************************)
(* The invariant of a save.                                                *)
(***************************************************************************)

\* An entry of the tar for a file.
IsOf(x, file) == x = [name |-> file.name, data |-> file.data, whole |-> x.whole]

\* The tar has the first of the files that are to be written, in order, and all but the
\* last of them are whole; nothing follows where the legacy writer stops.
TarIsStart ==
    /\ tar \in Seq(ToSet(tar)) /\ done \in Nat
    /\ Len(tar) \in {done, done + 1} /\ Len(tar) <= Len(todo)
    /\ \A k \in 1..Len(tar) :
          /\ IsOf(tar[k], todo[k])
          /\ ~IsStop(todo[k])
          /\ k < Len(tar) => tar[k].whole

\* While no error was met, nothing is left out, and at the end nothing is missing.
SaveIsOn ==
    /\ step \in {"create", "next", "header", "body", "wrong"} => result = "ok" /\ ret = ""
    /\ step = "header" => WholeTar /\ done < Len(todo) /\ ~IsStop(todo[done + 1])
    /\ step = "eof" => result = "ok"
    /\ result = "ok" => Len(tar) = IF step = "body" THEN done + 1 ELSE done
    /\ result = "ok" /\ step \notin {"create", "next", "header", "body", "wrong"} =>
          done = Len(todo) /\ WholeTar
    /\ ret # "" => ret = result /\ step = "over"

\* The end is told when it is one, with all the bytes.
EndIsTrue ==
    LET true(update) == /\ update.complete = bytes /\ result = "ok"
                        /\ step \in {"return", "over"}
    IN  /\ chan \in Seq(ToSet(chan))
        /\ \A k \in 1..Len(chan) : chan[k].error = "EOF" => true(chan[k])
        /\ heard.error = "EOF" => true(heard)

Steps == {"create", "next", "header", "body", "wrong", "trailer", "zero1", "zero2", "eof",
          "return", "over"}

SaveInv ==
    /\ step \in Steps
    /\ todo \in {<<>>, TodoOf(job)}
    /\ step = "create" => todo = <<>>
    /\ result = "ok" /\ step # "create" => todo = TodoOf(job)
    /\ TarIsStart /\ SaveIsOn /\ EndIsTrue

WInv ==
    /\ job \in Jobs \cup {Idle}
    /\ Saving => SaveInv
    /\ ~Saving => heard = NoEnd

\* There is a number of files to write.
LEMMA TodoLen ==
    ASSUME job \in Jobs, SaveInv
    PROVE  Len(todo) \in Nat
<1>1. TodoOf(job) \in Seq(ToSet(TodoOf(job)))
  BY TodoHolds
<1>2. Len(TodoOf(job)) \in Nat /\ Len(<<>>) = 0
  BY <1>1
<1> QED BY <1>2 DEF SaveInv

\* An update that is no end of all.
LEMMA TellKeeps ==
    ASSUME EndIsTrue, step \notin {"return", "over"}, NEW n, NEW e \in {"", "error"},
           Tell(n, e), heard' = heard
    PROVE  EndIsTrue'
<1>1. /\ chan \in Seq(ToSet(chan)) /\ heard.error # "EOF"
      /\ \A k \in 1..Len(chan) : chan[k].error # "EOF"
  BY DEF EndIsTrue
<1>2. PICK update : update = [complete |-> n, error |-> e]
  OBVIOUS
<1>3. update.error # "EOF"
  BY <1>2
<1>4. chan' = chan \/ chan' = Append(chan, update)
  BY <1>2 DEF Tell
<1>5. PICK now : now = chan'
  OBVIOUS
<1>6. now = chan \/ now = Append(chan, update)
  BY <1>4, <1>5
<1>7. now \in Seq(ToSet(now))
  <2>1. Append(chan, update) \in Seq(ToSet(Append(chan, update)))
    BY <1>1, AppendSet
  <2> QED BY <1>1, <1>6, <2>1
<1>8. \A k \in 1..Len(now) : now[k].error # "EOF"
  <2>1. CASE now = chan
    BY <1>1, <2>1
  <2>2. CASE now = Append(chan, update)
    <3> DEFINE S == {x \in ToSet(chan) \cup {update} : x.error # "EOF"}
    <3>1. update \in S /\ \A k \in 1..Len(chan) : chan[k] \in S
      <4>1. DOMAIN chan = 1..Len(chan)
        BY <1>1, OwnSeq
      <4>2. \A k \in 1..Len(chan) : chan[k] \in ToSet(chan)
        BY <4>1 DEF ToSet
      <4> QED BY <1>1, <1>3, <4>2
    <3>2. \A x \in S : x.error # "EOF"
      OBVIOUS
    <3> HIDE DEF S
    <3>3. \A k \in 1..Len(Append(chan, update)) : Append(chan, update)[k] \in S
      BY <1>1, <3>1, AppendAll
    <3> QED BY <2>2, <3>2, <3>3
  <2> QED BY <1>6, <2>1, <2>2
<1> QED BY <1>1, <1>5, <1>7, <1>8 DEF EndIsTrue

\* Nothing is told.
LEMMA QuietKeeps ==
    ASSUME EndIsTrue, chan' = chan, heard' = heard,
           step \in {"return", "over"} =>
              bytes' = bytes /\ result' = result /\ step' \in {"return", "over"}
    PROVE  EndIsTrue'
BY DEF EndIsTrue

LEMMA TarStays ==
    ASSUME TarIsStart, tar' = tar, done' = done, todo' = todo
    PROVE  TarIsStart' /\ (WholeTar' <=> WholeTar)
BY DEF TarIsStart, WholeTar, IsStop, IsOf

\* The last file of the tar is whole when all are.
LEMMA AllWhole ==
    ASSUME TarIsStart
    PROVE  /\ WholeTar <=> \A k \in 1..Len(tar) : tar[k].whole
           /\ WholeTar => \A x \in ToSet(tar) : x.whole
           /\ tar # <<>> <=> Len(tar) # 0
           /\ DOMAIN tar = 1..Len(tar) /\ Len(tar) \in Nat
<1>1. /\ DOMAIN tar = 1..Len(tar) /\ Len(tar) \in Nat /\ (tar # <<>> <=> Len(tar) # 0)
      /\ \A k \in 1..Len(tar) : k < Len(tar) => tar[k].whole
  BY DEF TarIsStart
<1>2. WholeTar <=> (Len(tar) # 0 => tar[Len(tar)].whole)
  BY <1>1 DEF WholeTar, Last
<1>3. WholeTar <=> \A k \in 1..Len(tar) : tar[k].whole
  BY <1>1, <1>2
<1> QED BY <1>1, <1>3 DEF ToSet

\* Nothing but the listener's side moves.
LEMMA FailsKeeps ==
    ASSUME job \in Jobs, SaveInv, Fails(TRUE) \/ Fails(FALSE),
           step \in {"next", "header", "body", "wrong"}
    PROVE  SaveInv'
<1>1. /\ tar' = tar /\ done' = done /\ todo' = todo /\ job' = job /\ ret' = ret /\ bytes' = bytes
      /\ heard' = heard /\ result' = "error" /\ step' \in {"trailer", "return"}
      /\ Tell(bytes, "error")
  BY DEF Fails
<1>2. EndIsTrue'
  BY <1>1, TellKeeps DEF SaveInv
<1>3. TarIsStart'
  BY <1>1, TarStays DEF SaveInv
<1>4. SaveIsOn'
  BY <1>1 DEF SaveInv, SaveIsOn
<1>5. TodoOf(job)' = TodoOf(job)
  BY <1>1 DEF TodoOf, Legacy
<1> QED BY <1>1, <1>2, <1>3, <1>4, <1>5 DEF SaveInv, Steps

LEMMA PrepareKeeps ==
    ASSUME job \in Jobs, SaveInv, Prepare \/ CreateFails \/ PrepareFails
    PROVE  SaveInv'
<1>1. /\ step = "create" /\ todo = <<>> /\ job' = job /\ tar' = tar /\ done' = done /\ ret' = ret
      /\ heard' = heard /\ bytes' = bytes
  BY DEF Prepare, CreateFails, PrepareFails, SaveInv
<1>2. TodoOf(job)' = TodoOf(job)
  BY <1>1 DEF TodoOf, Legacy
<1>3. Len(todo) = 0 /\ Len(tar) = 0 /\ done = 0
  <2>1. Len(todo) = 0
    BY <1>1
  <2> QED BY <2>1 DEF SaveInv, TarIsStart
<1>4. todo' \in {todo, TodoOf(job)} /\ Len(todo') \in Nat
  <2>1. CASE Prepare
    <3>1. todo' = TodoOf(job)
      BY <2>1 DEF Prepare, TodoOf, Legacy
    <3>2. TodoOf(job) \in Seq(ToSet(TodoOf(job)))
      BY TodoHolds
    <3> QED BY <3>1, <3>2
  <2>2. CASE CreateFails \/ PrepareFails
    <3>1. todo' = todo
      BY <2>2 DEF CreateFails, PrepareFails
    <3> QED BY <1>3, <3>1
  <2> QED BY <2>1, <2>2
<1>5. TarIsStart'
  BY <1>1, <1>3, <1>4 DEF SaveInv, TarIsStart
<1>6. CASE Prepare
  <2>1. step' = "next" /\ result' = result /\ chan' = chan /\ todo' = TodoOf(job)
    BY <1>6 DEF Prepare, TodoOf, Legacy
  <2>2. EndIsTrue'
    BY <1>1, <2>1, QuietKeeps DEF SaveInv
  <2>3. SaveIsOn'
    BY <1>1, <1>3, <2>1 DEF SaveInv, SaveIsOn
  <2> QED BY <1>2, <1>5, <2>1, <2>2, <2>3 DEF SaveInv, Steps
<1>7. CASE CreateFails
  <2>1. step' = "return" /\ result' = "no file" /\ chan' = chan /\ todo' = todo
    BY <1>7 DEF CreateFails
  <2>2. EndIsTrue'
    BY <1>1, <2>1, QuietKeeps DEF SaveInv
  <2>3. SaveIsOn'
    BY <1>1, <2>1 DEF SaveInv, SaveIsOn
  <2> QED BY <1>1, <1>2, <1>5, <2>1, <2>2, <2>3 DEF SaveInv, Steps
<1>8. CASE PrepareFails
  <2>1. step' = "return" /\ result' = "error" /\ Tell(0, "error") /\ todo' = todo
    BY <1>8 DEF PrepareFails, Ends
  <2>2. EndIsTrue'
    <3>1. PICK n : n = 0
      OBVIOUS
    <3> QED BY <1>1, <2>1, <3>1, TellKeeps DEF SaveInv
  <2>3. SaveIsOn'
    BY <1>1, <2>1 DEF SaveInv, SaveIsOn
  <2> QED BY <1>1, <1>2, <1>5, <2>1, <2>2, <2>3 DEF SaveInv, Steps
<1> QED BY <1>6, <1>7, <1>8

\* Where the writer goes on, or stops for good.
LEMMA BetweenKeeps ==
    ASSUME job \in Jobs, SaveInv, Pad \/ Panics \/ AllWritten
    PROVE  SaveInv'
<1>1. /\ step = "next" /\ job' = job /\ tar' = tar /\ done' = done /\ todo' = todo /\ ret' = ret
      /\ heard' = heard
  BY DEF Pad, Panics, AllWritten
<1>2. TodoOf(job)' = TodoOf(job) /\ TarIsStart' /\ (WholeTar' <=> WholeTar)
  BY <1>1, TarStays DEF TodoOf, Legacy, SaveInv
<1>3. SaveIsOn /\ TarIsStart /\ EndIsTrue
  BY DEF SaveInv
<1>4. CASE Pad
  <2>1. /\ step' = "header" /\ result' = result /\ WholeTar /\ More
        /\ \E n : Tell(n, "")
    BY <1>4 DEF Pad, Wrote
  <2>2. EndIsTrue'
    <3>1. PICK n : Tell(n, "")
      BY <2>1
    <3> QED BY <1>1, <1>3, <3>1, TellKeeps
  <2>3. done < Len(todo) /\ ~IsStop(todo[done + 1])
    BY <2>1 DEF More, IsStop
  <2>4. SaveIsOn'
    <3>1. ~IsStop(todo[done + 1])'
      BY <1>1, <2>3 DEF IsStop
    <3> QED BY <1>1, <1>2, <1>3, <2>1, <2>3, <3>1 DEF SaveIsOn
  <2> QED BY <1>1, <1>2, <2>1, <2>2, <2>4 DEF SaveInv, Steps
<1>5. CASE Panics
  <2>1. step' = "trailer" /\ result' = "panic" /\ chan' = chan
    BY <1>5 DEF Panics
  <2>2. EndIsTrue'
    BY <1>1, <1>3, <2>1, QuietKeeps
  <2>3. SaveIsOn'
    BY <1>1, <1>3, <2>1 DEF SaveIsOn
  <2> QED BY <1>1, <1>2, <2>1, <2>2, <2>3 DEF SaveInv, Steps
<1>6. CASE AllWritten
  <2>1. step' = "trailer" /\ result' = result /\ chan' = chan /\ done = Len(todo) /\ WholeTar
    BY <1>6 DEF AllWritten, CloseThenEnd
  <2>2. EndIsTrue'
    BY <1>1, <1>3, <2>1, QuietKeeps
  <2>3. SaveIsOn'
    BY <1>1, <1>2, <1>3, <2>1 DEF SaveIsOn
  <2> QED BY <1>1, <1>2, <2>1, <2>2, <2>3 DEF SaveInv, Steps
<1> QED BY <1>4, <1>5, <1>6

\* The header of a file, and its data.
LEMMA HeaderKeeps ==
    ASSUME job \in Jobs, SaveInv, Header
    PROVE  SaveInv'
<1>1. /\ step = "header" /\ job' = job /\ todo' = todo /\ ret' = ret /\ result' = result
      /\ heard' = heard /\ result = "ok"
      /\ tar' = Append(tar, [name |-> todo[done + 1].name, data |-> todo[done + 1].data,
                             whole |-> todo[done + 1].size = 0])
      /\ IF todo[done + 1].size = 0 THEN step' = "next" /\ done' = done + 1
         ELSE step' = "body" /\ done' = done
      /\ \E n : Tell(n, "")
  BY DEF Header, Wrote, SaveInv, SaveIsOn
<1>2. TarIsStart /\ SaveIsOn /\ EndIsTrue /\ Len(todo) \in Nat
  BY TodoLen DEF SaveInv
<1>3. WholeTar /\ tar \in Seq(ToSet(tar)) /\ ret = ""
  BY <1>1, <1>2 DEF SaveIsOn, TarIsStart
<1>4. done < Len(todo) /\ ~IsStop(todo[done + 1]) /\ Len(tar) = done /\ done \in Nat
  BY <1>1, <1>2 DEF SaveIsOn, TarIsStart
<1>5. \A k \in 1..Len(tar) : tar[k].whole
  BY <1>2, <1>3, AllWhole
<1>6. PICK file : file = [name |-> todo[done + 1].name, data |-> todo[done + 1].data,
                          whole |-> todo[done + 1].size = 0]
  OBVIOUS
<1>7. IsOf(file, todo[done + 1])
  BY <1>6 DEF IsOf
<1>8. PICK now : now = Append(tar, file)
  OBVIOUS
<1>9. tar' = now
  BY <1>1, <1>6, <1>8
<1>10. /\ now \in Seq(ToSet(now)) /\ Len(now) = done + 1 /\ now[done + 1] = file
      /\ \A k \in 1..done : now[k] = tar[k]
  <2>1. /\ now \in Seq(ToSet(now)) /\ Len(now) = Len(tar) + 1 /\ now[Len(tar) + 1] = file
        /\ \A k \in 1..Len(tar) : now[k] = tar[k]
    <3>1. PICK T : T = ToSet(tar)
      OBVIOUS
    <3>2. tar \in Seq(T)
      BY <1>3, <3>1
    <3>3. now \in Seq(ToSet(now))
      BY <1>8, <3>2, AppendFacts
    <3>4. Len(now) = Len(tar) + 1 /\ now[Len(tar) + 1] = file
      BY <1>8, <3>2, AppendFacts
    <3>5. \A k \in 1..Len(tar) : now[k] = tar[k]
      BY <1>8, <3>2, AppendFacts
    <3> QED BY <3>3, <3>4, <3>5
  <2> QED BY <1>4, <2>1
<1>11. TarIsStart'
  <2>1. /\ tar' \in Seq(ToSet(tar')) /\ done' \in Nat /\ Len(tar') \in {done', done' + 1}
        /\ Len(tar') <= Len(todo')
    <3>1. tar' \in Seq(ToSet(tar'))
      BY <1>9, <1>10
    <3>2. (done' = done \/ done' = done + 1) /\ todo' = todo
      BY <1>1
    <3>3. Len(tar') = done + 1
      BY <1>9, <1>10
    <3>4. Len(tar') <= Len(todo')
      BY <1>2, <1>4, <3>2, <3>3
    <3>5. done' \in Nat /\ Len(tar') \in {done', done' + 1}
      <4>1. CASE done' = done
        BY <1>4, <3>3, <4>1
      <4>2. CASE done' = done + 1
        BY <1>4, <3>3, <4>2
      <4> QED BY <3>2, <4>1, <4>2
    <3> QED BY <3>1, <3>4, <3>5
  <2>2. ASSUME NEW k \in 1..Len(now)
        PROVE  /\ IsOf(now[k], todo[k])
               /\ ~IsStop(todo[k])
               /\ k < Len(now) => now[k].whole
    <3>1. CASE k = done + 1
      BY <1>4, <1>7, <1>10, <3>1
    <3>2. CASE k # done + 1
      <4>1. k \in 1..Len(tar) /\ now[k] = tar[k]
        BY <1>4, <1>10, <3>2
      <4> QED BY <1>2, <1>5, <4>1 DEF TarIsStart
    <3> QED BY <3>1, <3>2
  <2> QED BY <1>1, <1>9, <2>1, <2>2 DEF TarIsStart, IsStop, IsOf
<1>12. EndIsTrue'
  <2>1. PICK n : Tell(n, "")
    BY <1>1
  <2> QED BY <1>1, <1>2, <2>1, TellKeeps
<1>13. SaveIsOn'
  BY <1>1, <1>4, <1>3, <1>9, <1>10 DEF SaveIsOn
<1>14. TodoOf(job)' = TodoOf(job)
  BY <1>1 DEF TodoOf, Legacy
<1> QED BY <1>1, <1>11, <1>12, <1>13, <1>14 DEF SaveInv, Steps

LEMMA BodyKeeps ==
    ASSUME job \in Jobs, SaveInv, Body \/ BodyIsShort \/ BodyEndsWrong
    PROVE  SaveInv'
<1>1. /\ step = "body" /\ job' = job /\ todo' = todo /\ ret' = ret /\ result' = result
      /\ heard' = heard /\ result = "ok" /\ done' = done + 1
      /\ tar' = [tar EXCEPT ![Len(tar)].whole = TRUE] \/ tar' = tar
      /\ step' \in {"next", "wrong"}
      /\ \E n : Tell(n, "")
  BY DEF Body, BodyIsShort, BodyEndsWrong, InLayer, Wrote, SaveInv, SaveIsOn
<1>2. TarIsStart /\ SaveIsOn /\ EndIsTrue
  BY DEF SaveInv
<1>3. Len(tar) = done + 1 /\ done \in Nat
  BY <1>1, <1>2 DEF SaveIsOn, TarIsStart
<1>4. tar \in Seq(ToSet(tar)) /\ ret = ""
  BY <1>1, <1>2 DEF SaveIsOn, TarIsStart
<1>5. \A k \in 1..Len(tar) : /\ IsOf(tar[k], todo[k]) /\ ~IsStop(todo[k])
                             /\ k < Len(tar) => tar[k].whole
  BY <1>2 DEF TarIsStart
<1>6. PICK now : now = tar'
  OBVIOUS
<1>7. /\ now \in Seq(ToSet(now)) /\ Len(now) = Len(tar)
      /\ \A k \in 1..Len(tar) : /\ IsOf(now[k], todo[k])
                                /\ k < Len(tar) => now[k].whole
  <2>1. CASE now = tar
    BY <1>4, <1>5, <2>1
  <2>2. CASE now = [tar EXCEPT ![Len(tar)].whole = TRUE]
    <3>1. PICK file : file = [tar[Len(tar)] EXCEPT !.whole = TRUE]
      OBVIOUS
    <3>2. IsOf(file, todo[Len(tar)])
      <4>1. Len(tar) \in 1..Len(tar)
        BY <1>3
      <4>2. PICK x : x = tar[Len(tar)]
        OBVIOUS
      <4>3. x = [name |-> todo[Len(tar)].name, data |-> todo[Len(tar)].data, whole |-> x.whole]
        BY <1>5, <4>1, <4>2 DEF IsOf
      <4>4. file = [x EXCEPT !.whole = TRUE]
        BY <3>1, <4>2
      <4>5. /\ file = [name |-> todo[Len(tar)].name, data |-> todo[Len(tar)].data, whole |-> TRUE]
        <5>1. PICK a, b, c : x = [name |-> a, data |-> b, whole |-> c]
                             /\ a = todo[Len(tar)].name /\ b = todo[Len(tar)].data
          BY <4>3
        <5>2. file = [name |-> a, data |-> b, whole |-> TRUE]
          BY <4>4, <5>1
        <5> QED BY <5>1, <5>2
      <4> QED BY <4>5 DEF IsOf
    <3>3. now = [tar EXCEPT ![Len(tar)] = file]
      BY <2>2, <3>1
    <3>4. /\ now \in Seq(ToSet(now)) /\ Len(now) = Len(tar)
          /\ \A k \in 1..Len(tar) : now[k] = IF k = Len(tar) THEN file ELSE tar[k]
      <4>1. PICK T : tar \in Seq(T)
        BY <1>4
      <4>2. Len(tar) \in 1..Len(tar)
        BY <1>3
      <4>3. now \in Seq(ToSet(now)) /\ Len(now) = Len(tar)
        BY <3>3, <4>1, <4>2, ExceptFacts
      <4>4. \A k \in 1..Len(tar) : now[k] = IF k = Len(tar) THEN file ELSE tar[k]
        BY <3>3, <4>1, <4>2, ExceptFacts
      <4> QED BY <4>3, <4>4
    <3> QED BY <1>5, <3>2, <3>4
  <2> QED BY <1>1, <1>6, <2>1, <2>2
<1>8. Len(now) = done + 1 /\ done' = done + 1 /\ todo' = todo /\ tar' = now /\ done + 1 \in Nat
  <2>1. done' = done + 1 /\ todo' = todo /\ tar' = now
    BY <1>1, <1>6
  <2>2. Len(now) = Len(tar)
    BY <1>7
  <2> QED BY <1>3, <2>1, <2>2
<1>9. TarIsStart'
  <2>1. now \in Seq(ToSet(now))
    BY <1>7
  <2>2. done' \in Nat /\ Len(now) \in {done', done' + 1}
    BY <1>8
  <2>3. Len(now) <= Len(todo)
    <3>1. Len(tar) <= Len(todo)
      BY <1>2 DEF TarIsStart
    <3> QED BY <1>3, <1>8, <3>1
  <2>4. \A k \in 1..Len(now) : /\ IsOf(now[k], todo[k]) /\ ~IsStop(todo[k])
                               /\ k < Len(now) => now[k].whole
    BY <1>5, <1>7
  <2> QED BY <1>8, <2>1, <2>2, <2>3, <2>4 DEF TarIsStart, IsStop, IsOf
<1>10. EndIsTrue'
  <2>1. PICK n : Tell(n, "")
    BY <1>1
  <2> QED BY <1>1, <1>2, <2>1, TellKeeps
<1>11. SaveIsOn'
  BY <1>1, <1>4, <1>8 DEF SaveIsOn
<1>12. TodoOf(job)' = TodoOf(job)
  BY <1>1 DEF TodoOf, Legacy
<1> QED BY <1>1, <1>9, <1>10, <1>11, <1>12 DEF SaveInv, Steps

\* The end of the tar, and of the save.
LEMMA EndKeeps ==
    ASSUME job \in Jobs, SaveInv, Trailer \/ TrailerFails \/ SendEOF \/ ReturnResult
    PROVE  SaveInv'
<1>1. /\ job' = job /\ todo' = todo /\ tar' = tar /\ done' = done /\ heard' = heard
      /\ step \in {"trailer", "zero1", "zero2", "eof", "return"}
  BY DEF Trailer, TrailerFails, SendEOF, ReturnResult
<1>2. TodoOf(job)' = TodoOf(job) /\ TarIsStart' /\ (WholeTar' <=> WholeTar)
  BY <1>1, TarStays DEF TodoOf, Legacy, SaveInv
<1>3. SaveIsOn /\ EndIsTrue
  BY DEF SaveInv
<1>4. CASE Trailer
  <2>1. PICK at_ \in {"trailer", "zero1", "zero2"} :
            /\ step = at_
            /\ step' = IF at_ = "trailer" THEN "zero1" ELSE IF at_ = "zero1" THEN "zero2"
                       ELSE IF result = "ok" THEN "eof" ELSE "return"
            /\ \E n : Tell(n, "")
            /\ result' = result /\ ret' = ret
    <3>1. PICK at_ \in {"trailer", "zero1", "zero2"} :
            /\ step = at_
            /\ IF at_ = "trailer" THEN Wrote(IF done = 0 THEN 0 ELSE Padding(todo[done].size))
               ELSE Wrote(Block)
            /\ step' = IF at_ = "trailer" THEN "zero1" ELSE IF at_ = "zero1" THEN "zero2"
                       ELSE IF result = "ok" /\ CloseThenEnd = "trailer" THEN "eof" ELSE "return"
            /\ result' = result /\ ret' = ret
      BY <1>4 DEF Trailer
    <3>2. \E n : Tell(n, "")
      BY <3>1 DEF Wrote
    <3> QED BY <3>1, <3>2 DEF CloseThenEnd
  <2>2. EndIsTrue'
    <3>1. PICK n : Tell(n, "")
      BY <2>1
    <3> QED BY <1>1, <1>3, <2>1, <3>1, TellKeeps
  <2>3. SaveIsOn'
    BY <1>1, <1>2, <1>3, <2>1 DEF SaveIsOn
  <2>4. step' \in {"zero1", "zero2", "eof", "return"} /\ step # "create"
    BY <2>1
  <2> QED BY <1>1, <1>2, <2>1, <2>2, <2>3, <2>4 DEF SaveInv, Steps
<1>5. CASE TrailerFails
  <2>1. /\ step \in {"trailer", "zero1", "zero2"} /\ step' = "return" /\ ret' = ret
        /\ \/ \E n : Tell(n, "error") /\ result' = "error"
           \/ chan' = chan /\ result' = result
    BY <1>5 DEF TrailerFails, Ends
  <2>2. EndIsTrue'
    <3>1. CASE \E n : Tell(n, "error") /\ result' = "error"
      <4>1. PICK n : Tell(n, "error")
        BY <3>1
      <4> QED BY <1>1, <1>3, <2>1, <4>1, TellKeeps
    <3>2. CASE chan' = chan /\ result' = result
      BY <1>1, <1>3, <2>1, <3>2, QuietKeeps
    <3> QED BY <2>1, <3>1, <3>2
  <2>3. SaveIsOn'
    BY <1>1, <1>2, <1>3, <2>1 DEF SaveIsOn
  <2>4. result' = "ok" => result = "ok"
    BY <2>1
  <2> QED BY <1>1, <1>2, <2>1, <2>2, <2>3, <2>4 DEF SaveInv, Steps
<1>6. CASE SendEOF
  <2>1. /\ step = "eof" /\ step' = "return" /\ result' = result /\ ret' = ret /\ bytes' = bytes
        /\ Tell(bytes, "EOF") /\ result = "ok"
    BY <1>3, <1>6 DEF SendEOF, CloseThenEnd, SaveIsOn
  <2>2. EndIsTrue'
    <3>1. PICK update : update = [complete |-> bytes, error |-> "EOF"]
      OBVIOUS
    <3>2. PICK now : now = chan'
      OBVIOUS
    <3>3. now = chan \/ now = Append(chan, update)
      BY <2>1, <3>1, <3>2 DEF Tell
    <3>4. PICK T : chan \in Seq(T) /\ T = ToSet(chan)
      BY <1>3 DEF EndIsTrue
    <3>5. now \in Seq(ToSet(now))
      BY <3>3, <3>4, AppendFacts
    <3>6. heard.error # "EOF" /\ \A k \in 1..Len(chan) : chan[k].error # "EOF"
      BY <1>3, <2>1 DEF EndIsTrue
    <3>7. update.complete = bytes
      BY <3>1
    <3>8. ASSUME NEW k \in 1..Len(now), now[k].error = "EOF"
          PROVE  now[k].complete = bytes
      <4>1. CASE now = chan
        BY <3>6, <3>8, <4>1
      <4>2. CASE now = Append(chan, update)
        <5>1. /\ Len(chan) \in Nat /\ Len(now) = Len(chan) + 1 /\ now[Len(chan) + 1] = update
          BY <3>4, <4>2, AppendFacts
        <5>2. \A m \in 1..Len(chan) : now[m] = chan[m]
          BY <3>4, <4>2, AppendFacts
        <5>3. CASE k = Len(chan) + 1
          BY <3>7, <5>1, <5>3
        <5>4. CASE k # Len(chan) + 1
          <6>1. k \in 1..Len(chan)
            BY <5>1, <5>4
          <6> QED BY <3>6, <3>8, <5>2, <6>1
        <5> QED BY <5>3, <5>4
      <4> QED BY <3>3, <4>1, <4>2
    <3> QED BY <1>1, <2>1, <3>2, <3>5, <3>6, <3>8 DEF EndIsTrue
  <2>3. SaveIsOn'
    BY <1>1, <1>2, <1>3, <2>1 DEF SaveIsOn
  <2> QED BY <1>1, <1>2, <2>1, <2>2, <2>3 DEF SaveInv, Steps
<1>7. CASE ReturnResult
  <2>1. /\ step = "return" /\ step' = "over" /\ ret' = result /\ result' = result
        /\ bytes' = bytes /\ chan' = chan
    BY <1>7 DEF ReturnResult
  <2>2. EndIsTrue'
    BY <1>1, <1>3, <2>1, QuietKeeps
  <2>3. SaveIsOn'
    BY <1>1, <1>2, <1>3, <2>1 DEF SaveIsOn
  <2> QED BY <1>1, <1>2, <2>1, <2>2, <2>3 DEF SaveInv, Steps
<1> QED BY <1>4, <1>5, <1>6, <1>7

\* The listener takes what comes first.
LEMMA ReceiveKeeps ==
    ASSUME job \in Jobs, SaveInv, Receive
    PROVE  SaveInv'
<1>1. /\ job' = job /\ todo' = todo /\ tar' = tar /\ done' = done /\ step' = step
      /\ result' = result /\ ret' = ret /\ bytes' = bytes
      /\ chan # <<>> /\ chan' = Tail(chan) /\ heard' \in {heard, Head(chan)}
  BY DEF Receive
<1>2. TodoOf(job)' = TodoOf(job) /\ TarIsStart' /\ (WholeTar' <=> WholeTar)
  BY <1>1, TarStays DEF TodoOf, Legacy, SaveInv
<1>3. SaveIsOn /\ EndIsTrue
  BY DEF SaveInv
<1>4. EndIsTrue'
  <2>1. PICK T : chan \in Seq(T) /\ T = ToSet(chan)
    BY <1>3 DEF EndIsTrue
  <2>2. PICK now : now = Tail(chan)
    OBVIOUS
  <2>3. /\ Len(chan) \in Nat \ {0} /\ now \in Seq(T) /\ Len(now) = Len(chan) - 1
        /\ \A k \in 1..Len(now) : now[k] = chan[k + 1]
        /\ Head(chan) = chan[1]
    BY <1>1, <2>1, <2>2
  <2>4. now \in Seq(ToSet(now))
    BY <2>3, OwnSeq
  <2>5. \A k \in 1..Len(now) : k + 1 \in 1..Len(chan)
    BY <2>3
  <2>6. 1 \in 1..Len(chan)
    BY <2>3
  <2> QED BY <1>1, <1>3, <2>2, <2>3, <2>4, <2>5, <2>6 DEF EndIsTrue
<1>5. SaveIsOn'
  BY <1>1, <1>2, <1>3 DEF SaveIsOn, IsStop
<1> QED BY <1>1, <1>2, <1>4, <1>5 DEF SaveInv

LEMMA ErrorKeeps ==
    ASSUME job \in Jobs, SaveInv,
           FetchFails \/ GivesUp \/ MissedBytes \/ BodyFails \/ WrongBody \/ DiskFails
    PROVE  SaveInv'
<1>1. Fails(TRUE) \/ Fails(FALSE)
  BY DEF FetchFails, GivesUp, MissedBytes, BodyFails, WrongBody, DiskFails
<1>2. step \in {"next", "header", "body", "wrong"}
  BY DEF FetchFails, GivesUp, MissedBytes, BodyFails, WrongBody, DiskFails, InLayer
<1> QED BY <1>1, <1>2, FailsKeeps

LEMMA SaveInvHolds == Spec => []WInv
<1>1. Init => WInv
  <2> SUFFICES ASSUME Init
               PROVE  WInv
    OBVIOUS
  <2>1. /\ job \in Jobs \cup {Idle}
        /\ todo = <<>> /\ step = "create" /\ done = 0 /\ tar = <<>>
        /\ result = "ok" /\ ret = "" /\ chan = <<>> /\ heard = NoEnd
    <3>1. WriteInit(Jobs) \/ WriteInit({Idle})
      BY DEF Init
    <3>2. job \in Jobs \/ job \in {Idle}
      BY <3>1 DEF WriteInit
    <3>3. /\ todo = <<>> /\ step = "create" /\ done = 0 /\ tar = <<>>
          /\ result = "ok" /\ ret = "" /\ chan = <<>> /\ heard = NoEnd
      BY <3>1 DEF WriteInit
    <3> QED BY <3>2, <3>3
  <2>2. heard.error = ""
    BY <2>1 DEF NoEnd
  <2>3. <<>> \in Seq(ToSet(<<>>)) /\ Len(<<>>) = 0
    OBVIOUS
  <2>4. TarIsStart /\ SaveIsOn /\ EndIsTrue
    <3>1. step = "create" /\ result = "ok" /\ ret = "" /\ done = 0 /\ 0 \in Nat
      BY <2>1
    <3>2. /\ tar \in Seq(ToSet(tar)) /\ chan \in Seq(ToSet(chan))
          /\ Len(tar) = 0 /\ Len(todo) = 0 /\ Len(chan) = 0
      BY <2>1, <2>3
    <3>3. 1..Len(tar) = {} /\ 1..Len(chan) = {}
      <4>1. 1..0 = {}
        OBVIOUS
      <4> QED BY <3>2, <4>1
    <3>4. Len(tar) \in {done, done + 1} /\ Len(tar) <= Len(todo)
      <4>1. Len(tar) = done /\ Len(todo) = Len(tar)
        BY <3>1, <3>2
      <4>2. 0 <= 0
        OBVIOUS
      <4>3. Len(tar) <= Len(todo)
        BY <3>2, <4>2
      <4> QED BY <4>1, <4>3
    <3>5. tar \in Seq(ToSet(tar)) /\ chan \in Seq(ToSet(chan))
      BY <3>2
    <3>6. heard.error # "EOF"
      BY <2>2
    <3>7. TarIsStart
      BY <3>1, <3>3, <3>4, <3>5 DEF TarIsStart
    <3>8. SaveIsOn
      BY <3>1, <3>2 DEF SaveIsOn
    <3>9. EndIsTrue
      BY <3>3, <3>5, <3>6 DEF EndIsTrue
    <3> QED BY <3>7, <3>8, <3>9
  <2> QED BY <2>1, <2>4 DEF WInv, SaveInv, Steps
<1>2. WInv /\ [Next]_vars => WInv'
  <2> SUFFICES ASSUME WInv, [Next]_vars
               PROVE  WInv'
    OBVIOUS
  <2>1. Saving => job \in Jobs
    BY DEF WInv, Saving, Idle
  <2>2. ASSUME Saving, job' = job, SaveInv'
        PROVE  WInv'
    BY <2>2 DEF WInv, Saving
  <2>3. CASE SaveStep
    <3>1. Saving /\ SaveInv /\ WriteStep
      BY <2>3 DEF SaveStep, WInv
    <3>2. job' = job
      BY <3>1 DEF WriteStep, Prepare, GivesUp, Panics, Pad, MissedBytes, Header, Body, WrongBody,
                  AllWritten, Trailer, SendEOF, ReturnResult, Fails
    <3>3. SaveInv'
      BY <2>1, <3>1, PrepareKeeps, ErrorKeeps, BetweenKeeps, HeaderKeeps, BodyKeeps, EndKeeps
         DEF WriteStep
    <3> QED BY <2>2, <3>1, <3>2, <3>3
  <2>4. CASE SaveFault
    <3>1. Saving /\ SaveInv /\ WriteFault
      BY <2>4 DEF SaveFault, WInv
    <3>2. job' = job
      BY <3>1 DEF WriteFault, CreateFails, PrepareFails, FetchFails, BodyIsShort, BodyFails,
                  BodyEndsWrong, DiskFails, TrailerFails, Fails
    <3>3. SaveInv'
      BY <2>1, <3>1, PrepareKeeps, ErrorKeeps, BodyKeeps, EndKeeps DEF WriteFault
    <3> QED BY <2>2, <3>1, <3>2, <3>3
  <2>5. CASE Listen
    <3>1. Saving /\ SaveInv /\ Receive
      BY <2>5 DEF Listen, WInv
    <3>2. job' = job
      BY <3>1 DEF Receive
    <3>3. SaveInv'
      BY <2>1, <3>1, ReceiveKeeps
    <3> QED BY <2>2, <3>1, <3>2, <3>3
  <2>6. CASE UNCHANGED writeVars
    <3>1. /\ job' = job /\ todo' = todo /\ tar' = tar /\ done' = done /\ step' = step
          /\ result' = result /\ ret' = ret /\ bytes' = bytes /\ chan' = chan /\ heard' = heard
      BY <2>6 DEF writeVars
    <3>2. ASSUME SaveInv
          PROVE  SaveInv'
      <4>1. TarIsStart' /\ (WholeTar' <=> WholeTar)
        BY <3>1, <3>2, TarStays DEF SaveInv
      <4>2. SaveIsOn'
        BY <3>1, <3>2, <4>1 DEF SaveInv, SaveIsOn, IsStop
      <4>3. EndIsTrue'
        BY <3>1, <3>2, QuietKeeps DEF SaveInv
      <4> QED BY <3>1, <3>2, <4>1, <4>2, <4>3 DEF SaveInv, TodoOf, Legacy
    <3> QED BY <3>1, <3>2 DEF WInv, Saving
  <2>7. CASE Export \/ ReaderLeaves \/ UNCHANGED vars
    BY <2>6, <2>7 DEF Export, ReaderLeaves, vars
  <2> QED BY <2>3, <2>4, <2>5, <2>7 DEF Next
<1> QED BY <1>1, <1>2, PTL DEF Spec

(***************************************************************************)
(* What the tar is worth.                                                  *)
(***************************************************************************)

\* At all times the files in the tar are what their names say.
LEMMA TarIsGood ==
    ASSUME job \in Jobs, SaveInv
    PROVE  GoodTar(tar)
<1>1. /\ tar \in Seq(ToSet(tar)) /\ DOMAIN tar = 1..Len(tar)
      /\ \A k \in 1..Len(tar) : IsOf(tar[k], todo[k])
  BY AllWhole DEF SaveInv, TarIsStart
<1>2. Len(tar) <= Len(todo) /\ Len(tar) \in Nat /\ Len(todo) \in Nat
  BY TodoLen, AllWhole DEF SaveInv, TarIsStart
<1>3. ASSUME NEW k \in 1..Len(tar)
      PROVE  Meant(job, todo[k])
  <2>1. k \in 1..Len(todo)
    BY <1>2, <1>3
  <2>2. CASE todo = <<>>
    <3>1. Len(<<>>) = 0
      OBVIOUS
    <3> QED BY <2>1, <2>2, <3>1
  <2>3. CASE todo = TodoOf(job)
    <3>1. /\ TodoOf(job) \in Seq(ToSet(TodoOf(job)))
          /\ \A x \in ToSet(TodoOf(job)) : Meant(job, x)
      BY TodoHolds
    <3>2. DOMAIN TodoOf(job) = 1..Len(TodoOf(job))
      BY <3>1, OwnSeq
    <3>3. todo[k] \in ToSet(TodoOf(job))
      BY <2>1, <2>3, <3>2 DEF ToSet
    <3> QED BY <3>1, <3>3
  <2> QED BY <2>2, <2>3 DEF SaveInv
<1>4. ASSUME NEW k \in 1..Len(tar)
      PROVE  Meant(job, tar[k])
  <2>1. tar[k].name = todo[k].name /\ tar[k].data = todo[k].data
    BY <1>1 DEF IsOf
  <2> QED BY <1>3, <2>1 DEF Meant
<1> QED BY <1>1, <1>4 DEF GoodTar, ToSet

\* When the save succeeds nothing is missing.
LEMMA TarIsComplete ==
    ASSUME job \in Jobs, SaveInv, ret = "ok"
    PROVE  /\ \A name \in NeedsOf(job) : ExtractFile(tar, name) # <<>>
           /\ Legacy(job) => \A i \in ImagesIn(job.refs) : LayersOf[i] # <<>>
<1>1. result = "ok" /\ step = "over"
  BY DEF SaveInv, SaveIsOn
<1>2. todo = TodoOf(job) /\ Len(tar) = Len(todo) /\ WholeTar
  BY <1>1 DEF SaveInv, SaveIsOn
<1>3. /\ tar \in Seq(ToSet(tar)) /\ DOMAIN tar = 1..Len(tar)
      /\ \A k \in 1..Len(tar) : IsOf(tar[k], todo[k]) /\ ~IsStop(todo[k])
      /\ \A x \in ToSet(tar) : x.whole
  BY <1>2, AllWhole DEF SaveInv, TarIsStart
<1>4. todo \in Seq(ToSet(todo)) /\ DOMAIN todo = 1..Len(todo)
  BY <1>2, TodoHolds, OwnSeq
<1>5. \A x \in ToSet(todo) : ~IsStop(x)
  BY <1>2, <1>3, <1>4 DEF ToSet
<1>6. ASSUME NEW x \in ToSet(todo)
      PROVE  \E y \in ToSet(tar) : y.name = x.name
  <2>1. PICK k \in 1..Len(tar) : x = todo[k]
    BY <1>2, <1>4, <1>6 DEF ToSet
  <2>2. tar[k].name = todo[k].name
    BY <1>3 DEF IsOf
  <2> QED BY <1>3, <2>1, <2>2 DEF ToSet
<1>7. /\ \A name \in NeedsOf(job) : \E x \in ToSet(todo) : x.name = name
      /\ Legacy(job) => \A i \in ImagesIn(job.refs) : LayersOf[i] # <<>>
  BY <1>2, <1>5, TodoHolds
<1>8. ASSUME NEW name \in NeedsOf(job)
      PROVE  ExtractFile(tar, name) # <<>>
  <2>1. \E y \in ToSet(tar) : y.name = name
    BY <1>6, <1>7
  <2> QED BY <1>3, <2>1, ExtractFacts
<1> QED BY <1>7, <1>8

\* Whenever the file of a save is read, a tag loads an image that was saved as that
\* name, whole, or nothing; and every tag loads when the save succeeded, of any images
\* that share layers, configs and names (tarball/write.go:153-210, image.go:118-152).
THEOREM LoadsWhole == Spec => []LoadsOnlyWhole
<1>1. WInv => LoadsOnlyWhole
  <2> SUFFICES ASSUME WInv, NEW ref \in Tags
               PROVE  LET loaded == Load(tar, ref)
                          saved == {job.refs[other] : other \in {x \in Tags : Name(x) = Name(ref)}}
                      IN  /\ ret = "ok" => loaded # <<>>
                          /\ loaded # <<>> /\ (\A i \in saved : ~Confused(i)) =>
                                 loaded[1] \in {Content(i) : i \in saved}
    BY DEF LoadsOnlyWhole
  <2> DEFINE saved == {job.refs[other] : other \in {x \in Tags : Name(x) = Name(ref)}}
  <2>1. ref \in DOMAIN job.refs /\ ref.kind = "tag"
    BY DEF Tags
  <2>2. job \in Jobs /\ SaveInv
    <3>1. job # Idle
      <4>1. Idle.refs = <<>> /\ DOMAIN <<>> = {}
        BY DEF Idle
      <4> QED BY <2>1, <4>1
    <3>2. job \in Jobs
      BY <3>1 DEF WInv
    <3>3. Saving
      BY <3>2, JobsAssumption DEF Saving
    <3> QED BY <3>2, <3>3 DEF WInv
  <2>3. GoodTar(tar)
    BY <2>2, TarIsGood
  <2>4. PICK loaded : loaded = Load(tar, ref)
    OBVIOUS
  <2>5. loaded # <<>> =>
                 \E i \in ImagesIn(job.refs) :
                    /\ \E other \in TagsOf(job.refs, i) : Name(other) = Name(ref)
                    /\ ~Confused(i) => loaded[1] = Content(i)
    BY <2>2, <2>3, <2>4, LoadIs
  <2>6. ret = "ok" => loaded # <<>>
    BY <2>1, <2>2, <2>3, <2>4, LoadIs, TarIsComplete
  <2>7. ASSUME loaded # <<>>, \A i \in saved : ~Confused(i)
        PROVE  loaded[1] \in {Content(i) : i \in saved}
    <3>1. PICK i \in ImagesIn(job.refs) :
                    /\ \E other \in TagsOf(job.refs, i) : Name(other) = Name(ref)
                    /\ ~Confused(i) => loaded[1] = Content(i)
      BY <2>5, <2>7
    <3>2. PICK other \in TagsOf(job.refs, i) : Name(other) = Name(ref)
      BY <3>1
    <3>3. other \in Tags /\ job.refs[other] = i
      BY DEF TagsOf, Tags
    <3>4. i \in saved
      BY <3>2, <3>3
    <3> HIDE DEF saved
    <3> QED BY <2>7, <3>1, <3>4
  <2> QED BY <2>4, <2>6, <2>7
<1> QED BY <1>1, SaveInvHolds, PTL

(***************************************************************************)
(* What the files take in the tar.                                         *)
(***************************************************************************)

TarSize(size) == CalculateSingleFileInTarSize(size)

AllLayers == UNION {ToSet(LayersOf[i]) : i \in DOMAIN LayersOf}

LayerSize == [x \in AllLayers |-> TarSize(SizeOf[x])]

ImageSize == [i \in DOMAIN LayersOf |-> TarSize(ConfigSize) + SumOf(LayersOf[i], LayerSize)]

LEMMA TarSizeIs ==
    ASSUME NEW size \in Nat
    PROVE  /\ Padding(size) \in Nat /\ TarSize(size) \in Nat
           /\ TarSize(size) = size + Padding(size) + Block
<1>1. PICK b \in Nat \ {0} : b = Block
  BY TarballAssumption
<1>2. \A x \in Int : x % b \in Nat
  OBVIOUS
<1>3. PICK r \in Nat : r = size % b
  BY <1>2
<1>4. Padding(size) \in Nat
  <2>1. Padding(size) = (b - r) % b /\ b - r \in Int
    BY <1>1, <1>3 DEF Padding
  <2> QED BY <1>2, <2>1
<1>5. TarSize(size) = size + Padding(size) + Block
  BY DEF TarSize, CalculateSingleFileInTarSize
<1> QED BY <1>1, <1>4, <1>5

LEMMA SizesAre ==
    /\ \A i \in DOMAIN LayersOf : LayersOf[i] \in Seq(AllLayers)
    /\ \A x \in AllLayers : SizeOf[x] \in Nat
    /\ LayerSize \in [AllLayers -> Nat] /\ ImageSize \in [DOMAIN LayersOf -> Nat]
<1>1. ASSUME NEW i \in DOMAIN LayersOf
      PROVE  LayersOf[i] \in Seq(AllLayers)
  <2>1. PICK A : A = ToSet(LayersOf[i])
    OBVIOUS
  <2>2. LayersOf[i] \in Seq(A) /\ A \subseteq AllLayers
    BY <2>1, TarballAssumption DEF AllLayers
  <2> QED BY <2>2
<1>2. \A x \in AllLayers : SizeOf[x] \in Nat
  BY TarballAssumption DEF AllLayers
<1>3. LayerSize \in [AllLayers -> Nat]
  <2>1. \A x \in AllLayers : TarSize(SizeOf[x]) \in Nat
    BY <1>2, TarSizeIs
  <2> QED BY <2>1 DEF LayerSize
<1>4. ImageSize \in [DOMAIN LayersOf -> Nat]
  <2>1. ASSUME NEW i \in DOMAIN LayersOf
        PROVE  TarSize(ConfigSize) + SumOf(LayersOf[i], LayerSize) \in Nat
    <3>1. SumOf(LayersOf[i], LayerSize) \in Nat
      BY <1>1, <1>3, SumIs
    <3>2. TarSize(ConfigSize) \in Nat
      BY TarballAssumption, TarSizeIs
    <3> QED BY <3>1, <3>2
  <2> QED BY <2>1 DEF ImageSize
<1> QED BY <1>1, <1>2, <1>3, <1>4

\* The layers of an image, as calculateTarballSize adds them.
LEMMA LayersTotal ==
    ASSUME NEW i \in DOMAIN LayersOf
    PROVE  MapThenSumSet(LAMBDA n : TarSize(SizeOf[LayersOf[i][n]]), 1..Len(LayersOf[i]))
             = SumOf(LayersOf[i], LayerSize)
<1>1. PICK k \in Nat : k = Len(LayersOf[i])
  BY TarballAssumption
<1> DEFINE S == 1..k
           c == [n \in S |-> TarSize(SizeOf[LayersOf[i][n]])]
           s == [n \in 1..k |-> n]
           one(u) == CHOOSE x \in u : TRUE
           Is(f) == f = [u \in SUBSET S |-> IF u = {} THEN 0
                            ELSE TarSize(SizeOf[LayersOf[i][one(u)]]) + f[u \ {one(u)}]]
           it == CHOOSE f : Is(f)
<1>2. \A n \in 1..k : LayersOf[i][n] \in AllLayers /\ c[n] = LayerSize[LayersOf[i][n]]
  <2>1. \A n \in 1..k : LayersOf[i][n] \in AllLayers
    BY <1>1, SizesAre
  <2> QED BY <2>1 DEF LayerSize
<1>3. c \in [S -> Nat]
  BY <1>2, SizesAre
<1>4. MapThenSumSet(LAMBDA n : TarSize(SizeOf[LayersOf[i][n]]), S) = it[S]
  BY DEF MapThenSumSet, MapThenFoldSet
<1>5. \A f : Is(f) <=> IsSetSum(f, c, S)
  <2> TAKE f
  <2>1. \A u \in SUBSET S : u # {} => c[one(u)] = TarSize(SizeOf[LayersOf[i][one(u)]])
    <3>1. \A u \in SUBSET S : u # {} => one(u) \in S
      OBVIOUS
    <3> HIDE DEF one, S
    <3> QED BY <3>1
  <2>2. [u \in SUBSET S |-> IF u = {} THEN 0
             ELSE TarSize(SizeOf[LayersOf[i][one(u)]]) + f[u \ {one(u)}]]
        = [u \in SUBSET S |-> IF u = {} THEN 0 ELSE c[one(u)] + f[u \ {one(u)}]]
    <3> HIDE DEF one, S, c
    <3> QED BY <2>1
  <2> QED BY <2>2 DEF IsSetSum
<1>6. s \in Seq(S) /\ Len(s) = k /\ ToSet(s) = S /\ Unrepeated(s)
  <2>1. s \in Seq(S) /\ Len(s) = k /\ \A n \in 1..k : s[n] = n
    OBVIOUS
  <2>2. DOMAIN s = 1..k
    OBVIOUS
  <2> HIDE DEF s
  <2> QED BY <2>1, <2>2 DEF Unrepeated, ToSet
<1> HIDE DEF s, c
<1>7. /\ \E f : IsSetSum(f, c, S)
      /\ \A f : IsSetSum(f, c, S) => f[S] = SumOf(s, c)
  <2> HIDE DEF S
  <2> QED BY <1>3, <1>6, SetSum
<1>8. it[S] = SumOf(s, c)
  <2> HIDE DEF Is
  <2> QED BY <1>5, <1>7
<1>9. SumOf(s, c) = SumOf(LayersOf[i], LayerSize)
  <2>1. \A n \in 1..Len(s) : c[s[n]] = LayerSize[LayersOf[i][n]]
    BY <1>2, <1>6 DEF s
  <2>2. PICK t \in Seq(AllLayers) : t = LayersOf[i]
    BY SizesAre
  <2>3. LayerSize \in [AllLayers -> Nat]
    BY SizesAre
  <2> HIDE DEF S
  <2>4. SumOf(s, c) = SumOf(t, LayerSize)
    <3>1. \A n \in 1..Len(s) : c[s[n]] = LayerSize[t[n]]
      BY <2>1, <2>2
    <3>2. Len(s) = Len(t) /\ s \in Seq(S)
      BY <1>1, <1>6, <2>2
    <3>3. PICK p : Sums(p, s, c) /\ SumOf(s, c) = p[Len(s)]
      BY <1>3, <3>2, SumIs
    <3>4. Sums(p, t, LayerSize)
      BY <3>1, <3>2, <3>3 DEF Sums
    <3>5. SumOf(t, LayerSize) = p[Len(t)]
      BY <2>3, <3>4, SumsAre
    <3> QED BY <3>2, <3>3, <3>5
  <2> QED BY <2>2, <2>4
<1> HIDE DEF it
<1> QED BY <1>1, <1>4, <1>8, <1>9

\* The size that is told before a save is that of all its files, a layer that is used
\* again counted again (tarball/write.go:311-330).
LEMMA TotalIs ==
    ASSUME NEW j \in Jobs
    PROVE  /\ j.order \in Seq(DOMAIN LayersOf)
           /\ CalculateTarballSize(j.refs)
                = SumOf(j.order, ImageSize) + TarSize(ManifestSize) + 2 * Block
<1> DEFINE S == ImagesIn(j.refs)
           s == j.order
           T == DOMAIN LayersOf
           one(u) == CHOOSE x \in u : TRUE
           size(i) == TarSize(ConfigSize)
                      + MapThenSumSet(LAMBDA n : TarSize(SizeOf[LayersOf[i][n]]), 1..Len(LayersOf[i]))
           Is(f) == f = [u \in SUBSET S |-> IF u = {} THEN 0
                            ELSE size(one(u)) + f[u \ {one(u)}]]
           it == CHOOSE f : Is(f)
<1>1. /\ S \subseteq T /\ s \in Seq(S) /\ ToSet(s) = S /\ Unrepeated(s)
  BY JobsAssumption DEF Unrepeated
<1>2. s \in Seq(T)
  <2> HIDE DEF S, T, s
  <2> QED BY <1>1
<1>3. MapThenSumSet(size, S) = it[S]
  BY DEF MapThenSumSet, MapThenFoldSet
<1>4. CalculateTarballSize(j.refs) = MapThenSumSet(size, S) + TarSize(ManifestSize) + 2 * Block
  BY DEF CalculateTarballSize, TarSize
<1>5. \A i \in T : size(i) = ImageSize[i]
  BY LayersTotal DEF ImageSize
<1> HIDE DEF size
<1>6. \A f : Is(f) <=> IsSetSum(f, ImageSize, S)
  <2> TAKE f
  <2>1. \A u \in SUBSET S : u # {} => ImageSize[one(u)] = size(one(u))
    <3>1. \A u \in SUBSET S : u # {} => one(u) \in T
      BY <1>1
    <3> HIDE DEF one, S, T
    <3> QED BY <1>5, <3>1
  <2>2. [u \in SUBSET S |-> IF u = {} THEN 0 ELSE size(one(u)) + f[u \ {one(u)}]]
        = [u \in SUBSET S |-> IF u = {} THEN 0 ELSE ImageSize[one(u)] + f[u \ {one(u)}]]
    <3> HIDE DEF one, S
    <3> QED BY <2>1
  <2> QED BY <2>2 DEF IsSetSum
<1>7. /\ \E f : IsSetSum(f, ImageSize, S)
      /\ \A f : IsSetSum(f, ImageSize, S) => f[S] = SumOf(s, ImageSize)
  <2>1. ImageSize \in [T -> Nat]
    BY SizesAre
  <2> HIDE DEF S, T, s
  <2> QED BY <1>1, <1>2, <2>1, SetSum
<1>8. it[S] = SumOf(s, ImageSize)
  <2> HIDE DEF Is
  <2> QED BY <1>6, <1>7
<1> HIDE DEF it
<1> QED BY <1>2, <1>3, <1>4, <1>8

FileSize(T) == [x \in T |-> TarSize(x.size)]
FileCount(T) == [x \in T |-> IF x.name[1] = "config" THEN 0 ELSE 1]

\* The files of images.
Files == {ConfigFile(i) : i \in DOMAIN LayersOf} \cup {LayerFile(x) : x \in AllLayers}

LEMMA FilesAre ==
    /\ \A x \in Files : x.size \in Nat
    /\ \A i : ConfigFile(i).size = ConfigSize /\ ConfigFile(i).name[1] = "config"
    /\ \A x : /\ LayerFile(x).size = SizeOf[x]
              /\ LayerFile(x).name[1] = "layer" /\ LayerFile(x).name[2] = x
    /\ \A m : ManifestFile(m).size = ManifestSize /\ ManifestFile(m).name[1] = "manifest.json"
<1>1. \A i : ConfigFile(i).size = ConfigSize /\ ConfigFile(i).name[1] = "config"
  BY DEF ConfigFile, File
<1>2. \A x : /\ LayerFile(x).size = SizeOf[x]
             /\ LayerFile(x).name[1] = "layer" /\ LayerFile(x).name[2] = x
  BY DEF LayerFile, File, LayerName
<1>3. \A m : ManifestFile(m).size = ManifestSize /\ ManifestFile(m).name[1] = "manifest.json"
  BY DEF ManifestFile, File
<1>4. \A x \in Files : x.size \in Nat
  BY <1>1, <1>2, SizesAre, TarballAssumption DEF Files
<1> QED BY <1>1, <1>2, <1>3, <1>4

\* The files of an image take what calculateTarballSize adds for it, and are, but for its
\* config, as many as its layers.
LEMMA ImageFilesTotal ==
    ASSUME NEW T, Files \subseteq T, \A x \in T : x.size \in Nat, NEW i \in DOMAIN LayersOf
    PROVE  /\ ImageFiles(i) \in Seq(T)
           /\ SumOf(ImageFiles(i), FileSize(T)) = ImageSize[i]
           /\ SumOf(ImageFiles(i), FileCount(T)) = Len(LayersOf[i])
<1>1. PICK c \in [T -> Nat], w \in [T -> Nat] : c = FileSize(T) /\ w = FileCount(T)
  <2>1. \A x \in T : TarSize(x.size) \in Nat
    BY TarSizeIs
  <2>2. FileSize(T) \in [T -> Nat]
    BY <2>1 DEF FileSize
  <2>3. FileCount(T) \in [T -> Nat]
    BY DEF FileCount
  <2> QED BY <2>2, <2>3
<1>2. PICK t \in Seq(AllLayers), k \in Nat : t = LayersOf[i] /\ k = Len(t)
  BY SizesAre
<1>3. PICK config : config = ConfigFile(i)
  OBVIOUS
<1>4. config \in T /\ c[config] = TarSize(ConfigSize) /\ w[config] = 0
  <2>1. config \in T
    BY <1>3 DEF Files
  <2> QED BY <1>1, <1>3, <2>1, FilesAre DEF FileSize, FileCount
<1> DEFINE s == [n \in 1..k |-> LayerFile(t[n])]
<1>5. \A n \in 1..k : t[n] \in AllLayers /\ LayerFile(t[n]) \in T
  BY <1>2 DEF Files
<1>6. s \in Seq(T) /\ Len(s) = k /\ \A n \in 1..k : s[n] = LayerFile(t[n])
  BY <1>5
<1>7. \A n \in 1..k : c[s[n]] = LayerSize[t[n]] /\ w[s[n]] = 1
  <2> SUFFICES ASSUME NEW n \in 1..k
               PROVE  c[s[n]] = LayerSize[t[n]] /\ w[s[n]] = 1
    OBVIOUS
  <2>1. s[n] = LayerFile(t[n]) /\ LayerFile(t[n]) \in T /\ t[n] \in AllLayers
    BY <1>5, <1>6
  <2>2. c[s[n]] = TarSize(SizeOf[t[n]]) /\ LayerSize[t[n]] = TarSize(SizeOf[t[n]])
    BY <1>1, <2>1, FilesAre DEF FileSize, LayerSize
  <2>3. w[s[n]] = 1
    <3>1. LayerFile(t[n]).name[1] # "config"
      BY FilesAre
    <3> QED BY <1>1, <2>1, <3>1 DEF FileCount
  <2> QED BY <2>2, <2>3
<1>8. ImageFiles(i) = <<config>> \o s
  BY <1>2, <1>3 DEF ImageFiles
<1> HIDE DEF s
<1>9. SumOf(s, c) = SumOf(t, LayerSize) /\ SumOf(t, LayerSize) \in Nat
  <2>1. LayerSize \in [AllLayers -> Nat]
    BY SizesAre
  <2>2. PICK p : Sums(p, t, LayerSize) /\ SumOf(t, LayerSize) = p[Len(t)]
    BY <2>1, SumIs
  <2>3. Sums(p, s, c)
    BY <1>2, <1>6, <1>7, <2>2 DEF Sums
  <2>4. SumOf(s, c) = p[Len(s)]
    BY <1>6, <2>3, SumsAre
  <2>5. SumOf(t, LayerSize) \in Nat
    BY <2>1, SumIs
  <2> QED BY <1>2, <1>6, <2>2, <2>4, <2>5
<1>10. SumOf(s, w) = k
  <2>1. \A n \in 1..Len(s) : w[s[n]] = 1
    BY <1>6, <1>7
  <2>2. SumOf(s, w) = Len(s)
    BY <1>6, <2>1, SumOfOnes
  <2> QED BY <1>6, <2>2
<1>11. PICK one : one = <<config>> /\ one \in Seq(T)
  <2>1. <<config>> \in Seq(T)
    BY <1>4
  <2> QED BY <2>1
<1>12. SumOf(one, c) = c[config] /\ SumOf(one, w) = w[config]
  BY <1>4, <1>11, SumOne
<1>13. /\ SumOf(one \o s, c) = SumOf(one, c) + SumOf(s, c)
       /\ SumOf(one \o s, w) = SumOf(one, w) + SumOf(s, w)
  BY <1>6, <1>11, SumConcat
<1>14. one \o s \in Seq(T)
  BY <1>6, <1>11, ConcatSet
<1>15. ImageSize[i] = TarSize(ConfigSize) + SumOf(t, LayerSize)
  BY <1>2 DEF ImageSize
<1>16. 0 + k = k
  BY <1>2
<1> QED BY <1>1, <1>2, <1>4, <1>8, <1>9, <1>10, <1>11, <1>12, <1>13, <1>14, <1>15, <1>16

\* The layers of the images, one after the other.
Used(j) == FlattenSeq([n \in 1..Len(j.order) |-> LayersOf[j.order[n]]])

\* How far the writer is after each file.
Progress(p, files) ==
    /\ p[0] = 0
    /\ \A n \in 1..Len(files) : files[n].size \in Nat /\ p[n] = p[n - 1] + TarSize(files[n].size)
    /\ \A n \in 0..Len(files) : p[n] \in Nat

\* As many layers are used as the files of all images count.
LEMMA UsedCount ==
    ASSUME NEW s \in Seq(DOMAIN LayersOf), NEW d \in [DOMAIN LayersOf -> Nat],
           \A n \in 1..Len(s) : d[s[n]] = Len(LayersOf[s[n]])
    PROVE  LET all == FlattenSeq([n \in 1..Len(s) |-> LayersOf[s[n]]])
           IN  SumOf(s, d) = Len(all) /\ all \in Seq(AllLayers)
<1>1. PICK k \in Nat : k = Len(s) /\ \A n \in 1..k : s[n] \in DOMAIN LayersOf
  OBVIOUS
<1>2. PICK seqs : seqs = [n \in 1..Len(s) |-> LayersOf[s[n]]]
  OBVIOUS
<1>3. \A n \in 1..k : LayersOf[s[n]] \in Seq(AllLayers)
  BY <1>1, SizesAre
<1>4. seqs \in Seq(Seq(AllLayers)) /\ Len(seqs) = k /\ \A n \in 1..k : seqs[n] = LayersOf[s[n]]
  BY <1>1, <1>2, <1>3
<1>5. PICK ones \in [AllLayers -> Nat] : \A x \in AllLayers : ones[x] = 1
  <2>1. [x \in AllLayers |-> 1] \in [AllLayers -> Nat]
    OBVIOUS
  <2> QED BY <2>1
<1>6. \A n \in 1..k : SumOf(seqs[n], ones) = Len(seqs[n])
  <2> SUFFICES ASSUME NEW n \in 1..k
               PROVE  SumOf(seqs[n], ones) = Len(seqs[n])
    OBVIOUS
  <2>1. PICK t \in Seq(AllLayers) : t = seqs[n]
    BY <1>3, <1>4
  <2>2. \A m \in 1..Len(t) : ones[t[m]] = 1
    BY <1>5
  <2>3. SumOf(t, ones) = Len(t)
    BY <2>2, SumOfOnes
  <2> QED BY <2>1, <2>3
<1>7. Totals(d, s, seqs, ones)
  <2>1. Len(s) = Len(seqs) /\ \A n \in 1..Len(seqs) : d[s[n]] = SumOf(seqs[n], ones)
    BY <1>1, <1>4, <1>6
  <2>2. DOMAIN ones = AllLayers /\ DOMAIN d = DOMAIN LayersOf
    OBVIOUS
  <2> QED BY <1>4, <2>1, <2>2 DEF Totals
<1>8. SumOf(FlattenSeq(seqs), ones) = SumOf(s, d)
  BY <1>7, FlattenSum
<1>9. PICK all \in Seq(AllLayers) : all = FlattenSeq(seqs)
  BY <1>4, FlattenMembers
<1>10. SumOf(all, ones) = Len(all)
  <2>1. \A m \in 1..Len(all) : ones[all[m]] = 1
    BY <1>5
  <2> QED BY <2>1, SumOfOnes
<1> QED BY <1>2, <1>8, <1>9, <1>10

\* What the files of a save take: never more than was told, and all of that when no layer
\* is used twice.
LEMMA WrittenTotal ==
    ASSUME NEW j \in Jobs, ~Legacy(j)
    PROVE  \E p : LET written == p[Len(TodoOf(j))] + 2 * Block
                  IN  /\ Progress(p, TodoOf(j))
                      /\ written <= CalculateTarballSize(j.refs)
                      /\ Cardinality(ToSet(Used(j))) = Len(Used(j)) =>
                            written = CalculateTarballSize(j.refs)
<1>1. PICK last, T : last = ManifestFile(CalculateManifest(j.refs, j.sorted))
                     /\ T = Files \cup {last}
  OBVIOUS
<1>2. last.size = ManifestSize /\ last.name[1] = "manifest.json" /\ last \in T
  BY <1>1, FilesAre
<1>3. \A x \in T : x.size \in Nat
  BY <1>1, <1>2, FilesAre, TarballAssumption
<1>4. PICK c \in [T -> Nat], w \in [T -> Nat] : c = FileSize(T) /\ w = FileCount(T)
  <2>1. \A x \in T : TarSize(x.size) \in Nat
    BY <1>3, TarSizeIs
  <2>2. FileSize(T) \in [T -> Nat]
    BY <2>1 DEF FileSize
  <2>3. FileCount(T) \in [T -> Nat]
    BY DEF FileCount
  <2> QED BY <2>2, <2>3
<1>5. /\ \A x \in T : c[x] = TarSize(x.size)
      /\ \A x \in T : w[x] = IF x.name[1] = "config" THEN 0 ELSE 1
  BY <1>4 DEF FileSize, FileCount
<1>6. PICK s \in Seq(DOMAIN LayersOf), k \in Nat :
            /\ s = j.order /\ k = Len(s)
            /\ CalculateTarballSize(j.refs)
                 = SumOf(s, ImageSize) + TarSize(ManifestSize) + 2 * Block
            /\ SumOf(s, ImageSize) \in Nat
  <2>1. PICK s \in Seq(DOMAIN LayersOf) : s = j.order
    BY TotalIs
  <2>2. Len(s) \in Nat
    OBVIOUS
  <2>3. ImageSize \in [DOMAIN LayersOf -> Nat]
    BY SizesAre
  <2>4. SumOf(s, ImageSize) \in Nat
    BY <2>3, SumIs
  <2> QED BY <2>1, <2>2, <2>4, TotalIs
<1>7. \A n \in 1..k : s[n] \in DOMAIN LayersOf
  BY <1>6
<1>8. PICK seqs : seqs = [n \in 1..k |-> ImageFiles(s[n])]
  OBVIOUS
<1>9. \A n \in 1..k : /\ ImageFiles(s[n]) \in Seq(T)
                      /\ SumOf(ImageFiles(s[n]), c) = ImageSize[s[n]]
                      /\ SumOf(ImageFiles(s[n]), w) = Len(LayersOf[s[n]])
  <2>1. Files \subseteq T
    BY <1>1
  <2> QED BY <1>3, <1>4, <1>7, <2>1, ImageFilesTotal
<1>10. seqs \in Seq(Seq(T)) /\ Len(seqs) = k /\ \A n \in 1..k : seqs[n] = ImageFiles(s[n])
  BY <1>8, <1>9
<1>11. PICK flat \in Seq(T) : flat = FlattenSeq(seqs)
  BY <1>10, FlattenMembers
<1>12. SumOf(flat, c) = SumOf(s, ImageSize)
  <2>1. Len(s) = Len(seqs) /\ \A n \in 1..Len(seqs) : ImageSize[s[n]] = SumOf(seqs[n], c)
    BY <1>6, <1>9, <1>10
  <2>2. ImageSize \in [DOMAIN LayersOf -> Nat]
    BY SizesAre
  <2>3. DOMAIN c = T /\ DOMAIN ImageSize = DOMAIN LayersOf
    BY <2>2
  <2>4. Totals(ImageSize, s, seqs, c)
    BY <1>10, <2>1, <2>2, <2>3 DEF Totals
  <2> QED BY <1>11, <2>4, FlattenSum
<1>13. SumOf(flat, w) = Len(Used(j))
  <2>1. PICK d \in [DOMAIN LayersOf -> Nat] : \A i \in DOMAIN LayersOf : d[i] = Len(LayersOf[i])
    <3>1. \A i \in DOMAIN LayersOf : Len(LayersOf[i]) \in Nat
      BY SizesAre
    <3>2. [i \in DOMAIN LayersOf |-> Len(LayersOf[i])] \in [DOMAIN LayersOf -> Nat]
      BY <3>1
    <3> QED BY <3>2
  <2>2. Totals(d, s, seqs, w)
    <3>1. Len(s) = Len(seqs) /\ \A n \in 1..Len(seqs) : d[s[n]] = SumOf(seqs[n], w)
      BY <1>6, <1>7, <1>9, <1>10, <2>1
    <3>2. DOMAIN w = T /\ DOMAIN d = DOMAIN LayersOf
      OBVIOUS
    <3> QED BY <1>10, <3>1, <3>2 DEF Totals
  <2>3. SumOf(flat, w) = SumOf(s, d)
    BY <1>11, <2>2, FlattenSum
  <2>4. SumOf(s, d) = Len(Used(j))
    <3>1. \A n \in 1..Len(s) : d[s[n]] = Len(LayersOf[s[n]])
      BY <1>6, <1>7, <2>1
    <3> QED BY <1>6, <3>1, UsedCount DEF Used
  <2> QED BY <2>3, <2>4
<1>14. PICK once \in Seq(T) : once = WrittenOnce(flat)
  BY <1>11, WrittenOnceNames
<1>15. Cardinality(ToSet(Used(j))) <= SumOf(once, w)
  <2>1. PICK g : \A x \in T : g[x] = x.name[2]
    <3>1. \A x \in T : [y \in T |-> y.name[2]][x] = x.name[2]
      OBVIOUS
    <3> QED BY <3>1
  <2>2. ASSUME NEW y \in ToSet(Used(j))
        PROVE  \E n \in 1..Len(once) : w[once[n]] >= 1 /\ y = g[once[n]]
    <3>1. PICK m \in 1..k : y \in ToSet(LayersOf[s[m]])
      <4>1. PICK layers_ : layers_ = [n \in 1..k |-> LayersOf[s[n]]]
        OBVIOUS
      <4>2. \A n \in 1..k : LayersOf[s[n]] \in Seq(AllLayers)
        BY <1>7, SizesAre
      <4>3. layers_ \in Seq(Seq(AllLayers)) /\ DOMAIN layers_ = 1..k
        BY <4>1, <4>2
      <4>4. ToSet(FlattenSeq(layers_)) = UNION {ToSet(layers_[n]) : n \in DOMAIN layers_}
        BY <4>3, FlattenMembers
      <4>5. y \in ToSet(FlattenSeq(layers_))
        BY <1>6, <2>2, <4>1 DEF Used
      <4> QED BY <4>1, <4>3, <4>4, <4>5
    <3>2. LayerFile(y) \in ToSet(ImageFiles(s[m]))
      BY <1>7, <3>1, ImageFilesSet
    <3>3. LayerFile(y) \in ToSet(flat)
      <4>1. ToSet(flat) = UNION {ToSet(seqs[n]) : n \in DOMAIN seqs}
        BY <1>10, <1>11, FlattenMembers
      <4>2. m \in DOMAIN seqs /\ seqs[m] = ImageFiles(s[m])
        BY <1>8, <1>10
      <4> QED BY <3>2, <4>1, <4>2
    <3>4. PICK z \in ToSet(once) : z.name = LayerFile(y).name
      BY <1>11, <1>14, <3>3, WrittenOnceNames
    <3>5. PICK n \in 1..Len(once) : z = once[n]
      <4>1. DOMAIN once = 1..Len(once)
        OBVIOUS
      <4> QED BY <3>4, <4>1 DEF ToSet
    <3>6. z \in T
      BY <3>5
    <3>7. z.name[1] = "layer" /\ z.name[2] = y
      BY <3>4, FilesAre
    <3>8. w[z] = 1 /\ g[z] = y
      BY <1>5, <2>1, <3>6, <3>7
    <3>9. 1 >= 1
      OBVIOUS
    <3> QED BY <3>5, <3>8, <3>9
  <2>3. PICK A : A = ToSet(Used(j))
    OBVIOUS
  <2>4. \A y \in A : \E n \in 1..Len(once) : w[once[n]] >= 1 /\ y = g[once[n]]
    BY <2>2, <2>3
  <2>5. Cardinality(A) <= SumOf(once, w)
    BY <2>4, Counted
  <2> QED BY <2>3, <2>5
<1>16. /\ SumOf(once, c) <= SumOf(flat, c)
       /\ SumOf(once, w) >= SumOf(flat, w) => SumOf(once, c) = SumOf(flat, c)
  <2>1. DOMAIN c = T
    OBVIOUS
  <2>2. Counts(w, c)
    BY <1>5, <2>1 DEF Counts
  <2>3. PICK files, d : files = flat /\ d = c /\ files \in Seq(DOMAIN d)
    BY <2>1
  <2>4. LET o == WrittenOnce(files)
        IN  /\ SumOf(o, d) <= SumOf(files, d)
            /\ SumOf(o, w) >= SumOf(files, w) => SumOf(o, d) = SumOf(files, d)
    BY <2>2, <2>3, WrittenOnceSum
  <2> QED BY <1>14, <2>3, <2>4
<1>17. TodoOf(j) = Append(once, last)
  BY <1>1, <1>6, <1>8, <1>11, <1>14 DEF TodoOf, WriteImagesToTar
<1>18. PICK todo_ \in Seq(T) : todo_ = TodoOf(j)
  <2>1. Append(once, last) \in Seq(T)
    BY <1>2
  <2> QED BY <1>17, <2>1
<1>19. SumOf(todo_, c) = SumOf(once, c) + TarSize(ManifestSize)
  <2>1. SumOf(Append(once, last), c) = SumOf(once, c) + c[last]
    BY <1>2, SumAppend
  <2>2. c[last] = TarSize(ManifestSize)
    BY <1>2, <1>5
  <2> QED BY <1>17, <1>18, <2>1, <2>2
<1>20. PICK p : Sums(p, todo_, c) /\ SumOf(todo_, c) = p[Len(todo_)]
  BY SumIs
<1>21. Progress(p, todo_)
  <2>1. \A n \in 1..Len(todo_) : todo_[n] \in T
    OBVIOUS
  <2>2. \A n \in 1..Len(todo_) : todo_[n].size \in Nat /\ c[todo_[n]] = TarSize(todo_[n].size)
    BY <1>3, <1>5, <2>1
  <2> QED BY <1>20, <2>2 DEF Sums, Progress
<1>22. /\ SumOf(once, c) \in Nat /\ SumOf(once, w) \in Nat /\ SumOf(flat, w) \in Nat
       /\ TarSize(ManifestSize) \in Nat /\ 2 * Block \in Nat
  <2>1. SumOf(once, c) \in Nat /\ SumOf(once, w) \in Nat
    BY SumIs
  <2>2. SumOf(flat, w) \in Nat
    BY SumIs
  <2>3. TarSize(ManifestSize) \in Nat
    BY TarballAssumption, TarSizeIs
  <2>4. 2 * Block \in Nat
    BY TarballAssumption
  <2> QED BY <2>1, <2>2, <2>3, <2>4
<1>23. \A a, b, m, e \in Nat : a <= b => a + m + e <= b + m + e
  OBVIOUS
<1>24. PICK a \in Nat, b \in Nat : a = SumOf(once, c) /\ b = SumOf(s, ImageSize) /\ a <= b
  <2>1. SumOf(once, c) \in Nat /\ SumOf(s, ImageSize) \in Nat
    BY <1>6, <1>22
  <2>2. SumOf(once, c) <= SumOf(s, ImageSize)
    BY <1>12, <1>16
  <2> QED BY <2>1, <2>2
<1>25. p[Len(todo_)] + 2 * Block <= CalculateTarballSize(j.refs)
  BY <1>6, <1>19, <1>20, <1>22, <1>23, <1>24
<1>26. ASSUME Cardinality(ToSet(Used(j))) = Len(Used(j))
       PROVE  p[Len(todo_)] + 2 * Block = CalculateTarballSize(j.refs)
  <2>1. SumOf(once, w) >= SumOf(flat, w)
    <3>1. SumOf(flat, w) <= SumOf(once, w)
      BY <1>13, <1>15, <1>26
    <3> QED BY <1>22, <3>1
  <2>2. SumOf(once, c) = SumOf(s, ImageSize)
    BY <1>12, <1>16, <2>1
  <2> QED BY <1>6, <1>19, <1>20, <2>2
<1> QED BY <1>18, <1>21, <1>25, <1>26

(***************************************************************************)
(* The invariant of the progress.                                          *)
(***************************************************************************)

\* The padding that the last entry still needs.
LastPad == IF done = 0 THEN 0 ELSE Padding(todo[done].size)

\* Where the writer is when nothing of the entries is missing.
Reached(p) ==
    IF step \in {"next", "wrong", "trailer"} THEN p[done] - LastPad
    ELSE IF step \in {"header", "zero1"} THEN p[done]
    ELSE IF step \in {"body", "zero2"} THEN p[done] + Block
    ELSE p[done] + 2 * Block

\* The bytes that were written are at most those, and these when nothing is missing.
BytesAre(p) ==
    /\ bytes <= Reached(p)
    /\ result = "ok" /\ (WholeTar \/ step = "body") => bytes = Reached(p)

\* What the listener is told next is what was written by then.
ToldBytes ==
    /\ chan \in Seq(ToSet(chan))
    /\ \A n \in 1..Len(chan) : chan[n].complete \in Int /\ chan[n].complete <= bytes

ByteInv ==
    /\ bytes \in Int /\ ToldBytes
    /\ step = "body" => ~WholeTar /\ todo[done + 1].size # 0
    /\ \/ /\ bytes = 0 /\ total = 0 /\ todo = <<>>
          /\ step # "create" => step \in {"return", "over"} /\ result # "ok"
       \/ /\ todo = TodoOf(job) /\ total = CalculateTarballSize(job.refs) /\ step # "create"
          /\ \E p : Progress(p, todo) /\ BytesAre(p)

\* Without a listener nothing is told.
Silent == chan = <<>> /\ heard = NoEnd

\* What is told is at most what is written, also when more is.
LEMMA TellBytes ==
    ASSUME ToldBytes, bytes \in Int, bytes' \in Int, bytes <= bytes',
           chan' = chan \/ \E e : Tell(bytes', e)
    PROVE  ToldBytes'
<1>1. PICK b \in Int, old \in Int : b = bytes' /\ old = bytes /\ old <= b
  OBVIOUS
<1>2. PICK e : chan' = chan \/ Tell(b, e)
  BY <1>1
<1>3. PICK update : update = [complete |-> b, error |-> e]
  OBVIOUS
<1>4. PICK T : chan \in Seq(T) /\ T = ToSet(chan)
  BY DEF ToldBytes
<1>5. PICK now : now = chan'
  OBVIOUS
<1>6. now = chan \/ now = Append(chan, update)
  BY <1>2, <1>3, <1>5 DEF Tell
<1>7. now \in Seq(ToSet(now))
  BY <1>4, <1>6, AppendFacts
<1>8. \A n \in 1..Len(chan) : chan[n].complete \in Int /\ chan[n].complete <= b
  <2>1. \A n \in 1..Len(chan) : chan[n].complete \in Int /\ chan[n].complete <= old
    BY <1>1 DEF ToldBytes
  <2>2. \A x \in Int : x <= old => x <= b
    BY <1>1
  <2> QED BY <2>1, <2>2
<1>9. update.complete = b /\ b <= b
  BY <1>1, <1>3
<1>10. ASSUME NEW n \in 1..Len(now)
       PROVE  now[n].complete \in Int /\ now[n].complete <= b
  <2>1. CASE now = chan
    BY <1>8, <2>1
  <2>2. CASE now = Append(chan, update)
    <3>1. Len(chan) \in Nat /\ Len(now) = Len(chan) + 1 /\ now[Len(chan) + 1] = update
      BY <1>4, <2>2, AppendFacts
    <3>2. \A m \in 1..Len(chan) : now[m] = chan[m]
      BY <1>4, <2>2, AppendFacts
    <3>3. n = Len(chan) + 1 \/ n \in 1..Len(chan)
      BY <3>1
    <3>4. CASE n = Len(chan) + 1
      BY <1>1, <1>9, <3>1, <3>4
    <3>5. CASE n \in 1..Len(chan)
      BY <1>8, <3>2, <3>5
    <3> QED BY <3>3, <3>4, <3>5
  <2> QED BY <1>6, <2>1, <2>2
<1> QED BY <1>1, <1>5, <1>7, <1>10 DEF ToldBytes

\* Where the writer is among the files.
LEMMA DoneFacts ==
    ASSUME job \in Jobs, SaveInv, NEW p, Progress(p, todo)
    PROVE  /\ p[done] \in Nat /\ LastPad \in Nat /\ Block \in Nat
           /\ step \in {"header", "body"} =>
                 /\ todo[done + 1].size \in Nat /\ Padding(todo[done + 1].size) \in Nat
                 /\ p[done + 1] = p[done] + (todo[done + 1].size
                                             + Padding(todo[done + 1].size) + Block)
<1>1. PICK k \in Nat, d \in Nat : k = Len(todo) /\ d = done
  BY TodoLen DEF SaveInv, TarIsStart
<1>2. Len(tar) \in {d, d + 1} /\ Len(tar) <= k
  BY <1>1 DEF SaveInv, TarIsStart
<1>3. d \in 0..k
  BY <1>1, <1>2
<1>4. Block \in Nat
  BY TarballAssumption
<1>5. LastPad \in Nat
  <2>1. CASE d = 0
    BY <1>1, <2>1 DEF LastPad
  <2>2. CASE d # 0
    <3>1. d \in 1..k
      BY <1>3, <2>2
    <3>2. todo[d].size \in Nat
      BY <1>1, <3>1 DEF Progress
    <3>3. Padding(todo[d].size) \in Nat
      BY <3>2, TarSizeIs
    <3> QED BY <1>1, <2>2, <3>3 DEF LastPad
  <2> QED BY <2>1, <2>2
<1>6. p[done] \in Nat
  BY <1>1, <1>3 DEF Progress
<1>7. ASSUME step \in {"header", "body"}
      PROVE  /\ todo[done + 1].size \in Nat /\ Padding(todo[done + 1].size) \in Nat
             /\ p[done + 1] = p[done] + (todo[done + 1].size
                                         + Padding(todo[done + 1].size) + Block)
  <2>1. d + 1 \in 1..k
    <3>1. CASE step = "header"
      <4>1. d < k
        BY <1>1, <3>1 DEF SaveInv, SaveIsOn
      <4> QED BY <4>1
    <3>2. CASE step = "body"
      <4>1. Len(tar) = d + 1
        BY <1>1, <3>2 DEF SaveInv, SaveIsOn
      <4> QED BY <1>2, <4>1
    <3> QED BY <1>7, <3>1, <3>2
  <2>2. todo[d + 1].size \in Nat /\ p[d + 1] = p[(d + 1) - 1] + TarSize(todo[d + 1].size)
    BY <1>1, <2>1 DEF Progress
  <2>3. (d + 1) - 1 = d
    BY <1>1
  <2> QED BY <1>1, <2>2, <2>3, TarSizeIs
<1> QED BY <1>4, <1>5, <1>6, <1>7

\* A step of the writer among the files.
LEMMA BytesKeep ==
    ASSUME job \in Jobs, ~Legacy(job), ByteInv, step \notin {"create", "return", "over"},
           job' = job, todo' = todo, total' = total, step' # "create",
           bytes' \in Int, bytes <= bytes', chan' = chan \/ \E e : Tell(bytes', e),
           step' = "body" => ~WholeTar' /\ todo'[done' + 1].size # 0,
           \A p : Progress(p, todo) /\ BytesAre(p) => BytesAre(p)'
    PROVE  ByteInv'
<1>1. ToldBytes'
  BY TellBytes DEF ByteInv
<1>2. PICK p : Progress(p, todo) /\ BytesAre(p)
  BY DEF ByteInv
<1>3. Progress(p, todo)' /\ BytesAre(p)'
  BY <1>2 DEF Progress
<1>4. todo' = TodoOf(job)' /\ total' = CalculateTarballSize(job.refs)'
  BY DEF ByteInv, TodoOf, Legacy
<1> QED BY <1>1, <1>3, <1>4 DEF ByteInv

LEMMA PrepareBytes ==
    ASSUME job \in Jobs, ~Legacy(job), SaveInv, ByteInv, Prepare \/ CreateFails \/ PrepareFails
    PROVE  ByteInv'
<1>1. /\ step = "create" /\ job' = job /\ done' = done /\ tar' = tar /\ bytes' = bytes
  BY DEF Prepare, CreateFails, PrepareFails
<1>2. bytes = 0 /\ total = 0 /\ todo = <<>> /\ ToldBytes /\ 0 \in Int
  BY <1>1 DEF ByteInv
<1>3. PICK e : chan' = chan \/ Tell(bytes', e)
  <2>1. CASE PrepareFails
    BY <1>1, <1>2, <2>1 DEF PrepareFails
  <2>2. CASE Prepare \/ CreateFails
    BY <2>2 DEF Prepare, CreateFails
  <2> QED BY <2>1, <2>2
<1>4. ToldBytes' /\ bytes' \in Int
  <2>1. bytes <= bytes' /\ bytes' \in Int /\ bytes \in Int
    BY <1>1, <1>2
  <2> QED BY <1>2, <1>3, <2>1, TellBytes
<1>5. CASE Prepare
  <2>1. /\ step' = "next" /\ todo' = TodoOf(job) /\ total' = CalculateTarballSize(job.refs)
    BY <1>5 DEF Prepare, TodoOf, Legacy
  <2>2. PICK p : Progress(p, TodoOf(job))
    BY WrittenTotal
  <2>3. done = 0
    <3>1. Len(<<>>) = 0
      OBVIOUS
    <3>2. done \in Nat /\ Len(tar) \in {done, done + 1} /\ Len(tar) <= 0 /\ Len(tar) \in Nat
      BY <1>2, <3>1 DEF SaveInv, TarIsStart
    <3> QED BY <3>2
  <2>4. Reached(p)' = 0
    <3>1. p[0] = 0
      BY <2>2 DEF Progress
    <3>2. done' = 0
      BY <1>1, <2>3
    <3>3. LastPad' = 0
      BY <3>2 DEF LastPad
    <3>4. Reached(p)' = p[done'] - LastPad'
      BY <2>1 DEF Reached
    <3> QED BY <3>1, <3>2, <3>3, <3>4
  <2>5. BytesAre(p)'
    <3>1. bytes' = 0
      BY <1>1, <1>2
    <3>2. bytes' <= Reached(p)' /\ bytes' = Reached(p)'
      BY <2>4, <3>1
    <3> QED BY <3>2 DEF BytesAre
  <2>6. Progress(p, todo)'
    BY <2>1, <2>2 DEF Progress
  <2>7. todo' = TodoOf(job)' /\ total' = CalculateTarballSize(job.refs)'
    BY <1>1, <2>1 DEF TodoOf, Legacy
  <2> QED BY <1>4, <2>1, <2>5, <2>6, <2>7 DEF ByteInv
<1>6. CASE CreateFails \/ PrepareFails
  <2>1. /\ step' = "return" /\ result' # "ok" /\ todo' = todo /\ total' = total
    BY <1>6 DEF CreateFails, PrepareFails, Ends
  <2> QED BY <1>1, <1>2, <1>4, <2>1 DEF ByteInv
<1> QED BY <1>5, <1>6

\* Where the writer goes on, or stops for good.
LEMMA BetweenBytes ==
    ASSUME job \in Jobs, ~Legacy(job), SaveInv, ByteInv, Pad \/ Panics \/ AllWritten
    PROVE  ByteInv'
<1>1. /\ step = "next" /\ job' = job /\ tar' = tar /\ done' = done /\ todo' = todo
      /\ total' = total /\ (WholeTar' <=> WholeTar) /\ LastPad' = LastPad
  BY DEF Pad, Panics, AllWritten, WholeTar, LastPad
<1>2. PICK q : Progress(q, todo)
  BY <1>1 DEF ByteInv
<1>3. bytes \in Int /\ LastPad \in Nat
  BY <1>2, DoneFacts DEF ByteInv
<1>4. \/ bytes' = bytes + LastPad /\ step' = "header" /\ result' = result /\ Tell(bytes', "")
      \/ bytes' = bytes /\ step' = "trailer" /\ (result' = "ok" => result = "ok") /\ chan' = chan
  <2>1. CASE Pad
    BY <2>1 DEF Pad, Wrote, LastPad
  <2>2. CASE Panics
    BY <2>2 DEF Panics
  <2>3. CASE AllWritten
    BY <2>3 DEF AllWritten, CloseThenEnd
  <2> QED BY <2>1, <2>2, <2>3
<1>5. bytes' \in Int /\ bytes <= bytes'
  <2>1. PICK b \in Int, pad \in Nat : b = bytes /\ pad = LastPad
    BY <1>3
  <2>2. bytes' = b + pad \/ bytes' = b
    BY <1>4, <2>1
  <2> QED BY <2>1, <2>2
<1>6. ASSUME NEW p, Progress(p, todo), BytesAre(p)
      PROVE  BytesAre(p)'
  <2>1. PICK d \in Nat, pad \in Nat : d = p[done] /\ pad = LastPad
    BY <1>6, DoneFacts
  <2>2. bytes <= d - pad /\ (result = "ok" /\ WholeTar => bytes = d - pad)
    BY <1>1, <1>6, <2>1 DEF BytesAre, Reached
  <2>3. CASE bytes' = bytes + LastPad /\ step' = "header" /\ result' = result
    <3>1. Reached(p)' = d
      BY <1>1, <2>1, <2>3 DEF Reached
    <3>2. bytes' <= d /\ (result = "ok" /\ WholeTar => bytes' = d)
      BY <1>3, <2>1, <2>2, <2>3
    <3> QED BY <1>1, <2>3, <3>1, <3>2 DEF BytesAre
  <2>4. CASE bytes' = bytes /\ step' = "trailer" /\ (result' = "ok" => result = "ok")
    <3>1. Reached(p)' = d - pad
      BY <1>1, <2>1, <2>4 DEF Reached
    <3> QED BY <1>1, <2>2, <2>4, <3>1 DEF BytesAre
  <2> QED BY <1>4, <2>3, <2>4
<1>7. chan' = chan \/ \E e : Tell(bytes', e)
  BY <1>4
<1>8. step' # "create" /\ step' # "body"
  BY <1>4
<1> QED BY <1>1, <1>5, <1>6, <1>7, <1>8, BytesKeep

\* A header is followed by what has to be in the body.
LEMMA HeaderBytes ==
    ASSUME job \in Jobs, ~Legacy(job), SaveInv, ByteInv, Header
    PROVE  ByteInv'
<1>1. /\ step = "header" /\ job' = job /\ todo' = todo /\ total' = total /\ result' = result
      /\ bytes' = bytes + Block /\ Tell(bytes', "")
      /\ tar' = Append(tar, [name |-> todo[done + 1].name, data |-> todo[done + 1].data,
                             whole |-> todo[done + 1].size = 0])
      /\ IF todo[done + 1].size = 0 THEN step' = "next" /\ done' = done + 1
         ELSE step' = "body" /\ done' = done
  BY DEF Header, Wrote
<1>2. result = "ok" /\ WholeTar /\ done \in Nat
  BY <1>1 DEF SaveInv, SaveIsOn, TarIsStart
<1>3. bytes \in Int /\ Block \in Nat
  BY TarballAssumption DEF ByteInv
<1>4. bytes' \in Int /\ bytes <= bytes'
  <2>1. PICK b \in Int, block \in Nat : b = bytes /\ block = Block
    BY <1>3
  <2>2. bytes' = b + block
    BY <1>1, <2>1
  <2> QED BY <2>1, <2>2
<1>5. ASSUME step' = "body"
      PROVE  ~WholeTar' /\ todo'[done' + 1].size # 0
  <2>1. todo[done + 1].size # 0 /\ done' = done
    BY <1>1, <1>5
  <2>2. PICK file : file = [name |-> todo[done + 1].name, data |-> todo[done + 1].data,
                            whole |-> todo[done + 1].size = 0]
    OBVIOUS
  <2>3. ~file.whole
    BY <2>1, <2>2
  <2>4. PICK T : tar \in Seq(T)
    BY DEF SaveInv, TarIsStart
  <2>5. PICK now : now = Append(tar, file)
    OBVIOUS
  <2>6. Len(now) = Len(tar) + 1 /\ now[Len(tar) + 1] = file /\ Len(tar) \in Nat
    BY <2>4, <2>5, AppendFacts
  <2>7. ~Last(now).whole
    BY <2>3, <2>6 DEF Last
  <2>8. now # <<>>
    <3>1. Len(<<>>) = 0
      OBVIOUS
    <3>2. Len(now) # 0
      BY <2>6
    <3> QED BY <3>1, <3>2
  <2>9. tar' = now
    BY <1>1, <2>2, <2>5
  <2> QED BY <1>1, <2>1, <2>7, <2>8, <2>9 DEF WholeTar
<1>6. ASSUME NEW p, Progress(p, todo), BytesAre(p)
      PROVE  BytesAre(p)'
  <2>1. PICK d \in Nat, size \in Nat, pad \in Nat :
            /\ d = p[done] /\ size = todo[done + 1].size /\ pad = Padding(todo[done + 1].size)
            /\ p[done + 1] = d + (size + pad + Block)
    BY <1>1, <1>6, DoneFacts
  <2>2. bytes = d
    BY <1>1, <1>2, <1>6, <2>1 DEF BytesAre, Reached
  <2>3. Reached(p)' = d + Block
    <3>1. CASE todo[done + 1].size = 0
      <4>1. step' = "next" /\ done' = done + 1 /\ size = 0
        BY <1>1, <2>1, <3>1
      <4>2. LastPad' = pad
        <5>1. done + 1 # 0
          BY <1>2
        <5> QED BY <1>1, <2>1, <4>1, <5>1 DEF LastPad
      <4>3. Reached(p)' = p[done + 1] - pad
        BY <4>1, <4>2 DEF Reached
      <4>4. (d + (size + pad + Block)) - pad = d + Block
        BY <1>3, <2>1, <4>1
      <4> QED BY <2>1, <4>3, <4>4
    <3>2. CASE todo[done + 1].size # 0
      <4>1. step' = "body" /\ done' = done
        BY <1>1, <3>2
      <4> QED BY <2>1, <4>1 DEF Reached
    <3> QED BY <3>1, <3>2
  <2>4. bytes' = d + Block
    BY <1>1, <2>2
  <2>5. d + Block <= d + Block
    BY <1>3, <2>1
  <2> QED BY <2>3, <2>4, <2>5 DEF BytesAre
<1>7. step' # "create"
  BY <1>1
<1> QED BY <1>1, <1>4, <1>5, <1>6, <1>7, BytesKeep

LEMMA BodyBytes ==
    ASSUME job \in Jobs, ~Legacy(job), SaveInv, ByteInv, Body \/ BodyIsShort \/ BodyEndsWrong
    PROVE  ByteInv'
<1>1. /\ step = "body" /\ job' = job /\ todo' = todo /\ total' = total /\ result' = result
      /\ done' = done + 1 /\ step' \in {"next", "wrong"} /\ Tell(bytes', "")
  BY DEF Body, BodyIsShort, BodyEndsWrong, InLayer, Wrote
<1>2. \/ bytes' = bytes + todo[done + 1].size
      \/ bytes' = bytes + (todo[done + 1].size - 1) /\ tar' = tar
  BY DEF Body, BodyIsShort, BodyEndsWrong, Wrote
<1>3. result = "ok" /\ ~WholeTar /\ done \in Nat /\ todo[done + 1].size # 0 /\ bytes \in Int
  BY <1>1 DEF SaveInv, SaveIsOn, TarIsStart, ByteInv
<1>4. PICK q : Progress(q, todo)
  BY <1>1 DEF ByteInv
<1>5. todo[done + 1].size \in Nat /\ Block \in Nat
  BY <1>1, <1>4, DoneFacts
<1>6. bytes' \in Int /\ bytes <= bytes'
  <2>1. PICK size \in Nat, b \in Int : size = todo[done + 1].size /\ b = bytes
    BY <1>3, <1>5
  <2>2. size # 0
    BY <1>3, <2>1
  <2>3. bytes' = b + size \/ bytes' = b + (size - 1)
    BY <1>2, <2>1
  <2> QED BY <2>1, <2>2, <2>3
<1>7. ASSUME NEW p, Progress(p, todo), BytesAre(p)
      PROVE  BytesAre(p)'
  <2>1. PICK d \in Nat, size \in Nat, pad \in Nat :
            /\ d = p[done] /\ size = todo[done + 1].size /\ pad = Padding(todo[done + 1].size)
            /\ p[done + 1] = d + (size + pad + Block)
    BY <1>1, <1>7, DoneFacts
  <2>2. bytes = d + Block
    BY <1>1, <1>3, <1>7, <2>1 DEF BytesAre, Reached
  <2>3. Reached(p)' = d + Block + size
    <3>1. LastPad' = pad
      <4>1. done + 1 # 0
        BY <1>3
      <4> QED BY <1>1, <2>1, <4>1 DEF LastPad
    <3>2. Reached(p)' = p[done + 1] - pad
      BY <1>1, <3>1 DEF Reached
    <3>3. (d + (size + pad + Block)) - pad = d + Block + size
      BY <1>5, <2>1
    <3> QED BY <2>1, <3>2, <3>3
  <2>4. CASE bytes' = bytes + todo[done + 1].size
    <3>1. bytes' = d + Block + size
      BY <2>1, <2>2, <2>4
    <3>2. d + Block + size <= d + Block + size
      BY <1>5, <2>1
    <3> QED BY <2>3, <3>1, <3>2 DEF BytesAre
  <2>5. CASE bytes' = bytes + (todo[done + 1].size - 1) /\ tar' = tar
    <3>1. bytes' = d + Block + (size - 1)
      BY <2>1, <2>2, <2>5
    <3>2. d + Block + (size - 1) <= d + Block + size
      BY <1>5, <2>1
    <3>3. ~WholeTar' /\ step' # "body"
      BY <1>1, <1>3, <2>5 DEF WholeTar
    <3> QED BY <2>3, <3>1, <3>2, <3>3 DEF BytesAre
  <2> QED BY <1>2, <2>4, <2>5
<1>8. step' # "create" /\ step' # "body"
  BY <1>1
<1> QED BY <1>1, <1>6, <1>7, <1>8, BytesKeep

\* After an error no more is written than would have been.
LEMMA ErrorBytes ==
    ASSUME job \in Jobs, ~Legacy(job), SaveInv, ByteInv,
           FetchFails \/ GivesUp \/ MissedBytes \/ BodyFails \/ WrongBody \/ DiskFails
    PROVE  ByteInv'
<1>1. /\ job' = job /\ todo' = todo /\ total' = total /\ done' = done /\ bytes' = bytes
      /\ Tell(bytes', "error") /\ result' = "error" /\ step' \in {"trailer", "return"}
  BY DEF FetchFails, GivesUp, MissedBytes, BodyFails, WrongBody, DiskFails, Fails
<1>2. /\ step \in {"next", "header", "body", "wrong"}
      /\ step' = "trailer" => step \in {"next", "wrong"}
  BY DEF FetchFails, GivesUp, MissedBytes, BodyFails, WrongBody, DiskFails, InLayer, Fails
<1>3. bytes \in Int
  BY DEF ByteInv
<1>4. bytes' \in Int /\ bytes <= bytes'
  BY <1>1, <1>3
<1>5. ASSUME NEW p, Progress(p, todo), BytesAre(p)
      PROVE  BytesAre(p)'
  <2>1. PICK d \in Nat, pad \in Nat, block \in Nat : d = p[done] /\ pad = LastPad /\ block = Block
    BY <1>5, DoneFacts
  <2>2. bytes <= Reached(p)
    BY <1>5 DEF BytesAre
  <2>3. LastPad' = LastPad
    BY <1>1 DEF LastPad
  <2>4. bytes <= Reached(p)'
    <3>1. CASE step' = "trailer"
      <4>1. Reached(p)' = Reached(p)
        BY <1>1, <1>2, <2>3, <3>1 DEF Reached
      <4> QED BY <2>2, <4>1
    <3>2. CASE step' = "return"
      <4>1. Reached(p)' = d + 2 * block
        BY <1>1, <2>1, <3>2 DEF Reached
      <4>2. Reached(p) = d - pad \/ Reached(p) = d \/ Reached(p) = d + block
        BY <1>2, <2>1 DEF Reached
      <4> QED BY <1>3, <2>1, <2>2, <4>1, <4>2
    <3> QED BY <1>1, <3>1, <3>2
  <2> QED BY <1>1, <2>4 DEF BytesAre
<1>6. step' # "create" /\ step' # "body" /\ step \notin {"create", "return", "over"}
  BY <1>1, <1>2
<1> QED BY <1>1, <1>4, <1>5, <1>6, BytesKeep

\* The end of the tar.
LEMMA TrailerBytes ==
    ASSUME job \in Jobs, ~Legacy(job), SaveInv, ByteInv, Trailer \/ TrailerFails \/ SendEOF
    PROVE  ByteInv'
<1>1. /\ job' = job /\ todo' = todo /\ total' = total /\ done' = done /\ tar' = tar
      /\ step \in {"trailer", "zero1", "zero2", "eof"} /\ LastPad' = LastPad
      /\ (WholeTar' <=> WholeTar)
  BY DEF Trailer, TrailerFails, SendEOF, LastPad, WholeTar
<1>2. /\ result' = "ok" => result = "ok"
      /\ chan' = chan \/ \E e : Tell(bytes', e)
      /\ \/ step = "trailer" /\ bytes' = bytes + LastPad /\ step' = "zero1"
         \/ step = "zero1" /\ bytes' = bytes + Block /\ step' = "zero2"
         \/ step = "zero2" /\ bytes' = bytes + Block /\ step' \in {"eof", "return"}
         \/ /\ step \in {"trailer", "zero1", "zero2"} /\ bytes' = bytes /\ step' = "return"
            /\ result' # "ok"
         \/ step = "eof" /\ bytes' = bytes /\ step' = "return"
  <2>1. CASE Trailer
    <3>1. PICK at_ \in {"trailer", "zero1", "zero2"} :
            /\ step = at_
            /\ IF at_ = "trailer" THEN Wrote(LastPad) ELSE Wrote(Block)
            /\ step' = IF at_ = "trailer" THEN "zero1" ELSE IF at_ = "zero1" THEN "zero2"
                       ELSE IF result = "ok" /\ CloseThenEnd = "trailer" THEN "eof" ELSE "return"
            /\ result' = result
      BY <2>1 DEF Trailer, LastPad
    <3>2. \A n : Wrote(n) => bytes' = bytes + n /\ Tell(bytes', "")
      BY DEF Wrote
    <3> QED BY <3>1, <3>2
  <2>2. CASE TrailerFails
    <3>1. /\ step \in {"trailer", "zero1", "zero2"} /\ bytes' = bytes
          /\ IF result = "ok" /\ job.how = "tarball" THEN Tell(bytes, "error") /\ Ends("error")
             ELSE step' = "return" /\ chan' = chan /\ result' = result
      BY <2>2 DEF TrailerFails
    <3>2. job.how = "tarball"
      BY JobsAssumption DEF Legacy
    <3>3. CASE result = "ok"
      BY <3>1, <3>2, <3>3 DEF Ends
    <3>4. CASE result # "ok"
      BY <3>1, <3>4
    <3> QED BY <3>3, <3>4
  <2>3. CASE SendEOF
    <3>1. bytes' = bytes /\ Tell(bytes', "EOF") /\ step = "eof" /\ step' = "return" /\ result' = result
      BY <2>3 DEF SendEOF, CloseThenEnd
    <3> QED BY <3>1
  <2> QED BY <2>1, <2>2, <2>3
<1>3. PICK q : Progress(q, todo)
  BY <1>1 DEF ByteInv
<1>4. bytes \in Int /\ LastPad \in Nat /\ Block \in Nat
  BY <1>3, DoneFacts DEF ByteInv
<1>5. bytes' \in Int /\ bytes <= bytes'
  <2>1. PICK b \in Int, pad \in Nat, block \in Nat : b = bytes /\ pad = LastPad /\ block = Block
    BY <1>4
  <2>2. bytes' = b + pad \/ bytes' = b + block \/ bytes' = b
    BY <1>2, <2>1
  <2> QED BY <2>1, <2>2
<1>6. ASSUME NEW p, Progress(p, todo), BytesAre(p)
      PROVE  BytesAre(p)'
  <2>1. PICK d \in Nat, pad \in Nat, block \in Nat : d = p[done] /\ pad = LastPad /\ block = Block
    BY <1>6, DoneFacts
  <2>2. PICK b \in Int, c \in Int : b = bytes /\ c = bytes'
    BY <1>4, <1>5
  <2>3. b <= Reached(p) /\ (result = "ok" /\ WholeTar => b = Reached(p))
    BY <1>6, <2>2 DEF BytesAre
  <2>4. Reached(p) = IF step = "trailer" THEN d - pad ELSE IF step = "zero1" THEN d
                     ELSE IF step = "zero2" THEN d + block ELSE d + 2 * block
    BY <1>1, <2>1 DEF Reached
  <2>5. Reached(p)' = IF step' = "zero1" THEN d ELSE IF step' = "zero2" THEN d + block
                      ELSE d + 2 * block
    <3>1. step' \in {"zero1", "zero2", "eof", "return"}
      BY <1>2
    <3> QED BY <1>1, <2>1, <3>1 DEF Reached
  <2>6. c <= Reached(p)' /\ (result' = "ok" /\ WholeTar => c = Reached(p)')
    <3>1. CASE step = "trailer" /\ bytes' = bytes + LastPad /\ step' = "zero1"
      <4>1. c = b + pad /\ Reached(p) = d - pad /\ Reached(p)' = d
        BY <2>1, <2>2, <2>4, <2>5, <3>1
      <4>2. c <= d /\ (b = d - pad => c = d)
        BY <2>1, <2>2, <2>3, <4>1
      <4> QED BY <1>2, <2>3, <4>1, <4>2
    <3>2. CASE step = "zero1" /\ bytes' = bytes + Block /\ step' = "zero2"
      <4>1. c = b + block /\ Reached(p) = d /\ Reached(p)' = d + block
        BY <2>1, <2>2, <2>4, <2>5, <3>2
      <4>2. c <= d + block /\ (b = d => c = d + block)
        BY <2>1, <2>2, <2>3, <4>1
      <4> QED BY <1>2, <2>3, <4>1, <4>2
    <3>3. CASE step = "zero2" /\ bytes' = bytes + Block /\ step' \in {"eof", "return"}
      <4>1. c = b + block /\ Reached(p) = d + block /\ Reached(p)' = d + 2 * block
        BY <2>1, <2>2, <2>4, <2>5, <3>3
      <4>2. b <= d + block /\ d + 2 * block = (d + block) + block
        BY <2>1, <2>3, <4>1
      <4>3. c <= (d + block) + block /\ (b = d + block => c = (d + block) + block)
        BY <2>1, <2>2, <4>1, <4>2
      <4> QED BY <1>2, <2>3, <4>1, <4>2, <4>3
    <3>4. CASE /\ step \in {"trailer", "zero1", "zero2"} /\ bytes' = bytes /\ step' = "return"
               /\ result' # "ok"
      <4>1. c = b /\ Reached(p)' = d + 2 * block
        BY <2>2, <2>5, <3>4
      <4>2. Reached(p) = d - pad \/ Reached(p) = d \/ Reached(p) = d + block
        BY <2>4, <3>4
      <4>3. c <= d + 2 * block
        BY <2>1, <2>2, <2>3, <4>1, <4>2
      <4> QED BY <3>4, <4>1, <4>3
    <3>5. CASE step = "eof" /\ bytes' = bytes /\ step' = "return"
      <4>1. c = b /\ Reached(p) = d + 2 * block /\ Reached(p)' = d + 2 * block
        BY <2>2, <2>4, <2>5, <3>5
      <4> QED BY <1>2, <2>3, <4>1
    <3> QED BY <1>2, <3>1, <3>2, <3>3, <3>4, <3>5
  <2>7. step' # "body"
    BY <1>2
  <2> QED BY <1>1, <2>2, <2>6, <2>7 DEF BytesAre
<1>7. step' # "create" /\ step' # "body" /\ step \notin {"create", "return", "over"}
  BY <1>1, <1>2
<1> QED BY <1>1, <1>2, <1>5, <1>6, <1>7, BytesKeep

LEMMA ReturnBytes ==
    ASSUME job \in Jobs, ~Legacy(job), SaveInv, ByteInv, ReturnResult
    PROVE  ByteInv'
<1>1. /\ step = "return" /\ step' = "over" /\ job' = job /\ todo' = todo /\ total' = total
      /\ done' = done /\ tar' = tar /\ bytes' = bytes /\ result' = result /\ chan' = chan
  BY DEF ReturnResult
<1>2. ToldBytes' /\ bytes' \in Int
  BY <1>1 DEF ByteInv, ToldBytes
<1>3. ASSUME NEW p
      PROVE  (Progress(p, todo) /\ BytesAre(p)) => (Progress(p, todo) /\ BytesAre(p))'
  BY <1>1 DEF Progress, BytesAre, Reached, WholeTar
<1> QED BY <1>1, <1>2, <1>3 DEF ByteInv, TodoOf, Legacy

\* The listener takes what comes first.
LEMMA ReceiveBytes ==
    ASSUME job \in Jobs, ~Legacy(job), SaveInv, ByteInv, Receive
    PROVE  ByteInv'
<1>1. /\ job' = job /\ todo' = todo /\ total' = total /\ step' = step
      /\ done' = done /\ tar' = tar /\ bytes' = bytes /\ result' = result
      /\ chan # <<>> /\ chan' = Tail(chan)
  BY DEF Receive
<1>2. ToldBytes'
  <2>1. PICK T : chan \in Seq(T) /\ T = ToSet(chan)
    BY DEF ByteInv, ToldBytes
  <2>2. PICK now : now = Tail(chan)
    OBVIOUS
  <2>3. /\ Len(chan) \in Nat \ {0} /\ now \in Seq(T) /\ Len(now) = Len(chan) - 1
        /\ \A k \in 1..Len(now) : now[k] = chan[k + 1]
    BY <1>1, <2>1, <2>2
  <2>4. now \in Seq(ToSet(now))
    BY <2>3, OwnSeq
  <2>5. \A k \in 1..Len(now) : k + 1 \in 1..Len(chan)
    BY <2>3
  <2>6. \A k \in 1..Len(chan) : chan[k].complete \in Int /\ chan[k].complete <= bytes
    BY DEF ByteInv, ToldBytes
  <2>7. \A k \in 1..Len(now) : now[k].complete \in Int /\ now[k].complete <= bytes
    BY <2>3, <2>5, <2>6
  <2> QED BY <1>1, <2>2, <2>4, <2>7 DEF ToldBytes
<1>3. ASSUME NEW p
      PROVE  (Progress(p, todo) /\ BytesAre(p)) => (Progress(p, todo) /\ BytesAre(p))'
  BY <1>1 DEF Progress, BytesAre, Reached, LastPad, WholeTar
<1> QED BY <1>1, <1>2, <1>3 DEF ByteInv, TodoOf, Legacy, WholeTar

\* The bytes up to each file are determined, and never fewer than up to one before.
LEMMA OneProgress ==
    ASSUME NEW files, Len(files) \in Nat, NEW p, NEW q, Progress(p, files), Progress(q, files)
    PROVE  /\ p[Len(files)] = q[Len(files)]
           /\ \A n \in 0..Len(files) : p[n] <= p[Len(files)]
<1>1. PICK k \in Nat : k = Len(files)
  OBVIOUS
<1>2. /\ p[0] = 0 /\ q[0] = 0 /\ \A n \in 0..k : p[n] \in Nat /\ q[n] \in Nat
      /\ \A n \in 1..k : /\ TarSize(files[n].size) \in Nat
                         /\ p[n] = p[n - 1] + TarSize(files[n].size)
                         /\ q[n] = q[n - 1] + TarSize(files[n].size)
  BY <1>1, TarSizeIs DEF Progress
<1> DEFINE Good == {n \in 0..k : p[n] = q[n] /\ \A m \in 0..n : p[m] <= p[n]}
<1>3. 0 \in Good
  BY <1>1, <1>2
<1>4. ASSUME NEW n \in 1..k, n - 1 \in Good
      PROVE  n \in Good
  <2>1. PICK size \in Nat : size = TarSize(files[n].size)
    BY <1>2
  <2>2. p[n] = p[n - 1] + size /\ q[n] = q[n - 1] + size
    BY <1>2, <2>1
  <2>3. n \in 0..k /\ n - 1 \in 0..k
    OBVIOUS
  <2>4. p[n - 1] \in Nat /\ p[n] \in Nat /\ p[n - 1] = q[n - 1]
    BY <1>2, <1>4, <2>3
  <2>5. ASSUME NEW m \in 0..n
        PROVE  p[m] <= p[n]
    <3>1. CASE m = n
      BY <2>4, <3>1
    <3>2. CASE m # n
      <4>1. m \in 0..(n - 1) /\ m \in 0..k
        BY <3>2
      <4>2. p[m] <= p[n - 1] /\ p[m] \in Nat
        BY <1>2, <1>4, <4>1
      <4> QED BY <2>1, <2>2, <2>4, <4>2
    <3> QED BY <3>1, <3>2
  <2> QED BY <2>2, <2>3, <2>4, <2>5
<1>5. \A n \in 0..k : n \in Good
  <2> HIDE DEF Good
  <2> QED BY <1>1, <1>3, <1>4, UpTo
<1>6. k \in Good
  <2> HIDE DEF Good
  <2>1. k \in 0..k
    BY <1>1
  <2> QED BY <1>5, <2>1
<1> QED BY <1>1, <1>6

LEMMA ListenedIs ==
    ASSUME job \in Jobs \cup {Idle}, Listened
    PROVE  job \in Jobs /\ ~Legacy(job) /\ Saving
<1>1. job # Idle
  BY DEF Listened, Idle
<1>2. job \in Jobs
  BY <1>1
<1> QED BY <1>2, JobsAssumption DEF Listened, Legacy, Saving

\* While nobody listens nothing is told.
LEMMA StaysSilent ==
    ASSUME WriteStep \/ WriteFault \/ Receive \/ UNCHANGED writeVars
    PROVE  job' = job /\ (~Listened /\ Silent => ~Listened' /\ Silent')
<1>1. job' = job
  BY DEF WriteStep, Prepare, GivesUp, Panics, Pad, MissedBytes, Header, Body, WrongBody,
         AllWritten, Trailer, SendEOF, ReturnResult, Fails, WriteFault, CreateFails,
         PrepareFails, FetchFails, BodyIsShort, BodyFails, BodyEndsWrong, DiskFails,
         TrailerFails, Receive, writeVars
<1>2. ASSUME ~Listened, Silent
      PROVE  chan' = chan /\ heard' = heard
  <2>1. \A n, e : Tell(n, e) => chan' = chan
    BY <1>2 DEF Tell
  <2>2. CASE WriteStep
    BY <2>1, <2>2
       DEF WriteStep, Prepare, GivesUp, Panics, Pad, MissedBytes, Header, Body, WrongBody,
           AllWritten, Trailer, SendEOF, ReturnResult, Fails, Wrote
  <2>3. CASE WriteFault
    BY <2>1, <2>3
       DEF WriteFault, CreateFails, PrepareFails, FetchFails, BodyIsShort, BodyFails,
           BodyEndsWrong, DiskFails, TrailerFails, Fails, Wrote
  <2>4. CASE Receive
    BY <1>2, <2>4 DEF Receive, Silent
  <2>5. CASE UNCHANGED writeVars
    BY <2>5 DEF writeVars
  <2> QED BY <2>2, <2>3, <2>4, <2>5
<1> QED BY <1>1, <1>2 DEF Listened, Silent, NoEnd

\* Of every save; a legacy one tells nothing, and counts nothing.
ProgressInv ==
    /\ ~Listened => Silent
    /\ job \in Jobs /\ ~Legacy(job) => ByteInv

LEMMA ProgressInvHolds == Spec => []ProgressInv
<1>1. Init => ProgressInv
  <2> SUFFICES ASSUME Init
               PROVE  ProgressInv
    OBVIOUS
  <2>1. /\ todo = <<>> /\ step = "create" /\ done = 0 /\ tar = <<>> /\ bytes = 0 /\ total = 0
        /\ chan = <<>> /\ heard = NoEnd
    <3>1. WriteInit(Jobs) \/ WriteInit({Idle})
      BY DEF Init
    <3> QED BY <3>1 DEF WriteInit
  <2>2. ToldBytes
    <3>1. <<>> \in Seq(ToSet(<<>>)) /\ Len(<<>>) = 0 /\ 1..0 = {}
      OBVIOUS
    <3>2. chan \in Seq(ToSet(chan)) /\ 1..Len(chan) = {}
      BY <2>1, <3>1
    <3> QED BY <3>2 DEF ToldBytes
  <2>3. 0 \in Int
    OBVIOUS
  <2> QED BY <2>1, <2>2, <2>3 DEF ProgressInv, Silent, ByteInv
<1>2. WInv /\ ProgressInv /\ [Next]_vars => ProgressInv'
  <2> SUFFICES ASSUME WInv, ProgressInv, [Next]_vars
               PROVE  ProgressInv'
    OBVIOUS
  <2>1. job \in Jobs => Saving
    BY JobsAssumption DEF Saving
  <2>2. ASSUME Saving, job \in Jobs, ~Legacy(job)
        PROVE  SaveInv /\ ByteInv
    BY <2>2 DEF WInv, ProgressInv
  <2>3. CASE SaveStep
    <3>1. Saving /\ WriteStep
      BY <2>3 DEF SaveStep
    <3>2. ASSUME job \in Jobs, ~Legacy(job)
          PROVE  ByteInv'
      <4>1. SaveInv /\ ByteInv
        BY <2>2, <3>1, <3>2
      <4> QED BY <3>1, <3>2, <4>1, PrepareBytes, ErrorBytes, BetweenBytes, HeaderBytes, BodyBytes,
                 TrailerBytes, ReturnBytes
              DEF WriteStep
    <3>3. job' = job /\ (~Listened /\ Silent => ~Listened' /\ Silent')
      BY <3>1, StaysSilent
    <3> QED BY <3>2, <3>3 DEF ProgressInv, Listened, Legacy
  <2>4. CASE SaveFault
    <3>1. Saving /\ WriteFault
      BY <2>4 DEF SaveFault
    <3>2. ASSUME job \in Jobs, ~Legacy(job)
          PROVE  ByteInv'
      <4>1. SaveInv /\ ByteInv
        BY <2>2, <3>1, <3>2
      <4> QED BY <3>1, <3>2, <4>1, PrepareBytes, ErrorBytes, BodyBytes, TrailerBytes
              DEF WriteFault
    <3>3. job' = job /\ (~Listened /\ Silent => ~Listened' /\ Silent')
      BY <3>1, StaysSilent
    <3> QED BY <3>2, <3>3 DEF ProgressInv, Listened, Legacy
  <2>5. CASE Listen
    <3>1. Saving /\ Receive
      BY <2>5 DEF Listen
    <3>2. ASSUME job \in Jobs, ~Legacy(job)
          PROVE  ByteInv'
      <4>1. SaveInv /\ ByteInv
        BY <2>2, <3>1, <3>2
      <4> QED BY <3>1, <3>2, <4>1, ReceiveBytes
    <3>3. job' = job /\ (~Listened /\ Silent => ~Listened' /\ Silent')
      BY <3>1, StaysSilent
    <3> QED BY <3>2, <3>3 DEF ProgressInv, Listened, Legacy
  <2>6. CASE UNCHANGED writeVars
    <3>1. /\ job' = job /\ todo' = todo /\ total' = total /\ step' = step /\ done' = done
          /\ tar' = tar /\ bytes' = bytes /\ result' = result /\ chan' = chan
      BY <2>6 DEF writeVars
    <3>2. ASSUME ByteInv
          PROVE  ByteInv'
      <4>1. ToldBytes'
        BY <3>1, <3>2 DEF ByteInv, ToldBytes
      <4>2. ASSUME NEW p
            PROVE  (Progress(p, todo) /\ BytesAre(p)) => (Progress(p, todo) /\ BytesAre(p))'
        BY <3>1 DEF Progress, BytesAre, Reached, LastPad, WholeTar
      <4> QED BY <3>1, <3>2, <4>1, <4>2 DEF ByteInv, TodoOf, Legacy, WholeTar
    <3>3. job' = job /\ (~Listened /\ Silent => ~Listened' /\ Silent')
      BY <2>6, StaysSilent
    <3> QED BY <3>1, <3>2, <3>3 DEF ProgressInv, Listened, Legacy
  <2>7. CASE Export \/ ReaderLeaves \/ UNCHANGED vars
    BY <2>6, <2>7 DEF Export, ReaderLeaves, vars
  <2> QED BY <2>3, <2>4, <2>5, <2>7 DEF Next
<1>3. Spec => []WInv
  BY SaveInvHolds
<1> QED BY <1>1, <1>2, <1>3, PTL DEF Spec

\* The progress that a listener is told is never more than the total it was told of; at
\* the end it is all that was written, and that is the total unless a layer is used
\* twice.  So it is for any images that share layers, and whatever fails
\* (tarball/write.go:211-218, 311-330).
THEOREM ProgressHolds == Spec => []ProgressIsTrue
<1>1. WInv /\ ProgressInv => ProgressIsTrue
  <2> SUFFICES ASSUME WInv, ProgressInv
               PROVE  /\ \A n \in 1..Len(chan) : chan[n].complete <= total
                      /\ heard.error = "EOF" =>
                            /\ heard.complete = bytes
                            /\ Cardinality(ToSet(Used(job))) = Len(Used(job)) => bytes = total
    BY DEF ProgressIsTrue, Used
  <2>1. CASE ~Listened
    <3>1. chan = <<>> /\ heard = NoEnd
      BY <2>1 DEF ProgressInv, Silent
    <3>2. Len(<<>>) = 0 /\ 1..0 = {} /\ NoEnd.error # "EOF"
      BY DEF NoEnd
    <3> QED BY <3>1, <3>2
  <2>2. CASE Listened
    <3>1. job \in Jobs /\ ~Legacy(job) /\ SaveInv /\ ByteInv
      BY <2>2, ListenedIs DEF WInv, ProgressInv
    <3>2. heard.error = "EOF" => /\ heard.complete = bytes /\ result = "ok"
                                 /\ step \in {"return", "over"}
      BY <3>1 DEF SaveInv, EndIsTrue
    <3>3. PICK b \in Int : b = bytes
      BY <3>1 DEF ByteInv
    <3>4. \A n \in 1..Len(chan) : chan[n].complete \in Int /\ chan[n].complete <= b
      BY <3>1, <3>3 DEF ByteInv, ToldBytes
    <3>5. CASE bytes = 0 /\ total = 0 /\ (step # "create" => result # "ok")
      BY <3>2, <3>3, <3>4, <3>5
    <3>6. CASE /\ todo = TodoOf(job) /\ total = CalculateTarballSize(job.refs)
               /\ \E p : Progress(p, todo) /\ BytesAre(p)
      <4>1. PICK p : Progress(p, todo) /\ BytesAre(p)
        BY <3>6
      <4>2. PICK q : LET written == q[Len(TodoOf(job))] + 2 * Block
                     IN  /\ Progress(q, TodoOf(job))
                         /\ written <= CalculateTarballSize(job.refs)
                         /\ Cardinality(ToSet(Used(job))) = Len(Used(job)) =>
                               written = CalculateTarballSize(job.refs)
        BY <3>1, WrittenTotal
      <4>3. PICK k \in Nat : k = Len(todo)
        BY <3>1, TodoLen
      <4>4. p[k] = q[k] /\ \A n \in 0..k : p[n] <= p[k]
        BY <3>6, <4>1, <4>2, <4>3, OneProgress
      <4>5. PICK d \in Nat, pad \in Nat, block \in Nat :
                d = p[done] /\ pad = LastPad /\ block = Block
        BY <3>1, <4>1, DoneFacts
      <4>6. PICK all \in Nat : all = p[k] /\ d <= all
        <5>1. done \in 0..k
          BY <3>1, <4>3, AllWhole DEF SaveInv, TarIsStart
        <5>2. p[k] \in Nat
          <6>1. k \in 0..k
            BY <4>3
          <6> QED BY <4>1, <4>3, <6>1 DEF Progress
        <5> QED BY <4>4, <4>5, <5>1, <5>2
      <4>7. /\ all + 2 * block <= total
            /\ Cardinality(ToSet(Used(job))) = Len(Used(job)) => all + 2 * block = total
        BY <3>6, <4>2, <4>3, <4>4, <4>5, <4>6
      <4>8. total \in Int
        <5>1. \A x : x \in Nat => x + TarSize(ManifestSize) + 2 * Block \in Int
          <6>1. TarSize(ManifestSize) \in Nat /\ Block \in Nat
            BY TarballAssumption, TarSizeIs
          <6> QED BY <6>1
        <5>2. SumOf(job.order, ImageSize) \in Nat
          <6>1. PICK s \in Seq(DOMAIN LayersOf) : s = job.order
            BY <3>1, TotalIs
          <6>2. SumOf(s, ImageSize) \in Nat
            BY SizesAre, SumIs
          <6> QED BY <6>1, <6>2
        <5> QED BY <3>1, <3>6, <5>1, <5>2, TotalIs
      <4>9. b <= all + 2 * block
        <5>1. b <= Reached(p)
          BY <3>3, <4>1 DEF BytesAre
        <5>2. \/ Reached(p) = d - pad \/ Reached(p) = d \/ Reached(p) = d + block
              \/ Reached(p) = d + 2 * block
          BY <4>5 DEF Reached
        <5> QED BY <3>3, <4>5, <4>6, <5>1, <5>2
      <4>10. \A n \in 1..Len(chan) : chan[n].complete <= total
        <5>1. b <= total
          BY <3>3, <4>5, <4>6, <4>7, <4>8, <4>9
        <5>2. \A x \in Int : x <= b => x <= total
          BY <3>3, <4>8, <5>1
        <5> QED BY <3>4, <5>2
      <4>11. ASSUME heard.error = "EOF"
             PROVE  bytes = all + 2 * block
        <5>1. result = "ok" /\ step \in {"return", "over"}
          BY <3>2, <4>11
        <5>2. WholeTar /\ done = k
          BY <3>1, <4>3, <5>1 DEF SaveInv, SaveIsOn
        <5>3. bytes = Reached(p)
          BY <4>1, <5>1, <5>2 DEF BytesAre
        <5> QED BY <4>5, <4>6, <5>1, <5>2, <5>3 DEF Reached
      <4> QED BY <3>2, <4>7, <4>10, <4>11
    <3> QED BY <3>1, <3>5, <3>6 DEF ByteInv
  <2> QED BY <2>1, <2>2
<1>2. Spec => []WInv
  BY SaveInvHolds
<1>3. Spec => []ProgressInv
  BY ProgressInvHolds
<1> QED BY <1>1, <1>2, <1>3, PTL

\* Who is told the end of the progress.
EndIsHonest ==
    heard.error = "EOF" =>
        /\ heard.complete = bytes /\ result = "ok"
        /\ todo = TodoOf(job) /\ Len(tar) = Len(todo) /\ WholeTar

\* A listener that is told the end was told of all bytes, and by then every file is in
\* the tar, whole (tarball/write.go:206-218).
THEOREM EndOfProgress == Spec => []EndIsHonest
<1>1. WInv => EndIsHonest
  <2> SUFFICES ASSUME WInv, heard.error = "EOF"
               PROVE  /\ heard.complete = bytes /\ result = "ok"
                      /\ todo = TodoOf(job) /\ Len(tar) = Len(todo) /\ WholeTar
    BY DEF EndIsHonest
  <2>1. NoEnd.error # "EOF"
    BY DEF NoEnd
  <2>2. SaveInv
    BY <2>1 DEF WInv
  <2>3. heard.complete = bytes /\ result = "ok" /\ step \in {"return", "over"}
    BY <2>2 DEF SaveInv, EndIsTrue
  <2>4. todo = TodoOf(job) /\ Len(tar) = Len(todo) /\ WholeTar
    BY <2>2, <2>3 DEF SaveInv, SaveIsOn
  <2> QED BY <2>3, <2>4
<1> QED BY <1>1, SaveInvHolds, PTL

(***************************************************************************)
(* The legacy chain.                                                       *)
(***************************************************************************)

\* One in front of a sequence.
LEMMA ConsFacts ==
    ASSUME NEW T, NEW s \in Seq(T), NEW x \in T, NEW t \in Seq(T),
           Len(t) = Len(s) + 1, t[1] = x, \A m \in 1..Len(s) : t[m + 1] = s[m]
    PROVE  <<x>> \o s = t
<1> DEFINE all == <<x>> \o s
<1>1. <<x>> \in Seq(T) /\ Len(<<x>>) = 1 /\ <<x>>[1] = x
  OBVIOUS
<1>2. PICK one : one = <<x>>
  OBVIOUS
<1>3. /\ one \o s \in Seq(T) /\ Len(one \o s) = Len(s) + 1 /\ Len(s) \in Nat
      /\ \A m \in 1..(Len(s) + 1) : (one \o s)[m] = IF m <= 1 THEN one[m] ELSE s[m - 1]
  BY <1>1, <1>2
<1>4. \A m \in 1..(Len(s) + 1) : (one \o s)[m] = t[m]
  <2> TAKE m \in 1..(Len(s) + 1)
  <2>1. CASE m = 1
    BY <1>1, <1>2, <1>3, <2>1
  <2>2. CASE m # 1
    <3>1. m - 1 \in 1..Len(s) /\ (m - 1) + 1 = m /\ ~(m <= 1)
      BY <1>3, <2>2
    <3>2. t[m] = s[m - 1]
      BY <3>1
    <3> QED BY <1>3, <3>1, <3>2
  <2> QED BY <2>1, <2>2
<1>5. one \o s = t
  BY <1>3, <1>4, SeqEqual
<1> QED BY <1>2, <1>5

\* The parents of the top layer of an image are its other layers, in order.
LEMMA ChainIs ==
    ASSUME job \in Jobs, GoodTar(tar), NEW i \in DOMAIN LayersOf, LayersOf[i] # <<>>,
           \A n \in 1..Len(LayersOf[i]) : ExtractFile(tar, <<"json", V1LayerIDs(i)[n]>>) # <<>>
    PROVE  Chain(Last(V1LayerIDs(i)), Len(LayersOf[i])) = V1LayerIDs(i)
<1> DEFINE ids == V1LayerIDs(i)
           k == Len(LayersOf[i])
           T == ToSet(ids)
           parent(s) == ExtractFile(tar, <<"json", Head(s)>>)[1].parent
           step_(s) == IF parent(s) = <<>> THEN s ELSE <<parent(s)>> \o s
           Is(f) == f = [n \in 0..k |-> IF n = 0 THEN <<Last(ids)>> ELSE step_(f[n - 1])]
           from(n) == IF n = k THEN ids ELSE [m \in 1..(n + 1) |-> ids[k - n - 1 + m]]
           it == CHOOSE f : Is(f)
           w == [n \in 0..k |-> from(n)]
<1>1. /\ k \in Nat /\ k # 0 /\ ids \in Seq(T) /\ Len(ids) = k
      /\ \A n \in 1..k : ids[n] \in T /\ ids[n] # <<>>
                         /\ ids[n][2] = IF n = 1 THEN <<>> ELSE ids[n - 1]
  <2>1. k \in Nat /\ k # 0
    <3>1. LayersOf[i] \in Seq(ToSet(LayersOf[i]))
      BY DiffIDs
    <3> QED BY <3>1
  <2>2. /\ DOMAIN ids = 1..k /\ ids \in Seq(T) /\ Len(ids) = k
        /\ \A n \in 1..k : ids[n] # <<>> /\ ids[n][2] = IF n = 1 THEN <<>> ELSE ids[n - 1]
    BY V1IDs
  <2>3. \A n \in 1..k : ids[n] \in T
    BY <2>2 DEF ToSet
  <2> QED BY <2>1, <2>2, <2>3
<1>2. \A n \in 1..k : ExtractFile(tar, <<"json", ids[n]>>)[1].parent = ids[n][2]
  BY FindsMeant
<1>3. Chain(Last(ids), k) = it[k]
  BY DEF Chain
<1> HIDE DEF ids, k, T
<1>4. ASSUME NEW n \in 0..k
      PROVE  /\ from(n) \in Seq(T) /\ from(n) # <<>>
             /\ Len(from(n)) = IF n = k THEN k ELSE n + 1
             /\ \A m \in 1..Len(from(n)) : from(n)[m] = IF n = k THEN ids[m] ELSE ids[k - n - 1 + m]
             /\ Head(from(n)) = IF n = k THEN ids[1] ELSE ids[k - n]
  <2>1. CASE n = k
    BY <1>1, <2>1
  <2>2. CASE n # k
    <3>1. \A m \in 1..(n + 1) : k - n - 1 + m \in 1..k
      BY <1>1, <2>2
    <3>2. from(n) = [m \in 1..(n + 1) |-> ids[k - n - 1 + m]] /\ n + 1 \in Nat
      BY <2>2
    <3>3. from(n) \in Seq(T) /\ Len(from(n)) = n + 1
      <4>1. \A m \in 1..(n + 1) : ids[k - n - 1 + m] \in T
        BY <1>1, <3>1
      <4>2. PICK f : f = from(n)
        OBVIOUS
      <4>3. f \in [1..(n + 1) -> T]
        BY <3>2, <4>1, <4>2
      <4> HIDE DEF from
      <4>4. f \in Seq(T) /\ Len(f) = n + 1
        BY <3>2, <4>3
      <4> QED BY <4>2, <4>4
    <3>4. k - n - 1 + 1 = k - n
      BY <1>1
    <3> HIDE DEF from
    <3>5. \A m \in 1..Len(from(n)) : from(n)[m] = ids[k - n - 1 + m]
      BY <3>2, <3>3
    <3>6. Head(from(n)) = ids[k - n]
      <4>1. 1 \in 1..Len(from(n)) /\ from(n) # <<>>
        BY <3>3
      <4>2. Head(from(n)) = from(n)[1]
        BY <3>3, <4>1
      <4> QED BY <3>4, <3>5, <4>1, <4>2
    <3> QED BY <2>2, <3>3, <3>5, <3>6
  <2> QED BY <2>1, <2>2
<1> HIDE DEF from
<1>5. from(0) = <<Last(ids)>>
  <2>1. Last(ids) = ids[k]
    BY <1>1 DEF Last
  <2>2. 0 \in 0..k /\ 0 # k
    BY <1>1
  <2>3. Len(from(0)) = 1 /\ from(0) \in Seq(T) /\ Head(from(0)) = ids[k]
    <3>1. from(0) \in Seq(T) /\ Len(from(0)) = 0 + 1 /\ Head(from(0)) = ids[k - 0]
      BY <1>4, <2>2
    <3>2. 0 + 1 = 1 /\ k - 0 = k
      BY <1>1
    <3> QED BY <3>1, <3>2
  <2> QED BY <2>1, <2>3
<1>6. ASSUME NEW n \in 1..k
      PROVE  from(n) = step_(from(n - 1))
  <2>1. n - 1 \in 0..k /\ n \in 0..k /\ n - 1 # k
    BY <1>1
  <2>2. Head(from(n - 1)) = ids[k - (n - 1)]
    BY <1>4, <2>1
  <2>3. k - (n - 1) \in 1..k
    BY <1>1
  <2>4. parent(from(n - 1)) = IF k - (n - 1) = 1 THEN <<>> ELSE ids[k - (n - 1) - 1]
    BY <1>1, <1>2, <2>2, <2>3
  <2>5. CASE n = k
    <3>1. parent(from(n - 1)) = <<>>
      BY <1>1, <2>4, <2>5
    <3>2. from(n - 1) = ids
      <4>1. /\ from(n - 1) \in Seq(T) /\ Len(from(n - 1)) = k
            /\ \A m \in 1..k : from(n - 1)[m] = ids[m]
        <5>1. from(n - 1) \in Seq(T) /\ Len(from(n - 1)) = k
          BY <1>1, <1>4, <2>1, <2>5
        <5>2. \A m \in 1..Len(from(n - 1)) : from(n - 1)[m] = ids[k - (n - 1) - 1 + m]
          BY <1>4, <2>1
        <5>3. \A m \in 1..k : k - (n - 1) - 1 + m = m
          BY <1>1, <2>5
        <5> QED BY <5>1, <5>2, <5>3
      <4> QED BY <1>1, <4>1, SeqEqual
    <3>3. from(n) = ids
      BY <2>5 DEF from
    <3> QED BY <3>1, <3>2, <3>3
  <2>6. CASE n # k
    <3>1. k - (n - 1) - 1 \in 1..k /\ k - (n - 1) # 1 /\ k - (n - 1) - 1 = k - n
      BY <1>1, <2>6
    <3>2. PICK p \in T : p = ids[k - n] /\ p = parent(from(n - 1)) /\ p # <<>>
      BY <1>1, <2>4, <3>1
    <3>3. PICK s \in Seq(T) : s = from(n - 1)
      BY <1>4, <2>1
    <3>4. PICK t \in Seq(T) : t = from(n)
      BY <1>4, <2>1
    <3>5. Len(s) = n /\ \A m \in 1..n : s[m] = ids[k - (n - 1) - 1 + m]
      <4>1. Len(s) = n
        BY <1>4, <2>1, <3>3
      <4>2. \A m \in 1..Len(s) : s[m] = ids[k - (n - 1) - 1 + m]
        BY <1>4, <2>1, <3>3
      <4> QED BY <4>1, <4>2
    <3>6. Len(t) = n + 1 /\ \A m \in 1..(n + 1) : t[m] = ids[k - n - 1 + m]
      <4>1. Len(t) = n + 1
        BY <1>4, <2>1, <2>6, <3>4
      <4>2. \A m \in 1..Len(t) : t[m] = ids[k - n - 1 + m]
        BY <1>4, <2>1, <2>6, <3>4
      <4> QED BY <4>1, <4>2
    <3>7. t[1] = p /\ \A m \in 1..Len(s) : t[m + 1] = s[m]
      <4>1. k - n - 1 + 1 = k - n /\ 1 \in 1..(n + 1)
        BY <1>1
      <4>2. \A m \in 1..n : m + 1 \in 1..(n + 1) /\ k - n - 1 + (m + 1) = k - (n - 1) - 1 + m
        BY <1>1
      <4>3. t[1] = p
        BY <3>2, <3>6, <4>1
      <4>4. ASSUME NEW m \in 1..n
            PROVE  t[m + 1] = s[m]
        <5>1. t[m + 1] = ids[k - n - 1 + (m + 1)]
          BY <3>6, <4>2
        <5> QED BY <3>5, <4>2, <5>1
      <4> QED BY <3>5, <4>3, <4>4
    <3>8. <<p>> \o s = t
      BY <3>5, <3>6, <3>7, ConsFacts
    <3> QED BY <3>2, <3>3, <3>4, <3>8
  <2> QED BY <2>5, <2>6
<1> HIDE DEF step_
<1>7. Is(w)
  <2>1. \A n \in 0..k : w[n] = IF n = 0 THEN <<Last(ids)>> ELSE step_(w[n - 1])
    <3> TAKE n \in 0..k
    <3>1. CASE n = 0
      BY <1>5, <3>1
    <3>2. CASE n # 0
      <4>1. n \in 1..k /\ n - 1 \in 0..k
        BY <1>1, <3>2
      <4> QED BY <1>6, <3>2, <4>1
    <3> QED BY <3>1, <3>2
  <2> QED BY <2>1
<1>8. Is(it)
  <2> HIDE DEF Is, w
  <2> QED BY <1>7
<1>9. it[k] = w[k]
  <2> HIDE DEF it
  <2> DEFINE S == {n \in 0..k : it[n] = w[n]}
  <2>1. 0 \in S
    BY <1>1, <1>5, <1>8
  <2>2. \A n \in 1..k : n - 1 \in S => n \in S
    <3> SUFFICES ASSUME NEW n \in 1..k, it[n - 1] = w[n - 1]
                 PROVE  it[n] = w[n]
      OBVIOUS
    <3>1. n \in 0..k /\ n # 0 /\ n - 1 \in 0..k
      BY <1>1
    <3>2. it[n] = step_(it[n - 1])
      BY <1>8, <3>1
    <3>3. w[n] = from(n) /\ w[n - 1] = from(n - 1)
      BY <3>1
    <3> QED BY <1>6, <3>2, <3>3
  <2> HIDE DEF S
  <2>3. k \in S
    BY <1>1, <2>1, <2>2, UpTo
  <2> QED BY <2>3 DEF S
<1>10. w[k] = ids
  BY <1>1 DEF from
<1> QED BY <1>3, <1>9, <1>10 DEF ids, k

\* Who loads a legacy tarball by its repositories finds the layers of the image, in
\* order, also those that it shares with another, for any images whose save succeeded
\* (legacy/tarball/write.go:241-300).
THEOREM ChainHolds == Spec => []LegacyChain
<1>1. WInv => LegacyChain
  <2> SUFFICES ASSUME WInv, job.how = "legacy", ret = "ok", NEW ref \in Tags
               PROVE  LET repos == ExtractFile(tar, <<"repositories">>)[1]
                      IN  \E top \in repos :
                            LET chain == Chain(top.id, Len(LayersOf[job.refs[ref]]))
                            IN  /\ top.tag = ref
                                /\ [n \in 1..Len(chain) |-> ExtractFile(tar, <<"layer.tar", chain[n]>>)]
                                   = [n \in 1..Len(LayersOf[job.refs[ref]]) |->
                                          <<<<"tar", DiffOf[LayersOf[job.refs[ref]][n]]>>>>]
    BY DEF LegacyChain
  <2>1. job \in Jobs /\ SaveInv /\ Legacy(job)
    BY DEF WInv, Idle, Saving, Legacy
  <2>2. GoodTar(tar)
    BY <2>1, TarIsGood
  <2>3. /\ \A name \in NeedsOf(job) : ExtractFile(tar, name) # <<>>
        /\ \A i \in ImagesIn(job.refs) : LayersOf[i] # <<>>
    BY <2>1, TarIsComplete
  <2>4. PICK i : i = job.refs[ref]
    OBVIOUS
  <2>5. /\ ref \in DOMAIN job.refs /\ ref \in TagsOf(job.refs, i)
        /\ i \in ImagesIn(job.refs) /\ i \in DOMAIN LayersOf /\ i \in ToSet(job.order)
    <3>1. ref \in DOMAIN job.refs /\ ref.kind = "tag"
      BY DEF Tags
    <3>2. i \in ImagesIn(job.refs) /\ ref \in TagsOf(job.refs, i)
      BY <2>4, <3>1 DEF ImagesIn, TagsOf
    <3> QED BY <2>1, <3>1, <3>2, JobsAssumption
  <2>6. PICK ids : ids = V1LayerIDs(i)
    OBVIOUS
  <2>7. PICK k \in Nat : k = Len(LayersOf[i])
    BY <2>5, DiffIDs
  <2>8. /\ Len(ids) = k
        /\ \A n \in 1..k : ids[n][1] = LayersOf[i][n]
    BY <2>5, <2>6, <2>7, V1IDs
  <2>9. \A n \in 1..k : /\ ExtractFile(tar, <<"json", ids[n]>>) # <<>>
                        /\ ExtractFile(tar, <<"layer.tar", ids[n]>>) # <<>>
    <3> TAKE n \in 1..k
    <3>1. Places(job, i)[n] = <<"layer.tar", ids[n]>>
      BY <2>1, <2>6, <2>7 DEF Places
    <3>2. Places(job, i)[n] \in Needs(job, i) /\ <<"json", ids[n]>> \in Needs(job, i)
      BY <2>1, <2>6, <2>7 DEF Needs
    <3>3. Needs(job, i) \subseteq NeedsOf(job)
      BY <2>5 DEF NeedsOf
    <3> QED BY <2>3, <3>1, <3>2, <3>3
  <2>10. Chain(Last(ids), k) = ids
    BY <2>1, <2>2, <2>3, <2>5, <2>6, <2>7, <2>9, ChainIs
  <2>11. PICK top : top = [tag |-> ref, id |-> Last(ids)]
    OBVIOUS
  <2>12. top.tag = ref /\ top.id = Last(ids)
    BY <2>11
  <2>13. top \in ExtractFile(tar, <<"repositories">>)[1]
    <3>1. <<"repositories">> \in NeedsOf(job)
      BY <2>1 DEF NeedsOf
    <3>2. ExtractFile(tar, <<"repositories">>) = <<V1Repositories(job.refs, job.order)>>
      BY <2>2, <2>3, <3>1, FindsMeant
    <3>3. top \in V1Repositories(job.refs, job.order)
      BY <2>5, <2>6, <2>11 DEF V1Repositories
    <3>4. \A x : <<x>>[1] = x
      OBVIOUS
    <3> QED BY <3>2, <3>3, <3>4
  <2>14. \A n \in 1..k : ExtractFile(tar, <<"layer.tar", ids[n]>>)
                         = <<<<"tar", DiffOf[LayersOf[i][n]]>>>>
    <3> TAKE n \in 1..k
    <3>1. ExtractFile(tar, <<"layer.tar", ids[n]>>) \in {<<>>, <<<<"tar", DiffOf[ids[n][1]]>>>>}
      BY <2>2, FindsMeant
    <3> QED BY <2>8, <2>9, <3>1
  <2>15. [n \in 1..k |-> ExtractFile(tar, <<"layer.tar", ids[n]>>)]
         = [n \in 1..k |-> <<<<"tar", DiffOf[LayersOf[i][n]]>>>>]
    BY <2>14
  <2> QED BY <2>4, <2>7, <2>8, <2>10, <2>12, <2>13, <2>15
<1> QED BY <1>1, SaveInvHolds, PTL
=============================================================================
