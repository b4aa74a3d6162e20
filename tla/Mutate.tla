------------------------------- MODULE Mutate -------------------------------
(***************************************************************************)
(* pkg/v1/mutate: images made out of images.  A new image remembers its    *)
(* base and what is added, and is computed when something is asked of it.  *)
(* Configs are pointers: ConfigFile of an image that was read is parsed    *)
(* anew each time, that of an image made here is the image's own.          *)
(*                                                                         *)
(* The heap holds the images and the config files they point to.  Two      *)
(* things change what is there: a computation, and mutate.Config.          *)
(* Annotations, URLs and media types of addenda are left out.              *)
(***************************************************************************)
EXTENDS Partial, FiniteSets, Folds

CONSTANTS
    Read,           \* the images a program begins with: [config, layers, media]
    Addenda,        \* what it may append: sequences of [layer, history]
    Confs,          \* what it may put in a config: [cmd, host]
    Dates, MediaTypes,
    Streams,        \* the layers that are streams
    Stripped,       \* each layer as layerTime makes it
    MaxSteps        \* bound: images that are made

ASSUME MutateAssumption ==
    /\ MaxSteps \in Nat /\ Streams \subseteq Layers
    /\ DOMAIN DiffOf = Layers
    /\ \A x \in ToSet(Read) : x.config.diffids = DiffIDsOf(x.layers)

VARIABLES
    heap,       \* [img, cell]: the images, and the config files
    held,       \* the images the program has got
    consumed,   \* the streams that were read to their end
    steps,
    lent,       \* the config files that mutate.Config has changed in place
    rebased     \* [orig, old, new, is] of the last call, if that was a Rebase that succeeded

vars == <<heap, held, consumed, steps, lent, rebased>>

(***************************************************************************)
(* The heap.                                                               *)
(***************************************************************************)

\* An image: its base, what is added, the config file it was given or 0; and,
\* computed, its config file and its manifest.
Made(base, adds, given, media) ==
    [base |-> base, adds |-> adds, given |-> given, asks |-> media,
     computed |-> FALSE, cell |-> 0, manifest |-> Manifest(None, <<>>, None)]

\* An image that was read, pulled or generated.
Plain(n, x) ==
    [base |-> 0, adds |-> <<>>, given |-> 0, asks |-> None, computed |-> TRUE, cell |-> n,
     manifest |-> Manifest(x.config, x.layers, x.media)]

\* empty.Image is the first.
Scratch == 1

Images(h) == 1..Len(h.img)
IsPlain(h, i) == h.img[i].base = 0
ConfigIn(h, i) == h.cell[h.img[i].cell]

Alloc(h, image) == [h EXCEPT !.img = Append(@, image)]
NewConfig(h, config) == [h EXCEPT !.cell = Append(@, config)]
Newest(h) == Len(h.img)

ImagesInit ==
    /\ heap = [img |-> [n \in 1..Len(Read) |-> Plain(n, Read[n])],
               cell |-> [n \in 1..Len(Read) |-> Read[n].config]]
    /\ held = 1..Len(Read) /\ consumed = {} /\ steps = 0 /\ lent = {} /\ rebased = <<>>

\* The layers of addenda, without those that only have a history.
LayersIn(adds) == SelectSeq([n \in 1..Len(adds) |-> adds[n].layer], LAMBDA x : x # None)
HistoryIn(adds) == [n \in 1..Len(adds) |-> adds[n].history]

(***************************************************************************)
(* image.compute.                                                          *)
(***************************************************************************)

\* A stream has no digest until it was read.
Known(h, i, done) == ToSet(LayersIn(h.img[i].adds)) \cap Streams \subseteq done

MediaOf(asks, base) ==
    IF asks = None THEN base ELSE IF asks = "oci" THEN "" ELSE asks

\* Mutant: the manifest keeps the digest of the base's config.
DigestOfBase(config, base) == base.config

\* The digest of the config in a manifest copied from the base's.
ConfigDigest(config, base) == config

\* One image whose base is computed: a copy of the base's config, or the one it
\* was given, and a copy of the base's manifest.
ComputeOne(h, i) ==
    LET image == h.img[i]
        base == h.img[image.base]
        start == IF image.given # 0 THEN h.cell[image.given] ELSE ConfigIn(h, image.base)
        config == [start EXCEPT !.diffids = @ \o DiffIDsOf(LayersIn(image.adds)),
                                !.history = @ \o HistoryIn(image.adds)]
        cell == IF image.given # 0 THEN image.given ELSE Len(h.cell) + 1
    IN  [img |-> [h.img EXCEPT ![i].computed = TRUE, ![i].cell = cell,
             ![i].manifest = Manifest(ConfigDigest(config, base.manifest),
                                      base.manifest.layers \o LayersIn(image.adds),
                                      MediaOf(image.asks, base.manifest.media))],
         cell |-> IF image.given # 0 THEN [h.cell EXCEPT ![cell] = config]
                  ELSE Append(h.cell, config)]

\* compute asks the base first; where one fails those above it fail as well.
Compute(h, i, done) ==
    LET upto[j \in Images(h)] ==
            IF h.img[j].computed THEN h
            ELSE LET g == upto[h.img[j].base]
                 IN  IF g.img[h.img[j].base].computed /\ Known(g, j, done)
                     THEN ComputeOne(g, j) ELSE g
    IN  upto[i]

(***************************************************************************)
(* Getters of a computed image.                                            *)
(***************************************************************************)

\* LayerByDiffID: of the layers added, from the top, else of the image's base.
LayerByDiffID(h, i, diffid) ==
    LET has(adds) == SelectSeq(LayersIn(adds), LAMBDA x : DiffOf[x] = diffid)
        find[j \in 1..Len(h.img)] ==
            IF IsPlain(h, j)
              THEN DiffIDToBlob(h.img[j].manifest, ConfigIn(h, j), diffid)
            ELSE IF has(h.img[j].adds) # <<>> THEN Last(has(h.img[j].adds))
            ELSE find[h.img[j].base]
    IN  find[i]

LayersOf(h, i) ==
    IF IsPlain(h, i) THEN CompressedLayers(h.img[i].manifest)
    ELSE UncompressedLayers(ConfigIn(h, i),
             [diffid \in ToSet(ConfigIn(h, i).diffids) |-> LayerByDiffID(h, i, diffid)])

View(h, i) == [config |-> ConfigIn(h, i), manifest |-> h.img[i].manifest,
               layers |-> LayersOf(h, i)]

\* What the getters would say of i, whoever asks first.
Asked(h, i, done) == View(Compute(h, i, done), i)
Computable(h, i, done) == Compute(h, i, done).img[i].computed

(***************************************************************************)
(* The functions of the package: [h, i] is a heap and the image that is    *)
(* returned; 0 is an error.                                                *)
(***************************************************************************)

Returns(h, i) == [h |-> h, i |-> i]
Fails(h) == Returns(h, 0)

\* Append: nothing to add gives the base itself; a layer may be left out only of
\* an entry that says so.
AppendTo(h, base, adds) ==
    IF adds = <<>> THEN Returns(h, base)
    ELSE IF \E n \in 1..Len(adds) : adds[n].layer = None /\ ~adds[n].history.empty THEN Fails(h)
    ELSE LET g == Alloc(h, Made(base, adds, 0, None)) IN Returns(g, Newest(g))

\* AppendLayers: a layer with a history that says nothing.
NoHistory == [by |-> "", empty |-> FALSE]
AppendLayers(h, base, layers) ==
    AppendTo(h, base, [n \in 1..Len(layers) |-> [layer |-> layers[n], history |-> NoHistory]])

\* ConfigFile: an image over a computed base with a config file of its own.
WithConfigFile(h, base, cell) ==
    LET g == Alloc(h, Made(base, <<>>, cell, None)) IN Returns(g, Newest(g))

\* Mutant: CreatedAt without the copy.
CreatedInPlace(h, i, date) ==
    WithConfigFile([h EXCEPT !.cell[h.img[i].cell].created = date], i, h.img[i].cell)

\* CreatedAt copies the config file.
CreatedAt(h, i, date) ==
    LET g == NewConfig(h, [ConfigIn(h, i) EXCEPT !.created = date])
    IN  WithConfigFile(g, i, Len(g.cell))

\* Config does not: it changes the one ConfigFile gives, which only an image that
\* was read gives away for good.
Config(h, i, conf) ==
    IF IsPlain(h, i)
      THEN LET g == NewConfig(h, [ConfigIn(h, i) EXCEPT !.conf = conf])
           IN  WithConfigFile(g, i, Len(g.cell))
    ELSE WithConfigFile([h EXCEPT !.cell[h.img[i].cell].conf = conf], i, h.img[i].cell)

MediaType(h, i, media) == LET g == Alloc(h, Made(i, <<>>, 0, media)) IN Returns(g, Newest(g))

\* Time: layers made anew, under empty.Image and no history, and a config file with
\* the parts of the old one that are copied.
Time(h, i, date, done) ==
    LET layers == LayersOf(h, i)
        new == AppendLayers(h, Scratch, [n \in 1..Len(layers) |-> Stripped[layers[n]]])
        g == Compute(new.h, new.i, done)
        f == NewConfig(g, [ConfigIn(g, new.i) EXCEPT !.conf = ConfigIn(h, i).conf,
                                                    !.os = ConfigIn(h, i).os, !.created = date])
    IN  WithConfigFile(f, new.i, Len(f.cell))

Canonical(h, i, done) ==
    LET t == Time(h, i, "", done)
        g == Compute(t.h, t.i, done)
        f == NewConfig(g, [ConfigIn(g, t.i) EXCEPT !.conf.host = ""])
    IN  WithConfigFile(f, t.i, Len(f.cell))

(***************************************************************************)
(* Rebase.                                                                 *)
(***************************************************************************)

\* Mutant: the first entry after the old base's is left out.
StartAfter(n, startHistory) == n > startHistory + 1

\* Whether a history entry is above the old base's.
Above(n, startHistory) == n > startHistory

\* createAddendums: the entries from startHistory on, or from the layer startLayer
\* on, each with its layer; then, of the layers without an entry, those from
\* startLayer on, for each of which the first without an entry is taken.
CreateAddendums(startHistory, startLayer, history, layers) ==
    LET upto(n) == Len(SelectSeq(SubSeq(history, 1, n), LAMBDA entry : ~entry.empty))
        entry(n) == [layer |-> IF history[n].empty THEN None ELSE layers[upto(n)],
                     history |-> history[n]]
        told == upto(Len(history))
        kept == SelectSeq([n \in 1..Len(history) |-> n],
                    LAMBDA n : Above(n, startHistory) \/ upto(n) >= startLayer)
        rest == Cardinality({n \in told..(Len(layers) - 1) : n >= startLayer})
    IN  [n \in 1..Len(kept) |-> entry(kept[n])]
        \o [n \in 1..rest |-> [layer |-> layers[told + 1], history |-> NoHistory]]

IsBasedOn(h, orig, old) == IsPrefix(LayersOf(h, old), LayersOf(h, orig))

\* orig's config with the os of the new base; its layers; the rest of orig's.
Rebase(h, orig, old, new) ==
    LET mine == ConfigIn(h, orig)
        theirs == ConfigIn(h, new)
        g == NewConfig(h, [ConfigIn(h, Scratch) EXCEPT !.conf = mine.conf, !.os = theirs.os])
        empty == WithConfigFile(g, Scratch, Len(g.cell))
        based == AppendTo(empty.h, empty.i,
                     CreateAddendums(0, 0, theirs.history, LayersOf(h, new)))
    IN  AppendTo(based.h, based.i,
            CreateAddendums(Len(ConfigIn(h, old).history), Len(LayersOf(h, old)) + 1,
                            mine.history, LayersOf(h, orig)))

(***************************************************************************)
(* What a program does.                                                    *)
(***************************************************************************)

\* A call that asks for images first, one after the other; what was computed stays,
\* also when a later one cannot be.
Called(is) == FoldLeft(LAMBDA g, i : Compute(g, i, consumed), heap, is)

Calls(is, made(_)) ==
    /\ steps < MaxSteps /\ steps' = steps + 1
    /\ LET g == Called(is)
           r == IF \A n \in 1..Len(is) : g.img[is[n]].computed THEN made(g) ELSE Fails(g)
       IN  heap' = r.h /\ held' = held \cup ({r.i} \ {0})
    /\ UNCHANGED consumed

CallAppend(i, adds) ==
    Calls(<<>>, LAMBDA g : AppendTo(g, i, adds)) /\ UNCHANGED lent /\ rebased' = <<>>

CallMediaType(i, media) ==
    Calls(<<>>, LAMBDA g : MediaType(g, i, media)) /\ UNCHANGED lent /\ rebased' = <<>>

CallCreatedAt(i, date) ==
    Calls(<<i>>, LAMBDA g : CreatedAt(g, i, date)) /\ UNCHANGED lent /\ rebased' = <<>>

CallConfig(i, conf) ==
    /\ Calls(<<i>>, LAMBDA g : Config(g, i, conf))
    /\ lent' = IF IsPlain(heap, i) \/ ~heap'.img[i].computed THEN lent
               ELSE lent \cup {heap'.img[i].cell}
    /\ rebased' = <<>>

CallTime(i, date) ==
    Calls(<<i>>, LAMBDA g : Time(g, i, date, consumed)) /\ UNCHANGED lent /\ rebased' = <<>>

CallCanonical(i) ==
    Calls(<<i>>, LAMBDA g : Canonical(g, i, consumed)) /\ UNCHANGED lent /\ rebased' = <<>>

\* Rebase: orig must begin with the layers of the old base.
CallRebase(orig, old, new) ==
    LET g == Called(<<orig, old>>)
        based == g.img[orig].computed /\ g.img[old].computed /\ IsBasedOn(g, orig, old)
    IN  /\ steps < MaxSteps
        /\ IF based THEN Calls(<<orig, old, new>>, LAMBDA f : Rebase(f, orig, old, new))
           ELSE Calls(<<orig, old>>, Fails)
        /\ rebased' = IF based /\ heap'.img[new].computed
                        THEN <<[orig |-> orig, old |-> old, new |-> new, is |-> Newest(heap')]>>
                      ELSE <<>>
        /\ UNCHANGED lent

\* Any getter of an image.
Look(i) ==
    /\ ~heap.img[i].computed
    /\ heap' = Compute(heap, i, consumed)
    /\ UNCHANGED <<held, consumed, steps, lent, rebased>>

\* A stream that some image holds is read to its end, as remote.Write does.
Consume(stream) ==
    /\ stream \in Streams \ consumed
    /\ \E i \in Images(heap) : stream \in ToSet(LayersIn(heap.img[i].adds))
    /\ consumed' = consumed \cup {stream}
    /\ UNCHANGED <<heap, held, steps, lent, rebased>>

Next ==
    \/ \E i \in held :
          \/ \E adds \in Addenda : CallAppend(i, adds)
          \/ \E media \in MediaTypes : CallMediaType(i, media)
          \/ \E date \in Dates : CallCreatedAt(i, date)
          \/ \E conf \in Confs : CallConfig(i, conf)
          \/ \E date \in Dates : CallTime(i, date)
          \/ CallCanonical(i)
          \/ Look(i)
    \/ \E orig, old, new \in held : CallRebase(orig, old, new)
    \/ \E stream \in Streams : Consume(stream)

Spec == ImagesInit /\ [][Next]_vars

(***************************************************************************)
(* Properties.                                                             *)
(***************************************************************************)

\* The config files an image is made from.
Cells(h, i) ==
    LET own(j) == {h.img[j].cell, h.img[j].given} \ {0}
        all[j \in Images(h)] == own(j) \cup IF IsPlain(h, j) THEN {} ELSE all[h.img[j].base]
    IN  all[i]

\* Two blobs with one diff ID, which an image made here cannot tell apart.
Twins(view) == \E x, y \in ToSet(view.manifest.layers) : x # y /\ DiffOf[x] = DiffOf[y]

\* Every image that can be computed gives the layers its manifest lists, which are
\* those its config lists, and its manifest names that config: an image that is
\* pushed can be pulled.  Except one whose config mutate.Config has changed after
\* it was computed, and one with two blobs of one diff ID (mutate/image.go:50-182,
\* validate/image.go:103-200).
ImagesValid ==
    \A i \in held : Computable(heap, i, consumed) =>
        LET view == Asked(heap, i, consumed)
        IN  (heap.img[i].computed => heap.img[i].cell \notin lent) /\ ~Twins(view) => Valid(view)

\* What is made of an image, and when it is first asked for anything, never changes
\* its digest, before or after it is computed; except by mutate.Config, for what
\* is made from a config file it changed (mutate/README.md:5-8: images are
\* "essentially immutable").
DigestIsStable ==
    [][\A i \in held :
           Computable(heap, i, Streams) /\ Cells(heap', i) \cap lent' = {} =>
               Asked(heap, i, Streams).manifest = Asked(heap', i, Streams).manifest]_vars

Rest(seq, from) == SubSeq(seq, Len(from) + 1, Len(seq))

\* Rebase puts what orig has above the old base, layers and history, on top of all
\* of the new base, with orig's config; when the histories tell of all layers and
\* orig's begins with that of the old base (rebase.go:68-72, 114-143).
RebaseKeepsOwn ==
    \A n \in 1..Len(rebased) :
        LET view(i) == Asked(heap, i, Streams)
            of == view(rebased[n].orig)
            old == view(rebased[n].old)
            new == view(rebased[n].new)
            is == view(rebased[n].is)
        IN  /\ \A x \in {of, old, new} : WellFormed(x.config) /\ ~Twins(x)
            /\ IsPrefix(old.config.history, of.config.history)
            => /\ is.manifest.layers = new.layers \o Rest(of.layers, old.layers)
               /\ is.config.history = new.config.history \o Rest(of.config.history, old.config.history)
               /\ is.config.conf = of.config.conf

\* Also without a history (rebase.go:136: "In the event history was malformed or
\* non-existent, append the remaining layers.").
RebaseAppendsTheRest ==
    \A n \in 1..Len(rebased) :
        LET layers(i) == Asked(heap, i, Streams).manifest.layers
        IN  layers(rebased[n].is) = layers(rebased[n].new)
                \o Rest(layers(rebased[n].orig), layers(rebased[n].old))
=============================================================================
