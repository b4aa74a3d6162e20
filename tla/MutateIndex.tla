----------------------------- MODULE MutateIndex -----------------------------
(***************************************************************************)
(* mutate.AppendManifests: indexes made out of indexes.  Like an image, a  *)
(* new index remembers its base and what is added, is computed when its    *)
(* manifest is asked for, and then keeps the images it added by their      *)
(* digests.  Only images are added, and only annotations, platforms and    *)
(* URLs of a descriptor overridden, which are left out.                    *)
(***************************************************************************)
EXTENDS Mutate

CONSTANTS
    Listed,         \* the images in the index that is read, after empty.Index
    MaxIndexes      \* bound: indexes that are made

ASSUME MutateIndexAssumption == ToSet(Listed) \subseteq 1..Len(Read) /\ MaxIndexes \in Nat

VARIABLE indexes

\* [found] are the images the index gives by their digests: its imageMap, or what
\* is behind an index that was read; [list] is its manifest.
IndexOver(base, adds) ==
    [base |-> base, adds |-> adds, computed |-> FALSE, found |-> <<>>, list |-> <<>>]

Digests(h, is) == [n \in 1..Len(is) |-> h.img[is[n]].manifest]

\* empty.Index and an index that was read.
IndexesInit ==
    indexes = <<[IndexOver(0, <<>>) EXCEPT !.computed = TRUE],
                [IndexOver(0, <<>>) EXCEPT !.computed = TRUE, !.found = Listed,
                                           !.list = Digests(heap, Listed)]>>

\* index.compute: the base, then the descriptor of each addendum, which computes it;
\* the first that fails ends it, and those before it can be found already.
ComputeIndex(h, xs, k, done) ==
    LET upto[j \in 1..Len(xs)] ==
        IF xs[j].computed THEN [h |-> h, xs |-> xs]
        ELSE LET b == upto[xs[j].base]
                 adds == xs[j].adds
                 ok(g, n) == \A m \in 1..n : g.img[adds[m]].computed
                 after[n \in 0..Len(adds)] ==
                     IF n = 0 THEN b.h
                     ELSE IF ok(after[n - 1], n - 1) THEN Compute(after[n - 1], adds[n], done)
                     ELSE after[n - 1]
                 g == after[Len(adds)]
                 told == SelectSeq([n \in 1..Len(adds) |-> n], LAMBDA n : ok(g, n))
                 found == [n \in 1..Len(told) |-> adds[n]]
             IN  IF ~b.xs[xs[j].base].computed THEN [b EXCEPT !.xs[j].found = <<>>]
                 ELSE [h |-> g,
                       xs |-> [b.xs EXCEPT ![j].found = found,
                           ![j].computed = Len(told) = Len(adds),
                           ![j].list = IF Len(told) < Len(adds) THEN <<>>
                                       ELSE b.xs[xs[j].base].list \o Digests(g, adds)]]
    IN  upto[k]

\* Mutant: an index asks its base for nothing.
FindOwn(h, xs, k, digest) ==
    LET own == SelectSeq(xs[k].found, LAMBDA i : h.img[i].manifest = digest)
    IN  IF own # <<>> THEN Last(own) ELSE 0

\* index.Image: the image added last with that digest, else the base's; 0 is an error.
FindImage(h, xs, k, digest) ==
    LET own(j) == SelectSeq(xs[j].found, LAMBDA i : h.img[i].manifest = digest)
        find[j \in 1..Len(xs)] == IF own(j) # <<>> THEN Last(own(j))
                                  ELSE IF xs[j].base = 0 THEN 0 ELSE find[xs[j].base]
    IN  find[k]

\* Bound: two images, the last that was made, after one made before it or read last.
Pairs == {<<i, j>> \in held \X held : Len(Read) <= i /\ i < j /\ \A m \in held : m <= j}

CallAppendManifests(k, is) ==
    /\ Len(indexes) < 2 + MaxIndexes
    /\ indexes' = Append(indexes, IndexOver(k, is))
    /\ UNCHANGED vars

\* IndexManifest, RawManifest or Digest of an index.
LookIndex(k) ==
    /\ ~indexes[k].computed
    /\ LET r == ComputeIndex(heap, indexes, k, consumed) IN heap' = r.h /\ indexes' = r.xs
    /\ UNCHANGED <<held, consumed, steps, lent, rebased>>

IndexNext ==
    \/ Next /\ UNCHANGED indexes
    \/ \E k \in 1..Len(indexes) :
          \/ LookIndex(k)
          \/ \E is \in Pairs : CallAppendManifests(k, is)

Init == ImagesInit /\ IndexesInit

IndexSpec == Init /\ [][IndexNext]_<<vars, indexes>>

\* validate.Index: each entry is found under its digest, as an image that is valid
\* (validateChildren).
ValidChildren(h, xs, k, excused) ==
    \A digest \in ToSet(xs[k].list) :
        LET i == FindImage(h, xs, k, digest)
        IN  /\ i # 0
            /\ h.img[i].manifest = digest
            /\ i \in excused \/ Valid(View(h, i))

\* Every index that can be computed lists its base's images and then its own, and
\* each is found there and is valid, whatever else was computed or made of them
\* before; and so is every image (mutate/index.go:78-137, validate/index.go:50-90).
EverythingValid ==
    /\ ImagesValid
    /\ \A k \in 1..Len(indexes) :
          LET r == ComputeIndex(heap, indexes, k, consumed)
              base == r.xs[k].base
              excused == {i \in 1..Len(heap.img) :
                            \/ heap.img[i].computed /\ heap.img[i].cell \in lent
                            \/ r.h.img[i].computed /\ Twins(View(r.h, i))}
          IN  r.xs[k].computed =>
                  /\ base # 0 => r.xs[k].list = r.xs[base].list \o Digests(r.h, r.xs[k].adds)
                  /\ ValidChildren(r.h, r.xs, k, excused)
=============================================================================
