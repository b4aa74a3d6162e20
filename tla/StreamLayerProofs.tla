------------------------- MODULE StreamLayerProofs -------------------------
(***************************************************************************)
(* What stream.Layer guarantees for a blob of any length, any number of    *)
(* attempts and observers, and any number of failures of the blob.         *)
(***************************************************************************)
EXTENDS StreamLayer, SequenceTheorems, TLAPS

(***************************************************************************)
(* The inductive invariant.                                                *)
(***************************************************************************)

TypeOK ==
    /\ position \in 0 .. Chunks
    /\ failures \in Nat
    /\ digest \in Seq(Nat) /\ diffID \in Seq(Nat)
    /\ consumed \in BOOLEAN
    /\ mu \in {Nobody, "producer", "consumer"}
    /\ producer \in {"none", "copy", "write", "lock", "close", "flush", "ended"}
    /\ consumer \in {"none", "read", "lock", "close", "flush", "closed", "refused"}
    /\ h \in Seq(Nat) /\ zh \in Seq(Nat) /\ got \in Seq(Nat)
    /\ zw \in [buffer : Seq(Nat), closed : BOOLEAN]
    /\ pipe \in [write : Seq(Nat), end : {"open", "eof", "error"}]

\* The consumer may still see the end of its stream.
Live == consumer \in {"read", "lock", "close"}

\* Close holds the mutex from its first line to its last, also while the
\* flush waits for a reader (layer.go:155-192).
Locks ==
    /\ mu = "producer" <=> producer \in {"close", "flush"}
    /\ mu = "consumer" <=> consumer \in {"close", "flush"}

\* Who can be where.  A consumer is through with Close only after the
\* producer ended; as long as it is live, only the producer has closed the
\* gzip writer, after all of the blob, and only a producer waits in a write.
Turns ==
    /\ producer = "none" <=> consumer = "none"
    /\ consumer \in {"closed", "refused"} => producer = "ended"
    /\ pipe.end # "open" <=> producer = "ended"
    /\ producer \in {"lock", "close", "flush"} => position = Chunks
    /\ producer = "flush" => zw.closed
    /\ Live /\ zw.closed =>
           producer \in {"flush", "close", "ended"} /\ position = Chunks /\ zw.buffer = <<>>
    /\ Live /\ pipe.write # <<>> => producer \in {"write", "flush"}
    /\ consumer = "flush" => pipe.end # "eof"
    /\ consumer = "refused" => digest # Unknown

Prefix(z, g) == Len(z) <= Len(g) /\ \A i \in 1 .. Len(z) : z[i] = g[i]

\* Nothing is lost between the two hashers: what the consumer got, the write
\* in progress and what gzip still buffers are all of what was read.
Flow ==
    Live =>
        /\ got \o (pipe.write \o zw.buffer) = IF zw.closed THEN h \o <<Trailer>> ELSE h
        /\ Prefix(zh, got)
        /\ pipe.write = <<>> => zh = got

\* What the layer says of itself, once it does.
Answers ==
    /\ consumed <=> digest # Unknown
    /\ digest # Unknown =>
           /\ producer = "ended"
           /\ digest = zh /\ diffID = h /\ zh = got
           /\ digest = diffID \o <<Trailer>>
           /\ Live => zw.closed
           /\ consumer # "flush"
           /\ failures = 0 => digest = Compression
    /\ pipe.end = "eof" => digest # Unknown

\* Without a failure of the blob there is one attempt, and it hashes the blob.
Failures ==
    /\ consumer = "none" => h = <<>> /\ position = 0
    /\ failures = 0 =>
           /\ pipe.end # "error"
           /\ Len(h) = position /\ \A i \in 1 .. position : h[i] = i
           /\ consumer = "closed" => consumed

IInv == TypeOK /\ Locks /\ Turns /\ Flow /\ Answers /\ Failures

(***************************************************************************)
(* Facts about the sequences of the model.                                 *)
(***************************************************************************)

\* The gzip hasher catches up with what the consumer was given.
LEMMA HashCatchesUp ==
    ASSUME NEW z \in Seq(Nat), NEW g \in Seq(Nat), Prefix(z, g)
    PROVE  z \o SubSeq(g, Len(z) + 1, Len(g)) = g
<1> DEFINE rest == SubSeq(g, Len(z) + 1, Len(g))
<1>1. Len(z) \in Nat /\ Len(g) \in Nat /\ Len(z) <= Len(g)
  BY LenProperties DEF Prefix
<1>2. /\ rest \in Seq(Nat)
      /\ Len(rest) = Len(g) - Len(z)
      /\ \A i \in 1 .. Len(rest) : rest[i] = g[Len(z) + i]
  <2>1. \A i \in Len(z) + 1 .. Len(g) : g[i] \in Nat
    BY <1>1, ElementOfSeq
  <2> QED BY <2>1, <1>1, SubSeqProperties
<1> HIDE DEF rest
<1>3. z \o rest \in Seq(Nat) /\ Len(z \o rest) = Len(g)
  BY <1>1, <1>2, ConcatProperties
<1>4. \A i \in 1 .. Len(g) : (z \o rest)[i] = g[i]
  <2> TAKE i \in 1 .. Len(g)
  <2>1. (z \o rest)[i] = IF i <= Len(z) THEN z[i] ELSE rest[i - Len(z)]
    BY <1>1, <1>2, ConcatProperties
  <2>2. CASE i <= Len(z)
    BY <2>1, <2>2, <1>1 DEF Prefix
  <2>3. CASE ~(i <= Len(z))
    <3>1. i - Len(z) \in 1 .. Len(rest) /\ Len(z) + (i - Len(z)) = i
      BY <2>3, <1>1, <1>2
    <3> QED BY <2>1, <2>3, <3>1, <1>2
  <2> QED BY <2>2, <2>3
<1>5. z \o rest = g
  BY <1>3, <1>4, SeqEqual
<1> QED BY <1>5 DEF rest

\* Whatever comes after, a prefix stays one.
LEMMA PrefixOfMore ==
    ASSUME NEW z \in Seq(Nat), NEW g \in Seq(Nat), NEW more \in Seq(Nat), Prefix(z, g)
    PROVE  Prefix(z, g \o more)
<1>1. Len(z) \in Nat /\ Len(g) \in Nat /\ Len(more) \in Nat
  BY LenProperties
<1>2. Len(g \o more) = Len(g) + Len(more)
      /\ \A i \in 1 .. Len(g) + Len(more) :
            (g \o more)[i] = IF i <= Len(g) THEN g[i] ELSE more[i - Len(g)]
  BY ConcatProperties
<1> QED BY <1>1, <1>2 DEF Prefix

\* What SMT is to know of sequences of bytes, for all of them at once.
LEMMA BytesFacts ==
    /\ <<>> \in Seq(Nat) /\ Len(<<>>) = 0
    /\ \A s \in Seq(Nat) : Len(s) \in Nat /\ (s # <<>> => Len(s) \in Nat \ {0})
    /\ \A s \in Seq(Nat) : s \o <<>> = s /\ <<>> \o s = s
    /\ \A s, t \in Seq(Nat) : s \o t \in Seq(Nat)
    /\ \A s, t, u \in Seq(Nat) : (s \o t) \o u = s \o (t \o u)
<1>1. \A s \in Seq(Nat) : Len(s) \in Nat
  BY LenProperties
<1>2. \A s, t, u \in Seq(Nat) : (s \o t) \o u = s \o (t \o u)
  <2> TAKE s, t, u \in Seq(Nat)
  <2> QED BY ConcatAssociative
<1>3. \A s, t \in Seq(Nat) : s \o t \in Seq(Nat)
  BY ConcatProperties, Zenon
<1>4. \A s \in Seq(Nat) : s \o <<>> = s /\ <<>> \o s = s
  BY ConcatEmptySeq, Zenon
<1>5. <<>> \in Seq(Nat) /\ Len(<<>>) = 0 /\ \A s \in Seq(Nat) : s # <<>> => Len(s) \in Nat \ {0}
  BY EmptySeq, Zenon
<1> QED BY <1>1, <1>2, <1>3, <1>4, <1>5

\* The trailer ends a stream, so that no stream of gzip is empty.
LEMMA TrailerFacts ==
    ASSUME NEW s \in Seq(Nat)
    PROVE  s \o <<Trailer>> \in Seq(Nat) /\ s \o <<Trailer>> # <<>>
<1>1. Append(s, Trailer) \in Seq(Nat) /\ Append(s, Trailer) # <<>>
  BY AppendProperties DEF Trailer
<1>2. Append(s, Trailer) = s \o <<Trailer>>
  BY AppendIsConcat DEF Trailer
<1> QED BY <1>1, <1>2

\* Concatenation is associative.
LEMMA Associative == \A s, t, u \in Seq(Nat) : (s \o t) \o u = s \o (t \o u)
  BY BytesFacts

\* A read takes the first n bytes of a write and leaves the others in it.
LEMMA ReadSplitsWrite ==
    ASSUME NEW w \in Seq(Nat), w # <<>>, NEW n \in 1 .. Len(w)
    PROVE  /\ SubSeq(w, 1, n) \in Seq(Nat)
           /\ SubSeq(w, n + 1, Len(w)) \in Seq(Nat)
           /\ SubSeq(w, n + 1, Len(w)) = <<>> <=> n = Len(w)
           /\ SubSeq(w, 1, n) \o SubSeq(w, n + 1, Len(w)) = w
<1> DEFINE taken == SubSeq(w, 1, n)
           rest == SubSeq(w, n + 1, Len(w))
<1>1. Len(w) \in Nat \ {0} /\ n \in Nat /\ n <= Len(w)
  BY EmptySeq
<1>2. \A i \in 1 .. Len(w) : w[i] \in Nat
  BY ElementOfSeq
<1>3. taken \in Seq(Nat)
  BY <1>1, <1>2, SubSeqProperties
<1>4. rest \in Seq(Nat) /\ Len(rest) = Len(w) - n
  BY <1>1, <1>2, SubSeqProperties
<1>5. rest = <<>> <=> n = Len(w)
  <2>1. n = Len(w) => Len(rest) = 0
    BY <1>1, <1>4
  <2>2. rest = <<>> => Len(rest) = 0
    BY BytesFacts
  <2>3. Len(rest) = 0 => rest = <<>>
    BY <1>4, BytesFacts
  <2> HIDE DEF rest
  <2> QED BY <2>1, <2>2, <2>3, <1>1, <1>4
<1>6. taken \o rest = w
  <2>1. taken \o rest = SubSeq(w, 1, Len(w))
    BY <1>1, ConcatAdjacentSubSeq
  <2> QED BY <2>1, SubSeqFull
<1> QED BY <1>3, <1>4, <1>5, <1>6

(***************************************************************************)
(* The invariant is inductive.                                             *)
(***************************************************************************)

\* The fields of the pipe and the gzip writer, and what assigning one does.
LEMMA Fields ==
    ASSUME TypeOK
    PROVE  /\ pipe.write \in Seq(Nat) /\ pipe.end \in {"open", "eof", "error"}
           /\ zw.buffer \in Seq(Nat) /\ zw.closed \in BOOLEAN
           /\ \A x : [pipe EXCEPT !.end = x] = [write |-> pipe.write, end |-> x]
           /\ \A x : [pipe EXCEPT !.write = x] = [write |-> x, end |-> pipe.end]
           /\ \A x : Offer(x) = [write |-> IF pipe.write = <<>> THEN x ELSE pipe.write,
                                 end |-> pipe.end]
           /\ \A x : [zw EXCEPT !.buffer = x] = [buffer |-> x, closed |-> zw.closed]
<1>1. zw \in [buffer : Seq(Nat), closed : BOOLEAN]
  BY DEF TypeOK
<1>2. pipe \in [write : Seq(Nat), end : {"open", "eof", "error"}]
  BY DEF TypeOK
<1>3. \A x : [zw EXCEPT !.buffer = x] = [buffer |-> x, closed |-> zw.closed]
  BY <1>1
<1>4. \A x : [pipe EXCEPT !.end = x] = [write |-> pipe.write, end |-> x]
  BY <1>2
<1>5. \A x : [pipe EXCEPT !.write = x] = [write |-> x, end |-> pipe.end]
  BY <1>2
<1>6. \A x : Offer(x) = [write |-> IF pipe.write = <<>> THEN x ELSE pipe.write,
                        end |-> pipe.end]
  BY <1>2 DEF Offer
<1> QED BY <1>1, <1>2, <1>3, <1>4, <1>5, <1>6

\* When Close is done with a stream that was flushed, the two hashers hold
\* the blob and its whole compression.
LEMMA WholeStream ==
    ASSUME IInv, Live, zw.closed, producer \in {"close", "ended"}
    PROVE  /\ zh = got /\ zh = h \o <<Trailer>> /\ zh # Unknown
           /\ failures = 0 => zh = Compression
<1> USE DEF IInv
<1>1. pipe.write = <<>> /\ zw.buffer = <<>> /\ position = Chunks
  BY DEF Turns
<1>2. h \in Seq(Nat) /\ got \in Seq(Nat)
  BY DEF TypeOK
<1>3. zh = got /\ got \o (<<>> \o <<>>) = h \o <<Trailer>>
  BY <1>1 DEF Flow
<1>4. got = h \o <<Trailer>>
  BY <1>2, <1>3, BytesFacts
<1>5. failures = 0 => h = Contents
  <2> SUFFICES ASSUME failures = 0 PROVE h = Contents
    OBVIOUS
  <2>1. h \in [1 .. Len(h) -> Nat] /\ Len(h) = Chunks /\ \A i \in 1 .. Chunks : h[i] = i
    BY <1>1, <1>2, LenProperties DEF Failures
  <2> QED BY <2>1 DEF Contents
<1> QED BY <1>2, <1>3, <1>4, <1>5, TrailerFacts DEF Compression, Unknown

LEMMA InitIInv == Init => IInv
<1> SUFFICES ASSUME Init PROVE IInv
  OBVIOUS
<1>1. TypeOK
  <2>1. zw \in [buffer : Seq(Nat), closed : BOOLEAN]
    BY BytesFacts, Zenon DEF Init
  <2>2. pipe \in [write : Seq(Nat), end : {"open", "eof", "error"}]
    BY BytesFacts DEF Init
  <2>3. <<>> \in Seq(Nat)
    BY BytesFacts
  <2>4. position \in 0 .. Chunks /\ failures \in Nat
    BY StreamAssumption DEF Init
  <2>5. consumed \in BOOLEAN
    BY DEF Init
  <2> QED BY <2>1, <2>2, <2>3, <2>4, <2>5, Zenon DEF Init, TypeOK, Unknown, Nobody
<1>2. Locks /\ Turns /\ Flow /\ Answers
  BY DEF Init, Locks, Turns, Flow, Answers, Live, Unknown, Nobody
<1>3. Failures
  BY BytesFacts DEF Init, Failures
<1> QED BY <1>1, <1>2, <1>3 DEF IInv

\* Compressed starts over, unless the layer was consumed.
LEMMA CompressedKeepsIInv == IInv /\ Compressed => IInv'
<1> SUFFICES ASSUME IInv, Compressed PROVE IInv'
  OBVIOUS
<1>1. TypeOK /\ Locks /\ Turns /\ Flow /\ Answers /\ Failures
  BY DEF IInv
<1>2. UNCHANGED <<position, failures, digest, diffID, consumed, mu>>
      /\ consumer \in {"none", "closed"}
  BY DEF Compressed, layerVars
<1>3. CASE consumed
  <2>1. consumer' = "refused" /\ UNCHANGED <<producer, h, zh, zw, pipe, got>>
    BY <1>3 DEF Compressed, readerVars
  <2>2. digest # Unknown /\ producer = "ended"
    BY <1>1, <1>3 DEF Answers
  <2>3. TypeOK'
    BY <1>1, <1>2, <2>1 DEF TypeOK
  <2>4. Locks' /\ Turns' /\ Flow' /\ Answers'
    BY <1>1, <1>2, <2>1, <2>2 DEF Locks, Turns, Flow, Answers, Live
  <2>5. Failures'
    BY <1>1, <1>2, <2>1 DEF Failures
  <2> QED BY <2>3, <2>4, <2>5 DEF IInv
<1>4. CASE ~consumed
  <2>1. /\ consumer' = "read" /\ producer' = "copy"
        /\ h' = <<>> /\ zh' = <<>> /\ got' = <<>>
        /\ zw' = [buffer |-> <<>>, closed |-> FALSE]
        /\ pipe' = [write |-> <<>>, end |-> "open"]
    BY <1>4 DEF Compressed
  <2>2. digest = Unknown
    BY <1>1, <1>4 DEF Answers
  <2>3. TypeOK'
    <3>1. zw' \in [buffer : Seq(Nat), closed : BOOLEAN]
      BY <2>1, BytesFacts, Zenon
    <3>2. pipe' \in [write : Seq(Nat), end : {"open", "eof", "error"}]
      BY <2>1, BytesFacts
    <3>3. <<>> \in Seq(Nat)
      BY BytesFacts
    <3> QED BY <3>1, <3>2, <3>3, <2>1, <1>1, <1>2, Zenon DEF TypeOK
  <2>4. mu = Nobody
    BY <1>1, <1>2 DEF Locks, Turns, TypeOK
  <2>5. Locks'
    BY <1>2, <2>1, <2>4 DEF Locks, Nobody
  <2>6. pipe'.write = <<>> /\ pipe'.end = "open" /\ zw'.buffer = <<>> /\ ~zw'.closed
    BY <2>1
  <2>7. Turns'
    BY <2>1, <2>6 DEF Turns
  <2>8. Flow'
    <3>1. <<>> \o (<<>> \o <<>>) = <<>>
      BY BytesFacts
    <3> QED BY <2>1, <2>6, <3>1, BytesFacts DEF Flow, Prefix
  <2>9. Answers'
    BY <1>1, <1>2, <2>2, <2>6 DEF Answers
  <2>10. Failures'
    <3>1. failures = 0 => consumer = "none"
      BY <1>1, <1>2, <1>4 DEF Failures
    <3>2. failures = 0 => position = 0
      BY <1>1, <3>1 DEF Failures
    <3> QED BY <1>2, <2>1, <2>6, <3>2, BytesFacts DEF Failures
  <2> QED BY <2>3, <2>5, <2>7, <2>8, <2>9, <2>10 DEF IInv
<1> QED BY <1>3, <1>4

\* A chunk goes into the buffer of the gzip writer, or with it to the pipe.
LEMMA CopyChunkKeepsIInv == IInv /\ CopyChunk => IInv'
<1> SUFFICES ASSUME IInv, CopyChunk PROVE IInv'
  OBVIOUS
<1> DEFINE buffered == Append(zw.buffer, position + 1)
<1>1. TypeOK /\ Locks /\ Turns /\ Flow /\ Answers /\ Failures
  BY DEF IInv
<1>2. /\ UNCHANGED <<failures, digest, diffID, consumed, mu, consumer, zh, got>>
      /\ producer = "copy" /\ position < Chunks
      /\ position' = position + 1 /\ h' = Append(h, position + 1)
  BY DEF CopyChunk, layerVars
<1>3. position \in Nat /\ position + 1 \in Nat /\ position' \in 0 .. Chunks
  BY <1>1, <1>2, StreamAssumption DEF TypeOK
<1>4. /\ zw.buffer \in Seq(Nat) /\ zw.closed \in BOOLEAN
      /\ pipe.write \in Seq(Nat) /\ pipe.end = "open"
  BY <1>1, <1>2, Fields DEF Turns
<1>5. Live => ~zw.closed /\ pipe.write = <<>>
  BY <1>1, <1>2 DEF Turns
<1>6. digest = Unknown
  BY <1>1, <1>2 DEF Answers
<1>7. buffered \in Seq(Nat) /\ buffered = zw.buffer \o <<position + 1>>
      /\ <<position + 1>> \in Seq(Nat)
  <2>1. <<position + 1>> \in Seq(Nat)
    BY <1>3
  <2>2. Append(zw.buffer, position + 1) \in Seq(Nat)
    BY <1>3, <1>4, AppendProperties
  <2>3. Append(zw.buffer, position + 1) = zw.buffer \o <<position + 1>>
    BY <1>3, <1>4, AppendIsConcat
  <2> QED BY <2>1, <2>2, <2>3
<1>8. /\ h \in Seq(Nat) /\ h' \in Seq(Nat) /\ h' = h \o <<position + 1>>
      /\ Len(h') = Len(h) + 1 /\ \A i \in 1 .. Len(h) : h'[i] = h[i]
      /\ h'[Len(h) + 1] = position + 1
  <2>1. h \in Seq(Nat)
    BY <1>1 DEF TypeOK
  <2> QED BY <2>1, <1>2, <1>3, AppendProperties, AppendIsConcat
<1>9. Failures'
  <2>1. failures = 0 => Len(h) = position /\ \A i \in 1 .. position : h[i] = i
    BY <1>1 DEF Failures
  <2>2. failures = 0 => Len(h') = position' /\ \A i \in 1 .. position' : h'[i] = i
    BY <1>2, <1>3, <1>8, <2>1
  <2>3. consumer # "none"
    BY <1>1, <1>2 DEF Turns
  <2>4. pipe'.end = pipe.end
    BY <1>1, Fields DEF CopyChunk
  <2> QED BY <1>1, <1>2, <2>2, <2>3, <2>4 DEF Failures
<1> HIDE DEF buffered
<1>12. Live => /\ got \in Seq(Nat) /\ h' = got \o buffered
               /\ Prefix(zh, got) /\ (pipe.write = <<>> => zh = got)
  <2> SUFFICES ASSUME Live PROVE /\ got \in Seq(Nat) /\ h' = got \o buffered
                                 /\ Prefix(zh, got) /\ (pipe.write = <<>> => zh = got)
    OBVIOUS
  <2>1. got \in Seq(Nat)
    BY <1>1 DEF TypeOK
  <2>2. got \o (<<>> \o zw.buffer) = h
    BY <1>1, <1>5 DEF Flow
  <2>3. h = got \o zw.buffer
    BY <2>2, <1>4, BytesFacts
  <2>4. (got \o zw.buffer) \o <<position + 1>> = got \o (zw.buffer \o <<position + 1>>)
    <3>1. zw.buffer \in Seq(Nat) /\ <<position + 1>> \in Seq(Nat)
      BY <1>4, <1>7
    <3> QED BY <2>1, <3>1, Associative, Zenon
  <2> QED BY <1>1, <2>1, <2>3, <2>4, <1>7, <1>8 DEF Flow
<1>10. CASE zw' = [zw EXCEPT !.buffer = buffered] /\ UNCHANGED <<producer, pipe>>
  <2>1. zw' = [buffer |-> buffered, closed |-> zw.closed]
    BY <1>1, <1>10, Fields
  <2>2. zw' \in [buffer : Seq(Nat), closed : BOOLEAN]
    BY <1>4, <1>7, <2>1
  <2>3. TypeOK'
    BY <1>1, <1>2, <1>3, <1>8, <1>10, <2>2 DEF TypeOK
  <2>4. zw'.buffer = buffered /\ zw'.closed = zw.closed
    BY <2>1
  <2>5. Locks' /\ Turns' /\ Answers'
    BY <1>1, <1>2, <1>5, <1>6, <1>10, <2>4 DEF Locks, Turns, Answers, Live
  <2>6. Flow'
    <3>1. <<>> \o buffered = buffered
      BY <1>7, BytesFacts
    <3> QED BY <1>2, <1>5, <1>10, <1>12, <2>4, <3>1 DEF Flow, Live
  <2> QED BY <2>3, <2>5, <2>6, <1>9 DEF IInv
<1>11. CASE /\ zw' = [zw EXCEPT !.buffer = <<>>] /\ pipe' = Offer(buffered)
            /\ producer' = "write"
  <2>1. zw' = [buffer |-> <<>>, closed |-> zw.closed]
    BY <1>1, <1>11, Fields
  <2>2. pipe' = [write |-> IF pipe.write = <<>> THEN buffered ELSE pipe.write, end |-> "open"]
    BY <1>1, <1>4, <1>11, Fields
  <2>3. zw' \in [buffer : Seq(Nat), closed : BOOLEAN]
    BY <1>4, <2>1, BytesFacts
  <2>4. pipe' \in [write : Seq(Nat), end : {"open", "eof", "error"}]
    BY <1>4, <1>7, <2>2
  <2>5. TypeOK'
    BY <1>1, <1>2, <1>3, <1>8, <1>11, <2>3, <2>4 DEF TypeOK
  <2>6. /\ zw'.buffer = <<>> /\ zw'.closed = zw.closed /\ pipe'.end = "open"
        /\ Live => pipe'.write = buffered
    BY <2>1, <2>2, <1>5
  <2>7. Locks' /\ Turns' /\ Answers'
    BY <1>1, <1>2, <1>4, <1>5, <1>6, <1>11, <2>6 DEF Locks, Turns, Answers, Live
  <2>8. Flow'
    <3>1. buffered \o <<>> = buffered
      BY <1>7, BytesFacts
    <3> QED BY <1>2, <1>5, <1>11, <1>12, <2>6, <3>1 DEF Flow, Live
  <2> QED BY <2>5, <2>7, <2>8, <1>9 DEF IInv
<1> QED BY <1>10, <1>11 DEF CopyChunk, buffered

\* A read moves bytes from the write to the consumer; the last one lets the
\* gzip hasher catch up and the writer go on.
LEMMA ReadPipeKeepsIInv == IInv /\ ReadPipe => IInv'
<1> SUFFICES ASSUME IInv, ReadPipe PROVE IInv'
  OBVIOUS
<1>1. TypeOK /\ Locks /\ Turns /\ Flow /\ Answers /\ Failures
  BY DEF IInv
<1>2. /\ UNCHANGED <<position, failures, digest, diffID, consumed, mu, consumer, h, zw>>
      /\ consumer = "read" /\ pipe.write # <<>>
  BY DEF ReadPipe, layerVars
<1>3. PICK n \in 1 .. Len(pipe.write) :
          /\ got' = got \o SubSeq(pipe.write, 1, n)
          /\ pipe' = [pipe EXCEPT !.write = SubSeq(@, n + 1, Len(@))]
          /\ IF n = Len(pipe.write)
               THEN /\ zh' = zh \o SubSeq(got', Len(zh) + 1, Len(got'))
                    /\ producer' = IF producer = "write" THEN "copy" ELSE "close"
               ELSE UNCHANGED <<zh, producer>>
  BY DEF ReadPipe
<1> DEFINE taken == SubSeq(pipe.write, 1, n)
           rest == SubSeq(pipe.write, n + 1, Len(pipe.write))
<1>4. /\ h \in Seq(Nat) /\ zh \in Seq(Nat) /\ got \in Seq(Nat)
      /\ pipe.write \in Seq(Nat) /\ pipe.end \in {"open", "eof", "error"}
      /\ zw.buffer \in Seq(Nat)
  BY <1>1, Fields DEF TypeOK
<1>5. pipe' = [write |-> rest, end |-> pipe.end] /\ got' = got \o taken
  BY <1>1, <1>3, Fields
<1>6. /\ taken \in Seq(Nat) /\ rest \in Seq(Nat) /\ (rest = <<>> <=> n = Len(pipe.write))
      /\ (got \o taken) \o (rest \o zw.buffer) = got \o (pipe.write \o zw.buffer)
  <2>1. taken \in Seq(Nat) /\ rest \in Seq(Nat) /\ taken \o rest = pipe.write
        /\ (rest = <<>> <=> n = Len(pipe.write))
    BY <1>2, <1>3, <1>4, ReadSplitsWrite
  <2> HIDE DEF taken, rest
  <2>2. rest \o zw.buffer \in Seq(Nat) /\ zw.buffer \in Seq(Nat) /\ got \in Seq(Nat)
    BY <1>4, <2>1, ConcatProperties
  <2>3. (got \o taken) \o (rest \o zw.buffer) = got \o (taken \o (rest \o zw.buffer))
    BY <2>1, <2>2, Associative, Zenon
  <2>4. (taken \o rest) \o zw.buffer = taken \o (rest \o zw.buffer)
    BY <2>1, <2>2, Associative, Zenon
  <2> QED BY <2>1, <2>3, <2>4
<1> HIDE DEF taken, rest
<1>7. got' \in Seq(Nat)
  BY <1>4, <1>5, <1>6, ConcatProperties
<1>8. Prefix(zh, got')
  BY <1>1, <1>2, <1>4, <1>5, <1>6, PrefixOfMore DEF Flow, Live
<1>9. producer \in {"write", "flush"} /\ pipe.end = "open"
  BY <1>1, <1>2 DEF Turns, Live
<1>10. pipe'.write = rest /\ pipe'.end = "open"
  BY <1>5, <1>9
<1>11. zh' \in Seq(Nat) /\ Prefix(zh', got') /\ (rest = <<>> => zh' = got')
  <2>1. CASE n = Len(pipe.write)
    <3>1. zh' = got'
      BY <1>3, <1>4, <1>7, <1>8, <2>1, HashCatchesUp
    <3> QED BY <3>1, <1>7 DEF Prefix
  <2>2. CASE n # Len(pipe.write)
    BY <2>2, <1>3, <1>4, <1>6, <1>8
  <2> QED BY <2>1, <2>2
<1>12. \/ producer' = producer /\ rest # <<>>
       \/ producer = "write" /\ producer' = "copy" /\ rest = <<>>
       \/ producer = "flush" /\ producer' = "close" /\ rest = <<>>
  BY <1>3, <1>6, <1>9
<1>13. TypeOK'
  <2>1. pipe' \in [write : Seq(Nat), end : {"open", "eof", "error"}]
    BY <1>5, <1>6, <1>9
  <2> QED BY <1>1, <1>2, <1>7, <1>9, <1>11, <1>12, <2>1 DEF TypeOK
<1>14. Locks'
  BY <1>1, <1>2, <1>12 DEF Locks
<1>15. Turns'
  BY <1>1, <1>2, <1>10, <1>12 DEF Turns, Live
<1>16. Flow'
  BY <1>1, <1>2, <1>5, <1>6, <1>10, <1>11 DEF Flow, Live
<1>17. Answers'
  BY <1>1, <1>2, <1>9, <1>10 DEF Answers
<1>18. Failures'
  BY <1>1, <1>2, <1>9, <1>10 DEF Failures
<1> QED BY <1>13, <1>14, <1>15, <1>16, <1>17, <1>18 DEF IInv

\* The flush gives the pipe what gzip buffers and the trailer.  Only the
\* producer's is ever read: a consumer's flush waits for good, or fails.
LEMMA FlushKeepsIInv == IInv /\ (ProducerFlushes \/ ConsumerFlushes) => IInv'
<1> SUFFICES ASSUME IInv, ProducerFlushes \/ ConsumerFlushes PROVE IInv'
  OBVIOUS
<1> DEFINE flushed == zw.buffer \o <<Trailer>>
<1>1. TypeOK /\ Locks /\ Turns /\ Flow /\ Answers /\ Failures
  BY DEF IInv
<1>2. /\ UNCHANGED <<position, failures, digest, diffID, consumed, mu, h, zh, got>>
      /\ ~zw.closed
      /\ zw' = [buffer |-> <<>>, closed |-> TRUE] /\ pipe' = Offer(flushed)
  BY DEF ProducerFlushes, ConsumerFlushes, Flush, layerVars
<1>3. /\ h \in Seq(Nat) /\ got \in Seq(Nat)
      /\ pipe.write \in Seq(Nat) /\ pipe.end \in {"open", "eof", "error"}
      /\ zw.buffer \in Seq(Nat) /\ <<Trailer>> \in Seq(Nat)
  BY <1>1, Fields DEF TypeOK, Trailer
<1>4. flushed \in Seq(Nat)
  BY <1>3, ConcatProperties
<1>5. pipe' = [write |-> IF pipe.write = <<>> THEN flushed ELSE pipe.write, end |-> pipe.end]
  BY <1>1, <1>2, Fields
<1>6. zw'.closed /\ zw'.buffer = <<>> /\ pipe'.end = pipe.end
  BY <1>2, <1>5
<1>7. zw' \in [buffer : Seq(Nat), closed : BOOLEAN]
  BY <1>2, BytesFacts
<1>8. pipe' \in [write : Seq(Nat), end : {"open", "eof", "error"}]
  BY <1>3, <1>4, <1>5
<1>9. CASE ProducerFlushes
  <2>1. producer = "close" /\ producer' = "flush" /\ consumer' = consumer
    BY <1>9 DEF ProducerFlushes
  <2>2. Live /\ pipe.write = <<>> /\ position = Chunks /\ digest = Unknown /\ pipe.end = "open"
    BY <1>1, <2>1 DEF Locks, Turns, Answers, Live, TypeOK
  <2>3. pipe'.write = flushed
    BY <1>5, <2>2
  <2>4. TypeOK'
    BY <1>1, <1>2, <1>7, <1>8, <2>1 DEF TypeOK
  <2>5. Locks' /\ Turns' /\ Answers'
    BY <1>1, <1>2, <1>6, <2>1, <2>2 DEF Locks, Turns, Answers, Live
  <2>6. Flow'
    <3>1. zh = got /\ Prefix(zh, got) /\ got \o (<<>> \o zw.buffer) = h
      BY <1>1, <1>2, <2>2 DEF Flow
    <3>2. (got \o zw.buffer) \o <<Trailer>> = got \o flushed
      <4>1. got \in Seq(Nat) /\ zw.buffer \in Seq(Nat) /\ <<Trailer>> \in Seq(Nat)
        BY <1>3
      <4> QED BY <4>1, Associative, Zenon
    <3>3. got \o flushed = h \o <<Trailer>>
      BY <1>3, <3>1, <3>2, BytesFacts
    <3>4. flushed \o <<>> = flushed
      BY <1>4, BytesFacts
    <3> QED BY <1>2, <1>6, <2>3, <3>1, <3>3, <3>4 DEF Flow
  <2>7. Failures'
    BY <1>1, <1>2, <1>6, <2>1 DEF Failures
  <2> QED BY <2>4, <2>5, <2>6, <2>7 DEF IInv
<1>10. CASE ConsumerFlushes
  <2>1. /\ consumer = "close" /\ consumer' = "flush" /\ producer' = producer
        /\ pipe.end = "open"
    BY <1>10 DEF ConsumerFlushes
  <2>2. digest = Unknown
    BY <1>1, <2>1 DEF Answers, Turns
  <2>3. TypeOK'
    BY <1>1, <1>2, <1>7, <1>8, <2>1 DEF TypeOK
  <2>4. Locks' /\ Turns' /\ Flow' /\ Answers'
    BY <1>1, <1>2, <1>6, <2>1, <2>2 DEF Locks, Turns, Flow, Answers, Live
  <2>5. Failures'
    BY <1>1, <1>2, <1>6, <2>1 DEF Failures
  <2> QED BY <2>3, <2>4, <2>5 DEF IInv
<1> QED BY <1>9, <1>10

\* Whoever's Close comes through tells the layer the same two digests.
LEMMA CloseKeepsIInv == IInv /\ (ProducerCloses \/ ConsumerCloses) => IInv'
<1> SUFFICES ASSUME IInv, ProducerCloses \/ ConsumerCloses PROVE IInv'
  OBVIOUS
<1>1. TypeOK /\ Locks /\ Turns /\ Flow /\ Answers /\ Failures
  BY DEF IInv
<1>2. /\ UNCHANGED <<position, failures, h, zh, zw, got>>
      /\ zw.closed
      /\ digest' = zh /\ diffID' = h /\ consumed' = TRUE /\ mu' = Nobody
      /\ producer' = "ended"
  <2>1. ConsumerCloses => producer = "ended"
    BY <1>1 DEF ConsumerCloses, Locks, Turns, Live
  <2> QED BY <2>1 DEF ProducerCloses, ConsumerCloses, Publish, readerVars
<1>3. Live /\ producer \in {"close", "ended"}
  BY <1>1 DEF ProducerCloses, ConsumerCloses, Locks, Turns, Live, TypeOK
<1>4. /\ zh = got /\ zh = h \o <<Trailer>> /\ zh # Unknown
      /\ failures = 0 => zh = Compression
  BY <1>2, <1>3, WholeStream
<1>5. pipe.write = <<>> /\ position = Chunks
  BY <1>1, <1>2, <1>3 DEF Turns
<1>6. CASE ProducerCloses
  <2>1. producer = "close" /\ pipe' = [pipe EXCEPT !.end = "eof"] /\ consumer' = consumer
    BY <1>6 DEF ProducerCloses
  <2>2. pipe' = [write |-> pipe.write, end |-> "eof"] /\ pipe.write \in Seq(Nat)
    BY <1>1, <2>1, Fields
  <2>3. pipe' \in [write : Seq(Nat), end : {"open", "eof", "error"}]
    BY <2>2
  <2>4. pipe'.write = pipe.write /\ pipe'.end = "eof"
    BY <2>2
  <2>5. TypeOK'
    BY <1>1, <1>2, <2>1, <2>3 DEF TypeOK
  <2>6. consumer \in {"read", "lock"}
    BY <1>1, <1>3, <2>1 DEF Locks, Live
  <2>7. Locks' /\ Turns' /\ Flow' /\ Answers'
    BY <1>1, <1>2, <1>4, <1>5, <2>1, <2>4, <2>6 DEF Locks, Turns, Flow, Answers, Live, Nobody
  <2>8. Failures'
    BY <1>1, <1>2, <2>1, <2>4 DEF Failures
  <2> QED BY <2>5, <2>7, <2>8 DEF IInv
<1>7. CASE ConsumerCloses
  <2>1. consumer = "close" /\ consumer' = "closed" /\ UNCHANGED <<producer, pipe>>
    BY <1>7 DEF ConsumerCloses, readerVars
  <2>2. TypeOK'
    BY <1>1, <1>2, <2>1 DEF TypeOK
  <2>3. Locks' /\ Turns' /\ Flow' /\ Answers'
    BY <1>1, <1>2, <1>4, <2>1 DEF Locks, Turns, Flow, Answers, Live, Nobody
  <2>4. Failures'
    BY <1>1, <1>2, <2>1 DEF Failures
  <2> QED BY <2>2, <2>3, <2>4 DEF IInv
<1> QED BY <1>6, <1>7

LEMMA NextIInv == IInv /\ [Next]_vars => IInv'
<1> SUFFICES ASSUME IInv, [Next]_vars PROVE IInv'
  OBVIOUS
<1>1. TypeOK /\ Locks /\ Turns /\ Flow /\ Answers /\ Failures
  BY DEF IInv
<1>2. CASE Compressed
  BY <1>2, CompressedKeepsIInv
<1>3. CASE CopyChunk
  BY <1>3, CopyChunkKeepsIInv
<1>4. CASE ReadPipe
  BY <1>4, ReadPipeKeepsIInv
<1>5. CASE ProducerFlushes \/ ConsumerFlushes
  BY <1>5, FlushKeepsIInv
<1>6. CASE ProducerCloses \/ ConsumerCloses
  BY <1>6, CloseKeepsIInv
<1>7. CASE CopyEnds
  <2>1. TypeOK'
    BY <1>1, <1>7 DEF CopyEnds, TypeOK, layerVars, readerVars
  <2>2. Flow'
    BY <1>1, <1>7 DEF CopyEnds, Flow, Live, layerVars, readerVars
  <2>3. Failures'
    BY <1>1, <1>7 DEF CopyEnds, TypeOK, Failures, Live, layerVars, readerVars
  <2>4. Locks' /\ Turns' /\ Answers'
    BY <1>1, <1>7 DEF CopyEnds, Locks, Turns, Answers, Live, layerVars, readerVars
  <2> QED BY <2>1, <2>2, <2>3, <2>4 DEF IInv
<1>8. CASE CopyFails
  <2>1. /\ producer = "copy" /\ producer' = "ended" /\ failures' = failures + 1
        /\ UNCHANGED <<position, digest, diffID, consumed, mu, consumer, h, zh, zw, got>>
        /\ pipe' = [write |-> pipe.write, end |-> "error"] /\ pipe.write \in Seq(Nat)
    BY <1>1, <1>8, Fields DEF CopyFails, layerVars
  <2>2. /\ pipe'.write = pipe.write /\ pipe'.end = "error"
        /\ pipe' \in [write : Seq(Nat), end : {"open", "eof", "error"}]
    BY <2>1
  <2>3. TypeOK'
    BY <1>1, <2>1, <2>2 DEF TypeOK
  <2>4. Locks' /\ Turns' /\ Flow' /\ Answers'
    BY <1>1, <2>1, <2>2 DEF Locks, Turns, Flow, Answers, Live
  <2>5. Failures'
    BY <1>1, <2>1, <2>3 DEF Failures, TypeOK, Turns
  <2> QED BY <2>3, <2>4, <2>5 DEF IInv
<1>9. CASE ReadEnds \/ GiveUp
  <2>1. /\ consumer = "read" /\ consumer' = "lock" /\ quit' \in {quit, TRUE}
        /\ UNCHANGED <<position, failures, layerVars, mu, attempt, producer, readerVars, observer>>
    BY <1>9 DEF ReadEnds, GiveUp
  <2>2. TypeOK'
    BY <1>1, <2>1 DEF TypeOK, layerVars, readerVars
  <2>3. Flow'
    BY <1>1, <2>1 DEF Flow, Live, layerVars, readerVars
  <2>4. Failures'
    BY <1>1, <2>1 DEF Failures, Live, layerVars, readerVars
  <2>5. Locks' /\ Turns'
    BY <1>1, <2>1 DEF Locks, Turns, Live, layerVars, readerVars
  <2>6. Answers'
    BY <1>1, <2>1 DEF Answers, Live, layerVars, readerVars
  <2> QED BY <2>2, <2>3, <2>4, <2>5, <2>6 DEF IInv
<1>10. CASE ProducerLocks \/ ConsumerLocks
  <2>1. TypeOK'
    BY <1>1, <1>10 DEF ProducerLocks, ConsumerLocks, TypeOK, layerVars, readerVars
  <2>2. Flow'
    BY <1>1, <1>10 DEF ProducerLocks, ConsumerLocks, Flow, Live, layerVars, readerVars
  <2>3. Failures'
    BY <1>1, <1>10 DEF ProducerLocks, ConsumerLocks, TypeOK, Failures, Live, layerVars, readerVars
  <2>4. Locks' /\ Turns' /\ Answers'
    BY <1>1, <1>10 DEF ProducerLocks, ConsumerLocks, Locks, Turns, Answers, Live, Nobody,
       layerVars, readerVars
  <2> QED BY <2>1, <2>2, <2>3, <2>4 DEF IInv
<1>11. CASE BlobCloseFails("producer")
  <2>1. /\ producer = "close" /\ producer' = "ended" /\ zw.closed
        /\ failures' = failures + 1 /\ mu' = Nobody
        /\ UNCHANGED <<position, digest, diffID, consumed, consumer, h, zh, zw, got>>
        /\ pipe' = [write |-> pipe.write, end |-> "error"] /\ pipe.write \in Seq(Nat)
    BY <1>1, <1>11, Fields DEF BlobCloseFails, layerVars
  <2>2. /\ pipe'.write = pipe.write /\ pipe'.end = "error"
        /\ pipe' \in [write : Seq(Nat), end : {"open", "eof", "error"}]
    BY <2>1
  <2>3. TypeOK'
    BY <1>1, <2>1, <2>2 DEF TypeOK
  <2>4. Locks' /\ Turns' /\ Flow' /\ Answers'
    BY <1>1, <2>1, <2>2 DEF Locks, Turns, Flow, Answers, Live, Nobody
  <2>5. Failures'
    BY <1>1, <2>1, <2>3 DEF Failures, TypeOK, Turns
  <2> QED BY <2>3, <2>4, <2>5 DEF IInv
<1>12. CASE BlobCloseFails("consumer")
  <2>1. /\ consumer = "close" /\ consumer' = "closed" /\ zw.closed
        /\ failures' = failures + 1 /\ mu' = Nobody
        /\ UNCHANGED <<position, digest, diffID, consumed, producer, h, zh, zw, got, pipe>>
    BY <1>12 DEF BlobCloseFails, layerVars
  <2>2. producer = "ended"
    BY <1>1, <2>1 DEF Locks, Turns, Live
  <2>3. TypeOK'
    BY <1>1, <2>1 DEF TypeOK
  <2>4. Locks' /\ Turns' /\ Flow'
    BY <1>1, <2>1, <2>2 DEF Locks, Turns, Flow, Live, Nobody
  <2>6. Answers'
    <3>1. failures' # 0
      BY <1>1, <2>1 DEF TypeOK
    <3>2. Live /\ consumer' # "flush" /\ ~Live'
      BY <2>1 DEF Live
    <3> QED BY <1>1, <2>1, <2>2, <3>1, <3>2 DEF Answers
  <2>5. Failures'
    BY <1>1, <2>1, <2>3 DEF Failures, TypeOK
  <2> QED BY <2>3, <2>4, <2>5, <2>6 DEF IInv
<1>13. CASE ConsumerCloseFails
  <2>1. /\ consumer \in {"close", "flush"} /\ consumer' = "closed" /\ mu' = Nobody
        /\ pipe.end # "open" /\ (consumer = "close" => ~zw.closed)
        /\ UNCHANGED <<position, failures, digest, diffID, consumed, producer, h, zh, zw, pipe, got>>
    BY <1>13 DEF ConsumerCloseFails, layerVars, readerVars
  <2>2. producer = "ended"
    BY <1>1, <2>1 DEF Turns
  <2>3. TypeOK'
    BY <1>1, <2>1 DEF TypeOK
  <2>4. Locks' /\ Turns' /\ Flow'
    BY <1>1, <2>1, <2>2 DEF Locks, Turns, Flow, Live, Nobody
  <2>6. Answers'
    BY <1>1, <2>1, <2>2 DEF Answers, Live
  <2>5. Failures'
    <3>1. failures = 0 => consumed
      BY <1>1, <2>1 DEF Failures, Answers, TypeOK
    <3> QED BY <1>1, <2>1, <3>1 DEF Failures
  <2> QED BY <2>3, <2>4, <2>5, <2>6 DEF IInv
<1>14. CASE \/ \E o \in Observers : Observe(o)
            \/ UNCHANGED vars
  <2>1. UNCHANGED <<position, failures, digest, diffID, consumed, mu, producer, consumer,
                    h, zh, zw, pipe, got>>
    BY <1>14 DEF Observe, vars, layerVars, readerVars
  <2> QED BY <1>1, <2>1 DEF IInv, TypeOK, Locks, Turns, Flow, Answers, Failures, Live
<1> QED BY <1>2, <1>3, <1>4, <1>5, <1>6, <1>7, <1>8, <1>9, <1>10, <1>11, <1>12, <1>13, <1>14
     DEF Next, Work, Produce, Consume

(***************************************************************************)
(* Theorems.                                                               *)
(***************************************************************************)

\* The inductive invariant holds of every behaviour of a stream.Layer
\* (layer.go:92-217): who holds the mutex, whose turn it is, and where every
\* byte of the stream is.
THEOREM Invariance == Spec => []IInv
  BY InitIInv, NextIInv, PTL DEF Spec

\* What a layer calls its digest and diff ID is the digest of the very bytes
\* its consumer was given, and of the whole blob if it never failed
\* (layer.go:167-189), whoever closed first and however many attempts.
THEOREM DigestIsTrue == Spec => []DigestIsOfTheStream
<1>1. IInv => DigestIsOfTheStream
  BY DEF IInv, Answers, DigestIsOfTheStream
<1> QED BY <1>1, Invariance, PTL

\* The end of the stream reaches its consumer only after the layer knows its
\* digest: the producer tells the layer first, the pipe second (layer.go:123-139).
THEOREM EOFMeansDigest == Spec => []DigestKnownAtEOF
<1>1. IInv => DigestKnownAtEOF
  BY DEF IInv, Answers, DigestKnownAtEOF
<1> QED BY <1>1, Invariance, PTL

\* A digest that was told is never taken back or told otherwise: the second
\* Close assigns the same values, and Compressed refuses (layer.go:60-66).
THEOREM DigestStays == Spec => DigestKnownForGood
<1>1. IInv /\ [Next]_vars => [digest # Unknown => digest' = digest /\ diffID' = diffID]_vars
  <2> SUFFICES ASSUME IInv, [Next]_vars, digest # Unknown
               PROVE  digest' = digest /\ diffID' = diffID
    OBVIOUS
  <2>1. digest = zh /\ diffID = h /\ producer = "ended"
    BY DEF IInv, Answers
  <2>2. CASE ConsumerCloses
    BY <2>1, <2>2 DEF ConsumerCloses, Publish
  <2>3. CASE UNCHANGED layerVars
    BY <2>3 DEF layerVars
  <2> QED BY <2>1, <2>2, <2>3 DEF Next, Work, Produce, Consume, vars, Compressed, CopyChunk,
       CopyEnds, CopyFails, ReadPipe, ReadEnds, GiveUp, ProducerLocks, ConsumerLocks,
       ProducerFlushes, ProducerCloses, BlobCloseFails, ConsumerFlushes, ConsumerCloseFails,
       Observe
<1> QED BY <1>1, Invariance, PTL DEF Spec, DigestKnownForGood

=============================================================================
