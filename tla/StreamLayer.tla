---------------------------- MODULE StreamLayer ----------------------------
(***************************************************************************)
(* stream.Layer (pkg/v1/stream/layer.go): a layer that is compressed while *)
(* it is uploaded and knows its digest only afterwards.                    *)
(*                                                                         *)
(* Compressed starts a goroutine, the producer, that copies the blob       *)
(* through a hasher and a gzip writer into a pipe.  The consumer (net/http *)
(* sending a PATCH) reads the pipe and closes it.  Both call               *)
(* compressedReader.Close, under the layer's mutex, which flushes the gzip *)
(* writer into the pipe: a write that returns only when somebody has read  *)
(* it.  Observers call Digest, DiffID or Size, under the same mutex.       *)
(*                                                                         *)
(* uploadOne may try again: attempt n + 1 calls Compressed after the Close *)
(* of attempt n has returned.                                              *)
(***************************************************************************)
EXTENDS Naturals, Sequences

CONSTANTS
    Chunks,         \* the length of the blob, in reads
    Attempts,       \* how often Compressed may be called
    Observers,      \* goroutines that ask for the digest
    SourceFailures  \* bound: reads and closes of the blob that fail

ASSUME StreamAssumption ==
    /\ Chunks \in Nat
    /\ Attempts \in Nat \ {0}
    /\ SourceFailures \in Nat

\* The blob, the end of a gzip stream, and all of the compressed blob.
Contents == [i \in 1 .. Chunks |-> i]
Trailer == 0
Compression == Contents \o <<Trailer>>

Unknown == <<>>
Nobody == "nobody"

VARIABLES
    position,   \* chunks of l.blob already read
    failures,
    digest, diffID, consumed,   \* the fields of Layer
    mu,         \* who holds Layer.mu
    attempt,    \* calls of Compressed so far
    producer,   \* the goroutine of the current compressedReader
    consumer,   \* whoever was given the current compressedReader
    h, zh,      \* what its two hashers were given
    zw,         \* its gzip writer: what it buffers, whether it was closed
    pipe,       \* its pipe: the rest of the write in progress, the error
    got,        \* what the consumer has read
    quit,       \* some consumer closed before it saw the end
    observer    \* the state of every observer

layerVars == <<digest, diffID, consumed>>
readerVars == <<h, zh, zw, pipe, got>>
vars == <<position, failures, layerVars, mu, attempt, producer, consumer,
          readerVars, quit, observer>>

Init ==
    /\ position = 0 /\ failures = 0
    /\ digest = Unknown /\ diffID = Unknown /\ consumed = FALSE
    /\ mu = Nobody
    /\ attempt = 0
    /\ producer = "none" /\ consumer = "none"
    /\ h = <<>> /\ zh = <<>>
    /\ zw = [buffer |-> <<>>, closed |-> FALSE]
    /\ pipe = [write |-> <<>>, end |-> "open"]
    /\ got = <<>>
    /\ quit = FALSE
    /\ observer = [o \in Observers |-> "calling"]

(***************************************************************************)
(* Compressed, and the producer's io.Copy.                                 *)
(***************************************************************************)

\* pw.Write of bytes begins, or waits for the write that is in its way: one
\* of a consumer that closed too early, which nobody will read.
Offer(bytes) == [pipe EXCEPT !.write = IF @ = <<>> THEN bytes ELSE @]

\* Mutant: a consumed layer is opened again.
CompressedAgain ==
    /\ attempt < Attempts
    /\ consumer \in {"none", "closed"}
    /\ attempt' = attempt + 1
    /\ consumer' = "read"
    /\ producer' = "copy"
    /\ h' = <<>> /\ zh' = <<>>
    /\ zw' = [buffer |-> <<>>, closed |-> FALSE]
    /\ pipe' = [write |-> <<>>, end |-> "open"]
    /\ got' = <<>>
    /\ UNCHANGED <<position, failures, layerVars, mu, quit, observer>>

\* newCompressedReader: new hashers, gzip writer and pipe over the blob
\* wherever it is, and a new goroutine.
Compressed ==
    /\ attempt < Attempts
    /\ consumer \in {"none", "closed"}
    /\ attempt' = attempt + 1
    /\ IF consumed
         THEN /\ consumer' = "refused"
              /\ UNCHANGED <<producer, readerVars>>
         ELSE /\ consumer' = "read"
              /\ producer' = "copy"
              /\ h' = <<>> /\ zh' = <<>>
              /\ zw' = [buffer |-> <<>>, closed |-> FALSE]
              /\ pipe' = [write |-> <<>>, end |-> "open"]
              /\ got' = <<>>
    /\ UNCHANGED <<position, failures, layerVars, mu, quit, observer>>

\* A chunk is read, hashed and given to the gzip writer, which keeps it for
\* later or writes what it has to the pipe.
CopyChunk ==
    /\ producer = "copy"
    /\ position < Chunks
    /\ position' = position + 1
    /\ h' = Append(h, position + 1)
    /\ LET buffered == Append(zw.buffer, position + 1) IN
       \/ /\ zw' = [zw EXCEPT !.buffer = buffered]
          /\ UNCHANGED <<producer, pipe>>
       \/ /\ zw' = [zw EXCEPT !.buffer = <<>>]
          /\ pipe' = Offer(buffered)
          /\ producer' = "write"
    /\ UNCHANGED <<failures, layerVars, mu, attempt, consumer, zh, got, quit, observer>>

\* io.Copy saw the end of the blob: the producer calls cr.Close.
CopyEnds ==
    /\ producer = "copy"
    /\ position = Chunks
    /\ producer' = "lock"
    /\ UNCHANGED <<position, failures, layerVars, mu, attempt, consumer, readerVars,
                   quit, observer>>

\* io.Copy failed: pw.CloseWithError, and nothing else is cleaned up.
CopyFails ==
    /\ producer = "copy"
    /\ failures < SourceFailures
    /\ failures' = failures + 1
    /\ pipe' = [pipe EXCEPT !.end = "error"]
    /\ producer' = "ended"
    /\ UNCHANGED <<position, layerVars, mu, attempt, consumer, h, zh, zw, got,
                   quit, observer>>

(***************************************************************************)
(* The pipe: a write ends when the consumer has read all of it.            *)
(***************************************************************************)

\* The consumer's Read takes some of the write in progress; its last part
\* lets the writer go on.
ReadPipe ==
    /\ consumer = "read"
    /\ pipe.write # <<>>
    /\ \E n \in 1 .. Len(pipe.write) :
          /\ got' = got \o SubSeq(pipe.write, 1, n)
          /\ pipe' = [pipe EXCEPT !.write = SubSeq(@, n + 1, Len(@))]
          /\ IF n = Len(pipe.write)
               THEN /\ zh' = zh \o SubSeq(got', Len(zh) + 1, Len(got'))
                    /\ producer' = IF producer = "write" THEN "copy" ELSE "close"
               ELSE UNCHANGED <<zh, producer>>
    /\ UNCHANGED <<position, failures, layerVars, mu, attempt, consumer, h, zw,
                   quit, observer>>

\* The consumer sees the end of the stream, or its error, and closes.
ReadEnds ==
    /\ consumer = "read"
    /\ pipe.end # "open"
    /\ consumer' = "lock"
    /\ UNCHANGED <<position, failures, layerVars, mu, attempt, producer, readerVars,
                   quit, observer>>

\* The consumer closes before: its connection broke, or was cancelled.
GiveUp ==
    /\ consumer = "read"
    /\ pipe.end = "open"
    /\ consumer' = "lock"
    /\ quit' = TRUE
    /\ UNCHANGED <<position, failures, layerVars, mu, attempt, producer, readerVars,
                   observer>>

(***************************************************************************)
(* compressedReader.Close.                                                 *)
(***************************************************************************)

ProducerLocks ==
    /\ producer = "lock" /\ mu = Nobody
    /\ mu' = "producer" /\ producer' = "close"
    /\ UNCHANGED <<position, failures, layerVars, attempt, consumer, readerVars,
                   quit, observer>>

ConsumerLocks ==
    /\ consumer = "lock" /\ mu = Nobody
    /\ mu' = "consumer" /\ consumer' = "close"
    /\ UNCHANGED <<position, failures, layerVars, attempt, producer, readerVars,
                   quit, observer>>

\* Mutant: the trailer is not written.
FlushNothing ==
    /\ zw' = [buffer |-> <<>>, closed |-> TRUE]
    /\ pipe' = Offer(zw.buffer)

\* zw.Close: what is buffered and the trailer go to the pipe.
Flush ==
    /\ zw' = [buffer |-> <<>>, closed |-> TRUE]
    /\ pipe' = Offer(zw.buffer \o <<Trailer>>)

\* Close has closed the gzip writer and the blob: it tells the layer.
Publish ==
    /\ digest' = zh
    /\ diffID' = h
    /\ consumed' = TRUE
    /\ mu' = Nobody

ProducerFlushes ==
    /\ producer = "close" /\ ~zw.closed
    /\ Flush
    /\ producer' = "flush"
    /\ UNCHANGED <<position, failures, layerVars, mu, attempt, consumer, h, zh, got,
                   quit, observer>>

\* Mutant: the producer leaves it to the consumer's Close to tell the layer.
ProducerLeavesPublish ==
    /\ producer = "close" /\ zw.closed
    /\ mu' = Nobody
    /\ producer' = "ended"
    /\ pipe' = [pipe EXCEPT !.end = "eof"]
    /\ UNCHANGED <<position, failures, layerVars, attempt, consumer, h, zh, zw, got,
                   quit, observer>>

\* cr.Close returned nil, so pw.CloseWithError(nil) ends the stream.
ProducerCloses ==
    /\ producer = "close" /\ zw.closed
    /\ Publish
    /\ producer' = "ended"
    /\ pipe' = [pipe EXCEPT !.end = "eof"]
    /\ UNCHANGED <<position, failures, attempt, consumer, h, zh, zw, got,
                   quit, observer>>

\* The blob does not close: Close returns before the layer learns anything,
\* and the producer's error goes to the reader.
BlobCloseFails(closer) ==
    /\ zw.closed
    /\ failures < SourceFailures
    /\ failures' = failures + 1
    /\ mu' = Nobody
    /\ \/ /\ closer = "producer" /\ producer = "close"
          /\ producer' = "ended"
          /\ pipe' = [pipe EXCEPT !.end = "error"]
          /\ UNCHANGED consumer
       \/ /\ closer = "consumer" /\ consumer = "close"
          /\ consumer' = "closed"
          /\ UNCHANGED <<producer, pipe>>
    /\ UNCHANGED <<position, layerVars, attempt, h, zh, zw, got, quit, observer>>

\* A consumer that closes too early waits here for a reader of the pipe.
ConsumerFlushes ==
    /\ consumer = "close" /\ ~zw.closed
    /\ pipe.end = "open"
    /\ Flush
    /\ consumer' = "flush"
    /\ UNCHANGED <<position, failures, layerVars, mu, attempt, producer, h, zh, got,
                   quit, observer>>

\* Mutant: an error return that does not unlock.
ConsumerCloseKeepsLock ==
    /\ \/ consumer = "close" /\ ~zw.closed
       \/ consumer = "flush"
    /\ pipe.end # "open"
    /\ consumer' = "closed"
    /\ UNCHANGED <<position, failures, layerVars, mu, attempt, producer, readerVars,
                   quit, observer>>

\* The producer failed and closed the pipe: zw.Close fails, and Close
\* returns before the layer learns anything.
ConsumerCloseFails ==
    /\ \/ consumer = "close" /\ ~zw.closed
       \/ consumer = "flush"
    /\ pipe.end # "open"
    /\ consumer' = "closed"
    /\ mu' = Nobody
    /\ UNCHANGED <<position, failures, layerVars, attempt, producer, readerVars,
                   quit, observer>>

ConsumerCloses ==
    /\ consumer = "close" /\ zw.closed
    /\ Publish
    /\ consumer' = "closed"
    /\ UNCHANGED <<position, failures, attempt, producer, readerVars, quit, observer>>

\* Digest, DiffID or Size: a value, or ErrNotComputed.
Observe(o) ==
    /\ observer[o] = "calling" /\ mu = Nobody
    /\ observer' = [observer EXCEPT ![o] = IF digest = Unknown THEN "unknown" ELSE "known"]
    /\ UNCHANGED <<position, failures, layerVars, mu, attempt, producer, consumer,
                   readerVars, quit>>

Produce == CopyChunk \/ CopyEnds \/ CopyFails \/ ProducerLocks \/ ProducerFlushes
           \/ ProducerCloses \/ BlobCloseFails("producer")

Consume == ReadPipe \/ ReadEnds \/ ConsumerLocks \/ ConsumerFlushes
           \/ ConsumerCloseFails \/ ConsumerCloses \/ BlobCloseFails("consumer")

\* What the goroutines do of themselves.
Work == Compressed \/ Produce \/ Consume \/ \E o \in Observers : Observe(o)

Next == Work \/ GiveUp

Spec == Init /\ [][Next]_vars

\* Goroutines that can run do run, but nothing makes a consumer give up.
\* Behaviours are finite, so no fairness among goroutines is needed.
FairSpec == Spec /\ WF_vars(Work)

(***************************************************************************)
(* Properties.                                                             *)
(***************************************************************************)

\* A known digest is the digest of exactly the bytes the consumer was given,
\* a whole gzip stream of what DiffID stands for, and that is the whole
\* blob if it never failed: whoever closed, whenever, however often.
DigestIsOfTheStream ==
    digest # Unknown =>
        /\ digest = got
        /\ digest = diffID \o <<Trailer>>
        /\ failures = 0 => digest = Compression

\* A consumer that sees the end of the stream can ask for the digest at once,
\* as uploadOne does between its PATCH and its PUT, before the body is closed.
DigestKnownAtEOF == pipe.end = "eof" => digest # Unknown

\* What Digest, DiffID and Size once answered they answer for good, whoever
\* closes or opens the layer again.
DigestKnownForGood ==
    [][digest # Unknown => digest' = digest /\ diffID' = diffID]_vars

Ended ==
    /\ producer \in {"none", "ended"}
    /\ consumer \in {"closed", "refused"}
    /\ \A o \in Observers : observer[o] # "calling"

\* Unless a consumer gives up before the end of its stream, nobody waits
\* for good: not in the pipe, not in Close, not for the mutex in Digest.
PatientConsumersReturn == <>(quit \/ Ended)

=============================================================================
