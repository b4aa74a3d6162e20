---------------------------- MODULE TarballWrite ----------------------------
(***************************************************************************)
(* A program that saves images as a tarball, and one that listens to its   *)
(* progress: tarball.WriteToFile with WithProgress, or crane.SaveLegacy.   *)
(* Every Write to the file is an update on a channel, and so is the end;   *)
(* a send is over when it was received or has a place in the channel.      *)
(*                                                                         *)
(* The tar writer writes the padding of an entry before the next header,   *)
(* or before the two empty blocks at the end, and writes nothing after a   *)
(* write that failed or when the data of an entry is missing.              *)
(***************************************************************************)
EXTENDS Tarball

CONSTANTS
    MaxFaults       \* bound: files, layers and disks that fail

VARIABLES
    job,            \* [how, refs, order, sorted, listens, cap]
    todo, step,     \* the files that are to be written, and where the writer is
    done,           \* how many of them are
    tar,            \* the files in the tar: [name, data, whole]
    bytes, total,   \* what was written, and what the writer said it would
    result, ret,    \* what it will return, and what it did
    chan,           \* the updates: [complete, error]
    listens, heard, \* whether the listener still does; the end it was told, with the bytes
    faults

writeVars == <<job, todo, step, done, tar, bytes, total, result, ret, chan, listens, heard, faults>>

NoEnd == [complete |-> 0, error |-> ""]

WriteInit(jobs) ==
    /\ job \in jobs
    /\ todo = <<>> /\ step = "create" /\ done = 0 /\ tar = <<>> /\ bytes = 0 /\ total = 0
    /\ result = "ok" /\ ret = "" /\ chan = <<>> /\ listens = TRUE /\ heard = NoEnd /\ faults = 0

Listened == job.listens # "no"

\* The send before was received, or is in the channel.
Sent == Len(chan) <= job.cap

Tell(complete, error) ==
    chan' = IF Listened THEN Append(chan, [complete |-> complete, error |-> error]) ELSE chan

\* progressWriter.Write.
Wrote(n) == bytes' = bytes + n /\ Tell(bytes + n, "")

Ends(how) == result' = how /\ step' = "return"

Faulty == faults < MaxFaults /\ faults' = faults + 1

WholeTar == tar # <<>> => Last(tar).whole

\* There is a file to write, and it is not where the legacy writer stops.
More == done < Len(todo) /\ todo[done + 1].name \notin {<<"error">>, <<"panic">>}
InLayer == step = "body" /\ todo[done + 1].fetched /\ todo[done + 1].name[1] # "config"

(***************************************************************************)
(* MultiRefWrite and MultiWrite.                                           *)
(***************************************************************************)

\* A file that cannot be created: nobody is told.
CreateFails ==
    /\ step = "create" /\ Faulty
    /\ result' = "no file" /\ step' = "return"
    /\ UNCHANGED <<job, todo, done, tar, bytes, total, ret, chan, listens, heard>>

\* getSizeAndManifest; the legacy writer looks at images as it goes.
Prepare ==
    /\ step = "create"
    /\ todo' = IF job.how = "legacy" THEN MultiWrite(job.refs, job.order)
               ELSE WriteImagesToTar(job.refs, job.order, job.sorted)
    /\ total' = CalculateTarballSize(job.refs)
    /\ step' = "next"
    /\ UNCHANGED <<job, done, tar, bytes, result, ret, chan, listens, heard, faults>>

PrepareFails ==
    /\ step = "create" /\ job.how = "tarball" /\ Faulty
    /\ Tell(0, "error") /\ Ends("error")
    /\ UNCHANGED <<job, todo, done, tar, bytes, total, ret, listens, heard>>

\* Mutant: nobody is told.
FailsSilently(closes) ==
    /\ result' = "error" /\ step' = IF closes /\ WholeTar THEN "trailer" ELSE "return"
    /\ UNCHANGED <<job, todo, done, tar, bytes, total, ret, chan, listens, heard>>

\* An error: the listener is told, and the tar writer is closed, which writes when the
\* last entry is whole and no write has failed.
Fails(closes) ==
    /\ Tell(bytes, "error")
    /\ result' = "error" /\ step' = IF closes /\ WholeTar THEN "trailer" ELSE "return"
    /\ UNCHANGED <<job, todo, done, tar, bytes, total, ret, listens, heard>>

\* Where a layer or a config cannot be had, and where the legacy writer gives up.
FetchFails ==
    /\ step = "next" /\ Sent /\ More /\ todo[done + 1].fetched /\ Faulty
    /\ Fails(TRUE)

GivesUp ==
    /\ step = "next" /\ done < Len(todo) /\ todo[done + 1].name = <<"error">>
    /\ Fails(TRUE) /\ UNCHANGED faults

Panics ==
    /\ step = "next" /\ done < Len(todo) /\ todo[done + 1].name = <<"panic">>
    /\ result' = "panic" /\ step' = "trailer"
    /\ UNCHANGED <<job, todo, done, tar, bytes, total, ret, chan, listens, heard, faults>>

\* The padding of the last entry, for which all of it must be there.
Pad ==
    /\ step = "next" /\ Sent /\ More /\ WholeTar
    /\ Wrote(IF done = 0 THEN 0 ELSE Padding(todo[done].size))
    /\ step' = "header"
    /\ UNCHANGED <<job, todo, done, tar, total, result, ret, listens, heard, faults>>

MissedBytes ==
    /\ step = "next" /\ Sent /\ ~WholeTar
    /\ Fails(FALSE) /\ UNCHANGED faults

\* A file of no bytes is done with its header.
Header ==
    /\ step = "header" /\ Sent
    /\ LET file == todo[done + 1]
       IN  /\ Wrote(Block)
           /\ tar' = Append(tar, [name |-> file.name, data |-> file.data, whole |-> file.size = 0])
           /\ step' = IF file.size = 0 THEN "next" ELSE "body"
           /\ done' = IF file.size = 0 THEN done + 1 ELSE done
    /\ UNCHANGED <<job, todo, total, result, ret, listens, heard, faults>>

Body ==
    /\ step = "body" /\ Sent
    /\ Wrote(todo[done + 1].size)
    /\ tar' = [tar EXCEPT ![Len(tar)].whole = TRUE]
    /\ done' = done + 1 /\ step' = "next"
    /\ UNCHANGED <<job, todo, total, result, ret, listens, heard, faults>>

\* A layer that ends too early, one that cannot be read on, and one that has all its
\* bytes and then an error or more bytes.
BodyIsShort ==
    /\ InLayer /\ Sent /\ Faulty
    /\ Wrote(todo[done + 1].size - 1)
    /\ done' = done + 1 /\ step' = "next"
    /\ UNCHANGED <<job, todo, tar, total, result, ret, listens, heard>>

BodyFails == InLayer /\ Sent /\ Faulty /\ Fails(FALSE)

BodyEndsWrong ==
    /\ InLayer /\ Sent /\ Faulty
    /\ Wrote(todo[done + 1].size)
    /\ tar' = [tar EXCEPT ![Len(tar)].whole = TRUE]
    /\ done' = done + 1 /\ step' = "wrong"
    /\ UNCHANGED <<job, todo, total, result, ret, listens, heard>>

WrongBody == step = "wrong" /\ Sent /\ Fails(TRUE) /\ UNCHANGED faults

\* The disk: a write that fails is no update.
DiskFails ==
    /\ step \in {"next", "header", "body"} /\ (step = "next" => More /\ WholeTar)
    /\ Sent /\ Faulty /\ Fails(FALSE)

(***************************************************************************)
(* The end.                                                                *)
(***************************************************************************)

\* Mutant: the listener is told before the tar writer is closed.
EndThenClose == "eof"

\* What follows the last file.
CloseThenEnd == "trailer"

AllWritten ==
    /\ step = "next" /\ done = Len(todo) /\ WholeTar
    /\ step' = CloseThenEnd
    /\ UNCHANGED <<job, todo, done, tar, bytes, total, result, ret, chan, listens, heard, faults>>

\* Close of the tar writer: padding and two empty blocks.
Trailer ==
    \E at \in {"trailer", "zero1", "zero2"} :
        /\ step = at /\ Sent
        /\ IF at = "trailer" THEN Wrote(IF done = 0 THEN 0 ELSE Padding(todo[done].size))
           ELSE Wrote(Block)
        /\ step' = IF at = "trailer" THEN "zero1" ELSE IF at = "zero1" THEN "zero2"
                   ELSE IF result = "ok" /\ CloseThenEnd = "trailer" THEN "eof" ELSE "return"
        /\ UNCHANGED <<job, todo, done, tar, total, result, ret, listens, heard, faults>>

\* A disk that fails now is only told of where the close is not that of an error; the
\* legacy writer leaves even that to the deferred Close.
TrailerFails ==
    /\ step \in {"trailer", "zero1", "zero2"} /\ Sent /\ Faulty
    /\ IF result = "ok" /\ job.how = "tarball" THEN Tell(bytes, "error") /\ Ends("error")
       ELSE step' = "return" /\ UNCHANGED <<chan, result>>
    /\ UNCHANGED <<job, todo, done, tar, bytes, total, ret, listens, heard>>

SendEOF ==
    /\ step = "eof" /\ Sent
    /\ Tell(bytes, "EOF")
    /\ step' = IF CloseThenEnd = "trailer" THEN "return" ELSE "trailer"
    /\ UNCHANGED <<job, todo, done, tar, bytes, total, result, ret, listens, heard, faults>>

ReturnResult ==
    /\ step = "return" /\ Sent
    /\ ret' = result /\ step' = "over"
    /\ UNCHANGED <<job, todo, done, tar, bytes, total, result, chan, listens, heard, faults>>

\* The listener: it may go at the first end it is told, or stay.
Receive ==
    /\ chan # <<>> /\ listens
    /\ chan' = Tail(chan)
    /\ heard' = IF heard.error = "" THEN
                    IF Head(chan).error = "" THEN heard ELSE Head(chan)
                ELSE heard
    /\ listens' = (Head(chan).error = "" \/ job.listens = "stays")
    /\ UNCHANGED <<job, todo, step, done, tar, bytes, total, result, ret, faults>>

WriteStep ==
    \/ Prepare \/ GivesUp \/ Panics \/ Pad \/ MissedBytes \/ Header \/ Body \/ WrongBody
    \/ AllWritten \/ Trailer \/ SendEOF \/ ReturnResult
WriteFault ==
    \/ CreateFails \/ PrepareFails \/ FetchFails \/ BodyIsShort \/ BodyFails \/ BodyEndsWrong
    \/ DiskFails \/ TrailerFails

(***************************************************************************)
(* Properties.                                                             *)
(***************************************************************************)

Tags == {ref \in DOMAIN job.refs : ref.kind = "tag"}

\* What an image is to who loads it: layers by their digest from a tarball, and from a
\* legacy one by their diff ID, unless they are foreign.
Content(i) ==
    LET layer(n) == LayersOf[i][n]
        diff(n) == DiffOf[layer(n)]
    IN  [config |-> ConfigOf[i],
         layers |-> [n \in 1..Len(LayersOf[i]) |->
             IF job.how = "tarball" THEN [is |-> layer(n), gives |-> <<"gzip", layer(n)>>]
             ELSE [is |-> IF layer(n) \in Foreign THEN layer(n) ELSE diff(n),
                   gives |-> <<"tar", diff(n)>>]]]

\* A foreign layer and another of one diff ID: the descriptor is kept by diff ID.
Confused(i) ==
    \E x \in ToSet(LayersOf[i]) \cap Foreign, y \in ToSet(LayersOf[i]) :
        x # y /\ DiffOf[x] = DiffOf[y]

\* Whenever the file is read, also while it is written, was cut or was given up, a tag
\* loads an image that was saved as that name, whole, or nothing; and when the
\* save succeeds, every tag loads (tarball/write.go:153-210, image.go:118-152).
\* Names may be written in several ways, of which the first in the file is found.
LoadsOnlyWhole ==
    \A ref \in Tags :
        LET loaded == Load(tar, ref)
            saved == {job.refs[other] : other \in {x \in Tags : Name(x) = Name(ref)}}
        IN  /\ ret = "ok" => loaded # <<>>
            /\ loaded # <<>> /\ (\A i \in saved : ~Confused(i)) =>
                   loaded[1] \in {Content(i) : i \in saved}

\* The progress never exceeds the total, and ends at it unless a layer is used
\* twice, which is counted each time; the end is told when all bytes are written
\* (tarball/write.go:211-218, 311-330).
ProgressIsTrue ==
    LET all == FlattenSeq([n \in 1..Len(job.order) |-> LayersOf[job.order[n]]])
    IN  /\ \A n \in 1..Len(chan) : chan[n].complete <= total
        /\ heard.error = "EOF" =>
               /\ heard.complete = bytes
               /\ Cardinality(ToSet(all)) = Len(all) => bytes = total

\* The layers from the one a repository names down the parents that their json gives.
Chain(id, length) ==
    LET up[n \in 0..length] ==
            IF n = 0 THEN <<id>>
            ELSE LET parent == ExtractFile(tar, <<"json", Head(up[n - 1])>>)[1].parent
                 IN  IF parent = <<>> THEN up[n - 1] ELSE <<parent>> \o up[n - 1]
    IN  up[length]

\* Who loads a legacy tarball by its repositories finds the image's layers, also those
\* it shares with another image (legacy/tarball/write.go:241-300).
LegacyChain ==
    job.how = "legacy" /\ ret = "ok" =>
        LET repos == ExtractFile(tar, <<"repositories">>)[1]
        IN  \A ref \in Tags : \E top \in repos :
                LET chain == Chain(top.id, Len(LayersOf[job.refs[ref]]))
                IN  /\ top.tag = ref
                    /\ [n \in 1..Len(chain) |-> ExtractFile(tar, <<"layer.tar", chain[n]>>)]
                       = [n \in 1..Len(LayersOf[job.refs[ref]]) |->
                              <<<<"tar", DiffOf[LayersOf[job.refs[ref]][n]]>>>>]

\* A listener that waits for an end is told one, and the right one; unless the file
\* could not be created (tarball/write.go:110-125, 206-218).
ListenerLearns ==
    Listened => <>(\/ ret = "no file"
                   \/ heard.error = "error" /\ result = "error"
                   \/ heard.error = "EOF" /\ result = "ok")

\* The writer after an error between two entries, when the listener has left at the
\* error and there is no room for the updates of the trailer.
Cornered == ~listens /\ result = "error" /\ step \in {"trailer", "zero1", "zero2", "return"}

\* A save returns, whatever fails, also when the listener leaves at the first end it is
\* told as in progress_test.go:76-84; unless it is cornered, where the deferred
\* Close waits for ever (tarball/write.go:149).
SaveReturns == <>(step = "over" \/ Cornered)
=============================================================================
