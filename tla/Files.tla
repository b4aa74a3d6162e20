------------------------------- MODULE Files --------------------------------
(***************************************************************************)
(* Files as the operating system gives them to processes that share a      *)
(* directory: os.Create truncates a file that others have open, a name can *)
(* be removed under a writer, and a process that dies leaves what it has   *)
(* written.  Of its content a file only says how it compares with what     *)
(* should be there; all who write a file write the same bytes.             *)
(***************************************************************************)
EXTENDS Naturals, FiniteSets

CONSTANT Paths

VARIABLES
    file,   \* what is under each path
    hands,  \* the files that are open for writing, and by whom
    cut     \* the paths that some writer left before it was done

fileVars == <<file, hands, cut>>

\* "wrong" is a file with other bytes than it should have, such as a hole.
Contents == {"none", "empty", "part", "whole", "wrong"}

Marks == {"open", "overtaken", "unlinked"}

\* What is there and not whole, an earlier writer has left.
FilesInit ==
    /\ hands = {}
    /\ cut = {path \in Paths : file[path] \notin {"none", "whole"}}

Exists(path) == file[path] # "none"

Writers(path, marks) == {h \in hands : h.path = path /\ h.mark \in marks}
Writing(path) == Writers(path, {"open", "overtaken"}) # {}

\* What a reader may find: a file that is being written has begun or has not.
Seen(path) ==
    {file[path]} \cup (IF Writing(path) THEN {"empty", "part"} ELSE {})
                 \cup (IF Writers(path, {"overtaken"}) # {} THEN {"wrong"} ELSE {})

Remarked(path, was, mark) ==
    {IF h.path = path /\ h.mark \in was THEN [h EXCEPT !.mark = mark] ELSE h : h \in hands}

\* os.Create: whoever had the file open goes on at its own offset.
Create(path, by) ==
    /\ file' = [file EXCEPT ![path] = "empty"]
    /\ hands' = Remarked(path, {"open"}, "overtaken")
                \cup {[path |-> path, by |-> by, mark |-> "open"]}
    /\ UNCHANGED cut

\* os.Remove: the open files lose their name.
Unlink(path) ==
    /\ file' = [file EXCEPT ![path] = "none"]
    /\ hands' = Remarked(path, {"open", "overtaken"}, "unlinked")
    /\ UNCHANGED cut

(***************************************************************************)
(* What a file may be once the writer h is done, having written `body'.    *)
(* The one that truncated the file last writes it from its start; one that *)
(* was overtaken may leave a hole before what it writes.                   *)
(***************************************************************************)
After(h, body) ==
    LET is == file[h.path]
    IN  IF is = "whole" \/ h.mark = "unlinked" THEN {is}
        ELSE IF h.mark = "overtaken"
          THEN IF body = "whole" THEN {"whole", "wrong"} ELSE {is, "wrong"}
        ELSE IF body = "whole" \/ is = "empty" THEN {body}
        ELSE IF is = "wrong" THEN {"wrong", "whole"} ELSE {is}

\* The writers of `who' are done; each has written one of `bodies'.
Close(who, bodies) ==
    LET mine == {h \in hands : h.by \in who}
        named == {h \in mine : h.mark # "unlinked"}
        at == {h.path : h \in named}
    IN  /\ \E became \in [at -> Contents] :
              /\ \A h \in named : \E body \in bodies : became[h.path] \in After(h, body)
              /\ file' = [path \in Paths |-> IF path \in at THEN became[path] ELSE file[path]]
        /\ hands' = hands \ mine
        /\ cut' = cut \cup (IF bodies = {"whole"} THEN {} ELSE at)
=============================================================================
