---------------------------- MODULE IndexPushers ----------------------------
(***************************************************************************)
(* A MultiWrite and a WriteIndex at work at once on one registry, over a   *)
(* network that fails now and then.                                        *)
(***************************************************************************)
EXTENDS MultiWrite, WriteIndex

vars == <<regVars, faults, mwVars, wiVars>>

Init == PushInit /\ MWInit /\ WIInit

Next ==
    \/ MWNext /\ UNCHANGED wiVars
    \/ WINext /\ UNCHANGED mwVars

Spec == Init /\ [][Next]_vars

\* Goroutines that can run do run; every behaviour is finite.
FairSpec == Spec /\ WF_vars(Next)

(***************************************************************************)
(* Properties.                                                             *)
(***************************************************************************)

\* The manifest is there by target and by digest, and so is all below it;
\* or another push of the same document was cut and has overwritten it.
Served(repo, target, doc) ==
    /\ repo \in DOMAIN manifests
    /\ {target, Sha256(doc)} \subseteq DOMAIN manifests[repo]
    /\ \/ manifests[repo][Sha256(doc)].blob = doc
       \/ manifests[repo][Sha256(doc)].blob = Cut(doc) /\ faults > 0
    /\ doc \in ImageDocs => \A b \in Required(doc) : Stored(b)
    /\ \A child \in ListedIn(doc) : Sha256(child) \in DOMAIN manifests[repo]

\* A push that returns nil has put all it was asked for, and all that these
\* list, where it can be pulled: no item is lost between feeder, channel
\* and workers, no error of one worker hidden by another's success.
SuccessIsServed ==
    /\ mwpc = "ok" =>
          /\ \A r \in Requested : Served(MWRepo, r[1], r[2])
          /\ \A doc \in Planned : Served(MWRepo, Sha256(doc), doc)
    /\ wipc = "ok" => Served(WIRepo, WITarget, root)

\* Without faults neither push fails: no index is put before what it lists
\* (the registry would refuse it), whatever the order of the map and the
\* workers, and what the other push has put already does no harm.  Only a
\* document of an unknown media type fails them: MultiWrite does not begin,
\* and WriteIndex, which passes over it, is refused the index that lists it.
FaultFreeSucceeds ==
    faults = 0 =>
        /\ mwpc = "failed" => ~Pushable
        /\ wipc = "failed" => ListedIn(Top.doc) \cap OtherDocs # {}

\* Both pushes return, faults or not.
BothReturn == <>(mwpc \in {"ok", "failed"} /\ wipc \in {"ok", "failed"})
=============================================================================
