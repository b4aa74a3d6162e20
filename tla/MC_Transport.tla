---------------------------- MODULE MC_Transport ----------------------------
(***************************************************************************)
(* Three requests through one transport that was made to pull: one pulls,  *)
(* one initiates an upload and one, with a body, commits to another        *)
(* repository, so that two of them find their scopes missing.              *)
(***************************************************************************)
EXTENDS Transport

CONSTANTS puller, initiator, committer

Needs == [g \in Requests |-> CASE g = puller -> "pull"
                               [] g = initiator -> "push"
                               [] OTHER -> "push other"]
=============================================================================
