------------------------------ MODULE MCPlayer ------------------------------
(***************************************************************************)
(* The instances of Player that TLC checks.                                *)
(***************************************************************************)
EXTENDS Player, TLC

Play(n, d) == [kind |-> "play", noReplace |-> n, decodable |-> d]

\* Two kinds of play and every other request.
ApiOps == {Play(FALSE, TRUE), Play(TRUE, FALSE)}
              \cup [kind : {"stop", "pause", "resume", "wsStop", "wsDestroy",
                           "delete", "shutdown"}]

\* The requests that take locks in turn, end a player or revive its track.
EndingOps == {Play(FALSE, TRUE)}
              \cup [kind : {"stop", "pause", "resume", "wsDestroy", "delete", "shutdown"}]

WorkerSymmetry == Permutations(Workers)
=============================================================================
