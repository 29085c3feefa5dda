------------------------- MODULE MCConcurrentAgents -------------------------
(* Instances of ConcurrentAgents for TLC. *)
EXTENDS ConcurrentAgents, TLC

CONSTANTS a1, a2, a3

RaceAgents == {a1, a2, a3}
RaceTeams == {{a1, a2}, {a3}}

=============================================================================
