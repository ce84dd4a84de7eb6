--------------------------- MODULE MCLiveProjection ---------------------------
(* A small instance of LiveProjection for TLC. *)
EXTENDS LiveProjection

MCScopes == {{"mission.read"}, {"mission.control"}}

MCFirstRow == [secret |-> "s1", scopes |-> {"mission.read"}, limits |-> "none",
               live |-> TRUE, expired |-> FALSE, epoch |-> 1, generation |-> 1]
=============================================================================
