--------------------------- MODULE MCMissionStoreTx ---------------------------
(* A small instance of MissionStoreTx for TLC. *)
EXTENDS MissionStoreTx, TLC

CONSTANTS Old, R1, R2

None == [i \in Ids |-> Nobody]

Empty == [mission |-> None, revision |-> None,
          admission |-> [q \in Requests |-> Nobody], done |-> {}]

\* An earlier mission with a plan in force and another one proposed for it.
Replanned ==
    [Empty EXCEPT
       !.mission[Old] = [NewRow EXCEPT !.state = "planning", !.plan = R1,
                                       !.granted = TRUE],
       !.revision[R1] = [mission |-> Old, status |-> "accepted", number |-> 1],
       !.revision[R2] = [mission |-> Old, status |-> "proposed", number |-> 2]]

MCFirstImages == {Empty, Replanned}

MCOldIds == {Old, R1, R2}

CallSymmetry == Permutations(Calls)
=============================================================================
