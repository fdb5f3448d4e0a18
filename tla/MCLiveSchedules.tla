--------------------------- MODULE MCLiveSchedules ---------------------------
EXTENDS LiveSchedules, TLC

CONSTANTS f1, f2

(* Windows and schedules do not say whose fixtures they are.               *)
FixtureSymmetry == Permutations(Fixtures)

(* Two dates in a gameweek whose windows touch, and one in another         *)
(* gameweek at the time of the second.                                     *)
ThreeDates ==
    {[event |-> 1, kickoff |-> 3], [event |-> 1, kickoff |-> 11],
     [event |-> 2, kickoff |-> 11]}
=============================================================================
