------------------------- MODULE MCMissionSessions -------------------------
(* Two missions in adjacent slots, an operator, two requests in flight.    *)
EXTENDS MissionSessions, TLC

CONSTANTS m1, m2, alice, bob, t1, t2

MCMissions == {m1, m2}
MCOwner == m1 :> alice @@ m2 :> bob
MCSlotStart == m1 :> 0 @@ m2 :> 2
MCSlotEnd == m1 :> 2 @@ m2 :> 3
MCTargets == {t1, t2}
RequestSymmetry == Permutations(Requests)
MCVisible == [n \in 0..MaxClock |-> IF n = 1 THEN {t2} ELSE {t1, t2}]
MCBooked == m1 :> t1 @@ m2 :> t1
=============================================================================
