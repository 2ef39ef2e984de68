---------------------------- MODULE TelescopeUse ----------------------------
(***************************************************************************)
(* What an observatory promises its bookings: missions use the telescope   *)
(* one at a time, and a mission that is over never uses it again.          *)
(***************************************************************************)
CONSTANTS Missions, Nobody

VARIABLES
  user,    \* the mission that has the telescope
  over     \* the missions that are over

vars == <<user, over>>

Init == user = Nobody /\ over = {}

Take(m) ==
  /\ user = Nobody
  /\ m \notin over
  /\ user' = m
  /\ UNCHANGED over

Release ==
  /\ user # Nobody
  /\ user' = Nobody
  /\ over' = over \cup {user}

\* A mission is given up before it took the telescope.
GiveUp(m) ==
  /\ m # user
  /\ over' = over \cup {m}
  /\ UNCHANGED user

Next == Release \/ \E m \in Missions : Take(m) \/ GiveUp(m)

Spec == Init /\ [][Next]_vars
=============================================================================
