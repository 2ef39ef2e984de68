-------------------------- MODULE MissionLifecycle --------------------------
(***************************************************************************)
(* What the cloud accepts of an observatory's mission events: missions are *)
(* taken one at a time, each starts at SCHEDULED, and every reported state *)
(* is a legal successor of the one reported before it.  The agent may      *)
(* report several states in one pass of its loop, so a step is a path.     *)
(***************************************************************************)
EXTENDS MissionTable

VARIABLES
  mission,    \* number of the mission the agent took on last, 0 before any
  state,      \* the state last reported for it
  trail       \* the states reported in the latest pass, oldest first

vars == <<mission, state, trail>>

Init == mission = 0 /\ state = "SCHEDULED" /\ trail = <<>>

\* A mission is taken on only when none is live.
Accept ==
  /\ mission = 0 \/ state \in EndedStates
  /\ mission' = mission + 1
  /\ trail' = <<"PREPARING">>
  /\ state' = "PREPARING"

Report ==
  /\ mission # 0
  /\ trail' # <<>>
  /\ IsLegalPath(state, trail')
  /\ state' = trail'[Len(trail')]
  /\ UNCHANGED mission

\* A pass in which nothing is reported.
Quiet == trail' = <<>> /\ UNCHANGED <<mission, state>>

Next == Accept \/ Report \/ Quiet

Spec == Init /\ [][Next]_vars
=============================================================================
