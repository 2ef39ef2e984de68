---------------------------- MODULE MissionTable ----------------------------
(***************************************************************************)
(* The mission states and the transition table the cloud keeps for the    *)
(* events an observatory reports (apps/realtime/src/link/store.ts).        *)
(***************************************************************************)
EXTENDS Sequences, Naturals

LiveMissionStates ==
  {"PREPARING", "SLEWING", "VERIFYING", "CENTERING",
   "OBSERVING", "CAPTURING", "PROCESSING"}

\* The states no event leads out of.
TerminalMissionStates == {"COMPLETE", "CANCELLED", "FAILED"}

\* An ending too, but one an operator may lift.
HoldMissionStates == {"WEATHER_HOLD", "NOT_VISIBLE", "HARDWARE_ERROR"}

MissionStates ==
  LiveMissionStates \cup TerminalMissionStates \cup HoldMissionStates
    \cup {"REQUESTED", "SCHEDULED"}

\* The agent's own list: a mission in one of these no longer holds the lock.
EndedStates == TerminalMissionStates \cup HoldMissionStates

LegalPredecessors ==
  [to \in MissionStates |->
     CASE to \in {"REQUESTED", "SCHEDULED"} -> {}
       [] to = "PREPARING"  -> {"SCHEDULED"} \cup HoldMissionStates
       [] to = "SLEWING"    -> {"PREPARING", "CENTERING", "OBSERVING"}
       [] to = "VERIFYING"  -> {"SLEWING"}
       [] to = "CENTERING"  -> {"VERIFYING"}
       [] to = "OBSERVING"  -> {"VERIFYING", "PROCESSING"}
       [] to = "CAPTURING"  -> {"OBSERVING"}
       [] to = "PROCESSING" -> {"CAPTURING"}
       [] to = "COMPLETE"   -> {"PROCESSING", "OBSERVING"}
       [] OTHER             -> LiveMissionStates \cup {"SCHEDULED"}]

\* A state may always be reported again: a retried event is the ordinary case.
IsLegalMissionTransition(from, to) == from \in LegalPredecessors[to] \cup {to}

\* The states in path, reported one after the other from state from, are each
\* accepted by the table.
IsLegalPath(from, path) ==
  \A i \in 1..Len(path) :
    IsLegalMissionTransition(IF i = 1 THEN from ELSE path[i - 1], path[i])
=============================================================================
