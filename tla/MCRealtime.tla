----------------------------- MODULE MCRealtime -----------------------------
(***************************************************************************)
(* What the realtime service makes of an agent's reports (MissionIngest)   *)
(* and of its live frames (LiveView).  The two share no state, so a        *)
(* behaviour is of one part, chosen at the start, and the other rests:     *)
(* their state spaces are added, not multiplied.                           *)
(*                                                                         *)
(* Reports: one mission, a customer who may ask for a capture, a fault.    *)
(* View: one viewer, two spectators for one place, frames of one size.     *)
(***************************************************************************)
EXTENDS MissionIngest, LiveView

VARIABLE part

MCSize == [f \in Frames |-> 1]

MCInit == part \in {"reports", "view"} /\ Init /\ ViewInit

MCNext ==
  \/ part = "reports" /\ Next /\ UNCHANGED <<liveVars, part>>
  \/ part = "view" /\ ViewNext /\ UNCHANGED <<vars, part>>

Reporting(A) == part = "reports" /\ A
Viewing(A) == part = "view" /\ A

\* FairSpec's and ViewFairness's, of the part that runs.
MCFairness ==
  /\ WF_vars(Reporting(Tick)) /\ WF_vars(Reporting(SweepSessionEnds))
  /\ WF_vars(Reporting(\E h \in handlers : RecordInboundMessage(h) \/ Apply(h)))
  /\ \A v \in Viewers : WF_liveVars(Viewing(Deadline(v)))

MCSpec == MCInit /\ [][MCNext]_<<vars, liveVars, part>> /\ MCFairness
=============================================================================
