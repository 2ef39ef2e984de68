------------------------- MODULE ObservatoryControl -------------------------
(***************************************************************************)
(* What an operator does to one observatory: its place in the network      *)
(* (features/network/nodes.ts, features/admin/network.ts), its mode, the   *)
(* weather hold (features/admin/observatory.ts), its device token and its  *)
(* test missions, while customers start missions and its agent follows.    *)
(*                                                                         *)
(* Requests read and then write in a transaction of their own, so each is  *)
(* two actions (three for the ones that cancel a mission afterwards).  A   *)
(* committed transaction's notifications reach the agent in the order they *)
(* were sent; the realtime service reads the row a notification is about   *)
(* when it relays them.  The agent's half, and what follows from a refused *)
(* start, are modelled from how this code uses them (AgentSafety and       *)
(* MissionSessions model them in full).                                    *)
(***************************************************************************)
EXTENDS Integers, Sequences, FiniteSets, TLC

CONSTANTS
  Nights,        \* missions booked at the observatory
  TestNights,    \* missions an operator may schedule for a test
  Desks,         \* requests that may be under way at a time
  Nothing,       \* no mission, no request
  Demo,          \* DARKVIEW_DEPLOYMENT is demo
  HardwareTest,  \* the observatory is the demo's hardware test observatory
  MaxNotices,    \* bound: notifications on their way
  MaxOrders      \* bound: operator requests in a behaviour

ASSUME ObservatoryControlAssumption ==
  /\ Nothing \notin Nights
  /\ TestNights \subseteq Nights
  /\ {Demo, HardwareTest} \subseteq BOOLEAN
  /\ {MaxNotices, MaxOrders} \subseteq Nat

VARIABLES
  approval,  \* ObservatoryNetworkNode.approvalStatus
  envelope,  \* the altitude limit: NONE, the SIMULATOR's or MEASURED
  mode,      \* Observatory.mode
  hold,      \* WeatherState.holdActive
  token,     \* whether the node has a device token
  night,     \* state of each mission
  owner,     \* the open session of each mission, 0 when there is none
  desks,     \* what each request has read
  orders,    \* operator requests made so far
  notices,   \* notifications on their way to the agent
  scope      \* the agent: its link, the hold it was told, its posture, its session, the mission it observes

controlVars == <<approval, envelope, mode, hold, token, night, owner, desks, orders, notices, scope>>

Limits == {"NONE", "SIMULATOR", "MEASURED"}
LiveNight(m) == night[m] = "LIVE"
LiveNow == {m \in Nights : LiveNight(m)}
FreeDesk == [op |-> "none", m |-> Nothing, s |-> 0]
Notice(kind, m, s) == [kind |-> kind, m |-> m, s |-> s]

\* An agent that is not connected, with its operator beside it, and at rest.
IdleScope == [linked |-> FALSE, hold |-> FALSE, posture |-> "ATTENDED", owner |-> <<Nothing, 0>>, on |-> Nothing]

\* A node that has just been registered (registerNetworkNode), or one in
\* service.
ControlInit ==
  /\ \/ approval = "DRAFT" /\ envelope \in Limits /\ token = FALSE
     \/ approval = "APPROVED" /\ envelope = "MEASURED" /\ token = TRUE
  /\ mode = "SIMULATED"
  /\ hold = FALSE
  /\ night = [m \in Nights |-> "NONE"]
  /\ owner = [m \in Nights |-> 0]
  /\ desks = [d \in Desks |-> FreeDesk]
  /\ orders = 0
  /\ notices = << >>
  /\ scope = IdleScope

Ask(d, op, m, s) == desks[d] = FreeDesk /\ desks' = [desks EXCEPT ![d] = [op |-> op, m |-> m, s |-> s]]
Order(d, op, m, s) == orders < MaxOrders /\ orders' = orders + 1 /\ Ask(d, op, m, s)
Answer(d) == desks' = [desks EXCEPT ![d] = FreeDesk]
Notify(ns) == Len(notices \o ns) <= MaxNotices /\ notices' = notices \o ns
\* The mission a request finds live: Mission_active_per_observatory_unique
\* leaves one at most.
RunningMission == IF LiveNow = {} THEN Nothing ELSE CHOOSE m \in LiveNow : TRUE

NodeRows == <<approval, envelope, mode, token>>
MissionRows == <<night, owner>>

(***************************************************************************)
(* The node's qualification                                                *)
(***************************************************************************)
\* The owner submits a node in DRAFT (the row is read, then updated).
SubmitNetworkNodeForReview(d) ==
  /\ approval = "DRAFT"
  /\ Order(d, "submit", Nothing, 0)
  /\ UNCHANGED <<NodeRows, hold, MissionRows, notices, scope>>

WriteSubmission(d) ==
  /\ desks[d].op = "submit"
  /\ approval' = "UNDER_REVIEW"
  /\ Answer(d)
  /\ UNCHANGED <<envelope, mode, token, hold, MissionRows, orders, notices, scope>>

\* An operator records the altitude limit, or clears it. The simulator's is
\* taken only for an observatory read as SIMULATED.
SetSafetyEnvelope(d, limit) ==
  /\ limit = "SIMULATOR" => mode = "SIMULATED"
  /\ Order(d, limit, Nothing, 0)
  /\ UNCHANGED <<NodeRows, hold, MissionRows, notices, scope>>

WriteEnvelope(d) ==
  /\ desks[d].op \in Limits
  /\ envelope' = desks[d].op
  /\ Notify(<<Notice("ENVELOPE", Nothing, 0)>>)
  /\ Answer(d)
  /\ UNCHANGED <<approval, mode, token, hold, MissionRows, orders, scope>>

\* An approval looks for a node under review whose limit is measured, with
\* every condition attested; refused otherwise.
ApproveNetworkNode(d) ==
  /\ approval = "UNDER_REVIEW"
  /\ envelope = "MEASURED"
  /\ Order(d, "approve", Nothing, 0)
  /\ UNCHANGED <<NodeRows, hold, MissionRows, notices, scope>>

\* Its transaction writes what it decided, and tells the agent.
WriteApproval(d) ==
  /\ desks[d].op = "approve"
  /\ approval' = "APPROVED"
  /\ Notify(<<Notice("OPERATING", Nothing, 0)>>)
  /\ Answer(d)
  /\ UNCHANGED <<envelope, mode, token, hold, MissionRows, orders, scope>>

\* A suspension is never refused. It reads the mission that is live.
SuspendNetworkNode(d) ==
  /\ Order(d, "suspend", RunningMission, 0)
  /\ UNCHANGED <<NodeRows, hold, MissionRows, notices, scope>>

\* The node refuses before the mission it found is cancelled.
WriteSuspension(d) ==
  /\ desks[d].op = "suspend"
  /\ approval' = "SUSPENDED"
  /\ Notify(<<Notice("OPERATING", Nothing, 0)>>)
  /\ desks' = [desks EXCEPT ![d].op = "cancel"]
  /\ UNCHANGED <<envelope, mode, token, hold, MissionRows, orders, scope>>

\* issueDeviceToken: only a node without a token gets one.
IssueDeviceToken ==
  /\ ~token
  /\ orders < MaxOrders /\ orders' = orders + 1
  /\ token' = TRUE
  /\ UNCHANGED <<approval, envelope, mode, hold, MissionRows, desks, notices, scope>>

\* rotateDeviceToken: the agent connected with the old one is closed.
RotateDeviceToken ==
  /\ token
  /\ orders < MaxOrders /\ orders' = orders + 1
  /\ Notify(<<Notice("CREDENTIAL", Nothing, 0)>>)
  /\ UNCHANGED <<NodeRows, hold, MissionRows, desks, scope>>

\* revokeDeviceToken follows the order of a suspension.
RevokeDeviceToken(d) ==
  /\ Order(d, "revoke", RunningMission, 0)
  /\ UNCHANGED <<NodeRows, hold, MissionRows, notices, scope>>

WriteRevocation(d) ==
  /\ desks[d].op = "revoke"
  /\ token' = FALSE
  /\ Notify(<<Notice("CREDENTIAL", Nothing, 0)>>)
  /\ desks' = [desks EXCEPT ![d].op = "cancel"]
  /\ UNCHANGED <<approval, envelope, mode, hold, MissionRows, orders, scope>>

\* cancelMissionAsOperator, of the mission found live: a mission that is over
\* stays as it ended; any other is cancelled and its session revoked.
CancelFound(d) ==
  LET m == desks[d].m IN
  /\ desks[d].op = "cancel"
  /\ Answer(d)
  /\ IF m # Nothing /\ night[m] \notin {"COMPLETE", "CANCELLED", "FAILED"}
     THEN /\ night' = [night EXCEPT ![m] = "CANCELLED"]
          /\ owner' = [owner EXCEPT ![m] = 0]
          /\ Notify(IF owner[m] = 0 THEN << >> ELSE <<Notice("SESSION", m, 0)>>)
     ELSE UNCHANGED <<MissionRows, notices>>
  /\ UNCHANGED <<NodeRows, hold, orders, scope>>

(***************************************************************************)
(* Mode and test missions                                                  *)
(***************************************************************************)
\* What setObservatoryMode asks before REAL: an attended operator, no demo but
\* on its hardware test observatory and then not a bookable one, and not on
\* the simulator's limit.
FitForReal ==
  /\ Demo => HardwareTest /\ approval # "APPROVED"
  /\ envelope # "SIMULATOR"

\* The checks, which also refuse a change while a mission is live.
SetObservatoryMode(d, to) ==
  /\ to = "REAL" => FitForReal
  /\ LiveNow = {} \/ mode = to
  /\ Order(d, to, Nothing, 0)
  /\ UNCHANGED <<NodeRows, hold, MissionRows, notices, scope>>

WriteMode(d) ==
  /\ desks[d].op \in {"REAL", "SIMULATED"}
  /\ mode' = desks[d].op
  /\ Answer(d)
  /\ UNCHANGED <<approval, envelope, token, hold, MissionRows, orders, notices, scope>>

\* What scheduleTestMission asks: the hardware test observatory, and one that
\* cannot be booked.
TakesTests == HardwareTest /\ approval # "APPROVED"

\* This operator's test missions that never started make way for the new one.
Unstarted == {n \in TestNights : night[n] = "SCHEDULED"}

ScheduleTestMission(m) ==
  /\ TakesTests
  /\ m \in TestNights /\ night[m] = "NONE"
  /\ orders < MaxOrders /\ orders' = orders + 1
  /\ night' = [n \in Nights |-> IF n = m THEN "SCHEDULED" ELSE IF n \in Unstarted THEN "CANCELLED" ELSE night[n]]
  /\ UNCHANGED <<NodeRows, hold, owner, desks, notices, scope>>

(***************************************************************************)
(* Starting a mission, and the weather hold                                *)
(***************************************************************************)
\* A customer books a mission at a node that is approved (Bookings).
BookNight(m) ==
  /\ approval = "APPROVED"
  /\ m \notin TestNights /\ night[m] = "NONE"
  /\ night' = [night EXCEPT ![m] = "SCHEDULED"]
  /\ UNCHANGED <<NodeRows, hold, owner, desks, orders, notices, scope>>

\* A start reads the mission, the observatory and the hold.
BeginStart(d, m) ==
  /\ night[m] = "SCHEDULED"
  /\ scope.linked
  /\ ~hold
  /\ envelope # "NONE" /\ (mode = "REAL" => envelope = "MEASURED")
  /\ Ask(d, "start", m, 0)
  /\ UNCHANGED <<NodeRows, hold, MissionRows, orders, notices, scope>>

\* Its transaction: conditional on SCHEDULED and on the index of live
\* missions. The session is told before the GOTO that names it.
CommitStart(d) ==
  LET m == desks[d].m IN
  /\ desks[d].op = "start"
  /\ Answer(d)
  /\ IF night[m] = "SCHEDULED" /\ LiveNow = {}
     THEN /\ night' = [night EXCEPT ![m] = "LIVE"]
          /\ owner' = [owner EXCEPT ![m] = 1]
          /\ Notify(<<Notice("SESSION", m, 1), Notice("GOTO", m, 1)>>)
     ELSE UNCHANGED <<MissionRows, notices>>
  /\ UNCHANGED <<NodeRows, hold, orders, scope>>

\* The hold's transaction finds the live mission and its session ...
SetWeatherHold(d) ==
  /\ Order(d, "hold", RunningMission, IF RunningMission = Nothing THEN 0 ELSE owner[RunningMission])
  /\ UNCHANGED <<NodeRows, hold, MissionRows, notices, scope>>

\* Mutant of CommitWeatherHold: only a running mission is told.
CommitHoldOfRunning(d) ==
  LET m == desks[d].m IN
  /\ desks[d].op = "hold"
  /\ hold' = TRUE
  /\ Answer(d)
  /\ night' = IF m # Nothing /\ LiveNight(m) THEN [night EXCEPT ![m] = "WEATHER_HOLD"] ELSE night
  /\ owner' = IF m # Nothing THEN [owner EXCEPT ![m] = 0] ELSE owner
  /\ Notify(IF m # Nothing THEN <<Notice("WEATHER", Nothing, 0), Notice("PARK", m, desks[d].s), Notice("SESSION", m, 0)>> ELSE << >>)
  /\ UNCHANGED <<NodeRows, orders, scope>>

\* ... and commits the row, the agent's weather, a PARK under the session
\* still valid, the mission's WEATHER_HOLD and then the revocation. A mission
\* without a session is only moved.
CommitWeatherHold(d) ==
  LET m == desks[d].m
      park == IF desks[d].s = 0 THEN << >> ELSE <<Notice("PARK", m, desks[d].s), Notice("SESSION", m, 0)>> IN
  /\ desks[d].op = "hold"
  /\ hold' = TRUE
  /\ Answer(d)
  /\ Notify(<<Notice("WEATHER", Nothing, 0)>> \o park)
  /\ night' = IF m # Nothing /\ LiveNight(m) THEN [night EXCEPT ![m] = "WEATHER_HOLD"] ELSE night
  /\ owner' = IF m # Nothing /\ desks[d].s # 0 THEN [owner EXCEPT ![m] = 0] ELSE owner
  /\ UNCHANGED <<NodeRows, orders, scope>>

\* Clearing the hold tells the agent too, or it would stay shut.
ClearWeatherHold ==
  /\ hold
  /\ orders < MaxOrders /\ orders' = orders + 1
  /\ hold' = FALSE
  /\ Notify(<<Notice("WEATHER", Nothing, 0)>>)
  /\ UNCHANGED <<NodeRows, MissionRows, desks, scope>>

(***************************************************************************)
(* The agent (external)                                                    *)
(***************************************************************************)
Stopped(a) == [a EXCEPT !.on = Nothing]

\* What the agent makes of a notice: weather, operating state and session as
\* the rows stand when it is relayed, a command only of the session it holds. A session
\* taken away leaves the mission observing. Only an unattended agent acts on
\* its node's approval. A link closed long enough parks the telescope.
Told(n) ==
  CASE n.kind = "WEATHER" -> IF hold THEN Stopped([scope EXCEPT !.hold = TRUE]) ELSE [scope EXCEPT !.hold = FALSE]
    [] n.kind = "OPERATING" -> IF approval # "APPROVED" /\ scope.posture = "UNATTENDED"
                               THEN Stopped([scope EXCEPT !.posture = "DISARMED"]) ELSE scope
    [] n.kind = "CREDENTIAL" -> Stopped([scope EXCEPT !.linked = FALSE])
    [] n.kind = "SESSION" -> [scope EXCEPT !.owner = <<n.m, owner[n.m]>>]
    [] n.kind = "PARK" -> IF scope.owner = <<n.m, n.s>> THEN Stopped(scope) ELSE scope
    [] n.kind = "GOTO" -> IF scope.owner = <<n.m, n.s>> /\ scope.posture # "DISARMED" /\ ~scope.hold
                          THEN [scope EXCEPT !.on = n.m] ELSE scope
    [] n.kind = "ENVELOPE" -> scope

\* A start the agent refuses fails the mission (MissionSessions).
DeliverNotice ==
  /\ notices # << >>
  /\ notices' = Tail(notices)
  /\ scope' = IF scope.linked THEN Told(Head(notices)) ELSE scope
  /\ LET n == Head(notices) IN
     night' = IF n.kind = "GOTO" /\ scope.linked /\ scope'.on # n.m /\ LiveNight(n.m)
              THEN [night EXCEPT ![n.m] = "FAILED"] ELSE night
  /\ owner' = [m \in Nights |-> IF night'[m] = "FAILED" THEN 0 ELSE owner[m]]
  /\ UNCHANGED <<NodeRows, hold, desks, orders>>

\* An agent with the node's token connects and is told how things stand.
AgentConnects ==
  /\ token /\ ~scope.linked
  /\ scope' = [scope EXCEPT !.linked = TRUE, !.hold = hold,
                           !.posture = IF @ = "UNATTENDED" /\ approval # "APPROVED" THEN "DISARMED" ELSE @]
  /\ UNCHANGED <<NodeRows, hold, MissionRows, desks, orders, notices>>

\* Arming for unattended operation is a local act.
ArmAgent ==
  /\ scope.posture = "ATTENDED"
  /\ scope' = [scope EXCEPT !.posture = "UNATTENDED"]
  /\ UNCHANGED <<NodeRows, hold, MissionRows, desks, orders, notices>>

\* The mission ends, and the agent rests.
MissionOver ==
  /\ scope.on # Nothing
  /\ scope' = Stopped(scope)
  /\ night' = [night EXCEPT ![scope.on] = IF @ = "LIVE" THEN "COMPLETE" ELSE @]
  /\ owner' = [owner EXCEPT ![scope.on] = 0]
  /\ UNCHANGED <<NodeRows, hold, desks, orders, notices>>

ControlNext ==
  \/ \E d \in Desks :
       \/ SubmitNetworkNodeForReview(d) \/ WriteSubmission(d)
       \/ ApproveNetworkNode(d) \/ WriteApproval(d)
       \/ SuspendNetworkNode(d) \/ WriteSuspension(d)
       \/ RevokeDeviceToken(d) \/ WriteRevocation(d) \/ CancelFound(d)
       \/ \E to \in {"REAL", "SIMULATED"} : SetObservatoryMode(d, to)
       \/ WriteMode(d)
       \/ \E m \in Nights : BeginStart(d, m)
       \/ CommitStart(d)
       \/ SetWeatherHold(d) \/ CommitWeatherHold(d)
       \/ \E limit \in Limits : SetSafetyEnvelope(d, limit)
       \/ WriteEnvelope(d)
  \/ IssueDeviceToken \/ RotateDeviceToken \/ ClearWeatherHold
  \/ \E m \in Nights : ScheduleTestMission(m) \/ BookNight(m)
  \/ DeliverNotice \/ AgentConnects \/ ArmAgent \/ MissionOver

ControlSpec == ControlInit /\ [][ControlNext]_controlVars

(***************************************************************************)
(* Properties                                                              *)
(***************************************************************************)
\* Every row has the columns of its table, and at most one mission is live.
ControlTypeOK ==
  /\ approval \in {"DRAFT", "UNDER_REVIEW", "APPROVED", "SUSPENDED"}
  /\ envelope \in Limits
  /\ mode \in {"REAL", "SIMULATED"}
  /\ {hold, token} \subseteq BOOLEAN
  /\ night \in [Nights -> {"NONE", "SCHEDULED", "LIVE", "WEATHER_HOLD", "CANCELLED", "FAILED", "COMPLETE"}]
  /\ owner \in [Nights -> {0, 1}]
  /\ orders \in 0..MaxOrders
  /\ Len(notices) <= MaxNotices

Coming(kind) == \E i \in DOMAIN notices : notices[i].kind = kind

\* A telescope that observes is one every stop still has on its way to: a
\* weather hold or a revoked token has not been missed by the agent, however
\* the start of a mission, the stop and the notices cross (setWeatherHold,
\* revokeDeviceToken).
StopsReachTheTelescope ==
  scope.on # Nothing =>
    /\ hold => Coming("WEATHER")
    /\ ~token => Coming("CREDENTIAL")

\* A telescope that has been told everything does not observe a mission an
\* operator cancelled: suspending a node parks it (suspendNetworkNode says its
\* operator cancel path "already parks the telescope").
CancelledIsParked ==
  notices = << >> /\ scope.on # Nothing => night[scope.on] # "CANCELLED"
=============================================================================
