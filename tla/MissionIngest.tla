--------------------------- MODULE MissionIngest ---------------------------
(***************************************************************************)
(* What the cloud makes of an agent's reports of one mission: the agent    *)
(* queues mission events and finished captures, the realtime service       *)
(* handles each message in a function it does not wait for (server.ts,     *)
(* agent-link.ts), and writes the mission through prisma-store.ts; sweeps  *)
(* tell the agent its slot is over and end the customer's session          *)
(* (session-end.ts); the API mints CAPTURE commands (command.ts,           *)
(* in-slot.ts) and an operator may cancel the mission (admin/missions.ts). *)
(*                                                                         *)
(* A message is first recorded by its id and then applied, in two          *)
(* transactions, so the handlers of two messages may overtake each other   *)
(* and a failure between the two is final.  The mission starts out flying, *)
(* about to reach its target or with it reached: MissionSessions has what  *)
(* comes before.  Times are ages in ticks, capped where the code stops     *)
(* telling them apart.                                                     *)
(***************************************************************************)
EXTENDS Naturals, Sequences, FiniteSets, MissionTable

CONSTANTS
  AgentStates,     \* the states this instance's agent reports
  Captures,        \* CAPTURE commands the customer may ask for
  MaxCaptures, EndTelemetry,
  SlotLength,      \* ticks left of the slot at the start
  MaxReports, MaxFaults   \* bounds of a behaviour

ASSUME IngestAssumption ==
  /\ AgentStates \subseteq MissionStates
  /\ Captures \cap MissionStates = {}
  /\ EndTelemetry \in Nat \ {0} /\ SlotLength \in Nat /\ MaxReports \in Nat

VARIABLES
  flown,      \* the agent's own state of the mission
  parked,     \* the mount reports parked
  queue,      \* the agent's outbound messages
  said,       \* how many messages the agent has made
  linked,     \* the agent is connected
  restarted,  \* ... and is another process than the cloud remembers
  handlers,   \* messages being handled, with the step each has come to
  recorded,   \* AgentMessage rows
  ending,     \* the link's memory of a mission that ended: its age, in a set
  state,      \* Mission.state
  completed,  \* Mission.completedAt is set
  age,        \* ticks since the mission was completed, or last written
  observed,   \* a MissionEvent says OBSERVING
  slotLeft,   \* ticks left of the slot
  slotTold,   \* Mission.slotEndNotifiedAt is set
  sessionEnded, \* Mission.sessionEndedNotifiedAt is set
  summary,    \* a SESSION_SUMMARY email is queued
  capture,    \* how far each CAPTURE has come
  cooling,    \* the last CAPTURE was issued under a cooldown ago
  asked,      \* CAPTURE requests judged and not yet written
  faults,
  endings, announced,  \* history: MISSION_SESSION_ENDED and CAPTURE_READY sent
  overtaken, lost      \* history: a message was applied before an earlier
                       \* one, or never

agentVars == <<flown, parked, queue, said>>
linkVars == <<linked, restarted, handlers, recorded, ending>>
missionVars == <<state, completed, age, observed>>
endVars == <<slotLeft, slotTold, sessionEnded, summary, endings>>
captureVars == <<capture, cooling, asked, announced>>
historyVars == <<overtaken, lost>>
vars == <<agentVars, linkVars, missionVars, endVars, captureVars, faults, historyVars>>

Nothing == {}

Live == state \in LiveMissionStates
Ended == state \in TerminalMissionStates

Init ==
  /\ flown \in {"VERIFYING", "OBSERVING"} /\ parked = FALSE
  /\ queue = <<>> /\ said = 0
  /\ linked = TRUE /\ restarted = FALSE
  /\ handlers = {} /\ recorded = {} /\ ending = Nothing
  /\ state = flown /\ completed = FALSE /\ age = 0
  /\ observed = (flown = "OBSERVING")
  /\ slotLeft = SlotLength /\ slotTold = FALSE
  /\ sessionEnded = FALSE /\ summary = FALSE /\ endings = 0
  /\ capture = [c \in Captures |-> "none"] /\ cooling = FALSE /\ asked = {}
  /\ announced = [c \in Captures |-> 0]
  /\ faults = 0
  /\ overtaken = FALSE /\ lost = {}

-----------------------------------------------------------------------------
(* The API: a customer's CAPTURE, an operator's cancellation.              *)

\* captureHistory: minted, unexpired and without the agent's result.
AwaitingVerdict == \E c \in Captures : capture[c] = "minted"

\* Only the captures the cloud has recorded are counted.
CaptureCount == Cardinality({c \in Captures : capture[c] = "recorded"})

JudgeCapture ==
  /\ ~AwaitingVerdict
  /\ state \notin {"CAPTURING", "PROCESSING"}
  /\ ~cooling
  /\ CaptureCount < MaxCaptures
  /\ slotLeft > 0

\* mintMissionCommand for a CAPTURE: judged on what the request reads, written
\* in a transaction of its own.
AskCapture(c) ==
  /\ capture[c] = "none" /\ c \notin asked
  /\ Live
  /\ JudgeCapture
  /\ asked' = asked \cup {c}
  /\ UNCHANGED <<agentVars, linkVars, missionVars, endVars, capture, cooling,
                 announced, faults, historyVars>>

MintCapture(c) ==
  /\ c \in asked
  /\ asked' = asked \ {c}
  /\ capture' = [capture EXCEPT ![c] = "minted"]
  /\ cooling' = TRUE
  /\ UNCHANGED <<agentVars, linkVars, missionVars, endVars, announced, faults,
                 historyVars>>

\* cancelMissionAsOperator.
CancelMissionAsOperator ==
  /\ ~Ended
  /\ state' = "CANCELLED" /\ completed' = TRUE /\ age' = 0
  /\ UNCHANGED <<agentVars, linkVars, observed, endVars, captureVars, faults,
                 historyVars>>

-----------------------------------------------------------------------------
(* The agent.                                                              *)

Message(body) == [id |-> said + 1, body |-> body]

\* External: the agent's state machine takes a step and queues its report.
AgentReports(s) ==
  /\ said < MaxReports
  /\ flown \in LiveMissionStates
  /\ s # flown /\ IsLegalMissionTransition(flown, s)
  /\ flown' = s
  /\ queue' = Append(queue, Message(s)) /\ said' = said + 1
  /\ IF s = "CAPTURING"
     THEN \E c \in Captures : /\ capture[c] = "minted"
                              /\ capture' = [capture EXCEPT ![c] = "shot"]
     ELSE UNCHANGED capture
  /\ UNCHANGED <<parked, linkVars, missionVars, endVars, cooling, asked,
                 announced, faults, historyVars>>

\* External: the agent refuses a CAPTURE, or the command expires unanswered.
AgentRefuses(c) ==
  /\ capture[c] = "minted"
  /\ capture' = [capture EXCEPT ![c] = "refused"]
  /\ UNCHANGED <<agentVars, linkVars, missionVars, endVars, cooling, asked,
                 announced, faults, historyVars>>

\* applyUploadGrantRequest: the command is one of this mission's.
UploadGranted(c) == capture[c] # "none"

\* External: an upload finished, under its grant.  A capture whose upload is
\* retried is reported again under another id.
AgentUploads(c) ==
  /\ said < MaxReports
  /\ UploadGranted(c)
  /\ capture[c] = "shot" \/ (capture[c] \in {"ready", "recorded"} /\ faults < MaxFaults)
  /\ faults' = IF capture[c] = "shot" THEN faults ELSE faults + 1
  /\ capture' = [capture EXCEPT ![c] = IF @ = "shot" THEN "ready" ELSE @]
  /\ queue' = Append(queue, Message(c)) /\ said' = said + 1
  /\ UNCHANGED <<flown, parked, linkVars, missionVars, endVars, cooling, asked,
                 announced, historyVars>>

\* External: with its mission over the agent parks.
AgentParks ==
  /\ flown \notin LiveMissionStates /\ ~parked
  /\ parked' = TRUE
  /\ UNCHANGED <<flown, queue, said, linkVars, missionVars, endVars,
                 captureVars, faults, historyVars>>

\* The agent's queue gives up its oldest message to the socket, and the server
\* starts handling it without waiting for the ones before.  A socket that fails
\* under the message leaves it queued though it may have arrived.
Receive ==
  /\ linked /\ queue # <<>>
  /\ handlers' = handlers \cup
       {[id |-> Head(queue).id, body |-> Head(queue).body, step |-> "record"]}
  /\ \/ queue' = Tail(queue) /\ UNCHANGED <<linked, ending, faults>>
     \/ /\ faults < MaxFaults /\ faults' = faults + 1
        /\ linked' = FALSE /\ ending' = Nothing /\ UNCHANGED queue
  /\ UNCHANGED <<flown, parked, said, restarted, recorded, missionVars,
                 endVars, captureVars, historyVars>>

-----------------------------------------------------------------------------
(* Handling a message.                                                     *)

At(h, step) == [h EXCEPT !.step = step]

\* recordInboundMessage: the primary key tells a first sighting from a replay.
RecordInboundMessage(h) ==
  /\ h.step = "record"
  /\ recorded' = recorded \cup {h.id}
  /\ handlers' = (handlers \ {h}) \cup
       (IF h.id \in recorded THEN {} ELSE {At(h, "apply")})
  /\ UNCHANGED <<agentVars, linked, restarted, ending, missionVars, endVars,
                 captureVars, faults, historyVars>>

\* Handlers of earlier messages that have not got to their effect.
Overtakes(h) == \E g \in handlers : g.id < h.id

\* A plausible slip: an event that puts the mission on hold is only filed.
ApplyAllButHolds(h) ==
  /\ h.step = "apply" /\ h.body \in MissionStates
  /\ observed' = (observed \/ h.body = "OBSERVING")
  /\ IF /\ state \in LegalPredecessors[h.body] \cup {h.body}
        /\ ~Ended /\ h.body \notin HoldMissionStates
     THEN /\ state' = h.body
          /\ completed' = (completed \/ h.body \in TerminalMissionStates)
          /\ age' = 0
     ELSE UNCHANGED <<state, completed, age>>
  /\ ending' = IF linked /\ h.body \in TerminalMissionStates THEN {0} ELSE ending
  /\ handlers' = handlers \ {h}
  /\ overtaken' = (overtaken \/ Overtakes(h))
  /\ UNCHANGED <<agentVars, linked, restarted, recorded, endVars, captureVars,
                 faults, lost>>

\* applyMissionEvent of the link and of the store: the event is filed, the
\* mission moves if the table allows it, and the link remembers an ending.
ApplyMissionEvent(h) ==
  /\ h.step = "apply" /\ h.body \in MissionStates
  /\ observed' = (observed \/ h.body = "OBSERVING")
  /\ IF state \in LegalPredecessors[h.body] \cup {h.body} /\ ~Ended
     THEN /\ state' = h.body
          /\ completed' = (completed \/ h.body \in TerminalMissionStates)
          /\ age' = 0
     ELSE UNCHANGED <<state, completed, age>>
  /\ ending' = IF linked /\ h.body \in TerminalMissionStates THEN {0} ELSE ending
  /\ handlers' = handlers \ {h}
  /\ overtaken' = (overtaken \/ Overtakes(h))
  /\ UNCHANGED <<agentVars, linked, restarted, recorded, endVars, captureVars,
                 faults, lost>>

\* A plausible slip: a capture the cloud already has is announced again.
AnnounceAll(c) == announced' = [announced EXCEPT ![c] = @ + 1]

\* applyCaptureReady announces the capture whose row is new.
ApplyCaptureReady(c) ==
  announced' = IF capture[c] = "recorded" THEN announced
               ELSE [announced EXCEPT ![c] = @ + 1]

\* recordCapture, one row for each command.
RecordCapture(h) ==
  /\ h.step = "apply" /\ h.body \in Captures
  /\ capture' = [capture EXCEPT ![h.body] = "recorded"]
  /\ ApplyCaptureReady(h.body)
  /\ handlers' = handlers \ {h}
  /\ UNCHANGED <<agentVars, linked, restarted, recorded, ending, missionVars,
                 endVars, cooling, asked, faults, historyVars>>

\* What a message means, by its type.
Apply(h) == ApplyMissionEvent(h) \/ RecordCapture(h)

\* The database refuses one statement of a handler: the error is logged, and
\* nothing sends the message again.
HandlerFails(h) ==
  /\ faults < MaxFaults /\ faults' = faults + 1
  /\ handlers' = handlers \ {h}
  /\ lost' = lost \cup {h.id}
  /\ UNCHANGED <<agentVars, linked, restarted, recorded, ending, missionVars,
                 endVars, captureVars, overtaken>>

\* The realtime process dies with every handler in flight.
RealtimeDies ==
  /\ faults < MaxFaults /\ faults' = faults + 1
  /\ handlers # {}
  /\ handlers' = {} /\ linked' = FALSE /\ ending' = Nothing
  /\ lost' = lost \cup {h.id : h \in handlers}
  /\ UNCHANGED <<agentVars, restarted, recorded, missionVars, endVars,
                 captureVars, overtaken>>

\* The agent process dies: it parks when it comes back, its queue is gone.
AgentRestarts ==
  /\ faults < MaxFaults /\ faults' = faults + 1
  /\ flown' = IF flown \in LiveMissionStates THEN "FAILED" ELSE flown
  /\ parked' = FALSE
  /\ lost' = lost \cup {queue[i].id : i \in DOMAIN queue}
  /\ queue' = <<>>
  /\ linked' = FALSE /\ restarted' = TRUE /\ ending' = Nothing
  /\ UNCHANGED <<said, handlers, recorded, missionVars, endVars, captureVars,
                 overtaken>>

\* handleHello and markLinkUp: a restarted agent's live mission is closed out.
MarkLinkUp ==
  /\ ~linked
  /\ linked' = TRUE /\ restarted' = FALSE
  /\ IF restarted /\ Live
     THEN state' = "FAILED" /\ age' = 0
     ELSE UNCHANGED <<state, age>>
  /\ UNCHANGED <<agentVars, handlers, recorded, ending, completed, observed,
                 endVars, captureVars, faults, historyVars>>

-----------------------------------------------------------------------------
(* The end of the session.                                                 *)

\* endMissionSession: whoever claims the row first tells the customer, and
\* queues the summary of a session that got to observe.
EndMissionSession ==
  IF Ended /\ ~sessionEnded
  THEN sessionEnded' = TRUE /\ endings' = endings + 1 /\ summary' = observed
  ELSE UNCHANGED <<sessionEnded, summary, endings>>

\* applyStateDelta with the mount parked, within EndTelemetry of the report.
ParkReported ==
  /\ linked /\ parked
  /\ ending # Nothing
  /\ ending' = Nothing
  /\ IF \A a \in ending : a < EndTelemetry THEN EndMissionSession
     ELSE UNCHANGED <<sessionEnded, summary, endings>>
  /\ UNCHANGED <<agentVars, linked, restarted, handlers, recorded, missionVars,
                 slotLeft, slotTold, captureVars, faults, historyVars>>

\* claimEndedSlots and relaySessionEnded.  A connected agent that still flies
\* the mission completes it from OBSERVING, and reports that.
ClaimEndedSlots ==
  /\ Live /\ ~slotTold /\ slotLeft = 0
  /\ slotTold' = TRUE
  /\ age' = IF completed THEN age ELSE 0
  /\ IF linked /\ flown = "OBSERVING"
     THEN /\ flown' = "COMPLETE"
          /\ queue' = Append(queue, Message("COMPLETE")) /\ said' = said + 1
     ELSE UNCHANGED <<flown, queue, said>>
  /\ UNCHANGED <<parked, linkVars, state, completed, observed, slotLeft,
                 sessionEnded, summary, endings, captureVars, faults, historyVars>>

\* A plausible slip: the list goes by completedAt alone.
CompletedSessionEnd ==
  Ended /\ ~sessionEnded /\ completed /\ age >= EndTelemetry

\* A sweep's list: ended long enough ago, by completedAt or by the last write.
OverdueSessionEnd == Ended /\ ~sessionEnded /\ age >= EndTelemetry

SweepSessionEnds ==
  /\ OverdueSessionEnd
  /\ EndMissionSession
  /\ UNCHANGED <<agentVars, linkVars, missionVars, slotLeft, slotTold,
                 captureVars, faults, historyVars>>

Older(a) == IF a < EndTelemetry THEN a + 1 ELSE a

\* A handler's step is short against a tick.
Tick ==
  /\ handlers = {}
  /\ slotLeft' = IF slotLeft > 0 THEN slotLeft - 1 ELSE 0
  /\ age' = Older(age)
  /\ ending' = {Older(a) : a \in ending}
  /\ cooling' = FALSE
  /\ UNCHANGED <<agentVars, linked, restarted, handlers, recorded, state,
                 completed, observed, slotTold, sessionEnded, summary, endings,
                 capture, asked, announced, faults, historyVars>>

-----------------------------------------------------------------------------
Next ==
  \/ \E c \in Captures :
       AskCapture(c) \/ MintCapture(c) \/ AgentRefuses(c) \/ AgentUploads(c)
  \/ CancelMissionAsOperator
  \/ \E s \in AgentStates : AgentReports(s)
  \/ AgentParks
  \/ Receive
  \/ \E h \in handlers :
       RecordInboundMessage(h) \/ Apply(h) \/ HandlerFails(h)
  \/ RealtimeDies \/ AgentRestarts \/ MarkLinkUp
  \/ ParkReported \/ ClaimEndedSlots \/ SweepSessionEnds
  \/ Tick

Spec == Init /\ [][Next]_vars

\* The service's timers run for as long as it does, and a handler ends.
FairSpec ==
  /\ Spec
  /\ WF_vars(Tick) /\ WF_vars(SweepSessionEnds)
  /\ WF_vars(\E h \in handlers : RecordInboundMessage(h) \/ Apply(h))

-----------------------------------------------------------------------------
(* Properties.                                                             *)

\* The rows, the queue and the handlers keep their shapes.
TypeOK ==
  /\ flown \in MissionStates /\ state \in MissionStates
  /\ \A i \in DOMAIN queue : queue[i].id \in 1..said
  /\ \A h \in handlers :
       h.id \in 1..said /\ h.step \in {"record", "apply"}
         /\ h.body \in MissionStates \cup Captures
  /\ recorded \cup lost \subseteq 1..said
  /\ ending \subseteq 0..EndTelemetry
  /\ age \in 0..EndTelemetry /\ slotLeft \in 0..SlotLength
  /\ capture \in [Captures ->
       {"none", "minted", "refused", "shot", "ready", "recorded"}]
  /\ {parked, linked, restarted, completed, observed, slotTold, sessionEnded, summary,
      cooling, overtaken} \subseteq BOOLEAN

\* The customer hears once that the session ended, and once of each capture,
\* though park telemetry, the sweep and repeated reports compete to say so; a
\* session that completed is summed up in an email.
ToldOnce ==
  /\ TypeOK
  /\ endings <= 1
  /\ \A c \in Captures : announced[c] <= 1
  /\ sessionEnded /\ state = "COMPLETE" => summary

\* When every message was applied, and in the order it was made, the cloud's
\* mission is where the agent's is, or the cloud ended it by itself.
InOrderMeansInStep ==
  ~overtaken /\ lost = {} /\ queue = <<>> /\ handlers = {} /\ ~restarted
    => state = flown \/ Ended

\* The customer of a mission that finished is told that the session ended,
\* whether or not the mount ever reports parked and whoever ended the mission.
EndIsAnnounced == Ended ~> sessionEnded

=============================================================================
