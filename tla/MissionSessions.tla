-------------------------- MODULE MissionSessions --------------------------
(***************************************************************************)
(* Who holds the telescope of one observatory.                            *)
(*                                                                         *)
(* Customers and operators open sessions on missions and mint commands     *)
(* through the API (features/missions/session.ts, command.ts, in-slot.ts,  *)
(* features/admin/override.ts, missions.ts); the realtime service relays   *)
(* the commands, writes the agent's verdicts and what follows from them,   *)
(* and sweeps the slots that ended (prisma-store.ts, session-end.ts).      *)
(*                                                                         *)
(* A request reads the mission, answers, and writes in a transaction of    *)
(* its own: anything may be committed in between.  A verdict and what      *)
(* follows from it are two transactions as well, and the realtime process  *)
(* may die between them.  The two partial unique indexes of the schema are *)
(* part of the writes they guard.  One tick of the clock is a stretch of   *)
(* the slot, long against the handling of one message.                     *)
(***************************************************************************)
EXTENDS Naturals, Sequences, FiniteSets, MissionTable

CONSTANTS
  Missions, Owner,         \* the missions and the customer who booked each
  SlotStart, SlotEnd,      \* of each mission's booking
  Operator, Nobody,        \* an operator's account; stands for no mission
  Requests,                \* API requests in flight at one time
  Targets, Booked, NoTarget,  \* the catalogue, what each mission booked
  Visible,                 \* the targets above the horizon limit at each time
  CommandTtl, DwellTime, RetargetClose,
  MaxClock, MaxSessions, MaxCommands, MaxFaults   \* bounds of a behaviour

ASSUME SessionsAssumption ==
  /\ SlotStart \in [Missions -> Nat] /\ SlotEnd \in [Missions -> Nat]
  /\ \A m \in Missions : SlotStart[m] < SlotEnd[m]
  /\ \A m, n \in Missions :
       m # n => SlotEnd[m] <= SlotStart[n] \/ SlotEnd[n] <= SlotStart[m]
  /\ Booked \in [Missions -> Targets]
  /\ NoTarget \notin Targets /\ Nobody \notin Missions
  /\ CommandTtl \in Nat /\ DwellTime \in Nat \ {0} /\ RetargetClose \in Nat
  /\ MaxClock \in Nat /\ MaxSessions \in Nat /\ MaxCommands \in Nat /\ MaxFaults \in Nat

VARIABLES
  clock,
  online,      \* Observatory.status is ONLINE
  state,       \* Mission.state
  target,      \* Mission.currentTargetId
  since,       \* Mission.currentTargetSince
  sessions,    \* MissionSession rows, oldest first
  commands,    \* ObservatoryCommand rows, oldest first
  requests,    \* what each request in flight has read
  follow,      \* verdicts written whose consequences are not
  flying,      \* the mission the agent flies
  aim,         \* the command the agent accepted last, 0 for none
  rebooted,    \* the agent is another process than the cloud remembers
  faults,
  lost         \* history: commands whose verdict's consequences were lost, or
               \* undone by those of an older verdict written after them

missionVars == <<state, target, since>>
agentVars == <<flying, aim, rebooted>>
vars == <<clock, online, missionVars, sessions, commands, requests, follow,
          agentVars, faults, lost>>

Users == {Owner[m] : m \in Missions} \cup {Operator}

Idle == [op |-> "idle"]

Live(m) == state[m] \in LiveMissionStates

OpenSessions(m) ==
  {i \in DOMAIN sessions : sessions[i].mission = m /\ ~sessions[i].revoked}

\* The session that owns the mission now.
CurrentSessions(m) == {i \in OpenSessions(m) : sessions[i].expires > clock}

RevokedAmong(ids) ==
  [i \in DOMAIN sessions |->
     IF i \in ids THEN [sessions[i] EXCEPT !.revoked = TRUE] ELSE sessions[i]]

NewSession(m, u) ==
  [mission |-> m, user |-> u, expires |-> SlotEnd[m], revoked |-> FALSE]

NewCommand(kind, m, s, to) ==
  [kind |-> kind, mission |-> m, session |-> s, target |-> to,
   status |-> "RECEIVED", at |-> "row", verdict |-> "none", decided |-> 0,
   expires |-> clock + CommandTtl]

Idling(r) == requests[r] = Idle

Leave(r) == requests' = [requests EXCEPT ![r] = Idle]

Init ==
  /\ clock = 0
  /\ online = TRUE
  /\ state = [m \in Missions |-> "SCHEDULED"]
  /\ target = [m \in Missions |-> NoTarget]
  /\ since = [m \in Missions |-> 0]
  /\ sessions = <<>>
  /\ commands = <<>>
  /\ requests = [r \in Requests |-> Idle]
  /\ follow = {}
  /\ flying = Nobody
  /\ aim = 0
  /\ rebooted = FALSE
  /\ faults = 0
  /\ lost = {}

-----------------------------------------------------------------------------
(* Opening a session.                                                      *)

\* startMissionSession, up to its transaction.  A refusal writes nothing and
\* is no step; a closed envelope or a weather hold may always refuse.  MaxSessions
\* bounds the requests as well, for one more could only wait.
StartMissionSession(r, m, u) ==
  /\ Idling(r) /\ Len(sessions) < MaxSessions
  /\ u \in {Owner[m], Operator}
  /\ \/ Live(m)
     \/ state[m] = "SCHEDULED" /\ u = Owner[m] /\ clock >= SlotStart[m]
  /\ online
  /\ clock < SlotEnd[m]
  /\ requests' = [requests EXCEPT ![r] =
       [op |-> IF Live(m) THEN "reopen" ELSE "start", mission |-> m,
        user |-> u, at |-> clock]]
  /\ UNCHANGED <<clock, online, missionVars, sessions, commands, follow,
                 agentVars, faults, lost>>

\* A plausible slip: the index on live missions is gone.
ObservatoryFree(m) == FALSE

\* Mission_active_per_observatory_unique would refuse the update.
ObservatoryTaken(m) == \E n \in Missions \ {m} : Live(n)

\* startScheduledMission's transaction: the mission moves, the session is
\* opened and the GOTO minted together, or nothing is written.
StartScheduledMission(r) ==
  /\ requests[r].op = "start"
  /\ LET m == requests[r].mission IN
     IF state[m] # "SCHEDULED" \/ ObservatoryTaken(m)
     THEN UNCHANGED <<missionVars, sessions, commands>>
     ELSE /\ Len(sessions) < MaxSessions /\ Len(commands) < MaxCommands
          /\ state' = [state EXCEPT ![m] = "PREPARING"]
          /\ target' = [target EXCEPT ![m] = Booked[m]]
          /\ sessions' = Append(sessions, NewSession(m, requests[r].user))
          /\ commands' = Append(commands,
               NewCommand("GOTO", m, Len(sessions) + 1, Booked[m]))
          /\ UNCHANGED since
  /\ Leave(r)
  /\ UNCHANGED <<clock, online, follow, agentVars, faults, lost>>

\* The transaction that opens a session on a live mission: lapsed sessions and
\* the caller's own are revoked, and MissionSession_active_owner_unique lets
\* the new row in only if that leaves none.  The mission is not read again.
ReopenMissionSession(r) ==
  /\ requests[r].op = "reopen"
  /\ LET m == requests[r].mission
         u == requests[r].user
         given == {i \in OpenSessions(m) :
                     \/ sessions[i].expires <= requests[r].at
                     \/ sessions[i].user = u}
     IN IF OpenSessions(m) # given
        THEN UNCHANGED sessions
        ELSE /\ Len(sessions) < MaxSessions
             /\ sessions' = Append(RevokedAmong(given), NewSession(m, u))
  /\ Leave(r)
  /\ UNCHANGED <<clock, online, missionVars, commands, follow, agentVars,
                 faults, lost>>

-----------------------------------------------------------------------------
(* Minting a command.                                                      *)

\* judgeRetarget.  The third way past the dwell lock, an image the agent could
\* not recover, is telemetry this module leaves out.
JudgeRetarget(m, to) ==
  /\ state[m] = "OBSERVING"
  /\ SlotEnd[m] - clock >= RetargetClose
  /\ to # target[m]
  /\ clock >= since[m] + DwellTime \/ target[m] \notin Visible[clock]
  /\ to \in Visible[clock]

\* mintMissionCommand, up to its transaction: the session's owner asks.  Of its
\* commands only RETARGET puts the telescope on another object, and only it is
\* modelled here.
MintMissionCommand(r, m, u, to) ==
  /\ Idling(r) /\ Len(commands) < MaxCommands
  /\ u \in {Owner[m], Operator}
  /\ Live(m)
  /\ JudgeRetarget(m, to)
  /\ \E i \in CurrentSessions(m) :
       /\ sessions[i].user = u
       /\ requests' = [requests EXCEPT ![r] =
            [op |-> "mint", mission |-> m, session |-> i, kind |-> "RETARGET",
             target |-> to, at |-> clock]]
  /\ UNCHANGED <<clock, online, missionVars, sessions, commands, follow,
                 agentVars, faults, lost>>

\* issueOperatorOverride: an operator commands around the session, in its
\* name.  A GOTO of this path carries no recenter mark, like a starting one.
IssueOperatorOverride(r, m, to) ==
  /\ Idling(r) /\ Len(commands) < MaxCommands
  /\ Live(m)
  /\ \E i \in CurrentSessions(m) :
       requests' = [requests EXCEPT ![r] =
         [op |-> "mint", mission |-> m, session |-> i, kind |-> "GOTO",
          target |-> to, at |-> clock]]
  /\ UNCHANGED <<clock, online, missionVars, sessions, commands, follow,
                 agentVars, faults, lost>>

\* The transaction of both: the row as the request saw the world.
WriteCommand(r) ==
  /\ requests[r].op = "mint"
  /\ Len(commands) < MaxCommands
  /\ LET q == requests[r] IN
     commands' = Append(commands,
       [NewCommand(q.kind, q.mission, q.session, q.target) EXCEPT
          !.expires = q.at + CommandTtl])
  /\ Leave(r)
  /\ UNCHANGED <<clock, online, missionVars, sessions, follow, agentVars,
                 faults, lost>>

-----------------------------------------------------------------------------
(* An operator ends a mission.                                             *)

\* cancelMissionAsOperator, one transaction.
CancelMissionAsOperator(m) ==
  /\ state[m] \notin TerminalMissionStates
  /\ state' = [state EXCEPT ![m] = "CANCELLED"]
  /\ sessions' = RevokedAmong(OpenSessions(m))
  /\ UNCHANGED <<clock, online, target, since, commands,
                 requests, follow, agentVars, faults, lost>>

-----------------------------------------------------------------------------
(* The relay, the agent and its verdicts.                                  *)

\* External: whether the agent can take the command now.  It flies one mission
\* at a time, moves on only after its own dwell lock, and may refuse anything.
AgentAccepts(c) ==
  LET cmd == commands[c] IN
  IF cmd.kind = "GOTO" THEN flying = Nobody
  ELSE flying = cmd.mission /\ clock >= commands[aim].decided + DwellTime

\* relayCommand, from a notification or from the sweep of unrelayed rows, and
\* the agent's decision on the command it is sent.  A command the agent found
\* expired is treated like one it rejected, and counts as one here.
RelayCommand(c) ==
  /\ online
  /\ commands[c].at = "row"
  /\ commands[c].expires > clock
  /\ \E v \in {"ACCEPTED", "REJECTED"} :
       /\ v = "ACCEPTED" => AgentAccepts(c)
       /\ commands' = [commands EXCEPT ![c] =
            [@ EXCEPT !.at = "answered", !.verdict = v, !.decided = clock,
                      !.status = "EXECUTING"]]
       /\ flying' = IF v = "ACCEPTED" THEN commands[c].mission ELSE flying
       /\ aim' = IF v = "ACCEPTED" THEN c ELSE aim
  /\ UNCHANGED <<clock, online, missionVars, sessions, requests, follow,
                 rebooted, faults, lost>>

\* isStartingGoto: not a RECENTER, which carries a mark.
IsStartingGoto(c) == commands[c].kind = "GOTO"

StartNotRunStatuses == {"REJECTED"}

\* A plausible slip: only an accepted verdict has consequences.
RecordVerdictOnly(c) ==
  /\ online
  /\ commands[c].at = "answered"
  /\ commands' = [commands EXCEPT ![c].at = "done", ![c].status =
       IF commands[c].verdict = "ACCEPTED" THEN "EXECUTING" ELSE commands[c].verdict]
  /\ follow' = IF commands[c].verdict = "ACCEPTED" THEN follow \cup {c} ELSE follow
  /\ UNCHANGED <<clock, online, missionVars, sessions, requests, agentVars,
                 faults, lost>>

\* recordCommandVerdict's guarded update.  What follows from the verdict is
\* another transaction.
RecordCommandVerdict(c) ==
  /\ online
  /\ commands[c].at = "answered"
  /\ LET v == commands[c].verdict IN
     /\ commands' = [commands EXCEPT ![c] = [@ EXCEPT !.at = "done",
          !.status = IF v = "ACCEPTED" THEN "EXECUTING" ELSE v]]
     /\ follow' = IF \/ v = "ACCEPTED"
                     \/ v \in StartNotRunStatuses /\ IsStartingGoto(c)
                  THEN follow \cup {c} ELSE follow
  /\ UNCHANGED <<clock, online, missionVars, sessions, requests, agentVars,
                 faults, lost>>

\* A plausible slip: the dwell starts only on a mission already observing.
StartDwellObserving(c) ==
  LET m == commands[c].mission IN
  /\ commands[c].verdict = "ACCEPTED"
  /\ IF state[m] = "OBSERVING"
     THEN /\ target' = [target EXCEPT ![m] = commands[c].target]
          /\ since' = [since EXCEPT ![m] = commands[c].decided]
     ELSE UNCHANGED <<target, since>>
  /\ UNCHANGED <<state, sessions, lost>>

\* The verdict on command aim has been written and what follows from it too.
Followed == aim # 0 /\ commands[aim].at = "done" /\ aim \notin follow

\* The mission's object, from when the agent decided, while the mission is live.
\* Verdicts are followed in the order in which their handlers get to it.
StartDwell(c) ==
  LET m == commands[c].mission IN
  /\ commands[c].verdict = "ACCEPTED"
  /\ IF Live(m)
     THEN /\ target' = [target EXCEPT ![m] = commands[c].target]
          /\ since' = [since EXCEPT ![m] = commands[c].decided]
     ELSE UNCHANGED <<target, since>>
  /\ lost' = IF c # aim /\ m = flying /\ Followed THEN lost \cup {aim} ELSE lost
  /\ UNCHANGED <<state, sessions>>

\* failRefusedStart, for a mission that got no further than PREPARING.
FailRefusedStart(c) ==
  LET m == commands[c].mission IN
  /\ commands[c].verdict \in StartNotRunStatuses
  /\ IF state[m] = "PREPARING"
     THEN /\ state' = [state EXCEPT ![m] = "FAILED"]
          /\ sessions' = RevokedAmong(OpenSessions(m))
     ELSE UNCHANGED <<state, sessions>>
  /\ UNCHANGED <<target, since, lost>>

FollowVerdict(c) ==
  /\ c \in follow
  /\ StartDwell(c) \/ FailRefusedStart(c)
  /\ follow' = follow \ {c}
  /\ UNCHANGED <<clock, online, commands, requests, agentVars, faults>>

\* External: what the agent reports of the mission it flies, the states on the
\* way to an object taken together.
Reports ==
  {<<"SLEWING", "VERIFYING", "OBSERVING">>, <<"COMPLETE">>, <<"WEATHER_HOLD">>}

\* applyMissionEvent.  Once the cloud has ended the mission by itself, all that
\* is left is the agent's own end of it, which is filed and moves nothing.
ApplyMissionEvent(report) ==
  LET s == report[Len(report)] IN
  /\ online
  /\ flying # Nobody
  /\ IF state[flying] \in EndedStates
     THEN s \in EndedStates /\ UNCHANGED state
     ELSE /\ IsLegalPath(state[flying], report)
          /\ state' = [state EXCEPT ![flying] = s]
  /\ flying' = IF s \in EndedStates THEN Nobody ELSE flying
  /\ UNCHANGED <<clock, online, target, since, sessions, commands, requests,
                 follow, aim, rebooted, faults, lost>>

-----------------------------------------------------------------------------
(* The sweeps, the link and the faults.                                    *)

\* closeUnstartedMissions: conditional on SCHEDULED, so a start that committed
\* first keeps the mission.
CloseUnstartedMissions(m) ==
  /\ state[m] = "SCHEDULED"
  /\ clock >= SlotEnd[m]
  /\ state' = [state EXCEPT ![m] = "CANCELLED"]
  /\ UNCHANGED <<clock, online, target, since, sessions,
                 commands, requests, follow, agentVars, faults, lost>>

\* The link drops; a command just handed to it may go down with it, and is
\* marked relayed all the same.
MarkLinkLost ==
  /\ online /\ faults < MaxFaults
  /\ faults' = faults + 1
  /\ online' = FALSE
  /\ \/ UNCHANGED commands
     \/ \E c \in DOMAIN commands :
          /\ commands[c].at = "row" /\ commands[c].expires > clock
          /\ commands' = [commands EXCEPT ![c] =
               [@ EXCEPT !.at = "lost", !.status = "EXECUTING"]]
  /\ UNCHANGED <<clock, missionVars, sessions, requests, follow, agentVars, lost>>

\* The agent process dies: it parks, and has lost its mission and its queue.
AgentRestarts ==
  /\ online /\ faults < MaxFaults
  /\ faults' = faults + 1
  /\ online' = FALSE
  /\ flying' = Nobody
  /\ rebooted' = TRUE
  /\ commands' = [c \in DOMAIN commands |->
       IF commands[c].at = "answered" THEN [commands[c] EXCEPT !.at = "lost"] ELSE commands[c]]
  /\ UNCHANGED <<clock, missionVars, sessions, requests, follow, aim, lost>>

\* markLinkUp: the mission a restarted agent names, or the live one if it
\* names none, is closed out with its session (settleHeldMission).
MarkLinkUp ==
  /\ ~online
  /\ online' = TRUE
  /\ rebooted' = FALSE
  /\ LET over == IF rebooted THEN {m \in Missions : Live(m)} ELSE {} IN
     /\ state' = [m \in Missions |-> IF m \in over THEN "FAILED" ELSE state[m]]
     /\ sessions' = RevokedAmong(UNION {OpenSessions(m) : m \in over})
  /\ UNCHANGED <<clock, target, since, commands, requests,
                 follow, flying, aim, faults, lost>>

\* The realtime process dies between a verdict and what follows from it.
RealtimeDies ==
  /\ follow # {} /\ faults < MaxFaults
  /\ faults' = faults + 1
  /\ lost' = lost \cup follow
  /\ follow' = {}
  /\ online' = FALSE
  /\ UNCHANGED <<clock, missionVars, sessions, commands, requests, agentVars>>

\* Handling a message is quick: no time passes while one is being handled.
Tick ==
  /\ clock < MaxClock
  /\ follow = {}
  /\ online => \A c \in DOMAIN commands : commands[c].at # "answered"
  /\ clock' = clock + 1
  /\ UNCHANGED <<online, missionVars, sessions, commands, requests, follow,
                 agentVars, faults, lost>>

-----------------------------------------------------------------------------
Next ==
  \/ \E r \in Requests, m \in Missions, u \in Users :
       \/ StartMissionSession(r, m, u)
       \/ \E to \in Targets : MintMissionCommand(r, m, u, to)
  \/ \E r \in Requests, m \in Missions, to \in Targets :
       IssueOperatorOverride(r, m, to)
  \/ \E r \in Requests :
       StartScheduledMission(r) \/ ReopenMissionSession(r) \/ WriteCommand(r)
  \/ \E m \in Missions :
       \/ CancelMissionAsOperator(m)
       \/ CloseUnstartedMissions(m)
  \/ \E c \in DOMAIN commands :
       RelayCommand(c) \/ RecordCommandVerdict(c) \/ FollowVerdict(c)
  \/ \E report \in Reports : ApplyMissionEvent(report)
  \/ MarkLinkLost \/ AgentRestarts \/ MarkLinkUp \/ RealtimeDies
  \/ Tick

Spec == Init /\ [][Next]_vars

-----------------------------------------------------------------------------
(* Properties.                                                             *)

RequestType ==
  {Idle}
    \cup [op : {"start", "reopen"}, mission : Missions, user : Users, at : 0..MaxClock]
    \cup [op : {"mint"}, mission : Missions, session : 1..MaxSessions,
          kind : {"GOTO", "RETARGET"},
          target : Targets, at : 0..MaxClock]

\* The rows, the requests and the agent keep their shapes; a command names a
\* session of its own mission.
TypeOK ==
  /\ clock \in 0..MaxClock /\ faults \in 0..MaxFaults
  /\ online \in BOOLEAN /\ rebooted \in BOOLEAN
  /\ state \in [Missions -> MissionStates]
  /\ target \in [Missions -> Targets \cup {NoTarget}]
  /\ since \in [Missions -> 0..MaxClock]
  /\ requests \in [Requests -> RequestType]
  /\ flying \in Missions \cup {Nobody} /\ aim \in {0} \cup DOMAIN commands
  /\ follow \cup lost \subseteq DOMAIN commands
  /\ \A c \in DOMAIN commands :
       /\ commands[c].session \in DOMAIN sessions
       /\ sessions[commands[c].session].mission = commands[c].mission

\* One customer drives the telescope: of all sessions at the observatory, at
\* most one is unrevoked, unexpired and on a live mission, whichever requests
\* to start, reopen and cancel cross each other.
OneOwner ==
  \A m, n \in Missions :
    Live(m) /\ Live(n) =>
      \A i \in CurrentSessions(m), j \in CurrentSessions(n) : i = j

\* A mission whose starting GOTO the agent refused does not stay in PREPARING,
\* where it would hold the observatory against every later booking, except
\* when the realtime process died between the verdict and its consequence.
RefusedStartFrees ==
  \A c \in DOMAIN commands \ (follow \cup lost) :
    IsStartingGoto(c) /\ commands[c].status \in StartNotRunStatuses
      => state[commands[c].mission] # "PREPARING"

\* The telescope has one owner, or is free for the next booking.
TelescopeIsFreeOrOwned == TypeOK /\ OneOwner /\ RefusedStartFrees

\* The object the cloud shows, and the time from which it measures the dwell
\* lock, are those of the command the agent accepted last, from when that
\* command's verdict and its consequence are written, unless the consequence
\* was lost with the realtime process or an older verdict was followed after it.
CloudKnowsTarget ==
  flying # Nobody /\ Live(flying) =>
    \/ target[flying] = commands[aim].target /\ since[flying] = commands[aim].decided
    \/ commands[aim].at = "answered"
    \/ aim \in follow \cup lost

Use == INSTANCE TelescopeUse WITH
  user <- IF \E m \in Missions : Live(m)
          THEN CHOOSE m \in Missions : Live(m) ELSE Nobody,
  over <- {m \in Missions : ~Live(m) /\ state[m] # "SCHEDULED"}

\* Every behaviour of starts, events, cancellations, sweeps and restarts is
\* one of TelescopeUse: one mission has the telescope at a time, and one that
\* is over never gets it back.
UseSpec == Use!Spec
=============================================================================
