---------------------------- MODULE AgentSafety ----------------------------
(***************************************************************************)
(* What keeps the mount parked: the watchdog thread (safety/watchdog.py),  *)
(* the posture latch (safety/posture.py, arming.py), the weather hold, and *)
(* the main loop that shares devices and a state store with them           *)
(* (AgentSupervisor.pump), through crashes and restarts.                   *)
(*                                                                         *)
(* A mission is only whether it flies and when it moves the mount or ends: *)
(* MissionRunner has the rest.  Everything done under the device lock is   *)
(* one step; between two steps of the main loop the watchdog may act.      *)
(***************************************************************************)
EXTENDS Naturals

CONSTANTS
  LossAfter,          \* heartbeatLossSeconds, in ticks of the clock
  DeadAfter,          \* linkDeadSeconds
  SustainedLimit,     \* sustained_link_loss_seconds; 0 for none
  RealDrivers,        \* the drivers are not the simulator's
  NudgeFromPark,      \* a step from the parked position is within the envelope
  MaxBatch,           \* messages in one pass
  MaxRuns,            \* times the process is started
  MaxFaults           \* Parks the mount refuses and writes the store refuses

ASSUME SafetyAssumption ==
  /\ LossAfter \in Nat \ {0} /\ DeadAfter \in Nat /\ LossAfter < DeadAfter
  /\ SustainedLimit \in Nat /\ RealDrivers \in BOOLEAN
  /\ NudgeFromPark \in BOOLEAN
  /\ MaxBatch \in Nat /\ MaxRuns \in Nat \ {0}
  /\ MaxFaults \in Nat

\* The triggers that wait for the watchdog's thread.
Triggers == {"weather_unsafe", "unattended_disarmed"}

\* What the actions that the main loop has not read come to: nothing but a stopped
\* capture, a Park tried, or one that ends unattended operation too.
Findings == {"none", "park", "disarm"}

Postures == {"SIMULATED", "ATTENDED", "UNATTENDED", "DISARMED"}

\* Where the main loop is: not running, in recover, or in pump.
Recovering == {"restore_weather", "restore_mission"}
Passes == {"link", "messages", "posture", "loss", "fly", "persist"}

Last == IF SustainedLimit > DeadAfter THEN SustainedLimit ELSE DeadAfter

VARIABLES
  \* the mount
  parked, parkFailures,
  \* the time since the watchdog last heard that the link was online
  silence,
  \* the watchdog
  trigger, captureStopped, latched, unread,
  \* the supervisor
  pc, batch, mission, recovered, holding, owner, posture, run,
  \* the state store
  diskHold, diskMission, storeFailures,
  request,         \* the posture request not taken yet
  \* history
  holdActedOn,     \* Park was tried since the hold went on
  armedFor,        \* the run named by the arming last obeyed
  strayed          \* a command moved the mount after the watchdog parked it

mountVars == <<parked, parkFailures>>
watchdogVars == <<trigger, captureStopped, latched, unread>>
loopVars == <<pc, batch, recovered>>
postureVars == <<posture, run, armedFor>>
diskVars == <<diskHold, diskMission, storeFailures, request>>
historyVars == <<holdActedOn, strayed>>

vars == <<mountVars, silence, watchdogVars, loopVars, mission, holding, owner,
          postureVars, diskVars, historyVars>>

Requests == [run : 1..MaxRuns, action : {"ARM", "DISARM"}]
NoRequest == [run |-> 0, action |-> "none"]

\* Every variable keeps its type, and a posture request names a run that was.
TypeOK ==
  /\ parked \in BOOLEAN /\ parkFailures \in 0..MaxFaults
  /\ silence \in 0..Last
  /\ trigger \in Triggers \cup {"none"}
  /\ captureStopped \in BOOLEAN /\ latched \in BOOLEAN
  /\ unread \in Findings
  /\ pc \in {"down"} \cup Recovering \cup Passes /\ batch \in 0..MaxBatch
  /\ mission \in {"none", "flying", "unparked"}
  /\ recovered \in BOOLEAN
  /\ holding \in BOOLEAN /\ owner \in BOOLEAN
  /\ posture \in Postures /\ run \in 0..MaxRuns
  /\ diskHold \in BOOLEAN /\ diskMission \in BOOLEAN
  /\ storeFailures \in 0..MaxFaults
  /\ request \in Requests \cup {NoRequest} /\ request.run <= run
  /\ armedFor \in 0..MaxRuns /\ holdActedOn \in BOOLEAN /\ strayed \in BOOLEAN

Init ==
  /\ parked = TRUE /\ parkFailures = 0
  /\ silence = 0
  /\ trigger = "none" /\ captureStopped = FALSE /\ latched = FALSE
  /\ unread = "none"
  /\ pc = "down" /\ batch = 0 /\ mission = "none" /\ recovered = FALSE
  /\ holding = FALSE /\ owner = FALSE
  /\ posture = "SIMULATED" /\ run = 0
  /\ diskHold = FALSE /\ diskMission = FALSE
  /\ storeFailures = 0 /\ request = NoRequest
  /\ holdActedOn = FALSE /\ armedFor = 0 /\ strayed = FALSE

-----------------------------------------------------------------------------
(* Parking *)

\* The mount is asked to park: it does, or it refuses and stays as it was.
Parking(p, f) ==
  {[ok |-> TRUE, parked |-> TRUE, failures |-> f]} \cup
  IF f + storeFailures < MaxFaults
    THEN {[ok |-> FALSE, parked |-> p, failures |-> f + 1]} ELSE {}

\* The mount after one of these.
Parked(x) ==
  /\ parked' = x.parked /\ parkFailures' = x.failures
  /\ strayed' = (strayed /\ ~x.parked)

\* _disarm_for: a Park that failed, a device fault, and a dead link when no limit
\* for one has been measured.
EndsUnattended(t, x) ==
  ~x.ok \/ t = "device_fault" \/ (t = "link_dead" /\ SustainedLimit = 0)

\* _act with stop_capture and park: the one terminal sequence.
Act(t, x) ==
  /\ captureStopped' = TRUE
  /\ latched' = x.ok
  /\ unread' = IF unread = "disarm" \/ EndsUnattended(t, x) THEN "disarm" ELSE "park"
  /\ holdActedOn' = (holdActedOn \/ holding)

-----------------------------------------------------------------------------
(* The watchdog thread *)

Running == pc \in Passes

\* evaluate, a pending trigger
ActOnTrigger ==
  /\ Running /\ trigger # "none" /\ trigger' = "none"
  /\ \E x \in Parking(parked, parkFailures) :
       Act(trigger, x) /\ Parked(x)
  /\ UNCHANGED <<silence, loopVars, mission, holding, owner, postureVars, diskVars>>

\* Mutant: capture stopped by the lost heartbeat is taken for a dead link acted on.
ActOnHeartbeatOnly ==
  /\ Running /\ trigger = "none" /\ silence >= DeadAfter /\ ~captureStopped
  /\ \E x \in Parking(parked, parkFailures) :
       Act("link_dead", x) /\ Parked(x)
  /\ UNCHANGED <<trigger, silence, loopVars, mission, holding, owner,
                 postureVars, diskVars>>

\* evaluate, a dead link: on every poll until a Park has worked
ActOnDeadLink ==
  /\ Running /\ trigger = "none" /\ silence >= DeadAfter /\ ~latched
  /\ \E x \in Parking(parked, parkFailures) :
       Act("link_dead", x) /\ Parked(x)
  /\ UNCHANGED <<trigger, silence, loopVars, mission, holding, owner,
                 postureVars, diskVars>>

\* evaluate, a lost heartbeat: capture stops, the mount goes on tracking.  Reading
\* this one only suspends the runner's capture.
ActOnHeartbeatLoss ==
  /\ Running /\ trigger = "none" /\ silence >= LossAfter /\ ~captureStopped
  /\ silence < DeadAfter \/ latched
  /\ captureStopped' = TRUE
  /\ UNCHANGED <<trigger, latched, unread, mountVars, silence, loopVars, mission,
                 holding, owner, postureVars, diskVars, historyVars>>

Evaluate == ActOnTrigger \/ ActOnDeadLink \/ ActOnHeartbeatLoss

-----------------------------------------------------------------------------
(* Writes that come with a change of state *)

\* The pass is abandoned where it is; the next one starts over.
StoreRefuses ==
  /\ parkFailures + storeFailures < MaxFaults /\ storeFailures' = storeFailures + 1
  /\ pc' = "link" /\ batch' = 0

\* Mutant: the watchdog is never told.
DisarmQuietly(alsoPark) ==
  /\ posture' = IF posture = "UNATTENDED" THEN "DISARMED" ELSE posture
  /\ UNCHANGED trigger

\* _disarm: an UNATTENDED agent is latched off and its run saved; alsoPark says
\* whether the watchdog is told to park.
Disarm(alsoPark) ==
  IF posture = "UNATTENDED"
    THEN /\ posture' = "DISARMED"
         /\ trigger' = IF alsoPark THEN "unattended_disarmed" ELSE trigger
    ELSE UNCHANGED <<posture, trigger>>

\* _disarm when the run cannot be saved: latched off, and nothing after it done.
DisarmUnsaved ==
  posture = "UNATTENDED" /\ posture' = "DISARMED" /\ StoreRefuses /\ UNCHANGED trigger

-----------------------------------------------------------------------------
(* recover *)

\* A new process saves a new run id, and the requests already written are behind it.
\* The stored owner comes back unless the session is over.
Start ==
  /\ pc = "down" /\ run < MaxRuns
  /\ pc' = "restore_weather" /\ run' = run + 1 /\ request' = NoRequest
  /\ posture' \in {"SIMULATED", "ATTENDED"}
  /\ owner' \in {owner, FALSE}
  /\ UNCHANGED <<mountVars, silence, watchdogVars, batch, recovered, mission,
                 holding, diskHold, diskMission, storeFailures,
                 armedFor, historyVars>>

\* What was only in memory is gone.
GoDown ==
  /\ run < MaxRuns /\ pc' = "down"
  /\ silence' = 0 /\ batch' = 0
  /\ mission' = "none" /\ recovered' = FALSE
  /\ trigger' = "none" /\ captureStopped' = FALSE /\ latched' = FALSE
  /\ unread' = "none" /\ holding' = FALSE
  /\ holdActedOn' = FALSE /\ strayed' = FALSE
  /\ UNCHANGED <<owner, postureVars, diskVars>>

\* The process dies: the mount stays as it is.
Crash == pc # "down" /\ GoDown /\ UNCHANGED mountVars

\* A clean stop parks, between two passes.
Stop ==
  /\ pc = "link" /\ GoDown
  /\ \E x \in Parking(parked, parkFailures) :
       parked' = x.parked /\ parkFailures' = x.failures

\* Mutant: the restored hold only refuses commands.
RestoreQuietly ==
  /\ pc = "restore_weather" /\ pc' = "restore_mission"
  /\ holding' = diskHold
  /\ UNCHANGED <<mountVars, silence, watchdogVars, batch, recovered, mission,
                 owner, postureVars, diskVars, historyVars>>

\* A hold that stands goes on again, and parks again.
RestoreWeather ==
  /\ pc = "restore_weather" /\ pc' = "restore_mission"
  /\ holding' = diskHold
  /\ trigger' = IF diskHold THEN "weather_unsafe" ELSE trigger
  /\ UNCHANGED <<mountVars, silence, captureStopped, latched, unread, batch,
                 recovered, mission, owner, postureVars, diskVars,
                 historyVars>>

\* A mission is parked and reported, not resumed.
RestoreMission ==
  /\ pc = "restore_mission" /\ pc' = "link"
  /\ \E x \in Parking(parked, parkFailures) :
       IF diskMission THEN Parked(x) ELSE UNCHANGED <<mountVars, strayed>>
  /\ recovered' = diskMission
  /\ UNCHANGED <<silence, watchdogVars, batch, mission, holding, owner, postureVars,
                 diskVars, holdActedOn>>

-----------------------------------------------------------------------------
(* pump: the link and its messages *)

\* The rest of the batch, then what follows it.
MessagesNext == pc' = IF batch' = 0 THEN "posture" ELSE "messages"

\* A link that is online resets the timers and both latches.  One that fails while
\* the agent sends resets nothing, and what it had delivered is handled all the same.
PumpLink ==
  /\ pc = "link" /\ batch' \in 0..MaxBatch /\ MessagesNext
  /\ \/ /\ silence' = 0 /\ captureStopped' = FALSE /\ latched' = FALSE
        /\ diskMission' = (diskMission /\ ~recovered) /\ recovered' = FALSE
     \/ UNCHANGED <<silence, captureStopped, latched, diskMission, recovered>>
  /\ UNCHANGED <<mountVars, trigger, unread, mission, holding, owner, postureVars,
                 diskHold, storeFailures, request, historyVars>>

Handling == pc = "messages"
Handled == batch' = batch - 1 /\ MessagesNext /\ UNCHANGED recovered

\* _handle_session_update, _expire_owner
SessionUpdate ==
  /\ Handling /\ Handled /\ owner' = ~owner
  /\ UNCHANGED <<mountVars, silence, watchdogVars, mission, holding,
                 postureVars, diskVars, historyVars>>

\* _apply_weather: held in memory, then on disk, then the watchdog is told, and
\* told only when the hold goes on.
WeatherUpdate ==
  /\ Handling /\ Handled
  /\ \E h \in BOOLEAN :
       /\ holding' = h /\ diskHold' = h
       /\ trigger' = IF h /\ ~holding THEN "weather_unsafe" ELSE trigger
       /\ holdActedOn' = (holdActedOn /\ h)
  /\ UNCHANGED <<mountVars, silence, captureStopped, latched, unread, mission,
                 owner, postureVars, diskMission, request,
                 storeFailures, strayed>>

\* _apply_weather when the hold cannot be saved
WeatherUnsaved ==
  /\ Handling /\ StoreRefuses
  /\ holding' \in BOOLEAN /\ holdActedOn' = (holdActedOn /\ holding')
  /\ UNCHANGED <<mountVars, silence, watchdogVars, recovered, mission,
                 owner, postureVars, diskHold, diskMission, request,
                 strayed>>

\* _handle_operating_update, any status but APPROVED
ApprovalWithdrawn ==
  /\ Handling
  /\ \/ Handled /\ Disarm(TRUE) /\ UNCHANGED storeFailures
     \/ DisarmUnsaved /\ UNCHANGED recovered
  /\ UNCHANGED <<mountVars, silence, captureStopped, latched, unread, mission,
                 holding, owner, run, armedFor, diskHold, diskMission, request,
                 historyVars>>

-----------------------------------------------------------------------------
(* pump: commands *)

\* The validator's order: the owner's, and under a hold or disarmed only what
\* recovers.
Authorised == Handling /\ owner

Permitted == Authorised /\ ~holding /\ posture # "DISARMED"

\* A GOTO with no mission offers one; the mount does not move yet.
ExecuteGoto ==
  /\ Permitted /\ Handled /\ mission # "flying" /\ mission' = "flying"
  /\ UNCHANGED <<mountVars, silence, watchdogVars, holding, owner, postureVars,
                 diskVars, historyVars>>

\* NUDGE, whatever the mission, and the re-slew of a GOTO or a RETARGET, only with
\* one.  The mount leaves Park.
ExecuteMove ==
  /\ Permitted /\ Handled /\ parked' = FALSE
  /\ mission = "flying" \/ ~parked \/ NudgeFromPark
  /\ strayed' = (strayed \/ latched \/ unread # "none")
  /\ UNCHANGED <<parkFailures, silence, watchdogVars, mission, holding, owner,
                 postureVars, diskVars, holdActedOn>>

\* cancel: the runner's terminal path parks.
Cancel(p, f) ==
  IF mission = "flying"
    THEN mission' = "none" /\ \E x \in Parking(p, f) : Parked(x)
    ELSE UNCHANGED mission /\ Parked([parked |-> p, failures |-> f])

\* ABORT: the watchdog's terminal sequence at once, then the mission's own.
ExecuteAbort ==
  /\ Authorised /\ Handled
  /\ \E x \in Parking(parked, parkFailures) :
       Act("operator_abort", x) /\ Cancel(x.parked, x.failures)
  /\ trigger' = "none"
  /\ UNCHANGED <<silence, holding, owner, postureVars, diskVars>>

\* PARK: the mission's own Park if there is one; otherwise the mount's, and a
\* mount that refuses is a device fault.
ExecutePark ==
  /\ Authorised /\ Handled
  /\ IF mission = "flying"
       THEN /\ Cancel(parked, parkFailures)
            /\ UNCHANGED <<watchdogVars, holdActedOn>>
       ELSE \E x \in Parking(parked, parkFailures) :
              /\ UNCHANGED mission
              /\ IF x.ok
                   THEN Parked(x) /\ UNCHANGED <<watchdogVars, holdActedOn>>
                   ELSE \E y \in Parking(x.parked, x.failures) :
                          Act("device_fault", y) /\ Parked(y) /\ trigger' = "none"
  /\ UNCHANGED <<silence, holding, owner, postureVars, diskVars>>

\* Any command that meets a device fault: reported and acted on under the lock.
CommandFaults ==
  /\ Permitted /\ Handled
  /\ \E x \in Parking(parked, parkFailures) :
       Act("device_fault", x) /\ Parked(x)
  /\ trigger' = "none"
  /\ UNCHANGED <<silence, mission, holding, owner, postureVars, diskVars>>

\* Any other write of a pass fails: what is done stays done, the rest is skipped.
PassRaises ==
  /\ pc \in {"messages", "posture", "persist"} /\ StoreRefuses
  /\ UNCHANGED <<mountVars, silence, watchdogVars, recovered, mission,
                 holding, owner, postureVars, diskHold, diskMission,
                 request, historyVars>>

-----------------------------------------------------------------------------
(* pump: posture requests and a sustained loss *)

\* A request naming another run is passed over; arming is accepted only from
\* ATTENDED, and on simulated drivers.
TakeRequest ==
  \/ /\ \/ request.run # run
        \/ request.action = "ARM" /\ (posture # "ATTENDED" \/ RealDrivers)
     /\ pc' = "loss"
     /\ UNCHANGED <<batch, posture, trigger, storeFailures, armedFor>>
  \/ /\ request = [run |-> run, action |-> "ARM"]
     /\ posture = "ATTENDED" /\ ~RealDrivers
     /\ posture' = "UNATTENDED" /\ armedFor' = request.run
     /\ (pc' = "loss" /\ UNCHANGED <<batch, storeFailures>>) \/ StoreRefuses
     /\ UNCHANGED trigger
  \/ /\ request = [run |-> run, action |-> "DISARM"]
     /\ \/ pc' = "loss" /\ Disarm(TRUE) /\ UNCHANGED <<batch, storeFailures>>
        \/ DisarmUnsaved
     /\ UNCHANGED armedFor

\* _take_posture_requests
TakePostureRequest ==
  /\ pc = "posture" /\ request # NoRequest /\ request' = NoRequest /\ TakeRequest
  /\ UNCHANGED <<mountVars, silence, captureStopped, latched, unread,
                 recovered, mission, holding, owner, run, diskHold, diskMission,
                 historyVars>>

\* _check_sustained_link_loss
CheckLinkLoss ==
  /\ pc = "loss" \/ (pc = "posture" /\ request = NoRequest)
  /\ IF SustainedLimit > 0 /\ silence >= SustainedLimit
       THEN \/ pc' = "fly" /\ Disarm(TRUE) /\ UNCHANGED <<batch, storeFailures>>
            \/ DisarmUnsaved
       ELSE /\ pc' = "fly"
            /\ UNCHANGED <<batch, posture, trigger, storeFailures>>
  /\ UNCHANGED <<mountVars, silence, captureStopped, latched, unread,
                 recovered, mission, holding, owner, run, armedFor,
                 diskHold, diskMission, request, historyVars>>

-----------------------------------------------------------------------------
(* pump: the mission, under the device lock *)

\* _apply_watchdog_actions, a Park among them: the mission is over before the
\* runner can move the mount.  If the run cannot be saved the actions stay unread.
FlyCancelled ==
  /\ pc = "fly" /\ unread # "none" /\ Cancel(parked, parkFailures)
  /\ \/ /\ pc' = "persist" /\ unread' = "none"
        /\ IF unread = "disarm" THEN Disarm(FALSE)
           ELSE UNCHANGED <<posture, trigger>>
        /\ UNCHANGED <<batch, storeFailures>>
     \/ unread = "disarm" /\ DisarmUnsaved /\ UNCHANGED unread
  /\ UNCHANGED <<silence, captureStopped, latched, recovered, holding,
                 owner, run, armedFor, diskHold, diskMission, request, holdActedOn>>

\* The runner's pass, with no Park to read.
Flying(m) ==
  /\ pc = "fly" /\ unread = "none" /\ mission \in m
  /\ UNCHANGED <<silence, watchdogVars, recovered, holding, owner, run, armedFor,
                 diskHold, diskMission, request, holdActedOn>>

\* Nothing is due.
FlyHolds ==
  /\ Flying({"none", "flying", "unparked"}) /\ pc' = "persist"
  /\ UNCHANGED <<batch, mountVars, mission, posture, storeFailures, strayed>>

\* A slew: out to the target, a correction or a recovery.
FlyMoves ==
  /\ Flying({"flying"}) /\ pc' = "persist"
  /\ parked' = FALSE /\ strayed' = (strayed \/ latched)
  /\ UNCHANGED <<batch, parkFailures, mission, posture, storeFailures>>

\* The mission ends and parks.  A completed one whose Park failed tries again when
\* its idle window is over, a failed one does not; a HARDWARE_ERROR disarms as its
\* event is sent.
FlyEnds ==
  /\ Flying({"flying", "unparked"})
  /\ \E x \in Parking(parked, parkFailures) :
       /\ Parked(x)
       /\ \/ /\ mission' = IF x.ok THEN "none" ELSE "unparked"
             /\ pc' = "persist"
             /\ UNCHANGED <<batch, posture, storeFailures>>
          \/ /\ mission = "flying" /\ mission' = "none"
             /\ \/ pc' = "persist" /\ Disarm(FALSE) /\ UNCHANGED <<batch, storeFailures>>
                \/ DisarmUnsaved
                \/ /\ pc' = "persist"
                   /\ UNCHANGED <<batch, posture, storeFailures>>

\* The mission is kept on disk while it flies.
Persist ==
  /\ pc = "persist" /\ pc' = "link"
  /\ diskMission' = (mission = "flying" \/ (recovered /\ diskMission))
  /\ UNCHANGED <<mountVars, silence, watchdogVars, batch, recovered, mission,
                 holding, owner, postureVars, diskHold, storeFailures,
                 request, historyVars>>

-----------------------------------------------------------------------------
(* The world *)

Tick ==
  /\ Running /\ silence < Last /\ silence' = silence + 1
  /\ UNCHANGED <<mountVars, watchdogVars, loopVars, mission, holding,
                 owner, postureVars, diskVars, historyVars>>

\* run_request: the run it read may have died before the request is written.  When
\* in a pass it is written makes no difference before the pass looks for it.
AppendPostureRequest ==
  /\ pc = "posture" /\ request = NoRequest
  /\ \E r \in 1..run, a \in {"ARM", "DISARM"} :
       request' = [run |-> r, action |-> a]
  /\ UNCHANGED <<mountVars, silence, watchdogVars, loopVars, mission, holding,
                 owner, postureVars, diskHold, diskMission,
                 storeFailures, historyVars>>

-----------------------------------------------------------------------------
Recover == RestoreWeather \/ RestoreMission

Execute ==
  ExecuteGoto \/ ExecuteMove \/ ExecuteAbort \/ ExecutePark \/ CommandFaults

Handle == SessionUpdate \/ WeatherUpdate \/ WeatherUnsaved \/ ApprovalWithdrawn
          \/ Execute

Pump == PumpLink \/ Handle \/ TakePostureRequest \/ CheckLinkLoss
        \/ FlyCancelled \/ FlyHolds \/ FlyMoves \/ FlyEnds \/ Persist
        \/ PassRaises

Next ==
  \/ Start \/ Recover \/ Pump \/ Evaluate \/ Crash \/ Stop
  \/ Tick \/ AppendPostureRequest

Spec == Init /\ [][Next]_vars

\* The two threads run and the clock goes on while the process lives; nothing makes
\* it start, the link come up or an operator act.
Fairness ==
  WF_vars(Recover) /\ WF_vars(Pump) /\ WF_vars(Evaluate) /\ WF_vars(Tick)

FairSpec == Spec /\ Fairness

-----------------------------------------------------------------------------
(* What keeps the telescope safe *)

\* An agent is or was unattended only because an operator who had looked at this
\* very run armed it: not an arming meant for a process that has died since,
\* however late it is written or read.
ArmedForThisRun ==
  posture \in {"UNATTENDED", "DISARMED"} /\ pc # "down" => armedFor = run

\* A hold is never only a refusal of commands: from the moment it goes on, also
\* one taken up again after a restart, a Park is on its way or has been tried.
HoldIsActedOn ==
  holding => trigger # "none" \/ holdActedOn \/ storeFailures > 0

\* The agent is armed by an operator of this run only, and acts on every hold.
SafetyIsKept == TypeOK /\ ArmedForThisRun /\ HoldIsActedOn

\* A link that stays dead ends with the mount in Park for good, Parks that fail on
\* the way included, unless a command moved it behind the watchdog's latch.
DeadLinkParks == <>[](silence >= DeadAfter) => <>[](parked \/ strayed)

\* An observatory that refuses every command but PARK and ABORT, for the weather or
\* because it disarmed, ends with the mount in Park for good, unless a Park or a
\* write failed, or a command that came first moved the mount after the watchdog.
RefusingParks ==
  <>[]((holding \/ posture = "DISARMED") /\ pc # "down") =>
    <>[](parked \/ (strayed /\ ~holding) \/ parkFailures > 0 \/ storeFailures > 0)

=============================================================================
