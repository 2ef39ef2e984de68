--------------------------- MODULE MissionRunner ---------------------------
(***************************************************************************)
(* agent/darkview_agent/mission/runner.py: the state machine that flies    *)
(* one mission at a time, driven by pump() from the supervisor's loop.     *)
(*                                                                         *)
(* One action is one call into the runner (offer, cancel, request_capture, *)
(* one handler of pump, ...) made under the device lock, one step of a     *)
(* device, or one intervention of the watchdog's thread.  Pictures, sky    *)
(* positions and exposure settings are abstracted: what a plate solve, the *)
(* safety envelope or the image watch answers is a free choice.            *)
(***************************************************************************)
EXTENDS MissionTable, Integers

CONSTANTS
  MaxMissions,            \* missions offered in one behaviour
  MaxCaptures,            \* CAPTURE commands accepted in one behaviour
  MaxTime,                \* last instant of the clock
  MaxObserving,           \* MAX_OBSERVING_SECONDS, in ticks
  RetargetClose,          \* RETARGET_CLOSE_SECONDS, in ticks
  MaxSolveAttempts,       \* MAX_SOLVE_ATTEMPTS
  MaxCenteringIterations, \* MAX_CENTERING_ITERATIONS
  RequestedFrames         \* frames of one capture run

ASSUME RunnerBounds ==
  /\ MaxMissions \in Nat /\ MaxCaptures \in Nat
  /\ MaxTime \in Nat /\ MaxObserving \in Nat /\ RetargetClose \in Nat
  /\ MaxSolveAttempts \in Nat \ {0} /\ MaxCenteringIterations \in Nat \ {0}
  /\ RequestedFrames \in Nat \ {0}

\* A correction past the pole is reported as CENTERING_ITERATIONS_EXHAUSTED too;
\* it has a name of its own here because no iteration was used up.
FailureReasons ==
  {"none", "SAFETY_REFUSED", "PLATE_SOLVE_FAILED", "SLEW_TIMEOUT",
   "CENTERING_ITERATIONS_EXHAUSTED", "PAST_THE_POLE", "DEVICE_FAULT",
   "SESSION_EXPIRED", "CANCELLED"}

NoTime == -1              \* a deadline that is not set
NoCommand == 0            \* no CAPTURE is pending

VARIABLES
  mission, state, trail,  \* the mission, its state, the events of this step
  failureReason,          \* why it ended, "none" unless it failed
  acquired,               \* it reached OBSERVING once
  exposureStarted,        \* an acquisition or capture exposure is awaited
  solveAttempts, centeringIterations,
  measured,               \* a solve or centroid to correct from is known
  captureCommand,         \* the CAPTURE the run is kept for
  accepted,               \* CAPTUREs accepted so far; the last one's number
  framesCaptured,
  stack,                  \* the live stack
  delivered,              \* history: captures handed over, in order
  job,                    \* what the exposure running while OBSERVING is for
  stale,                  \* live_exposure_stale
  autoExposure, correcting,
  focus,                  \* no focus run, a move, an autofocus moving/exposing
  suspended,              \* capture_suspended
  unread,                 \* what the watchdog did and the loop has not applied
  parked, parkFailed,     \* the outcome of the runner's last Park
  now, sessionEnd, observingSince,
  slewing, camera         \* the devices

missionVars == <<mission, state, trail, failureReason>>
acquisitionVars ==
  <<acquired, exposureStarted, solveAttempts, centeringIterations, measured>>
captureVars ==
  <<captureCommand, accepted, framesCaptured, stack, delivered>>
liveVars == <<job, stale, autoExposure, correcting, focus>>
holdVars == <<suspended, unread>>
parkVars == <<parked, parkFailed>>
timeVars == <<now, sessionEnd, observingSince>>
deviceVars == <<slewing, camera>>

vars == <<missionVars, acquisitionVars, captureVars, liveVars, holdVars,
          parkVars, timeVars, deviceVars>>

Times == 0..MaxTime

\* The stack: what its frames were exposed for.
Stacks == SUBSET {"live", "capture"}

EmptyStack == {}

MissionTypeOK ==
  /\ mission \in 0..MaxMissions
  /\ state \in MissionStates
  /\ trail \in Seq(MissionStates)
  /\ failureReason \in FailureReasons

AcquisitionTypeOK ==
  /\ acquired \in BOOLEAN /\ exposureStarted \in BOOLEAN /\ measured \in BOOLEAN
  /\ solveAttempts \in 0..MaxSolveAttempts
  /\ centeringIterations \in 0..MaxCenteringIterations

CaptureTypeOK ==
  /\ captureCommand \in 0..MaxCaptures /\ accepted \in 0..MaxCaptures
  /\ framesCaptured \in 0..RequestedFrames
  /\ stack \in Stacks
  /\ delivered \in Seq(1..MaxCaptures)

LiveTypeOK ==
  /\ job \in {"none", "live", "ae", "solve"}
  /\ stale \in BOOLEAN /\ autoExposure \in BOOLEAN /\ correcting \in BOOLEAN
  /\ focus \in {"none", "move", "moving", "exposing"}

HoldTypeOK == suspended \in BOOLEAN /\ unread \in {"none", "stopped", "parked"}

ParkTypeOK == parked \in BOOLEAN /\ parkFailed \in BOOLEAN

TimeTypeOK ==
  /\ now \in Times
  /\ sessionEnd \in Times \cup {NoTime}
  /\ observingSince \in Times \cup {NoTime}

DeviceTypeOK == slewing \in BOOLEAN /\ camera \in {"idle", "exposing", "done"}

\* Every variable keeps its type: the counters of runner.py stay within their
\* ceilings (solves, corrections, frames), whatever the order of events.
TypeOK ==
  /\ MissionTypeOK /\ AcquisitionTypeOK /\ CaptureTypeOK /\ LiveTypeOK
  /\ HoldTypeOK /\ ParkTypeOK /\ TimeTypeOK /\ DeviceTypeOK

Init ==
  /\ mission = 0 /\ state = "SCHEDULED" /\ trail = <<>> /\ failureReason = "none"
  /\ acquired = FALSE /\ exposureStarted = FALSE
  /\ solveAttempts = 0 /\ centeringIterations = 0 /\ measured = FALSE
  /\ captureCommand = NoCommand /\ accepted = 0 /\ framesCaptured = 0
  /\ stack = EmptyStack /\ delivered = <<>>
  /\ job = "none" /\ stale = FALSE /\ autoExposure = FALSE
  /\ correcting = FALSE /\ focus = "none"
  /\ suspended = FALSE /\ unread = "none"
  /\ parked = FALSE /\ parkFailed = FALSE
  /\ now = 0 /\ sessionEnd = NoTime /\ observingSince = NoTime
  /\ slewing = FALSE /\ camera = "idle"

-----------------------------------------------------------------------------
(* What the runner reads of itself *)

IsActive == mission # 0 /\ state \notin EndedStates

\* seconds_left <= 0: the session's end or the ceiling on observing.
PastDeadline ==
  \/ sessionEnd # NoTime /\ sessionEnd <= now
  \/ observingSince # NoTime /\ now >= observingSince + MaxObserving

\* At least RetargetClose ticks are left.
TimeToRetarget ==
  /\ sessionEnd # NoTime => now + RetargetClose <= sessionEnd
  /\ observingSince # NoTime =>
       now + RetargetClose <= observingSince + MaxObserving

CapturePending ==
  captureCommand # NoCommand \/ state \in {"CAPTURING", "PROCESSING"}

\* pump() runs after the watchdog's actions were applied, under one lock.
Pumping(s) == mission # 0 /\ unread = "none" /\ state = s

\* The handler runs: the deadline has not cut in before it.
Handling(s) == Pumping(s) /\ ~PastDeadline

\* The handler's camera part: not while capture is suspended.
HandlingCamera(s) == Handling(s) /\ ~suspended

\* _finish_session of a mission that reached its object
Finishing == PastDeadline /\ acquired
-----------------------------------------------------------------------------
(* What several handlers do *)

Quiet == trail' = <<>> /\ UNCHANGED <<mission, state, failureReason>>

\* _transition, once for each state of path.
Report(path) ==
  /\ trail' = path
  /\ state' = path[Len(path)]
  /\ UNCHANGED <<mission, failureReason>>

\* Mutant: a failed Park is logged and not recorded.
ParkUnrecorded ==
  /\ focus' = "none" /\ job' = "none"
  /\ autoExposure' = FALSE /\ correcting' = FALSE
  /\ UNCHANGED <<stale, parkFailed>>
  /\ camera' \in {"idle", camera}
  /\ \/ parked' = TRUE /\ slewing' = FALSE
     \/ parked' = FALSE /\ slewing' \in {FALSE, slewing}

\* _park: the focus run, the exposure and the slew are stopped before Park, each
\* attempted whatever became of the one before; the outcome is recorded.
ParkMount ==
  /\ focus' = "none" /\ job' = "none"
  /\ autoExposure' = FALSE /\ correcting' = FALSE
  /\ UNCHANGED stale
  /\ camera' \in {"idle", camera}
  /\ \/ parked' = TRUE /\ parkFailed' = FALSE /\ slewing' = FALSE
     \/ parked' = FALSE /\ parkFailed' = TRUE /\ slewing' \in {FALSE, slewing}

\* _fail, after the transitions this pump has already made
FailAlong(path, reason) ==
  /\ trail' = path /\ state' = path[Len(path)]
  /\ failureReason' = reason
  /\ UNCHANGED mission
  /\ ParkMount

Fail(ending, reason) == FailAlong(<<ending>>, reason)

\* LiveStack.reset: the stack starts again.
ResetStack == stack' = EmptyStack

\* _begin_slew
BeginSlew ==
  /\ ResetStack
  /\ slewing' = TRUE
  /\ Report(<<"SLEWING">>)

\* LiveStack.add: the first frame starts the stack, a later one is averaged in
\* or refused.
StackAfter(kind) ==
  LET added == stack \cup {kind}
  IN IF stack = EmptyStack THEN {added} ELSE {stack, added}

\* _enter_observing
EnterObserving(gaveUp) ==
  /\ Report(<<"OBSERVING">>)
  /\ acquired' = TRUE
  /\ exposureStarted' = FALSE
  /\ observingSince' = IF observingSince = NoTime THEN now ELSE observingSince
  /\ autoExposure' = IF gaveUp THEN autoExposure ELSE TRUE
  /\ UNCHANGED <<job, stale, correcting, focus, now, sessionEnd>>

-----------------------------------------------------------------------------
(* pump: acquiring the object *)

PrepareRefused ==
  /\ Handling("PREPARING")
  /\ Fail("FAILED", "SAFETY_REFUSED")
  /\ UNCHANGED <<acquisitionVars, captureVars, holdVars, timeVars>>

PrepareAndSlew ==
  /\ Handling("PREPARING")
  /\ BeginSlew
  /\ UNCHANGED <<acquisitionVars, captureCommand, accepted, framesCaptured,
                 delivered, liveVars, holdVars, parkVars, timeVars, camera>>

SlewTimeout ==
  /\ Handling("SLEWING") /\ slewing
  /\ Fail("HARDWARE_ERROR", "SLEW_TIMEOUT")
  /\ UNCHANGED <<acquisitionVars, captureVars, holdVars, timeVars>>

SlewDone ==
  /\ Handling("SLEWING") /\ ~slewing
  /\ Report(<<"VERIFYING">>)
  /\ UNCHANGED <<acquisitionVars, captureVars, liveVars, holdVars, parkVars,
                 timeVars, deviceVars>>

VerifyExpose ==
  /\ HandlingCamera("VERIFYING") /\ ~exposureStarted
  /\ camera' = "exposing" /\ exposureStarted' = TRUE
  /\ Quiet
  /\ UNCHANGED <<acquired, solveAttempts, centeringIterations, measured,
                 captureVars, liveVars, holdVars, parkVars, timeVars, slewing>>

\* The frame is read and an attempt is counted; what follows depends on it.
ReadSolveFrame(found) ==
  /\ HandlingCamera("VERIFYING") /\ exposureStarted /\ camera = "done"
  /\ solveAttempts' = solveAttempts + 1
  /\ measured' = found
  /\ UNCHANGED <<centeringIterations, captureVars, holdVars>>

SolveFailed ==
  /\ ReadSolveFrame(FALSE)
  /\ \/ /\ solveAttempts' < MaxSolveAttempts
        /\ exposureStarted' = FALSE /\ camera' = "idle"
        /\ Quiet
        /\ UNCHANGED <<acquired, liveVars, parkVars, timeVars, slewing>>
     \/ /\ solveAttempts' >= MaxSolveAttempts /\ acquired
        /\ EnterObserving(TRUE)
        /\ camera' = "idle"
        /\ UNCHANGED <<parkVars, slewing>>
     \/ /\ solveAttempts' >= MaxSolveAttempts /\ ~acquired
        /\ exposureStarted' = FALSE
        /\ Fail("FAILED", "PLATE_SOLVE_FAILED")
        /\ UNCHANGED <<acquired, timeVars>>

SolvedCentred ==
  /\ ReadSolveFrame(TRUE)
  /\ EnterObserving(FALSE)
  /\ camera' = "idle"
  /\ UNCHANGED <<parkVars, slewing>>

\* A mission already acquired goes to CENTERING only with an iteration left.
MayCentre == acquired => centeringIterations < MaxCenteringIterations

\* A mission already acquired is not failed over a correction it cannot make.
SolvedOffCentre ==
  /\ ReadSolveFrame(TRUE)
  /\ camera' = "idle"
  /\ \/ /\ acquired
        /\ EnterObserving(TRUE)
     \/ /\ MayCentre
        /\ Report(<<"CENTERING">>)
        /\ exposureStarted' = FALSE
        /\ UNCHANGED <<acquired, liveVars, timeVars>>
  /\ UNCHANGED <<parkVars, slewing>>

\* Mutant: like every other state, CENTERING is not handled past the deadline.
CenteringInTimeOnly == Handling("CENTERING")

\* CENTERING of an acquired mission runs even past the deadline; its slew is
\* aborted at the next pump.
HandlingCentering == Pumping("CENTERING") /\ (PastDeadline => acquired)

CenteringExhausted ==
  /\ HandlingCentering
  /\ centeringIterations >= MaxCenteringIterations
  /\ Fail("FAILED", "CENTERING_ITERATIONS_EXHAUSTED")
  /\ UNCHANGED <<acquisitionVars, captureVars, holdVars, timeVars>>

CorrectPointing ==
  /\ HandlingCentering
  /\ centeringIterations < MaxCenteringIterations
  /\ centeringIterations' = centeringIterations + 1
  /\ solveAttempts' = 0
  /\ UNCHANGED <<acquired, exposureStarted, measured, captureCommand, accepted,
                 framesCaptured, delivered, holdVars, timeVars>>
  /\ \/ /\ Fail("FAILED", "SAFETY_REFUSED")
        /\ UNCHANGED stack
     \/ /\ Fail("FAILED", "PAST_THE_POLE")
        /\ UNCHANGED stack
     \/ /\ BeginSlew
        /\ UNCHANGED <<liveVars, parkVars, camera>>

-----------------------------------------------------------------------------
(* pump: observing *)

\* The stack, the auto-exposure run and the measurement after _finish_job: the
\* frame of a finished exposure is used for what it was taken for, unless the
\* pointing moved under it.
JobOutcomes ==
  LET kept == [stack |-> stack, ae |-> autoExposure, measured |-> measured]
  IN IF job = "none" \/ stale \/ slewing THEN {kept}
     ELSE CASE job = "live" ->
                 IF focus # "none" \/ captureCommand # NoCommand
                   THEN {kept}
                   ELSE {[kept EXCEPT !.stack = s] : s \in StackAfter("live")}
            [] job = "ae" /\ autoExposure ->
                 {kept, [kept EXCEPT !.stack = EmptyStack, !.ae = FALSE]}
            [] job = "solve" -> {[kept EXCEPT !.measured = m] : m \in BOOLEAN}
            [] OTHER -> {kept}

\* _do_observing up to the focus run: the exposure in hand is over.
ObservingFrame(outcome) ==
  /\ Handling("OBSERVING")
  /\ job # "none" => camera = "done"
  /\ outcome \in JobOutcomes
  /\ stale' = (stale /\ job = "none")
  /\ UNCHANGED <<acquired, exposureStarted, solveAttempts,
                 centeringIterations, accepted, framesCaptured, delivered,
                 holdVars, parkVars, timeVars>>

CameraAfterJob == IF job = "none" THEN camera ELSE "idle"

\* One pump of a focus run that does not finish it.
FocusStep ==
  \E outcome \in JobOutcomes :
    /\ ObservingFrame(outcome)
    /\ \/ focus = "moving" /\ focus' = "exposing" /\ camera' = "exposing"
       \/ focus = "exposing" /\ camera = "done"
            /\ focus' = "moving" /\ camera' = "idle"
       \/ focus \in {"move", "moving"} /\ job # "none"
            /\ UNCHANGED focus /\ camera' = "idle"
    /\ job' = "none"
    /\ stack' = outcome.stack
    /\ autoExposure' = outcome.ae /\ measured' = outcome.measured
    /\ Quiet
    /\ UNCHANGED <<captureCommand, correcting, slewing>>

\* The focus run, if there was one, is over: the stack was of the old focus.
FocusOver(outcome) ==
  /\ focus \in {"none", "move", "moving"} /\ focus' = "none"
  /\ stack' = IF focus = "none" THEN outcome.stack ELSE EmptyStack

ObserveToCapture ==
  \E outcome \in JobOutcomes :
    /\ ObservingFrame(outcome)
    /\ FocusOver(outcome)
    /\ captureCommand # NoCommand
    /\ Report(<<"CAPTURING">>)
    /\ job' = "none" /\ camera' = CameraAfterJob
    /\ autoExposure' = outcome.ae /\ measured' = outcome.measured
    /\ UNCHANGED <<captureCommand, correcting, slewing>>

\* Nothing may be exposed now: capture is suspended or the mount is moving.
ObserveHold ==
  \E outcome \in JobOutcomes :
    /\ ObservingFrame(outcome)
    /\ FocusOver(outcome)
    /\ captureCommand = NoCommand /\ (suspended \/ slewing)
    /\ job # "none" \/ focus # "none"
    /\ Quiet
    /\ job' = "none" /\ camera' = CameraAfterJob
    /\ autoExposure' = outcome.ae /\ measured' = outcome.measured
    /\ UNCHANGED <<captureCommand, correcting, slewing>>

\* _start_job
StartJob(kind, outcome) ==
  /\ job' = kind /\ camera' = "exposing"
  /\ correcting' = FALSE
  /\ measured' = outcome.measured
  /\ UNCHANGED slewing

\* _next_job: an auto-exposure try, a solve, a re-centring slew or a live frame.
\* Which one the image watch asks for is free; a corrective slew needs a
\* measurement and the envelope's consent, or a live frame is taken instead.
NextJob(outcome) ==
  LET kept == IF focus # "none" \/ correcting THEN EmptyStack
              ELSE outcome.stack
  IN
  /\ ObservingFrame(outcome)
  /\ focus \in {"none", "move", "moving"} /\ focus' = "none"
  /\ captureCommand = NoCommand /\ ~suspended /\ ~slewing
  /\ \/ /\ StartJob("ae", outcome) /\ autoExposure' = TRUE
        /\ stack' = kept
     \/ /\ ~outcome.ae /\ autoExposure' = FALSE
        /\ stack' = kept
        /\ StartJob("solve", outcome) \/ StartJob("live", outcome)
     \/ /\ ~outcome.ae /\ autoExposure' = FALSE
        /\ outcome.measured /\ measured' = FALSE
        /\ slewing' = TRUE /\ correcting' = TRUE
        /\ stack' = kept
        /\ job' = "none" /\ camera' = CameraAfterJob
  /\ Quiet
  /\ UNCHANGED captureCommand

ObserveNextJob == \E outcome \in JobOutcomes : NextJob(outcome)

-----------------------------------------------------------------------------
(* pump: capturing, and the end of the slot *)

CaptureExpose ==
  /\ HandlingCamera("CAPTURING") /\ ~exposureStarted
  /\ camera' = "exposing" /\ exposureStarted' = TRUE
  /\ Quiet
  /\ UNCHANGED <<acquired, solveAttempts, centeringIterations, measured,
                 captureVars, liveVars, holdVars, parkVars, timeVars, slewing>>

CaptureFrame ==
  /\ HandlingCamera("CAPTURING") /\ exposureStarted /\ camera = "done"
  /\ camera' = "idle" /\ exposureStarted' = FALSE
  /\ stack' \in StackAfter("capture")
  /\ framesCaptured' = framesCaptured + 1
  /\ IF framesCaptured' >= RequestedFrames
       THEN Report(<<"PROCESSING">>)
       ELSE Quiet
  /\ UNCHANGED <<acquired, solveAttempts, centeringIterations, measured,
                 captureCommand, accepted, delivered, liveVars,
                 holdVars, parkVars, timeVars, slewing>>

\* Mutant: the command is kept after its image is handed over.
DeliverAndKeep ==
  /\ delivered' = IF captureCommand # NoCommand /\ stack # EmptyStack
                    THEN Append(delivered, captureCommand) ELSE delivered
  /\ UNCHANGED <<captureCommand, accepted, framesCaptured>>

\* _deliver_capture: the command is cleared as its image is handed over; a run
\* without a stacked frame has nothing to hand over.
DeliverCapture ==
  /\ captureCommand' = NoCommand
  /\ delivered' = IF captureCommand # NoCommand /\ stack # EmptyStack
                    THEN Append(delivered, captureCommand) ELSE delivered
  /\ UNCHANGED <<accepted, framesCaptured>>

ProcessAndObserve ==
  /\ Handling("PROCESSING")
  /\ DeliverCapture
  /\ ResetStack
  /\ exposureStarted' = FALSE
  /\ Report(<<"OBSERVING">>)
  /\ UNCHANGED <<acquired, solveAttempts, centeringIterations, measured,
                 liveVars, holdVars, parkVars, timeVars, deviceVars>>

ProcessAndComplete ==
  /\ Pumping("PROCESSING") /\ PastDeadline
  /\ DeliverCapture
  /\ Report(<<"COMPLETE">>)
  /\ ParkMount
  /\ UNCHANGED <<acquisitionVars, stack, holdVars, timeVars>>

\* _finish_session, a mission that never reached its object
ExpireUnacquired ==
  /\ \E s \in LiveMissionStates : Pumping(s)
  /\ PastDeadline /\ ~acquired
  /\ Fail("CANCELLED", "SESSION_EXPIRED")
  /\ UNCHANGED <<acquisitionVars, captureVars, holdVars, timeVars>>

\* _finish_session, a capture in flight is flushed with the frames it has
FlushCapture ==
  /\ Pumping("CAPTURING") /\ Finishing
  /\ camera' = "idle" /\ exposureStarted' = FALSE
  /\ Report(<<"PROCESSING">>)
  /\ UNCHANGED <<acquired, solveAttempts, centeringIterations, measured,
                 captureVars, liveVars, holdVars, parkVars, timeVars, slewing>>

\* Mutant: a slew is closed off without the states in between.
StraightToComplete ==
  [s \in {"SLEWING", "VERIFYING", "OBSERVING"} |-> <<"COMPLETE">>]

\* The states _finish_session walks from each state it completes from.
WayToComplete ==
  [s \in {"SLEWING", "VERIFYING", "OBSERVING"} |->
     CASE s = "SLEWING"   -> <<"VERIFYING", "OBSERVING", "COMPLETE">>
       [] s = "VERIFYING" -> <<"OBSERVING", "COMPLETE">>
       [] OTHER           -> <<"COMPLETE">>]

\* _finish_session, otherwise: walked back to OBSERVING, completed and parked
FinishSession ==
  /\ \E s \in DOMAIN WayToComplete : Pumping(s) /\ Report(WayToComplete[s])
  /\ Finishing
  /\ exposureStarted' = (exposureStarted /\ state = "OBSERVING")
  /\ ParkMount
  /\ UNCHANGED <<acquired, solveAttempts, centeringIterations, measured,
                 captureVars, holdVars, timeVars>>

\* _park_when_idle: only COMPLETE retries a Park that failed.
ParkWhenIdle ==
  /\ Pumping("COMPLETE") /\ ~parked
  /\ ParkMount
  /\ Quiet
  /\ UNCHANGED <<acquisitionVars, captureVars, holdVars, timeVars>>

\* The handler, or the end of the slot, calls a device in this state.
TouchesDevice ==
  CASE state = "CENTERING" -> centeringIterations < MaxCenteringIterations
    [] state = "OBSERVING" ->
         \/ job # "none"
         \/ ~PastDeadline /\ focus # "none"
         \/ ~PastDeadline /\ captureCommand = NoCommand /\ ~suspended
    [] state \in {"VERIFYING", "CAPTURING"} -> PastDeadline \/ ~suspended
    [] OTHER -> state \in {"PREPARING", "SLEWING"}

\* A DeviceError in a handler ends the mission wherever it was.
DeviceFault ==
  /\ \E s \in LiveMissionStates : Pumping(s)
  /\ PastDeadline => acquired
  /\ TouchesDevice
  /\ \/ FailAlong(<<"HARDWARE_ERROR">>, "DEVICE_FAULT")
     \/ /\ state = "SLEWING" /\ PastDeadline
        /\ FailAlong(<<"VERIFYING", "HARDWARE_ERROR">>, "DEVICE_FAULT")
  /\ UNCHANGED <<acquisitionVars, captureVars, holdVars, timeVars>>

-----------------------------------------------------------------------------
(* Commands, and what the supervisor tells the runner *)

\* offer, with the session's expiresAt: a fresh _Progress.
Offer ==
  /\ ~IsActive /\ mission < MaxMissions
  /\ mission' = mission + 1
  /\ state' = "PREPARING" /\ trail' = <<"PREPARING">> /\ failureReason' = "none"
  /\ acquired' = FALSE /\ exposureStarted' = FALSE /\ measured' = FALSE
  /\ solveAttempts' = 0 /\ centeringIterations' = 0
  /\ captureCommand' = NoCommand /\ framesCaptured' = 0
  /\ job' = "none" /\ stale' = FALSE /\ autoExposure' = FALSE
  /\ correcting' = FALSE /\ focus' = "none"
  /\ suspended' = FALSE
  /\ parked' = FALSE /\ parkFailed' = FALSE
  /\ sessionEnd' \in {t \in Times : t > now} \cup {NoTime}
  /\ observingSince' = NoTime
  /\ UNCHANGED <<accepted, stack, delivered, unread, now,
                 deviceVars>>

\* cancel, for an ABORT or PARK command
Cancel ==
  /\ IsActive
  /\ Fail("CANCELLED", "CANCELLED")
  /\ UNCHANGED <<acquisitionVars, captureVars, holdVars, timeVars>>

\* request_capture: the run starts from an empty stack.
RequestCapture ==
  /\ IsActive /\ state \notin {"CAPTURING", "PROCESSING"}
  /\ accepted < MaxCaptures
  /\ accepted' = accepted + 1
  /\ captureCommand' = accepted + 1
  /\ framesCaptured' = 0 /\ exposureStarted' = FALSE /\ autoExposure' = FALSE
  /\ ResetStack
  /\ Quiet
  /\ UNCHANGED <<acquired, solveAttempts, centeringIterations, measured,
                 delivered, job, stale, correcting, focus, holdVars, parkVars,
                 timeVars, deviceVars>>

\* request_focus: a move to a position, or an autofocus
RequestFocus ==
  /\ IsActive /\ state = "OBSERVING" /\ focus = "none"
  /\ focus' \in {"move", "moving"}
  /\ Quiet
  /\ UNCHANGED <<acquisitionVars, captureVars, job, stale, autoExposure,
                 correcting, holdVars, parkVars, timeVars, deviceVars>>

\* pointing_changed: only while OBSERVING does the stack start again.
PointingChanged ==
  IF mission # 0 /\ state = "OBSERVING"
    THEN ResetStack /\ stale' = (stale \/ job # "none")
    ELSE UNCHANGED <<stack, stale>>

\* A NUDGE, or a RECENTER of the running mission, moves the mount.
NudgeOrRecenter ==
  /\ ~slewing /\ slewing' = TRUE
  /\ PointingChanged
  /\ Quiet
  /\ UNCHANGED <<acquisitionVars, captureCommand, accepted, framesCaptured,
                 delivered, job, autoExposure, correcting, focus, holdVars,
                 parkVars, timeVars, camera>>

\* _execute_retarget and retarget; the dwell lock only ever refuses.
Retarget ==
  /\ IsActive /\ state = "OBSERVING"
  /\ ~CapturePending /\ focus = "none" /\ ~slewing
  /\ TimeToRetarget
  /\ camera' = IF job = "none" THEN camera ELSE "idle"
  /\ job' = "none" /\ autoExposure' = FALSE /\ correcting' = FALSE
  /\ stale' = FALSE
  /\ centeringIterations' = 0 /\ solveAttempts' = 0 /\ measured' = FALSE
  /\ BeginSlew
  /\ UNCHANGED <<acquired, exposureStarted, captureCommand, accepted,
                 framesCaptured, delivered, focus, holdVars, parkVars,
                 timeVars>>

\* set_session_end and end_session
SetSessionEnd ==
  /\ IsActive
  /\ sessionEnd' \in {t \in Times : t >= now}
  /\ Quiet
  /\ UNCHANGED <<acquisitionVars, captureVars, liveVars, holdVars, parkVars,
                 now, observingSince, deviceVars>>

-----------------------------------------------------------------------------
(* The watchdog's thread, and the loop applying what it did *)

\* A lost heartbeat: the exposure is aborted, the mount keeps tracking.
WatchdogStopsCapture ==
  /\ mission # 0 /\ unread = "none"
  /\ camera' = "idle" /\ unread' = "stopped"
  /\ Quiet
  /\ UNCHANGED <<acquisitionVars, captureVars, liveVars, suspended, parkVars,
                 timeVars, slewing>>

\* A dead link, a fault in a command, an abort or a weather hold: the watchdog
\* stops capture and parks, or fails to.
WatchdogParks ==
  /\ mission # 0 /\ unread # "parked"
  /\ camera' \in {"idle", camera}
  /\ slewing' \in {FALSE, slewing}
  /\ unread' = "parked"
  /\ Quiet
  /\ UNCHANGED <<acquisitionVars, captureVars, liveVars, suspended, parkVars,
                 timeVars>>

\* Mutant: the aborted exposure of OBSERVING is still awaited.
SuspendKeepingJob ==
  suspended' = TRUE /\ exposureStarted' = FALSE /\ UNCHANGED job

SuspendCapture == suspended' = TRUE /\ exposureStarted' = FALSE /\ job' = "none"

ApplyCaptureStop ==
  /\ unread = "stopped" /\ unread' = "none"
  /\ SuspendCapture
  /\ Quiet
  /\ UNCHANGED <<acquired, solveAttempts, centeringIterations, measured,
                 captureVars, stale, autoExposure, correcting, focus, parkVars,
                 timeVars, deviceVars>>

ApplyPark ==
  /\ unread = "parked" /\ unread' = "none"
  /\ IF IsActive
       THEN Fail("CANCELLED", "CANCELLED")
       ELSE Quiet /\ UNCHANGED <<liveVars, parkVars, deviceVars>>
  /\ UNCHANGED <<acquisitionVars, captureVars, suspended, timeVars>>

\* resume_capture, on every pass with the link online
ResumeCapture ==
  /\ suspended /\ unread = "none"
  /\ suspended' = FALSE
  /\ Quiet
  /\ UNCHANGED <<acquisitionVars, captureVars, liveVars, unread, parkVars,
                 timeVars, deviceVars>>

-----------------------------------------------------------------------------
(* Devices and time *)

SlewSettles ==
  /\ slewing /\ slewing' = FALSE
  /\ Quiet
  /\ UNCHANGED <<acquisitionVars, captureVars, liveVars, holdVars, parkVars,
                 timeVars, camera>>

ExposureDone ==
  /\ camera = "exposing" /\ camera' = "done"
  /\ Quiet
  /\ UNCHANGED <<acquisitionVars, captureVars, liveVars, holdVars, parkVars,
                 timeVars, slewing>>

Tick ==
  /\ now < MaxTime /\ now' = now + 1
  /\ Quiet
  /\ UNCHANGED <<acquisitionVars, captureVars, liveVars, holdVars, parkVars,
                 sessionEnd, observingSince, deviceVars>>

-----------------------------------------------------------------------------
Acquire ==
  \/ PrepareRefused \/ PrepareAndSlew \/ SlewTimeout \/ SlewDone
  \/ VerifyExpose \/ SolveFailed \/ SolvedCentred \/ SolvedOffCentre
  \/ CenteringExhausted \/ CorrectPointing

Observe == FocusStep \/ ObserveToCapture \/ ObserveHold \/ ObserveNextJob

CaptureAndFinish ==
  \/ CaptureExpose \/ CaptureFrame \/ ProcessAndObserve \/ ProcessAndComplete
  \/ ExpireUnacquired \/ FlushCapture \/ FinishSession \/ ParkWhenIdle

Handlers == Acquire \/ Observe \/ CaptureAndFinish

Pump == Handlers \/ DeviceFault

Commands ==
  \/ Offer \/ Cancel \/ RequestCapture \/ RequestFocus \/ NudgeOrRecenter
  \/ Retarget \/ SetSessionEnd

WatchdogSteps == WatchdogStopsCapture \/ WatchdogParks

Apply == ApplyCaptureStop \/ ApplyPark

Environment == SlewSettles \/ ExposureDone \/ Tick

Next ==
  \/ Pump \/ Commands \/ WatchdogSteps \/ Apply \/ ResumeCapture
  \/ Environment

Spec == Init /\ [][Next]_vars

\* The loop applies and pumps for ever, in one lock section (so the watchdog
\* cannot get between the two each time: strong fairness), devices finish what
\* they were told, time passes.  Nothing is assumed of commands, of the watchdog
\* or of the link, and no device has to fail.
Fairness ==
  /\ SF_vars(Handlers) /\ WF_vars(Apply)
  /\ WF_vars(SlewSettles) /\ WF_vars(ExposureDone) /\ WF_vars(Tick)

FairSpec == Spec /\ Fairness

-----------------------------------------------------------------------------
(* What makes the runner correct *)

\* The events of a mission, pass after pass, walk the table the cloud accepts:
\* none of them would be refused, the shortcuts _finish_session takes included.
Lifecycle == INSTANCE MissionLifecycle
LifecycleSpec == Lifecycle!Spec

\* Every way a mission ends attempts Park and records its outcome: it ends
\* parked, or with the failure written down, never with neither.
EndedMissionParkedOrSaysWhy ==
  mission # 0 /\ state \in EndedStates => parked # parkFailed

\* A capture is handed over at most once, whatever order of captures, suspends,
\* faults and slot ends leads there.
NoCaptureDeliveredTwice ==
  \A i, j \in 1..Len(delivered) : i # j => delivered[i] # delivered[j]

\* A mission completes with no image left behind: a capture still pending then
\* has no frame stacked for it.
CompleteLeavesNoImage ==
  state = "COMPLETE" /\ captureCommand # NoCommand
    => "capture" \notin stack

\* Live frames and capture frames, exposed at different settings, are never
\* averaged into one stack.
OneExposurePerStack == ~({"live", "capture"} \subseteq stack)

\* The runner never waits for an exposure of its own that is not running: after
\* the watchdog aborts one, suspend_capture has forgotten it before the next
\* pump.  (A focus run keeps its own books: one that is aborted waits for its
\* deadline.)
AwaitedExposureIsRunning ==
  unread = "none" /\ IsActive /\ (exposureStarted \/ job # "none")
    => camera # "idle"

\* While capture is suspended no exposure is started, except by an autofocus
\* already under way.
SuspendedHoldsTheCamera ==
  [][suspended /\ camera # "exposing" /\ camera' = "exposing"
       => focus = "moving"]_vars

\* Once a mission reached its object, no plate solve that fails and no offset
\* that cannot be centred fails it.
ImageNeverFailsAcquired ==
  acquired => failureReason \notin {"PLATE_SOLVE_FAILED",
                                    "CENTERING_ITERATIONS_EXHAUSTED"}

\* How a mission ends tells whether it observed: it completes only if it reached
\* its object, and expires only if it did not.
EndingTellsWhetherObserved ==
  /\ state = "COMPLETE" => acquired
  /\ failureReason = "SESSION_EXPIRED" => ~acquired

\* CENTERING corrects from a measurement: the assertion in _correction holds.
CenteringHasMeasurement == state = "CENTERING" => measured

\* However a mission ends: it ends parked or with the failure to park written
\* down, with no image left behind, and its ending is true of what it observed.
EndingIsTrue ==
  /\ EndedMissionParkedOrSaysWhy /\ CompleteLeavesNoImage
  /\ ImageNeverFailsAcquired /\ EndingTellsWhetherObserved

\* Frames and captures keep their books, whatever suspends, retargets and faults
\* come between: no counter passes its ceiling, no stack mixes exposures, no
\* capture is handed over twice.
CapturesAreSound == TypeOK /\ OneExposurePerStack /\ NoCaptureDeliveredTwice

\* A mission with a session end is over some time after it, whatever was going
\* on: a suspended capture, a focus run, a slew, a retarget.
SessionEndsMission == IsActive /\ sessionEnd # NoTime ~> ~IsActive

=============================================================================
