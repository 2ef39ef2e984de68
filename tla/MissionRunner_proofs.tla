------------------------ MODULE MissionRunner_proofs ------------------------
(***************************************************************************)
(* Proofs about MissionRunner, for every number of missions, captures and  *)
(* frames and every bound.  The invariant is built in layers: TypeInv is   *)
(* inductive by itself; each layer after it is inductive given TypeInv.    *)
(***************************************************************************)
EXTENDS MissionRunner, TLAPS

-----------------------------------------------------------------------------
(* What the helpers of the model do *)

\* _park leaves every device variable in its type, no focus run and no exposure
\* of OBSERVING, and exactly one of "parked" and "failed" written down.
LEMMA ParkMountEffect ==
  ASSUME TypeOK, ParkMount
  PROVE  /\ LiveTypeOK' /\ ParkTypeOK' /\ DeviceTypeOK'
         /\ parked' # parkFailed'
         /\ job' = "none" /\ focus' = "none"
<1>1. camera' \in {"idle", "exposing", "done"}
  BY DEF TypeOK, DeviceTypeOK, ParkMount
<1>2. /\ slewing' \in BOOLEAN /\ parked' \in BOOLEAN /\ parkFailed' \in BOOLEAN
      /\ parked' # parkFailed'
  BY DEF TypeOK, DeviceTypeOK, ParkMount
<1> QED
  BY <1>1, <1>2 DEF TypeOK, LiveTypeOK, ParkTypeOK, DeviceTypeOK, ParkMount

\* LiveStack.add keeps the stack's type and adds no frame but the one given.
LEMMA StackAfterEffect ==
  ASSUME TypeOK, NEW kind \in {"live", "capture"}, NEW st \in StackAfter(kind)
  PROVE  st \in Stacks /\ st \subseteq stack \cup {kind}
BY DEF TypeOK, CaptureTypeOK, Stacks, StackAfter

\* _finish_job keeps the types, and adds a live frame only while no CAPTURE is
\* pending.
LEMMA JobOutcomesEffect ==
  ASSUME TypeOK, NEW o \in JobOutcomes
  PROVE  /\ o.stack \in Stacks /\ o.ae \in BOOLEAN /\ o.measured \in BOOLEAN
         /\ \/ o.stack \subseteq stack
            \/ captureCommand = NoCommand /\ o.stack \subseteq
               stack \cup {"live"}
<1> DEFINE kept == [stack |-> stack, ae |-> autoExposure, measured |->
   measured]
<1>0. /\ stack \in Stacks /\ autoExposure \in BOOLEAN /\ measured \in BOOLEAN
      /\ EmptyStack \in Stacks /\ EmptyStack = {}
  BY
     DEF TypeOK, CaptureTypeOK, LiveTypeOK, AcquisitionTypeOK, EmptyStack,
         Stacks
<1>1. CASE o = kept
  BY <1>0, <1>1
<1>2. CASE o = [kept EXCEPT !.stack = EmptyStack, !.ae = FALSE]
  BY <1>0, <1>2
<1>3. CASE \E m \in BOOLEAN : o = [kept EXCEPT !.measured = m]
  BY <1>0, <1>3
<1>4. CASE captureCommand = NoCommand /\ \E s \in StackAfter("live") : o =
   [kept EXCEPT !.stack = s]
  BY <1>0, <1>4, StackAfterEffect
<1> QED
  BY <1>1, <1>2, <1>3, <1>4 DEF JobOutcomes

\* LiveStack.reset leaves a stack of the right type, without frames.
LEMMA EmptyStackType == EmptyStack \in Stacks /\ EmptyStack = {}
BY DEF EmptyStack, Stacks

\* _deliver_capture appends a command number to what was handed over.
LEMMA DeliverCaptureEffect ==
  ASSUME TypeOK, DeliverCapture
  PROVE  delivered' \in Seq(1..MaxCaptures)
<1>1. CASE captureCommand # NoCommand /\ stack # EmptyStack
  BY <1>1, RunnerBounds
     DEF TypeOK, CaptureTypeOK, DeliverCapture, NoCommand, RunnerBounds
<1>2. CASE ~(captureCommand # NoCommand /\ stack # EmptyStack)
  BY <1>2 DEF TypeOK, CaptureTypeOK, DeliverCapture
<1> QED
  BY <1>1, <1>2

\* Every way _finish_session takes ends in COMPLETE.
LEMMA WayToCompleteType ==
  ASSUME NEW s \in {"SLEWING", "VERIFYING", "OBSERVING"}
  PROVE  /\ WayToComplete[s] \in Seq(MissionStates)
         /\ WayToComplete[s][Len(WayToComplete[s])] = "COMPLETE"
<1> USE DEF MissionStates, LiveMissionStates, TerminalMissionStates
<1>1. CASE s = "SLEWING"
  <2>1. WayToComplete[s] = <<"VERIFYING", "OBSERVING", "COMPLETE">>
    BY <1>1 DEF WayToComplete
  <2> QED  BY <2>1
<1>2. CASE s = "VERIFYING"
  <2>1. WayToComplete[s] = <<"OBSERVING", "COMPLETE">>
    BY <1>2 DEF WayToComplete
  <2> QED  BY <2>1
<1>3. CASE s = "OBSERVING"
  <2>1. WayToComplete[s] = <<"COMPLETE">>
    BY <1>3 DEF WayToComplete
  <2> QED  BY <2>1
<1> QED
  BY <1>1, <1>2, <1>3

-----------------------------------------------------------------------------
(* Types.  The counters stay in bounds because of where they are reset. *)

Phase ==
  /\ mission = 0 <=> state = "SCHEDULED"
  /\ state # "REQUESTED"

\* A slew is begun with no solve attempted; VERIFYING has an attempt left.
Attempts ==
  /\ state \in {"PREPARING", "SLEWING"} => solveAttempts = 0
  /\ state = "VERIFYING" => solveAttempts < MaxSolveAttempts

\* A capture run that is not being processed yet wants another frame.
Frames ==
  /\ state = "CAPTURING" => captureCommand # NoCommand
  /\ captureCommand # NoCommand /\ state \in LiveMissionStates \ {"PROCESSING"}
       => framesCaptured < RequestedFrames

TypeInv == TypeOK /\ Phase /\ Attempts /\ Frames

\* No step breaks the types or the counters' bounds.
LEMMA TypeStep ==
  ASSUME TypeInv, [Next]_vars
  PROVE  TypeInv'
<1> USE RunnerBounds, EmptyStackType
   DEF RunnerBounds, TypeInv, TypeOK, MissionTypeOK, AcquisitionTypeOK,
       CaptureTypeOK, LiveTypeOK, HoldTypeOK, ParkTypeOK, TimeTypeOK,
       DeviceTypeOK, Phase, Attempts, Frames, missionVars, acquisitionVars,
       captureVars, liveVars, holdVars, parkVars, timeVars, deviceVars, Times,
       NoTime, NoCommand, FailureReasons, LiveMissionStates,
       TerminalMissionStates, HoldMissionStates, MissionStates, EndedStates
<1>1. CASE PrepareRefused
  BY ParkMountEffect, <1>1
     DEF PrepareRefused, Handling, Pumping, Fail, FailAlong
<1>2. CASE PrepareAndSlew
  BY <1>2 DEF PrepareAndSlew, Handling, Pumping, BeginSlew, ResetStack, Report
<1>3. CASE SlewTimeout
  BY ParkMountEffect, <1>3 DEF SlewTimeout, Handling, Pumping, Fail, FailAlong
<1>4. CASE SlewDone
  BY <1>4 DEF SlewDone, Handling, Pumping, Report
<1>5. CASE VerifyExpose
  BY <1>5 DEF VerifyExpose, HandlingCamera, Handling, Pumping, Quiet
<1>6. CASE SolveFailed
  <2>1. exposureStarted' \in BOOLEAN
    <3>1. exposureStarted' = FALSE
      BY <1>6 DEF SolveFailed, EnterObserving
    <3> QED
      BY <3>1, Zenon
  <2>2. measured' \in BOOLEAN
    BY <1>6, Zenon DEF SolveFailed, ReadSolveFrame
  <2>3. CASE Quiet
    BY <1>6, <2>1, <2>2, <2>3 DEF SolveFailed, ReadSolveFrame, HandlingCamera,
       Handling, Pumping, Quiet, EnterObserving, Report, Fail, FailAlong
  <2>4. CASE EnterObserving(TRUE)
    BY <1>6, <2>1, <2>2, <2>4 DEF SolveFailed, ReadSolveFrame, HandlingCamera,
       Handling, Pumping, EnterObserving, Report, Quiet, Fail, FailAlong
  <2>5. CASE Fail("FAILED", "PLATE_SOLVE_FAILED")
    BY ParkMountEffect, <1>6, <2>1, <2>2, <2>5 DEF SolveFailed, ReadSolveFrame,
       HandlingCamera, Handling, Pumping, Fail, FailAlong, Quiet,
          EnterObserving, Report
  <2> QED
    BY <1>6, <2>3, <2>4, <2>5 DEF SolveFailed
<1>7. CASE SolvedCentred
  <2>1. /\ exposureStarted' \in BOOLEAN
        /\ measured' \in BOOLEAN
    BY <1>7, Zenon
       DEF SolvedCentred, ReadSolveFrame, HandlingCamera, Handling, Pumping,
           EnterObserving, Report
  <2> QED
    BY <1>7, <2>1
       DEF SolvedCentred, ReadSolveFrame, HandlingCamera, Handling, Pumping,
           EnterObserving, Report
<1>8. CASE SolvedOffCentre
  <2>1. CASE EnterObserving(TRUE)
    <3>1. exposureStarted' \in BOOLEAN
      BY <2>1, Zenon DEF EnterObserving
    <3> QED
      BY <1>8, <2>1, <3>1 DEF SolvedOffCentre, ReadSolveFrame, HandlingCamera,
         Handling, Pumping, EnterObserving, Report
  <2>2. CASE Report(<<"CENTERING">>) /\ exposureStarted' = FALSE /\ UNCHANGED
     <<acquired, liveVars, timeVars>>
    <3>1. exposureStarted' \in BOOLEAN
      BY <2>2, Zenon
    <3> QED
      BY <1>8, <2>2, <3>1 DEF SolvedOffCentre, ReadSolveFrame, HandlingCamera,
         Handling, Pumping, Report
  <2> QED
    BY <1>8, <2>1, <2>2 DEF SolvedOffCentre
<1>9. CASE CenteringExhausted
  BY ParkMountEffect, <1>9
     DEF CenteringExhausted, HandlingCentering, Pumping, Fail, FailAlong
<1>10. CASE CorrectPointing
  <2>1. CASE BeginSlew
    BY <1>10, <2>1 DEF CorrectPointing, HandlingCentering, Pumping, BeginSlew,
       ResetStack, Report, Fail, FailAlong
  <2>2. CASE \E reason \in FailureReasons : Fail("FAILED", reason)
    BY ParkMountEffect, <1>10, <2>2 DEF CorrectPointing, HandlingCentering,
       Pumping, Fail, FailAlong, BeginSlew, Report, ResetStack
  <2> QED
    BY <1>10, <2>1, <2>2 DEF CorrectPointing
<1>11. CASE FocusStep
  BY JobOutcomesEffect, <1>11
     DEF FocusStep, ObservingFrame, Handling, Pumping, Quiet
<1>12. CASE ObserveToCapture
  BY JobOutcomesEffect, <1>12
     DEF ObserveToCapture, ObservingFrame, Handling, Pumping, Report,
         FocusOver, CameraAfterJob
<1>13. CASE ObserveHold
  BY JobOutcomesEffect, <1>13
     DEF ObserveHold, ObservingFrame, Handling, Pumping, Quiet, FocusOver,
         CameraAfterJob
<1>14. CASE ObserveNextJob
  <2>1. PICK outcome \in JobOutcomes : NextJob(outcome)
    BY <1>14 DEF ObserveNextJob
  <2>2. /\ outcome.stack \in Stacks /\ outcome.measured \in BOOLEAN
    BY <2>1, JobOutcomesEffect
  <2>3. /\ autoExposure' \in BOOLEAN /\ correcting' \in BOOLEAN
        /\ measured' \in BOOLEAN /\ slewing' \in BOOLEAN
    BY <2>1, <2>2, Zenon DEF NextJob, StartJob
  <2>4. stack' \in Stacks
    BY <2>1, <2>2 DEF NextJob
  <2> QED
    BY <2>1, <2>3, <2>4
       DEF NextJob, ObservingFrame, Handling, Pumping, Quiet, StartJob,
          CameraAfterJob
<1>15. CASE CaptureExpose
  BY <1>15 DEF CaptureExpose, HandlingCamera, Handling, Pumping, Quiet
<1>16. CASE CaptureFrame
  <2>1. exposureStarted' \in BOOLEAN
    BY <1>16, Zenon DEF CaptureFrame
  <2>2. stack' \in Stacks
    BY <1>16, StackAfterEffect DEF CaptureFrame
  <2>3. CASE framesCaptured' >= RequestedFrames
    <3>1. framesCaptured' \in 0..RequestedFrames
      BY <1>16 DEF CaptureFrame, HandlingCamera, Handling, Pumping
    <3>2. Report(<<"PROCESSING">>)
      BY <1>16, <2>3 DEF CaptureFrame
    <3> QED
      BY <3>1, <3>2, <1>16, <2>1, <2>2, <2>3
       DEF CaptureFrame, HandlingCamera, Handling, Pumping, Report
  <2>4. CASE ~(framesCaptured' >= RequestedFrames)
    BY <1>16, <2>1, <2>2, <2>4
       DEF CaptureFrame, HandlingCamera, Handling, Pumping, Quiet
  <2> QED
    BY <2>3, <2>4
<1>17. CASE ProcessAndObserve
  <2>1. delivered' \in Seq(1..MaxCaptures)
    BY <1>17, DeliverCaptureEffect DEF ProcessAndObserve
  <2>2. captureCommand' = NoCommand /\ UNCHANGED <<accepted, framesCaptured>>
    BY <1>17 DEF ProcessAndObserve, DeliverCapture
  <2>3. exposureStarted' \in BOOLEAN
    BY <1>17, Zenon DEF ProcessAndObserve
  <2> QED
    BY <1>17, <2>1, <2>2, <2>3
       DEF ProcessAndObserve, Handling, Pumping, ResetStack, Report
<1>18. CASE ProcessAndComplete
  <2>1. delivered' \in Seq(1..MaxCaptures)
    BY <1>18, DeliverCaptureEffect DEF ProcessAndComplete
  <2>2. captureCommand' = NoCommand /\ UNCHANGED <<accepted, framesCaptured>>
    BY <1>18 DEF ProcessAndComplete, DeliverCapture
  <2> QED
    BY ParkMountEffect, <1>18, <2>1, <2>2
       DEF ProcessAndComplete, Pumping, Report
<1>19. CASE ExpireUnacquired
  BY ParkMountEffect, <1>19 DEF ExpireUnacquired, Pumping, Fail, FailAlong
<1>20. CASE FlushCapture
  <2>1. exposureStarted' \in BOOLEAN
    BY <1>20, Zenon DEF FlushCapture, Pumping, Finishing, Report
  <2> QED
    BY <1>20, <2>1 DEF FlushCapture, Pumping, Finishing, Report
<1>21. CASE FinishSession
  <2>1. PICK s \in {"SLEWING", "VERIFYING", "OBSERVING"} : Pumping(s) /\
     Report(WayToComplete[s])
    BY <1>21 DEF FinishSession, WayToComplete
  <2>2. /\ WayToComplete[s] \in Seq(MissionStates)
        /\ WayToComplete[s][Len(WayToComplete[s])] = "COMPLETE"
    BY WayToCompleteType
  <2>3. exposureStarted' \in BOOLEAN
    BY <1>21 DEF FinishSession
  <2> QED
    BY ParkMountEffect, <1>21, <2>1, <2>2, <2>3
       DEF FinishSession, Pumping, Report
<1>22. CASE ParkWhenIdle
  BY ParkMountEffect, <1>22 DEF ParkWhenIdle, Pumping, Quiet
<1>23. CASE DeviceFault
  <2>1. CASE FailAlong(<<"HARDWARE_ERROR">>, "DEVICE_FAULT")
    BY ParkMountEffect, <1>23, <2>1 DEF DeviceFault, Pumping, FailAlong
  <2>2. CASE FailAlong(<<"VERIFYING", "HARDWARE_ERROR">>, "DEVICE_FAULT")
    BY ParkMountEffect, <1>23, <2>2 DEF DeviceFault, Pumping, FailAlong
  <2> QED
    BY <1>23, <2>1, <2>2 DEF DeviceFault
<1>24. CASE Offer
  <2>1. /\ acquired' \in BOOLEAN
        /\ exposureStarted' \in BOOLEAN
        /\ measured' \in BOOLEAN
        /\ stale' \in BOOLEAN
        /\ autoExposure' \in BOOLEAN
        /\ correcting' \in BOOLEAN
        /\ suspended' \in BOOLEAN
        /\ parked' \in BOOLEAN
        /\ parkFailed' \in BOOLEAN
    BY <1>24, Zenon DEF Offer, IsActive
  <2> QED
    BY <1>24, <2>1 DEF Offer, IsActive
<1>25. CASE Cancel
  BY ParkMountEffect, <1>25 DEF Cancel, IsActive, Fail, FailAlong
<1>26. CASE RequestCapture
  <2>1. /\ exposureStarted' \in BOOLEAN
        /\ autoExposure' \in BOOLEAN
    BY <1>26, Zenon DEF RequestCapture, IsActive, ResetStack, Quiet
  <2> QED
    BY <1>26, <2>1 DEF RequestCapture, IsActive, ResetStack, Quiet
<1>27. CASE RequestFocus
  BY <1>27 DEF RequestFocus, IsActive, Quiet
<1>28. CASE NudgeOrRecenter
  <2>1. stack' \in Stacks
    BY <1>28 DEF NudgeOrRecenter, PointingChanged, ResetStack
  <2>2. stale' \in BOOLEAN
    BY <1>28 DEF NudgeOrRecenter, PointingChanged
  <2> QED
    BY <1>28, <2>1, <2>2 DEF NudgeOrRecenter, Quiet
<1>29. CASE Retarget
  <2>1. /\ autoExposure' \in BOOLEAN
        /\ correcting' \in BOOLEAN
        /\ stale' \in BOOLEAN
        /\ measured' \in BOOLEAN
    BY <1>29, Zenon
       DEF Retarget, IsActive, CapturePending, BeginSlew, ResetStack, Report
  <2> QED
    BY <1>29, <2>1
       DEF Retarget, IsActive, CapturePending, BeginSlew, ResetStack, Report
<1>30. CASE SetSessionEnd
  BY <1>30 DEF SetSessionEnd, IsActive, Quiet
<1>31. CASE WatchdogStopsCapture
  BY <1>31 DEF WatchdogStopsCapture, Quiet
<1>32. CASE WatchdogParks
  <2>1. slewing' \in BOOLEAN
    BY <1>32, Zenon DEF WatchdogParks
  <2>2. camera' \in {"idle", "exposing", "done"}
    BY <1>32 DEF WatchdogParks
  <2> QED
    BY <1>32, <2>1, <2>2 DEF WatchdogParks, Quiet
<1>33. CASE ApplyCaptureStop
  <2>1. /\ suspended' \in BOOLEAN
        /\ exposureStarted' \in BOOLEAN
    BY <1>33, Zenon DEF ApplyCaptureStop, SuspendCapture, Quiet
  <2> QED
    BY <1>33, <2>1 DEF ApplyCaptureStop, SuspendCapture, Quiet
<1>34. CASE ApplyPark
  <2>1. CASE IsActive
    <3>1. Fail("CANCELLED", "CANCELLED")
      BY <1>34, <2>1 DEF ApplyPark
    <3>2. /\ unread' = "none"
          /\ UNCHANGED <<acquisitionVars, captureVars, suspended, timeVars>>
      BY <1>34 DEF ApplyPark
    <3> QED
      BY ParkMountEffect, <2>1, <3>1, <3>2 DEF IsActive, Fail, FailAlong
  <2>2. CASE ~IsActive
    BY <1>34, <2>2 DEF ApplyPark, Quiet
  <2> QED
    BY <2>1, <2>2
<1>35. CASE ResumeCapture
  <2>1. suspended' \in BOOLEAN
    BY <1>35, Zenon DEF ResumeCapture, Quiet
  <2> QED
    BY <1>35, <2>1 DEF ResumeCapture, Quiet
<1>36. CASE SlewSettles
  <2>1. slewing' \in BOOLEAN
    BY <1>36, Zenon DEF SlewSettles, Quiet
  <2> QED
    BY <1>36, <2>1 DEF SlewSettles, Quiet
<1>37. CASE ExposureDone
  BY <1>37 DEF ExposureDone, Quiet
<1>38. CASE Tick
  BY <1>38 DEF Tick, Quiet
<1>39. CASE UNCHANGED vars
  BY <1>39 DEF vars
<1> QED
  BY <1>1, <1>2, <1>3, <1>4, <1>5, <1>6, <1>7, <1>8, <1>9, <1>10, <1>11, <1>12,
     <1>13, <1>14, <1>15, <1>16, <1>17, <1>18, <1>19, <1>20, <1>21, <1>22,
     <1>23, <1>24, <1>25, <1>26, <1>27, <1>28, <1>29, <1>30, <1>31, <1>32,
     <1>33, <1>34, <1>35, <1>36, <1>37, <1>38, <1>39
     DEF Next, Pump, Handlers, Acquire, Observe, CaptureAndFinish, Commands,
         WatchdogSteps, Apply, Environment

-----------------------------------------------------------------------------
(* How missions end *)

\* OBSERVING is reached once acquired; an acquired mission in CENTERING has an
\* iteration left; only an ended mission has a failure reason.
EndingInv ==
  /\ EndedMissionParkedOrSaysWhy
  /\ IsActive => failureReason = "none"
  /\ state \in {"OBSERVING", "CAPTURING", "PROCESSING", "COMPLETE"} => acquired
  /\ failureReason = "SESSION_EXPIRED" => ~acquired
  /\ ImageNeverFailsAcquired
  /\ state = "CENTERING" /\ acquired
       => centeringIterations < MaxCenteringIterations
  /\ CenteringHasMeasurement

\* No step breaks what an ending promises.
LEMMA EndingStep ==
  ASSUME TypeInv, TypeInv', EndingInv, [Next]_vars
  PROVE  EndingInv'
<1> USE RunnerBounds, EmptyStackType
   DEF RunnerBounds, TypeInv, TypeOK, MissionTypeOK, AcquisitionTypeOK,
       CaptureTypeOK, LiveTypeOK, HoldTypeOK, ParkTypeOK, TimeTypeOK,
       DeviceTypeOK, Phase, Attempts, Frames, missionVars, acquisitionVars,
       captureVars, liveVars, holdVars, parkVars, timeVars, deviceVars,
       NoCommand, LiveMissionStates, TerminalMissionStates, HoldMissionStates,
       MissionStates, EndedStates, IsActive, EndingInv,
       EndedMissionParkedOrSaysWhy, ImageNeverFailsAcquired,
       CenteringHasMeasurement
<1>1. CASE PrepareRefused
  BY ParkMountEffect, <1>1
     DEF PrepareRefused, Handling, Pumping, Fail, FailAlong
<1>2. CASE PrepareAndSlew
  BY <1>2 DEF PrepareAndSlew, Handling, Pumping, BeginSlew, ResetStack, Report
<1>3. CASE SlewTimeout
  BY ParkMountEffect, <1>3 DEF SlewTimeout, Handling, Pumping, Fail, FailAlong
<1>4. CASE SlewDone
  BY <1>4 DEF SlewDone, Handling, Pumping, Report
<1>5. CASE VerifyExpose
  BY <1>5 DEF VerifyExpose, HandlingCamera, Handling, Pumping, Quiet
<1>6. CASE SolveFailed
  BY ParkMountEffect, <1>6
     DEF SolveFailed, ReadSolveFrame, HandlingCamera, Handling, Pumping, Quiet,
         EnterObserving, Report, Fail, FailAlong
<1>7. CASE SolvedCentred
  BY <1>7
     DEF SolvedCentred, ReadSolveFrame, HandlingCamera, Handling, Pumping,
         EnterObserving, Report
<1>8. CASE SolvedOffCentre
  BY <1>8
     DEF SolvedOffCentre, ReadSolveFrame, HandlingCamera, Handling, Pumping,
         EnterObserving, Report, MayCentre
<1>9. CASE CenteringExhausted
  BY ParkMountEffect, <1>9
     DEF CenteringExhausted, HandlingCentering, Pumping, Fail, FailAlong
<1>10. CASE CorrectPointing
  BY ParkMountEffect, <1>10
     DEF CorrectPointing, HandlingCentering, Pumping, Fail, FailAlong,
         BeginSlew, ResetStack, Report
<1>11. CASE FocusStep
  BY JobOutcomesEffect, <1>11
     DEF FocusStep, ObservingFrame, Handling, Pumping, Quiet
<1>12. CASE ObserveToCapture
  BY JobOutcomesEffect, <1>12
     DEF ObserveToCapture, ObservingFrame, Handling, Pumping, Report,
         FocusOver, CameraAfterJob
<1>13. CASE ObserveHold
  BY JobOutcomesEffect, <1>13
     DEF ObserveHold, ObservingFrame, Handling, Pumping, Quiet, FocusOver,
         CameraAfterJob
<1>14. CASE ObserveNextJob
  BY JobOutcomesEffect, <1>14
     DEF ObserveNextJob, NextJob, ObservingFrame, Handling, Pumping, Quiet,
         CameraAfterJob, StartJob
<1>15. CASE CaptureExpose
  BY <1>15 DEF CaptureExpose, HandlingCamera, Handling, Pumping, Quiet
<1>16. CASE CaptureFrame
  BY StackAfterEffect, <1>16
     DEF CaptureFrame, HandlingCamera, Handling, Pumping, Quiet, Report
<1>17. CASE ProcessAndObserve
  BY <1>17
     DEF ProcessAndObserve, Handling, Pumping, DeliverCapture, ResetStack,
         Report
<1>18. CASE ProcessAndComplete
  BY ParkMountEffect, <1>18
     DEF ProcessAndComplete, Pumping, DeliverCapture, Report
<1>19. CASE ExpireUnacquired
  BY ParkMountEffect, <1>19 DEF ExpireUnacquired, Pumping, Fail, FailAlong
<1>20. CASE FlushCapture
  BY <1>20 DEF FlushCapture, Pumping, Finishing, Report
<1>21. CASE FinishSession
  BY ParkMountEffect, <1>21
     DEF FinishSession, Pumping, Finishing, Report, WayToComplete
<1>22. CASE ParkWhenIdle
  BY ParkMountEffect, <1>22 DEF ParkWhenIdle, Pumping, Quiet
<1>23. CASE DeviceFault
  BY ParkMountEffect, <1>23 DEF DeviceFault, Pumping, FailAlong
<1>24. CASE Offer
  BY <1>24 DEF Offer, IsActive
<1>25. CASE Cancel
  BY ParkMountEffect, <1>25 DEF Cancel, IsActive, Fail, FailAlong
<1>26. CASE RequestCapture
  BY <1>26 DEF RequestCapture, IsActive, ResetStack, Quiet
<1>27. CASE RequestFocus
  BY <1>27 DEF RequestFocus, IsActive, Quiet
<1>28. CASE NudgeOrRecenter
  BY <1>28 DEF NudgeOrRecenter, PointingChanged, ResetStack, Quiet
<1>29. CASE Retarget
  BY <1>29
     DEF Retarget, IsActive, CapturePending, BeginSlew, ResetStack, Report
<1>30. CASE SetSessionEnd
  BY <1>30 DEF SetSessionEnd, IsActive, Quiet
<1>31. CASE WatchdogStopsCapture
  BY <1>31 DEF WatchdogStopsCapture, Quiet
<1>32. CASE WatchdogParks
  BY <1>32 DEF WatchdogParks, Quiet
<1>33. CASE ApplyCaptureStop
  BY <1>33 DEF ApplyCaptureStop, SuspendCapture, Quiet
<1>34. CASE ApplyPark
  BY ParkMountEffect, <1>34 DEF ApplyPark, IsActive, Fail, FailAlong, Quiet
<1>35. CASE ResumeCapture
  BY <1>35 DEF ResumeCapture, Quiet
<1>36. CASE SlewSettles
  BY <1>36 DEF SlewSettles, Quiet
<1>37. CASE ExposureDone
  BY <1>37 DEF ExposureDone, Quiet
<1>38. CASE Tick
  BY <1>38 DEF Tick, Quiet
<1>39. CASE UNCHANGED vars
  BY <1>39 DEF vars
<1> QED
  BY <1>1, <1>2, <1>3, <1>4, <1>5, <1>6, <1>7, <1>8, <1>9, <1>10, <1>11, <1>12,
     <1>13, <1>14, <1>15, <1>16, <1>17, <1>18, <1>19, <1>20, <1>21, <1>22,
     <1>23, <1>24, <1>25, <1>26, <1>27, <1>28, <1>29, <1>30, <1>31, <1>32,
     <1>33, <1>34, <1>35, <1>36, <1>37, <1>38, <1>39
     DEF Next, Pump, Handlers, Acquire, Observe, CaptureAndFinish, Commands,
         WatchdogSteps, Apply, Environment

-----------------------------------------------------------------------------
(* Exposures that are waited for *)

\* The runner's two ways of waiting for the camera belong to disjoint states.
ExposureInv ==
  /\ IsActive /\ exposureStarted => state \in {"VERIFYING", "CAPTURING"}
  /\ job # "none" => state = "OBSERVING"
  /\ AwaitedExposureIsRunning

\* No step leaves the runner waiting for an exposure that is not running.
LEMMA ExposureStep ==
  ASSUME TypeInv, TypeInv', ExposureInv, [Next]_vars
  PROVE  ExposureInv'
<1> USE RunnerBounds, EmptyStackType
   DEF RunnerBounds, TypeInv, TypeOK, MissionTypeOK, AcquisitionTypeOK,
       CaptureTypeOK, LiveTypeOK, HoldTypeOK, ParkTypeOK, TimeTypeOK,
       DeviceTypeOK, Phase, Attempts, Frames, missionVars, acquisitionVars,
       captureVars, liveVars, holdVars, parkVars, timeVars, deviceVars,
       NoCommand, LiveMissionStates, TerminalMissionStates, HoldMissionStates,
       MissionStates, EndedStates, IsActive, ExposureInv,
       AwaitedExposureIsRunning
<1>1. CASE PrepareRefused
  BY ParkMountEffect, <1>1
     DEF PrepareRefused, Handling, Pumping, Fail, FailAlong
<1>2. CASE PrepareAndSlew
  BY <1>2 DEF PrepareAndSlew, Handling, Pumping, BeginSlew, ResetStack, Report
<1>3. CASE SlewTimeout
  BY ParkMountEffect, <1>3 DEF SlewTimeout, Handling, Pumping, Fail, FailAlong
<1>4. CASE SlewDone
  BY <1>4 DEF SlewDone, Handling, Pumping, Report
<1>5. CASE VerifyExpose
  BY <1>5 DEF VerifyExpose, HandlingCamera, Handling, Pumping, Quiet
<1>6. CASE SolveFailed
  BY ParkMountEffect, <1>6
     DEF SolveFailed, ReadSolveFrame, HandlingCamera, Handling, Pumping, Quiet,
         EnterObserving, Report, Fail, FailAlong
<1>7. CASE SolvedCentred
  BY <1>7
     DEF SolvedCentred, ReadSolveFrame, HandlingCamera, Handling, Pumping,
         EnterObserving, Report
<1>8. CASE SolvedOffCentre
  BY <1>8
     DEF SolvedOffCentre, ReadSolveFrame, HandlingCamera, Handling, Pumping,
         EnterObserving, Report, MayCentre
<1>9. CASE CenteringExhausted
  BY ParkMountEffect, <1>9
     DEF CenteringExhausted, HandlingCentering, Pumping, Fail, FailAlong
<1>10. CASE CorrectPointing
  BY ParkMountEffect, <1>10
     DEF CorrectPointing, HandlingCentering, Pumping, Fail, FailAlong,
         BeginSlew, ResetStack, Report
<1>11. CASE FocusStep
  BY JobOutcomesEffect, <1>11
     DEF FocusStep, ObservingFrame, Handling, Pumping, Quiet
<1>12. CASE ObserveToCapture
  BY JobOutcomesEffect, <1>12
     DEF ObserveToCapture, ObservingFrame, Handling, Pumping, Report,
         FocusOver, CameraAfterJob
<1>13. CASE ObserveHold
  BY JobOutcomesEffect, <1>13
     DEF ObserveHold, ObservingFrame, Handling, Pumping, Quiet, FocusOver,
         CameraAfterJob
<1>14. CASE ObserveNextJob
  BY JobOutcomesEffect, <1>14
     DEF ObserveNextJob, NextJob, ObservingFrame, Handling, Pumping, Quiet,
         CameraAfterJob, StartJob
<1>15. CASE CaptureExpose
  BY <1>15 DEF CaptureExpose, HandlingCamera, Handling, Pumping, Quiet
<1>16. CASE CaptureFrame
  BY StackAfterEffect, <1>16
     DEF CaptureFrame, HandlingCamera, Handling, Pumping, Quiet, Report
<1>17. CASE ProcessAndObserve
  BY <1>17
     DEF ProcessAndObserve, Handling, Pumping, DeliverCapture, ResetStack,
         Report
<1>18. CASE ProcessAndComplete
  BY ParkMountEffect, <1>18
     DEF ProcessAndComplete, Pumping, DeliverCapture, Report
<1>19. CASE ExpireUnacquired
  BY ParkMountEffect, <1>19 DEF ExpireUnacquired, Pumping, Fail, FailAlong
<1>20. CASE FlushCapture
  BY <1>20 DEF FlushCapture, Pumping, Finishing, Report
<1>21. CASE FinishSession
  BY ParkMountEffect, <1>21
     DEF FinishSession, Pumping, Finishing, Report, WayToComplete
<1>22. CASE ParkWhenIdle
  BY ParkMountEffect, <1>22 DEF ParkWhenIdle, Pumping, Quiet
<1>23. CASE DeviceFault
  BY ParkMountEffect, <1>23 DEF DeviceFault, Pumping, FailAlong
<1>24. CASE Offer
  BY <1>24 DEF Offer, IsActive
<1>25. CASE Cancel
  BY ParkMountEffect, <1>25 DEF Cancel, IsActive, Fail, FailAlong
<1>26. CASE RequestCapture
  BY <1>26 DEF RequestCapture, IsActive, ResetStack, Quiet
<1>27. CASE RequestFocus
  BY <1>27 DEF RequestFocus, IsActive, Quiet
<1>28. CASE NudgeOrRecenter
  BY <1>28 DEF NudgeOrRecenter, PointingChanged, ResetStack, Quiet
<1>29. CASE Retarget
  BY <1>29
     DEF Retarget, IsActive, CapturePending, BeginSlew, ResetStack, Report
<1>30. CASE SetSessionEnd
  BY <1>30 DEF SetSessionEnd, IsActive, Quiet
<1>31. CASE WatchdogStopsCapture
  BY <1>31 DEF WatchdogStopsCapture, Quiet
<1>32. CASE WatchdogParks
  BY <1>32 DEF WatchdogParks, Quiet
<1>33. CASE ApplyCaptureStop
  BY <1>33 DEF ApplyCaptureStop, SuspendCapture, Quiet
<1>34. CASE ApplyPark
  BY ParkMountEffect, <1>34 DEF ApplyPark, IsActive, Fail, FailAlong, Quiet
<1>35. CASE ResumeCapture
  BY <1>35 DEF ResumeCapture, Quiet
<1>36. CASE SlewSettles
  BY <1>36 DEF SlewSettles, Quiet
<1>37. CASE ExposureDone
  BY <1>37 DEF ExposureDone, Quiet
<1>38. CASE Tick
  BY <1>38 DEF Tick, Quiet
<1>39. CASE UNCHANGED vars
  BY <1>39 DEF vars
<1> QED
  BY <1>1, <1>2, <1>3, <1>4, <1>5, <1>6, <1>7, <1>8, <1>9, <1>10, <1>11, <1>12,
     <1>13, <1>14, <1>15, <1>16, <1>17, <1>18, <1>19, <1>20, <1>21, <1>22,
     <1>23, <1>24, <1>25, <1>26, <1>27, <1>28, <1>29, <1>30, <1>31, <1>32,
     <1>33, <1>34, <1>35, <1>36, <1>37, <1>38, <1>39
     DEF Next, Pump, Handlers, Acquire, Observe, CaptureAndFinish, Commands,
         WatchdogSteps, Apply, Environment

-----------------------------------------------------------------------------
(* Captures *)

\* The pending capture is the newest one and was not handed over yet.
DeliveredOnce ==
  /\ captureCommand # NoCommand => captureCommand = accepted
  /\ \A i \in 1..Len(delivered) :
       /\ delivered[i] <= accepted
       /\ captureCommand # NoCommand => delivered[i] < captureCommand
  /\ NoCaptureDeliveredTwice

\* Handing over the pending capture hands over one that was not before.
LEMMA DeliverCaptureOnce ==
  ASSUME TypeOK, DeliveredOnce, DeliverCapture
  PROVE  DeliveredOnce'
<1> USE RunnerBounds
   DEF RunnerBounds, TypeOK, CaptureTypeOK, DeliveredOnce, DeliverCapture,
        NoCommand, NoCaptureDeliveredTwice
<1>1. CASE captureCommand # NoCommand /\ stack # EmptyStack
  <2>1. /\ Len(delivered') = Len(delivered) + 1
        /\ delivered'[Len(delivered) + 1] = captureCommand
        /\ \A i \in 1..Len(delivered) : delivered'[i] = delivered[i]
    BY <1>1
  <2>2. \A i \in 1..Len(delivered) : delivered[i] < captureCommand
    BY <1>1
  <2>3. captureCommand = accepted /\ UNCHANGED accepted /\ captureCommand' =
     NoCommand
    BY <1>1
  <2>4. /\ captureCommand \in Int /\ Len(delivered) \in Nat
        /\ \A i \in 1..Len(delivered) : delivered[i] \in Int
    OBVIOUS
  <2>5. \A i \in 1..Len(delivered') : delivered'[i] <= accepted'
    BY <2>1, <2>2, <2>3, <2>4
  <2>6. ASSUME NEW i \in 1..Len(delivered'), NEW j \in 1..Len(delivered'), i # j
        PROVE  delivered'[i] # delivered'[j]
    <3>1. CASE i = Len(delivered) + 1
      BY <2>1, <2>2, <2>4, <2>6, <3>1
    <3>2. CASE j = Len(delivered) + 1
      BY <2>1, <2>2, <2>4, <2>6, <3>2
    <3>3. CASE i \in 1..Len(delivered) /\ j \in 1..Len(delivered)
      BY <2>1, <2>6, <3>3
    <3> QED
      BY <2>1, <2>4, <3>1, <3>2, <3>3
  <2> QED
    BY <2>3, <2>5, <2>6
<1>2. CASE ~(captureCommand # NoCommand /\ stack # EmptyStack)
  BY <1>2
<1> QED
  BY <1>1, <1>2

\* No step hands a capture over a second time.
LEMMA DeliveredStep ==
  ASSUME TypeInv, TypeInv', DeliveredOnce, [Next]_vars
  PROVE  DeliveredOnce'
<1> USE RunnerBounds, EmptyStackType
   DEF RunnerBounds, TypeInv, TypeOK, MissionTypeOK, AcquisitionTypeOK,
       CaptureTypeOK, LiveTypeOK, HoldTypeOK, ParkTypeOK, TimeTypeOK,
       DeviceTypeOK, Phase, Attempts, Frames, missionVars, acquisitionVars,
       captureVars, liveVars, holdVars, parkVars, timeVars, deviceVars,
       NoCommand, LiveMissionStates, TerminalMissionStates, HoldMissionStates,
       MissionStates, EndedStates, IsActive, DeliveredOnce,
       NoCaptureDeliveredTwice
<1>1. CASE PrepareRefused
  BY ParkMountEffect, <1>1
     DEF PrepareRefused, Handling, Pumping, Fail, FailAlong
<1>2. CASE PrepareAndSlew
  BY <1>2 DEF PrepareAndSlew, Handling, Pumping, BeginSlew, ResetStack, Report
<1>3. CASE SlewTimeout
  BY ParkMountEffect, <1>3 DEF SlewTimeout, Handling, Pumping, Fail, FailAlong
<1>4. CASE SlewDone
  BY <1>4 DEF SlewDone, Handling, Pumping, Report
<1>5. CASE VerifyExpose
  BY <1>5 DEF VerifyExpose, HandlingCamera, Handling, Pumping, Quiet
<1>6. CASE SolveFailed
  BY ParkMountEffect, <1>6
     DEF SolveFailed, ReadSolveFrame, HandlingCamera, Handling, Pumping, Quiet,
         EnterObserving, Report, Fail, FailAlong
<1>7. CASE SolvedCentred
  BY <1>7
     DEF SolvedCentred, ReadSolveFrame, HandlingCamera, Handling, Pumping,
         EnterObserving, Report
<1>8. CASE SolvedOffCentre
  BY <1>8
     DEF SolvedOffCentre, ReadSolveFrame, HandlingCamera, Handling, Pumping,
         EnterObserving, Report, MayCentre
<1>9. CASE CenteringExhausted
  BY ParkMountEffect, <1>9
     DEF CenteringExhausted, HandlingCentering, Pumping, Fail, FailAlong
<1>10. CASE CorrectPointing
  BY ParkMountEffect, <1>10
     DEF CorrectPointing, HandlingCentering, Pumping, Fail, FailAlong,
         BeginSlew, ResetStack, Report
<1>11. CASE FocusStep
  BY JobOutcomesEffect, <1>11
     DEF FocusStep, ObservingFrame, Handling, Pumping, Quiet
<1>12. CASE ObserveToCapture
  BY JobOutcomesEffect, <1>12
     DEF ObserveToCapture, ObservingFrame, Handling, Pumping, Report,
         FocusOver, CameraAfterJob
<1>13. CASE ObserveHold
  BY JobOutcomesEffect, <1>13
     DEF ObserveHold, ObservingFrame, Handling, Pumping, Quiet, FocusOver,
         CameraAfterJob
<1>14. CASE ObserveNextJob
  BY JobOutcomesEffect, <1>14
     DEF ObserveNextJob, NextJob, ObservingFrame, Handling, Pumping, Quiet,
         CameraAfterJob, StartJob
<1>15. CASE CaptureExpose
  BY <1>15 DEF CaptureExpose, HandlingCamera, Handling, Pumping, Quiet
<1>16. CASE CaptureFrame
  BY StackAfterEffect, <1>16
     DEF CaptureFrame, HandlingCamera, Handling, Pumping, Quiet, Report
<1>17. CASE ProcessAndObserve
  BY <1>17, DeliverCaptureOnce DEF ProcessAndObserve
<1>18. CASE ProcessAndComplete
  BY <1>18, DeliverCaptureOnce DEF ProcessAndComplete
<1>19. CASE ExpireUnacquired
  BY ParkMountEffect, <1>19 DEF ExpireUnacquired, Pumping, Fail, FailAlong
<1>20. CASE FlushCapture
  BY <1>20 DEF FlushCapture, Pumping, Finishing, Report
<1>21. CASE FinishSession
  BY ParkMountEffect, <1>21
     DEF FinishSession, Pumping, Finishing, Report, WayToComplete
<1>22. CASE ParkWhenIdle
  BY ParkMountEffect, <1>22 DEF ParkWhenIdle, Pumping, Quiet
<1>23. CASE DeviceFault
  BY ParkMountEffect, <1>23 DEF DeviceFault, Pumping, FailAlong
<1>24. CASE Offer
  BY <1>24 DEF Offer, IsActive
<1>25. CASE Cancel
  BY ParkMountEffect, <1>25 DEF Cancel, IsActive, Fail, FailAlong
<1>26. CASE RequestCapture
  BY <1>26 DEF RequestCapture, IsActive, ResetStack, Quiet
<1>27. CASE RequestFocus
  BY <1>27 DEF RequestFocus, IsActive, Quiet
<1>28. CASE NudgeOrRecenter
  BY <1>28 DEF NudgeOrRecenter, PointingChanged, ResetStack, Quiet
<1>29. CASE Retarget
  BY <1>29
     DEF Retarget, IsActive, CapturePending, BeginSlew, ResetStack, Report
<1>30. CASE SetSessionEnd
  BY <1>30 DEF SetSessionEnd, IsActive, Quiet
<1>31. CASE WatchdogStopsCapture
  BY <1>31 DEF WatchdogStopsCapture, Quiet
<1>32. CASE WatchdogParks
  BY <1>32 DEF WatchdogParks, Quiet
<1>33. CASE ApplyCaptureStop
  BY <1>33 DEF ApplyCaptureStop, SuspendCapture, Quiet
<1>34. CASE ApplyPark
  BY ParkMountEffect, <1>34 DEF ApplyPark, IsActive, Fail, FailAlong, Quiet
<1>35. CASE ResumeCapture
  BY <1>35 DEF ResumeCapture, Quiet
<1>36. CASE SlewSettles
  BY <1>36 DEF SlewSettles, Quiet
<1>37. CASE ExposureDone
  BY <1>37 DEF ExposureDone, Quiet
<1>38. CASE Tick
  BY <1>38 DEF Tick, Quiet
<1>39. CASE UNCHANGED vars
  BY <1>39 DEF vars
<1> QED
  BY <1>1, <1>2, <1>3, <1>4, <1>5, <1>6, <1>7, <1>8, <1>9, <1>10, <1>11, <1>12,
     <1>13, <1>14, <1>15, <1>16, <1>17, <1>18, <1>19, <1>20, <1>21, <1>22,
     <1>23, <1>24, <1>25, <1>26, <1>27, <1>28, <1>29, <1>30, <1>31, <1>32,
     <1>33, <1>34, <1>35, <1>36, <1>37, <1>38, <1>39
     DEF Next, Pump, Handlers, Acquire, Observe, CaptureAndFinish, Commands,
         WatchdogSteps, Apply, Environment

\* While a CAPTURE is pending the stack holds no live frame, and capture frames
\* are gone once the mission observes again.
StackInv ==
  /\ captureCommand # NoCommand => "live" \notin stack
  /\ "capture" \in stack =>
       state \in {"PREPARING", "CAPTURING", "PROCESSING"} \cup EndedStates
  /\ OneExposurePerStack
  /\ CompleteLeavesNoImage

\* No step mixes exposures or completes a mission over an undelivered image.
LEMMA StackStep ==
  ASSUME TypeInv, TypeInv', StackInv, [Next]_vars
  PROVE  StackInv'
<1> USE RunnerBounds, EmptyStackType
   DEF RunnerBounds, TypeInv, TypeOK, MissionTypeOK, AcquisitionTypeOK,
       CaptureTypeOK, LiveTypeOK, HoldTypeOK, ParkTypeOK, TimeTypeOK,
       DeviceTypeOK, Phase, Attempts, Frames, missionVars, acquisitionVars,
       captureVars, liveVars, holdVars, parkVars, timeVars, deviceVars,
       NoCommand, LiveMissionStates, TerminalMissionStates, HoldMissionStates,
       MissionStates, EndedStates, IsActive, StackInv, OneExposurePerStack,
       CompleteLeavesNoImage
<1>1. CASE PrepareRefused
  BY ParkMountEffect, <1>1
     DEF PrepareRefused, Handling, Pumping, Fail, FailAlong
<1>2. CASE PrepareAndSlew
  BY <1>2 DEF PrepareAndSlew, Handling, Pumping, BeginSlew, ResetStack, Report
<1>3. CASE SlewTimeout
  BY ParkMountEffect, <1>3 DEF SlewTimeout, Handling, Pumping, Fail, FailAlong
<1>4. CASE SlewDone
  BY <1>4 DEF SlewDone, Handling, Pumping, Report
<1>5. CASE VerifyExpose
  BY <1>5 DEF VerifyExpose, HandlingCamera, Handling, Pumping, Quiet
<1>6. CASE SolveFailed
  BY ParkMountEffect, <1>6
     DEF SolveFailed, ReadSolveFrame, HandlingCamera, Handling, Pumping, Quiet,
         EnterObserving, Report, Fail, FailAlong
<1>7. CASE SolvedCentred
  BY <1>7
     DEF SolvedCentred, ReadSolveFrame, HandlingCamera, Handling, Pumping,
         EnterObserving, Report
<1>8. CASE SolvedOffCentre
  BY <1>8
     DEF SolvedOffCentre, ReadSolveFrame, HandlingCamera, Handling, Pumping,
         EnterObserving, Report, MayCentre
<1>9. CASE CenteringExhausted
  BY ParkMountEffect, <1>9
     DEF CenteringExhausted, HandlingCentering, Pumping, Fail, FailAlong
<1>10. CASE CorrectPointing
  BY ParkMountEffect, <1>10
     DEF CorrectPointing, HandlingCentering, Pumping, Fail, FailAlong,
         BeginSlew, ResetStack, Report
<1>11. CASE FocusStep
  BY JobOutcomesEffect, <1>11
     DEF FocusStep, ObservingFrame, Handling, Pumping, Quiet
<1>12. CASE ObserveToCapture
  BY JobOutcomesEffect, <1>12
     DEF ObserveToCapture, ObservingFrame, Handling, Pumping, Report,
         FocusOver, CameraAfterJob
<1>13. CASE ObserveHold
  BY JobOutcomesEffect, <1>13
     DEF ObserveHold, ObservingFrame, Handling, Pumping, Quiet, FocusOver,
         CameraAfterJob
<1>14. CASE ObserveNextJob
  <2>1. PICK outcome \in JobOutcomes : NextJob(outcome)
    BY <1>14 DEF ObserveNextJob
  <2>2. stack' \subseteq outcome.stack
    BY <2>1, JobOutcomesEffect DEF NextJob
  <2>3. stack' \subseteq stack \cup {"live"}
    BY <2>1, <2>2, JobOutcomesEffect
  <2> QED
    BY <2>1, <2>3 DEF NextJob, ObservingFrame, Handling, Pumping, Quiet
<1>15. CASE CaptureExpose
  BY <1>15 DEF CaptureExpose, HandlingCamera, Handling, Pumping, Quiet
<1>16. CASE CaptureFrame
  BY StackAfterEffect, <1>16
     DEF CaptureFrame, HandlingCamera, Handling, Pumping, Quiet, Report
<1>17. CASE ProcessAndObserve
  BY <1>17
     DEF ProcessAndObserve, Handling, Pumping, DeliverCapture, ResetStack,
         Report
<1>18. CASE ProcessAndComplete
  BY ParkMountEffect, <1>18
     DEF ProcessAndComplete, Pumping, DeliverCapture, Report
<1>19. CASE ExpireUnacquired
  BY ParkMountEffect, <1>19 DEF ExpireUnacquired, Pumping, Fail, FailAlong
<1>20. CASE FlushCapture
  BY <1>20 DEF FlushCapture, Pumping, Finishing, Report
<1>21. CASE FinishSession
  BY ParkMountEffect, <1>21
     DEF FinishSession, Pumping, Finishing, Report, WayToComplete
<1>22. CASE ParkWhenIdle
  BY ParkMountEffect, <1>22 DEF ParkWhenIdle, Pumping, Quiet
<1>23. CASE DeviceFault
  BY ParkMountEffect, <1>23 DEF DeviceFault, Pumping, FailAlong
<1>24. CASE Offer
  BY <1>24 DEF Offer, IsActive
<1>25. CASE Cancel
  BY ParkMountEffect, <1>25 DEF Cancel, IsActive, Fail, FailAlong
<1>26. CASE RequestCapture
  BY <1>26 DEF RequestCapture, IsActive, ResetStack, Quiet
<1>27. CASE RequestFocus
  BY <1>27 DEF RequestFocus, IsActive, Quiet
<1>28. CASE NudgeOrRecenter
  <2>1. stack' \subseteq stack
    BY <1>28 DEF NudgeOrRecenter, PointingChanged, ResetStack
  <2> QED
    BY <1>28, <2>1 DEF NudgeOrRecenter, Quiet
<1>29. CASE Retarget
  BY <1>29
     DEF Retarget, IsActive, CapturePending, BeginSlew, ResetStack, Report
<1>30. CASE SetSessionEnd
  BY <1>30 DEF SetSessionEnd, IsActive, Quiet
<1>31. CASE WatchdogStopsCapture
  BY <1>31 DEF WatchdogStopsCapture, Quiet
<1>32. CASE WatchdogParks
  BY <1>32 DEF WatchdogParks, Quiet
<1>33. CASE ApplyCaptureStop
  BY <1>33 DEF ApplyCaptureStop, SuspendCapture, Quiet
<1>34. CASE ApplyPark
  BY ParkMountEffect, <1>34 DEF ApplyPark, IsActive, Fail, FailAlong, Quiet
<1>35. CASE ResumeCapture
  BY <1>35 DEF ResumeCapture, Quiet
<1>36. CASE SlewSettles
  BY <1>36 DEF SlewSettles, Quiet
<1>37. CASE ExposureDone
  BY <1>37 DEF ExposureDone, Quiet
<1>38. CASE Tick
  BY <1>38 DEF Tick, Quiet
<1>39. CASE UNCHANGED vars
  BY <1>39 DEF vars
<1> QED
  BY <1>1, <1>2, <1>3, <1>4, <1>5, <1>6, <1>7, <1>8, <1>9, <1>10, <1>11, <1>12,
     <1>13, <1>14, <1>15, <1>16, <1>17, <1>18, <1>19, <1>20, <1>21, <1>22,
     <1>23, <1>24, <1>25, <1>26, <1>27, <1>28, <1>29, <1>30, <1>31, <1>32,
     <1>33, <1>34, <1>35, <1>36, <1>37, <1>38, <1>39
     DEF Next, Pump, Handlers, Acquire, Observe, CaptureAndFinish, Commands,
         WatchdogSteps, Apply, Environment

-----------------------------------------------------------------------------
(* The theorems *)

IInv == TypeInv /\ EndingInv /\ ExposureInv /\ DeliveredOnce /\ StackInv

\* The initial state satisfies every layer.
LEMMA InitIInv == Init => IInv
<1> SUFFICES ASSUME Init PROVE IInv
  OBVIOUS
<1> USE RunnerBounds DEF Init, RunnerBounds, NoCommand, NoTime
<1>1. TypeOK
  <2>1. /\ acquired \in BOOLEAN /\ exposureStarted \in BOOLEAN
        /\ measured \in BOOLEAN /\ ParkTypeOK
    BY Zenon DEF ParkTypeOK
  <2>2. LiveTypeOK /\ HoldTypeOK
    <3>1. /\ stale \in BOOLEAN /\ autoExposure \in BOOLEAN
          /\ correcting \in BOOLEAN /\ suspended \in BOOLEAN
      BY Zenon
    <3> QED
      BY <3>1 DEF LiveTypeOK, HoldTypeOK
  <2>3. DeviceTypeOK
    <3>1. slewing \in BOOLEAN
      BY Zenon
    <3> QED
      BY <3>1 DEF DeviceTypeOK
  <2>4. MissionTypeOK /\ TimeTypeOK
    BY DEF MissionTypeOK, TimeTypeOK, Times, FailureReasons, MissionStates
  <2>5. AcquisitionTypeOK /\ CaptureTypeOK
    BY <2>1, EmptyStackType DEF AcquisitionTypeOK, CaptureTypeOK
  <2> QED
    BY <2>1, <2>2, <2>3, <2>4, <2>5 DEF TypeOK
<1>2. Phase /\ Attempts /\ Frames
  BY DEF Phase, Attempts, Frames, LiveMissionStates
<1>3. EndingInv /\ ExposureInv
  BY
     DEF EndingInv, ExposureInv, EndedMissionParkedOrSaysWhy,
         ImageNeverFailsAcquired, CenteringHasMeasurement,
         AwaitedExposureIsRunning, IsActive
<1>4. DeliveredOnce /\ StackInv
  BY EmptyStackType
     DEF DeliveredOnce, NoCaptureDeliveredTwice, StackInv, OneExposurePerStack,
         CompleteLeavesNoImage
<1> QED
  BY <1>1, <1>2, <1>3, <1>4 DEF IInv, TypeInv

\* The layers together are an inductive invariant of the runner.
THEOREM Inductive == Spec => []IInv
<1>1. IInv /\ [Next]_vars => IInv'
  BY TypeStep, EndingStep, ExposureStep, DeliveredStep, StackStep DEF IInv
<1> QED
  BY InitIInv, <1>1, PTL DEF Spec

\* Every way a mission ends in runner.py attempts Park and writes down what became
\* of it, leaves no image behind and tells whether the object was observed, for
\* any number of missions, captures and retargets.
THEOREM EndingsAreTrue == Spec => []EndingIsTrue
<1>1. IInv => EndingIsTrue
  BY DEF IInv, EndingInv, StackInv, EndingIsTrue, EndingTellsWhetherObserved
<1> QED
  BY Inductive, <1>1, PTL

\* Solves, corrections and frames stay within their ceilings, no stack mixes live
\* and capture frames, and each capture is handed over at most once, however many
\* are asked for.
THEOREM CapturesSound == Spec => []CapturesAreSound
<1>1. IInv => CapturesAreSound
  BY DEF IInv, TypeInv, StackInv, DeliveredOnce, CapturesAreSound
<1> QED
  BY Inductive, <1>1, PTL

\* The assertion in _correction never fails.
THEOREM CorrectionAssertion == Spec => []CenteringHasMeasurement
<1>1. IInv => CenteringHasMeasurement
  BY DEF IInv, EndingInv
<1> QED
  BY Inductive, <1>1, PTL

\* No order of aborts, suspensions and commands leaves the acquisition, the capture
\* run or the live view waiting for an exposure that is gone.
THEOREM NoWaitForNothing == Spec => []AwaitedExposureIsRunning
<1>1. IInv => AwaitedExposureIsRunning
  BY DEF IInv, ExposureInv
<1> QED
  BY Inductive, <1>1, PTL

-----------------------------------------------------------------------------
(* The events of the runner are the ones the cloud accepts *)

\* The edges of the cloud's table that the runner uses.
LEMMA LegalMoves ==
  /\ IsLegalMissionTransition("PREPARING", "SLEWING")
  /\ IsLegalMissionTransition("CENTERING", "SLEWING")
  /\ IsLegalMissionTransition("OBSERVING", "SLEWING")
  /\ IsLegalMissionTransition("SLEWING", "VERIFYING")
  /\ IsLegalMissionTransition("VERIFYING", "CENTERING")
  /\ IsLegalMissionTransition("VERIFYING", "OBSERVING")
  /\ IsLegalMissionTransition("PROCESSING", "OBSERVING")
  /\ IsLegalMissionTransition("OBSERVING", "CAPTURING")
  /\ IsLegalMissionTransition("CAPTURING", "PROCESSING")
  /\ IsLegalMissionTransition("PROCESSING", "COMPLETE")
  /\ IsLegalMissionTransition("OBSERVING", "COMPLETE")
  /\ \A s \in LiveMissionStates, e \in {"FAILED", "CANCELLED",
     "HARDWARE_ERROR"} :
       IsLegalMissionTransition(s, e)
BY DEF IsLegalMissionTransition, LegalPredecessors, MissionStates,
       LiveMissionStates, TerminalMissionStates, HoldMissionStates

\* The lifecycle's table is the one the runner's module extends.
LEMMA SameTable ==
  /\ \A from, path : Lifecycle!IsLegalPath(from, path) = IsLegalPath(from, path)
  /\ Lifecycle!EndedStates = EndedStates
BY DEF Lifecycle!IsLegalPath, Lifecycle!IsLegalMissionTransition,
       Lifecycle!LegalPredecessors, Lifecycle!MissionStates,
       Lifecycle!LiveMissionStates, Lifecycle!TerminalMissionStates,
       Lifecycle!HoldMissionStates, Lifecycle!EndedStates,
       IsLegalPath, IsLegalMissionTransition, LegalPredecessors, MissionStates,
       LiveMissionStates, TerminalMissionStates, HoldMissionStates, EndedStates

\* An event that follows one edge of the table is a report the cloud accepts.
LEMMA ReportOne ==
  ASSUME mission # 0, UNCHANGED mission,
         NEW t, trail' = <<t>>, state' = trail'[Len(trail')],
         IsLegalMissionTransition(state, t)
  PROVE  Lifecycle!Next
<1>1. Len(<<t>>) = 1 /\ <<t>>[1] = t /\ <<t>> # <<>>
  OBVIOUS
<1>2. IsLegalPath(state, <<t>>)
  BY <1>1 DEF IsLegalPath
<1>3. Lifecycle!IsLegalPath(state, trail')
  BY <1>2, SameTable
<1> QED
  BY <1>1, <1>3 DEF Lifecycle!Next, Lifecycle!Report

\* The ways of _finish_session are accepted event by event.
LEMMA WayIsLegal ==
  ASSUME NEW s \in {"SLEWING", "VERIFYING", "OBSERVING"}
  PROVE  IsLegalPath(s, WayToComplete[s]) /\ WayToComplete[s] # <<>>
<1>1. CASE s = "SLEWING"
  <2>1. WayToComplete[s] = <<"VERIFYING", "OBSERVING", "COMPLETE">>
    BY <1>1 DEF WayToComplete
  <2> QED
    BY <1>1, <2>1, LegalMoves DEF IsLegalPath
<1>2. CASE s = "VERIFYING"
  <2>1. WayToComplete[s] = <<"OBSERVING", "COMPLETE">>
    BY <1>2 DEF WayToComplete
  <2> QED
    BY <1>2, <2>1, LegalMoves DEF IsLegalPath
<1>3. CASE s = "OBSERVING"
  <2>1. WayToComplete[s] = <<"COMPLETE">>
    BY <1>3 DEF WayToComplete
  <2> QED
    BY <1>3, <2>1, LegalMoves DEF IsLegalPath
<1> QED
  BY <1>1, <1>2, <1>3

\* Every step of the runner is a step of the lifecycle, or leaves it alone.
LEMMA LifecycleStep ==
  ASSUME TypeInv, [Next]_vars
  PROVE  [Lifecycle!Next]_(Lifecycle!vars)
<1> USE DEF missionVars, LiveMissionStates
<1>1. CASE PrepareRefused
  BY <1>1, LegalMoves, ReportOne
     DEF PrepareRefused, Handling, Pumping, Fail, FailAlong
<1>2. CASE PrepareAndSlew
  BY <1>2, LegalMoves, ReportOne
     DEF PrepareAndSlew, Handling, Pumping, BeginSlew, Report
<1>3. CASE SlewTimeout
  BY <1>3, LegalMoves, ReportOne
     DEF SlewTimeout, Handling, Pumping, Fail, FailAlong
<1>4. CASE SlewDone
  BY <1>4, LegalMoves, ReportOne DEF SlewDone, Handling, Pumping, Report
<1>5. CASE VerifyExpose
  BY <1>5
     DEF VerifyExpose, HandlingCamera, Handling, Pumping, Quiet,
         Lifecycle!Next, Lifecycle!Quiet
<1>6. CASE SolveFailed
  <2>1. mission # 0 /\ state = "VERIFYING"
    BY <1>6 DEF SolveFailed, ReadSolveFrame, HandlingCamera, Handling, Pumping
  <2>2. CASE Quiet
    BY <2>2 DEF Quiet, Lifecycle!Next, Lifecycle!Quiet
  <2>3. CASE Report(<<"OBSERVING">>)
    BY <2>1, <2>3, LegalMoves, ReportOne DEF Report
  <2>4. CASE Fail("FAILED", "PLATE_SOLVE_FAILED")
    BY <2>1, <2>4, LegalMoves, ReportOne DEF Fail, FailAlong
  <2> QED
    BY <1>6, <2>2, <2>3, <2>4 DEF SolveFailed, EnterObserving
<1>7. CASE SolvedCentred
  BY <1>7, LegalMoves, ReportOne
     DEF SolvedCentred, ReadSolveFrame, HandlingCamera, Handling, Pumping,
         EnterObserving, Report
<1>8. CASE SolvedOffCentre
  <2>1. mission # 0 /\ state = "VERIFYING"
    BY <1>8
       DEF SolvedOffCentre, ReadSolveFrame, HandlingCamera, Handling, Pumping
  <2>2. CASE Report(<<"OBSERVING">>)
    BY <2>1, <2>2, LegalMoves, ReportOne DEF Report
  <2>3. CASE Report(<<"CENTERING">>)
    BY <2>1, <2>3, LegalMoves, ReportOne DEF Report
  <2> QED
    BY <1>8, <2>2, <2>3 DEF SolvedOffCentre, EnterObserving
<1>9. CASE CenteringExhausted
  BY <1>9, LegalMoves, ReportOne
     DEF CenteringExhausted, HandlingCentering, Pumping, Fail, FailAlong
<1>10. CASE CorrectPointing
  <2>1. mission # 0 /\ state = "CENTERING"
    BY <1>10 DEF CorrectPointing, HandlingCentering, Pumping
  <2>2. CASE BeginSlew
    BY <2>1, <2>2, LegalMoves, ReportOne DEF BeginSlew, Report
  <2>3. CASE \E reason \in FailureReasons : Fail("FAILED", reason)
    BY <2>1, <2>3, LegalMoves, ReportOne DEF Fail, FailAlong
  <2> QED
    BY <1>10, <2>2, <2>3 DEF CorrectPointing, FailureReasons
<1>11. CASE FocusStep
  BY <1>11
     DEF FocusStep, ObservingFrame, Handling, Pumping, Quiet, Lifecycle!Next,
         Lifecycle!Quiet
<1>12. CASE ObserveToCapture
  BY <1>12, LegalMoves, ReportOne
     DEF ObserveToCapture, ObservingFrame, Handling, Pumping, Report
<1>13. CASE ObserveHold
  BY <1>13
     DEF ObserveHold, ObservingFrame, Handling, Pumping, Quiet, Lifecycle!Next,
         Lifecycle!Quiet
<1>14. CASE ObserveNextJob
  BY <1>14
     DEF ObserveNextJob, NextJob, ObservingFrame, Handling, Pumping, Quiet,
         Lifecycle!Next, Lifecycle!Quiet
<1>15. CASE CaptureExpose
  BY <1>15
     DEF CaptureExpose, HandlingCamera, Handling, Pumping, Quiet,
         Lifecycle!Next, Lifecycle!Quiet
<1>16. CASE CaptureFrame
  <2>1. mission # 0 /\ state = "CAPTURING"
    BY <1>16 DEF CaptureFrame, HandlingCamera, Handling, Pumping
  <2>2. CASE Report(<<"PROCESSING">>)
    BY <2>1, <2>2, LegalMoves, ReportOne DEF Report
  <2>3. CASE Quiet
    BY <2>3 DEF Quiet, Lifecycle!Next, Lifecycle!Quiet
  <2> QED
    BY <1>16, <2>2, <2>3 DEF CaptureFrame
<1>17. CASE ProcessAndObserve
  BY <1>17, LegalMoves, ReportOne
     DEF ProcessAndObserve, Handling, Pumping, Report
<1>18. CASE ProcessAndComplete
  BY <1>18, LegalMoves, ReportOne DEF ProcessAndComplete, Pumping, Report
<1>19. CASE ExpireUnacquired
  BY <1>19, LegalMoves, ReportOne
     DEF ExpireUnacquired, Pumping, Fail, FailAlong
<1>20. CASE FlushCapture
  BY <1>20, LegalMoves, ReportOne DEF FlushCapture, Pumping, Report
<1>21. CASE FinishSession
  <2>1. PICK s \in {"SLEWING", "VERIFYING", "OBSERVING"} :
          Pumping(s) /\ Report(WayToComplete[s])
    BY <1>21 DEF FinishSession, WayToComplete
  <2> QED
    BY <2>1, WayIsLegal, SameTable
       DEF Pumping, Report, Lifecycle!Next, Lifecycle!Report
<1>22. CASE ParkWhenIdle
  BY <1>22 DEF ParkWhenIdle, Pumping, Quiet, Lifecycle!Next, Lifecycle!Quiet
<1>23. CASE DeviceFault
  <2>1. mission # 0 /\ state \in LiveMissionStates
    BY <1>23 DEF DeviceFault, Pumping
  <2>2. CASE FailAlong(<<"HARDWARE_ERROR">>, "DEVICE_FAULT")
    BY <2>1, <2>2, LegalMoves, ReportOne DEF FailAlong
  <2>3. CASE /\ state = "SLEWING"
             /\ FailAlong(<<"VERIFYING", "HARDWARE_ERROR">>, "DEVICE_FAULT")
    <3>1. IsLegalPath(state, <<"VERIFYING", "HARDWARE_ERROR">>)
      BY <2>3, LegalMoves DEF IsLegalPath
    <3> QED
      BY <2>1, <2>3, <3>1, SameTable
         DEF FailAlong, Lifecycle!Next, Lifecycle!Report
  <2> QED
    BY <1>23, <2>2, <2>3 DEF DeviceFault
<1>24. CASE Offer
  BY <1>24, SameTable DEF Offer, IsActive, Lifecycle!Next, Lifecycle!Accept
<1>25. CASE Cancel
  <2>1. mission # 0 /\ state \in LiveMissionStates
    BY <1>25
       DEF Cancel, IsActive, TypeInv, TypeOK, MissionTypeOK, Phase,
           MissionStates, EndedStates
  <2> QED
    BY <1>25, <2>1, LegalMoves, ReportOne DEF Cancel, Fail, FailAlong
<1>26. CASE RequestCapture
  BY <1>26 DEF RequestCapture, IsActive, Quiet, Lifecycle!Next, Lifecycle!Quiet
<1>27. CASE RequestFocus
  BY <1>27 DEF RequestFocus, IsActive, Quiet, Lifecycle!Next, Lifecycle!Quiet
<1>28. CASE NudgeOrRecenter
  BY <1>28 DEF NudgeOrRecenter, Quiet, Lifecycle!Next, Lifecycle!Quiet
<1>29. CASE Retarget
  BY <1>29, LegalMoves, ReportOne DEF Retarget, IsActive, BeginSlew, Report
<1>30. CASE SetSessionEnd
  BY <1>30 DEF SetSessionEnd, IsActive, Quiet, Lifecycle!Next, Lifecycle!Quiet
<1>31. CASE WatchdogStopsCapture
  BY <1>31 DEF WatchdogStopsCapture, Quiet, Lifecycle!Next, Lifecycle!Quiet
<1>32. CASE WatchdogParks
  BY <1>32 DEF WatchdogParks, Quiet, Lifecycle!Next, Lifecycle!Quiet
<1>33. CASE ApplyCaptureStop
  BY <1>33 DEF ApplyCaptureStop, Quiet, Lifecycle!Next, Lifecycle!Quiet
<1>34. CASE ApplyPark
  <2>1. CASE IsActive
    <3>1. mission # 0 /\ state \in LiveMissionStates
      BY <2>1
         DEF IsActive, TypeInv, TypeOK, MissionTypeOK, Phase, MissionStates,
             EndedStates
    <3>2. Fail("CANCELLED", "CANCELLED")
      BY <1>34, <2>1 DEF ApplyPark
    <3> QED
      BY <3>1, <3>2, LegalMoves, ReportOne DEF Fail, FailAlong
  <2>2. CASE ~IsActive
    BY <1>34, <2>2 DEF ApplyPark, Quiet, Lifecycle!Next, Lifecycle!Quiet
  <2> QED
    BY <2>1, <2>2
<1>35. CASE ResumeCapture
  BY <1>35 DEF ResumeCapture, Quiet, Lifecycle!Next, Lifecycle!Quiet
<1>36. CASE SlewSettles
  BY <1>36 DEF SlewSettles, Quiet, Lifecycle!Next, Lifecycle!Quiet
<1>37. CASE ExposureDone
  BY <1>37 DEF ExposureDone, Quiet, Lifecycle!Next, Lifecycle!Quiet
<1>38. CASE Tick
  BY <1>38 DEF Tick, Quiet, Lifecycle!Next, Lifecycle!Quiet
<1>39. CASE UNCHANGED vars
  BY <1>39 DEF vars, Lifecycle!vars
<1> QED
  BY <1>1, <1>2, <1>3, <1>4, <1>5, <1>6, <1>7, <1>8, <1>9, <1>10, <1>11, <1>12,
     <1>13, <1>14, <1>15, <1>16, <1>17, <1>18, <1>19, <1>20, <1>21, <1>22,
     <1>23, <1>24, <1>25, <1>26, <1>27, <1>28, <1>29, <1>30, <1>31, <1>32,
     <1>33, <1>34, <1>35, <1>36, <1>37, <1>38, <1>39
     DEF Next, Pump, Handlers, Acquire, Observe, CaptureAndFinish, Commands,
         WatchdogSteps, Apply, Environment

\* The runner implements the lifecycle: none of its events would be refused by
\* isLegalMissionTransition, and missions are taken on one at a time.
THEOREM EventsAreAccepted == Spec => LifecycleSpec
<1>1. Init => Lifecycle!Init
  BY DEF Init, Lifecycle!Init
<1>2. TypeInv /\ [Next]_vars => [Lifecycle!Next]_(Lifecycle!vars)
  BY LifecycleStep
<1>3. IInv => TypeInv
  BY DEF IInv
<1> QED
  BY Inductive, <1>1, <1>2, <1>3, PTL DEF Spec, LifecycleSpec, Lifecycle!Spec

-----------------------------------------------------------------------------
(* What a step may not do *)

\* Only an autofocus exposes while capture is suspended.
LEMMA SuspendedStep ==
  ASSUME TypeInv, [Next]_vars,
         suspended, camera # "exposing", camera' = "exposing"
  PROVE  focus = "moving"
<1> USE DEF deviceVars, TypeInv, TypeOK, HoldTypeOK, DeviceTypeOK
<1>1. CASE PrepareRefused
  BY <1>1 DEF PrepareRefused, Fail, FailAlong, ParkMount
<1>2. CASE PrepareAndSlew
  BY <1>2 DEF PrepareAndSlew
<1>3. CASE SlewTimeout
  BY <1>3 DEF SlewTimeout, Fail, FailAlong, ParkMount
<1>4. CASE SlewDone
  BY <1>4 DEF SlewDone
<1>5. CASE VerifyExpose
  BY <1>5 DEF VerifyExpose, HandlingCamera
<1>6. CASE SolveFailed
  BY <1>6 DEF SolveFailed, Fail, FailAlong, ParkMount
<1>7. CASE SolvedCentred
  BY <1>7 DEF SolvedCentred
<1>8. CASE SolvedOffCentre
  BY <1>8 DEF SolvedOffCentre
<1>9. CASE CenteringExhausted
  BY <1>9 DEF CenteringExhausted, Fail, FailAlong, ParkMount
<1>10. CASE CorrectPointing
  BY <1>10 DEF CorrectPointing, Fail, FailAlong, ParkMount
<1>11. CASE FocusStep
  BY <1>11 DEF FocusStep
<1>12. CASE ObserveToCapture
  BY <1>12 DEF ObserveToCapture, CameraAfterJob
<1>13. CASE ObserveHold
  BY <1>13 DEF ObserveHold, CameraAfterJob
<1>14. CASE ObserveNextJob
  BY <1>14 DEF ObserveNextJob, NextJob
<1>15. CASE CaptureExpose
  BY <1>15 DEF CaptureExpose, HandlingCamera
<1>16. CASE CaptureFrame
  BY <1>16 DEF CaptureFrame
<1>17. CASE ProcessAndObserve
  BY <1>17 DEF ProcessAndObserve
<1>18. CASE ProcessAndComplete
  BY <1>18 DEF ProcessAndComplete, ParkMount
<1>19. CASE ExpireUnacquired
  BY <1>19 DEF ExpireUnacquired, Fail, FailAlong, ParkMount
<1>20. CASE FlushCapture
  BY <1>20 DEF FlushCapture
<1>21. CASE FinishSession
  BY <1>21 DEF FinishSession, ParkMount
<1>22. CASE ParkWhenIdle
  BY <1>22 DEF ParkWhenIdle, ParkMount
<1>23. CASE DeviceFault
  BY <1>23 DEF DeviceFault, FailAlong, ParkMount
<1>24. CASE Offer
  BY <1>24 DEF Offer
<1>25. CASE Cancel
  BY <1>25 DEF Cancel, Fail, FailAlong, ParkMount
<1>26. CASE RequestCapture
  BY <1>26 DEF RequestCapture
<1>27. CASE RequestFocus
  BY <1>27 DEF RequestFocus
<1>28. CASE NudgeOrRecenter
  BY <1>28 DEF NudgeOrRecenter
<1>29. CASE Retarget
  BY <1>29 DEF Retarget
<1>30. CASE SetSessionEnd
  BY <1>30 DEF SetSessionEnd
<1>31. CASE WatchdogStopsCapture
  BY <1>31 DEF WatchdogStopsCapture
<1>32. CASE WatchdogParks
  BY <1>32 DEF WatchdogParks
<1>33. CASE ApplyCaptureStop
  BY <1>33 DEF ApplyCaptureStop
<1>34. CASE ApplyPark
  BY <1>34 DEF ApplyPark, Fail, FailAlong, ParkMount
<1>35. CASE ResumeCapture
  BY <1>35 DEF ResumeCapture
<1>36. CASE SlewSettles
  BY <1>36 DEF SlewSettles
<1>37. CASE ExposureDone
  BY <1>37 DEF ExposureDone
<1>38. CASE Tick
  BY <1>38 DEF Tick
<1>39. CASE UNCHANGED vars
  BY <1>39 DEF vars
<1> QED
  BY <1>1, <1>2, <1>3, <1>4, <1>5, <1>6, <1>7, <1>8, <1>9, <1>10, <1>11, <1>12,
     <1>13, <1>14, <1>15, <1>16, <1>17, <1>18, <1>19, <1>20, <1>21, <1>22,
     <1>23, <1>24, <1>25, <1>26, <1>27, <1>28, <1>29, <1>30, <1>31, <1>32,
     <1>33, <1>34, <1>35, <1>36, <1>37, <1>38, <1>39
     DEF Next, Pump, Handlers, Acquire, Observe, CaptureAndFinish, Commands,
         WatchdogSteps, Apply, Environment

\* While capture is suspended no exposure is started but by an autofocus that was
\* already under way.
THEOREM SuspensionHolds == Spec => SuspendedHoldsTheCamera
<1>1. TypeInv /\ [Next]_vars =>
        [suspended /\ camera # "exposing" /\ camera' = "exposing"
           => focus = "moving"]_vars
  BY SuspendedStep
<1>2. IInv => TypeInv
  BY DEF IInv
<1> QED
  BY Inductive, <1>1, <1>2, PTL DEF Spec, SuspendedHoldsTheCamera
=============================================================================
