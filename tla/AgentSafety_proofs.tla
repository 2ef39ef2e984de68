------------------------- MODULE AgentSafety_proofs -------------------------
(***************************************************************************)
(* Proofs about AgentSafety, for every limit on silence, every number of   *)
(* process starts, messages in a pass and faults, and about the agent's    *)
(* link (AgentLink), for every number of sockets, changes and faults.      *)
(***************************************************************************)
EXTENDS AgentSafety, AgentLink, FiniteSetTheorems, TLAPS

-----------------------------------------------------------------------------
(* Parts of a step *)

\* Whatever the mount answers, its state and the count of refusals have types.
LEMMA ParkingType ==
  ASSUME TypeOK, NEW p \in BOOLEAN, NEW f \in 0..MaxFaults,
         NEW x \in Parking(p, f)
  PROVE  /\ x.ok \in BOOLEAN /\ x.parked \in BOOLEAN
         /\ x.failures \in 0..MaxFaults
<1>1. storeFailures \in Nat /\ MaxFaults \in Nat
  BY SafetyAssumption DEF TypeOK
<1>2. \/ x = [ok |-> TRUE, parked |-> TRUE, failures |-> f]
      \/ /\ f + storeFailures < MaxFaults
         /\ x = [ok |-> FALSE, parked |-> p, failures |-> f + 1]
  BY Zenon DEF Parking
<1>3. CASE x = [ok |-> TRUE, parked |-> TRUE, failures |-> f]
  <2>1. x.ok = TRUE /\ x.parked = TRUE /\ x.failures = f
    BY <1>3, Zenon
  <2> QED BY <2>1, Zenon
<1>4. CASE /\ f + storeFailures < MaxFaults
           /\ x = [ok |-> FALSE, parked |-> p, failures |-> f + 1]
  <2>1. x.ok = FALSE /\ x.parked = p /\ x.failures = f + 1
    BY <1>4, Zenon
  <2>2. f + 1 \in 0..MaxFaults
    BY <1>1, <1>4
  <2> QED BY <2>1, <2>2, Zenon
<1> QED BY <1>2, <1>3, <1>4

\* Parking leaves the mount's variables of their types.
LEMMA ParkedType ==
  ASSUME TypeOK, NEW p \in BOOLEAN, NEW f \in 0..MaxFaults,
         NEW x \in Parking(p, f), Parked(x)
  PROVE  parked' \in BOOLEAN /\ parkFailures' \in 0..MaxFaults /\ strayed' \in BOOLEAN
<1>1. x.parked \in BOOLEAN /\ x.failures \in 0..MaxFaults
  BY ParkingType
<1> QED BY <1>1, Zenon DEF Parked

\* So does the watchdog's terminal sequence with the watchdog's.
LEMMA ActType ==
  ASSUME TypeOK, NEW t, NEW x, x.ok \in BOOLEAN, Act(t, x)
  PROVE  /\ captureStopped' \in BOOLEAN /\ latched' \in BOOLEAN
         /\ unread' \in Findings /\ holdActedOn' \in BOOLEAN
<1>1. unread' \in Findings
  BY DEF Act, Findings
<1> QED BY <1>1, Zenon DEF Act

\* ... a runner that is told to give up ...
LEMMA CancelType ==
  ASSUME TypeOK, NEW p \in BOOLEAN, NEW f \in 0..MaxFaults, Cancel(p, f)
  PROVE  /\ mission' \in {"none", "flying", "unparked"}
         /\ parked' \in BOOLEAN /\ parkFailures' \in 0..MaxFaults /\ strayed' \in BOOLEAN
<1>1. mission \in {"none", "flying", "unparked"}
  BY DEF TypeOK
<1>2. CASE mission = "flying"
  <2>1. PICK x \in Parking(p, f) : mission' = "none" /\ Parked(x)
    BY <1>2 DEF Cancel
  <2> QED BY <2>1, ParkedType
<1>3. CASE mission # "flying"
  <2>1. mission' = mission /\ Parked([parked |-> p, failures |-> f])
    BY <1>3 DEF Cancel
  <2>2. parked' = p /\ parkFailures' = f /\ strayed' \in BOOLEAN
    BY <2>1, Zenon DEF Parked
  <2> QED BY <1>1, <2>1, <2>2
<1> QED BY <1>2, <1>3

\* ... a write that is refused ...
LEMMA StoreRefusesType ==
  ASSUME TypeOK, StoreRefuses
  PROVE  /\ pc' \in {"down"} \cup Recovering \cup Passes /\ batch' \in 0..MaxBatch
         /\ storeFailures' \in 0..MaxFaults
BY SafetyAssumption DEF TypeOK, StoreRefuses, Passes

\* ... and an agent that disarms.
LEMMA DisarmType ==
  ASSUME TypeOK, NEW alsoPark, Disarm(alsoPark) \/ DisarmUnsaved
  PROVE  posture' \in Postures /\ trigger' \in Triggers \cup {"none"}
BY DEF TypeOK, Disarm, DisarmUnsaved, Postures, Triggers

-----------------------------------------------------------------------------
(* Types *)

\* The last instant is a natural number.
LEMMA LastType == Last \in Nat
BY SafetyAssumption DEF Last

\* The initial states are well typed.
LEMMA TypeInit == Init => TypeOK
<1> SUFFICES ASSUME Init PROVE TypeOK
  OBVIOUS
<1>1. request = NoRequest /\ request.run <= run
  BY DEF Init, NoRequest
<1>2. /\ parked \in BOOLEAN /\ captureStopped \in BOOLEAN /\ latched \in BOOLEAN
      /\ recovered \in BOOLEAN /\ holding \in BOOLEAN /\ owner \in BOOLEAN
      /\ diskHold \in BOOLEAN /\ diskMission \in BOOLEAN
      /\ holdActedOn \in BOOLEAN /\ strayed \in BOOLEAN
  BY Zenon DEF Init
<1> QED BY <1>1, <1>2, SafetyAssumption, LastType DEF Init, TypeOK, Findings, Postures

\* A pass that handles messages has one left; only then is one taken off.
Batched == pc = "messages" => batch # 0

TypeInv == TypeOK /\ Batched

\* Handling a message leaves the loop where it may be.
LEMMA HandledType ==
  ASSUME TypeInv, Handling, Handled
  PROVE  /\ pc' \in {"down"} \cup Recovering \cup Passes /\ batch' \in 0..MaxBatch
         /\ recovered' \in BOOLEAN /\ Batched'
<1>1. recovered' \in BOOLEAN
  BY DEF TypeInv, TypeOK, Handled
<1>2. batch' \in 0..MaxBatch
  BY SafetyAssumption DEF TypeInv, TypeOK, Batched, Handling, Handled
<1> QED BY <1>1, <1>2 DEF Handled, MessagesNext, Passes, Batched

\* Every step keeps the types and the bounds that go with them.
LEMMA TypeStep == TypeInv /\ [Next]_vars => TypeInv'
<1> SUFFICES ASSUME TypeInv, [Next]_vars PROVE TypeInv'
  OBVIOUS
<1>a. TypeOK /\ parked \in BOOLEAN /\ parkFailures \in 0..MaxFaults
  BY DEF TypeInv, TypeOK
<1>b. request \in Requests \cup {NoRequest} /\ request.run <= run
  BY DEF TypeInv, TypeOK
<1> USE <1>b, SafetyAssumption, LastType
    DEF TypeInv, Batched, mountVars, watchdogVars, loopVars, postureVars,
        diskVars, historyVars
<1>1. CASE Start
  <2>1. request' = NoRequest /\ request'.run <= run'
    BY <1>1 DEF Start, NoRequest, TypeOK
  <2>2. owner' \in BOOLEAN
    BY <1>1, Zenon DEF Start, TypeOK
  <2> QED BY <1>1, <2>1, <2>2 DEF Start, TypeOK, Recovering, Postures
<1>2. CASE Recover
  <2>1. CASE RestoreWeather
    BY <2>1 DEF RestoreWeather, TypeOK, Recovering, Triggers
  <2>2. CASE RestoreMission
    <3>1. parked' \in BOOLEAN /\ parkFailures' \in 0..MaxFaults /\ strayed' \in BOOLEAN
      BY <2>2, <1>a, ParkedType DEF RestoreMission, TypeOK
    <3> QED BY <2>2, <3>1 DEF RestoreMission, TypeOK, Passes
  <2> QED BY <1>2, <2>1, <2>2 DEF Recover
<1>3. CASE PumpLink
  <2>1. /\ captureStopped' \in BOOLEAN /\ latched' \in BOOLEAN
        /\ diskMission' \in BOOLEAN /\ recovered' \in BOOLEAN
    BY <1>3, Zenon DEF PumpLink, TypeOK
  <2> QED BY <1>3, <2>1 DEF PumpLink, MessagesNext, TypeOK, Passes
<1>4. CASE Handle
  <2>1. CASE SessionUpdate
    BY <2>1, HandledType DEF SessionUpdate, TypeOK
  <2>2. CASE WeatherUpdate
    <3>1. holding' \in BOOLEAN /\ diskHold' \in BOOLEAN /\ holdActedOn' \in BOOLEAN
          /\ trigger' \in Triggers \cup {"none"}
      BY <2>2 DEF WeatherUpdate, TypeOK, Triggers
    <3> QED BY <2>2, <3>1, HandledType DEF WeatherUpdate, TypeOK
  <2>3. CASE WeatherUnsaved
    <3>1. pc' = "link" /\ holdActedOn' \in BOOLEAN /\ holding' \in BOOLEAN
      BY <2>3, Zenon DEF WeatherUnsaved, StoreRefuses
    <3> QED BY <2>3, <3>1, StoreRefusesType DEF WeatherUnsaved, TypeOK
  <2>4. CASE ApprovalWithdrawn
    <3>1. CASE Handled /\ Disarm(TRUE) /\ UNCHANGED storeFailures
      <4>1. posture' \in Postures /\ trigger' \in Triggers \cup {"none"}
        BY <1>a, <3>1, DisarmType
      <4>2. /\ pc' \in {"down"} \cup Recovering \cup Passes /\ batch' \in 0..MaxBatch
            /\ recovered' \in BOOLEAN /\ Batched'
        BY <2>4, <3>1, HandledType DEF ApprovalWithdrawn
      <4> QED BY <2>4, <3>1, <4>1, <4>2 DEF ApprovalWithdrawn, TypeOK
    <3>2. CASE DisarmUnsaved /\ UNCHANGED recovered
      <4>1. pc' = "link" /\ StoreRefuses
        BY <3>2 DEF DisarmUnsaved, StoreRefuses
      <4> QED BY <2>4, <3>2, <4>1, StoreRefusesType, DisarmType
              DEF ApprovalWithdrawn, TypeOK
    <3> QED BY <2>4, <3>1, <3>2 DEF ApprovalWithdrawn
  <2>5. CASE ExecuteGoto
    BY <2>5, HandledType DEF ExecuteGoto, Permitted, Authorised, TypeOK
  <2>6. CASE ExecuteMove
    <3>1. parked' \in BOOLEAN /\ strayed' \in BOOLEAN
      BY <2>6, Zenon DEF ExecuteMove
    <3> QED BY <2>6, <3>1, HandledType DEF ExecuteMove, Permitted, Authorised, TypeOK
  <2>7. CASE ExecuteAbort
    <3>1. PICK x \in Parking(parked, parkFailures) :
            Act("operator_abort", x) /\ Cancel(x.parked, x.failures)
      BY <2>7 DEF ExecuteAbort
    <3>2. x.ok \in BOOLEAN /\ x.parked \in BOOLEAN /\ x.failures \in 0..MaxFaults
      BY <1>a, ParkingType
    <3> QED BY <1>a, <2>7, <3>1, <3>2, ActType, CancelType, HandledType
            DEF ExecuteAbort, Authorised, TypeOK
  <2>8. CASE ExecutePark
    <3>1. CASE mission = "flying"
      BY <1>a, <2>8, <3>1, CancelType, HandledType DEF ExecutePark, Authorised, TypeOK
    <3>2. CASE mission # "flying"
      <4>1. PICK x \in Parking(parked, parkFailures) :
              /\ UNCHANGED mission
              /\ IF x.ok
                   THEN Parked(x) /\ UNCHANGED <<watchdogVars, holdActedOn>>
                   ELSE \E y \in Parking(x.parked, x.failures) :
                          Act("device_fault", y) /\ Parked(y) /\ trigger' = "none"
        BY <2>8, <3>2 DEF ExecutePark
      <4>2. x.ok \in BOOLEAN /\ x.parked \in BOOLEAN /\ x.failures \in 0..MaxFaults
        BY <1>a, ParkingType
      <4>3. CASE x.ok
        BY <1>a, <2>8, <4>1, <4>3, ParkedType, HandledType
           DEF ExecutePark, Authorised, TypeOK
      <4>4. CASE ~x.ok
        <5>1. PICK y \in Parking(x.parked, x.failures) :
                Act("device_fault", y) /\ Parked(y) /\ trigger' = "none"
          BY <4>1, <4>4
        <5>2. y.ok \in BOOLEAN
          BY <1>a, <4>2, ParkingType
        <5> QED BY <1>a, <2>8, <4>1, <4>2, <5>1, <5>2, ActType, ParkedType, HandledType
                DEF ExecutePark, Authorised, TypeOK
      <4> QED BY <4>3, <4>4
    <3> QED BY <3>1, <3>2
  <2>9. CASE CommandFaults
    <3>1. PICK x \in Parking(parked, parkFailures) : Act("device_fault", x) /\ Parked(x)
      BY <2>9 DEF CommandFaults
    <3>2. x.ok \in BOOLEAN
      BY <1>a, ParkingType
    <3> QED BY <1>a, <2>9, <3>1, <3>2, ActType, ParkedType, HandledType
            DEF CommandFaults, Permitted, Authorised, TypeOK
  <2> QED BY <1>4, <2>1, <2>2, <2>3, <2>4, <2>5, <2>6, <2>7, <2>8, <2>9 DEF Handle, Execute
<1>5. CASE TakePostureRequest
  <2>1. request' = NoRequest /\ request'.run <= run'
    BY <1>5 DEF TakePostureRequest, NoRequest, TypeOK
  <2>2. /\ posture' \in Postures /\ trigger' \in Triggers \cup {"none"}
        /\ armedFor' \in 0..MaxRuns
    <3>1. CASE request = [run |-> run, action |-> "ARM"] /\ posture' = "UNATTENDED"
               /\ armedFor' = request.run /\ UNCHANGED trigger
      BY <3>1 DEF TypeOK, Postures
    <3>2. CASE armedFor' = armedFor /\ (Disarm(TRUE) \/ DisarmUnsaved)
      BY <1>a, <3>2, DisarmType DEF TypeOK
    <3>3. CASE UNCHANGED <<posture, trigger, armedFor>>
      BY <3>3 DEF TypeOK
    <3> QED BY <1>5, <3>1, <3>2, <3>3 DEF TakePostureRequest, TakeRequest
  <2>3. \/ pc' = "loss" /\ UNCHANGED <<batch, storeFailures>>
        \/ StoreRefuses
    BY <1>5 DEF TakePostureRequest, TakeRequest, DisarmUnsaved
  <2>4. /\ pc' \in {"down"} \cup Recovering \cup Passes /\ batch' \in 0..MaxBatch
        /\ storeFailures' \in 0..MaxFaults /\ pc' # "messages"
    BY <1>a, <2>3, StoreRefusesType DEF TypeOK, Passes, StoreRefuses
  <2> QED BY <1>5, <2>1, <2>2, <2>4 DEF TakePostureRequest, TypeOK
<1>6. CASE CheckLinkLoss
  <2>1. \/ pc' = "fly" /\ UNCHANGED <<batch, storeFailures>>
        \/ StoreRefuses
    BY <1>6 DEF CheckLinkLoss, DisarmUnsaved
  <2>2. posture' \in Postures /\ trigger' \in Triggers \cup {"none"}
    <3>1. CASE Disarm(TRUE) \/ DisarmUnsaved
      BY <1>a, <3>1, DisarmType
    <3>2. CASE UNCHANGED <<posture, trigger>>
      BY <3>2 DEF TypeOK
    <3> QED BY <1>6, <3>1, <3>2 DEF CheckLinkLoss
  <2>3. /\ pc' \in {"down"} \cup Recovering \cup Passes /\ batch' \in 0..MaxBatch
        /\ storeFailures' \in 0..MaxFaults /\ pc' # "messages"
    BY <1>a, <2>1, StoreRefusesType DEF TypeOK, Passes, StoreRefuses
  <2> QED BY <1>6, <2>2, <2>3 DEF CheckLinkLoss, TypeOK
<1>7. CASE FlyCancelled
  <2>1. \/ pc' = "persist" /\ unread' = "none" /\ UNCHANGED <<batch, storeFailures>>
        \/ StoreRefuses /\ UNCHANGED unread
    BY <1>7 DEF FlyCancelled, DisarmUnsaved
  <2>2. posture' \in Postures /\ trigger' \in Triggers \cup {"none"}
    <3>1. CASE Disarm(FALSE) \/ DisarmUnsaved
      BY <1>a, <3>1, DisarmType
    <3>2. CASE UNCHANGED <<posture, trigger>>
      BY <3>2 DEF TypeOK
    <3> QED BY <1>7, <3>1, <3>2 DEF FlyCancelled
  <2>3. /\ pc' \in {"down"} \cup Recovering \cup Passes /\ batch' \in 0..MaxBatch
        /\ storeFailures' \in 0..MaxFaults /\ pc' # "messages" /\ unread' \in Findings
    BY <1>a, <2>1, StoreRefusesType DEF TypeOK, Passes, StoreRefuses, Findings
  <2>4. /\ mission' \in {"none", "flying", "unparked"}
        /\ parked' \in BOOLEAN /\ parkFailures' \in 0..MaxFaults /\ strayed' \in BOOLEAN
    BY <1>a, <1>7, CancelType DEF FlyCancelled
  <2> QED BY <1>7, <2>2, <2>3, <2>4 DEF FlyCancelled, TypeOK
<1>8. CASE FlyHolds \/ FlyMoves
  <2>1. parked' \in BOOLEAN /\ strayed' \in BOOLEAN
    BY <1>8, Zenon DEF FlyHolds, FlyMoves, TypeOK
  <2> QED BY <1>8, <2>1 DEF FlyHolds, FlyMoves, Flying, TypeOK, Passes
<1>9. CASE FlyEnds
  <2>1. PICK x \in Parking(parked, parkFailures) :
         /\ Parked(x)
         /\ \/ /\ mission' = IF x.ok THEN "none" ELSE "unparked"
               /\ pc' = "persist"
               /\ UNCHANGED <<batch, posture, storeFailures>>
            \/ /\ mission = "flying" /\ mission' = "none"
               /\ \/ pc' = "persist" /\ Disarm(FALSE) /\ UNCHANGED <<batch, storeFailures>>
                  \/ DisarmUnsaved
                  \/ /\ pc' = "persist"
                     /\ UNCHANGED <<batch, posture, storeFailures>>
    BY <1>9 DEF FlyEnds
  <2>2. parked' \in BOOLEAN /\ parkFailures' \in 0..MaxFaults /\ strayed' \in BOOLEAN
    BY <1>a, <2>1, ParkedType
  <2>3. \/ pc' = "persist" /\ UNCHANGED <<batch, storeFailures>>
        \/ StoreRefuses
    BY <2>1 DEF DisarmUnsaved
  <2>4. /\ pc' \in {"down"} \cup Recovering \cup Passes /\ batch' \in 0..MaxBatch
        /\ storeFailures' \in 0..MaxFaults /\ pc' # "messages"
    BY <1>a, <2>3, StoreRefusesType DEF TypeOK, Passes, StoreRefuses
  <2>5. posture' \in Postures
    BY <1>a, <2>1, DisarmType DEF TypeOK
  <2>6. mission' \in {"none", "flying", "unparked"}
    BY <2>1
  <2> QED BY <1>9, <2>2, <2>4, <2>5, <2>6 DEF FlyEnds, Flying, TypeOK
<1>10. CASE Persist
  BY <1>10 DEF Persist, TypeOK, Passes
<1>11. CASE PassRaises
  <2>1. pc' = "link" /\ StoreRefuses
    BY <1>11 DEF PassRaises, StoreRefuses
  <2> QED BY <1>a, <1>11, <2>1, StoreRefusesType DEF PassRaises, TypeOK
<1>12. CASE Evaluate
  <2>1. CASE ActOnTrigger
    <3>1. PICK x \in Parking(parked, parkFailures) : Act(trigger, x) /\ Parked(x)
      BY <2>1 DEF ActOnTrigger
    <3>2. x.ok \in BOOLEAN
      BY <1>a, ParkingType
    <3> QED BY <1>a, <2>1, <3>1, <3>2, ActType, ParkedType DEF ActOnTrigger, TypeOK
  <2>2. CASE ActOnDeadLink
    <3>1. PICK x \in Parking(parked, parkFailures) : Act("link_dead", x) /\ Parked(x)
      BY <2>2 DEF ActOnDeadLink
    <3>2. x.ok \in BOOLEAN
      BY <1>a, ParkingType
    <3> QED BY <1>a, <2>2, <3>1, <3>2, ActType, ParkedType DEF ActOnDeadLink, TypeOK
  <2>3. CASE ActOnHeartbeatLoss
    BY <2>3 DEF ActOnHeartbeatLoss, TypeOK
  <2> QED BY <1>12, <2>1, <2>2, <2>3 DEF Evaluate
<1>13. CASE Crash \/ Stop
  <2>1. GoDown
    BY <1>13 DEF Crash, Stop
  <2>2. parked' \in BOOLEAN /\ parkFailures' \in 0..MaxFaults
    <3>1. CASE Crash
      BY <3>1 DEF Crash, TypeOK
    <3>2. CASE Stop
      <4>1. PICK x \in Parking(parked, parkFailures) :
              parked' = x.parked /\ parkFailures' = x.failures
        BY <3>2 DEF Stop
      <4> QED BY <1>a, <4>1, ParkingType
    <3> QED BY <1>13, <3>1, <3>2
  <2>3. /\ recovered' \in BOOLEAN /\ captureStopped' \in BOOLEAN /\ latched' \in BOOLEAN
        /\ holding' \in BOOLEAN /\ holdActedOn' \in BOOLEAN /\ strayed' \in BOOLEAN
    BY <2>1, Zenon DEF GoDown
  <2> QED BY <2>1, <2>2, <2>3 DEF GoDown, TypeOK, Findings
<1>14. CASE Tick
  BY <1>14 DEF Tick, TypeOK
<1>15. CASE AppendPostureRequest
  <2>1. PICK r \in 1..run, a \in {"ARM", "DISARM"} : request' = [run |-> r, action |-> a]
    BY <1>15 DEF AppendPostureRequest
  <2>2. request' \in Requests /\ request'.run <= run'
    BY <1>15, <2>1 DEF AppendPostureRequest, Requests, TypeOK
  <2> QED BY <1>15, <2>2 DEF AppendPostureRequest, TypeOK
<1>16. CASE UNCHANGED vars
  BY <1>16 DEF vars, TypeOK
<1> QED BY <1>1, <1>2, <1>3, <1>4, <1>5, <1>6, <1>7, <1>8, <1>9, <1>10, <1>11, <1>12,
          <1>13, <1>14, <1>15, <1>16 DEF Next, Pump

-----------------------------------------------------------------------------
(* Arming and holds *)

\* The arming in force was made for this run: only Start changes the run, and it
\* starts attended; the one step that arms names the run it is taken in.
LEMMA ArmedStep ==
  TypeInv /\ ArmedForThisRun /\ [Next]_vars => ArmedForThisRun'
<1> SUFFICES ASSUME TypeInv, ArmedForThisRun, [Next]_vars PROVE ArmedForThisRun'
  OBVIOUS
<1> USE DEF ArmedForThisRun, postureVars
<1>1. CASE Start
  BY <1>1 DEF Start
<1>2. CASE TakePostureRequest
  <2>1. run' = run /\ pc # "down"
    BY <1>2 DEF TakePostureRequest
  <2>2. CASE request = [run |-> run, action |-> "ARM"] /\ armedFor' = request.run
    BY <2>1, <2>2
  <2>3. CASE armedFor' = armedFor /\ (posture' = posture \/ posture = "UNATTENDED")
    BY <2>1, <2>3
  <2> QED BY <1>2, <2>2, <2>3
          DEF TakePostureRequest, TakeRequest, Disarm, DisarmUnsaved
<1>3. CASE Crash \/ Stop
  BY <1>3 DEF Crash, Stop, GoDown
<1>4. CASE /\ pc # "down" /\ UNCHANGED <<run, armedFor>>
           /\ posture' = posture \/ posture = "UNATTENDED"
  BY <1>4
<1>5. CASE UNCHANGED vars
  BY <1>5 DEF vars, loopVars
<1>6. CASE Recover
  BY <1>6, <1>4 DEF Recover, RestoreWeather, RestoreMission
<1>7. CASE Handle
  <2>1. CASE ApprovalWithdrawn
    BY <2>1, <1>4 DEF ApprovalWithdrawn, Handling, Disarm, DisarmUnsaved
  <2>2. CASE SessionUpdate \/ WeatherUpdate \/ WeatherUnsaved
    BY <2>2, <1>4 DEF SessionUpdate, WeatherUpdate, WeatherUnsaved, Handling
  <2>3. CASE Execute
    BY <2>3, <1>4 DEF Execute, ExecuteGoto, ExecuteMove, ExecuteAbort, ExecutePark,
                      CommandFaults, Permitted, Authorised, Handling
  <2> QED BY <1>7, <2>1, <2>2, <2>3 DEF Handle
<1>8. CASE CheckLinkLoss
  BY <1>8, <1>4 DEF CheckLinkLoss, Disarm, DisarmUnsaved
<1>9. CASE FlyCancelled
  BY <1>9, <1>4 DEF FlyCancelled, Disarm, DisarmUnsaved
<1>10. CASE FlyEnds
  BY <1>10, <1>4 DEF FlyEnds, Flying, Disarm, DisarmUnsaved
<1>11. CASE FlyHolds \/ FlyMoves \/ PumpLink \/ Persist \/ PassRaises
  BY <1>11, <1>4 DEF FlyHolds, FlyMoves, Flying, PumpLink, Persist, PassRaises
<1>12. CASE Evaluate
  BY <1>12, <1>4 DEF Evaluate, ActOnTrigger, ActOnDeadLink, ActOnHeartbeatLoss,
                     Running, Passes
<1>13. CASE Tick \/ AppendPostureRequest
  BY <1>13, <1>4 DEF Tick, AppendPostureRequest, Running, Passes
<1> QED BY <1>1, <1>2, <1>3, <1>5, <1>6, <1>7, <1>8, <1>9, <1>10, <1>11, <1>12, <1>13
        DEF Next, Pump

\* A refused write is never forgotten; whatever takes a trigger away has tried to
\* park, and a step that does neither keeps the hold as well.
LEMMA HoldStep ==
  TypeInv /\ HoldIsActedOn /\ [Next]_vars => HoldIsActedOn'
<1> SUFFICES ASSUME TypeInv, HoldIsActedOn, [Next]_vars PROVE HoldIsActedOn'
  OBVIOUS
<1>a. storeFailures \in Nat
  BY SafetyAssumption DEF TypeInv, TypeOK
<1> USE DEF HoldIsActedOn
<1>1. ASSUME NEW t, NEW x, Act(t, x), UNCHANGED holding PROVE HoldIsActedOn'
  BY <1>1 DEF Act
<1>2. CASE StoreRefuses
  BY <1>2, <1>a DEF StoreRefuses
<1>3. CASE /\ UNCHANGED <<holding, holdActedOn, storeFailures>>
           /\ trigger' # "none" \/ UNCHANGED trigger
  BY <1>3
<1>4. CASE ~holding'
  BY <1>4
<1>5. CASE Start \/ UNCHANGED vars \/ Tick \/ AppendPostureRequest
  BY <1>5, <1>3 DEF Start, vars, Tick, AppendPostureRequest, watchdogVars, diskVars,
                    historyVars
<1>6. CASE Crash \/ Stop
  BY <1>6, <1>4, Zenon DEF Crash, Stop, GoDown
<1>7. CASE Recover
  BY <1>7, <1>3 DEF Recover, RestoreWeather, RestoreMission, watchdogVars, diskVars,
                    historyVars
<1>8. CASE Evaluate
  BY <1>8, <1>1, <1>3 DEF Evaluate, ActOnTrigger, ActOnDeadLink, ActOnHeartbeatLoss,
                          diskVars, historyVars
<1>9. CASE Handle
  <2>1. CASE WeatherUpdate
    <3>1. PICK h \in BOOLEAN :
            /\ holding' = h
            /\ trigger' = IF h /\ ~holding THEN "weather_unsafe" ELSE trigger
            /\ holdActedOn' = (holdActedOn /\ h)
      BY <2>1 DEF WeatherUpdate
    <3>2. UNCHANGED storeFailures
      BY <2>1 DEF WeatherUpdate
    <3>3. CASE h
      <4>1. CASE holding
        BY <3>1, <3>2, <3>3, <4>1
      <4>2. CASE ~holding
        BY <3>1, <3>3, <4>2
      <4> QED BY <4>1, <4>2
    <3>4. CASE ~h
      BY <3>1, <3>4, <1>4, Zenon
    <3> QED BY <3>3, <3>4
  <2>2. CASE WeatherUnsaved
    BY <2>2, <1>2 DEF WeatherUnsaved
  <2>3. CASE ApprovalWithdrawn
    BY <2>3, <1>2, <1>3 DEF ApprovalWithdrawn, Disarm, DisarmUnsaved, historyVars
  <2>4. CASE SessionUpdate \/ ExecuteGoto \/ ExecuteMove
    BY <2>4, <1>3 DEF SessionUpdate, ExecuteGoto, ExecuteMove, watchdogVars, diskVars,
                      historyVars
  <2>5. CASE ExecuteAbort \/ ExecutePark \/ CommandFaults
    BY <2>5, <1>1, <1>3 DEF ExecuteAbort, ExecutePark, CommandFaults, watchdogVars,
                            diskVars
  <2> QED BY <1>9, <2>1, <2>2, <2>3, <2>4, <2>5 DEF Handle, Execute
<1>10. CASE PumpLink \/ Persist \/ FlyHolds \/ FlyMoves
  BY <1>10, <1>3 DEF PumpLink, Persist, FlyHolds, FlyMoves, Flying, watchdogVars,
                     historyVars
<1>11. CASE TakePostureRequest
  BY <1>11, <1>2, <1>3 DEF TakePostureRequest, TakeRequest, Disarm, DisarmUnsaved,
                           historyVars
<1>12. CASE CheckLinkLoss
  BY <1>12, <1>2, <1>3 DEF CheckLinkLoss, Disarm, DisarmUnsaved, historyVars
<1>13. CASE FlyCancelled
  BY <1>13, <1>2, <1>3 DEF FlyCancelled, Disarm, DisarmUnsaved
<1>14. CASE FlyEnds
  BY <1>14, <1>2, <1>3 DEF FlyEnds, Flying, Disarm, DisarmUnsaved, watchdogVars
<1>15. CASE PassRaises
  BY <1>15, <1>2 DEF PassRaises
<1> QED BY <1>5, <1>6, <1>7, <1>8, <1>9, <1>10, <1>11, <1>12, <1>13, <1>14, <1>15
        DEF Next, Pump

\* For any limits and any number of process starts, passes and faults: every variable keeps its
\* type, an agent is unattended only for the run it was armed for, however late the
\* request is written and read (_take_posture_requests), and a weather hold, also one
\* restored by a restart, has a Park on its way or tried unless a write of the state
\* store failed (_apply_weather, recover).
THEOREM SafetyAlways == Spec => []SafetyIsKept
<1> DEFINE IInv == TypeInv /\ ArmedForThisRun /\ HoldIsActedOn
<1>1. Init => IInv
  <2> SUFFICES ASSUME Init PROVE IInv
    OBVIOUS
  <2>1. TypeOK /\ Batched
    BY TypeInit DEF Init, Batched
  <2>2. ArmedForThisRun /\ HoldIsActedOn
    BY DEF Init, ArmedForThisRun, HoldIsActedOn
  <2> QED BY <2>1, <2>2 DEF TypeInv
<1>2. IInv /\ [Next]_vars => IInv'
  BY TypeStep, ArmedStep, HoldStep
<1>3. IInv => SafetyIsKept
  BY DEF TypeInv, SafetyIsKept
<1> QED BY <1>1, <1>2, <1>3, PTL DEF Spec
-----------------------------------------------------------------------------
(* AgentLink: the one link of an observatory *)

\* A change of the settings the listener has not handled yet.
ChangeComing == \E i \in DOMAIN notices : notices[i] = "SETTING"

\* The settings as they stand have been read for this socket and not sent.
ReadNow(s) == \E r \in relays : s \in r.to /\ r.version = setting

\* The rows and sets, the registry and the agent with one socket each.
LinkShape ==
  /\ conn \in [Sockets -> {"unused", "upgrade", "open", "closing", "gone"}]
  /\ link \in [Sockets -> LinkStates]
  /\ hello \in [Sockets -> {"unsent", "recording", "marking", "done"}]
  /\ registered \subseteq Sockets /\ alive \subseteq Sockets
  /\ quiet \subseteq Sockets /\ losses \subseteq Sockets
  /\ \A s, t \in registered : s = t
  /\ \A s, t \in alive : s = t
  /\ status \in {"ONLINE", "OFFLINE"}
  /\ notices \in Seq({"SETTING", "CREDENTIAL"})
  /\ setting \in Nat /\ told \in Nat /\ told <= setting
  /\ token \in Nat /\ agentToken \in Nat /\ agentToken <= token

\* What was read and not sent: a version there has been, for sockets that are
\* not used again before it is sent.
RelayShape ==
  \A r \in relays :
    /\ r.to \subseteq Sockets /\ r.version \in Nat /\ r.version <= setting
    /\ \A s \in r.to : conn[s] \in {"open", "closing", "gone"}

\* Only the registered socket is open, and a link that was closed is not; a
\* socket on its way in has no hello of an earlier connection.
SocketsInOrder ==
  \A s \in Sockets :
    /\ conn[s] = "open" => registered = {s} /\ link[s] # "CLOSED"
    /\ s \in registered => conn[s] \in {"open", "closing"}
    /\ conn[s] \in {"unused", "upgrade"} => hello[s] = "unsent"
    /\ hello[s] \in {"marking", "done"} => link[s] # "AWAITING_HELLO"

\* Unless a link's end overlapped a hello, a status that is not the link's is
\* still to be written.
StatusDue ==
  ~crossed =>
    /\ status = "ONLINE" => losses # {} \/ \E s \in registered : hello[s] = "done"
    /\ (\E s \in registered : hello[s] = "done") => status = "ONLINE"

\* Unless a notification was missed or relays crossed, an agent that was told
\* an old version, or is about to be, will be told the present one after it.
SettingsDue ==
  ~missed => \A s \in registered : conn[s] = "open" =>
    /\ hello[s] = "done" /\ s \in alive => told = setting \/ ChangeComing \/ ReadNow(s)
    /\ (\E r \in relays : s \in r.to /\ r.version # setting) => ChangeComing \/ ReadNow(s)

\* The inductive invariant of the link.
LinkInv == LinkShape /\ RelayShape /\ SocketsInOrder /\ StatusDue /\ SettingsDue

\* Every row and set keeps its shape.
LEMMA LinkShapeStep ==
  ASSUME LinkInv, LinkNext
  PROVE  LinkShape'
<1> USE DEF LinkInv, sockVars, statusVars, tokenVars, settingVars
<1>1. ASSUME NEW s \in Sockets, Upgrade(s) PROVE LinkShape'
  BY <1>1 DEF Upgrade, LinkShape, LinkStates
<1>2. ASSUME NEW s \in Sockets, Admit(s) PROVE LinkShape'
  BY <1>2 DEF Admit, LinkShape, LinkStates
<1>3. ASSUME NEW s \in Sockets, RefuseHello(s) PROVE LinkShape'
  BY <1>3 DEF RefuseHello, Terminate, LinkShape, LinkStates
<1>4. ASSUME NEW s \in Sockets, ReceiveHello(s) PROVE LinkShape'
  BY <1>4 DEF ReceiveHello, LinkShape, LinkStates
<1>5. ASSUME NEW s \in Sockets, HelloRecorded(s) PROVE LinkShape'
  BY <1>5 DEF HelloRecorded, LinkShape, LinkStates
<1>6. ASSUME NEW s \in Sockets, MarkLinkUp(s) PROVE LinkShape'
  BY <1>6 DEF MarkLinkUp, ReadFor, LinkShape, LinkStates
<1>7. ASSUME NEW s \in Sockets, Heartbeat(s) PROVE LinkShape'
  BY <1>7 DEF Heartbeat, LinkShape, LinkStates
<1>8. ASSUME NEW s \in Sockets, AgentDrops(s) PROVE LinkShape'
  BY <1>8 DEF AgentDrops, LinkShape, LinkStates
<1>9. ASSUME NEW s \in Sockets, GoesQuiet(s) PROVE LinkShape'
  BY <1>9 DEF GoesQuiet, LinkShape, LinkStates
<1>10. ASSUME NEW s \in Sockets, ExpireSilent(s) PROVE LinkShape'
  BY <1>10 DEF ExpireSilent, Terminate, LinkShape, LinkStates
<1>11. ASSUME NEW s \in Sockets, CloseEvent(s) PROVE LinkShape'
  BY <1>11 DEF CloseEvent, LinkShape, LinkStates
<1>12. ASSUME NEW s \in Sockets, MarkLinkLost(s) PROVE LinkShape'
  BY <1>12 DEF MarkLinkLost, LinkShape, LinkStates
<1>13. ASSUME NEW s \in Sockets, Forget(s) PROVE LinkShape'
  BY <1>13 DEF Forget, LinkShape, LinkStates
<1>14. ASSUME ChangeSetting PROVE LinkShape'
  BY <1>14 DEF ChangeSetting, Notify, LinkShape, LinkStates
<1>15. ASSUME ChangeToken PROVE LinkShape'
  BY <1>15 DEF ChangeToken, Notify, LinkShape, LinkStates
<1>16. ASSUME InstallToken PROVE LinkShape'
  BY <1>16 DEF InstallToken, LinkShape, LinkStates
<1>17. ASSUME ListenerDrops PROVE LinkShape'
  BY <1>17 DEF ListenerDrops, LinkShape, LinkStates
<1>18. ASSUME ListenerConnects PROVE LinkShape'
  BY <1>18 DEF ListenerConnects, LinkShape, LinkStates
<1>19. ASSUME HandleSetting PROVE LinkShape'
  BY <1>19 DEF HandleSetting, ReadFor, LinkShape, LinkStates
<1>20. ASSUME CloseForCredentialChange PROVE LinkShape'
  BY <1>20 DEF CloseForCredentialChange, Terminate, LinkShape, LinkStates
<1>21. ASSUME NEW r \in relays, Dispatch(r) PROVE LinkShape'
  <2>1. told' \in Nat /\ told' <= setting
    BY <1>21 DEF Dispatch, RelayShape, LinkShape
  <2> QED BY <1>21, <2>1 DEF Dispatch, LinkShape, LinkStates, sockVars, statusVars,
      tokenVars
<1> QED BY <1>1, <1>2, <1>3, <1>4, <1>5, <1>6, <1>7, <1>8, <1>9, <1>10,
       <1>11, <1>12, <1>13, <1>14, <1>15, <1>16, <1>17, <1>18, <1>19, <1>20, <1>21 DEF LinkNext

\* A setting is read for sockets that are or were open, and none of them is
\* used again before it is sent.
LEMMA RelayShapeStep ==
  ASSUME LinkInv, LinkNext
  PROVE  RelayShape'
<1> USE DEF LinkInv, sockVars, statusVars, tokenVars, settingVars
<1>1. ASSUME NEW s \in Sockets, Upgrade(s) PROVE RelayShape'
  BY <1>1 DEF Upgrade, RelayShape, LinkShape, SocketsInOrder
<1>2. ASSUME NEW s \in Sockets, Admit(s) PROVE RelayShape'
  BY <1>2 DEF Admit, RelayShape, LinkShape, SocketsInOrder
<1>3. ASSUME NEW s \in Sockets, RefuseHello(s) PROVE RelayShape'
  BY <1>3 DEF RefuseHello, Terminate, RelayShape, LinkShape, SocketsInOrder
<1>4. ASSUME NEW s \in Sockets, ReceiveHello(s) PROVE RelayShape'
  BY <1>4 DEF ReceiveHello, RelayShape, LinkShape, SocketsInOrder
<1>5. ASSUME NEW s \in Sockets, HelloRecorded(s) PROVE RelayShape'
  BY <1>5 DEF HelloRecorded, RelayShape, LinkShape, SocketsInOrder
<1>6. ASSUME NEW s \in Sockets, MarkLinkUp(s) PROVE RelayShape'
  BY <1>6 DEF MarkLinkUp, ReadFor, RelayShape, LinkShape, SocketsInOrder
<1>7. ASSUME NEW s \in Sockets, Heartbeat(s) PROVE RelayShape'
  BY <1>7 DEF Heartbeat, RelayShape, LinkShape, SocketsInOrder
<1>8. ASSUME NEW s \in Sockets, AgentDrops(s) PROVE RelayShape'
  BY <1>8 DEF AgentDrops, RelayShape, LinkShape, SocketsInOrder
<1>9. ASSUME NEW s \in Sockets, GoesQuiet(s) PROVE RelayShape'
  BY <1>9 DEF GoesQuiet, RelayShape, LinkShape, SocketsInOrder
<1>10. ASSUME NEW s \in Sockets, ExpireSilent(s) PROVE RelayShape'
  BY <1>10 DEF ExpireSilent, Terminate, RelayShape, LinkShape, SocketsInOrder
<1>11. ASSUME NEW s \in Sockets, CloseEvent(s) PROVE RelayShape'
  BY <1>11 DEF CloseEvent, RelayShape, LinkShape, SocketsInOrder
<1>12. ASSUME NEW s \in Sockets, MarkLinkLost(s) PROVE RelayShape'
  BY <1>12 DEF MarkLinkLost, RelayShape, LinkShape, SocketsInOrder
<1>13. ASSUME NEW s \in Sockets, Forget(s) PROVE RelayShape'
  BY <1>13 DEF Forget, RelayShape, LinkShape, SocketsInOrder
<1>14. ASSUME ChangeSetting PROVE RelayShape'
  BY <1>14 DEF ChangeSetting, Notify, RelayShape, LinkShape, SocketsInOrder
<1>15. ASSUME ChangeToken PROVE RelayShape'
  BY <1>15 DEF ChangeToken, Notify, RelayShape, LinkShape, SocketsInOrder
<1>16. ASSUME InstallToken PROVE RelayShape'
  BY <1>16 DEF InstallToken, RelayShape, LinkShape, SocketsInOrder
<1>17. ASSUME ListenerDrops PROVE RelayShape'
  BY <1>17 DEF ListenerDrops, RelayShape, LinkShape, SocketsInOrder
<1>18. ASSUME ListenerConnects PROVE RelayShape'
  BY <1>18 DEF ListenerConnects, RelayShape, LinkShape, SocketsInOrder
<1>19. ASSUME HandleSetting PROVE RelayShape'
  BY <1>19 DEF HandleSetting, ReadFor, RelayShape, LinkShape, SocketsInOrder
<1>20. ASSUME CloseForCredentialChange PROVE RelayShape'
  BY <1>20 DEF CloseForCredentialChange, Terminate, RelayShape, LinkShape,
      SocketsInOrder
<1>21. ASSUME NEW r \in relays, Dispatch(r) PROVE RelayShape'
  BY <1>21 DEF Dispatch, RelayShape, LinkShape, SocketsInOrder
<1> QED BY <1>1, <1>2, <1>3, <1>4, <1>5, <1>6, <1>7, <1>8, <1>9, <1>10,
       <1>11, <1>12, <1>13, <1>14, <1>15, <1>16, <1>17, <1>18, <1>19, <1>20, <1>21 DEF LinkNext

\* A socket is open only while the registry holds it.
LEMMA SocketsStep ==
  ASSUME LinkInv, LinkNext
  PROVE  SocketsInOrder'
<1> USE DEF LinkInv, sockVars, statusVars, tokenVars, settingVars
<1>1. ASSUME NEW s \in Sockets, Upgrade(s) PROVE SocketsInOrder'
  BY <1>1 DEF Upgrade, SocketsInOrder, LinkShape, LinkStates
<1>2. ASSUME NEW s \in Sockets, Admit(s) PROVE SocketsInOrder'
  BY <1>2 DEF Admit, SocketsInOrder, LinkShape, LinkStates
<1>3. ASSUME NEW s \in Sockets, RefuseHello(s) PROVE SocketsInOrder'
  BY <1>3 DEF RefuseHello, Terminate, SocketsInOrder, LinkShape, LinkStates
<1>4. ASSUME NEW s \in Sockets, ReceiveHello(s) PROVE SocketsInOrder'
  BY <1>4 DEF ReceiveHello, SocketsInOrder, LinkShape, LinkStates
<1>5. ASSUME NEW s \in Sockets, HelloRecorded(s) PROVE SocketsInOrder'
  BY <1>5 DEF HelloRecorded, SocketsInOrder, LinkShape, LinkStates
<1>6. ASSUME NEW s \in Sockets, MarkLinkUp(s) PROVE SocketsInOrder'
  BY <1>6 DEF MarkLinkUp, ReadFor, SocketsInOrder, LinkShape, LinkStates
<1>7. ASSUME NEW s \in Sockets, Heartbeat(s) PROVE SocketsInOrder'
  BY <1>7 DEF Heartbeat, SocketsInOrder, LinkShape, LinkStates
<1>8. ASSUME NEW s \in Sockets, AgentDrops(s) PROVE SocketsInOrder'
  BY <1>8 DEF AgentDrops, SocketsInOrder, LinkShape, LinkStates
<1>9. ASSUME NEW s \in Sockets, GoesQuiet(s) PROVE SocketsInOrder'
  BY <1>9 DEF GoesQuiet, SocketsInOrder, LinkShape, LinkStates
<1>10. ASSUME NEW s \in Sockets, ExpireSilent(s) PROVE SocketsInOrder'
  BY <1>10 DEF ExpireSilent, Terminate, SocketsInOrder, LinkShape, LinkStates
<1>11. ASSUME NEW s \in Sockets, CloseEvent(s) PROVE SocketsInOrder'
  BY <1>11 DEF CloseEvent, SocketsInOrder, LinkShape, LinkStates
<1>12. ASSUME NEW s \in Sockets, MarkLinkLost(s) PROVE SocketsInOrder'
  BY <1>12 DEF MarkLinkLost, SocketsInOrder, LinkShape, LinkStates
<1>13. ASSUME NEW s \in Sockets, Forget(s) PROVE SocketsInOrder'
  BY <1>13 DEF Forget, SocketsInOrder, LinkShape, LinkStates
<1>14. ASSUME ChangeSetting PROVE SocketsInOrder'
  BY <1>14 DEF ChangeSetting, Notify, SocketsInOrder, LinkShape, LinkStates
<1>15. ASSUME ChangeToken PROVE SocketsInOrder'
  BY <1>15 DEF ChangeToken, Notify, SocketsInOrder, LinkShape, LinkStates
<1>16. ASSUME InstallToken PROVE SocketsInOrder'
  BY <1>16 DEF InstallToken, SocketsInOrder, LinkShape, LinkStates
<1>17. ASSUME ListenerDrops PROVE SocketsInOrder'
  BY <1>17 DEF ListenerDrops, SocketsInOrder, LinkShape, LinkStates
<1>18. ASSUME ListenerConnects PROVE SocketsInOrder'
  BY <1>18 DEF ListenerConnects, SocketsInOrder, LinkShape, LinkStates
<1>19. ASSUME HandleSetting PROVE SocketsInOrder'
  BY <1>19 DEF HandleSetting, ReadFor, SocketsInOrder, LinkShape, LinkStates
<1>20. ASSUME CloseForCredentialChange PROVE SocketsInOrder'
  BY <1>20 DEF CloseForCredentialChange, Terminate, SocketsInOrder, LinkShape,
      LinkStates
<1>21. ASSUME NEW r \in relays, Dispatch(r) PROVE SocketsInOrder'
  BY <1>21 DEF Dispatch, SocketsInOrder, LinkShape, LinkStates
<1> QED BY <1>1, <1>2, <1>3, <1>4, <1>5, <1>6, <1>7, <1>8, <1>9, <1>10,
       <1>11, <1>12, <1>13, <1>14, <1>15, <1>16, <1>17, <1>18, <1>19, <1>20, <1>21 DEF LinkNext

\* The status is that of the link, or a loss is still to be written.
LEMMA StatusStep ==
  ASSUME LinkInv, LinkNext
  PROVE  StatusDue'
<1> USE DEF LinkInv, sockVars, statusVars, tokenVars, settingVars
<1>1. ASSUME NEW s \in Sockets, Upgrade(s) PROVE StatusDue'
  BY <1>1 DEF Upgrade, StatusDue, SocketsInOrder, LinkShape
<1>2. ASSUME NEW s \in Sockets, Admit(s) PROVE StatusDue'
  BY <1>2 DEF Admit, StatusDue, SocketsInOrder, LinkShape
<1>3. ASSUME NEW s \in Sockets, RefuseHello(s) PROVE StatusDue'
  BY <1>3 DEF RefuseHello, Terminate, StatusDue, SocketsInOrder, LinkShape
<1>4. ASSUME NEW s \in Sockets, ReceiveHello(s) PROVE StatusDue'
  BY <1>4 DEF ReceiveHello, StatusDue, SocketsInOrder, LinkShape
<1>5. ASSUME NEW s \in Sockets, HelloRecorded(s) PROVE StatusDue'
  BY <1>5 DEF HelloRecorded, StatusDue, SocketsInOrder, LinkShape
<1>6. ASSUME NEW s \in Sockets, MarkLinkUp(s) PROVE StatusDue'
  <2>1. status' = "ONLINE" /\ registered' = registered /\ (~crossed' => s \in registered)
    BY <1>6 DEF MarkLinkUp
  <2>2. hello'[s] = "done"
    BY <1>6 DEF MarkLinkUp, LinkShape
  <2> QED BY <2>1, <2>2 DEF StatusDue
<1>7. ASSUME NEW s \in Sockets, Heartbeat(s) PROVE StatusDue'
  BY <1>7 DEF Heartbeat, StatusDue, SocketsInOrder, LinkShape
<1>8. ASSUME NEW s \in Sockets, AgentDrops(s) PROVE StatusDue'
  BY <1>8 DEF AgentDrops, StatusDue, SocketsInOrder, LinkShape
<1>9. ASSUME NEW s \in Sockets, GoesQuiet(s) PROVE StatusDue'
  BY <1>9 DEF GoesQuiet, StatusDue, SocketsInOrder, LinkShape
<1>10. ASSUME NEW s \in Sockets, ExpireSilent(s) PROVE StatusDue'
  BY <1>10 DEF ExpireSilent, Terminate, StatusDue, SocketsInOrder, LinkShape
<1>11. ASSUME NEW s \in Sockets, CloseEvent(s) PROVE StatusDue'
  BY <1>11 DEF CloseEvent, StatusDue, SocketsInOrder, LinkShape
<1>12. ASSUME NEW s \in Sockets, MarkLinkLost(s) PROVE StatusDue'
  BY <1>12 DEF MarkLinkLost, StatusDue, SocketsInOrder, LinkShape
<1>13. ASSUME NEW s \in Sockets, Forget(s) PROVE StatusDue'
  BY <1>13 DEF Forget, StatusDue, SocketsInOrder, LinkShape
<1>14. ASSUME ChangeSetting PROVE StatusDue'
  BY <1>14 DEF ChangeSetting, Notify, StatusDue, SocketsInOrder, LinkShape
<1>15. ASSUME ChangeToken PROVE StatusDue'
  BY <1>15 DEF ChangeToken, Notify, StatusDue, SocketsInOrder, LinkShape
<1>16. ASSUME InstallToken PROVE StatusDue'
  BY <1>16 DEF InstallToken, StatusDue, SocketsInOrder, LinkShape
<1>17. ASSUME ListenerDrops PROVE StatusDue'
  BY <1>17 DEF ListenerDrops, StatusDue, SocketsInOrder, LinkShape
<1>18. ASSUME ListenerConnects PROVE StatusDue'
  BY <1>18 DEF ListenerConnects, StatusDue, SocketsInOrder, LinkShape
<1>19. ASSUME HandleSetting PROVE StatusDue'
  BY <1>19 DEF HandleSetting, ReadFor, StatusDue, SocketsInOrder, LinkShape
<1>20. ASSUME CloseForCredentialChange PROVE StatusDue'
  BY <1>20 DEF CloseForCredentialChange, Terminate, StatusDue, SocketsInOrder, LinkShape
<1>21. ASSUME NEW r \in relays, Dispatch(r) PROVE StatusDue'
  BY <1>21 DEF Dispatch, StatusDue, SocketsInOrder, LinkShape
<1> QED BY <1>1, <1>2, <1>3, <1>4, <1>5, <1>6, <1>7, <1>8, <1>9, <1>10,
       <1>11, <1>12, <1>13, <1>14, <1>15, <1>16, <1>17, <1>18, <1>19, <1>20, <1>21 DEF LinkNext

\* What the agent has not heard is on its way.
LEMMA SettingsStep ==
  ASSUME LinkInv, LinkNext
  PROVE  SettingsDue'
<1> USE DEF LinkInv, sockVars, statusVars, tokenVars, settingVars
<1>1. ASSUME NEW s \in Sockets, Upgrade(s) PROVE SettingsDue'
  BY <1>1 DEF Upgrade, SettingsDue, ChangeComing, ReadNow, SocketsInOrder, RelayShape,
      LinkShape, LinkStates
<1>2. ASSUME NEW s \in Sockets, Admit(s) PROVE SettingsDue'
  BY <1>2 DEF Admit, SettingsDue, ChangeComing, ReadNow, SocketsInOrder, RelayShape,
      LinkShape, LinkStates
<1>3. ASSUME NEW s \in Sockets, RefuseHello(s) PROVE SettingsDue'
  BY <1>3 DEF RefuseHello, Terminate, SettingsDue, ChangeComing, ReadNow,
      SocketsInOrder, RelayShape, LinkShape, LinkStates
<1>4. ASSUME NEW s \in Sockets, ReceiveHello(s) PROVE SettingsDue'
  BY <1>4 DEF ReceiveHello, SettingsDue, ChangeComing, ReadNow, SocketsInOrder,
      RelayShape, LinkShape, LinkStates
<1>5. ASSUME NEW s \in Sockets, HelloRecorded(s) PROVE SettingsDue'
  BY <1>5 DEF HelloRecorded, SettingsDue, ChangeComing, ReadNow, SocketsInOrder,
      RelayShape, LinkShape, LinkStates
<1>6. ASSUME NEW s \in Sockets, MarkLinkUp(s) PROVE SettingsDue'
  <2>1. SUFFICES ASSUME ~missed, NEW t \in registered, conn[t] = "open"
                 PROVE  /\ hello'[t] = "done" /\ t \in alive => told = setting \/ ChangeComing \/ ReadNow(t)'
                        /\ (\E r \in relays' : t \in r.to /\ r.version # setting) => ChangeComing \/ ReadNow(t)'
    BY <1>6, Zenon DEF MarkLinkUp, SettingsDue, ChangeComing, ReadNow
  <2>2. t \in Sockets /\ hello[t] \in {"unsent", "recording", "marking", "done"}
    BY DEF LinkShape
  <2>3. CASE t = s
    <3>1. link[s] = "ONLINE" /\ registered # {}
      BY <1>6, <2>1, <2>3 DEF MarkLinkUp, SocketsInOrder, LinkShape, LinkStates
    <3>2. ReadFor("sweep") \in relays'
      BY <1>6, <3>1 DEF MarkLinkUp
    <3>3. t \in ReadFor("sweep").to /\ ReadFor("sweep").version = setting'
      BY <1>6, <2>1 DEF MarkLinkUp, ReadFor
    <3> QED BY <3>2, <3>3 DEF ReadNow
  <2>4. CASE t # s
    <3>1. hello'[t] = hello[t]
      BY <1>6, <2>2, <2>4 DEF MarkLinkUp, LinkShape
    <3>2. relays \subseteq relays' /\ \A r \in relays' : r \in relays \/ r.version = setting
      BY <1>6 DEF MarkLinkUp, ReadFor
    <3>3. setting' = setting
      BY <1>6 DEF MarkLinkUp
    <3>4. ReadNow(t) => ReadNow(t)'
      BY <3>2, <3>3 DEF ReadNow
    <3> QED BY <2>1, <3>1, <3>2, <3>4 DEF SettingsDue
  <2> QED BY <2>3, <2>4
<1>7. ASSUME NEW s \in Sockets, Heartbeat(s) PROVE SettingsDue'
  BY <1>7 DEF Heartbeat, SettingsDue, ChangeComing, ReadNow, SocketsInOrder,
      RelayShape, LinkShape, LinkStates
<1>8. ASSUME NEW s \in Sockets, AgentDrops(s) PROVE SettingsDue'
  BY <1>8 DEF AgentDrops, SettingsDue, ChangeComing, ReadNow, SocketsInOrder,
      RelayShape, LinkShape, LinkStates
<1>9. ASSUME NEW s \in Sockets, GoesQuiet(s) PROVE SettingsDue'
  BY <1>9 DEF GoesQuiet, SettingsDue, ChangeComing, ReadNow, SocketsInOrder,
      RelayShape, LinkShape, LinkStates
<1>10. ASSUME NEW s \in Sockets, ExpireSilent(s) PROVE SettingsDue'
  BY <1>10 DEF ExpireSilent, Terminate, SettingsDue, ChangeComing, ReadNow,
      SocketsInOrder, RelayShape, LinkShape, LinkStates
<1>11. ASSUME NEW s \in Sockets, CloseEvent(s) PROVE SettingsDue'
  BY <1>11 DEF CloseEvent, SettingsDue, ChangeComing, ReadNow, SocketsInOrder,
      RelayShape, LinkShape, LinkStates
<1>12. ASSUME NEW s \in Sockets, MarkLinkLost(s) PROVE SettingsDue'
  BY <1>12 DEF MarkLinkLost, SettingsDue, ChangeComing, ReadNow, SocketsInOrder,
      RelayShape, LinkShape, LinkStates
<1>13. ASSUME NEW s \in Sockets, Forget(s) PROVE SettingsDue'
  BY <1>13 DEF Forget, SettingsDue, ChangeComing, ReadNow, SocketsInOrder, RelayShape,
      LinkShape, LinkStates
<1>14. ASSUME ChangeSetting PROVE SettingsDue'
  <2>1. ASSUME ~missed' PROVE ChangeComing'
    <3>1. notices' = Append(notices, "SETTING")
      BY <1>14, <2>1 DEF ChangeSetting, Notify
    <3>2. Len(notices) + 1 \in DOMAIN notices' /\ notices'[Len(notices) + 1] = "SETTING"
      BY <3>1 DEF LinkShape
    <3> QED BY <3>2 DEF ChangeComing
  <2> QED BY <2>1 DEF SettingsDue
<1>15. ASSUME ChangeToken PROVE SettingsDue'
  BY <1>15 DEF ChangeToken, Notify, SettingsDue, ChangeComing, ReadNow, SocketsInOrder,
      RelayShape, LinkShape, LinkStates
<1>16. ASSUME InstallToken PROVE SettingsDue'
  BY <1>16 DEF InstallToken, SettingsDue, ChangeComing, ReadNow, SocketsInOrder,
      RelayShape, LinkShape, LinkStates
<1>17. ASSUME ListenerDrops PROVE SettingsDue'
  BY <1>17 DEF ListenerDrops, SettingsDue, ChangeComing, ReadNow, SocketsInOrder,
      RelayShape, LinkShape, LinkStates
<1>18. ASSUME ListenerConnects PROVE SettingsDue'
  BY <1>18 DEF ListenerConnects, SettingsDue, ChangeComing, ReadNow, SocketsInOrder,
      RelayShape, LinkShape, LinkStates
<1>19. ASSUME HandleSetting PROVE SettingsDue'
  <2>1. ASSUME NEW t \in registered PROVE ReadNow(t)'
    <3>1. ReadFor("listener") \in relays'
      BY <1>19 DEF HandleSetting
    <3>2. t \in ReadFor("listener").to /\ ReadFor("listener").version = setting'
      BY <1>19 DEF HandleSetting, ReadFor
    <3> QED BY <3>1, <3>2 DEF ReadNow
  <2>2. registered' = registered
    BY <1>19 DEF HandleSetting, sockVars
  <2> QED BY <2>1, <2>2 DEF SettingsDue
<1>20. ASSUME CloseForCredentialChange PROVE SettingsDue'
  BY <1>20 DEF CloseForCredentialChange, Terminate, SettingsDue, ChangeComing, ReadNow,
      SocketsInOrder, RelayShape, LinkShape, LinkStates
<1>21. ASSUME NEW r \in relays, Dispatch(r) PROVE SettingsDue'
  <2>1. SUFFICES ASSUME ~missed', NEW t \in registered, conn[t] = "open"
                 PROVE  /\ hello[t] = "done" /\ t \in alive => told' = setting \/ ChangeComing \/ ReadNow(t)'
                        /\ (\E q \in relays' : t \in q.to /\ q.version # setting) => ChangeComing \/ ReadNow(t)'
    BY <1>21, Zenon DEF Dispatch, SettingsDue, ChangeComing, ReadNow, sockVars
  <2>2. ~missed /\ (\A q \in relays : q.version = r.version) /\ relays' = relays \ {r} /\ setting' = setting
    BY <1>21, <2>1 DEF Dispatch
  <2>3. /\ hello[t] = "done" /\ t \in alive => told = setting \/ ChangeComing \/ ReadNow(t)
        /\ (\E q \in relays : t \in q.to /\ q.version # setting) => ChangeComing \/ ReadNow(t)
    BY <2>1, <2>2 DEF SettingsDue
  <2>4. t \in Sockets /\ registered = {t} /\ link[t] # "CLOSED"
    BY <2>1 DEF LinkShape, SocketsInOrder
  <2>5. CASE t \in r.to
    <3>1. r.version # setting => ChangeComing
      BY <2>2, <2>3, <2>5 DEF ReadNow
    <3>2. ASSUME hello[t] = "done", t \in alive PROVE told' = r.version
      <4>1. link[t] = "ONLINE"
        BY <2>4, <3>2 DEF SocketsInOrder, LinkShape, LinkStates
      <4> QED BY <1>21, <2>1, <2>5, <3>2, <4>1 DEF Dispatch
    <3> QED BY <2>2, <3>1, <3>2
  <2>6. CASE t \notin r.to
    <3>1. \A s \in r.to : conn[s] # "open"
      BY <2>4, <2>6 DEF RelayShape, SocketsInOrder
    <3>2. told' = told
      BY <1>21, <3>1 DEF Dispatch
    <3>3. ReadNow(t) => ReadNow(t)'
      BY <2>2, <2>6 DEF ReadNow
    <3> QED BY <2>2, <2>3, <3>2, <3>3
  <2> QED BY <2>5, <2>6
<1> QED BY <1>1, <1>2, <1>3, <1>4, <1>5, <1>6, <1>7, <1>8, <1>9, <1>10,
       <1>11, <1>12, <1>13, <1>14, <1>15, <1>16, <1>17, <1>18, <1>19, <1>20, <1>21 DEF LinkNext
\* A set of which any two members are equal has one member at most.
LEMMA AtMostOne ==
  ASSUME NEW S, \A s, t \in S : s = t
  PROVE  Cardinality(S) <= 1
<1>1. CASE S = {}
  BY <1>1, FS_EmptySet
<1>2. CASE S # {}
  <2>1. PICK s : S = {s}
    BY <1>2
  <2>2. Cardinality({s}) = 1
    BY FS_Singleton
  <2> QED BY <2>1, <2>2
<1> QED BY <1>1, <1>2

\* It contains both properties.
LEMMA LinkInvImplies == LinkInv => LinkIsKnown /\ SettingsInStep
<1> SUFFICES ASSUME LinkInv PROVE LinkIsKnown /\ SettingsInStep
  OBVIOUS
<1> USE DEF LinkInv
<1>1. LinkTypeOK
  <2>1. Cardinality(registered) <= 1 /\ Cardinality(alive) <= 1
    BY AtMostOne DEF LinkShape
  <2> QED BY <2>1 DEF LinkTypeOK, LinkShape, RelayShape, SocketsInOrder
<1>2. OneAgentServed
  BY DEF OneAgentServed, SocketsInOrder, LinkShape
<1>3. StatusFollowsLink
  BY DEF StatusFollowsLink, StatusDue
<1>4. SettingsInStep
  BY DEF SettingsInStep, SettingsDue, ChangeComing, ReadNow
<1> QED BY <1>1, <1>2, <1>3, <1>4 DEF LinkIsKnown

\* It holds initially and every step keeps it.
LEMMA LinkInvAlways == LinkSpec => []LinkInv
<1>1. LinkInit => LinkInv
  BY DEF LinkInit, LinkInv, LinkShape, LinkStates, RelayShape, SocketsInOrder,
      StatusDue, SettingsDue
<1>2. LinkInv /\ [LinkNext]_linkVars => LinkInv'
  <2>1. ASSUME LinkInv, LinkNext PROVE LinkInv'
    BY <2>1, LinkShapeStep, RelayShapeStep, SocketsStep, StatusStep,
        SettingsStep DEF LinkInv
  <2>2. ASSUME LinkInv, UNCHANGED linkVars PROVE LinkInv'
    BY <2>2 DEF LinkInv, LinkShape, RelayShape, SocketsInOrder, StatusDue, SettingsDue,
                ChangeComing, ReadNow, linkVars, sockVars, statusVars, tokenVars, settingVars
  <2> QED BY <2>1, <2>2
<1> QED BY <1>1, <1>2, PTL DEF LinkSpec

\* However upgrades, hellos, heartbeat sweeps, close events and late writes of
\* the status cross, one agent is served and the status is that of its link
\* (registry.ts, agent-link.ts, markLinkUp, markLinkLost).
THEOREM LinkAlwaysKnown == LinkSpec => []LinkIsKnown
BY LinkInvAlways, LinkInvImplies, PTL

\* Hello sweep and listener together leave a connected agent with the settings
\* of the database, for every number of sockets, changes and faults
\* (agent-relay.ts, command-listener.ts).
THEOREM SettingsAlwaysInStep == LinkSpec => []SettingsInStep
BY LinkInvAlways, LinkInvImplies, PTL
=============================================================================
