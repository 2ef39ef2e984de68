----------------------- MODULE MissionSessions_proofs -----------------------
(***************************************************************************)
(* Proofs about MissionSessions, for any missions, slots, targets and      *)
(* bounds: the telescope has one owner or is free, the cloud knows what    *)
(* the agent observes, and the missions use the telescope the way          *)
(* TelescopeUse says.                                                      *)
(***************************************************************************)
EXTENDS MissionSessions, TLAPS

SessionRows ==
  [mission : Missions, user : Users, expires : Nat, revoked : BOOLEAN]

CommandRows ==
  [kind : {"GOTO", "RETARGET"}, mission : Missions, session : Nat,
   target : Targets, status : {"RECEIVED", "EXECUTING", "REJECTED"},
   at : {"row", "answered", "done", "lost"},
   verdict : {"none", "ACCEPTED", "REJECTED"}, decided : 0..MaxClock,
   expires : Nat]

\* The rows keep their shapes.
Rows ==
  /\ sessions \in Seq(SessionRows) /\ Len(sessions) <= MaxSessions
  /\ commands \in Seq(CommandRows)

\* A mission is waiting for its slot, live or over; what names one as its mission
\* came after its start, and what a request read of a session is still so.
Started ==
  /\ \A m \in Missions :
       state[m] \in {"SCHEDULED"} \cup LiveMissionStates \cup EndedStates
  /\ \A i \in DOMAIN sessions : state[sessions[i].mission] # "SCHEDULED"
  /\ \A r \in Requests :
       /\ requests[r].op \in {"reopen", "mint"} =>
            state[requests[r].mission] # "SCHEDULED"
       /\ requests[r].op = "mint" =>
            /\ requests[r].session \in DOMAIN sessions
            /\ sessions[requests[r].session].mission = requests[r].mission

\* What a command's status says of the agent's verdict on it.
Judged ==
  \A c \in DOMAIN commands :
    /\ commands[c].at = "row" => commands[c].verdict = "none"
    /\ commands[c].at = "answered" => commands[c].verdict # "none"
    /\ commands[c].status = "REJECTED" => commands[c].verdict = "REJECTED"

\* The mission flown is that of the command accepted last.
Aimed ==
  flying # Nobody =>
    /\ aim # 0 /\ commands[aim].mission = flying /\ commands[aim].verdict = "ACCEPTED"
    /\ commands[aim].at \in {"answered", "done"}

\* The partial unique indexes of the schema hold.
OneOpen ==
  \A i, j \in DOMAIN sessions :
    sessions[i].mission = sessions[j].mission
      /\ ~sessions[i].revoked /\ ~sessions[j].revoked => i = j

OneLive == \A m, n \in Missions : Live(m) /\ Live(n) => m = n

RowsInv == TypeOK /\ Rows /\ Started /\ Judged

IInv ==
  RowsInv /\ Aimed /\ OneOpen /\ OneLive /\ RefusedStartFrees /\ CloudKnowsTarget

-----------------------------------------------------------------------------
(* Rows *)

\* Replacing one entry of a sequence by another of the same kind.
LEMMA UpdatedSeq ==
  ASSUME NEW S, NEW s \in Seq(S), NEW i \in DOMAIN s, NEW e \in S
  PROVE  /\ [s EXCEPT ![i] = e] \in Seq(S)
         /\ Len([s EXCEPT ![i] = e]) = Len(s)
         /\ DOMAIN [s EXCEPT ![i] = e] = DOMAIN s
         /\ [s EXCEPT ![i] = e][i] = e
         /\ \A j \in DOMAIN s : j # i => [s EXCEPT ![i] = e][j] = s[j]
OBVIOUS

\* A row added at the end of a table.
LEMMA AppendedSeq ==
  ASSUME NEW S, NEW s \in Seq(S), NEW e \in S
  PROVE  /\ Append(s, e) \in Seq(S)
         /\ Len(Append(s, e)) = Len(s) + 1
         /\ DOMAIN Append(s, e) = DOMAIN s \cup {Len(s) + 1}
         /\ Append(s, e)[Len(s) + 1] = e
         /\ \A j \in DOMAIN s : Append(s, e)[j] = s[j] /\ j # Len(s) + 1
OBVIOUS

\* Revoking sessions changes nothing else of them.
LEMMA RevokedSeq ==
  ASSUME sessions \in Seq(SessionRows), NEW ids
  PROVE  /\ RevokedAmong(ids) \in Seq(SessionRows)
         /\ Len(RevokedAmong(ids)) = Len(sessions)
         /\ DOMAIN RevokedAmong(ids) = DOMAIN sessions
         /\ \A i \in DOMAIN sessions :
              /\ RevokedAmong(ids)[i].mission = sessions[i].mission
              /\ i \in ids => RevokedAmong(ids)[i].revoked
              /\ ~RevokedAmong(ids)[i].revoked => ~sessions[i].revoked
<1>1. \A i \in DOMAIN sessions :
        /\ RevokedAmong(ids)[i] \in SessionRows
        /\ RevokedAmong(ids)[i].mission = sessions[i].mission
        /\ i \in ids => RevokedAmong(ids)[i].revoked
        /\ i \notin ids => RevokedAmong(ids)[i] = sessions[i]
  <2> SUFFICES ASSUME NEW i \in DOMAIN sessions
               PROVE  /\ RevokedAmong(ids)[i] \in SessionRows
                      /\ RevokedAmong(ids)[i].mission = sessions[i].mission
                      /\ i \in ids => RevokedAmong(ids)[i].revoked
                      /\ i \notin ids => RevokedAmong(ids)[i] = sessions[i]
    OBVIOUS
  <2>1. sessions[i] \in SessionRows
    OBVIOUS
  <2>2. [sessions[i] EXCEPT !.revoked = TRUE] \in SessionRows
    BY <2>1 DEF SessionRows
  <2>3. [sessions[i] EXCEPT !.revoked = TRUE].revoked
    BY <2>1 DEF SessionRows
  <2>4. [sessions[i] EXCEPT !.revoked = TRUE].mission = sessions[i].mission
    BY <2>1 DEF SessionRows
  <2>5. CASE i \in ids
    BY <2>2, <2>3, <2>4, <2>5 DEF RevokedAmong
  <2>6. CASE i \notin ids
    BY <2>1, <2>6 DEF RevokedAmong
  <2> QED BY <2>5, <2>6
<1>2. DOMAIN RevokedAmong(ids) = 1..Len(sessions)
  BY DEF RevokedAmong
<1>3. DOMAIN sessions = 1..Len(sessions) /\ Len(sessions) \in Nat
  OBVIOUS
<1>4. RevokedAmong(ids) \in Seq(SessionRows)
  <2>1. \A i \in 1..Len(sessions) : RevokedAmong(ids)[i] \in SessionRows
    BY <1>1, <1>3
  <2> DEFINE f == [i \in 1..Len(sessions) |-> RevokedAmong(ids)[i]]
  <2>2. f \in Seq(SessionRows)
    BY <2>1, <1>3
  <2>3. f = RevokedAmong(ids)
    BY <1>3 DEF RevokedAmong
  <2> QED BY <2>2, <2>3
<1>5. \A i \in DOMAIN sessions :
        ~RevokedAmong(ids)[i].revoked => ~sessions[i].revoked
  BY <1>1
<1>6. Len(RevokedAmong(ids)) = Len(sessions)
  BY <1>2, <1>4
<1> QED BY <1>1, <1>2, <1>4, <1>5, <1>6

\* A new session is a row.
LEMMA NewSessionRow ==
  \A m \in Missions, u \in Users :
    /\ NewSession(m, u) \in SessionRows
    /\ NewSession(m, u).mission = m /\ ~NewSession(m, u).revoked
BY SessionsAssumption DEF NewSession, SessionRows

\* A new command is a row.
LEMMA NewCommandRow ==
  ASSUME TypeOK, NEW k \in {"GOTO", "RETARGET"}, NEW m \in Missions, NEW s \in Nat,
         NEW to \in Targets, NEW t \in Nat
  PROVE  /\ NewCommand(k, m, s, to) \in CommandRows
         /\ [NewCommand(k, m, s, to) EXCEPT !.expires = t] \in CommandRows
<1>1. clock + CommandTtl \in Nat /\ 0 \in 0..MaxClock
  BY SessionsAssumption DEF TypeOK
<1> QED BY <1>1 DEF NewCommand, CommandRows

-----------------------------------------------------------------------------
(* The rows keep their shapes *)

\* A request that read what is so, and writes nothing.
LEMMA RequestReads ==
  ASSUME RowsInv, NEW r \in Requests, NEW q \in RequestType,
         requests' = [requests EXCEPT ![r] = q],
         q.op \in {"reopen", "mint"} => state[q.mission] # "SCHEDULED",
         q.op = "mint" => /\ q.session \in DOMAIN sessions
                          /\ sessions[q.session].mission = q.mission,
         UNCHANGED <<clock, online, missionVars, sessions, commands, follow,
                     agentVars, faults, lost>>
  PROVE  RowsInv'
<1> USE DEF missionVars, agentVars
<1>1. requests' \in [Requests -> RequestType]
  BY DEF RowsInv, TypeOK
<1>2. TypeOK'
  BY <1>1 DEF RowsInv, TypeOK
<1>3. Rows' /\ Judged'
  BY DEF RowsInv, Rows, Judged
<1>4. \A x \in Requests : requests'[x] = IF x = r THEN q ELSE requests[x]
  BY DEF RowsInv, TypeOK
<1>5. Started'
  BY <1>4 DEF RowsInv, Started
<1> QED BY <1>2, <1>3, <1>5 DEF RowsInv

\* An owner or the operator asks for a session.
LEMMA StartSessionRows ==
  ASSUME RowsInv, NEW r \in Requests, NEW m \in Missions, NEW u \in Users,
         StartMissionSession(r, m, u)
  PROVE  RowsInv'
<1> DEFINE q == [op |-> IF Live(m) THEN "reopen" ELSE "start", mission |-> m,
                 user |-> u, at |-> clock]
<1>1. q \in RequestType
  BY DEF RowsInv, TypeOK, RequestType
<1>2. q.op \in {"reopen", "mint"} => state[q.mission] # "SCHEDULED"
  BY DEF Live, LiveMissionStates
<1>3. q.op # "mint"
  OBVIOUS
<1>4. requests' = [requests EXCEPT ![r] = q]
  BY DEF StartMissionSession
<1> HIDE DEF q
<1> QED BY <1>1, <1>2, <1>3, <1>4, RequestReads DEF StartMissionSession

\* A command is asked for, by the session's owner or in its name.
LEMMA MintRows ==
  ASSUME RowsInv, NEW r \in Requests, NEW m \in Missions, NEW to \in Targets,
         IssueOperatorOverride(r, m, to) \/ \E u \in Users : MintMissionCommand(r, m, u, to)
  PROVE  RowsInv'
<1>1. PICK i \in CurrentSessions(m), k \in {"GOTO", "RETARGET"} :
        requests' = [requests EXCEPT ![r] =
          [op |-> "mint", mission |-> m, session |-> i, kind |-> k,
           target |-> to, at |-> clock]]
  BY DEF IssueOperatorOverride, MintMissionCommand
<1> DEFINE q == [op |-> "mint", mission |-> m, session |-> i, kind |-> k,
                 target |-> to, at |-> clock]
<1>2. i \in DOMAIN sessions /\ sessions[i].mission = m /\ i \in 1..MaxSessions
  BY SessionsAssumption DEF CurrentSessions, OpenSessions, RowsInv, Rows
<1>3. q \in RequestType
  BY <1>2 DEF RowsInv, TypeOK, RequestType
<1>4. state[m] # "SCHEDULED"
  BY <1>2 DEF RowsInv, Started
<1>5. q.op = "mint" /\ q.mission = m /\ q.session = i
  OBVIOUS
<1>6. UNCHANGED <<clock, online, missionVars, sessions, commands, follow, agentVars,
                  faults, lost>>
  BY DEF IssueOperatorOverride, MintMissionCommand
<1> HIDE DEF q
<1>7. requests' = [requests EXCEPT ![r] = q]
  BY <1>1 DEF q
<1> QED BY <1>2, <1>3, <1>4, <1>5, <1>6, <1>7, RequestReads

\* What a request in flight has read has its type.
LEMMA RequestFields ==
  ASSUME TypeOK, NEW r \in Requests
  PROVE  /\ requests[r].op \in {"start", "reopen"} =>
              requests[r].mission \in Missions /\ requests[r].user \in Users
         /\ requests[r].op = "mint" =>
              /\ requests[r].mission \in Missions /\ requests[r].session \in Nat
              /\ requests[r].kind \in {"GOTO", "RETARGET"}
              /\ requests[r].target \in Targets /\ requests[r].at \in Nat
<1>1. requests[r] \in RequestType
  BY DEF TypeOK
<1> QED BY <1>1 DEF RequestType, Idle

\* The mission moves, its session is opened and its GOTO written together.
LEMMA StartScheduledRows ==
  ASSUME RowsInv, NEW r \in Requests, StartScheduledMission(r)
  PROVE  RowsInv'
<1> DEFINE m == requests[r].mission
           s == NewSession(m, requests[r].user)
           c == NewCommand("GOTO", m, Len(sessions) + 1, Booked[m])
<1>0. m \in Missions /\ requests[r].user \in Users
  BY RequestFields DEF RowsInv, StartScheduledMission
<1>a. Leave(r) /\ UNCHANGED <<clock, online, follow, agentVars, faults, lost>>
  BY DEF StartScheduledMission
<1>1. CASE UNCHANGED <<missionVars, sessions, commands>>
  <2>1. Idle \in RequestType /\ Idle.op = "idle"
    BY DEF RequestType, Idle
  <2> QED BY <2>1, <1>a, <1>1, RequestReads DEF Leave
<1>2. CASE /\ state[m] = "SCHEDULED" /\ ~ObservatoryTaken(m)
           /\ Len(sessions) < MaxSessions /\ Len(commands) < MaxCommands
           /\ state' = [state EXCEPT ![m] = "PREPARING"]
           /\ target' = [target EXCEPT ![m] = Booked[m]]
           /\ sessions' = Append(sessions, s)
           /\ commands' = Append(commands, c)
           /\ UNCHANGED since
  <2>1. s \in SessionRows /\ s.mission = m /\ ~s.revoked
    BY <1>0, NewSessionRow
  <2>2. Len(sessions) \in Nat /\ Len(commands) \in Nat
    BY DEF RowsInv, Rows
  <2>3. /\ c \in CommandRows /\ c.mission = m /\ c.session = Len(sessions) + 1
        /\ c.at = "row" /\ c.verdict = "none" /\ c.status = "RECEIVED"
    <3>1. Booked[m] \in Targets /\ Len(sessions) + 1 \in Nat
      BY <1>0, <2>2, SessionsAssumption
    <3>2. c \in CommandRows
      BY <1>0, <3>1, NewCommandRow DEF RowsInv
    <3> QED BY <3>2 DEF NewCommand
  <2> HIDE DEF s, c
  <2>4. /\ sessions' \in Seq(SessionRows) /\ Len(sessions') = Len(sessions) + 1
        /\ DOMAIN sessions' = DOMAIN sessions \cup {Len(sessions) + 1}
        /\ sessions'[Len(sessions) + 1] = s
        /\ \A j \in DOMAIN sessions : sessions'[j] = sessions[j]
    BY <1>2, <2>1, AppendedSeq DEF RowsInv, Rows
  <2>5. /\ commands' \in Seq(CommandRows)
        /\ DOMAIN commands' = DOMAIN commands \cup {Len(commands) + 1}
        /\ commands'[Len(commands) + 1] = c
        /\ \A j \in DOMAIN commands : commands'[j] = commands[j]
    BY <1>2, <2>3, AppendedSeq DEF RowsInv, Rows
  <2>6. Rows'
    BY <2>2, <2>4, <2>5, <1>2, SessionsAssumption DEF Rows
  <2>7. Judged'
    BY <2>3, <2>5 DEF Judged, RowsInv
  <2>8. /\ state' \in [Missions -> MissionStates]
        /\ \A n \in Missions : state'[n] = IF n = m THEN "PREPARING" ELSE state[n]
    BY <1>0, <1>2 DEF RowsInv, TypeOK, MissionStates, LiveMissionStates
  <2>9. target' \in [Missions -> Targets \cup {NoTarget}]
    BY <1>0, <1>2, SessionsAssumption DEF RowsInv, TypeOK
  <2>10. /\ requests' \in [Requests -> RequestType]
         /\ \A x \in Requests : requests'[x] = IF x = r THEN Idle ELSE requests[x]
    BY <1>a DEF RowsInv, TypeOK, Leave, RequestType
  <2>11. \A d \in DOMAIN commands' :
           /\ commands'[d].session \in DOMAIN sessions'
           /\ sessions'[commands'[d].session].mission = commands'[d].mission
    BY <2>1, <2>3, <2>4, <2>5 DEF RowsInv, TypeOK
  <2>12. TypeOK'
    BY <1>a, <1>2, <2>8, <2>9, <2>10, <2>11, <2>5 DEF TypeOK, RowsInv, agentVars
  <2>13. Started'
    <3>1. \A n \in Missions :
            state'[n] \in {"SCHEDULED"} \cup LiveMissionStates \cup EndedStates
      BY <2>8 DEF RowsInv, Started, LiveMissionStates
    <3>2. \A i \in DOMAIN sessions' : state'[sessions'[i].mission] # "SCHEDULED"
      <4> TAKE i \in DOMAIN sessions'
      <4>0. sessions' \in Seq(SessionRows) /\ i \in DOMAIN sessions'
        BY <2>4
      <4>1. sessions'[i] \in SessionRows
        BY ONLY <4>0
      <4> QED BY <4>1, <2>1, <2>4, <2>8 DEF RowsInv, Started, SessionRows
    <3>3. ASSUME NEW x \in Requests
          PROVE  /\ requests'[x].op \in {"reopen", "mint"} =>
                      state'[requests'[x].mission] # "SCHEDULED"
                 /\ requests'[x].op = "mint" =>
                      /\ requests'[x].session \in DOMAIN sessions'
                      /\ sessions'[requests'[x].session].mission = requests'[x].mission
      <4>1. CASE x = r
        BY <2>10, <4>1 DEF Idle
      <4>2. CASE x # r
        <5>1. requests'[x] = requests[x]
          BY <2>10, <4>2
        <5>2. requests[x].op \in {"reopen", "mint"} => requests[x].mission \in Missions
          BY RequestFields DEF RowsInv
        <5> QED BY <5>1, <5>2, <2>4, <2>8 DEF RowsInv, Started
      <4> QED BY <4>1, <4>2
    <3> QED BY <3>1, <3>2, <3>3 DEF Started
  <2> QED BY <2>6, <2>7, <2>12, <2>13 DEF RowsInv
<1> QED BY <1>1, <1>2 DEF StartScheduledMission

\* A session is opened on a mission that has started.
LEMMA ReopenRows ==
  ASSUME RowsInv, NEW r \in Requests, ReopenMissionSession(r)
  PROVE  RowsInv'
<1> DEFINE m == requests[r].mission
           s == NewSession(m, requests[r].user)
           given == {i \in OpenSessions(m) :
                       \/ sessions[i].expires <= requests[r].at
                       \/ sessions[i].user = requests[r].user}
<1>0. m \in Missions /\ requests[r].user \in Users /\ state[m] # "SCHEDULED"
  BY RequestFields DEF RowsInv, ReopenMissionSession, Started
<1>a. /\ Leave(r)
      /\ UNCHANGED <<clock, online, missionVars, commands, follow, agentVars, faults,
                     lost>>
  BY DEF ReopenMissionSession
<1>1. CASE UNCHANGED sessions
  <2>1. Idle \in RequestType /\ Idle.op = "idle"
    BY DEF RequestType, Idle
  <2> QED BY <2>1, <1>a, <1>1, RequestReads DEF Leave
<1>2. CASE /\ Len(sessions) < MaxSessions
           /\ sessions' = Append(RevokedAmong(given), s)
  <2>1. s \in SessionRows /\ s.mission = m /\ ~s.revoked
    BY <1>0, NewSessionRow
  <2> HIDE DEF s, given
  <2>2. /\ RevokedAmong(given) \in Seq(SessionRows)
        /\ Len(RevokedAmong(given)) = Len(sessions)
        /\ DOMAIN RevokedAmong(given) = DOMAIN sessions
        /\ \A i \in DOMAIN sessions :
             RevokedAmong(given)[i].mission = sessions[i].mission
    BY RevokedSeq DEF RowsInv, Rows
  <2>3. /\ sessions' \in Seq(SessionRows) /\ Len(sessions') = Len(sessions) + 1
        /\ DOMAIN sessions' = DOMAIN sessions \cup {Len(sessions) + 1}
        /\ sessions'[Len(sessions) + 1] = s
        /\ \A j \in DOMAIN sessions : sessions'[j] = RevokedAmong(given)[j]
    BY <1>2, <2>1, <2>2, AppendedSeq
  <2>4. \A j \in DOMAIN sessions : sessions'[j].mission = sessions[j].mission
    BY <2>2, <2>3
  <2>5. Rows' /\ Judged'
    BY <1>2, <1>a, <2>3, SessionsAssumption DEF RowsInv, Rows, Judged
  <2>6. /\ requests' \in [Requests -> RequestType]
        /\ \A x \in Requests : requests'[x] = IF x = r THEN Idle ELSE requests[x]
    BY <1>a DEF RowsInv, TypeOK, Leave, RequestType
  <2>7. \A c \in DOMAIN commands :
          /\ commands[c].session \in DOMAIN sessions'
          /\ sessions'[commands[c].session].mission = commands[c].mission
    BY <2>3, <2>4 DEF RowsInv, TypeOK
  <2>8. TypeOK'
    BY <1>a, <2>6, <2>7 DEF RowsInv, TypeOK, missionVars, agentVars
  <2>9. \A i \in DOMAIN sessions' : state[sessions'[i].mission] # "SCHEDULED"
    BY <1>0, <2>1, <2>3, <2>4 DEF RowsInv, Started
  <2>10. ASSUME NEW x \in Requests
         PROVE  /\ requests'[x].op \in {"reopen", "mint"} =>
                     state[requests'[x].mission] # "SCHEDULED"
                /\ requests'[x].op = "mint" =>
                     /\ requests'[x].session \in DOMAIN sessions'
                     /\ sessions'[requests'[x].session].mission = requests'[x].mission
    <3>1. CASE x = r
      BY <2>6, <3>1 DEF Idle
    <3>2. CASE x # r
      BY <2>6, <3>2, <2>3, <2>4 DEF RowsInv, Started
    <3> QED BY <3>1, <3>2
  <2>11. Started'
    BY <1>a, <2>9, <2>10 DEF Started, RowsInv, missionVars
  <2> QED BY <2>5, <2>8, <2>11 DEF RowsInv
<1> QED BY <1>1, <1>2 DEF ReopenMissionSession

\* The command a request read the world for.
LEMMA WriteCommandRows ==
  ASSUME RowsInv, NEW r \in Requests, WriteCommand(r)
  PROVE  RowsInv'
<1> DEFINE q == requests[r]
           c == [NewCommand(q.kind, q.mission, q.session, q.target) EXCEPT
                   !.expires = q.at + CommandTtl]
<1>1. /\ q.mission \in Missions /\ q.session \in DOMAIN sessions /\ q.session \in Nat
      /\ sessions[q.session].mission = q.mission
      /\ q.kind \in {"GOTO", "RETARGET"} /\ q.target \in Targets /\ q.at \in Nat
  BY RequestFields DEF RowsInv, WriteCommand, Started
<1>2. /\ c \in CommandRows /\ c.mission = q.mission /\ c.session = q.session
      /\ c.at = "row" /\ c.verdict = "none" /\ c.status = "RECEIVED"
  <2>1. q.at + CommandTtl \in Nat
    BY <1>1, SessionsAssumption
  <2>2. c \in CommandRows
    BY <1>1, <2>1, NewCommandRow DEF RowsInv
  <2> QED BY <2>2 DEF NewCommand
<1>3. commands' = Append(commands, c)
  BY DEF WriteCommand
<1> HIDE DEF c
<1>4. /\ commands' \in Seq(CommandRows)
      /\ DOMAIN commands' = DOMAIN commands \cup {Len(commands) + 1}
      /\ commands'[Len(commands) + 1] = c
      /\ \A j \in DOMAIN commands : commands'[j] = commands[j]
  BY <1>2, <1>3, AppendedSeq DEF RowsInv, Rows
<1>5. /\ requests' \in [Requests -> RequestType]
      /\ \A x \in Requests : requests'[x] = IF x = r THEN Idle ELSE requests[x]
  BY DEF WriteCommand, RowsInv, TypeOK, Leave, RequestType
<1>6. \A d \in DOMAIN commands' :
        /\ commands'[d].session \in DOMAIN sessions
        /\ sessions[commands'[d].session].mission = commands'[d].mission
  BY <1>1, <1>2, <1>4 DEF RowsInv, TypeOK
<1>7. TypeOK'
  BY <1>4, <1>5, <1>6 DEF WriteCommand, RowsInv, TypeOK, missionVars, agentVars
<1>8. Rows' /\ Judged'
  BY <1>2, <1>4 DEF WriteCommand, RowsInv, Rows, Judged
<1>9. Started'
  <2>1. \A x \in Requests : requests'[x].op # "idle" => requests'[x] = requests[x]
    BY <1>5 DEF Idle
  <2> QED BY <2>1 DEF Started, RowsInv, WriteCommand, missionVars
<1> QED BY <1>7, <1>8, <1>9 DEF RowsInv

\* The sessions are the same but for being revoked.
SessionsKept ==
  /\ sessions' \in Seq(SessionRows) /\ Len(sessions') = Len(sessions)
  /\ DOMAIN sessions' = DOMAIN sessions
  /\ \A i \in DOMAIN sessions :
       /\ sessions'[i].mission = sessions[i].mission
       /\ ~sessions'[i].revoked => ~sessions[i].revoked

\* The commands are the same but for how far they have come.
CommandsKept ==
  /\ commands' \in Seq(CommandRows) /\ DOMAIN commands' = DOMAIN commands
  /\ \A c \in DOMAIN commands :
       /\ commands'[c].mission = commands[c].mission
       /\ commands'[c].session = commands[c].session

\* A mission that changes state is live or over then.
StatesMove ==
  /\ state' \in [Missions -> MissionStates]
  /\ \A m \in Missions :
       state'[m] = state[m] \/ state'[m] \in LiveMissionStates \cup EndedStates

OthersTyped ==
  /\ UNCHANGED requests /\ clock' \in 0..MaxClock /\ faults' \in 0..MaxFaults
  /\ online' \in BOOLEAN /\ rebooted' \in BOOLEAN
  /\ target' \in [Missions -> Targets \cup {NoTarget}]
  /\ since' \in [Missions -> 0..MaxClock]
  /\ flying' \in Missions \cup {Nobody} /\ aim' \in {0} \cup DOMAIN commands
  /\ follow' \cup lost' \subseteq DOMAIN commands

\* A step that adds no row and takes no request further.
LEMMA RowsKept ==
  ASSUME RowsInv, SessionsKept, CommandsKept, StatesMove, OthersTyped, Judged'
  PROVE  RowsInv'
<1>1. TypeOK'
  <2>1. \A c \in DOMAIN commands' :
          /\ commands'[c].session \in DOMAIN sessions'
          /\ sessions'[commands'[c].session].mission = commands'[c].mission
    BY DEF RowsInv, TypeOK, SessionsKept, CommandsKept
  <2>2. DOMAIN commands' = DOMAIN commands /\ state' \in [Missions -> MissionStates]
    BY DEF CommandsKept, StatesMove
  <2>3. requests' \in [Requests -> RequestType]
    BY DEF OthersTyped, RowsInv, TypeOK
  <2> QED BY <2>1, <2>2, <2>3 DEF TypeOK, OthersTyped
<1>2. Rows'
  BY DEF RowsInv, Rows, SessionsKept, CommandsKept
<1>3. LiveMissionStates \cup EndedStates \subseteq MissionStates \ {"SCHEDULED"}
  BY DEF MissionStates, LiveMissionStates, EndedStates, TerminalMissionStates,
         HoldMissionStates
<1>4. \A m \in Missions :
        /\ state'[m] \in {"SCHEDULED"} \cup LiveMissionStates \cup EndedStates
        /\ state[m] # "SCHEDULED" => state'[m] # "SCHEDULED"
  BY <1>3 DEF StatesMove, RowsInv, Started
<1>5. \A i \in DOMAIN sessions' : state'[sessions'[i].mission] # "SCHEDULED"
  <2> TAKE i \in DOMAIN sessions'
  <2>1. sessions \in Seq(SessionRows) /\ i \in DOMAIN sessions
    BY DEF RowsInv, Rows, SessionsKept
  <2>2. sessions[i] \in SessionRows
    BY ONLY <2>1
  <2>3. sessions[i].mission \in Missions
    BY <2>2 DEF SessionRows
  <2> QED BY <1>4, <2>1, <2>3 DEF RowsInv, Started, SessionsKept
<1>6. \A r \in Requests : requests[r].op \in {"reopen", "mint"} =>
                            requests[r].mission \in Missions
  BY RequestFields DEF RowsInv
<1>7. Started'
  BY <1>4, <1>5, <1>6 DEF RowsInv, Started, SessionsKept, OthersTyped
<1> QED BY <1>1, <1>2, <1>7 DEF RowsInv

\* Sessions, commands and states that stay as they are.
LEMMA KeptAsTheyAre ==
  ASSUME RowsInv
  PROVE  /\ UNCHANGED sessions => SessionsKept
         /\ UNCHANGED commands => CommandsKept /\ Judged'
         /\ UNCHANGED state => StatesMove
<1>1. ASSUME UNCHANGED sessions PROVE SessionsKept
  BY <1>1 DEF RowsInv, Rows, SessionsKept
<1>2. ASSUME UNCHANGED commands PROVE CommandsKept /\ Judged'
  BY <1>2 DEF RowsInv, Rows, CommandsKept, Judged
<1>3. ASSUME UNCHANGED state PROVE StatesMove
  BY <1>3 DEF RowsInv, TypeOK, StatesMove
<1> QED BY <1>1, <1>2, <1>3

\* Revoked sessions are kept.
LEMMA RevokedAreKept ==
  ASSUME RowsInv, NEW ids, sessions' = RevokedAmong(ids)
  PROVE  SessionsKept
BY RevokedSeq DEF RowsInv, Rows, SessionsKept

\* One command goes further.
LEMMA OneCommandKept ==
  ASSUME RowsInv, NEW c \in DOMAIN commands, NEW row \in CommandRows,
         row.mission = commands[c].mission, row.session = commands[c].session,
         row.at = "row" => row.verdict = "none",
         row.at = "answered" => row.verdict # "none",
         row.status = "REJECTED" => row.verdict = "REJECTED",
         commands' = [commands EXCEPT ![c] = row]
  PROVE  /\ CommandsKept /\ Judged' /\ commands'[c] = row
         /\ \A d \in DOMAIN commands : d # c => commands'[d] = commands[d]
<1>1. /\ commands' \in Seq(CommandRows) /\ DOMAIN commands' = DOMAIN commands
      /\ commands'[c] = row
      /\ \A d \in DOMAIN commands : d # c => commands'[d] = commands[d]
  BY UpdatedSeq DEF RowsInv, Rows
<1> QED BY <1>1 DEF CommandsKept, Judged, RowsInv

\* A command's row.
LEMMA CommandRow ==
  ASSUME RowsInv, NEW c \in DOMAIN commands
  PROVE  commands[c] \in CommandRows
<1>1. commands \in Seq(CommandRows)
  BY DEF RowsInv, Rows
<1> QED BY ONLY <1>1, c \in DOMAIN commands

\* The agent has a command and answers it.
LEMMA RelayRows ==
  ASSUME RowsInv, NEW c \in DOMAIN commands, RelayCommand(c)
  PROVE  /\ RowsInv' /\ CommandsKept
         /\ \A d \in DOMAIN commands : d # c => commands'[d] = commands[d]
         /\ commands'[c].at = "answered" /\ commands'[c].status = "EXECUTING"
         /\ \/ UNCHANGED <<flying, aim>>
            \/ /\ flying' = commands'[c].mission /\ aim' = c
               /\ commands'[c].verdict = "ACCEPTED"
<1>1. PICK v \in {"ACCEPTED", "REJECTED"} :
        /\ commands' = [commands EXCEPT ![c] =
             [commands[c] EXCEPT !.at = "answered", !.verdict = v, !.decided = clock,
                                 !.status = "EXECUTING"]]
        /\ flying' = IF v = "ACCEPTED" THEN commands[c].mission ELSE flying
        /\ aim' = IF v = "ACCEPTED" THEN c ELSE aim
  BY DEF RelayCommand
<1> DEFINE row == [commands[c] EXCEPT !.at = "answered", !.verdict = v,
                                      !.decided = clock, !.status = "EXECUTING"]
<1>2. commands[c] \in CommandRows
  BY CommandRow
<1>3. /\ row \in CommandRows /\ row.mission = commands[c].mission
      /\ row.session = commands[c].session /\ row.at = "answered" /\ row.verdict = v
      /\ row.status = "EXECUTING"
  BY <1>2 DEF CommandRows, RowsInv, TypeOK
<1>4. commands' = [commands EXCEPT ![c] = row]
  BY <1>1
<1> HIDE DEF row
<1>5. /\ CommandsKept /\ Judged' /\ commands'[c] = row
      /\ \A d \in DOMAIN commands : d # c => commands'[d] = commands[d]
  BY <1>3, <1>4, OneCommandKept
<1>6. OthersTyped
  BY <1>1, <1>2 DEF RelayCommand, OthersTyped, RowsInv, TypeOK, missionVars, CommandRows
<1>7. SessionsKept /\ StatesMove
  BY KeptAsTheyAre DEF RelayCommand, missionVars
<1>8. RowsInv'
  BY <1>5, <1>6, <1>7, RowsKept
<1>9. \/ UNCHANGED <<flying, aim>>
      \/ flying' = commands'[c].mission /\ aim' = c /\ commands'[c].verdict = "ACCEPTED"
  BY <1>1, <1>3, <1>5
<1> QED BY <1>3, <1>5, <1>8, <1>9

\* The verdict is written, and what follows from it is due.
LEMMA RecordRows ==
  ASSUME RowsInv, NEW c \in DOMAIN commands, RecordCommandVerdict(c)
  PROVE  /\ RowsInv' /\ CommandsKept
         /\ \A d \in DOMAIN commands : d # c => commands'[d] = commands[d]
         /\ commands'[c].verdict = commands[c].verdict /\ commands'[c].at = "done"
         /\ commands'[c].kind = commands[c].kind /\ commands'[c].target = commands[c].target
         /\ commands'[c].decided = commands[c].decided
         /\ commands'[c].status = "REJECTED" => commands[c].verdict = "REJECTED"
<1> DEFINE v == commands[c].verdict
           row == [commands[c] EXCEPT !.at = "done",
                     !.status = IF v = "ACCEPTED" THEN "EXECUTING" ELSE v]
<1>1. commands[c] \in CommandRows /\ v \in {"ACCEPTED", "REJECTED"}
  BY CommandRow DEF RecordCommandVerdict, RowsInv, Judged, CommandRows
<1>2. /\ row \in CommandRows /\ row.mission = commands[c].mission
      /\ row.session = commands[c].session /\ row.at = "done" /\ row.verdict = v
      /\ row.status = "REJECTED" => v = "REJECTED"
      /\ row.kind = commands[c].kind /\ row.target = commands[c].target
      /\ row.decided = commands[c].decided
  BY <1>1 DEF CommandRows
<1>3. commands' = [commands EXCEPT ![c] = row]
  BY DEF RecordCommandVerdict
<1> HIDE DEF row
<1>4. /\ CommandsKept /\ Judged' /\ commands'[c] = row
      /\ \A d \in DOMAIN commands : d # c => commands'[d] = commands[d]
  BY <1>2, <1>3, OneCommandKept
<1>5. OthersTyped
  BY DEF RecordCommandVerdict, OthersTyped, RowsInv, TypeOK, missionVars, agentVars
<1>6. SessionsKept /\ StatesMove
  BY KeptAsTheyAre DEF RecordCommandVerdict, missionVars
<1> QED BY <1>2, <1>4, <1>5, <1>6, RowsKept

\* What follows from the verdict.
LEMMA FollowRows ==
  ASSUME RowsInv, NEW c \in DOMAIN commands, FollowVerdict(c)
  PROVE  RowsInv' /\ SessionsKept
<1> DEFINE m == commands[c].mission
<1>1. CommandsKept /\ Judged'
  BY KeptAsTheyAre DEF FollowVerdict
<1>2. /\ commands[c] \in CommandRows /\ m \in Missions /\ commands[c].target \in Targets
      /\ commands[c].decided \in 0..MaxClock
  BY CommandRow DEF CommandRows
<1>3. CASE StartDwell(c)
  <2>1. /\ target' \in [Missions -> Targets \cup {NoTarget}]
        /\ since' \in [Missions -> 0..MaxClock]
    BY <1>2, <1>3 DEF StartDwell, RowsInv, TypeOK
  <2>2. lost' \subseteq DOMAIN commands
    BY <1>3 DEF StartDwell, RowsInv, TypeOK, Followed
  <2>3. OthersTyped
    BY <2>1, <2>2 DEF OthersTyped, FollowVerdict, RowsInv, TypeOK, agentVars
  <2>4. SessionsKept /\ StatesMove
    BY <1>3, KeptAsTheyAre DEF StartDwell
  <2> QED BY <1>1, <2>3, <2>4, RowsKept
<1>4. CASE FailRefusedStart(c)
  <2>1. OthersTyped
    BY <1>4 DEF OthersTyped, FailRefusedStart, FollowVerdict, RowsInv, TypeOK, agentVars
  <2>2. SessionsKept
    BY <1>4, KeptAsTheyAre, RevokedAreKept DEF FailRefusedStart
  <2>3. StatesMove
    <3>1. "FAILED" \in MissionStates /\ "FAILED" \in EndedStates
      BY DEF MissionStates, TerminalMissionStates, EndedStates
    <3>2. CASE state' = [state EXCEPT ![m] = "FAILED"]
      BY <1>2, <3>1, <3>2 DEF StatesMove, RowsInv, TypeOK
    <3>3. CASE UNCHANGED state
      BY <3>3, KeptAsTheyAre
    <3> QED BY <1>4, <3>2, <3>3 DEF FailRefusedStart
  <2> QED BY <1>1, <2>1, <2>2, <2>3, RowsKept
<1> QED BY <1>3, <1>4 DEF FollowVerdict

\* Missions that end, with or without a session.
LEMMA EndRows ==
  ASSUME RowsInv, NEW m \in Missions,
         CancelMissionAsOperator(m) \/ CloseUnstartedMissions(m)
  PROVE  RowsInv' /\ SessionsKept
<1>1. state' = [state EXCEPT ![m] = "CANCELLED"]
  BY DEF CancelMissionAsOperator, CloseUnstartedMissions
<1>2. StatesMove
  BY <1>1 DEF StatesMove, RowsInv, TypeOK, MissionStates, TerminalMissionStates,
              EndedStates
<1>3. SessionsKept
  BY KeptAsTheyAre, RevokedAreKept DEF CancelMissionAsOperator, CloseUnstartedMissions
<1>4. CommandsKept /\ Judged'
  BY KeptAsTheyAre DEF CancelMissionAsOperator, CloseUnstartedMissions
<1>5. OthersTyped
  BY DEF CancelMissionAsOperator, CloseUnstartedMissions, OthersTyped, RowsInv, TypeOK,
         agentVars
<1> QED BY <1>2, <1>3, <1>4, <1>5, RowsKept

\* What the agent reports moves its own mission on, or ends it.
LEMMA EventMoves ==
  ASSUME RowsInv, flying \in Missions => state[flying] # "SCHEDULED",
         NEW report \in Reports, ApplyMissionEvent(report)
  PROVE  \/ UNCHANGED state
         \/ /\ flying \in Missions /\ Live(flying)
            /\ \E s \in {"OBSERVING", "COMPLETE", "WEATHER_HOLD"} :
                 state' = [state EXCEPT ![flying] = s]
<1>1. flying \in Missions
  BY DEF ApplyMissionEvent, RowsInv, TypeOK
<1>2. report[Len(report)] \in {"OBSERVING", "COMPLETE", "WEATHER_HOLD"}
  <2>1. CASE report = <<"SLEWING", "VERIFYING", "OBSERVING">>
    BY <2>1
  <2>2. CASE report = <<"COMPLETE">> \/ report = <<"WEATHER_HOLD">>
    BY <2>2
  <2> QED BY <2>1, <2>2 DEF Reports
<1>3. state[flying] \in EndedStates \/ Live(flying)
  BY <1>1 DEF RowsInv, Started, Live
<1> QED BY <1>1, <1>2, <1>3 DEF ApplyMissionEvent

\* What a mission event does to the rows.
LEMMA EventRows ==
  ASSUME RowsInv, flying \in Missions => state[flying] # "SCHEDULED",
         NEW report \in Reports, ApplyMissionEvent(report)
  PROVE  RowsInv'
<1>1. StatesMove
  <2>1. CASE UNCHANGED state
    BY <2>1, KeptAsTheyAre
  <2>2. ASSUME flying \in Missions, NEW s \in {"OBSERVING", "COMPLETE", "WEATHER_HOLD"},
               state' = [state EXCEPT ![flying] = s]
        PROVE  StatesMove
    <3>1. s \in MissionStates /\ s \in LiveMissionStates \cup EndedStates
      BY <2>2 DEF MissionStates, LiveMissionStates, EndedStates, TerminalMissionStates,
                  HoldMissionStates
    <3> QED BY <2>2, <3>1 DEF StatesMove, RowsInv, TypeOK
  <2> QED BY <2>1, <2>2, EventMoves
<1>2. SessionsKept /\ CommandsKept /\ Judged'
  BY KeptAsTheyAre DEF ApplyMissionEvent
<1>3. OthersTyped
  BY DEF ApplyMissionEvent, OthersTyped, RowsInv, TypeOK
<1> QED BY <1>1, <1>2, <1>3, RowsKept

\* The link drops, perhaps with a command.
LEMMA LinkLostRows ==
  ASSUME RowsInv, MarkLinkLost
  PROVE  /\ RowsInv' /\ CommandsKept
         /\ \A c \in DOMAIN commands :
              \/ commands'[c] = commands[c]
              \/ commands[c].at = "row" /\ commands'[c].status = "EXECUTING"
<1>1. SessionsKept /\ StatesMove
  BY KeptAsTheyAre DEF MarkLinkLost, missionVars
<1>2. OthersTyped
  <2>1. faults' \in 0..MaxFaults
    <3>1. faults \in 0..MaxFaults /\ faults < MaxFaults /\ faults' = faults + 1
      BY DEF MarkLinkLost, RowsInv, TypeOK
    <3> QED BY <3>1, SessionsAssumption
  <2>2. online' \in BOOLEAN
    BY Zenon DEF MarkLinkLost
  <2> QED BY <2>1, <2>2 DEF MarkLinkLost, OthersTyped, RowsInv, TypeOK, missionVars, agentVars
<1>3. CASE UNCHANGED commands
  BY <1>1, <1>2, <1>3, KeptAsTheyAre, RowsKept
<1>4. ASSUME NEW c \in DOMAIN commands, commands[c].at = "row",
             commands' = [commands EXCEPT ![c] =
               [commands[c] EXCEPT !.at = "lost", !.status = "EXECUTING"]]
      PROVE  /\ RowsInv' /\ CommandsKept
             /\ \A d \in DOMAIN commands :
                  \/ commands'[d] = commands[d]
                  \/ commands[d].at = "row" /\ commands'[d].status = "EXECUTING"
  <2> DEFINE row == [commands[c] EXCEPT !.at = "lost", !.status = "EXECUTING"]
  <2>1. /\ row \in CommandRows /\ row.mission = commands[c].mission
        /\ row.session = commands[c].session /\ row.at = "lost"
        /\ row.status = "EXECUTING"
    BY CommandRow DEF CommandRows
  <2> HIDE DEF row
  <2>2. commands' = [commands EXCEPT ![c] = row]
    BY <1>4 DEF row
  <2>3. /\ CommandsKept /\ Judged' /\ commands'[c] = row
        /\ \A d \in DOMAIN commands : d # c => commands'[d] = commands[d]
    BY <2>1, <2>2, OneCommandKept
  <2>4. RowsInv'
    BY <1>1, <1>2, <2>3, RowsKept
  <2> QED BY <1>4, <2>1, <2>3, <2>4
<1> QED BY <1>3, <1>4 DEF MarkLinkLost

\* A restarted agent has forgotten what it had not sent.
LEMMA RestartRows ==
  ASSUME RowsInv, AgentRestarts
  PROVE  /\ RowsInv' /\ CommandsKept
         /\ \A c \in DOMAIN commands :
              /\ commands'[c].status = commands[c].status
              /\ commands'[c].kind = commands[c].kind
<1>1. SessionsKept /\ StatesMove
  BY KeptAsTheyAre DEF AgentRestarts, missionVars
<1>2. OthersTyped
  <2>1. faults' \in 0..MaxFaults
    BY SessionsAssumption DEF AgentRestarts, RowsInv, TypeOK
  <2>2. online' \in BOOLEAN /\ rebooted' \in BOOLEAN
    BY Zenon DEF AgentRestarts
  <2> QED BY <2>1, <2>2 DEF AgentRestarts, OthersTyped, RowsInv, TypeOK, missionVars
<1>3. commands \in Seq(CommandRows)
  BY DEF RowsInv, Rows
<1>4. ASSUME NEW c \in DOMAIN commands
      PROVE  /\ commands'[c] \in CommandRows
             /\ commands'[c].mission = commands[c].mission
             /\ commands'[c].session = commands[c].session
             /\ commands'[c].status = commands[c].status
             /\ commands'[c].kind = commands[c].kind
             /\ commands'[c].verdict = commands[c].verdict
             /\ commands'[c].at = commands[c].at \/ commands'[c].at = "lost"
  <2>1. commands[c] \in CommandRows
    BY CommandRow
  <2>2. CASE commands[c].at = "answered"
    <3>1. commands'[c] = [commands[c] EXCEPT !.at = "lost"]
      BY <2>2 DEF AgentRestarts
    <3> QED BY <2>1, <3>1 DEF CommandRows
  <2>3. CASE commands[c].at # "answered"
    <3>1. commands'[c] = commands[c]
      BY <2>3 DEF AgentRestarts
    <3> QED BY <2>1, <3>1 DEF CommandRows
  <2> QED BY <2>2, <2>3
<1>5. DOMAIN commands = 1..Len(commands) /\ Len(commands) \in Nat
  BY <1>3
<1>6. commands' \in Seq(CommandRows) /\ DOMAIN commands' = DOMAIN commands
  <2> DEFINE f == [c \in 1..Len(commands) |-> commands'[c]]
  <2>1. f \in Seq(CommandRows)
    BY <1>4, <1>5
  <2>2. f = commands'
    BY <1>5 DEF AgentRestarts
  <2> QED BY <2>1, <2>2, <1>5
<1>7. CommandsKept
  BY <1>4, <1>6 DEF CommandsKept
<1>8. Judged'
  BY <1>4, <1>6 DEF Judged, RowsInv
<1> QED BY <1>1, <1>2, <1>4, <1>7, <1>8, RowsKept

\* The link is up again.
LEMMA LinkUpRows ==
  ASSUME RowsInv, MarkLinkUp
  PROVE  /\ RowsInv' /\ SessionsKept
         /\ \A m \in Missions :
              \/ state'[m] = state[m]
              \/ Live(m) /\ state'[m] = "FAILED"
<1> DEFINE over == IF rebooted THEN {m \in Missions : Live(m)} ELSE {}
<1>1. /\ state' = [m \in Missions |-> IF m \in over THEN "FAILED" ELSE state[m]]
      /\ sessions' = RevokedAmong(UNION {OpenSessions(m) : m \in over})
  BY DEF MarkLinkUp
<1>2. \A m \in Missions : m \in over => Live(m)
  OBVIOUS
<1> HIDE DEF over
<1>3. "FAILED" \in MissionStates /\ "FAILED" \in EndedStates
  BY DEF MissionStates, TerminalMissionStates, EndedStates
<1>4. StatesMove
  BY <1>1, <1>3 DEF StatesMove, RowsInv, TypeOK
<1>5. SessionsKept
  BY <1>1, RevokedAreKept
<1>6. CommandsKept /\ Judged'
  BY KeptAsTheyAre DEF MarkLinkUp
<1>7. OthersTyped
  BY DEF MarkLinkUp, OthersTyped, RowsInv, TypeOK
<1>8. RowsInv'
  BY <1>4, <1>5, <1>6, <1>7, RowsKept
<1> QED BY <1>1, <1>2, <1>5, <1>8

\* The realtime process dies, or time passes.
LEMMA QuietRows ==
  ASSUME RowsInv, RealtimeDies \/ Tick \/ UNCHANGED vars
  PROVE  RowsInv'
<1>1. SessionsKept /\ StatesMove /\ CommandsKept /\ Judged'
  BY KeptAsTheyAre DEF RealtimeDies, Tick, vars, missionVars
<1>2. OthersTyped
  <2>1. CASE RealtimeDies
    <3>1. faults' \in 0..MaxFaults
      BY <2>1, SessionsAssumption DEF RealtimeDies, RowsInv, TypeOK
    <3>2. online' \in BOOLEAN
      BY <2>1, Zenon DEF RealtimeDies
    <3> QED BY <2>1, <3>1, <3>2
            DEF RealtimeDies, OthersTyped, RowsInv, TypeOK, missionVars, agentVars
  <2>2. CASE Tick
    <3>1. clock' \in 0..MaxClock
      BY <2>2, SessionsAssumption DEF Tick, RowsInv, TypeOK
    <3> QED BY <2>2, <3>1 DEF Tick, OthersTyped, RowsInv, TypeOK, missionVars, agentVars
  <2>3. CASE UNCHANGED vars
    BY <2>3 DEF vars, OthersTyped, RowsInv, TypeOK, missionVars, agentVars
  <2> QED BY <2>1, <2>2, <2>3
<1> QED BY <1>1, <1>2, RowsKept

-----------------------------------------------------------------------------
(* Missions start, move on and end one at a time *)

\* What a step may do to mission m: nothing, start it while no mission is live, move
\* it on while it is live, or end it.
Moves(m) ==
  \/ state'[m] = state[m]
  \/ state[m] = "SCHEDULED" /\ state'[m] = "PREPARING" /\ \A n \in Missions : ~Live(n)
  \/ Live(m) /\ state'[m] \in LiveMissionStates \ {"PREPARING"}
  \/ state'[m] \in EndedStates

\* A step moves one mission, if any.
OneMoves ==
  \/ UNCHANGED state
  \/ \E m \in Missions : Moves(m) /\ \A n \in Missions \ {m} : state'[n] = state[n]

\* The mission flown has started.
LEMMA FlownHasStarted ==
  ASSUME RowsInv, Aimed
  PROVE  flying \in Missions => state[flying] # "SCHEDULED"
<1> SUFFICES ASSUME flying \in Missions PROVE state[flying] # "SCHEDULED"
  OBVIOUS
<1>1. aim \in DOMAIN commands /\ commands[aim].mission = flying
  BY SessionsAssumption DEF Aimed, RowsInv, TypeOK
<1>2. /\ commands[aim].session \in DOMAIN sessions
      /\ sessions[commands[aim].session].mission = flying
  BY <1>1 DEF RowsInv, TypeOK
<1> QED BY <1>2 DEF RowsInv, Started

\* Every step keeps the rows and moves one mission at most.
LEMMA StateStep ==
  ASSUME RowsInv, Aimed, OneLive, [Next]_vars
  PROVE  RowsInv' /\ OneMoves
<1> USE DEF missionVars
<1>a. ASSUME NEW m \in Missions, NEW s, state' = [state EXCEPT ![m] = s]
      PROVE  state'[m] = s /\ \A n \in Missions \ {m} : state'[n] = state[n]
  BY <1>a DEF RowsInv, TypeOK
<1>1. ASSUME NEW r \in Requests, NEW m \in Missions, NEW u \in Users,
             StartMissionSession(r, m, u)
      PROVE  RowsInv' /\ OneMoves
  BY <1>1, StartSessionRows DEF StartMissionSession, OneMoves
<1>2. ASSUME NEW r \in Requests, NEW m \in Missions, NEW to \in Targets,
             \/ IssueOperatorOverride(r, m, to)
             \/ \E u \in Users : MintMissionCommand(r, m, u, to)
      PROVE  RowsInv' /\ OneMoves
  BY <1>2, MintRows DEF IssueOperatorOverride, MintMissionCommand, OneMoves
<1>3. ASSUME NEW r \in Requests, StartScheduledMission(r)
      PROVE  RowsInv' /\ OneMoves
  <2> DEFINE m == requests[r].mission
  <2>1. m \in Missions
    BY <1>3, RequestFields DEF RowsInv, StartScheduledMission
  <2>2. CASE UNCHANGED missionVars
    BY <2>2, <1>3, StartScheduledRows DEF OneMoves
  <2>3. CASE /\ state[m] = "SCHEDULED" /\ ~ObservatoryTaken(m)
             /\ state' = [state EXCEPT ![m] = "PREPARING"]
    <3>1. \A n \in Missions : ~Live(n)
      BY <2>3 DEF ObservatoryTaken, Live, LiveMissionStates
    <3> QED BY <2>1, <2>3, <3>1, <1>3, <1>a, StartScheduledRows DEF OneMoves, Moves
  <2> QED BY <1>3, <2>2, <2>3 DEF StartScheduledMission
<1>4. ASSUME NEW r \in Requests, ReopenMissionSession(r) \/ WriteCommand(r)
      PROVE  RowsInv' /\ OneMoves
  BY <1>4, ReopenRows, WriteCommandRows
     DEF ReopenMissionSession, WriteCommand, OneMoves
<1>5. ASSUME NEW m \in Missions, CancelMissionAsOperator(m) \/ CloseUnstartedMissions(m)
      PROVE  RowsInv' /\ OneMoves
  <2>1. state' = [state EXCEPT ![m] = "CANCELLED"]
    BY <1>5 DEF CancelMissionAsOperator, CloseUnstartedMissions
  <2>2. "CANCELLED" \in EndedStates
    BY DEF EndedStates, TerminalMissionStates
  <2> QED BY <1>5, <1>a, <2>1, <2>2, EndRows DEF OneMoves, Moves
<1>6. ASSUME NEW c \in DOMAIN commands, RelayCommand(c) \/ RecordCommandVerdict(c)
      PROVE  RowsInv' /\ OneMoves
  BY <1>6, RelayRows, RecordRows DEF RelayCommand, RecordCommandVerdict, OneMoves
<1>7. ASSUME NEW c \in DOMAIN commands, FollowVerdict(c)
      PROVE  RowsInv' /\ OneMoves
  <2>1. commands[c].mission \in Missions
    BY CommandRow DEF CommandRows
  <2>2. "FAILED" \in EndedStates
    BY DEF EndedStates, TerminalMissionStates
  <2>3. \/ UNCHANGED state
        \/ state' = [state EXCEPT ![commands[c].mission] = "FAILED"]
    BY <1>7 DEF FollowVerdict, StartDwell, FailRefusedStart
  <2> QED BY <1>7, <1>a, <2>1, <2>2, <2>3, FollowRows DEF OneMoves, Moves
<1>8. ASSUME NEW report \in Reports, ApplyMissionEvent(report)
      PROVE  RowsInv' /\ OneMoves
  <2>1. RowsInv'
    BY <1>8, EventRows, FlownHasStarted
  <2>2. CASE UNCHANGED state
    BY <2>1, <2>2 DEF OneMoves
  <2>3. ASSUME flying \in Missions, Live(flying),
               NEW s \in {"OBSERVING", "COMPLETE", "WEATHER_HOLD"},
               state' = [state EXCEPT ![flying] = s]
        PROVE  OneMoves
    <3>1. s \in LiveMissionStates \ {"PREPARING"} \/ s \in EndedStates
      BY <2>3 DEF LiveMissionStates, EndedStates, TerminalMissionStates,
                  HoldMissionStates
    <3> QED BY <2>3, <3>1, <1>a DEF OneMoves, Moves
  <2> QED BY <1>8, <2>1, <2>2, <2>3, EventMoves, FlownHasStarted
<1>9. CASE MarkLinkUp
  <2>1. "FAILED" \in EndedStates
    BY DEF EndedStates, TerminalMissionStates
  <2>2. /\ RowsInv'
        /\ \A m \in Missions :
             state'[m] = state[m] \/ (Live(m) /\ state'[m] = "FAILED")
    BY <1>9, LinkUpRows
  <2>3. CASE \E m \in Missions : Live(m)
    <3>1. PICK m \in Missions : Live(m)
      BY <2>3
    <3>2. \A n \in Missions \ {m} : state'[n] = state[n]
      BY <2>2, <3>1 DEF OneLive
    <3> QED BY <2>1, <2>2, <3>1, <3>2 DEF OneMoves, Moves
  <2>4. CASE ~\E m \in Missions : Live(m)
    <3>1. \A m \in Missions : state'[m] = state[m]
      BY <2>2, <2>4
    <3>2. UNCHANGED state
      BY <3>1, <2>2 DEF RowsInv, TypeOK
    <3> QED BY <2>2, <3>2 DEF OneMoves
  <2> QED BY <2>3, <2>4
<1>10. CASE MarkLinkLost \/ AgentRestarts
  BY <1>10, LinkLostRows, RestartRows DEF MarkLinkLost, AgentRestarts, OneMoves
<1>11. CASE RealtimeDies \/ Tick \/ UNCHANGED vars
  BY <1>11, QuietRows DEF RealtimeDies, Tick, vars, OneMoves
<1> QED BY <1>1, <1>2, <1>3, <1>4, <1>5, <1>6, <1>7, <1>8, <1>9, <1>10, <1>11 DEF Next

-----------------------------------------------------------------------------
(* The unique indexes *)

\* One mission is live: a start finds none, and nothing else makes one live.
LEMMA OneLiveStep ==
  ASSUME RowsInv, OneLive, OneMoves
  PROVE  OneLive'
<1>1. CASE UNCHANGED state
  BY <1>1 DEF OneLive, Live
<1>2. ASSUME NEW m \in Missions, Moves(m), \A n \in Missions \ {m} : state'[n] = state[n]
      PROVE  OneLive'
  <2>1. EndedStates \cap LiveMissionStates = {}
    BY DEF EndedStates, TerminalMissionStates, HoldMissionStates, LiveMissionStates
  <2> QED BY <1>2, <2>1 DEF OneLive, Live, Moves
<1> QED BY <1>1, <1>2 DEF OneMoves

\* One session of a mission is open: a start finds none of its mission, and a
\* session is opened only after all that were open are revoked.
LEMMA OneOpenStep ==
  ASSUME RowsInv, OneOpen, [Next]_vars
  PROVE  OneOpen'
<1>1. CASE SessionsKept
  BY <1>1 DEF SessionsKept, OneOpen
<1>2. CASE UNCHANGED sessions
  BY <1>2 DEF OneOpen
<1>3. ASSUME NEW r \in Requests, StartScheduledMission(r)
      PROVE  OneOpen'
  <2> DEFINE m == requests[r].mission
             s == NewSession(m, requests[r].user)
  <2>1. m \in Missions /\ requests[r].user \in Users
    BY <1>3, RequestFields DEF RowsInv, StartScheduledMission
  <2>2. s \in SessionRows /\ s.mission = m
    BY <2>1, NewSessionRow
  <2>3. CASE state[m] = "SCHEDULED" /\ sessions' = Append(sessions, s)
    <3> HIDE DEF s
    <3>1. /\ DOMAIN sessions' = DOMAIN sessions \cup {Len(sessions) + 1}
          /\ sessions'[Len(sessions) + 1] = s
          /\ \A j \in DOMAIN sessions : sessions'[j] = sessions[j]
      BY <2>2, <2>3, AppendedSeq DEF RowsInv, Rows
    <3>2. \A i \in DOMAIN sessions : sessions[i].mission # m
      BY <2>3 DEF RowsInv, Started
    <3> QED BY <2>2, <3>1, <3>2 DEF OneOpen
  <2> QED BY <1>2, <1>3, <2>3 DEF StartScheduledMission
<1>4. ASSUME NEW r \in Requests, ReopenMissionSession(r)
      PROVE  OneOpen'
  <2> DEFINE m == requests[r].mission
             s == NewSession(m, requests[r].user)
  <2>1. m \in Missions /\ requests[r].user \in Users
    BY <1>4, RequestFields DEF RowsInv, ReopenMissionSession
  <2>2. s \in SessionRows /\ s.mission = m
    BY <2>1, NewSessionRow
  <2>3. CASE sessions' = Append(RevokedAmong(OpenSessions(m)), s)
    <3> DEFINE left == RevokedAmong(OpenSessions(m))
    <3> HIDE DEF s
    <3>1. /\ left \in Seq(SessionRows) /\ DOMAIN left = DOMAIN sessions
          /\ Len(left) = Len(sessions)
          /\ \A i \in DOMAIN sessions :
               /\ left[i].mission = sessions[i].mission
               /\ i \in OpenSessions(m) => left[i].revoked
               /\ ~left[i].revoked => ~sessions[i].revoked
      BY RevokedSeq DEF RowsInv, Rows
    <3> HIDE DEF left
    <3>2. /\ DOMAIN sessions' = DOMAIN sessions \cup {Len(sessions) + 1}
          /\ sessions'[Len(sessions) + 1] = s
          /\ \A j \in DOMAIN sessions : sessions'[j] = left[j]
      BY <2>2, <2>3, <3>1, AppendedSeq DEF left
    <3>3. \A i \in DOMAIN sessions : ~left[i].revoked => sessions[i].mission # m
      BY <3>1 DEF OpenSessions
    <3> QED BY <2>2, <3>1, <3>2, <3>3 DEF OneOpen
  <2>4. \/ UNCHANGED sessions
        \/ sessions' = Append(RevokedAmong(OpenSessions(m)), s)
    BY <1>4 DEF ReopenMissionSession
  <2> QED BY <1>2, <2>3, <2>4
<1>5. ASSUME NEW c \in DOMAIN commands, FollowVerdict(c)
      PROVE  OneOpen'
  BY <1>1, <1>5, FollowRows
<1>6. ASSUME NEW m \in Missions, CancelMissionAsOperator(m) \/ CloseUnstartedMissions(m)
      PROVE  OneOpen'
  BY <1>1, <1>6, EndRows
<1>7. CASE MarkLinkUp
  BY <1>1, <1>7, LinkUpRows
<1>8. CASE MarkLinkLost \/ AgentRestarts \/ RealtimeDies \/ Tick \/ UNCHANGED vars
  BY <1>2, <1>8 DEF MarkLinkLost, AgentRestarts, RealtimeDies, Tick, vars
<1>9. ASSUME NEW c \in DOMAIN commands, RelayCommand(c) \/ RecordCommandVerdict(c)
      PROVE  OneOpen'
  BY <1>2, <1>9 DEF RelayCommand, RecordCommandVerdict
<1>10. ASSUME NEW r \in Requests, NEW m \in Missions, NEW u, NEW to,
              \/ StartMissionSession(r, m, u) \/ IssueOperatorOverride(r, m, to)
              \/ MintMissionCommand(r, m, u, to)
       PROVE  OneOpen'
  BY <1>2, <1>10 DEF StartMissionSession, IssueOperatorOverride, MintMissionCommand
<1>11. ASSUME NEW r \in Requests, WriteCommand(r)
       PROVE  OneOpen'
  BY <1>2, <1>11 DEF WriteCommand
<1>12. ASSUME NEW report, ApplyMissionEvent(report)
       PROVE  OneOpen'
  BY <1>2, <1>12 DEF ApplyMissionEvent
<1> QED BY <1>3, <1>4, <1>5, <1>6, <1>7, <1>8, <1>9, <1>10, <1>11, <1>12 DEF Next

-----------------------------------------------------------------------------
(* The agent's mission and what the cloud knows of it *)

\* A command that is written has no verdict yet, and the others stay as they are.
LEMMA AppendedCommand ==
  ASSUME RowsInv, RowsInv', NEW r \in Requests,
         StartScheduledMission(r) \/ WriteCommand(r)
  PROVE  \/ UNCHANGED commands
         \/ /\ DOMAIN commands' = DOMAIN commands \cup {Len(commands) + 1}
            /\ Len(commands) + 1 \notin DOMAIN commands
            /\ \A c \in DOMAIN commands : commands'[c] = commands[c]
            /\ commands'[Len(commands) + 1].status = "RECEIVED"
<1>1. ASSUME NEW c, c.status = "RECEIVED", commands' = Append(commands, c)
      PROVE  /\ DOMAIN commands' = DOMAIN commands \cup {Len(commands) + 1}
             /\ Len(commands) + 1 \notin DOMAIN commands
             /\ \A d \in DOMAIN commands : commands'[d] = commands[d]
             /\ commands'[Len(commands) + 1].status = "RECEIVED"
  BY <1>1 DEF RowsInv, Rows
<1>2. CASE StartScheduledMission(r)
  BY <1>1, <1>2 DEF StartScheduledMission, NewCommand
<1>3. CASE WriteCommand(r)
  BY <1>1, <1>3 DEF WriteCommand, NewCommand
<1> QED BY <1>2, <1>3

\* What a step that gives the agent no command and follows no verdict keeps.
Unjudged ==
  /\ \A c \in DOMAIN commands' :
       commands'[c].status = "REJECTED" =>
         /\ c \in DOMAIN commands /\ commands[c].status = "REJECTED"
         /\ commands'[c].kind = commands[c].kind
         /\ commands'[c].mission = commands[c].mission
  /\ follow \cup lost \subseteq follow' \cup lost'

Unaimed ==
  /\ UNCHANGED <<flying, aim>>
  /\ flying # Nobody => commands'[aim] = commands[aim]
  /\ \A m \in Missions :
       state[m] # "SCHEDULED" => target'[m] = target[m] /\ since'[m] = since[m]
  /\ follow \cup lost \subseteq follow' \cup lost'

\* A mission named by a command never goes back to PREPARING.
LEMMA NotPreparingAgain ==
  ASSUME RowsInv, OneMoves, NEW c \in DOMAIN commands
  PROVE  /\ commands[c].mission \in Missions
         /\ state[commands[c].mission] # "SCHEDULED"
         /\ state'[commands[c].mission] = "PREPARING" =>
              state[commands[c].mission] = "PREPARING"
         /\ state'[commands[c].mission] \in LiveMissionStates =>
              Live(commands[c].mission)
<1>1. commands[c].mission \in Missions
  BY CommandRow DEF CommandRows
<1>2. state[commands[c].mission] # "SCHEDULED"
  BY DEF RowsInv, TypeOK, Started
<1>3. "PREPARING" \notin EndedStates /\ EndedStates \cap LiveMissionStates = {}
  BY DEF EndedStates, TerminalMissionStates, HoldMissionStates, LiveMissionStates
<1> QED BY <1>1, <1>2, <1>3 DEF OneMoves, Moves, Live

\* Every step keeps what follows from a refused start.
LEMMA RefusedKept ==
  ASSUME RowsInv, OneMoves, RefusedStartFrees, Unjudged
  PROVE  RefusedStartFrees'
<1> SUFFICES ASSUME NEW c \in DOMAIN commands', c \notin follow' \cup lost',
                    commands'[c].kind = "GOTO", commands'[c].status = "REJECTED"
             PROVE  state'[commands'[c].mission] # "PREPARING"
  BY DEF RefusedStartFrees, IsStartingGoto, StartNotRunStatuses
<1>1. /\ c \in DOMAIN commands /\ c \notin follow \cup lost
      /\ commands[c].kind = "GOTO" /\ commands[c].status = "REJECTED"
      /\ commands'[c].mission = commands[c].mission
  BY DEF Unjudged
<1>2. state[commands[c].mission] # "PREPARING"
  BY <1>1 DEF RefusedStartFrees, IsStartingGoto, StartNotRunStatuses
<1> QED BY <1>1, <1>2, NotPreparingAgain

\* Every step keeps what the cloud knows of the target.
LEMMA KnownKept ==
  ASSUME RowsInv, OneMoves, Aimed, CloudKnowsTarget, Unaimed
  PROVE  Aimed' /\ CloudKnowsTarget'
<1>1. Aimed'
  BY DEF Aimed, Unaimed
<1>2. ASSUME flying' # Nobody, Live(flying)'
      PROVE  \/ /\ target'[flying'] = commands'[aim'].target
                /\ since'[flying'] = commands'[aim'].decided
             \/ commands'[aim'].at = "answered"
             \/ aim' \in follow' \cup lost'
  <2>1. /\ flying' = flying /\ aim' = aim /\ commands'[aim] = commands[aim]
        /\ commands[aim].mission = flying /\ aim \in DOMAIN commands
    BY <1>2 DEF Unaimed, Aimed, RowsInv, TypeOK
  <2>2. flying \in Missions /\ Live(flying) /\ state[flying] # "SCHEDULED"
    BY <1>2, <2>1, NotPreparingAgain DEF Live
  <2>3. target'[flying] = target[flying] /\ since'[flying] = since[flying]
    BY <2>2 DEF Unaimed
  <2> QED BY <1>2, <2>1, <2>2, <2>3 DEF CloudKnowsTarget, Unaimed
<1>3. CloudKnowsTarget'
  BY <1>2 DEF CloudKnowsTarget
<1> QED BY <1>1, <1>3

\* Steps that touch no command and no agent.
LEMMA Untouched ==
  ASSUME RowsInv, UNCHANGED <<commands, follow, lost>>
  PROVE  /\ Unjudged
         /\ UNCHANGED <<flying, aim, target, since>> => Unaimed
BY DEF Unjudged, Unaimed

\* Every step keeps what is known of refused starts and of the agent's target.
LEMMA KnownStep ==
  ASSUME IInv, OneMoves, RowsInv', [Next]_vars
  PROVE  RefusedStartFrees' /\ Aimed' /\ CloudKnowsTarget'
<1> USE DEF missionVars, agentVars
<1>0. RowsInv /\ Aimed /\ RefusedStartFrees /\ CloudKnowsTarget
  BY DEF IInv
<1>a. ASSUME Unjudged, Unaimed
      PROVE  RefusedStartFrees' /\ Aimed' /\ CloudKnowsTarget'
  BY <1>0, <1>a, RefusedKept, KnownKept
<1>b. ASSUME Unjudged, flying' = Nobody
      PROVE  RefusedStartFrees' /\ Aimed' /\ CloudKnowsTarget'
  BY <1>0, <1>b, RefusedKept DEF Aimed, CloudKnowsTarget
<1>1. ASSUME NEW r \in Requests, NEW m \in Missions, NEW u, NEW to,
              \/ StartMissionSession(r, m, u) \/ IssueOperatorOverride(r, m, to)
              \/ MintMissionCommand(r, m, u, to)
      PROVE  RefusedStartFrees' /\ Aimed' /\ CloudKnowsTarget'
  BY <1>0, <1>1, <1>a, Untouched
     DEF StartMissionSession, IssueOperatorOverride, MintMissionCommand
<1>12. ASSUME NEW r \in Requests, ReopenMissionSession(r)
       PROVE  RefusedStartFrees' /\ Aimed' /\ CloudKnowsTarget'
  BY <1>0, <1>12, <1>a, Untouched DEF ReopenMissionSession
<1>2. ASSUME NEW m \in Missions, CancelMissionAsOperator(m) \/ CloseUnstartedMissions(m)
      PROVE  RefusedStartFrees' /\ Aimed' /\ CloudKnowsTarget'
  BY <1>0, <1>2, <1>a, Untouched DEF CancelMissionAsOperator, CloseUnstartedMissions
<1>3. CASE MarkLinkUp \/ Tick \/ UNCHANGED vars
  BY <1>0, <1>3, <1>a, Untouched DEF MarkLinkUp, Tick, vars
<1>4. ASSUME NEW r \in Requests, StartScheduledMission(r) \/ WriteCommand(r)
      PROVE  RefusedStartFrees' /\ Aimed' /\ CloudKnowsTarget'
  <2>1. \/ UNCHANGED commands
        \/ /\ DOMAIN commands' = DOMAIN commands \cup {Len(commands) + 1}
           /\ Len(commands) + 1 \notin DOMAIN commands
           /\ \A c \in DOMAIN commands : commands'[c] = commands[c]
           /\ commands'[Len(commands) + 1].status = "RECEIVED"
    BY <1>0, <1>4, AppendedCommand
  <2>2. Unjudged
    BY <1>4, <2>1 DEF StartScheduledMission, WriteCommand, Unjudged
  <2>3. flying # Nobody => aim \in DOMAIN commands
    BY <1>0 DEF Aimed, RowsInv, TypeOK
  <2>4. \A m \in Missions :
          state[m] # "SCHEDULED" => target'[m] = target[m] /\ since'[m] = since[m]
    <3>1. CASE WriteCommand(r)
      BY <3>1 DEF WriteCommand
    <3>2. CASE StartScheduledMission(r)
      BY <1>0, <3>2 DEF StartScheduledMission, RowsInv, TypeOK
    <3> QED BY <1>4, <3>1, <3>2
  <2>5. Unaimed
    BY <1>4, <2>1, <2>3, <2>4 DEF StartScheduledMission, WriteCommand, Unaimed
  <2> QED BY <1>a, <2>2, <2>5
<1>5. ASSUME NEW report \in Reports, ApplyMissionEvent(report)
      PROVE  RefusedStartFrees' /\ Aimed' /\ CloudKnowsTarget'
  BY <1>0, <1>5, <1>a, <1>b, Untouched DEF ApplyMissionEvent
<1>6. CASE RealtimeDies
  <2>1. Unjudged /\ Unaimed
    BY <1>6 DEF RealtimeDies, Unjudged, Unaimed
  <2> QED BY <1>a, <2>1
<1>7. CASE MarkLinkLost
  <2>1. /\ CommandsKept
        /\ \A c \in DOMAIN commands :
             \/ commands'[c] = commands[c]
             \/ commands[c].at = "row" /\ commands'[c].status = "EXECUTING"
    BY <1>0, <1>7, LinkLostRows
  <2>2. Unjudged
    BY <1>7, <2>1 DEF MarkLinkLost, Unjudged, CommandsKept
  <2>3. flying # Nobody => aim \in DOMAIN commands /\ commands[aim].at # "row"
    BY <1>0 DEF Aimed, RowsInv, TypeOK, Judged
  <2>4. Unaimed
    BY <1>7, <2>1, <2>3 DEF MarkLinkLost, Unaimed
  <2> QED BY <1>a, <2>2, <2>4
<1>8. CASE AgentRestarts
  <2>1. Unjudged
    BY <1>0, <1>8, RestartRows DEF AgentRestarts, Unjudged, CommandsKept
  <2> QED BY <1>8, <2>1, <1>b DEF AgentRestarts
<1>9. ASSUME NEW c \in DOMAIN commands, RelayCommand(c)
      PROVE  RefusedStartFrees' /\ Aimed' /\ CloudKnowsTarget'
  <2>1. /\ CommandsKept
        /\ \A d \in DOMAIN commands : d # c => commands'[d] = commands[d]
        /\ commands'[c].at = "answered" /\ commands'[c].status = "EXECUTING"
        /\ \/ UNCHANGED <<flying, aim>>
           \/ /\ flying' = commands'[c].mission /\ aim' = c
              /\ commands'[c].verdict = "ACCEPTED"
    BY <1>0, <1>9, RelayRows
  <2>2. Unjudged
    BY <1>9, <2>1 DEF RelayCommand, Unjudged, CommandsKept
  <2>3. CASE UNCHANGED <<flying, aim>>
    <3>1. flying # Nobody => aim \in DOMAIN commands /\ aim # c
      BY <1>0, <1>9 DEF Aimed, RowsInv, TypeOK, Judged, RelayCommand
    <3>2. Unaimed
      BY <1>9, <2>1, <2>3, <3>1 DEF RelayCommand, Unaimed
    <3> QED BY <1>a, <2>2, <3>2
  <2>4. CASE /\ flying' = commands'[c].mission /\ aim' = c
             /\ commands'[c].verdict = "ACCEPTED"
    <3>1. c # 0
      BY <1>0 DEF RowsInv, Rows
    <3>2. Aimed' /\ CloudKnowsTarget'
      BY <2>1, <2>4, <3>1 DEF Aimed, CloudKnowsTarget
    <3> QED BY <1>0, <2>2, <3>2, RefusedKept
  <2> QED BY <2>1, <2>3, <2>4
<1>10. ASSUME NEW c \in DOMAIN commands, RecordCommandVerdict(c)
       PROVE  RefusedStartFrees' /\ Aimed' /\ CloudKnowsTarget'
  <2>1. /\ CommandsKept
        /\ \A d \in DOMAIN commands : d # c => commands'[d] = commands[d]
        /\ commands'[c].verdict = commands[c].verdict /\ commands'[c].at = "done"
        /\ commands'[c].kind = commands[c].kind /\ commands'[c].target = commands[c].target
        /\ commands'[c].decided = commands[c].decided
        /\ commands'[c].status = "REJECTED" => commands[c].verdict = "REJECTED"
    BY <1>0, <1>10, RecordRows
  <2>2. /\ follow \subseteq follow' /\ lost' = lost /\ UNCHANGED <<state, target, since>>
        /\ UNCHANGED <<flying, aim>>
        /\ commands[c].verdict = "ACCEPTED" => c \in follow'
        /\ commands[c].verdict = "REJECTED" /\ commands[c].kind = "GOTO" => c \in follow'
    BY <1>10 DEF RecordCommandVerdict, StartNotRunStatuses, IsStartingGoto
  <2>3. RefusedStartFrees'
    BY <1>0, <2>1, <2>2 DEF RefusedStartFrees, IsStartingGoto, StartNotRunStatuses,
                            CommandsKept
  <2>4. flying # Nobody => aim \in DOMAIN commands
    BY <1>0 DEF Aimed, RowsInv, TypeOK
  <2>5. Aimed'
    BY <1>0, <2>1, <2>2, <2>4 DEF Aimed, CommandsKept
  <2>6. CloudKnowsTarget'
    <3>1. CASE aim = c
      BY <1>0, <2>2, <3>1 DEF CloudKnowsTarget, Aimed
    <3>2. CASE aim # c
      BY <1>0, <2>1, <2>2, <2>4, <3>2 DEF CloudKnowsTarget, Live
    <3> QED BY <3>1, <3>2
  <2> QED BY <2>3, <2>5, <2>6
<1>11. ASSUME NEW c \in DOMAIN commands, FollowVerdict(c)
       PROVE  RefusedStartFrees' /\ Aimed' /\ CloudKnowsTarget'
  <2> DEFINE m == commands[c].mission
  <2>1. /\ UNCHANGED <<commands, flying, aim>> /\ follow' = follow \ {c}
        /\ lost \subseteq lost'
    BY <1>11 DEF FollowVerdict, StartDwell, FailRefusedStart
  <2>2. m \in Missions
    BY <1>0, CommandRow DEF CommandRows
  <2>3. commands[c].status = "REJECTED" => state'[m] # "PREPARING"
    <3>1. CASE StartDwell(c)
      BY <1>0, <3>1 DEF StartDwell, RowsInv, Judged
    <3>2. CASE FailRefusedStart(c)
      BY <1>0, <2>2, <3>2 DEF FailRefusedStart, RowsInv, TypeOK
    <3> QED BY <1>11, <3>1, <3>2 DEF FollowVerdict
  <2>4. RefusedStartFrees'
    <3> SUFFICES ASSUME NEW d \in DOMAIN commands, d \notin follow' \cup lost',
                        commands[d].kind = "GOTO", commands[d].status = "REJECTED"
                 PROVE  state'[commands[d].mission] # "PREPARING"
      BY <2>1 DEF RefusedStartFrees, IsStartingGoto, StartNotRunStatuses
    <3>1. CASE d = c
      BY <2>3, <3>1
    <3>2. CASE d # c
      <4>1. state[commands[d].mission] # "PREPARING"
        BY <1>0, <2>1, <3>2 DEF RefusedStartFrees, IsStartingGoto, StartNotRunStatuses
      <4> QED BY <1>0, <4>1, NotPreparingAgain
    <3> QED BY <3>1, <3>2
  <2>5. Aimed'
    BY <1>0, <2>1 DEF Aimed
  <2>6. ASSUME flying # Nobody, state'[flying] \in LiveMissionStates
        PROVE  \/ /\ target'[flying] = commands[aim].target
                  /\ since'[flying] = commands[aim].decided
               \/ commands[aim].at = "answered"
               \/ aim \in follow' \cup lost'
    <3>1. /\ aim \in DOMAIN commands /\ aim # 0 /\ commands[aim].mission = flying
          /\ commands[aim].verdict = "ACCEPTED"
      BY <1>0, <2>6 DEF Aimed, RowsInv, TypeOK
    <3>2. Live(flying) /\ flying \in Missions
      BY <1>0, <2>6, <3>1, NotPreparingAgain
    <3>3. \/ target[flying] = commands[aim].target /\ since[flying] = commands[aim].decided
          \/ commands[aim].at = "answered"
          \/ aim \in follow \cup lost
      BY <1>0, <2>6, <3>2 DEF CloudKnowsTarget
    <3>4. CASE FailRefusedStart(c)
      <4>1. c # aim /\ UNCHANGED <<target, since>>
        BY <3>1, <3>4 DEF FailRefusedStart, StartNotRunStatuses
      <4> QED BY <2>1, <3>3, <4>1
    <3>5. CASE StartDwell(c) /\ m # flying
      <4>1. UNCHANGED <<target, since>> \/
              (target'[flying] = target[flying] /\ since'[flying] = since[flying])
        BY <1>0, <2>2, <3>2, <3>5 DEF StartDwell, RowsInv, TypeOK
      <4>2. c # aim
        BY <3>1, <3>5
      <4> QED BY <2>1, <3>3, <4>1, <4>2
    <3>6. CASE StartDwell(c) /\ c = aim
      BY <1>0, <3>1, <3>2, <3>6 DEF StartDwell, RowsInv, TypeOK
    <3>7. CASE StartDwell(c) /\ m = flying /\ c # aim
      <4>1. CASE Followed
        BY <3>7, <4>1 DEF StartDwell
      <4>2. CASE aim \in follow
        BY <2>1, <3>7, <4>2
      <4>3. CASE commands[aim].at # "done"
        BY <1>0, <2>6, <4>3 DEF Aimed
      <4> QED BY <3>1, <4>1, <4>2, <4>3 DEF Followed
    <3> QED BY <1>11, <3>1, <3>4, <3>5, <3>6, <3>7 DEF FollowVerdict
  <2>7. CloudKnowsTarget'
    BY <2>1, <2>6 DEF CloudKnowsTarget, Live
  <2> QED BY <2>4, <2>5, <2>7
<1> QED BY <1>1, <1>2, <1>3, <1>4, <1>5, <1>6, <1>7, <1>8, <1>9, <1>10, <1>11, <1>12
        DEF Next

-----------------------------------------------------------------------------
(* The theorems *)

\* The inductive invariant holds in every state of every behaviour.
LEMMA Invariance == Spec => []IInv
<1>1. Init => IInv
  <2> SUFFICES ASSUME Init PROVE IInv
    OBVIOUS
  <2> USE DEF Init
  <2>1. sessions \in Seq(SessionRows) /\ commands \in Seq(CommandRows)
    OBVIOUS
  <2>2. DOMAIN sessions = {} /\ DOMAIN commands = {} /\ Len(sessions) = 0
    OBVIOUS
  <2>3. \A m \in Missions : state[m] = "SCHEDULED"
    OBVIOUS
  <2>4. \A r \in Requests : requests[r] = Idle
    OBVIOUS
  <2>5. 0 \in 0..MaxClock /\ 0 \in 0..MaxFaults /\ 0 <= MaxSessions
    BY SessionsAssumption
  <2>6. TypeOK
    <3>1. requests \in [Requests -> RequestType]
      BY DEF RequestType
    <3>2. state \in [Missions -> MissionStates]
      BY DEF MissionStates
    <3>3. online \in BOOLEAN /\ rebooted \in BOOLEAN
      BY Zenon
    <3> QED BY <2>2, <2>5, <3>1, <3>2, <3>3 DEF TypeOK
  <2>7. Rows /\ Judged
    BY <2>1, <2>2, <2>5 DEF Rows, Judged
  <2>8. Started
    BY <2>2, <2>3, <2>4 DEF Started, Idle
  <2>9. Aimed /\ OneOpen /\ OneLive /\ RefusedStartFrees /\ CloudKnowsTarget
    BY <2>2, <2>3 DEF Aimed, OneOpen, OneLive, RefusedStartFrees, CloudKnowsTarget, Live,
                      LiveMissionStates
  <2> QED BY <2>6, <2>7, <2>8, <2>9 DEF IInv, RowsInv
<1>2. IInv /\ [Next]_vars => IInv'
  <2> SUFFICES ASSUME IInv, [Next]_vars PROVE IInv'
    OBVIOUS
  <2>1. RowsInv' /\ OneMoves
    BY StateStep DEF IInv
  <2>2. OneLive' /\ OneOpen'
    BY <2>1, OneLiveStep, OneOpenStep DEF IInv
  <2>3. RefusedStartFrees' /\ Aimed' /\ CloudKnowsTarget'
    BY <2>1, KnownStep
  <2> QED BY <2>1, <2>2, <2>3 DEF IInv
<1> QED BY <1>1, <1>2, PTL DEF Spec

\* For any missions, slots and bounds: at most one session at the observatory is
\* open, unexpired and on a live mission, and a mission whose start the agent
\* refused frees the telescope (session.ts, prisma-store.ts: failRefusedStart),
\* whatever requests, verdicts, sweeps, restarts and link losses cross.
THEOREM TelescopeAlways == Spec => []TelescopeIsFreeOrOwned
<1>1. IInv => TelescopeIsFreeOrOwned
  <2> SUFFICES ASSUME IInv PROVE TelescopeIsFreeOrOwned
    OBVIOUS
  <2>1. OneOwner
    <3> SUFFICES ASSUME NEW m \in Missions, NEW n \in Missions, Live(m), Live(n),
                        NEW i \in CurrentSessions(m), NEW j \in CurrentSessions(n)
                 PROVE  i = j
      BY DEF OneOwner
    <3>1. m = n
      BY DEF IInv, OneLive
    <3> QED BY <3>1 DEF IInv, OneOpen, CurrentSessions, OpenSessions
  <2> QED BY <2>1 DEF TelescopeIsFreeOrOwned, IInv, RowsInv
<1> QED BY <1>1, Invariance, PTL

\* For any missions, slots and bounds: the object and the start of the dwell lock
\* that the cloud shows (recordCommandVerdict's second transaction) are those of the
\* command the agent accepted last, except while that verdict is on its way, or when
\* its consequence was lost in a crash or undone by an older one.
THEOREM TargetAlwaysKnown == Spec => []CloudKnowsTarget
<1>1. IInv => CloudKnowsTarget
  BY DEF IInv
<1> QED BY <1>1, Invariance, PTL

\* Who has the telescope when the missions' states are st, and which missions are
\* over then.
UserOf(st) ==
  IF \E m \in Missions : st[m] \in LiveMissionStates
    THEN CHOOSE m \in Missions : st[m] \in LiveMissionStates ELSE Nobody

OverOf(st) ==
  {m \in Missions : st[m] \notin LiveMissionStates /\ st[m] # "SCHEDULED"}

\* The user is the live mission, if there is one.
LEMMA UserIsLive ==
  ASSUME NEW st,
         \A m, n \in Missions :
           st[m] \in LiveMissionStates /\ st[n] \in LiveMissionStates => m = n
  PROVE  /\ \A m \in Missions : st[m] \in LiveMissionStates <=> UserOf(st) = m
         /\ (\A m \in Missions : st[m] \notin LiveMissionStates) <=> UserOf(st) = Nobody
<1>1. CASE \E m \in Missions : st[m] \in LiveMissionStates
  <2>1. UserOf(st) \in Missions /\ st[UserOf(st)] \in LiveMissionStates
    BY <1>1 DEF UserOf
  <2> QED BY <1>1, <2>1, SessionsAssumption
<1>2. CASE ~\E m \in Missions : st[m] \in LiveMissionStates
  BY <1>2, SessionsAssumption DEF UserOf
<1> QED BY <1>1, <1>2

\* What one mission's move means for TelescopeUse.
LEMMA UseStep ==
  ASSUME RowsInv, OneLive, OneLive', OneMoves
  PROVE  [Use!Next]_(Use!vars)
<1> DEFINE u == UserOf(state) v == UserOf(state') o == OverOf(state) p == OverOf(state')
<1>a. ASSUME v = u, p = o
      PROVE  [Use!Next]_(Use!vars)
  BY <1>a DEF UserOf, OverOf, Use!vars, Live
<1>b. ASSUME u = Nobody, NEW m \in Missions, m \notin o, v = m, p = o
      PROVE  [Use!Next]_(Use!vars)
  BY <1>b DEF UserOf, OverOf, Use!Next, Use!Take, Live
<1>c. ASSUME u # Nobody, v = Nobody, p = o \cup {u}
      PROVE  [Use!Next]_(Use!vars)
  BY <1>c DEF UserOf, OverOf, Use!Next, Use!Release, Live
<1>d. ASSUME NEW m \in Missions, m # u, v = u, p = o \cup {m}
      PROVE  [Use!Next]_(Use!vars)
  BY <1>d DEF UserOf, OverOf, Use!Next, Use!GiveUp, Live
<1>e. /\ \A m \in Missions : state[m] \in LiveMissionStates <=> u = m
      /\ (\A m \in Missions : state[m] \notin LiveMissionStates) <=> u = Nobody
  BY UserIsLive DEF OneLive, Live
<1>f. /\ \A m \in Missions : state'[m] \in LiveMissionStates <=> v = m
      /\ (\A m \in Missions : state'[m] \notin LiveMissionStates) <=> v = Nobody
  BY UserIsLive DEF OneLive, Live
<1>1. CASE UNCHANGED state
  BY <1>1, <1>a
<1>2. ASSUME NEW m \in Missions, Moves(m), \A n \in Missions \ {m} : state'[n] = state[n]
      PROVE  [Use!Next]_(Use!vars)
  <2>o. o = {n \in Missions : state[n] \notin LiveMissionStates /\ state[n] # "SCHEDULED"}
    BY DEF OverOf
  <2>p. p = {n \in Missions : state'[n] \notin LiveMissionStates /\ state'[n] # "SCHEDULED"}
    BY DEF OverOf
  <2> HIDE DEF u, v, o, p
  <2>0. /\ EndedStates \cap LiveMissionStates = {} /\ "SCHEDULED" \notin EndedStates
        /\ "SCHEDULED" \notin LiveMissionStates /\ "PREPARING" \in LiveMissionStates
    BY DEF EndedStates, TerminalMissionStates, HoldMissionStates, LiveMissionStates
  <2>1. CASE state'[m] = state[m]
    <3>1. \A n \in Missions : state'[n] = state[n]
      BY <1>2, <2>1
    <3>2. p = o
      BY <3>1, <2>o, <2>p
    <3>3. v = u
      BY <3>1, <1>e, <1>f
    <3> QED BY <3>2, <3>3, <1>a
  <2>2. CASE /\ state[m] = "SCHEDULED" /\ state'[m] = "PREPARING"
             /\ \A n \in Missions : ~Live(n)
    <3>1. u = Nobody /\ v = m /\ m \notin o
      BY <2>0, <2>2, <2>o, <1>e, <1>f DEF Live
    <3>2. p = o
      BY <1>2, <2>0, <2>2, <2>o, <2>p
    <3> QED BY <3>1, <3>2, <1>b
  <2>3. CASE state[m] \in LiveMissionStates /\ state'[m] \in LiveMissionStates
    <3>1. v = u
      BY <2>3, <1>e, <1>f
    <3>2. p = o
      BY <1>2, <2>0, <2>3, <2>o, <2>p
    <3> QED BY <3>1, <3>2, <1>a
  <2>4. CASE state[m] \in LiveMissionStates /\ state'[m] \in EndedStates
    <3>1. u = m /\ \A n \in Missions : state'[n] \notin LiveMissionStates
      BY <1>2, <2>0, <2>4, <1>e
    <3>2. u # Nobody /\ v = Nobody
      BY <3>1, <1>f, SessionsAssumption
    <3>3. p = o \cup {u}
      BY <1>2, <2>0, <2>4, <2>o, <2>p, <3>1
    <3> QED BY <3>2, <3>3, <1>c
  <2>5. CASE state[m] \notin LiveMissionStates /\ state'[m] \in EndedStates
    <3>1. v = u /\ m # u
      <4>1. \A n \in Missions :
              state'[n] \in LiveMissionStates <=> state[n] \in LiveMissionStates
        BY <1>2, <2>0, <2>5
      <4>2. CASE \E n \in Missions : state[n] \in LiveMissionStates
        BY <4>1, <4>2, <2>5, <1>e, <1>f
      <4>3. CASE \A n \in Missions : state[n] \notin LiveMissionStates
        BY <4>1, <4>3, <1>e, <1>f, SessionsAssumption
      <4> QED BY <4>2, <4>3
    <3>2. CASE state[m] = "SCHEDULED"
      <4>1. p = o \cup {m}
        BY <1>2, <2>0, <2>5, <2>o, <2>p, <3>2
      <4> QED BY <3>1, <4>1, <1>d
    <3>3. CASE state[m] # "SCHEDULED"
      <4>1. p = o
        BY <1>2, <2>0, <2>5, <2>o, <2>p, <3>3
      <4> QED BY <3>1, <4>1, <1>a
    <3> QED BY <3>2, <3>3
  <2> QED BY <1>2, <2>1, <2>2, <2>3, <2>4, <2>5 DEF Moves, Live
<1> QED BY <1>1, <1>2 DEF OneMoves

\* The detailed system implements TelescopeUse: missions have the telescope one at a
\* time, and one that is over never gets it back (Mission_active_per_observatory_unique
\* and the transition tables, across starts, cancellations, sweeps and restarts).
THEOREM UseIsImplemented == Spec => UseSpec
<1>1. Init => Use!Init
  <2> SUFFICES ASSUME Init PROVE Use!Init
    OBVIOUS
  <2>1. \A m \in Missions : ~Live(m) /\ state[m] = "SCHEDULED"
    BY DEF Init, Live, LiveMissionStates
  <2> QED BY <2>1 DEF Use!Init
<1>2. IInv /\ IInv' /\ [Next]_vars => [Use!Next]_(Use!vars)
  <2> SUFFICES ASSUME IInv, IInv', [Next]_vars PROVE [Use!Next]_(Use!vars)
    OBVIOUS
  <2>1. RowsInv /\ Aimed /\ OneLive /\ OneLive'
    BY DEF IInv
  <2>2. OneMoves
    BY <2>1, StateStep
  <2> QED BY <2>1, <2>2, UseStep
<1> QED BY <1>1, <1>2, Invariance, PTL DEF Spec, UseSpec, Use!Spec

=============================================================================
