----------------------------- MODULE AgentLink -----------------------------
(***************************************************************************)
(* The link between one observatory's agent and the realtime service: the  *)
(* upgrade and the admission of a socket (server.ts, registry.ts), the     *)
(* hello (agent-link.ts), the heartbeat sweep, the writes of               *)
(* Observatory.status (prisma-store.ts), the closing of a link whose       *)
(* device token was changed, and the relay of the observatory's settings   *)
(* -- safety envelope, weather hold, approval -- by the notification       *)
(* listener and by the sweep a hello starts (agent-relay.ts,               *)
(* command-listener.ts).                                                   *)
(*                                                                         *)
(* A handler is cut at its awaits.  A socket that is gone and has no       *)
(* handler left is used again for a later connection.                      *)
(***************************************************************************)
EXTENDS Naturals, Sequences, FiniteSets

CONSTANTS
  Sockets,
  MaxChanges,      \* settings changed, and tokens changed
  MaxLinkFaults    \* sockets dropped, agents gone quiet, listeners lost

VARIABLES
  conn,       \* each socket, as the server has it
  alive,      \* sockets whose agent end is up
  link,       \* AgentLink.state of each socket
  hello,      \* how far the handling of its hello has come
  registered, \* the registry's link for the observatory, as a set
  quiet,      \* links with no message for the grace period
  status,     \* Observatory.status
  losses,     \* markLinkLost writes under way
  token, agentToken,  \* the token in force, and the agent's
  setting,    \* the version of the settings in the database
  told,       \* ... and the one the agent last heard
  listening, notices,  \* the listener and its queue
  relays,     \* settings read for a link and not yet sent
  linkFaults,
  crossed,    \* history: the end of one link overlapped another hello
  missed      \* history: a change was not notified, or its relays crossed

sockVars == <<conn, alive, link, hello, registered, quiet>>
statusVars == <<status, losses, crossed>>
tokenVars == <<token, agentToken>>
settingVars == <<setting, told, listening, notices, relays, missed>>
linkVars == <<sockVars, statusVars, tokenVars, settingVars, linkFaults>>

LinkStates == {"AWAITING_HELLO", "ONLINE", "CLOSED"}

LinkInit ==
  /\ conn = [s \in Sockets |-> "unused"] /\ alive = {}
  /\ link = [s \in Sockets |-> "AWAITING_HELLO"]
  /\ hello = [s \in Sockets |-> "unsent"]
  /\ registered = {} /\ quiet = {}
  /\ status = "OFFLINE" /\ losses = {} /\ crossed = FALSE
  /\ token = 0 /\ agentToken = 0
  /\ setting = 0 /\ told = 0
  /\ listening = TRUE /\ notices = <<>> /\ relays = {} /\ missed = FALSE
  /\ linkFaults = 0

-----------------------------------------------------------------------------
(* Connecting.                                                             *)

\* External: an agent without a connection dials.  authenticateAgent looks its
\* token up while the upgrade waits.
Upgrade(s) ==
  /\ alive = {}
  /\ conn[s] = "unused" /\ hello[s] = "unsent" /\ s \notin losses
  /\ agentToken = token
  /\ conn' = [conn EXCEPT ![s] = "upgrade"]
  /\ alive' = {s}
  /\ UNCHANGED <<link, hello, registered, quiet, statusVars, tokenVars,
                 settingVars, linkFaults>>

\* attach and registry.admit: the incumbent keeps the observatory.
Admit(s) ==
  /\ conn[s] = "upgrade"
  /\ IF registered = {}
     THEN /\ registered' = {s}
          /\ conn' = [conn EXCEPT ![s] = "open"]
          /\ link' = [link EXCEPT ![s] = "AWAITING_HELLO"]
          /\ UNCHANGED alive
     ELSE /\ conn' = [conn EXCEPT ![s] = "unused"]
          /\ alive' = alive \ {s}
          /\ UNCHANGED <<registered, link>>
  /\ UNCHANGED <<hello, quiet, statusVars, tokenVars, settingVars, linkFaults>>

\* terminate: the link is closed once, the socket's close event comes later.
Terminate(s) ==
  IF link[s] = "CLOSED" THEN UNCHANGED <<link, conn>>
  ELSE /\ link' = [link EXCEPT ![s] = "CLOSED"]
       /\ conn' = [conn EXCEPT ![s] = IF @ = "open" THEN "closing" ELSE @]

\* receive of a first message that is no hello of this observatory and version.
RefuseHello(s) ==
  /\ conn[s] = "open" /\ s \in alive
  /\ link[s] = "AWAITING_HELLO" /\ hello[s] = "unsent"
  /\ linkFaults < MaxLinkFaults /\ linkFaults' = linkFaults + 1
  /\ Terminate(s)
  /\ quiet' = quiet \ {s}
  /\ UNCHANGED <<alive, hello, registered, statusVars, tokenVars, settingVars>>

ReceiveHello(s) ==
  /\ conn[s] = "open" /\ s \in alive
  /\ link[s] = "AWAITING_HELLO" /\ hello[s] = "unsent"
  /\ hello' = [hello EXCEPT ![s] = "recording"]
  /\ quiet' = quiet \ {s}
  /\ UNCHANGED <<conn, alive, link, registered, statusVars, tokenVars,
                 settingVars, linkFaults>>

\* handleHello after its message is recorded: the link is online, whatever
\* became of it meanwhile.
HelloRecorded(s) ==
  /\ hello[s] = "recording"
  /\ link' = [link EXCEPT ![s] = "ONLINE"]
  /\ hello' = [hello EXCEPT ![s] = "marking"]
  /\ UNCHANGED <<conn, alive, registered, quiet, statusVars, tokenVars,
                 settingVars, linkFaults>>

\* Every relay of the sweep reads the row for the link registered then.
ReadFor(by) ==
  [by |-> by, to |-> registered, version |-> setting]

\* markLinkUp, and the sweep that a link which came online starts.
MarkLinkUp(s) ==
  /\ hello[s] = "marking"
  /\ status' = "ONLINE"
  /\ hello' = [hello EXCEPT ![s] = "done"]
  /\ crossed' = (crossed \/ losses # {} \/ s \notin registered)
  /\ relays' = IF link[s] = "ONLINE" /\ registered # {}
               THEN relays \cup {ReadFor("sweep")} ELSE relays
  /\ UNCHANGED <<conn, alive, link, registered, quiet, losses, tokenVars,
                 setting, told, listening, notices, missed, linkFaults>>

\* A heartbeat, or anything else an agent says.
Heartbeat(s) ==
  /\ conn[s] = "open" /\ s \in alive /\ link[s] = "ONLINE"
  /\ quiet' = quiet \ {s}
  /\ UNCHANGED <<conn, alive, link, hello, registered, statusVars, tokenVars,
                 settingVars, linkFaults>>

-----------------------------------------------------------------------------
(* Losing the link.                                                        *)

\* External: the agent's end of a socket is gone; the server is not told.
AgentDrops(s) ==
  /\ s \in alive /\ conn[s] # "upgrade"
  /\ linkFaults < MaxLinkFaults /\ linkFaults' = linkFaults + 1
  /\ alive' = alive \ {s}
  /\ UNCHANGED <<conn, link, hello, registered, quiet, statusVars, tokenVars,
                 settingVars>>

\* The grace period passes without a message: always for a socket whose agent
\* is gone or has not been heard, seldom for one that stalls.
GoesQuiet(s) ==
  /\ s \in registered \ quiet
  /\ \/ s \notin alive /\ UNCHANGED linkFaults
     \/ s \in alive /\ linkFaults < MaxLinkFaults /\ linkFaults' = linkFaults + 1
  /\ quiet' = quiet \cup {s}
  /\ UNCHANGED <<conn, alive, link, hello, registered, statusVars, tokenVars,
                 settingVars>>

\* A plausible slip: only a link that has said hello can be silent.
ExpireOnline(s) ==
  /\ s \in registered \cap quiet /\ link[s] = "ONLINE"
  /\ registered' = {}
  /\ Terminate(s)
  /\ losses' = losses \cup {s}
  /\ crossed' = (crossed \/ \E t \in Sockets : hello[t] \in {"recording", "marking"})
  /\ UNCHANGED <<alive, hello, quiet, status, tokenVars, settingVars, linkFaults>>

\* registry.expireSilent and expire: the observatory is freed at once, the loss
\* is written by a statement of its own.
ExpireSilent(s) ==
  /\ s \in registered \cap quiet
  /\ registered' = {}
  /\ Terminate(s)
  /\ losses' = losses \cup {s}
  /\ crossed' = (crossed \/ \E t \in Sockets : hello[t] \in {"recording", "marking"})
  /\ UNCHANGED <<alive, hello, quiet, status, tokenVars, settingVars, linkFaults>>

\* The close event of a socket either side has closed: registry.release frees
\* only its own link, the loss is written whoever holds the observatory now.
CloseEvent(s) ==
  /\ conn[s] = "closing" \/ (conn[s] = "open" /\ s \notin alive)
  /\ s \notin losses
  /\ conn' = [conn EXCEPT ![s] = "gone"]
  /\ alive' = alive \ {s}
  /\ registered' = registered \ {s}
  /\ quiet' = quiet \ {s}
  /\ losses' = losses \cup {s}
  /\ crossed' = (\/ crossed \/ registered \ {s} # {}
                 \/ \E t \in Sockets : hello[t] \in {"recording", "marking"})
  /\ UNCHANGED <<link, hello, status, tokenVars, settingVars, linkFaults>>

\* A plausible slip: the loss is logged and the status left to the next hello.
LogLinkLost(s) ==
  /\ s \in losses
  /\ losses' = losses \ {s}
  /\ crossed' = (crossed \/ \E t \in registered : hello[t] # "unsent")
  /\ UNCHANGED <<sockVars, status, tokenVars, settingVars, linkFaults>>

\* markLinkLost.
MarkLinkLost(s) ==
  /\ s \in losses
  /\ losses' = losses \ {s}
  /\ status' = "OFFLINE"
  /\ crossed' = (crossed \/ \E t \in registered : hello[t] # "unsent")
  /\ UNCHANGED <<sockVars, tokenVars, settingVars, linkFaults>>

\* A socket that is gone leaves nothing behind.
Forget(s) ==
  /\ conn[s] = "gone" /\ s \notin losses /\ hello[s] \in {"unsent", "done"}
  /\ \A r \in relays : s \notin r.to
  /\ conn' = [conn EXCEPT ![s] = "unused"]
  /\ link' = [link EXCEPT ![s] = "AWAITING_HELLO"]
  /\ hello' = [hello EXCEPT ![s] = "unsent"]
  /\ UNCHANGED <<alive, registered, quiet, statusVars, tokenVars,
                 settingVars, linkFaults>>

-----------------------------------------------------------------------------
(* Settings, tokens and their notifications.                               *)

Notify(kind) == notices' = IF listening THEN Append(notices, kind) ELSE notices

\* The API saves an envelope, a weather state or an approval and notifies.
ChangeSetting ==
  /\ setting < MaxChanges
  /\ setting' = setting + 1
  /\ Notify("SETTING")
  /\ missed' = (missed \/ ~listening)
  /\ UNCHANGED <<sockVars, statusVars, tokenVars, told, listening, relays, linkFaults>>

\* rotate or revoke a device token; an operator brings a new one to the agent.
ChangeToken ==
  /\ token < MaxChanges
  /\ token' = token + 1
  /\ Notify("CREDENTIAL")
  /\ UNCHANGED <<sockVars, statusVars, agentToken, setting, told,
                 listening, relays, missed, linkFaults>>

InstallToken ==
  /\ agentToken # token
  /\ agentToken' = token
  /\ UNCHANGED <<sockVars, statusVars, token, settingVars, linkFaults>>

ListenerDrops ==
  /\ listening
  /\ linkFaults < MaxLinkFaults /\ linkFaults' = linkFaults + 1
  /\ listening' = FALSE
  /\ UNCHANGED <<sockVars, statusVars, tokenVars, setting, told, notices,
                 relays, missed>>

\* scheduleReconnect and connect: the server gives the listener nothing to do
\* once it is connected again.
ListenerConnects ==
  /\ ~listening
  /\ listening' = TRUE
  /\ UNCHANGED <<sockVars, statusVars, tokenVars, setting, told, notices,
                 relays, missed, linkFaults>>

\* The listener handles one notification at a time; a setting is read for the
\* link registered now.
HandleSetting ==
  /\ notices # <<>> /\ Head(notices) = "SETTING"
  /\ \A r \in relays : r.by # "listener"
  /\ notices' = Tail(notices)
  /\ relays' = IF registered = {} THEN relays
               ELSE relays \cup {ReadFor("listener")}
  /\ UNCHANGED <<sockVars, statusVars, tokenVars, setting, told, listening,
                 missed, linkFaults>>

\* closeForCredentialChange: whatever link there is, is closed.
CloseForCredentialChange ==
  /\ notices # <<>> /\ Head(notices) = "CREDENTIAL"
  /\ \A r \in relays : r.by # "listener"
  /\ notices' = Tail(notices)
  /\ IF registered = {} THEN UNCHANGED <<link, conn>>
     ELSE \A s \in registered : Terminate(s)
  /\ UNCHANGED <<alive, hello, registered, quiet, statusVars, tokenVars,
                 setting, told, listening, relays, missed, linkFaults>>

\* A plausible slip: the listener waits for the agent's hello sweep and drops
\* its own reading.
DropRead(r) ==
  /\ relays' = relays \ {r}
  /\ told' = IF /\ r.by # "listener"
                /\ \E s \in r.to : link[s] = "ONLINE" /\ conn[s] = "open" /\ s \in alive
             THEN r.version ELSE told
  /\ missed' = (missed \/ \E q \in relays : q.version # r.version)
  /\ UNCHANGED <<sockVars, statusVars, tokenVars, setting, listening, notices, linkFaults>>

\* dispatch of what was read, to the link it was read for: an agent whose end
\* is up takes it, whichever version it has.
Dispatch(r) ==
  /\ relays' = relays \ {r}
  /\ told' = IF \E s \in r.to : link[s] = "ONLINE" /\ conn[s] = "open" /\ s \in alive
             THEN r.version ELSE told
  /\ missed' = (missed \/ \E q \in relays : q.version # r.version)
  /\ UNCHANGED <<sockVars, statusVars, tokenVars, setting, listening, notices, linkFaults>>

-----------------------------------------------------------------------------
LinkNext ==
  \/ \E s \in Sockets :
       \/ Upgrade(s) \/ Admit(s) \/ RefuseHello(s) \/ ReceiveHello(s)
       \/ HelloRecorded(s) \/ MarkLinkUp(s) \/ Heartbeat(s)
       \/ AgentDrops(s) \/ GoesQuiet(s) \/ ExpireSilent(s) \/ CloseEvent(s)
       \/ MarkLinkLost(s) \/ Forget(s)
  \/ ChangeSetting \/ ChangeToken \/ InstallToken
  \/ ListenerDrops \/ ListenerConnects
  \/ HandleSetting \/ CloseForCredentialChange
  \/ \E r \in relays : Dispatch(r)

LinkSpec == LinkInit /\ [][LinkNext]_linkVars

\* The service's timers and handlers run, the listener reconnects, a token is
\* installed in the end, and an agent without a connection keeps dialling.
LinkFairness ==
  /\ \A s \in Sockets :
       /\ WF_linkVars(Admit(s)) /\ WF_linkVars(ReceiveHello(s))
       /\ WF_linkVars(HelloRecorded(s)) /\ WF_linkVars(MarkLinkUp(s))
       /\ WF_linkVars(Heartbeat(s)) /\ WF_linkVars(GoesQuiet(s) /\ s \notin alive)
       /\ WF_linkVars(ExpireSilent(s) /\ s \notin alive)
       /\ WF_linkVars(CloseEvent(s) /\ conn[s] = "closing")
       /\ WF_linkVars(MarkLinkLost(s)) /\ WF_linkVars(Forget(s))
  /\ WF_linkVars(\E s \in Sockets : Upgrade(s))
  /\ WF_linkVars(InstallToken) /\ WF_linkVars(ListenerConnects)
  /\ WF_linkVars(HandleSetting) /\ WF_linkVars(CloseForCredentialChange)
  /\ WF_linkVars(\E r \in relays : Dispatch(r))

LinkFairSpec == LinkSpec /\ LinkFairness

-----------------------------------------------------------------------------
(* Properties.                                                             *)

\* Every variable has its shape, and a link whose hello was taken is no
\* longer waiting for one.
LinkTypeOK ==
  /\ conn \in [Sockets -> {"unused", "upgrade", "open", "closing", "gone"}]
  /\ link \in [Sockets -> LinkStates]
  /\ hello \in [Sockets -> {"unsent", "recording", "marking", "done"}]
  /\ registered \cup alive \cup quiet \cup losses \subseteq Sockets
  /\ Cardinality(registered) <= 1 /\ Cardinality(alive) <= 1
  /\ status \in {"ONLINE", "OFFLINE"}
  /\ \A r \in relays : r.to \subseteq Sockets /\ r.version <= setting
  /\ agentToken <= token /\ told <= setting
  /\ \A s \in Sockets :
       hello[s] \in {"marking", "done"} => link[s] # "AWAITING_HELLO"

\* Two sockets are never both served, and none that is gone keeps its place:
\* one the registry does not hold is closed or closing, and one it holds will
\* still have its close event, however late handlers and events come.
OneAgentServed ==
  /\ \A s \in Sockets : conn[s] = "open" => registered = {s}
  /\ \A s \in registered : conn[s] \in {"open", "closing"}

\* When no write is under way and no link's end overlapped a hello, the status
\* customers and operators read is that of the link.
StatusFollowsLink ==
  losses = {} /\ ~crossed /\ (\A s \in Sockets : hello[s] # "marking")
    => /\ status = "ONLINE" => \E s \in registered : hello[s] = "done"
       /\ (\E s \in registered : hello[s] = "done") => status = "ONLINE"

\* The cloud serves one agent, and says truly whether it does.
LinkIsKnown == LinkTypeOK /\ OneAgentServed /\ StatusFollowsLink

\* An agent that stayed connected and missed no notification holds the
\* settings the database holds, hello sweep and listener together.
SettingsInStep ==
  ~missed /\ notices = <<>> /\ relays = {}
    => \A s \in registered :
         hello[s] = "done" /\ conn[s] = "open" /\ s \in alive => told = setting

\* A half-open or refused link never locks the agent out for good: with a
\* finite number of faults it ends up online.
AgentGetsIn ==
  <>[](\E s \in registered : s \in alive /\ link[s] = "ONLINE")

=============================================================================
