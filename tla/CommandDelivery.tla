-------------------------- MODULE CommandDelivery --------------------------
(***************************************************************************)
(* One command's way from the row the API mints to the mount and back:     *)
(*                                                                         *)
(*   the realtime service relays rows (agent-relay.ts, command-listener.ts *)
(*   and the pending sweep of server.ts), the agent decides, records and   *)
(*   performs them (validator.py, store.py, Supervisor._handle_command),   *)
(*   and the verdicts come back through the agent's outbound queue         *)
(*   (session.py, queue.py) to the row (agent-link.ts, prisma-store.ts).   *)
(*                                                                         *)
(* What a command does and why it is refused are abstracted.  The link may *)
(* drop, either process may die between any two of its writes, and a store *)
(* may refuse a write; each of these is a fault, and faults are counted.   *)
(***************************************************************************)
EXTENDS Naturals, Sequences, Functions

CONSTANTS
  Commands,       \* the commands minted in a behaviour
  NoCommand,      \* stands for none of them
  MaxFaults       \* faults in one behaviour

ASSUME DeliveryAssumption == NoCommand \notin Commands /\ MaxFaults \in Nat

Relayers == {"listener", "sweep"}

\* The agent's verdicts, and the statuses of a row.
Verdicts == {"ACCEPTED", "REJECTED", "EXPIRED", "DUPLICATE"}
TerminalStatuses == {"REJECTED", "EXPIRED"}
Statuses == {"none", "RECEIVED", "EXECUTING"} \cup TerminalStatuses

VARIABLES
  \* the cloud's database
  status, relayed,  \* of each command's row; "none" before it is minted
  result,           \* the verdict written on the row, "none" before
  recorded,         \* AgentMessage: ids of the agent messages recorded
  \* the realtime process
  notices,          \* NOTIFY payloads not yet relayed
  todo, sent,       \* of each relayer: rows to relay, the one just dispatched
  applying,         \* agent messages recorded and not yet applied
  \* the link
  online, toAgent, toCloud,
  \* the agent's state store
  seen,             \* seen_command: no row, an "open" one or a "closed" one
  \* the agent process
  inbox,            \* what this pass took from the link
  step, verdict,    \* how far _handle_command is with the first of it
  outbox, nextId,   \* the outbound queue; message ids used
  \* time, faults and history
  expired, faults,
  executed,         \* times each command was carried out
  forgotten,        \* those of them a restart has no record of
  lost              \* commands that, or whose answers, were lost on the way

cloudVars == <<status, relayed, result, recorded>>
realtimeVars == <<notices, todo, sent, applying>>
linkVars == <<online, toAgent, toCloud>>
agentVars == <<seen, inbox, step, verdict, outbox, nextId>>
historyVars == <<executed, forgotten, lost>>

vars == <<cloudVars, realtimeVars, linkVars, agentVars, expired, faults,
          historyVars>>

Acks == [id : Nat, command : Commands, verdict : Verdicts]

CloudTypeOK ==
  /\ status \in [Commands -> Statuses]
  /\ relayed \in [Commands -> BOOLEAN]
  /\ result \in [Commands -> Verdicts \cup {"none"}]
  /\ recorded \in SUBSET Nat
  /\ notices \in SUBSET Commands
  /\ todo \in [Relayers -> SUBSET Commands]
  /\ sent \in [Relayers -> Commands \cup {NoCommand}]
  /\ applying \in SUBSET Acks

LinkTypeOK ==
  /\ online \in BOOLEAN
  /\ toAgent \in Seq(Commands)
  /\ toCloud \in Seq(Acks)

AgentTypeOK ==
  /\ seen \in [Commands -> {"none", "open", "closed"}]
  /\ inbox \in Seq(Commands)
  /\ step \in {"idle", "decided", "acted", "closed"}
  /\ step # "idle" => inbox # <<>>
  /\ verdict \in Verdicts
  /\ outbox \in Seq(Acks)
  /\ nextId \in Nat

HistoryTypeOK ==
  /\ expired \in [Commands -> BOOLEAN]
  /\ faults \in 0..MaxFaults
  /\ executed \in [Commands -> Nat]
  /\ forgotten \in [Commands -> Nat]
  /\ lost \in SUBSET Commands

\* Every variable keeps its type: a row's status is one recordCommandVerdict and
\* markCommandRelayed write, and the agent handles one command at a time.
TypeOK == CloudTypeOK /\ LinkTypeOK /\ AgentTypeOK /\ HistoryTypeOK

Init ==
  /\ status = [c \in Commands |-> "none"]
  /\ relayed = [c \in Commands |-> FALSE]
  /\ result = [c \in Commands |-> "none"]
  /\ recorded = {} /\ notices = {} /\ applying = {}
  /\ todo = [r \in Relayers |-> {}]
  /\ sent = [r \in Relayers |-> NoCommand]
  /\ online = TRUE /\ toAgent = <<>> /\ toCloud = <<>>
  /\ seen = [c \in Commands |-> "none"]
  /\ inbox = <<>> /\ step = "idle" /\ verdict = "DUPLICATE"
  /\ outbox = <<>> /\ nextId = 0
  /\ expired = [c \in Commands |-> FALSE]
  /\ faults = 0
  /\ executed = [c \in Commands |-> 0]
  /\ forgotten = [c \in Commands |-> 0]
  /\ lost = {}

\* A fault, and the commands whose last trace it may take with it.
Fault(losing) ==
  /\ faults < MaxFaults /\ faults' = faults + 1
  /\ lost' = lost \cup losing

OnTheWire == Range(toAgent) \cup {a.command : a \in Range(toCloud)}

-----------------------------------------------------------------------------
(* The cloud: minting and relaying *)

\* The API writes the row and notifies in one transaction.  A NOTIFY reaches no
\* listener that is reconnecting at that instant.
Mint(c) ==
  /\ status[c] = "none"
  /\ status' = [status EXCEPT ![c] = "RECEIVED"]
  /\ notices' \in {notices, notices \cup {c}}
  /\ UNCHANGED <<relayed, result, recorded, todo, sent, applying, linkVars,
                 agentVars, expired, faults, historyVars>>

\* COMMAND_TTL_SECONDS have passed.
Expire(c) ==
  /\ status[c] # "none" /\ ~expired[c]
  /\ expired' = [expired EXCEPT ![c] = TRUE]
  /\ UNCHANGED <<cloudVars, realtimeVars, linkVars, agentVars, faults,
                 historyVars>>

\* A relayer begins: the listener with a notice, the sweep with what it reads.
BeginRelay(r, commands) ==
  /\ todo[r] = {} /\ sent[r] = NoCommand
  /\ todo' = [todo EXCEPT ![r] = commands]
  /\ UNCHANGED <<cloudVars, sent, applying, linkVars, agentVars, expired,
                 faults, historyVars>>

\* CommandListener.enqueue: one notification at a time.
TakeNotice ==
  \E c \in notices : BeginRelay("listener", {c}) /\ notices' = notices \ {c}

\* Mutant: the comparison with expiresAt is the wrong way round.
PendingPast ==
  {c \in Commands : status[c] # "none" /\ ~relayed[c] /\ expired[c]}

\* pendingCommands
Pending ==
  {c \in Commands : status[c] # "none" /\ ~relayed[c] /\ ~expired[c]}

\* sweepPendingCommands, on a timer and when the agent comes online
Sweep == Pending # {} /\ BeginRelay("sweep", Pending) /\ UNCHANGED notices

\* relayCommand up to dispatch: sent if there is a link, left for the sweep if
\* there is none.  The row was read before; another relayer may have it too.
Dispatch(r) ==
  \E c \in todo[r] :
    /\ sent[r] = NoCommand
    /\ todo' = [todo EXCEPT ![r] = @ \ {c}]
    /\ \/ /\ online
          /\ toAgent' = Append(toAgent, c)
          /\ sent' = [sent EXCEPT ![r] = c]
       \/ /\ ~online
          /\ UNCHANGED <<toAgent, sent>>
    /\ UNCHANGED <<cloudVars, notices, applying, online, toCloud, agentVars,
                   expired, faults, historyVars>>

\* markCommandRelayed, whatever has become of the row since.
MarkRelayed(r) ==
  /\ sent[r] # NoCommand
  /\ relayed' = [relayed EXCEPT ![sent[r]] = TRUE]
  /\ status' = [status EXCEPT ![sent[r]] = "EXECUTING"]
  /\ sent' = [sent EXCEPT ![r] = NoCommand]
  /\ UNCHANGED <<result, recorded, notices, todo, applying, linkVars,
                 agentVars, expired, faults, historyVars>>

\* The database refuses the mark: the relayer gives up on the rest as well.
MarkFails(r) ==
  /\ sent[r] # NoCommand /\ Fault({})
  /\ sent' = [sent EXCEPT ![r] = NoCommand]
  /\ todo' = [todo EXCEPT ![r] = {}]
  /\ UNCHANGED <<cloudVars, notices, applying, linkVars, agentVars, expired,
                 executed, forgotten>>

-----------------------------------------------------------------------------
(* The agent: deciding, performing, recording, answering *)

\* take_received: everything that has arrived is this pass's.
TakeReceived ==
  /\ inbox = <<>> /\ toAgent # <<>>
  /\ inbox' = toAgent /\ toAgent' = <<>>
  /\ UNCHANGED <<cloudVars, realtimeVars, online, toCloud, seen, step, verdict,
                 outbox, nextId, expired, faults, historyVars>>

\* validate, a command it has no record of: judged, then remembered
Decide(c) ==
  /\ \/ expired[c] /\ verdict' = "EXPIRED" /\ step' = "acted"
     \/ ~expired[c] /\ verdict' = "REJECTED" /\ step' = "acted"
     \/ ~expired[c] /\ verdict' = "ACCEPTED" /\ step' = "decided"
  /\ seen' = [seen EXCEPT ![c] = "open"]

\* validate
Validate ==
  /\ inbox # <<>> /\ step = "idle"
  /\ \/ /\ seen[Head(inbox)] # "none"
        /\ verdict' = "DUPLICATE" /\ step' = "acted"
        /\ UNCHANGED seen
     \/ /\ seen[Head(inbox)] = "none"
        /\ Decide(Head(inbox))
  /\ UNCHANGED <<cloudVars, realtimeVars, linkVars, inbox, outbox, nextId,
                 expired, faults, historyVars>>

\* Mutant: a command that could not be carried out is reported as accepted.
ExecuteUndowngraded ==
  /\ step = "decided" /\ step' = "acted"
  /\ executed' \in {executed, [executed EXCEPT ![Head(inbox)] = @ + 1]}
  /\ UNCHANGED <<cloudVars, realtimeVars, linkVars, seen, inbox, verdict,
                 outbox, nextId, expired, faults, forgotten, lost>>

\* _execute: carried out; refused by the state the observatory is in; or begun
\* and stopped by a device fault.  The ack is downgraded unless it went through.
Execute ==
  /\ step = "decided" /\ step' = "acted"
  /\ \/ /\ executed' = [executed EXCEPT ![Head(inbox)] = @ + 1]
        /\ verdict' \in {"ACCEPTED", "REJECTED"}
     \/ /\ verdict' = "REJECTED"
        /\ UNCHANGED executed
  /\ UNCHANGED <<cloudVars, realtimeVars, linkVars, seen, inbox, outbox,
                 nextId, expired, faults, forgotten, lost>>

\* Mutant: the row is left open.
MarkNothing ==
  /\ step = "acted" /\ step' = "closed"
  /\ UNCHANGED <<cloudVars, realtimeVars, linkVars, seen, inbox, verdict,
                 outbox, nextId, expired, faults, historyVars>>

\* mark_executed closes the row if it is open, a duplicate's too.
MarkExecuted ==
  /\ step = "acted" /\ step' = "closed"
  /\ seen' = [seen EXCEPT ![Head(inbox)] = "closed"]
  /\ UNCHANGED <<cloudVars, realtimeVars, linkVars, inbox, verdict, outbox,
                 nextId, expired, faults, historyVars>>

\* The ack is queued, always.
Answer ==
  /\ step = "closed" /\ step' = "idle"
  /\ outbox' = Append(outbox, [id |-> nextId, command |-> Head(inbox),
                               verdict |-> verdict])
  /\ nextId' = nextId + 1
  /\ inbox' = Tail(inbox)
  /\ UNCHANGED <<cloudVars, realtimeVars, linkVars, seen, verdict, expired,
                 faults, historyVars>>

\* The state store refuses a write: the pass is abandoned, and with it the rest
\* of what it had received.
PassRaises ==
  /\ inbox # <<>> /\ Fault(Range(inbox))
  /\ inbox' = <<>> /\ step' = "idle"
  /\ UNCHANGED <<cloudVars, realtimeVars, linkVars, seen, verdict, outbox,
                 nextId, expired, executed, forgotten>>

\* _drain: sent, then removed
Drain ==
  /\ online /\ outbox # <<>>
  /\ toCloud' = Append(toCloud, Head(outbox)) /\ outbox' = Tail(outbox)
  /\ UNCHANGED <<cloudVars, realtimeVars, online, toAgent, seen, inbox, step,
                 verdict, nextId, expired, faults, historyVars>>

\* The send raises: the message may have gone, and is kept for the next link.
DrainFails ==
  /\ online /\ outbox # <<>> /\ Fault(Range(toAgent))
  /\ toCloud' \in {toCloud, Append(toCloud, Head(outbox))}
  /\ online' = FALSE /\ toAgent' = <<>>
  /\ UNCHANGED <<cloudVars, realtimeVars, agentVars, expired, executed,
                 forgotten>>

-----------------------------------------------------------------------------
(* The cloud: the answer *)

\* receive: recorded first, applied only if it was not known.  The socket does
\* not wait for one message to be applied before it hands over the next.
Record ==
  /\ toCloud # <<>> /\ toCloud' = Tail(toCloud)
  /\ recorded' = recorded \cup {Head(toCloud).id}
  /\ applying' = IF Head(toCloud).id \in recorded THEN applying
                 ELSE applying \cup {Head(toCloud)}
  /\ UNCHANGED <<status, relayed, result, notices, todo, sent, online, toAgent,
                 agentVars, expired, faults, historyVars>>

\* COMMAND_STATUS_FOR; a duplicate is not news.
StatusFor == [ACCEPTED |-> "EXECUTING", REJECTED |-> "REJECTED",
              EXPIRED |-> "EXPIRED"]

\* recordCommandVerdict: a row that has its final answer keeps it.
ApplyAck(a) ==
  /\ applying' = applying \ {a}
  /\ IF a.verdict = "DUPLICATE" \/ status[a.command] \in TerminalStatuses
       THEN UNCHANGED <<status, result>>
       ELSE /\ status' = [status EXCEPT ![a.command] = StatusFor[a.verdict]]
            /\ result' = [result EXCEPT ![a.command] = a.verdict]
  /\ UNCHANGED <<relayed, recorded, notices, todo, sent, linkVars, agentVars,
                 expired, faults, historyVars>>

\* The database refuses the update of a message already recorded.
ApplyFails(a) ==
  /\ Fault({a.command})
  /\ applying' = applying \ {a}
  /\ UNCHANGED <<cloudVars, notices, todo, sent, linkVars, agentVars, expired,
                 executed, forgotten>>

-----------------------------------------------------------------------------
(* The link and the two processes going down *)

\* What was on the wire is lost; the queues of both ends are kept.
LinkDrops ==
  /\ online /\ Fault(OnTheWire)
  /\ online' = FALSE /\ toAgent' = <<>> /\ toCloud' = <<>>
  /\ UNCHANGED <<cloudVars, realtimeVars, agentVars, expired, executed,
                 forgotten>>

Connect ==
  /\ ~online /\ online' = TRUE
  /\ UNCHANGED <<cloudVars, realtimeVars, toAgent, toCloud, agentVars, expired,
                 faults, historyVars>>

RealtimeRestarts ==
  /\ Fault(OnTheWire \cup {a.command : a \in applying})
  /\ notices' = {} /\ applying' = {}
  /\ todo' = [r \in Relayers |-> {}]
  /\ sent' = [r \in Relayers |-> NoCommand]
  /\ online' = FALSE /\ toAgent' = <<>> /\ toCloud' = <<>>
  /\ UNCHANGED <<cloudVars, agentVars, expired, executed, forgotten>>

\* Mutant: a restart forgets every command.
ForgetAll == [c \in Commands |-> "none"]

\* _forget_unexecuted_commands: the rows left open are dropped.
ForgetUnexecuted ==
  [c \in Commands |-> IF seen[c] = "open" THEN "none" ELSE seen[c]]

AgentRestarts ==
  /\ Fault(OnTheWire \cup Range(inbox) \cup {a.command : a \in Range(outbox)})
  /\ seen' = ForgetUnexecuted
  /\ forgotten' =
       [c \in Commands |-> IF seen[c] = "open" THEN executed[c]
                           ELSE forgotten[c]]
  /\ inbox' = <<>> /\ step' = "idle" /\ outbox' = <<>>
  /\ online' = FALSE /\ toAgent' = <<>> /\ toCloud' = <<>>
  /\ UNCHANGED <<cloudVars, realtimeVars, verdict, nextId, expired, executed>>

-----------------------------------------------------------------------------
Relay == TakeNotice \/ Sweep \/ \E r \in Relayers : Dispatch(r) \/ MarkRelayed(r)

Handle == TakeReceived \/ Validate \/ Execute \/ MarkExecuted \/ Answer \/ Drain

Settle == Record \/ \E a \in applying : ApplyAck(a)

Faults ==
  \/ PassRaises \/ DrainFails \/ LinkDrops \/ RealtimeRestarts \/ AgentRestarts
  \/ \E r \in Relayers : MarkFails(r)
  \/ \E a \in applying : ApplyFails(a)

Next ==
  \/ \E c \in Commands : Mint(c) \/ Expire(c)
  \/ Relay \/ Handle \/ Settle \/ Connect \/ Faults

Spec == Init /\ [][Next]_vars

\* Both processes keep running, the sweep's timer and the agent's re-dial
\* included.  No command needs to be minted, none needs to expire in time.
Fairness ==
  /\ \A r \in Relayers : WF_vars(Dispatch(r)) /\ WF_vars(MarkRelayed(r))
  /\ WF_vars(TakeNotice) /\ WF_vars(Sweep)
  /\ WF_vars(Handle) /\ WF_vars(Settle) /\ WF_vars(Connect)

FairSpec == Spec /\ Fairness

-----------------------------------------------------------------------------
(* What makes the delivery correct *)

\* Retries, replays, duplicates and restarts never make the agent carry a
\* command out again, but for the executions a restart has no record of.
RepeatsOnlyWhatWasForgotten ==
  \A c \in Commands : executed[c] <= 1 + forgotten[c]

\* An ACCEPTED on the row means the command was carried out: no later refusal,
\* duplicate or loss in between makes the row say so of one that was not.
AcceptedWasExecuted ==
  \A c \in Commands : result[c] = "ACCEPTED" => executed[c] > 0

\* The agent's answer to a command is its last word: redelivered, replayed or
\* repeated across restarts, the command never gets a second, different one.
AnswerIsKept ==
  [][\A c \in Commands : result[c] # "none" => result'[c] = result[c]]_vars

\* A minted command is answered whatever fails, lost NOTIFYs, refused marks and
\* restarts included: unless it runs out first, or a copy of it or its answer
\* was lost on the way.
CommandIsAnswered ==
  \A c \in Commands :
    status[c] # "none" ~> result[c] # "none" \/ expired[c] \/ c \in lost

=============================================================================
