----------------------- MODULE CommandDelivery_proofs -----------------------
(***************************************************************************)
(* Proofs about CommandDelivery, for every set of commands and every number *)
(* of faults.  Three layers: the types; what the agent's record of a command*)
(* says about how often it was carried out; and what the answers on their   *)
(* way to the cloud say about that record.                                  *)
(***************************************************************************)
EXTENDS CommandDelivery, TLAPS

-----------------------------------------------------------------------------
(* Sequences *)

\* Appending adds one element to what a sequence holds.
LEMMA RangeAppend ==
  ASSUME NEW S, NEW s \in Seq(S), NEW e \in S
  PROVE  Range(Append(s, e)) = Range(s) \cup {e}
<1> DEFINE t == Append(s, e)
<1>1. /\ DOMAIN s = 1..Len(s) /\ Len(s) \in Nat
      /\ DOMAIN t = 1..(Len(s) + 1)
      /\ t[Len(s) + 1] = e
      /\ \A i \in 1..Len(s) : t[i] = s[i]
  OBVIOUS
<1>2. Range(t) \subseteq Range(s) \cup {e}
  <2> SUFFICES ASSUME NEW i \in DOMAIN t PROVE t[i] \in Range(s) \cup {e}
    BY DEF Range
  <2>1. i = Len(s) + 1 \/ i \in 1..Len(s)
    BY <1>1
  <2> QED BY <1>1, <2>1 DEF Range
<1>3. Range(s) \subseteq Range(t)
  <2> SUFFICES ASSUME NEW i \in DOMAIN s PROVE s[i] \in Range(t)
    BY DEF Range
  <2>1. i \in DOMAIN t /\ t[i] = s[i]
    BY <1>1
  <2> QED BY <2>1 DEF Range
<1>4. e \in Range(t)
  <2>1. Len(s) + 1 \in DOMAIN t
    BY <1>1
  <2> QED BY <1>1, <2>1 DEF Range
<1> QED BY <1>2, <1>3, <1>4

\* The head is an element, and the tail holds no other.
LEMMA RangeHeadTail ==
  ASSUME NEW S, NEW s \in Seq(S), s # <<>>
  PROVE  /\ Head(s) \in S /\ Tail(s) \in Seq(S)
         /\ Head(s) \in Range(s)
         /\ Range(Tail(s)) \subseteq Range(s)
BY DEF Range

\* What a sequence holds is of the sequence's type; the empty one holds nothing.
LEMMA RangeType ==
  ASSUME NEW S
  PROVE  /\ \A s \in Seq(S) : Range(s) \subseteq S
         /\ <<>> \in Seq(S) /\ Range(<<>>) = {}
BY DEF Range
-----------------------------------------------------------------------------
(* Types *)

\* The initial states are well typed.
LEMMA TypeInit == Init => TypeOK
<1> SUFFICES ASSUME Init PROVE TypeOK
  OBVIOUS
<1>1. CloudTypeOK
  BY DEF Init, CloudTypeOK, Statuses
<1>2. LinkTypeOK /\ AgentTypeOK
  BY RangeType DEF Init, LinkTypeOK, AgentTypeOK, Verdicts
<1>3. HistoryTypeOK
  BY DeliveryAssumption DEF Init, HistoryTypeOK
<1> QED BY <1>1, <1>2, <1>3 DEF TypeOK

\* A fault is counted, and loses only commands.
LEMMA FaultType ==
  ASSUME TypeOK, NEW losing \in SUBSET Commands, Fault(losing)
  PROVE  faults' \in 0..MaxFaults /\ lost' \in SUBSET Commands
BY DeliveryAssumption DEF TypeOK, HistoryTypeOK, Fault

\* What a fault may lose are commands.
LEMMA LosingType ==
  ASSUME TypeOK
  PROVE  /\ OnTheWire \subseteq Commands
         /\ Range(inbox) \subseteq Commands
         /\ Range(toAgent) \subseteq Commands
         /\ {a.command : a \in Range(outbox)} \subseteq Commands
         /\ {a.command : a \in applying} \subseteq Commands
<1>1. Range(toCloud) \subseteq Acks /\ Range(outbox) \subseteq Acks
      /\ applying \subseteq Acks
  BY RangeType DEF TypeOK, LinkTypeOK, AgentTypeOK, CloudTypeOK
<1>2. Range(inbox) \subseteq Commands /\ Range(toAgent) \subseteq Commands
  BY RangeType DEF TypeOK, LinkTypeOK, AgentTypeOK
<1>3. \A a \in Acks : a.command \in Commands
  BY DEF Acks
<1> QED BY <1>1, <1>2, <1>3 DEF OnTheWire

\* Every step keeps the types.
LEMMA TypeStep == TypeOK /\ [Next]_vars => TypeOK'
<1> SUFFICES ASSUME TypeOK, [Next]_vars PROVE TypeOK'
  OBVIOUS
<1> USE DEF TypeOK, cloudVars, realtimeVars, linkVars, agentVars, historyVars
<1>1. ASSUME NEW c \in Commands, Mint(c) PROVE TypeOK'
  BY <1>1 DEF Mint, CloudTypeOK, LinkTypeOK, AgentTypeOK, HistoryTypeOK, Statuses
<1>2. ASSUME NEW c \in Commands, Expire(c) PROVE TypeOK'
  BY <1>2 DEF Expire, CloudTypeOK, LinkTypeOK, AgentTypeOK, HistoryTypeOK
<1>3. CASE TakeNotice
  <2>1. PICK c \in notices : BeginRelay("listener", {c})
                             /\ notices' = notices \ {c}
    BY <1>3 DEF TakeNotice
  <2>2. {c} \subseteq Commands
    BY DEF CloudTypeOK
  <2> QED BY <2>1, <2>2 DEF BeginRelay, CloudTypeOK, LinkTypeOK, AgentTypeOK,
                            HistoryTypeOK
<1>4. CASE Sweep
  BY <1>4 DEF Sweep, BeginRelay, Pending, CloudTypeOK, LinkTypeOK, AgentTypeOK,
              HistoryTypeOK
<1>5. ASSUME NEW r \in Relayers, Dispatch(r) PROVE TypeOK'
  <2>1. PICK c \in todo[r] :
          /\ todo' = [todo EXCEPT ![r] = @ \ {c}]
          /\ \/ toAgent' = Append(toAgent, c) /\ sent' = [sent EXCEPT ![r] = c]
             \/ UNCHANGED <<toAgent, sent>>
    BY <1>5 DEF Dispatch
  <2>2. c \in Commands
    BY DEF CloudTypeOK
  <2>3. toAgent' \in Seq(Commands)
    BY <2>1, <2>2 DEF LinkTypeOK
  <2>4. /\ sent' \in [Relayers -> Commands \cup {NoCommand}]
        /\ todo' \in [Relayers -> SUBSET Commands]
    BY <2>1, <2>2 DEF CloudTypeOK
  <2> QED BY <1>5, <2>3, <2>4 DEF Dispatch, CloudTypeOK, LinkTypeOK, AgentTypeOK,
                                  HistoryTypeOK
<1>6. ASSUME NEW r \in Relayers, MarkRelayed(r) PROVE TypeOK'
  BY <1>6 DEF MarkRelayed, CloudTypeOK, LinkTypeOK, AgentTypeOK, HistoryTypeOK,
              Statuses
<1>7. ASSUME NEW r \in Relayers, MarkFails(r) PROVE TypeOK'
  <2>1. faults' \in 0..MaxFaults /\ lost' \in SUBSET Commands
    BY <1>7, FaultType DEF MarkFails
  <2> QED BY <1>7, <2>1 DEF MarkFails, CloudTypeOK, LinkTypeOK, AgentTypeOK,
                            HistoryTypeOK
<1>8. CASE TakeReceived
  BY <1>8, RangeType DEF TakeReceived, CloudTypeOK, LinkTypeOK, AgentTypeOK,
                         HistoryTypeOK
<1>9. CASE Validate
  <2>1. Head(inbox) \in Commands
    BY <1>9, RangeHeadTail DEF Validate, AgentTypeOK
  <2>2. /\ verdict' \in Verdicts /\ step' \in {"acted", "decided"}
        /\ seen' \in [Commands -> {"none", "open", "closed"}]
    BY <1>9, <2>1 DEF Validate, Decide, Verdicts, AgentTypeOK
  <2> QED BY <1>9, <2>2 DEF Validate, CloudTypeOK, LinkTypeOK, AgentTypeOK,
                            HistoryTypeOK
<1>10. CASE Execute
  <2>1. executed' \in [Commands -> Nat] /\ verdict' \in Verdicts
    BY <1>10 DEF Execute, Verdicts, HistoryTypeOK
  <2> QED BY <1>10, <2>1 DEF Execute, CloudTypeOK, LinkTypeOK, AgentTypeOK,
                             HistoryTypeOK
<1>11. CASE MarkExecuted
  BY <1>11 DEF MarkExecuted, CloudTypeOK, LinkTypeOK, AgentTypeOK, HistoryTypeOK
<1>12. CASE Answer
  <2> DEFINE a == [id |-> nextId, command |-> Head(inbox), verdict |-> verdict]
  <2>1. inbox # <<>>
    BY <1>12 DEF Answer, AgentTypeOK
  <2>2. Head(inbox) \in Commands /\ Tail(inbox) \in Seq(Commands)
    BY <2>1, RangeHeadTail DEF AgentTypeOK
  <2>3. a \in Acks
    BY <2>2 DEF Acks, AgentTypeOK
  <2>4. outbox' \in Seq(Acks) /\ nextId' \in Nat
    BY <1>12, <2>3 DEF Answer, AgentTypeOK
  <2> QED BY <1>12, <2>2, <2>4 DEF Answer, CloudTypeOK, LinkTypeOK, AgentTypeOK,
                                   HistoryTypeOK
<1>13. CASE PassRaises
  <2>1. faults' \in 0..MaxFaults /\ lost' \in SUBSET Commands
    BY <1>13, FaultType, LosingType DEF PassRaises
  <2> QED BY <1>13, <2>1, RangeType DEF PassRaises, CloudTypeOK, LinkTypeOK,
                                        AgentTypeOK, HistoryTypeOK
<1>14. CASE Drain
  BY <1>14 DEF Drain, CloudTypeOK, LinkTypeOK, AgentTypeOK, HistoryTypeOK
<1>15. CASE DrainFails
  <2>1. faults' \in 0..MaxFaults /\ lost' \in SUBSET Commands
    BY <1>15, FaultType, LosingType DEF DrainFails
  <2>2. Head(outbox) \in Acks
    BY <1>15, RangeHeadTail DEF DrainFails, AgentTypeOK
  <2>3. toCloud' \in Seq(Acks) /\ toAgent' \in Seq(Commands)
    BY <1>15, <2>2, RangeType DEF DrainFails, LinkTypeOK
  <2> QED BY <1>15, <2>1, <2>3 DEF DrainFails, CloudTypeOK, LinkTypeOK,
                                   AgentTypeOK, HistoryTypeOK
<1>16. CASE Record
  <2>1. Head(toCloud) \in Acks /\ Tail(toCloud) \in Seq(Acks)
    BY <1>16, RangeHeadTail DEF Record, LinkTypeOK
  <2>2. Head(toCloud).id \in Nat
    BY <2>1 DEF Acks
  <2> QED BY <1>16, <2>1, <2>2 DEF Record, CloudTypeOK, LinkTypeOK, AgentTypeOK,
                             HistoryTypeOK
<1>17. ASSUME NEW a \in applying, ApplyAck(a) PROVE TypeOK'
  <2>1. a.command \in Commands /\ a.verdict \in Verdicts
    BY DEF CloudTypeOK, Acks
  <2>2. a.verdict # "DUPLICATE" => StatusFor[a.verdict] \in Statuses
    BY <2>1 DEF StatusFor, Verdicts, Statuses, TerminalStatuses
  <2> QED BY <1>17, <2>1, <2>2 DEF ApplyAck, CloudTypeOK, LinkTypeOK,
                                   AgentTypeOK, HistoryTypeOK
<1>18. ASSUME NEW a \in applying, ApplyFails(a) PROVE TypeOK'
  <2>1. faults' \in 0..MaxFaults /\ lost' \in SUBSET Commands
    <3>1. {a.command} \subseteq Commands
      BY DEF CloudTypeOK, Acks
    <3> QED BY <1>18, <3>1, FaultType DEF ApplyFails
  <2> QED BY <1>18, <2>1 DEF ApplyFails, CloudTypeOK, LinkTypeOK, AgentTypeOK,
                             HistoryTypeOK
<1>19. CASE LinkDrops
  <2>1. faults' \in 0..MaxFaults /\ lost' \in SUBSET Commands
    BY <1>19, FaultType, LosingType DEF LinkDrops
  <2> QED BY <1>19, <2>1, RangeType DEF LinkDrops, CloudTypeOK, LinkTypeOK,
                                        AgentTypeOK, HistoryTypeOK
<1>20. CASE Connect
  BY <1>20 DEF Connect, CloudTypeOK, LinkTypeOK, AgentTypeOK, HistoryTypeOK
<1>21. CASE RealtimeRestarts
  <2>1. faults' \in 0..MaxFaults /\ lost' \in SUBSET Commands
    <3>1. OnTheWire \cup {a.command : a \in applying} \subseteq Commands
      BY LosingType
    <3> QED BY <1>21, <3>1, FaultType DEF RealtimeRestarts
  <2> QED BY <1>21, <2>1, RangeType DEF RealtimeRestarts, CloudTypeOK,
                          LinkTypeOK, AgentTypeOK, HistoryTypeOK
<1>22. CASE AgentRestarts
  <2>1. faults' \in 0..MaxFaults /\ lost' \in SUBSET Commands
    <3>1. OnTheWire \cup Range(inbox) \cup {a.command : a \in Range(outbox)}
            \subseteq Commands
      BY LosingType
    <3> QED BY <1>22, <3>1, FaultType DEF AgentRestarts
  <2> QED BY <1>22, <2>1, RangeType
          DEF AgentRestarts, ForgetUnexecuted, CloudTypeOK, LinkTypeOK,
              AgentTypeOK, HistoryTypeOK
<1>23. CASE UNCHANGED vars
  BY <1>23 DEF vars, CloudTypeOK, LinkTypeOK, AgentTypeOK, HistoryTypeOK
<1> QED
  BY <1>1, <1>2, <1>3, <1>4, <1>5, <1>6, <1>7, <1>8, <1>9, <1>10, <1>11, <1>12,
     <1>13, <1>14, <1>15, <1>16, <1>17, <1>18, <1>19, <1>20, <1>21, <1>22, <1>23
     DEF Next, Relay, Handle, Settle, Faults
\* Nothing the link, the relayers, the agent or a fault does leaves the types.
THEOREM DeliveryTypeCorrect == Spec => []TypeOK
<1>1. Init => TypeOK
  BY TypeInit
<1>2. TypeOK /\ [Next]_vars => TypeOK'
  BY TypeStep
<1> QED BY <1>1, <1>2, PTL DEF Spec

-----------------------------------------------------------------------------
(* Most steps touch neither the agent's record nor the row's answer *)

\* The answers on their way, wherever they are.
Answers == Range(outbox) \cup Range(toCloud) \cup applying

\* What the two layers below are about; no step but the named ones changes it.
Quiet ==
  /\ UNCHANGED <<seen, step, verdict, executed, forgotten, result>>
  /\ Answers' \subseteq Answers
  /\ step = "idle" \/ inbox' = inbox

\* Every step is quiet, or one of the seven that are not; only Answer adds an
\* answer.
LEMMA QuietOrNamed ==
  ASSUME TypeOK, [Next]_vars
  PROVE  \/ Quiet
         \/ /\ Validate \/ Execute \/ MarkExecuted \/ PassRaises \/ AgentRestarts
            /\ Answers' \subseteq Answers
         \/ Answer
         \/ \E a \in applying : ApplyAck(a) /\ Answers' \subseteq Answers
<1> USE DEF cloudVars, realtimeVars, linkVars, agentVars, historyVars
<1>0. /\ outbox \in Seq(Acks) /\ toCloud \in Seq(Acks)
      /\ Range(<<>>) = {}
  BY RangeType DEF TypeOK, AgentTypeOK, LinkTypeOK
<1>1. ASSUME NEW c \in Commands, Mint(c) \/ Expire(c) PROVE Quiet
  BY <1>1 DEF Mint, Expire, Quiet, Answers
<1>2. CASE TakeNotice \/ Sweep
  BY <1>2 DEF TakeNotice, Sweep, BeginRelay, Quiet, Answers
<1>3. ASSUME NEW r \in Relayers, Dispatch(r) \/ MarkRelayed(r) \/ MarkFails(r)
      PROVE  Quiet
  BY <1>3 DEF Dispatch, MarkRelayed, MarkFails, Quiet, Answers
<1>4. CASE TakeReceived
  BY <1>4 DEF TakeReceived, Quiet, Answers, TypeOK, AgentTypeOK
<1>5. CASE Validate \/ Execute \/ MarkExecuted \/ PassRaises
  BY <1>5 DEF Validate, Execute, MarkExecuted, PassRaises, Answers
<1>6. CASE Drain
  <2>1. Head(outbox) \in Acks /\ Head(outbox) \in Range(outbox)
        /\ Range(Tail(outbox)) \subseteq Range(outbox)
    BY <1>0, <1>6, RangeHeadTail DEF Drain
  <2>2. Range(toCloud') = Range(toCloud) \cup {Head(outbox)}
    BY <1>0, <1>6, <2>1, RangeAppend DEF Drain
  <2> QED BY <1>6, <2>1, <2>2 DEF Drain, Quiet, Answers
<1>7. CASE DrainFails
  <2>1. Head(outbox) \in Acks /\ Head(outbox) \in Range(outbox)
    BY <1>0, <1>7, RangeHeadTail DEF DrainFails
  <2>2. Range(toCloud') \subseteq Range(toCloud) \cup {Head(outbox)}
    <3>1. toCloud' = toCloud \/ toCloud' = Append(toCloud, Head(outbox))
      BY <1>7 DEF DrainFails
    <3>2. Range(Append(toCloud, Head(outbox)))
            = Range(toCloud) \cup {Head(outbox)}
      BY <1>0, <2>1, RangeAppend
    <3> QED BY <3>1, <3>2
  <2> QED BY <1>7, <2>1, <2>2 DEF DrainFails, Quiet, Answers
<1>8. CASE Record
  <2>1. Head(toCloud) \in Range(toCloud)
        /\ Range(Tail(toCloud)) \subseteq Range(toCloud)
    BY <1>0, <1>8, RangeHeadTail DEF Record
  <2> QED BY <1>8, <2>1 DEF Record, Quiet, Answers
<1>9. ASSUME NEW a \in applying, ApplyFails(a) PROVE Quiet
  BY <1>9 DEF ApplyFails, Quiet, Answers
<1>10. ASSUME NEW a \in applying, ApplyAck(a) PROVE Answers' \subseteq Answers
  BY <1>10 DEF ApplyAck, Answers
<1>11. CASE LinkDrops \/ Connect \/ RealtimeRestarts
  BY <1>0, <1>11 DEF LinkDrops, Connect, RealtimeRestarts, Quiet, Answers
<1>12. CASE AgentRestarts
  BY <1>0, <1>12 DEF AgentRestarts, Answers
<1>13. CASE UNCHANGED vars
  BY <1>13 DEF vars, Quiet, Answers
<1> QED
  BY <1>1, <1>2, <1>3, <1>4, <1>5, <1>6, <1>7, <1>8, <1>9, <1>10, <1>11, <1>12,
     <1>13 DEF Next, Relay, Handle, Settle, Faults

-----------------------------------------------------------------------------
(* The record of a command and its executions *)

\* A command with no record was carried out only by executions that were
\* forgotten; one that is about to be carried out has a record, which no
\* duplicate gets past.
RecordInv ==
  /\ step = "decided" =>
       /\ seen[Head(inbox)] = "open"
       /\ executed[Head(inbox)] <= forgotten[Head(inbox)]
  /\ \A c \in Commands : seen[c] = "none" => executed[c] <= forgotten[c]
  /\ RepeatsOnlyWhatWasForgotten

\* No record exists at first.
LEMMA RecordInit == Init => RecordInv
BY DEF Init, RecordInv, RepeatsOnlyWhatWasForgotten

\* Every step keeps what is known of the records.
LEMMA RecordStep == TypeOK /\ RecordInv /\ [Next]_vars => RecordInv'
<1> SUFFICES ASSUME TypeOK, RecordInv, [Next]_vars PROVE RecordInv'
  OBVIOUS
<1>0. /\ seen \in [Commands -> {"none", "open", "closed"}]
      /\ executed \in [Commands -> Nat] /\ forgotten \in [Commands -> Nat]
      /\ step # "idle" => inbox # <<>>
      /\ inbox # <<>> => Head(inbox) \in Commands
  BY RangeHeadTail DEF TypeOK, AgentTypeOK, HistoryTypeOK
<1> USE DEF RecordInv, RepeatsOnlyWhatWasForgotten
<1>1. CASE Quiet
  BY <1>1 DEF Quiet
<1>2. CASE Validate
  BY <1>0, <1>2 DEF Validate, Decide, historyVars
<1>3. CASE Execute
  <2> DEFINE h == Head(inbox)
  <2>1. /\ h \in Commands /\ seen[h] = "open" /\ executed[h] <= forgotten[h]
        /\ seen' = seen /\ forgotten' = forgotten /\ step' = "acted"
        /\ executed' = executed \/ executed' = [executed EXCEPT ![h] = @ + 1]
    BY <1>0, <1>3 DEF Execute
  <2>2. \A c \in Commands : c # h => executed'[c] = executed[c]
    BY <1>0, <2>1
  <2>3. executed'[h] <= 1 + forgotten[h]
    BY <1>0, <2>1
  <2> QED BY <2>1, <2>2, <2>3
<1>4. CASE MarkExecuted
  BY <1>0, <1>4 DEF MarkExecuted, historyVars
<1>5. CASE PassRaises
  BY <1>5 DEF PassRaises
<1>6. CASE AgentRestarts
  BY <1>0, <1>6 DEF AgentRestarts, ForgetUnexecuted
<1>7. CASE Answer
  BY <1>7 DEF Answer, historyVars
<1>8. ASSUME NEW a \in applying, ApplyAck(a) PROVE RecordInv'
  BY <1>8 DEF ApplyAck, agentVars, historyVars
<1> QED BY <1>1, <1>2, <1>3, <1>4, <1>5, <1>6, <1>7, <1>8, QuietOrNamed

\* Whatever is retried, replayed or duplicated, and however often either process
\* restarts, the agent carries a command out once for each time a restart found
\* its record open, and once more.
THEOREM ExecutedOncePerRecord == Spec => []RepeatsOnlyWhatWasForgotten
<1>1. Init => TypeOK /\ RecordInv
  BY TypeInit, RecordInit
<1>2. TypeOK /\ RecordInv /\ [Next]_vars => (TypeOK /\ RecordInv)'
  BY TypeStep, RecordStep
<1>3. RecordInv => RepeatsOnlyWhatWasForgotten
  BY DEF RecordInv
<1> QED BY <1>1, <1>2, <1>3, PTL DEF Spec
-----------------------------------------------------------------------------
(* The answers *)

\* What an ACCEPTED says is true wherever it has got to.
AcceptedInv ==
  /\ step \in {"acted", "closed"} /\ verdict = "ACCEPTED"
       => executed[Head(inbox)] > 0
  /\ \A a \in Answers : a.verdict = "ACCEPTED" => executed[a.command] > 0
  /\ AcceptedWasExecuted

\* Nothing is accepted at first.
LEMMA AcceptedInit == Init => AcceptedInv
<1> SUFFICES ASSUME Init PROVE AcceptedInv
  OBVIOUS
<1>1. Answers = {}
  BY RangeType DEF Init, Answers
<1> QED BY <1>1 DEF Init, AcceptedInv, AcceptedWasExecuted

\* The answer _handle_command queues is the only one its step adds.
LEMMA AnswerAdds ==
  ASSUME TypeOK, Answer
  PROVE  Answers' \subseteq Answers \cup
           {[id |-> nextId, command |-> Head(inbox), verdict |-> verdict]}
<1> DEFINE a == [id |-> nextId, command |-> Head(inbox), verdict |-> verdict]
<1>1. Head(inbox) \in Commands
  BY RangeHeadTail DEF TypeOK, AgentTypeOK, Answer
<1>2. a \in Acks
  BY <1>1 DEF Acks, TypeOK, AgentTypeOK
<1>3. Range(outbox') = Range(outbox) \cup {a}
  BY <1>2, RangeAppend DEF Answer, TypeOK, AgentTypeOK
<1> QED BY <1>3 DEF Answer, Answers, realtimeVars, linkVars

\* An answer is about a command and is one of the four verdicts.
LEMMA AnswersAreAcks ==
  ASSUME TypeOK, NEW a \in Answers
  PROVE  a.command \in Commands /\ a.verdict \in Verdicts
<1>1. a \in Acks
  BY RangeType DEF Answers, TypeOK, CloudTypeOK, LinkTypeOK, AgentTypeOK
<1> QED BY <1>1 DEF Acks

\* Every step keeps what is known of accepted commands.
LEMMA AcceptedStep == TypeOK /\ AcceptedInv /\ [Next]_vars => AcceptedInv'
<1> SUFFICES ASSUME TypeOK, AcceptedInv, [Next]_vars PROVE AcceptedInv'
  OBVIOUS
<1>0. /\ executed \in [Commands -> Nat]
      /\ result \in [Commands -> Verdicts \cup {"none"}]
      /\ step # "idle" => inbox # <<>>
      /\ inbox # <<>> => Head(inbox) \in Commands
      /\ \A a \in Answers : a.command \in Commands
  BY RangeHeadTail, AnswersAreAcks
     DEF TypeOK, AgentTypeOK, HistoryTypeOK, CloudTypeOK
<1> USE DEF AcceptedInv, AcceptedWasExecuted
<1>1. CASE Quiet
  BY <1>1 DEF Quiet
<1>2. CASE Validate /\ Answers' \subseteq Answers
  BY <1>0, <1>2 DEF Validate, Decide, historyVars, cloudVars
<1>3. CASE Execute /\ Answers' \subseteq Answers
  <2> DEFINE h == Head(inbox)
  <2>1. /\ h \in Commands /\ inbox' = inbox /\ result' = result
        /\ \/ executed' = [executed EXCEPT ![h] = @ + 1]
           \/ executed' = executed /\ verdict' = "REJECTED"
    BY <1>0, <1>3 DEF Execute, cloudVars
  <2>2. /\ \A c \in Commands : executed[c] > 0 => executed'[c] > 0
        /\ verdict' = "ACCEPTED" => executed'[h] > 0
    BY <1>0, <2>1
  <2> QED BY <1>0, <1>3, <2>1, <2>2
<1>4. CASE MarkExecuted /\ Answers' \subseteq Answers
  BY <1>0, <1>4 DEF MarkExecuted, historyVars, cloudVars
<1>5. CASE PassRaises /\ Answers' \subseteq Answers
  BY <1>5 DEF PassRaises, cloudVars
<1>6. CASE AgentRestarts /\ Answers' \subseteq Answers
  BY <1>6 DEF AgentRestarts, cloudVars
<1>7. CASE Answer
  BY <1>7, AnswerAdds DEF Answer, historyVars, cloudVars
<1>8. ASSUME NEW a \in applying, ApplyAck(a), Answers' \subseteq Answers
      PROVE  AcceptedInv'
  <2>1. a \in Answers
    BY DEF Answers
  <2>2. result' = result \/ result' = [result EXCEPT ![a.command] = a.verdict]
    BY <1>8 DEF ApplyAck
  <2> QED BY <1>0, <1>8, <2>1, <2>2 DEF ApplyAck, agentVars, historyVars
<1> QED BY <1>1, <1>2, <1>3, <1>4, <1>5, <1>6, <1>7, <1>8, QuietOrNamed

\* A customer's row says ACCEPTED only of a command the observatory carried out,
\* whatever was lost, repeated or restarted in between.
THEOREM AcceptedIsTrue == Spec => []AcceptedWasExecuted
<1>1. Init => TypeOK /\ AcceptedInv
  BY TypeInit, AcceptedInit
<1>2. TypeOK /\ AcceptedInv /\ [Next]_vars => (TypeOK /\ AcceptedInv)'
  BY TypeStep, AcceptedStep
<1>3. AcceptedInv => AcceptedWasExecuted
  BY DEF AcceptedInv
<1> QED BY <1>1, <1>2, <1>3, PTL DEF Spec

-----------------------------------------------------------------------------
\* An answer that is not DUPLICATE exists only for a command whose record is
\* closed, and so survives every restart; all of them say the same thing; and a
\* command being decided has none.
AnswerInv ==
  /\ \A a \in Answers : a.verdict # "DUPLICATE" =>
       seen[a.command] = "closed" /\ result[a.command] \in {"none", a.verdict}
  /\ \A a, b \in Answers :
       a.verdict # "DUPLICATE" /\ b.verdict # "DUPLICATE"
         /\ a.command = b.command => a.verdict = b.verdict
  /\ \A c \in Commands : result[c] # "none" => seen[c] = "closed"
  /\ step # "idle" /\ verdict # "DUPLICATE" =>
       /\ result[Head(inbox)] = "none"
       /\ \A a \in Answers :
            a.command = Head(inbox) => a.verdict = "DUPLICATE"
  /\ step = "decided" => verdict = "ACCEPTED"
  /\ step = "closed" => seen[Head(inbox)] = "closed"

\* No answer is under way at first.
LEMMA AnswerInit == Init => AnswerInv
<1> SUFFICES ASSUME Init PROVE AnswerInv
  OBVIOUS
<1>1. Answers = {}
  BY RangeType DEF Init, Answers
<1> QED BY <1>1 DEF Init, AnswerInv

\* Every step keeps what is known of answers under way.
LEMMA AnswerStep == TypeOK /\ AnswerInv /\ [Next]_vars => AnswerInv'
<1> SUFFICES ASSUME TypeOK, AnswerInv, [Next]_vars PROVE AnswerInv'
  OBVIOUS
<1> DEFINE h == Head(inbox)
<1>0. /\ seen \in [Commands -> {"none", "open", "closed"}]
      /\ result \in [Commands -> Verdicts \cup {"none"}]
      /\ step # "idle" => inbox # <<>>
      /\ inbox # <<>> => h \in Commands
      /\ \A a \in Answers : a.command \in Commands
  BY RangeHeadTail, AnswersAreAcks DEF TypeOK, AgentTypeOK, CloudTypeOK
<1> USE DEF AnswerInv
<1>1. CASE Quiet
  BY <1>1 DEF Quiet
<1>2. CASE Validate /\ Answers' \subseteq Answers
  <2>1. /\ h \in Commands /\ inbox' = inbox /\ result' = result
        /\ step' \in {"acted", "decided"}
        /\ step' = "decided" => verdict' = "ACCEPTED"
        /\ \/ verdict' = "DUPLICATE" /\ seen' = seen
           \/ seen[h] = "none" /\ seen' = [seen EXCEPT ![h] = "open"]
    BY <1>0, <1>2 DEF Validate, Decide, cloudVars
  <2> QED BY <1>0, <1>2, <2>1
<1>3. CASE Execute /\ Answers' \subseteq Answers
  <2>1. /\ inbox' = inbox /\ result' = result /\ seen' = seen
        /\ step = "decided" /\ step' = "acted"
    BY <1>3 DEF Execute, cloudVars
  <2> QED BY <1>0, <1>3, <2>1
<1>4. CASE MarkExecuted /\ Answers' \subseteq Answers
  <2>1. /\ inbox' = inbox /\ result' = result /\ verdict' = verdict
        /\ step = "acted" /\ step' = "closed"
        /\ seen' = [seen EXCEPT ![h] = "closed"]
    BY <1>4 DEF MarkExecuted, cloudVars
  <2> QED BY <1>0, <1>4, <2>1
<1>5. CASE PassRaises /\ Answers' \subseteq Answers
  BY <1>5 DEF PassRaises, cloudVars
<1>6. CASE AgentRestarts /\ Answers' \subseteq Answers
  <2>1. /\ result' = result /\ step' = "idle"
        /\ \A c \in Commands : seen[c] = "closed" => seen'[c] = "closed"
    BY <1>6 DEF AgentRestarts, ForgetUnexecuted, cloudVars
  <2> QED BY <1>0, <1>6, <2>1
<1>7. CASE Answer
  <2> DEFINE x == [id |-> nextId, command |-> h, verdict |-> verdict]
  <2>1. /\ seen' = seen /\ result' = result /\ step = "closed" /\ step' = "idle"
        /\ h \in Commands
    BY <1>0, <1>7 DEF Answer, cloudVars
  <2>2. /\ Answers' \subseteq Answers \cup {x}
        /\ x.command = h /\ x.verdict = verdict
    BY <1>7, AnswerAdds
  <2>3. x.verdict # "DUPLICATE" =>
          /\ seen[h] = "closed" /\ result[h] = "none"
          /\ \A a \in Answers : a.command = h => a.verdict = "DUPLICATE"
    BY <2>1, <2>2
  <2>4. ASSUME NEW a \in Answers', a.verdict # "DUPLICATE"
        PROVE  seen[a.command] = "closed"
               /\ result[a.command] \in {"none", a.verdict}
    BY <2>2, <2>3, <2>4
  <2>5. ASSUME NEW a \in Answers', NEW b \in Answers',
               a.verdict # "DUPLICATE", b.verdict # "DUPLICATE",
               a.command = b.command
        PROVE  a.verdict = b.verdict
    BY <2>2, <2>3, <2>5
  <2> QED BY <2>1, <2>4, <2>5
<1>8. ASSUME NEW a \in applying, ApplyAck(a), Answers' \subseteq Answers
      PROVE  AnswerInv'
  <2>1. a \in Answers
    BY DEF Answers
  <2>2. /\ seen' = seen /\ step' = step /\ verdict' = verdict /\ inbox' = inbox
        /\ \/ result' = result
           \/ /\ a.verdict # "DUPLICATE"
              /\ result' = [result EXCEPT ![a.command] = a.verdict]
    BY <1>8 DEF ApplyAck, agentVars
  <2> QED BY <1>0, <1>8, <2>1, <2>2
<1> QED BY <1>1, <1>2, <1>3, <1>4, <1>5, <1>6, <1>7, <1>8, QuietOrNamed

\* No interleaving of relayers, replays and restarts gives a command two
\* different answers.
THEOREM OneAnswer == Spec => AnswerIsKept
<1>1. Init => TypeOK /\ AnswerInv
  BY TypeInit, AnswerInit
<1>2. TypeOK /\ AnswerInv /\ [Next]_vars => (TypeOK /\ AnswerInv)'
  BY TypeStep, AnswerStep
<1>3. TypeOK /\ AnswerInv /\ [Next]_vars =>
        [\A c \in Commands : result[c] # "none" => result'[c] = result[c]]_vars
  <2> SUFFICES ASSUME TypeOK, AnswerInv, [Next]_vars, NEW c \in Commands,
                      result[c] # "none"
               PROVE  result'[c] = result[c]
    OBVIOUS
  <2>1. CASE Quiet
    BY <2>1 DEF Quiet
  <2>2. CASE Validate \/ Execute \/ MarkExecuted \/ PassRaises \/ AgentRestarts
             \/ Answer
    BY <2>2 DEF Validate, Execute, MarkExecuted, PassRaises, AgentRestarts,
                Answer, cloudVars
  <2>3. ASSUME NEW a \in applying, ApplyAck(a) PROVE result'[c] = result[c]
    <3>1. a \in Answers
      BY DEF Answers
    <3>2. a.verdict # "DUPLICATE" => result[a.command] \in {"none", a.verdict}
      BY <3>1 DEF AnswerInv
    <3>3. result \in [Commands -> Verdicts \cup {"none"}]
      BY DEF TypeOK, CloudTypeOK
    <3> QED BY <2>3, <3>2, <3>3 DEF ApplyAck
  <2> QED BY <2>1, <2>2, <2>3, QuietOrNamed
<1> QED BY <1>1, <1>2, <1>3, PTL DEF Spec, AnswerIsKept
=============================================================================
