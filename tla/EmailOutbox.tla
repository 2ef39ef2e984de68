---------------------------- MODULE EmailOutbox ----------------------------
(***************************************************************************)
(* The email outbox: rows queued once for an event and delivered by a pass *)
(* that runs every minute, claims each row before it attempts it, and      *)
(* reads what the email says at the moment of sending (email.ts).          *)
(*                                                                         *)
(* nextAttemptAt is kept as the time left to it.  A pass computes it from  *)
(* the instant it began, so its age is taken off.                          *)
(***************************************************************************)
EXTENDS Naturals, Sequences, FiniteSets

CONSTANTS
  Emails,            \* numbered in the order of createdAt
  Dispatches,        \* passes that may run at once
  MaxAttempts, ClaimLease, RetryDelay, BatchSize,
  MaxFaults

ASSUME OutboxAssumption ==
  /\ Emails \subseteq Nat /\ IsFiniteSet(Emails) /\ MaxAttempts \in Nat \ {0}
  /\ ClaimLease \in Nat \ {0} /\ RetryDelay \in Nat /\ BatchSize \in Nat
  /\ MaxFaults \in Nat

VARIABLES
  outbox,     \* the EmailNotification rows
  applies,    \* the events an email can still truthfully be sent for
  accepted,   \* emails the mail service has taken, by their idempotency key
  dispatch,   \* each pass
  faults

mailVars == <<outbox, applies, accepted, dispatch, faults>>

Resting == [todo |-> <<>>, hand |-> "none", age |-> 0]

MailInit ==
  /\ outbox = [e \in Emails |-> [status |-> "none", attempts |-> 0, wait |-> 0]]
  /\ applies = Emails /\ accepted = {}
  /\ dispatch = [d \in Dispatches |-> Resting]
  /\ faults = 0

Reads(d) == dispatch[d].todo # <<>>
InHand(d) == Head(dispatch[d].todo).email

\* queueEmail: the dedupe key makes a second row of one event no row.
QueueEmail(e) ==
  /\ outbox[e].status = "none"
  /\ outbox' = [outbox EXCEPT ![e].status = "PENDING"]
  /\ UNCHANGED <<applies, accepted, dispatch, faults>>

\* A booking is cancelled, an offer runs out, a voucher is spent.
NoLongerApplies(e) ==
  /\ e \in applies
  /\ applies' = applies \ {e}
  /\ UNCHANGED <<outbox, accepted, dispatch, faults>>

\* A plausible slip: a row is read for its first attempt only.
DueOnce == {e \in Emails : outbox[e].status = "PENDING" /\ outbox[e].attempts = 0}

Due == {e \in Emails : outbox[e].status = "PENDING" /\ outbox[e].wait = 0}

\* The oldest rows that are due, with the attempts they were read with.
ReadDue(d) ==
  /\ ~Reads(d) /\ Due # {}
  /\ \E s \in [1..(IF Cardinality(Due) < BatchSize THEN Cardinality(Due)
                   ELSE BatchSize) -> Due] :
       /\ \A i, j \in DOMAIN s : i < j => s[i] < s[j]
       /\ \A e \in Due : (\E i \in DOMAIN s : e < s[i]) => \E i \in DOMAIN s : s[i] = e
       /\ dispatch' = [dispatch EXCEPT ![d] =
            [todo |-> [i \in DOMAIN s |-> [email |-> s[i],
                                           attempts |-> outbox[s[i]].attempts]],
             hand |-> "none", age |-> 0]]
  /\ UNCHANGED <<outbox, applies, accepted, faults>>

Left(time, age) == IF time > age THEN time - age ELSE 0

\* The next row of the pass; a pass at its end rests.
Turned(d) ==
  IF Len(dispatch[d].todo) = 1 THEN Resting
  ELSE [dispatch[d] EXCEPT !.todo = Tail(@), !.hand = "none"]

\* A plausible slip: the claim does not compare the attempts.
ClaimPending(d) ==
  LET row == Head(dispatch[d].todo) IN
  /\ Reads(d) /\ dispatch[d].hand = "none"
  /\ IF outbox[row.email].status = "PENDING"
     THEN /\ outbox' = [outbox EXCEPT ![row.email].attempts = @ + 1,
                          ![row.email].wait = Left(ClaimLease, dispatch[d].age)]
          /\ dispatch' = [dispatch EXCEPT ![d].hand = "claimed"]
     ELSE UNCHANGED outbox /\ dispatch' = [dispatch EXCEPT ![d] = Turned(d)]
  /\ UNCHANGED <<applies, accepted, faults>>

\* The conditional update before the attempt: another pass that took the row
\* since it was read has moved its attempts on.
Claim(d) ==
  LET row == Head(dispatch[d].todo) IN
  /\ Reads(d) /\ dispatch[d].hand = "none"
  /\ IF outbox[row.email].status = "PENDING" /\ outbox[row.email].attempts = row.attempts
     THEN /\ outbox' = [outbox EXCEPT ![row.email].attempts = @ + 1,
                          ![row.email].wait = Left(ClaimLease, dispatch[d].age)]
          /\ dispatch' = [dispatch EXCEPT ![d].hand = "claimed"]
     ELSE UNCHANGED outbox /\ dispatch' = [dispatch EXCEPT ![d] = Turned(d)]
  /\ UNCHANGED <<applies, accepted, faults>>

\* describe: what no longer applies is skipped ...
Skip(d) ==
  /\ dispatch[d].hand = "claimed" /\ InHand(d) \notin applies
  /\ outbox' = [outbox EXCEPT ![InHand(d)].status = "SKIPPED"]
  /\ dispatch' = [dispatch EXCEPT ![d] = Turned(d)]
  /\ UNCHANGED <<applies, accepted, faults>>

\* ... what can be written is handed to the mail service, which takes it once
\* for its key; the answer comes back or is lost ...
Deliver(d) ==
  /\ dispatch[d].hand = "claimed" /\ InHand(d) \in applies
  /\ \E answer \in {"accepted", "failed"}, taken \in BOOLEAN :
       /\ answer = "accepted" => taken
       /\ accepted' = IF taken THEN accepted \cup {InHand(d)} ELSE accepted
       /\ dispatch' = [dispatch EXCEPT ![d].hand = answer]
  /\ UNCHANGED <<outbox, applies, faults>>

\* ... and what cannot be written yet is a failed attempt.
NotWritableYet(d) ==
  /\ dispatch[d].hand = "claimed" /\ InHand(d) \in applies
  /\ dispatch' = [dispatch EXCEPT ![d].hand = "failed"]
  /\ UNCHANGED <<outbox, applies, accepted, faults>>

RecordSent(d) ==
  /\ dispatch[d].hand = "accepted"
  /\ outbox' = [outbox EXCEPT ![InHand(d)].status = "SENT"]
  /\ dispatch' = [dispatch EXCEPT ![d] = Turned(d)]
  /\ UNCHANGED <<applies, accepted, faults>>

\* attempt is the count read, plus one.
RecordFailure(d) ==
  /\ dispatch[d].hand = "failed"
  /\ outbox' = [outbox EXCEPT ![InHand(d)] =
       IF Head(dispatch[d].todo).attempts + 1 >= MaxAttempts
       THEN [@ EXCEPT !.status = "FAILED"]
       ELSE [@ EXCEPT !.wait = Left(RetryDelay, dispatch[d].age)]]
  /\ dispatch' = [dispatch EXCEPT ![d] = Turned(d)]
  /\ UNCHANGED <<applies, accepted, faults>>

\* The process dies, or a read throws: what was claimed waits for its lease.
PassDies ==
  /\ \E d \in Dispatches : Reads(d)
  /\ faults < MaxFaults
  /\ faults' = faults + 1
  /\ dispatch' = [d \in Dispatches |-> Resting]
  /\ UNCHANGED <<outbox, applies, accepted>>

\* Time passes; a pass is BatchSize deliveries of five seconds at most, which
\* is shorter than the lease of five minutes.
MailTick ==
  /\ \E e \in Emails : outbox[e].wait > 0
  /\ \A d \in Dispatches : Reads(d) => dispatch[d].age + 1 < ClaimLease
  /\ outbox' = [e \in Emails |-> [outbox[e] EXCEPT !.wait = Left(@, 1)]]
  /\ dispatch' = [d \in Dispatches |->
       IF Reads(d) THEN [dispatch[d] EXCEPT !.age = @ + 1] ELSE Resting]
  /\ UNCHANGED <<applies, accepted, faults>>

DispatchStep(d) ==
  \/ ReadDue(d) \/ Claim(d) \/ Skip(d) \/ Deliver(d) \/ NotWritableYet(d)
  \/ RecordSent(d) \/ RecordFailure(d)

MailNext ==
  \/ \E e \in Emails : QueueEmail(e) \/ NoLongerApplies(e)
  \/ \E d \in Dispatches : DispatchStep(d)
  \/ PassDies \/ MailTick

MailSpec == MailInit /\ [][MailNext]_mailVars

\* A pass is begun every minute and each of its calls returns or times out;
\* whether the mail service ever takes an email is not assumed.
MailFairness ==
  /\ \A d \in Dispatches : WF_mailVars(DispatchStep(d))
  /\ WF_mailVars(MailTick)

MailFairSpec == MailSpec /\ MailFairness

-----------------------------------------------------------------------------
(* Properties.                                                             *)

\* Every row and every pass has its shape.
MailTypeOK ==
  /\ outbox \in [Emails -> [status : {"none", "PENDING", "SENT", "SKIPPED", "FAILED"},
                            attempts : 0..(MaxAttempts + MaxFaults),
                            wait : 0..(ClaimLease + RetryDelay)]]
  /\ applies \subseteq Emails /\ accepted \subseteq Emails
  /\ \A d \in Dispatches : dispatch[d].hand \in {"none", "claimed", "accepted", "failed"}

Holds(d, e) == Reads(d) /\ dispatch[d].hand # "none" /\ InHand(d) = e

\* An email is attempted by one pass at a time, so that no answer is recorded
\* over another's: passes overlap, die and leave claims to their lease.
OneAttemptAtATime ==
  /\ MailTypeOK
  /\ \A e \in Emails, c, d \in Dispatches : (Holds(c, e) /\ Holds(d, e)) => c = d
  /\ \A e \in Emails, d \in Dispatches : Holds(d, e) => outbox[e].status = "PENDING"

\* Every email queued is sent, skipped or given up on: none is retried for
\* ever, and none is stranded by a pass that died with it in hand.
EveryEmailIsDecided ==
  []<>(\A e \in Emails : outbox[e].status \in {"none", "SENT", "SKIPPED", "FAILED"})
=============================================================================
