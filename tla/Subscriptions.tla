--------------------------- MODULE Subscriptions ---------------------------
(***************************************************************************)
(* One customer's subscription: the row and its payments (subscriptions.ts *)
(* of the API), the renewal sweep of the realtime service (renewals.ts),   *)
(* and the account of minutes they fund (credits.ts).                      *)
(*                                                                         *)
(* An action is a transaction, except that settling a payment reads the    *)
(* subscription without locking it and writes it some statements later:    *)
(* the customer's own changes, which do lock it, fall in between.  Instants *)
(* are milliseconds in the code and a few steps here; two first payments   *)
(* captured in one step still start periods of their own, which is why a   *)
(* grant is keyed by the payment as well when the payment names no period. *)
(***************************************************************************)
EXTENDS Naturals, Sequences, FiniteSets

CONSTANTS
  PeriodLength,      \* a billing month
  RenewalAttempts, RetryGap, RenewalGrace,
  MinutesPerPeriod,
  Outings,           \* bookings the customer may pay for with minutes, one each
  MaxSubClock, MaxDues

ASSUME SubAssumption ==
  /\ PeriodLength \in Nat \ {0} /\ RenewalAttempts \in Nat \ {0}
  /\ RetryGap \in Nat /\ RenewalGrace \in Nat /\ MinutesPerPeriod \in Nat
  /\ IsFiniteSet(Outings)
  /\ MaxSubClock \in Nat /\ MaxDues \in Nat

VARIABLES
  sub,        \* the Subscription row
  dues,       \* the payments opened for it, in order
  settling,   \* settlements that have read the row: payment, outcome, row
  submitting, \* charges whose row is written, the provider being called
  credit,     \* CreditAccount.balance
  granted,    \* the idempotency keys of the grants posted
  expiries,   \* the period ends whose expiry is posted
  taken,      \* minutes those took
  outing,     \* each booking's minutes
  subClock

subVars == <<sub, dues, settling, submitting, credit, granted, expiries, taken, outing,
             subClock>>

Never == 0   \* a null instant; the clock starts at 1

Finished == {"CANCELLED", "EXPIRED"}

NoSubscription ==
  [status |-> "none", start |-> Never, end |-> Never, ending |-> FALSE,
   mandate |-> FALSE]

SubInit ==
  /\ sub = NoSubscription
  /\ dues = <<>> /\ settling = {} /\ submitting = {}
  /\ credit = 0 /\ granted = {} /\ expiries = {} /\ taken = 0
  /\ outing = [o \in Outings |-> "none"]
  /\ subClock = 1

Payment(periodStart, asked) ==
  [period |-> periodStart, status |-> "PENDING", asked |-> asked]

Open(p) == dues[p].status = "PENDING"

-----------------------------------------------------------------------------
(* What the customer does.                                                 *)

\* subscribe: the row is opened, or opened again, without a period.
Subscribe ==
  /\ sub.status \in Finished \cup {"none"}
  /\ Len(dues) < MaxDues
  /\ sub' = [NoSubscription EXCEPT !.status = "ACTIVE"]
  /\ dues' = Append(dues, Payment(Never, TRUE))
  /\ UNCHANGED <<settling, submitting, credit, granted, expiries, taken, outing, subClock>>

PauseMySubscription ==
  /\ sub.status = "ACTIVE"
  /\ sub' = [sub EXCEPT !.status = "PAUSED"]
  /\ UNCHANGED <<dues, settling, submitting, credit, granted, expiries, taken, outing,
                 subClock>>

\* A pause that outlasted its period resumes into one that starts now.
ResumeMySubscription ==
  /\ sub.status = "PAUSED" /\ ~sub.ending
  /\ sub' = [sub EXCEPT !.status = "ACTIVE",
       !.end = IF sub.end # Never /\ sub.end <= subClock THEN subClock ELSE sub.end]
  /\ UNCHANGED <<dues, settling, submitting, credit, granted, expiries, taken, outing,
                 subClock>>

Funded == sub.end # Never /\ sub.end > subClock

\* A funded period runs out; anything else ends at once.
CancelMySubscription ==
  /\ sub.status \in {"ACTIVE", "PAUSED"}
  /\ sub' = IF Funded THEN [sub EXCEPT !.ending = TRUE]
            ELSE [sub EXCEPT !.status = "CANCELLED", !.ending = FALSE]
  /\ UNCHANGED <<dues, settling, submitting, credit, granted, expiries, taken, outing,
                 subClock>>

-----------------------------------------------------------------------------
(* Minutes.                                                                *)

\* spendBookingMinutes.
SpendBookingMinutes(o) ==
  /\ outing[o] = "none"
  /\ sub.status \in {"ACTIVE", "PAUSED"} /\ Funded
  /\ credit >= 1
  /\ credit' = credit - 1
  /\ outing' = [outing EXCEPT ![o] = "spent"]
  /\ UNCHANGED <<sub, dues, settling, submitting, granted, expiries, taken, subClock>>

\* releaseSpentMinutes: nothing comes back once the period has ended.
ReleaseSpentMinutes(o) ==
  /\ outing[o] = "spent"
  /\ IF Funded
     THEN credit' = credit + 1 /\ outing' = [outing EXCEPT ![o] = "returned"]
     ELSE UNCHANGED <<credit, outing>>
  /\ UNCHANGED <<sub, dues, settling, submitting, granted, expiries, taken, subClock>>

-----------------------------------------------------------------------------
(* What the provider reports.                                              *)

\* settleSubscriptionPayment, under the payment's lock: the row is read ...
ReadSubscription(p, result) ==
  /\ Open(p) /\ (dues[p].asked \/ p \in submitting)
  /\ \A s \in settling : s.payment # p
  /\ settling' = settling \cup {[payment |-> p, result |-> result, row |-> sub]}
  /\ UNCHANGED <<sub, dues, submitting, credit, granted, expiries, taken, outing,
                 subClock>>

\* ... a failure ends a subscription that was never funded ...
SettleFailure(s) ==
  /\ s.result = "FAILED"
  /\ settling' = settling \ {s}
  /\ dues' = [dues EXCEPT ![s.payment].status = "FAILED"]
  /\ sub' = IF s.row.start = Never THEN [sub EXCEPT !.status = "EXPIRED"] ELSE sub
  /\ UNCHANGED <<submitting, credit, granted, expiries, taken, outing, subClock>>

\* A plausible slip: minutes are granted once for a subscription.
GrantKeyOfSubscription(p) == <<0, 0>>

\* The key of a grant: the period's start, and the payment that started it.
GrantKey(p) ==
  IF dues[p].period = Never THEN <<subClock, p>> ELSE <<dues[p].period, 0>>

\* ... and a capture starts the period it pays for, keeps a status that is
\* finished or paused as it was read, and grants the period's minutes once.  The
\* report may name a saved card; one named before is kept, as it was read.
SettleCapture(s, mandate) ==
  /\ s.result = "CAPTURED"
  /\ settling' = settling \ {s}
  /\ dues' = [dues EXCEPT ![s.payment].status = "CAPTURED"]
  /\ LET start == IF dues[s.payment].period = Never THEN subClock
                  ELSE dues[s.payment].period
     IN sub' = [sub EXCEPT
          !.status = IF s.row.status \in Finished \cup {"PAUSED"}
                     THEN s.row.status ELSE "ACTIVE",
          !.start = start, !.end = start + PeriodLength,
          !.mandate = mandate \/ s.row.mandate]
  /\ LET key == GrantKey(s.payment) IN
     /\ credit' = IF key \in granted THEN credit ELSE credit + MinutesPerPeriod
     /\ granted' = granted \cup {key}
  /\ UNCHANGED <<submitting, expiries, taken, outing, subClock>>

-----------------------------------------------------------------------------
(* The renewal sweep.                                                      *)

Attempts(end) == {p \in DOMAIN dues : dues[p].period = end}

Failed(end) == Cardinality({p \in Attempts(end) : dues[p].status = "FAILED"})

\* A plausible slip: an unanswered charge is waited for, however long.
IsOverWhenAnswered(end) ==
  /\ \A p \in Attempts(end) : ~Open(p)
  /\ \/ Failed(end) >= RenewalAttempts
     \/ subClock >= end + RenewalGrace
     \/ ~sub.mandate

\* The subscription has used its attempts, its grace or has no card.
IsOver(end) ==
  \/ Failed(end) >= RenewalAttempts
  \/ subClock >= end + RenewalGrace
  \/ ~sub.mandate

\* Payment_subscription_period_live_key, and what decide reads first.
LiveCharge(end) == \E p \in Attempts(end) : dues[p].status \in {"PENDING", "CAPTURED"}

\* expireSubscriptionMinutes: the whole balance goes, once for a period's end.
ExpireSubscriptionMinutes(end) ==
  IF credit = 0 \/ end \in expiries
  THEN UNCHANGED <<credit, expiries, taken>>
  ELSE /\ credit' = 0 /\ taken' = taken + credit
       /\ expiries' = expiries \cup {end}

\* decide, in one pass of sweepSubscriptions.
Decide ==
  LET end == sub.end
      captured == \E p \in Attempts(end) : dues[p].status = "CAPTURED"
  IN
  /\ sub.status \in {"ACTIVE", "PAUSED"} /\ end # Never /\ end <= subClock
  /\ ExpireSubscriptionMinutes(end)
  /\ CASE sub.ending ->
            /\ sub' = [sub EXCEPT !.status = "CANCELLED"]
            /\ UNCHANGED <<dues, submitting>>
       [] ~sub.ending /\ sub.status = "ACTIVE" /\ ~captured /\ IsOver(end) ->
            /\ sub' = [sub EXCEPT !.status = "EXPIRED"]
            /\ UNCHANGED <<dues, submitting>>
       [] /\ ~sub.ending /\ sub.status = "ACTIVE" /\ ~IsOver(end)
          /\ ~LiveCharge(end) /\ subClock >= end + Failed(end) * RetryGap ->
            /\ Len(dues) < MaxDues
            /\ dues' = Append(dues, Payment(end, FALSE))
            /\ submitting' = submitting \cup {Len(dues) + 1}
            /\ UNCHANGED sub
       [] OTHER -> UNCHANGED <<sub, dues, submitting>>
  /\ UNCHANGED <<settling, granted, outing, subClock>>

\* chargeSavedInstrument: the provider takes the charge ...
ChargeSavedInstrument(p) ==
  /\ submitting' = submitting \ {p}
  /\ dues' = [dues EXCEPT ![p].asked = TRUE]
  /\ UNCHANGED <<sub, settling, credit, granted, expiries, taken, outing, subClock>>

\* ... or not, and the attempt is recorded as failed, unless it was answered.
RecordUnsubmitted(p) ==
  /\ \A s \in settling : s.payment # p
  /\ submitting' = submitting \ {p}
  /\ dues' = [dues EXCEPT ![p].status = IF Open(p) THEN "FAILED" ELSE @]
  /\ UNCHANGED <<sub, settling, credit, granted, expiries, taken, outing, subClock>>

\* The realtime process dies between the two: the provider is never asked.
SweepDies ==
  /\ submitting # {}
  /\ submitting' = {}
  /\ UNCHANGED <<sub, dues, settling, credit, granted, expiries, taken, outing,
                 subClock>>

\* Settlements are quick.
SubTick ==
  /\ subClock < MaxSubClock
  /\ settling = {}
  /\ subClock' = subClock + 1
  /\ UNCHANGED <<sub, dues, settling, submitting, credit, granted, expiries, taken,
                 outing>>

SubNext ==
  \/ Subscribe \/ PauseMySubscription \/ ResumeMySubscription
  \/ CancelMySubscription
  \/ \E o \in Outings : SpendBookingMinutes(o) \/ ReleaseSpentMinutes(o)
  \/ \E p \in DOMAIN dues, result \in {"CAPTURED", "FAILED"} :
       ReadSubscription(p, result)
  \/ \E s \in settling : SettleFailure(s) \/ \E given \in BOOLEAN : SettleCapture(s, given)
  \/ Decide
  \/ \E p \in submitting : ChargeSavedInstrument(p) \/ RecordUnsubmitted(p)
  \/ SweepDies \/ SubTick

SubSpec == SubInit /\ [][SubNext]_subVars

\* The sweep runs every minute, a settlement runs to its end; the
\* provider need never answer.
SubFairness ==
  /\ WF_subVars(Decide)
  /\ WF_subVars(\E s \in settling :
       SettleFailure(s) \/ \E given \in BOOLEAN : SettleCapture(s, given))

SubFairSpec == SubSpec /\ SubFairness

-----------------------------------------------------------------------------
(* Properties.                                                             *)

\* Every row has its shape.
SubTypeOK ==
  /\ sub \in [status : {"none", "ACTIVE", "PAUSED"} \cup Finished,
              start : Nat, end : Nat, ending : BOOLEAN, mandate : BOOLEAN]
  /\ dues \in Seq([period : Nat, status : {"PENDING", "CAPTURED", "FAILED"},
                   asked : BOOLEAN])
  /\ \A s \in settling :
       /\ s.payment \in DOMAIN dues /\ Open(s.payment)
       /\ s.result \in {"CAPTURED", "FAILED"}
  /\ submitting \subseteq DOMAIN dues
  /\ credit \in Nat /\ taken \in Nat /\ subClock \in Nat
  /\ outing \in [Outings -> {"none", "spent", "returned"}]

Captured == {p \in DOMAIN dues : dues[p].status = "CAPTURED"}

\* Every captured payment granted one period's minutes and nothing else did,
\* and every minute granted is on the account, spent or expired: however often
\* the sweep runs, charges are retried and reports cross the customer's own
\* changes.
MinutesAreEarned ==
  /\ SubTypeOK
  /\ Cardinality(granted) = Cardinality(Captured)
  /\ credit + taken + Cardinality({o \in Outings : outing[o] = "spent"})
       = MinutesPerPeriod * Cardinality(granted)

Lapsed ==
  sub.status = "ACTIVE" /\ sub.end # Never /\ sub.end + RenewalGrace <= subClock

\* A subscription does not stay unfunded for longer than its grace, whether
\* its charge is answered, refused or was lost with the process that opened it.
LapsedIsResolved == Lapsed ~> ~Lapsed

=============================================================================
