------------------------------ MODULE Bookings ------------------------------
(***************************************************************************)
(* One customer's bookings at one observatory, from the reservation of a   *)
(* slot to the refund or reschedule of a lost one:                         *)
(*                                                                         *)
(*   the API reserves, settles, cancels, reschedules and refunds           *)
(*   (reserve.ts, settle.ts, manage.ts, entitlement.ts, refunds.ts), the   *)
(*   payment provider answers in its own time, and the realtime service's  *)
(*   sweep judges ended slots and refunds what was left open               *)
(*   (entitlements.ts).                                                    *)
(*                                                                         *)
(* A slot is paid for by a payment, a gift voucher, a card-draw prize or   *)
(* subscription minutes; points and a discount prize may come off a        *)
(* payment.  Each is abstracted to one unit: what a booking costs.         *)
(*                                                                         *)
(* Every request is a database transaction at READ COMMITTED.  One whose   *)
(* reads are all taken again under the locks it writes with is one action  *)
(* here; one that acts on a read no lock protects is a read action and a   *)
(* write action of the worker that carries it, with any other action in    *)
(* between.  A refused request writes nothing and is no action.            *)
(***************************************************************************)
EXTENDS Integers, FiniteSets, Bags

CONSTANTS
  MaxBookings,        \* rows of the Booking table in a behaviour
  MaxReservations,    \* those of them a reservation writes, and no reschedule
  Slots,              \* the starts on sale, in slot lengths
  SessionLength,      \* of every slot
  Turnaround,         \* SLOT_TURNAROUND_MINUTES
  MaxRescheduleChain, \* MAX_RESCHEDULE_CHAIN
  MaxJobs,            \* requests and sweeps under way at once
  Customers,          \* <<provider, wallet>> pairs to start from
  None

Bookings == 1..MaxBookings

Held == {"PENDING_PAYMENT", "CONFIRMED"}
Dropped == {"CANCELLED", "EXPIRED"}
Statuses == {"FREE", "REFUNDED"} \cup Held \cup Dropped

Results == {"CAPTURED", "FAILED"}
PaymentStatuses == {"NONE", "PENDING", "REFUNDED"} \cup Results

Outcomes == {"UNJUDGED", "NONE", "OPEN", "RESCHEDULED", "REFUNDED"}

\* What the customer has to spend besides money: a code, points or minutes.
Codes == {"GIFT", "FREE_SLOT", "DISCOUNT"}
Wallets == {"POINTS", "MINUTES"} \cup Codes
Providers == {"SANDBOX", "BOG_IPAY"}

ASSUME BookingsAssumption ==
  /\ MaxBookings \in Nat \ {0}
  /\ MaxReservations \in Nat
  /\ Slots \subseteq Nat
  /\ SessionLength \in Nat \ {0}
  /\ Turnaround \in Nat
  /\ MaxRescheduleChain \in Nat \ {0}
  /\ MaxJobs \in Nat
  /\ Customers \subseteq Providers \X Wallets
  /\ None \notin Bookings \cup Slots

VARIABLES
  \* the database
  booking,      \* each row of Booking; FREE before it exists
  payment,      \* status of each booking's payment
  entitlement,  \* of each booking: outcome, past its thirty days, moved to
  code,         \* the booking the code is REDEEMED on, None while ACTIVE
  loyalty,      \* LoyaltyLedgerEntry: <<kind, booking>>
  credits,      \* CreditLedger, of bookings: <<reason, booking>>
  minutes,      \* CreditAccount.balance, in slots
  withoutSlot,  \* bookings with a PAYMENT_CAPTURED_WITHOUT_SLOT row
  \* the bag of requests and sweeps that have read and not yet written
  jobs,
  \* the provider, the subscription and time
  provider,     \* the deployment's payment provider
  wallet,       \* what the customer started with
  opened,       \* bookings whose bank order was opened
  answers,      \* what the provider has said: <<booking, result>>
  period,       \* whether a subscription period is running
  past          \* slots that have ended

dbVars == <<booking, payment, entitlement, code, loyalty, credits, minutes,
            withoutSlot>>
envVars == <<provider, wallet, opened, answers, period, past>>
vars == <<dbVars, jobs, envVars>>

----------------------------------------------------------------------------
NoBooking == [status |-> "FREE", slot |-> None, points |-> FALSE,
              minutes |-> FALSE, missions |-> 0, lapsed |-> FALSE]

\* A row that is no longer a hold; only a hold lapses.
Become(row, status) == [row EXCEPT !.status = status, !.lapsed = FALSE]

Unjudged == [outcome |-> "UNJUDGED", expired |-> FALSE, to |-> None]

Init ==
  /\ booking = [b \in Bookings |-> NoBooking]
  /\ payment = [b \in Bookings |-> "NONE"]
  /\ entitlement = [b \in Bookings |-> Unjudged]
  /\ code = None
  /\ loyalty = {}
  /\ credits = {}
  /\ withoutSlot = {}
  /\ jobs = EmptyBag
  /\ \E c \in Customers : provider = c[1] /\ wallet = c[2]
  /\ opened = {}
  /\ answers = {}
  /\ period = (wallet = "MINUTES")
  /\ past = {}
  /\ minutes = IF period THEN 1 ELSE 0

----------------------------------------------------------------------------
(* The ledgers.                                                            *)

Entries(kind) == Cardinality({e \in loyalty : e[1] = kind})

\* LoyaltyAccount.balance: every entry of one booking moves one unit.
PointsBalance ==
  (IF wallet = "POINTS" THEN 1 ELSE 0)
    + Entries("PURCHASE_EARNED") + Entries("REDEMPTION_RELEASED")
    - Entries("REDEEMED") - Entries("PURCHASE_REVERSED")

\* Mutant: a booking that was paid for is passed over.
PointsReleasedUnpaid(bs) ==
  {<<"REDEMPTION_RELEASED", b>> :
     b \in {c \in bs : booking[c].points /\ payment[c] # "CAPTURED"}}

\* releaseRedeemedPoints, once for each of the bookings that spent points.
PointsReleased(bs) ==
  {<<"REDEMPTION_RELEASED", b>> : b \in {c \in bs : booking[c].points}}

\* releaseSpentMinutes: the bookings of bs whose minutes come back, which they
\* do while a period is running, once.
MinutesReleased(bs) ==
  {b \in bs : /\ booking[b].minutes
              /\ period
              /\ <<"REFUND", b>> \notin credits}

ReleaseMinutes(bs) ==
  /\ credits' = credits \cup {<<"REFUND", b>> : b \in MinutesReleased(bs)}
  /\ minutes' = minutes + Cardinality(MinutesReleased(bs))

\* releaseCardPrize: a prize is ACTIVE again if it was spent on one of bs.
PrizeReleased(bs) ==
  IF wallet # "GIFT" /\ code \in bs THEN None ELSE code

----------------------------------------------------------------------------
(* Reservations.                                                           *)

\* Row ids are given out in the order the rows are written.
Fresh(b) == /\ booking[b].status = "FREE"
            /\ \A c \in 1..(b - 1) : booking[c].status # "FREE"

\* expireLapsedHolds, which every reservation begins with.
Lapsed == {b \in Bookings : /\ booking[b].status = "PENDING_PAYMENT"
                            /\ booking[b].lapsed}

Swept(b) == IF b \in Lapsed THEN Become(booking[b], "EXPIRED")
            ELSE booking[b]

\* Booking_held_slot_exclusion: held intervals with the turnaround after them.
Overlap(s, t) == /\ s < t + SessionLength + Turnaround
                 /\ t < s + SessionLength + Turnaround

SlotIsFree(s) == \A b \in Bookings \ Lapsed :
                   booking[b].status \in Held => ~ Overlap(booking[b].slot, s)

\* A slot the generator offers and the exclusion constraint lets in.
Sellable(s) == s \in Slots \ past /\ SlotIsFree(s)

\* The rows a reservation of b writes: the sweep's, and its own.
Insert(b, row) ==
  booking' = [c \in Bookings |-> IF c = b THEN row ELSE Swept(c)]

Confirmed(s) == [NoBooking EXCEPT !.status = "CONFIRMED", !.slot = s,
                                  !.missions = 1]

\* One price reduction for each booking.
OneReduction(points, discount) == ~ (points /\ discount)

\* A code is worth what it was issued for: a DISCOUNT prize is taken off a
\* payment, a gift voucher or a FREE_SLOT prize is one.  It is claimed while it
\* is ACTIVE, the sweep's releases counted.
Claims(kinds) == wallet \in kinds /\ PrizeReleased(Lapsed) = None
TakesDiscount == Claims({"DISCOUNT"})
VoucherSpend == Claims({"GIFT", "FREE_SLOT"})

\* A hold and its payment; points are claimed against the balance.
ReserveSlot(b, s, points, discount) ==
  /\ Fresh(b) /\ Sellable(s)
  /\ OneReduction(points, discount)
  /\ points => PointsBalance + Cardinality(PointsReleased(Lapsed)) >= 1
  /\ discount => TakesDiscount
  /\ Insert(b, [NoBooking EXCEPT !.status = "PENDING_PAYMENT", !.slot = s,
                                 !.points = points])
  /\ payment' = [payment EXCEPT ![b] = "PENDING"]
  /\ code' = IF discount THEN b ELSE PrizeReleased(Lapsed)
  /\ loyalty' = loyalty \cup PointsReleased(Lapsed)
                        \cup (IF points THEN {<<"REDEEMED", b>>} ELSE {})
  /\ ReleaseMinutes(Lapsed)
  /\ UNCHANGED <<entitlement, withoutSlot, jobs, envVars>>

\* Paid by a gift voucher or a free-slot prize: confirmed at once.
ReserveWithVoucher(b, s) ==
  /\ Fresh(b) /\ Sellable(s)
  /\ VoucherSpend
  /\ Insert(b, Confirmed(s))
  /\ code' = b
  /\ loyalty' = loyalty \cup PointsReleased(Lapsed)
  /\ ReleaseMinutes(Lapsed)
  /\ UNCHANGED <<payment, entitlement, withoutSlot, jobs, envVars>>

\* spendBookingMinutes: a running period, and a balance that covers the slot.
CanSpendMinutes ==
  period /\ minutes + Cardinality(MinutesReleased(Lapsed)) >= 1

\* Paid with subscription minutes: confirmed at once.
ReserveWithMinutes(b, s) ==
  /\ Fresh(b) /\ Sellable(s)
  /\ CanSpendMinutes
  /\ Insert(b, [Confirmed(s) EXCEPT !.minutes = TRUE])
  /\ code' = PrizeReleased(Lapsed)
  /\ loyalty' = loyalty \cup PointsReleased(Lapsed)
  /\ credits' = credits \cup {<<"REFUND", c>> : c \in MinutesReleased(Lapsed)}
                        \cup {<<"MISSION_DEBIT", b>>}
  /\ minutes' = minutes + Cardinality(MinutesReleased(Lapsed)) - 1
  /\ UNCHANGED <<payment, entitlement, withoutSlot, jobs, envVars>>

----------------------------------------------------------------------------
(* Payment.                                                                *)

\* loadOwnPayment: the booking's payment, if it is with this provider.
OwnPayment(b, p) == payment[b] # "NONE" /\ provider = p

\* openBogCheckout: the bank's order, opened while the hold is.
HoldIsOpen(b) == /\ payment[b] = "PENDING"
                 /\ booking[b].status = "PENDING_PAYMENT"
                 /\ ~ booking[b].lapsed

OpenBogCheckout(b) ==
  /\ OwnPayment(b, "BOG_IPAY") /\ HoldIsOpen(b) /\ b \notin opened
  /\ opened' = opened \cup {b}
  /\ UNCHANGED <<dbVars, jobs, provider, wallet, answers, period, past>>

\* The bank settles its order once, whenever it does.
BankAnswers(b, r) ==
  /\ b \in opened
  /\ \A q \in Results : <<b, q>> \notin answers
  /\ answers' = answers \cup {<<b, r>>}
  /\ UNCHANGED <<dbVars, jobs, provider, wallet, opened, period, past>>

\* confirmSandboxCheckout as far as settlePayment: two open pages may each
\* answer, and differently.
SandboxAnswers(b, r) ==
  /\ OwnPayment(b, "SANDBOX") /\ HoldIsOpen(b)
  /\ <<b, r>> \notin answers
  /\ answers' = answers \cup {<<b, r>>}
  /\ UNCHANGED <<dbVars, jobs, provider, wallet, opened, period, past>>

\* releaseHeldSlot: an unpaid hold is given up, with what was spent on it.
ReleaseHeldSlot(b) ==
  /\ booking' = [booking EXCEPT ![b] = Become(@, "CANCELLED")]
  /\ payment' = [payment EXCEPT ![b] = "FAILED"]
  /\ code' = PrizeReleased({b})
  /\ loyalty' = loyalty \cup PointsReleased({b})
  /\ ReleaseMinutes({b})

\* Mutants: a swept hold, and a paid booking, still await their payment.
AwaitsUnswept(b) == booking[b].status \in {"PENDING_PAYMENT", "EXPIRED"}
\* The booking as it is read under its lock.
AwaitsPayment(b) == booking[b].status = "PENDING_PAYMENT"

\* An answer that has arrived for a payment nobody has settled.
Unsettled(b, r) == <<b, r>> \in answers /\ payment[b] = "PENDING"

\* settlePayment, which locks the payment and then the booking.  An answer is
\* delivered any number of times; once the payment is settled, one that repeats
\* the record is acknowledged and one that differs is refused, and neither
\* changes a row.
SettleFailed(b) ==
  /\ Unsettled(b, "FAILED")
  /\ \/ /\ AwaitsPayment(b)
        /\ ReleaseHeldSlot(b)
     \/ /\ ~ AwaitsPayment(b)
        /\ payment' = [payment EXCEPT ![b] = "FAILED"]
        /\ UNCHANGED <<booking, code, loyalty, credits, minutes>>
  /\ UNCHANGED <<entitlement, withoutSlot, jobs, envVars>>

SettleCaptured(b) ==
  /\ Unsettled(b, "CAPTURED")
  /\ payment' = [payment EXCEPT ![b] = "CAPTURED"]
  /\ \/ /\ AwaitsPayment(b)
        /\ booking' = [booking EXCEPT ![b] =
                          [Become(booking[b], "CONFIRMED")
                             EXCEPT !.missions = booking[b].missions + 1]]
        /\ loyalty' = loyalty \cup {<<"PURCHASE_EARNED", b>>}
        /\ UNCHANGED withoutSlot
     \/ /\ ~ AwaitsPayment(b)
        /\ withoutSlot' = withoutSlot \cup {b}
        /\ UNCHANGED <<booking, loyalty>>
  /\ UNCHANGED <<entitlement, code, credits, minutes, jobs, envVars>>

\* cancelMyBooking: only a hold that has not been paid.
CancelMyBooking(b) ==
  /\ AwaitsPayment(b)
  /\ ReleaseHeldSlot(b)
  /\ UNCHANGED <<entitlement, withoutSlot, jobs, envVars>>

----------------------------------------------------------------------------
(* Lost slots.                                                             *)

Start(j) == BagCardinality(jobs) < MaxJobs /\ jobs' = jobs (+) SetToBag({j})
Finish(j) == jobs' = jobs (-) SetToBag({j})

\* evaluateEndedSlots: what a confirmed booking's ended slot entitles it to,
\* judged from records that are still arriving, and written if nobody has.
JudgeRead(b, entitled) ==
  /\ booking[b].status = "CONFIRMED" /\ booking[b].slot \in past
  /\ entitlement[b].outcome = "UNJUDGED"
  /\ Start([op |-> "judge", on |-> b, entitled |-> entitled])
  /\ UNCHANGED <<dbVars, envVars>>

JudgeWrite(j) ==
  /\ j.op = "judge"
  /\ entitlement' =
       IF entitlement[j.on].outcome = "UNJUDGED"
       THEN [entitlement EXCEPT ![j.on].outcome =
               IF j.entitled THEN "OPEN" ELSE "NONE"]
       ELSE entitlement
  /\ Finish(j)
  /\ UNCHANGED <<booking, payment, code, loyalty, credits, minutes, withoutSlot,
                 envVars>>

\* What paid for booking b itself.
Tender(b) == CASE payment[b] # "NONE" -> "PAYMENT"
               [] code = b /\ wallet = "GIFT" -> "VOUCHER"
               [] code = b /\ wallet = "FREE_SLOT" -> "FREE_SLOT"
               [] booking[b].minutes -> "MINUTES"
               [] OTHER -> "NONE"

\* rescheduledFrom, None at the first booking of a chain.
RescheduledFrom(b) ==
  IF \E c \in Bookings : entitlement[c].to = b
  THEN CHOOSE c \in Bookings : entitlement[c].to = b
  ELSE None

\* Where n steps of back lead from b.
Walk(back, b, n) ==
  LET visited[i \in 0..n] == IF i = 0 THEN b ELSE back[visited[i - 1]]
  IN visited[n]

\* Mutant: only the booking itself is looked at.
PaidItself(b, n) == b

\* The booking at most n reschedules before b that something paid for.
PaidBooking(b, n) ==
  LET stop(c) == c = None \/ Tender(c) # "NONE"
      back == [c \in Bookings \cup {None} |->
                 IF stop(c) THEN c ELSE RescheduledFrom(c)]
  IN Walk(back, b, n)

\* refundEntitledBooking, for the customer or, past the thirty days, for the
\* sweep: which booking of the chain paid, read before anything is locked.
Refundable(p) == /\ p # None /\ Tender(p) # "NONE"
                 /\ Tender(p) = "PAYMENT" => /\ payment[p] = "CAPTURED"
                                             /\ provider = "SANDBOX"

RefundRead(b) ==
  LET p == PaidBooking(b, MaxRescheduleChain - 1) IN
  /\ entitlement[b].outcome = "OPEN"
  /\ Refundable(p)
  /\ Start([op |-> "refund", on |-> b, paid |-> p, by |-> Tender(p)])
  /\ UNCHANGED <<dbVars, envVars>>

\* Mutant: the entitlement is claimed as it was read.
OpenWhenRead(j) == TRUE

\* The conditional update that claims the entitlement.
StillOpen(j) == entitlement[j.on].outcome = "OPEN"

\* restoreVoucher, restoreFreeSlotPrize and returnMinutes: the paying booking
\* gets back what it spent; each release finds something only where it was.
CodeRestored(j) == IF j.by = "VOUCHER" THEN None ELSE PrizeReleased({j.paid})
ReturnMinutes(j) == ReleaseMinutes({j.paid})

RefundWrite(j) ==
  /\ j.op = "refund" /\ StillOpen(j)
  /\ entitlement' = [entitlement EXCEPT ![j.on].outcome = "REFUNDED",
                                        ![j.on].expired = FALSE]
  /\ booking' = [booking EXCEPT ![j.on].status = "REFUNDED"]
  /\ payment' = IF j.by = "PAYMENT"
                THEN [payment EXCEPT ![j.paid] = "REFUNDED"] ELSE payment
  /\ code' = CodeRestored(j)
  /\ loyalty' = loyalty \cup PointsReleased({j.paid})
                        \cup {<<"PURCHASE_REVERSED", e[2]>> :
                                e \in loyalty \cap
                                        {<<"PURCHASE_EARNED", j.paid>>}}
  /\ ReturnMinutes(j)
  /\ Finish(j)
  /\ UNCHANGED <<withoutSlot, envVars>>

\* rescheduleMyBooking: a slot on sale when it was read ...
RescheduleRead(b, s) ==
  /\ entitlement[b].outcome = "OPEN" /\ ~ entitlement[b].expired
  /\ s \in Slots \ past
  /\ Start([op |-> "reschedule", on |-> b, slot |-> s])
  /\ UNCHANGED <<dbVars, envVars>>

\* ... and a free booking of it, if the entitlement is still open.
RescheduleWrite(j, c) ==
  /\ j.op = "reschedule"
  /\ Fresh(c) /\ SlotIsFree(j.slot)
  /\ StillOpen(j)
  /\ Insert(c, Confirmed(j.slot))
  /\ entitlement' = [entitlement EXCEPT ![j.on] =
                       [outcome |-> "RESCHEDULED", expired |-> FALSE, to |-> c]]
  /\ code' = PrizeReleased(Lapsed)
  /\ loyalty' = loyalty \cup PointsReleased(Lapsed)
  /\ ReleaseMinutes(Lapsed)
  /\ Finish(j)
  /\ UNCHANGED <<payment, withoutSlot, envVars>>

\* The transaction rolled back: the entitlement or the slot had gone.
RequestRefused(j) ==
  /\ j.op \in {"refund", "reschedule"}
  /\ StillOpen(j) =>
       /\ j.op = "reschedule"
       /\ SlotIsFree(j.slot) => \A c \in Bookings : ~ Fresh(c)
  /\ Finish(j)
  /\ UNCHANGED <<dbVars, envVars>>

----------------------------------------------------------------------------
(* Time, and the subscription.                                             *)

HoldLapses(b) ==
  /\ booking[b].status = "PENDING_PAYMENT" /\ ~ booking[b].lapsed
  /\ booking' = [booking EXCEPT ![b].lapsed = TRUE]
  /\ UNCHANGED <<payment, entitlement, code, loyalty, credits, minutes,
                 withoutSlot, jobs, envVars>>

SlotEnds(s) ==
  /\ s \notin past /\ \A t \in Slots : t < s => t \in past
  /\ past' = past \cup {s}
  /\ UNCHANGED <<dbVars, jobs, provider, wallet, opened, answers, period>>

EntitlementExpires(b) ==
  /\ entitlement[b].outcome = "OPEN" /\ ~ entitlement[b].expired
  /\ entitlement' = [entitlement EXCEPT ![b].expired = TRUE]
  /\ UNCHANGED <<booking, payment, code, loyalty, credits, minutes, withoutSlot,
                 jobs, envVars>>

\* expireSubscriptionMinutes: what is left goes with the period.
PeriodEnds ==
  /\ period
  /\ period' = FALSE
  /\ minutes' = 0
  /\ UNCHANGED <<booking, payment, entitlement, code, loyalty, credits,
                 withoutSlot, jobs, provider, wallet, opened, answers, past>>

\* grantSubscriptionMinutes.
PeriodStarts ==
  /\ wallet = "MINUTES" /\ ~ period
  /\ period' = TRUE
  /\ minutes' = minutes + 1
  /\ UNCHANGED <<booking, payment, entitlement, code, loyalty, credits,
                 withoutSlot, jobs, provider, wallet, opened, answers, past>>

----------------------------------------------------------------------------
Rescheduled == {b \in Bookings : \E c \in Bookings : entitlement[c].to = b}

Reservation(b) ==
  /\ b <= MaxReservations + Cardinality(Rescheduled)
  /\ \E s \in Slots : \/ \E points, discount \in BOOLEAN :
                           ReserveSlot(b, s, points, discount)
                      \/ ReserveWithVoucher(b, s)
                      \/ ReserveWithMinutes(b, s)

Payment(b) == \/ OpenBogCheckout(b)
              \/ \E r \in Results : \/ BankAnswers(b, r)
                                    \/ SandboxAnswers(b, r)
              \/ SettleFailed(b)
              \/ SettleCaptured(b)
              \/ CancelMyBooking(b)

LostSlot(b) == \/ \E entitled \in BOOLEAN : JudgeRead(b, entitled)
               \/ RefundRead(b)
               \/ \E s \in Slots : RescheduleRead(b, s)

Write(j) == \/ JudgeWrite(j)
            \/ RefundWrite(j)
            \/ \E c \in Bookings : RescheduleWrite(j, c)
            \/ RequestRefused(j)

Time == \/ \E b \in Bookings : HoldLapses(b) \/ EntitlementExpires(b)
        \/ \E s \in Slots : SlotEnds(s)
        \/ PeriodEnds
        \/ PeriodStarts

Next == \/ \E b \in Bookings : Reservation(b) \/ Payment(b)
        \/ \E b \in Bookings : LostSlot(b)
        \/ \E j \in BagToSet(jobs) : Write(j)
        \/ Time

Spec == Init /\ [][Next]_vars

\* Time passes, the sweep comes round whatever else is under way, a request
\* that has read goes on to write, and the provider repeats its answer until
\* it is taken.
SweepRefundRead(b) == entitlement[b].expired /\ RefundRead(b)

WriteFor(b) == \E j \in BagToSet(jobs) : j.on = b /\ Write(j)

Fairness == \A b \in Bookings : /\ WF_vars(EntitlementExpires(b))
                                /\ SF_vars(SweepRefundRead(b))
                                /\ WF_vars(WriteFor(b))
                                /\ WF_vars(SettleCaptured(b))

FairSpec == Spec /\ Fairness

----------------------------------------------------------------------------
Rows == [status : Statuses, slot : Slots \cup {None}, points : BOOLEAN,
         minutes : BOOLEAN, missions : 0..1, lapsed : BOOLEAN]

Jobs == [op : {"judge"}, on : Bookings, entitled : BOOLEAN]
        \cup [op : {"refund"}, on : Bookings, paid : Bookings,
              by : {"PAYMENT", "VOUCHER", "FREE_SLOT", "MINUTES"}]
        \cup [op : {"reschedule"}, on : Bookings, slot : Slots]

\* Every row holds values of its columns' types: no booking has a second
\* mission (settle.ts), and the balance of minutes never goes below zero
\* (credits.ts).
TypeOK ==
  /\ booking \in [Bookings -> Rows]
  /\ payment \in [Bookings -> PaymentStatuses]
  /\ entitlement \in [Bookings -> [outcome : Outcomes, expired : BOOLEAN,
                                   to : Bookings \cup {None}]]
  /\ code \in Bookings \cup {None}
  /\ loyalty \subseteq {"REDEEMED", "REDEMPTION_RELEASED", "PURCHASE_EARNED",
                        "PURCHASE_REVERSED"} \X Bookings
  /\ credits \subseteq {"MISSION_DEBIT", "REFUND"} \X Bookings
  /\ minutes \in Nat
  /\ withoutSlot \subseteq Bookings
  /\ IsABag(jobs) /\ BagToSet(jobs) \subseteq Jobs
  /\ <<provider, wallet>> \in Customers
  /\ opened \subseteq Bookings
  /\ answers \subseteq Bookings \X Results
  /\ period \in BOOLEAN
  /\ past \subseteq Slots

\* No two bookings that hold a slot overlap, whatever lapses, is swept, sold
\* again and paid late.
OneHolderPerSlot ==
  \A b, c \in Bookings :
    b # c /\ booking[b].status \in Held /\ booking[c].status \in Held
      => ~ Overlap(booking[b].slot, booking[c].slot)

\* The first booking of b's reschedule chain, where it was paid for.
Origin(b) ==
  LET back == [c \in Bookings |-> IF RescheduledFrom(c) = None THEN c
                                   ELSE RescheduledFrom(c)]
  IN Walk(back, b, MaxBookings)

\* A booking the customer may still fly, or still claim something for.
Live(b) == /\ booking[b].status = "CONFIRMED"
           /\ entitlement[b].outcome \in {"UNJUDGED", "NONE", "OPEN"}

Refunded(b) == entitlement[b].outcome = "REFUNDED"

\* What was paid once is owed once: along a chain of reschedules one booking
\* is live or one was refunded, never both and never two of either, however
\* refundEntitledBooking, rescheduleMyBooking and the sweep race.
OneClaimPerTender ==
  \A b, c \in Bookings :
    b # c /\ (Live(b) \/ Refunded(b)) /\ (Live(c) \/ Refunded(c))
      => Origin(b) # Origin(c)

\* What pays for a live booking is still spent: its payment captured, its code
\* redeemed on it, its minutes debited and not returned.
TenderBacksBooking ==
  \A b \in Bookings : Live(b) =>
    LET p == Origin(b) IN
    \/ payment[p] = "CAPTURED"
    \/ code = p /\ wallet \in {"GIFT", "FREE_SLOT"}
    \/ /\ <<"MISSION_DEBIT", p>> \in credits
       /\ <<"REFUND", p>> \notin credits

\* Points and the code come back when the booking they were spent on is
\* dropped unpaid or refunded, and not before; what a refunded payment earned
\* goes with it.
GivenBackWhenDue ==
  \A b \in Bookings :
    LET over == \/ booking[b].status \in Dropped
                \/ \E c \in Bookings : Refunded(c) /\ Origin(c) = b
    IN
    /\ over => code # b
    /\ booking[b].points =>
         (over <=> <<"REDEMPTION_RELEASED", b>> \in loyalty)
    /\ <<"PURCHASE_EARNED", b>> \in loyalty =>
         (over <=> <<"PURCHASE_REVERSED", b>> \in loyalty)
    /\ payment[b] = "REFUNDED" => over

\* Captured money is a booking with its one mission, or a row that says there
\* was no slot to give for it; and no paid booking is confirmed without it.
CaptureAccounted ==
  \A b \in Bookings :
    /\ payment[b] \in {"CAPTURED", "REFUNDED"} =>
         \/ /\ booking[b].status \in {"CONFIRMED", "REFUNDED"}
            /\ booking[b].missions = 1
            /\ b \notin withoutSlot
         \/ /\ booking[b].status = "EXPIRED"
            /\ booking[b].missions = 0
            /\ b \in withoutSlot
            /\ <<"PURCHASE_EARNED", b>> \notin loyalty
    /\ booking[b].missions = 1 =>
         payment[b] \in {"NONE", "CAPTURED", "REFUNDED"}

\* Whatever crosses: one booking for a slot, each one paid for, and all the money
\* that was captured accounted for.
BookingsAreBacked ==
  TypeOK /\ OneHolderPerSlot /\ TenderBacksBooking /\ CaptureAccounted

\* An entitlement that was not paid through the bank does not stay open: the
\* customer uses it, or the sweep refunds it once its thirty days are over.
OpenEntitlementResolved ==
  \A b \in Bookings :
    (/\ entitlement[b].outcome = "OPEN"
     /\ payment[Origin(b)] # "NONE" => provider = "SANDBOX")
      ~> entitlement[b].outcome # "OPEN"

=============================================================================
