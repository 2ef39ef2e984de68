--------------------------- MODULE ObserverPacks ---------------------------
(***************************************************************************)
(* The seats an owner opens on a live mission: sold as observer packs      *)
(* (observer-pack.ts), settled by the payment provider (settle.ts), taken  *)
(* and given back (observers.ts), withdrawn and refunded when the owner    *)
(* closes the session (observers.ts, close-refund.ts).                     *)
(*                                                                         *)
(* Each action is one transaction.  What a handler read before its         *)
(* transaction -- that the mission was live, and the time -- is a request. *)
(***************************************************************************)
EXTENDS Naturals, Sequences, FiniteSets

CONSTANTS
  Buyers,
  PrizeHolders,       \* buyers who have won an OBSERVER_SEAT prize
  SeatCapacity,       \* Mission.observerCapacity
  PackPrice,
  SessionLength,      \* the session ends at this time
  MaxPackClock,
  MaxPackPayments

ASSUME PackAssumption ==
  /\ PrizeHolders \subseteq Buyers /\ IsFiniteSet(Buyers)
  /\ SeatCapacity \in Nat /\ PackPrice \in Nat \ {0}
  /\ SessionLength \in Nat /\ MaxPackClock \in Nat /\ MaxPackPayments \in Nat

VARIABLES
  flying,     \* the mission is in one of LIVE_MISSION_STATES
  observable, \* joinPolicy = OPEN
  ends,       \* whether sessionEnd finds an end
  provider,   \* the payment provider in use
  pack,       \* the ObserverPack row of each buyer
  charges,    \* the payments opened, in order
  seat,       \* the MissionParticipant row of each buyer
  prize,      \* the OBSERVER_SEAT prize of each buyer
  asked,      \* the request to open or close that has passed its first reads
  packClock,
  leftAlone,  \* history: who left by themselves and has not come back
  late        \* history: whose payment was captured while the session was closed

packVars == <<flying, observable, ends, provider, pack, charges, seat, prize,
              asked, packClock, leftAlone, late>>

SeatHolding == {"PENDING_PAYMENT", "PAID"}

NoPack == [status |-> "none", payment |-> 0, lapsed |-> FALSE, paidAt |-> 0,
           refunded |-> 0, owed |-> 0]

PackInit ==
  /\ flying = TRUE /\ observable = FALSE
  /\ ends \in BOOLEAN /\ provider \in {"SANDBOX", "BOG"}
  /\ pack = [b \in Buyers |-> NoPack]
  /\ charges = <<>>
  /\ seat = [b \in Buyers |-> "none"]
  /\ prize = [b \in Buyers |-> IF b \in PrizeHolders THEN "ACTIVE" ELSE "none"]
  /\ asked = {} /\ packClock = 0 /\ leftAlone = {} /\ late = {}

-----------------------------------------------------------------------------
(* Buying a seat.                                                          *)

\* expireLapsedPacks; the payment behind a lapsed hold stays PENDING.
ExpireLapsedPacks ==
  [b \in Buyers |->
     IF pack[b].status = "PENDING_PAYMENT" /\ pack[b].lapsed
     THEN [pack[b] EXCEPT !.status = "EXPIRED", !.lapsed = FALSE] ELSE pack[b]]

Held(packs) == Cardinality({b \in Buyers : packs[b].status \in SeatHolding})

\* The seat is held for the buyer, on the row of an earlier try if there is one.
HoldSeat(packs, b) ==
  [packs EXCEPT ![b].status = "PENDING_PAYMENT", ![b].payment = Len(charges) + 1,
                ![b].paidAt = 0]

OpenCharge(b) ==
  [buyer |-> b, status |-> "PENDING", earned |-> FALSE, seatless |-> FALSE]

\* purchaseObserverPack, paid for with money: the seat the buyer holds
\* already, none if the mission is full, or a hold and a payment of its own.
PurchaseObserverPack(b) ==
  /\ flying /\ observable
  /\ LET packs == ExpireLapsedPacks IN
     IF packs[b].status \in SeatHolding \/ Held(packs) >= SeatCapacity
     THEN pack' = packs /\ UNCHANGED charges
     ELSE /\ Len(charges) < MaxPackPayments
          /\ charges' = Append(charges, OpenCharge(b))
          /\ pack' = HoldSeat(packs, b)
  /\ UNCHANGED <<flying, observable, ends, provider, seat, prize, asked,
                 packClock, leftAlone, late>>

\* seatPaidByPrize: the same sale, with a prize.  A prize another request
\* spends first rolls the sale back.
SeatPaidByPrize(b) ==
  /\ flying /\ observable
  /\ LET packs == ExpireLapsedPacks IN
     IF \/ packs[b].status \in SeatHolding
        \/ Held(packs) >= SeatCapacity
        \/ prize[b] # "ACTIVE"
     THEN pack' = packs /\ UNCHANGED prize
     ELSE /\ prize' = [prize EXCEPT ![b] = "REDEEMED"]
          /\ pack' = [packs EXCEPT ![b].status = "PAID", ![b].payment = 0,
                                   ![b].paidAt = packClock]
  /\ UNCHANGED <<flying, observable, ends, provider, charges, seat, asked,
                 packClock, leftAlone, late>>

\* OBSERVER_PACK_HOLD_MINUTES pass.
PackHoldLapses(b) ==
  /\ pack[b].status = "PENDING_PAYMENT" /\ ~pack[b].lapsed
  /\ pack' = [pack EXCEPT ![b].lapsed = TRUE]
  /\ UNCHANGED <<flying, observable, ends, provider, charges, seat, prize,
                 asked, packClock, leftAlone, late>>

-----------------------------------------------------------------------------
(* The provider's answer.                                                  *)

\* lockOwnedPack: is the buyer's pack still the one this payment is for?
LockOwnedPack(p) == pack[charges[p].buyer].payment = p

\* seatCapturedPack: a hold that lapsed is seated if there is still room.
CanSeat(b) ==
  \/ pack[b].status = "PAID"
  \/ /\ flying
     /\ pack[b].status = "PENDING_PAYMENT" \/ Held(pack) < SeatCapacity

\* settleObserverPackPayment, for a payment not settled before.  A capture
\* with no seat to give is flagged OBSERVER_PACK_CAPTURED_WITHOUT_SEAT.
SettleCaptured(p) ==
  /\ charges[p].status = "PENDING"
  /\ LET b == charges[p].buyer
         seated == LockOwnedPack(p) /\ CanSeat(b)
     IN /\ charges' = [charges EXCEPT ![p].status = "CAPTURED",
                         ![p].earned = seated, ![p].seatless = ~seated]
        /\ pack' = IF seated
                   THEN [pack EXCEPT ![b].status = "PAID", ![b].lapsed = FALSE,
                                     ![b].paidAt = packClock]
                   ELSE pack
        /\ late' = IF observable THEN late ELSE late \cup {b}
  /\ UNCHANGED <<flying, observable, ends, provider, seat, prize, asked,
                 packClock, leftAlone>>

SettleFailed(p) ==
  /\ charges[p].status = "PENDING"
  /\ charges' = [charges EXCEPT ![p].status = "FAILED"]
  /\ LET b == charges[p].buyer IN
     pack' = IF LockOwnedPack(p) /\ pack[b].status = "PENDING_PAYMENT"
             THEN [pack EXCEPT ![b].status = "CANCELLED", ![b].lapsed = FALSE]
             ELSE pack
  /\ UNCHANGED <<flying, observable, ends, provider, seat, prize, asked,
                 packClock, leftAlone, late>>

-----------------------------------------------------------------------------
(* Taking a seat, and giving it back.                                      *)

Joined == {b \in Buyers : seat[b] = "JOINED"}

TakeObserverSeat(b) ==
  /\ flying /\ observable
  /\ pack[b].status = "PAID"
  /\ seat[b] # "JOINED"
  /\ Cardinality(Joined) < SeatCapacity
  /\ seat' = [seat EXCEPT ![b] = "JOINED"]
  /\ leftAlone' = leftAlone \ {b}
  /\ UNCHANGED <<flying, observable, ends, provider, pack, charges, prize,
                 asked, packClock, late>>

ReleaseObserverSeat(b) ==
  /\ seat[b] = "JOINED"
  /\ seat' = [seat EXCEPT ![b] = "LEFT"]
  /\ leftAlone' = leftAlone \cup {b}
  /\ UNCHANGED <<flying, observable, ends, provider, pack, charges, prize,
                 asked, packClock, late>>

-----------------------------------------------------------------------------
(* Opening and closing.                                                    *)

\* setMissionObservation reads the mission and the time ...
AskObservation(open) ==
  /\ flying
  /\ asked = {}
  /\ asked' = {[open |-> open, at |-> packClock]}
  /\ UNCHANGED <<flying, observable, ends, provider, pack, charges, seat,
                 prize, packClock, leftAlone, late>>

\* closeRefundMinor: the share of the time bought that the close takes,
\* rounded up.
CloseRefundMinor(paidAt, closedAt) ==
  IF closedAt >= SessionLength \/ paidAt >= SessionLength THEN 0
  ELSE LET remaining == SessionLength - closedAt
           bought == SessionLength - paidAt
       IN IF remaining >= bought THEN PackPrice
          ELSE (PackPrice * remaining + bought - 1) \div bought

\* A plausible slip: only whoever is watching is refunded.
TakenFromAttached(b) ==
  /\ pack[b].status = "PAID" /\ pack[b].refunded = 0 /\ pack[b].owed = 0
  /\ pack[b].payment # 0 /\ charges[pack[b].payment].status = "CAPTURED"
  /\ seat[b] = "JOINED"

\* The packs refundSeatsTakenByClose looks at.
TakenByClose(b) ==
  /\ pack[b].status = "PAID" /\ pack[b].refunded = 0 /\ pack[b].owed = 0
  /\ pack[b].payment # 0 /\ charges[pack[b].payment].status = "CAPTURED"
  /\ seat[b] # "LEFT"

Refund(b, closedAt) ==
  IF ends /\ TakenByClose(b) THEN CloseRefundMinor(pack[b].paidAt, closedAt) ELSE 0

\* refundSeatsTakenByClose: issued by the sandbox, owed by any other provider.
\* A refund of the whole price takes the payment and its points back.
RefundSeatsTakenByClose(closedAt) ==
  /\ pack' = [b \in Buyers |->
       IF provider = "SANDBOX"
       THEN [pack[b] EXCEPT !.refunded = @ + Refund(b, closedAt)]
       ELSE [pack[b] EXCEPT !.owed = @ + Refund(b, closedAt)]]
  /\ charges' = [p \in DOMAIN charges |->
       IF /\ provider = "SANDBOX" /\ LockOwnedPack(p)
          /\ Refund(charges[p].buyer, closedAt) = PackPrice
       THEN [charges[p] EXCEPT !.status = "REFUNDED", !.earned = FALSE]
       ELSE charges[p]]

\* ... and its transaction, under the mission's lock.
SetMissionObservation(r) ==
  /\ asked' = asked \ {r}
  /\ observable' = r.open
  /\ late' = IF r.open THEN {} ELSE late
  /\ IF r.open
     THEN UNCHANGED <<pack, charges, seat>>
     ELSE /\ RefundSeatsTakenByClose(r.at)
          /\ seat' = [b \in Buyers |-> IF seat[b] = "JOINED" THEN "LEFT" ELSE seat[b]]
  /\ UNCHANGED <<flying, ends, provider, prize, packClock, leftAlone>>

\* The mission reaches a terminal state.
ObservedMissionEnds ==
  /\ flying
  /\ flying' = FALSE
  /\ UNCHANGED <<observable, ends, provider, pack, charges, seat, prize, asked,
                 packClock, leftAlone, late>>

PackTick ==
  /\ packClock < MaxPackClock
  /\ packClock' = packClock + 1
  /\ UNCHANGED <<flying, observable, ends, provider, pack, charges, seat, prize,
                 asked, leftAlone, late>>

PackNext ==
  \/ \E b \in Buyers :
       \/ PurchaseObserverPack(b) \/ SeatPaidByPrize(b) \/ PackHoldLapses(b)
       \/ TakeObserverSeat(b) \/ ReleaseObserverSeat(b)
  \/ \E p \in DOMAIN charges : SettleCaptured(p) \/ SettleFailed(p)
  \/ \E open \in BOOLEAN : AskObservation(open)
  \/ \E r \in asked : SetMissionObservation(r)
  \/ ObservedMissionEnds \/ PackTick

PackSpec == PackInit /\ [][PackNext]_packVars

-----------------------------------------------------------------------------
(* Properties.                                                             *)

PackStatuses == {"none", "PENDING_PAYMENT", "PAID", "EXPIRED", "CANCELLED"}

\* Every row has its shape, and no refund exceeds the price.
PackTypeOK ==
  /\ flying \in BOOLEAN /\ observable \in BOOLEAN /\ ends \in BOOLEAN
  /\ provider \in {"SANDBOX", "BOG"}
  /\ pack \in [Buyers -> [status : PackStatuses, payment : 0..Len(charges),
                          lapsed : BOOLEAN, paidAt : Nat,
                          refunded : 0..PackPrice, owed : 0..PackPrice]]
  /\ charges \in Seq([buyer : Buyers, earned : BOOLEAN, seatless : BOOLEAN,
                      status : {"PENDING", "CAPTURED", "FAILED", "REFUNDED"}])
  /\ seat \in [Buyers -> {"none", "JOINED", "LEFT"}]
  /\ prize \in [Buyers -> {"none", "ACTIVE", "REDEEMED"}]
  /\ asked \subseteq [open : BOOLEAN, at : Nat]
  /\ packClock \in Nat /\ leftAlone \subseteq Buyers /\ late \subseteq Buyers

\* However purchases, prizes, lapsed holds and late captures fall, no more
\* seats are held or taken than the mission has; whoever watches has paid, and
\* nobody watches a session its owner has closed.
SeatsAreKept ==
  /\ Held(pack) <= SeatCapacity
  /\ Cardinality(Joined) <= SeatCapacity
  /\ \A b \in Joined : pack[b].status = "PAID" /\ observable

\* Captured money bought exactly what the record says: the payment a paid pack
\* carries, or one flagged as captured without a seat, and only the first kind
\* earns points.  A pack is paid by its own payment or by a prize.
PackMoneyAccounted ==
  /\ \A p \in DOMAIN charges : charges[p].status = "CAPTURED" =>
       LET carried == pack[charges[p].buyer].payment = p
                      /\ pack[charges[p].buyer].status = "PAID"
       IN charges[p].seatless = ~carried /\ charges[p].earned = carried
  /\ \A b \in Buyers : pack[b].status = "PAID" =>
       IF pack[b].payment = 0 THEN prize[b] = "REDEEMED"
       ELSE charges[pack[b].payment].status \in {"CAPTURED", "REFUNDED"}

\* While a session is closed with time left, nobody whose seat the close took
\* is still out of pocket, watching or not: every seat paid for with money has
\* its refund issued or owed, unless its holder had left by themselves.  A
\* capture that lands after the close keeps its seat and no refund until the
\* owner opens and closes again.
CloseIsMadeGood ==
  ~observable /\ ends /\ packClock < SessionLength =>
    \A b \in Buyers \ (leftAlone \cup late) :
      pack[b].status = "PAID" /\ pack[b].payment # 0 =>
        pack[b].refunded + pack[b].owed > 0

\* A seat that was paid for is kept, or made good when its owner closes.
PacksAreHonoured ==
  PackTypeOK /\ SeatsAreKept /\ PackMoneyAccounted /\ CloseIsMadeGood
=============================================================================
