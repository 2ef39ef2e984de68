------------------------------ MODULE CardDraws ------------------------------
(***************************************************************************)
(* The weekly card draw of one observatory (features/cards/draw.ts).  A    *)
(* first read of the week deals three cards in one transaction: each       *)
(* legendary card takes one of the week's free slots by a conditional      *)
(* update that keeps the week's row locked until the transaction ends, and *)
(* the unique key on (user, observatory, week) lets one deal of a customer *)
(* commit.  A pick turns a card, issues its prize and gives the unchosen   *)
(* free slots back.  A prize is spent by a conditional update and comes    *)
(* back when the booking it paid for did not happen (card-prizes.ts).      *)
(*                                                                         *)
(* Transactions are READ COMMITTED, as everywhere in the API, so a         *)
(* transaction is a sequence of actions, one per statement that can meet   *)
(* another transaction.  Faces of the cards, codes and e-mails are left    *)
(* out.                                                                    *)
(***************************************************************************)
EXTENDS Integers, Sequences, FiniteSets, FiniteSetsExt

CONSTANTS
  Players,       \* customers with a verified account
  Reads,         \* requests that may deal: GET /card-draws/current
  Spends,        \* bookings and packs that may be paid for with a prize
  NoPlayer,      \* what an idle request or an unspent prize refers to
  Rolls,         \* the rarities the scheme gives a chance (rarityOfRoll)
  Cards,         \* cards of a deal (three in the code)
  FreeSlotsPerWeek, \* the scheme's weekly cap
  PrizeValid,    \* clock steps a prize lives for
  RestoredMin,   \* what is left of a prize at least when a refund restores it
  WeekLength,    \* the clock at which the week closes
  MaxDrawClock   \* bound: how far the clock is followed

ASSUME CardDrawsAssumption ==
  /\ Rolls \subseteq {"LEGENDARY", "EPIC", "RARE", "COMMON"}
  /\ NoPlayer \notin Players \cup Spends \cup Reads
  /\ IsFiniteSet(Players)
  /\ {Cards, FreeSlotsPerWeek, PrizeValid, RestoredMin, WeekLength, MaxDrawClock} \subseteq Nat
  /\ Cards > 0

VARIABLES
  drawClock,     \* the time, in steps
  freeSlotsHeld, \* CardDrawWeek.freeSlotsHeld, as committed
  deals,         \* the committed deal of each player: its cards and the pick
  prizes,        \* the prize of each player's deal
  dealing,       \* requests inside readCurrentCardDraw
  weekLock,      \* the transaction that holds the lock of the CardDrawWeek row
  paidBy,        \* for each booking or pack, whose prize it is paid with
  spending       \* reservations between their look at a prize and their claim

drawVars == <<drawClock, freeSlotsHeld, deals, prizes, dealing, weekLock, paidBy, spending>>

\* CardRarity and the prize each holds (draw.ts PRIZE_OF).
PRIZE_OF == [LEGENDARY |-> "FREE_SLOT", EPIC |-> "OBSERVER_SEAT", RARE |-> "DISCOUNT", COMMON |-> "NONE"]
Rarities == DOMAIN PRIZE_OF

NoDeal == [cards |-> << >>, picked |-> 0]
NoPrize == [kind |-> "NONE", status |-> "NONE", expires |-> 0, spentOn |-> NoPlayer]
IdleRead == [player |-> NoPlayer, cards |-> << >>, took |-> 0]

IdleSpend == [player |-> NoPlayer, at |-> 0]

Dealt(u) == deals[u].cards # << >>
Legendary(cards) == Cardinality({i \in DOMAIN cards : cards[i] = "LEGENDARY"})

DrawInit ==
  /\ drawClock = 0
  /\ freeSlotsHeld = 0
  /\ deals = [u \in Players |-> NoDeal]
  /\ prizes = [u \in Players |-> NoPrize]
  /\ dealing = [r \in Reads |-> IdleRead]
  /\ weekLock = NoPlayer
  /\ paidBy = [s \in Spends |-> NoPlayer]
  /\ spending = [s \in Spends |-> IdleSpend]

(***************************************************************************)
(* Dealing                                                                 *)
(***************************************************************************)
\* The read finds no deal of the week and opens the transaction; one that
\* finds a deal answers with it and changes nothing.
BeginDeal(r, u) ==
  /\ dealing[r] = IdleRead
  /\ drawClock < WeekLength
  /\ ~Dealt(u)
  /\ dealing' = [dealing EXCEPT ![r].player = u]
  /\ UNCHANGED <<drawClock, freeSlotsHeld, deals, prizes, weekLock, paidBy, spending>>

\* takeFreeSlot's UPDATE counts below the cap only. Its WHERE sees the
\* committed count and the transaction's own increments: at the cap it
\* answers at once, below it waits for the row's lock and looks again.
FreeSlotLeft(r) == freeSlotsHeld + dealing[r].took < FreeSlotsPerWeek

\* One card is rolled; a legendary one takes a free slot, or is a discount
\* when none is left.
RollCard(r) ==
  /\ dealing[r].player # NoPlayer
  /\ Len(dealing[r].cards) < Cards
  /\ \E rolled \in Rolls :
       \/ /\ rolled # "LEGENDARY"
          /\ dealing' = [dealing EXCEPT ![r].cards = Append(@, rolled)]
          /\ UNCHANGED weekLock
       \/ /\ rolled = "LEGENDARY"
          /\ FreeSlotLeft(r)
          /\ weekLock \in {NoPlayer, r}
          /\ dealing' = [dealing EXCEPT ![r].cards = Append(@, "LEGENDARY"), ![r].took = @ + 1]
          /\ weekLock' = r
       \/ /\ rolled = "LEGENDARY"
          /\ ~FreeSlotLeft(r)
          /\ dealing' = [dealing EXCEPT ![r].cards = Append(@, "RARE")]
          /\ UNCHANGED weekLock
  /\ UNCHANGED <<drawClock, freeSlotsHeld, deals, prizes, paidBy, spending>>

\* The transaction ends: the week's row is unlocked.
EndDeal(r) ==
  /\ dealing' = [dealing EXCEPT ![r] = IdleRead]
  /\ weekLock' = IF weekLock = r THEN NoPlayer ELSE weekLock

\* Mutant of CommitDeal: the count is written outside the transaction.
CommitDealKeepingTheCount(r) ==
  LET u == dealing[r].player IN
  /\ u # NoPlayer
  /\ Len(dealing[r].cards) = Cards
  /\ EndDeal(r)
  /\ deals' = IF Dealt(u) THEN deals ELSE [deals EXCEPT ![u].cards = dealing[r].cards]
  /\ freeSlotsHeld' = freeSlotsHeld + dealing[r].took
  /\ UNCHANGED <<drawClock, prizes, paidBy, spending>>

\* The deal is created and committed with the count it took; when the other
\* read of this customer has dealt, the unique key rolls all of it back.
CommitDeal(r) ==
  LET u == dealing[r].player IN
  /\ u # NoPlayer
  /\ Len(dealing[r].cards) = Cards
  /\ EndDeal(r)
  /\ IF Dealt(u)
     THEN UNCHANGED <<deals, freeSlotsHeld>>
     ELSE /\ deals' = [deals EXCEPT ![u].cards = dealing[r].cards]
          /\ freeSlotsHeld' = freeSlotsHeld + dealing[r].took
  /\ UNCHANGED <<drawClock, prizes, paidBy, spending>>

(***************************************************************************)
(* Picking                                                                 *)
(***************************************************************************)
\* The free slots of the cards that were not chosen.
Unchosen(u, position) == Legendary(deals[u].cards) - (IF deals[u].cards[position] = "LEGENDARY" THEN 1 ELSE 0)

\* The deal's row is locked; a deal already picked or closed is refused. The
\* prize is issued and what is given back waits for the week's row.
PickCard(u, position) ==
  /\ Dealt(u)
  /\ deals[u].picked = 0
  /\ drawClock < WeekLength
  /\ deals' = [deals EXCEPT ![u].picked = position]
  /\ LET kind == PRIZE_OF[deals[u].cards[position]] IN
     prizes' = IF kind = "NONE" THEN prizes
               ELSE [prizes EXCEPT ![u] = [kind |-> kind, status |-> "ACTIVE",
                                           expires |-> drawClock + PrizeValid, spentOn |-> NoPlayer]]
  /\ \/ /\ Unchosen(u, position) = 0
        /\ UNCHANGED freeSlotsHeld
     \/ /\ Unchosen(u, position) > 0
        /\ weekLock = NoPlayer
        /\ freeSlotsHeld' = Max({freeSlotsHeld - Unchosen(u, position), 0})
  /\ UNCHANGED <<drawClock, dealing, weekLock, paidBy, spending>>

(***************************************************************************)
(* Spending                                                                *)
(***************************************************************************)
\* A prize its winner can spend at a time.
Spendable(u, now) == prizes[u].status = "ACTIVE" /\ prizes[u].expires > now

\* A reservation looks its code up before its transaction.
FindSpendablePrize(s, u) ==
  /\ spending[s] = IdleSpend
  /\ paidBy[s] = NoPlayer
  /\ Spendable(u, drawClock)
  /\ spending' = [spending EXCEPT ![s] = [player |-> u, at |-> drawClock]]
  /\ UNCHANGED <<drawClock, freeSlotsHeld, deals, prizes, dealing, weekLock, paidBy>>

\* Mutant of Claimable: the lookup is believed.
ClaimableAsFound(s) == TRUE

\* claimPrize's condition, evaluated on the row as it stands, against the
\* time the request came in.
Claimable(s) == Spendable(spending[s].player, spending[s].at)

\* The claim in the booking's transaction: without it the booking is rolled
\* back and nothing is paid.
ClaimPrize(s) ==
  LET u == spending[s].player IN
  /\ u # NoPlayer
  /\ spending' = [spending EXCEPT ![s] = IdleSpend]
  /\ IF Claimable(s)
     THEN /\ prizes' = [prizes EXCEPT ![u].status = "REDEEMED", ![u].spentOn = s]
          /\ paidBy' = [paidBy EXCEPT ![s] = u]
     ELSE UNCHANGED <<prizes, paidBy>>
  /\ UNCHANGED <<drawClock, freeSlotsHeld, deals, dealing, weekLock>>

\* The booking's hold lapses or its payment fails (HOLD_RELEASED), or it is
\* refunded (BOOKING_REFUNDED): the prize spent on it is ACTIVE again, and a
\* refund leaves it RestoredMin to live.
ReleaseCardPrize(s, cause) ==
  LET u == paidBy[s] IN
  /\ u # NoPlayer
  /\ paidBy' = [paidBy EXCEPT ![s] = NoPlayer]
  /\ IF prizes[u].status = "REDEEMED" /\ prizes[u].spentOn = s
     THEN prizes' = [prizes EXCEPT
            ![u].status = "ACTIVE", ![u].spentOn = NoPlayer,
            ![u].expires = IF cause = "BOOKING_REFUNDED" THEN Max({@, drawClock + RestoredMin}) ELSE @]
     ELSE UNCHANGED prizes
  /\ UNCHANGED <<drawClock, freeSlotsHeld, deals, dealing, weekLock, spending>>

DrawTick ==
  /\ drawClock < MaxDrawClock
  /\ drawClock' = drawClock + 1
  /\ UNCHANGED <<freeSlotsHeld, deals, prizes, dealing, weekLock, paidBy, spending>>

DrawNext ==
  \/ \E r \in Reads : \/ \E u \in Players : BeginDeal(r, u)
                      \/ RollCard(r)
                      \/ CommitDeal(r)
  \/ \E u \in Players, position \in 1..Cards : PickCard(u, position)
  \/ \E s \in Spends : \/ \E u \in Players : FindSpendablePrize(s, u)
                       \/ ClaimPrize(s)
                       \/ \E cause \in {"HOLD_RELEASED", "BOOKING_REFUNDED"} : ReleaseCardPrize(s, cause)
  \/ DrawTick

DrawSpec == DrawInit /\ [][DrawNext]_drawVars

(***************************************************************************)
(* Properties                                                              *)
(***************************************************************************)
CardSeqs == UNION {[1..n -> Rarities] : n \in 0..Cards}

\* Every row has the columns of its table.
DrawTypeOK ==
  /\ drawClock \in 0..MaxDrawClock
  /\ freeSlotsHeld \in Nat
  /\ deals \in [Players -> [cards : CardSeqs, picked : 0..Cards]]
  /\ prizes \in [Players -> [kind : {PRIZE_OF[c] : c \in Rarities}, status : {"NONE", "ACTIVE", "REDEEMED"},
                             expires : Nat, spentOn : Spends \cup {NoPlayer}]]
  /\ dealing \in [Reads -> [player : Players \cup {NoPlayer}, cards : CardSeqs, took : 0..Cards]]
  /\ weekLock \in Reads \cup {NoPlayer}
  /\ paidBy \in [Spends -> Players \cup {NoPlayer}]
  /\ spending \in [Spends -> [player : Players \cup {NoPlayer}, at : 0..MaxDrawClock]]

\* The cards whose free slots are kept from the week: the legendary ones of a
\* deal while none is turned, then the one that was picked.
KeptFromWeek ==
  {card \in Players \X (1..Cards) :
     LET deal == deals[card[1]] IN
     /\ card[2] \in DOMAIN deal.cards /\ deal.cards[card[2]] = "LEGENDARY"
     /\ deal.picked \in {0, card[2]}}

\* The week's count is what the deals of the week keep, and within the cap:
\* racing first reads, rolled back deals and picks neither lose a free slot
\* nor give one away twice (takeFreeSlot, pickCard).
FreeSlotsAccounted ==
  /\ freeSlotsHeld = Cardinality(KeptFromWeek)
  /\ freeSlotsHeld <= FreeSlotsPerWeek

\* A prize pays for one booking at a time, the one its row names, however
\* reservations and refunds of it interleave (claimPrize, releaseCardPrize).
PrizePaysOnce ==
  \A s \in Spends : paidBy[s] # NoPlayer =>
    /\ prizes[paidBy[s]].status = "REDEEMED"
    /\ prizes[paidBy[s]].spentOn = s

\* What is drawn is accounted for, from the deal to the booking it pays.
PrizesAccounted == DrawTypeOK /\ FreeSlotsAccounted /\ PrizePaysOnce
=============================================================================
