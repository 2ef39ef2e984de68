------------------------------ MODULE Waitlist ------------------------------
(***************************************************************************)
(* The line for slots somebody else holds: joining, leaving and reserving  *)
(* at the API (waitlist.ts, reserve.ts), and the pass of the realtime      *)
(* service that ends places, lapses offers and offers a freed slot to the  *)
(* first in line (packages/db/waitlist.ts).                                *)
(*                                                                         *)
(* A pass reads and writes one entry at a time, with nothing locked in     *)
(* between; a reservation reads the offers before its transaction.  Both   *)
(* are therefore two steps here, at any distance from each other.          *)
(***************************************************************************)
EXTENDS Naturals, Sequences, FiniteSets

CONSTANTS
  Persons,
  Places,            \* a slot: <<start, length with the turnaround>>
  Passes,            \* passes that may run at once
  MaxActivePlaces, OfferLength, HoldLength,
  MaxLine, MaxAsks, MaxLineClock

ASSUME WaitlistAssumption ==
  /\ Persons # {} /\ Places \subseteq Nat \X Nat
  /\ MaxActivePlaces \in Nat /\ OfferLength \in Nat \ {0} /\ HoldLength \in Nat
  /\ MaxLine \in Nat /\ MaxAsks \in Nat /\ MaxLineClock \in Nat

VARIABLES
  line,       \* the WaitlistEntry rows, in the order people joined
  booked,     \* the bookings that are confirmed or still to be paid
  asking,     \* reservations past the check of the offers
  pass,       \* each pass: what it has read and has left to look at
  offers,     \* offers made so far
  asks,       \* reservations asked for so far
  lineClock

lineVars == <<line, booked, asking, pass, offers, asks, lineClock>>

Forever == MaxLineClock + HoldLength + 1   \* a confirmed booking has no expiry

Overlap(a, b) == a[1] < b[1] + b[2] /\ b[1] < a[1] + a[2]

ActivePlace == {"WAITING", "OFFERED"}

Idle == [stage |-> "idle", now |-> 0, todo |-> <<>>, found |-> "none"]

LineInit ==
  /\ line = <<>> /\ asking = {} /\ offers = 0 /\ asks = 0
  /\ \E p \in Places :
       booked = {[user |-> CHOOSE u \in Persons : TRUE, place |-> p,
                  until |-> Forever, seen |-> 0]}
  /\ pass = [p \in Passes |-> Idle]
  /\ lineClock = 0

\* bookingsHolding: confirmed, or reserved and not lapsed at the reader's now.
BookingsHolding(place, now) ==
  {b \in booked : Overlap(b.place, place) /\ b.until > now}

\* offersAround: open offers that overlap a slot, for anybody but one person.
OffersAround(place, now, user) ==
  {e \in DOMAIN line : /\ line[e].status = "OFFERED" /\ line[e].expires > now
                       /\ line[e].user # user /\ Overlap(line[e].place, place)}

-----------------------------------------------------------------------------
(* The API.                                                                *)

Active(u) == {e \in DOMAIN line : line[e].user = u /\ line[e].status \in ActivePlace}

JoinWaitlist(u, place) ==
  /\ Len(line) < MaxLine
  /\ place[1] > lineClock
  /\ LET holders == BookingsHolding(place, lineClock) IN
       holders # {} /\ \A b \in holders : b.user # u
  /\ Cardinality(Active(u)) < MaxActivePlaces
  \* WaitlistEntry_active_place_key
  /\ \A e \in Active(u) : line[e].place[1] # place[1]
  /\ line' = Append(line, [user |-> u, place |-> place, status |-> "WAITING",
                           expires |-> 0, number |-> 0])
  /\ UNCHANGED <<booked, asking, pass, offers, asks, lineClock>>

LeaveWaitlist(e) ==
  /\ line[e].status \in ActivePlace
  /\ line' = [line EXCEPT ![e].status = "LEFT"]
  /\ UNCHANGED <<booked, asking, pass, offers, asks, lineClock>>

\* reserveSlot: a slot being offered to somebody else is refused ...
LetThrough(u, place) == OffersAround(place, lineClock, u) = {}

AskForSlot(u, place) ==
  /\ place[1] > lineClock
  /\ asks < MaxAsks /\ asks' = asks + 1
  /\ LetThrough(u, place)
  /\ asking' = asking \cup
       {[user |-> u, place |-> place, until |-> lineClock + HoldLength,
         seen |-> offers]}
  /\ UNCHANGED <<line, booked, pass, offers, lineClock>>

\* ... and the transaction inserts the booking, or the exclusion constraint
\* refuses it; holds that have lapsed are expired first.
ReserveSlot(a) ==
  /\ asking' = asking \ {a}
  /\ LET live == {b \in booked : b.until > lineClock} IN
     booked' = IF \E b \in live : Overlap(b.place, a.place) THEN live
               ELSE live \cup {a}
  /\ UNCHANGED <<line, pass, offers, asks, lineClock>>

\* A payment is captured, or a booking is cancelled.
Confirmed(b) ==
  /\ b.until # Forever
  /\ booked' = (booked \ {b}) \cup {[b EXCEPT !.until = Forever]}
  /\ UNCHANGED <<line, asking, pass, offers, asks, lineClock>>

GivenUp(b) ==
  /\ booked' = booked \ {b}
  /\ UNCHANGED <<line, asking, pass, offers, asks, lineClock>>

-----------------------------------------------------------------------------
(* sweepWaitlist.                                                          *)

\* The entries of a set in the order people joined: one sequence, as a set.
InOrder(S) ==
  {order \in [1..Cardinality(S) -> S] : \A i, j \in DOMAIN order : i < j => order[i] < order[j]}

\* Places whose slot has started end; the active ones are read.
BeginPass(p) ==
  /\ pass[p].stage = "idle"
  /\ LET ends == {e \in DOMAIN line : /\ line[e].status \in ActivePlace
                                      /\ line[e].place[1] <= lineClock}
         left == {e \in DOMAIN line \ ends : line[e].status \in ActivePlace}
     IN /\ line' = [e \in DOMAIN line |->
             IF e \in ends THEN [line[e] EXCEPT !.status = "ENDED"] ELSE line[e]]
        /\ \E order \in InOrder(left) :
             pass' = [pass EXCEPT ![p] =
               [stage |-> "active", now |-> lineClock, found |-> "none",
                todo |-> [i \in DOMAIN order |->
                   [entry |-> order[i], status |-> line[order[i]].status]]]]
  /\ UNCHANGED <<booked, asking, offers, asks, lineClock>>

\* Does the person hold the slot themselves; has the offer run out?
LookAtEntry(p) ==
  /\ pass[p].stage = "active" /\ pass[p].todo # <<>> /\ pass[p].found = "none"
  /\ LET e == line[Head(pass[p].todo).entry]
         mine == \E b \in BookingsHolding(e.place, pass[p].now) : b.user = e.user
         over == Head(pass[p].todo).status = "OFFERED" /\ e.expires <= pass[p].now
     IN pass' = [pass EXCEPT ![p].found =
          IF mine THEN "CLAIMED" ELSE IF over THEN "LAPSED" ELSE "as it is"]
  /\ UNCHANGED <<line, booked, asking, offers, asks, lineClock>>

\* The conditional update, and on to the next.
UpdateEntry(p) ==
  LET h == Head(pass[p].todo) IN
  /\ pass[p].stage = "active" /\ pass[p].todo # <<>> /\ pass[p].found # "none"
  /\ line' = IF pass[p].found # "as it is" /\ line[h.entry].status = h.status
             THEN [line EXCEPT ![h.entry].status = pass[p].found] ELSE line
  /\ pass' = [pass EXCEPT ![p].todo = Tail(@), ![p].found = "none"]
  /\ UNCHANGED <<booked, asking, offers, asks, lineClock>>

\* The first WAITING place of every start.
FirstOfEachStart(W) ==
  {e \in W : \A d \in W : line[d].place[1] = line[e].place[1] => e <= d}

ReadWaiting(p) ==
  /\ pass[p].stage = "active" /\ pass[p].todo = <<>>
  /\ LET waiting == {e \in DOMAIN line : /\ line[e].status = "WAITING"
                                         /\ line[e].place[1] > pass[p].now}
     IN \E order \in InOrder(FirstOfEachStart(waiting)) :
          pass' = [pass EXCEPT ![p].stage = "waiting", ![p].todo = order]
  /\ UNCHANGED <<line, booked, asking, offers, asks, lineClock>>

OfferedAt(start) ==
  {e \in DOMAIN line : line[e].status = "OFFERED" /\ line[e].place[1] = start}

\* Plausible slips: an offer of an overlapping slot is not looked for, or one
\* that was turned down still counts.
FreeOfOffersHere(e, now) ==
  OfferedAt(line[e].place[1]) = {} /\ BookingsHolding(line[e].place, now) = {}

FreeOfPastOffers(e, now) ==
  /\ \A d \in DOMAIN line : line[d].place[1] = line[e].place[1] => line[d].number = 0
  /\ BookingsHolding(line[e].place, now) = {}
  /\ OffersAround(line[e].place, now, line[e].user) = {}

\* Nobody was offered this start, holds the slot or was offered one across it.
FreeToOffer(e, now) ==
  /\ OfferedAt(line[e].place[1]) = {}
  /\ BookingsHolding(line[e].place, now) = {}
  /\ OffersAround(line[e].place, now, line[e].user) = {}

LookAtSlot(p) ==
  /\ pass[p].stage = "waiting" /\ pass[p].todo # <<>> /\ pass[p].found = "none"
  /\ pass' = [pass EXCEPT ![p] =
       IF FreeToOffer(Head(@.todo), @.now) THEN [@ EXCEPT !.found = "free"]
       ELSE [@ EXCEPT !.todo = Tail(pass[p].todo)]]
  /\ UNCHANGED <<line, booked, asking, offers, asks, lineClock>>

\* The offer, if the place still waits and no other pass offered the start
\* (WaitlistEntry_one_offer_per_slot_key).
MakeOffer(p) ==
  LET e == Head(pass[p].todo) IN
  /\ pass[p].stage = "waiting" /\ pass[p].found = "free"
  /\ IF line[e].status = "WAITING" /\ OfferedAt(line[e].place[1]) = {}
     THEN /\ line' = [line EXCEPT ![e].status = "OFFERED",
                        ![e].expires = pass[p].now + OfferLength,
                        ![e].number = offers + 1]
          /\ offers' = offers + 1
     ELSE UNCHANGED <<line, offers>>
  /\ pass' = [pass EXCEPT ![p].todo = Tail(@), ![p].found = "none"]
  /\ UNCHANGED <<booked, asking, asks, lineClock>>

EndPass(p) ==
  /\ pass[p].stage = "waiting" /\ pass[p].todo = <<>>
  /\ pass' = [pass EXCEPT ![p] = Idle]
  /\ UNCHANGED <<line, booked, asking, offers, asks, lineClock>>

PassStep(p) ==
  \/ BeginPass(p) \/ LookAtEntry(p) \/ UpdateEntry(p)
  \/ ReadWaiting(p) \/ LookAtSlot(p) \/ MakeOffer(p) \/ EndPass(p)

LineTick ==
  /\ lineClock < MaxLineClock
  /\ lineClock' = lineClock + 1
  /\ UNCHANGED <<line, booked, asking, pass, offers, asks>>

LineNext ==
  \/ \E u \in Persons, place \in Places : JoinWaitlist(u, place) \/ AskForSlot(u, place)
  \/ \E e \in DOMAIN line : LeaveWaitlist(e)
  \/ \E a \in asking : ReserveSlot(a)
  \/ \E b \in booked : Confirmed(b) \/ GivenUp(b)
  \/ \E p \in Passes : PassStep(p)
  \/ LineTick

LineSpec == LineInit /\ [][LineNext]_lineVars

\* The pass runs every minute and each of its statements returns.
LineFairness == \A p \in Passes : WF_lineVars(PassStep(p))

LineFairSpec == LineSpec /\ LineFairness

-----------------------------------------------------------------------------
(* Properties.                                                             *)

\* Every row has its shape, and the offers are counted as they are made.
LineTypeOK ==
  /\ \A e \in DOMAIN line :
       /\ line[e].user \in Persons /\ line[e].place \in Places
       /\ line[e].status \in ActivePlace \cup {"CLAIMED", "LAPSED", "ENDED", "LEFT"}
       /\ (line[e].number > 0) <=> (line[e].expires > 0)
  /\ offers = Cardinality({e \in DOMAIN line : line[e].number > 0})
  /\ \A b \in booked \cup asking : b.user \in Persons /\ b.place \in Places

OpenOffer(e) == line[e].status = "OFFERED" /\ line[e].expires > lineClock

\* An offer can be taken up: no other person's booking that was asked for after
\* the offer was made lies across it, and nobody else's open offer does, which
\* would refuse both to both of their holders.
OfferCanBeTaken ==
  \A e \in DOMAIN line : OpenOffer(e) =>
    /\ \A b \in booked : (b.user # line[e].user /\ Overlap(b.place, line[e].place))
         => b.seen < line[e].number
    /\ \A d \in DOMAIN line :
         (OpenOffer(d) /\ Overlap(line[d].place, line[e].place))
           => line[d].user = line[e].user

\* An offer goes to the first in the line for its start.
FirstInLineFirst ==
  \A e, d \in DOMAIN line :
    (line[e].status = "OFFERED" /\ line[d].status = "WAITING"
       /\ line[d].place[1] = line[e].place[1]) => e < d

\* An offer is an honest one: made in turn, and open to whoever has it.
OffersAreHonest == LineTypeOK /\ OfferCanBeTaken /\ FirstInLineFirst

\* The first in its line, of a slot still to come that is free and not offered.
Deserved(e) ==
  /\ e \in DOMAIN line /\ line[e].status = "WAITING" /\ line[e].place[1] > lineClock
  /\ \A d \in DOMAIN line : (line[d].status = "WAITING"
       /\ line[d].place[1] = line[e].place[1]) => e <= d
  /\ BookingsHolding(line[e].place, lineClock) = {}
  /\ {d \in DOMAIN line : line[d].status = "OFFERED"} = {}

\* A freed slot is offered: the first in its line does not wait for ever for a
\* slot that nobody holds and nobody was offered.
FreedSlotIsOffered == []<>(\A e \in 1..MaxLine : ~Deserved(e))
=============================================================================
