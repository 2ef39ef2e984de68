------------------------------- MODULE Loyalty -------------------------------
(***************************************************************************)
(* The loyalty ledger (packages/db/loyalty.ts) under the transactions that *)
(* write it: reservations that spend points, lapsed holds that give them   *)
(* back, settled payments that earn them and reward a referral, refunds    *)
(* that reverse them, the welcome bonus and an operator's adjustment.      *)
(*                                                                         *)
(* A transaction is a list of entries to post.  Each is posted in the      *)
(* three statements of postLoyaltyEntry: look for the same source, move    *)
(* the account (which locks its row until the transaction ends), insert    *)
(* the entry unless a concurrent writer did, in which case the move is     *)
(* undone.  Transactions are READ COMMITTED and lock accounts in the order *)
(* of their lists; when two wait for each other, as lapsing holds and a    *)
(* rewarded referral can, the database ends one.                           *)
(***************************************************************************)
EXTENDS Integers, Sequences, FiniteSets

CONSTANTS
  Members,       \* customers with a loyalty account
  Referrer,      \* who referred a member, or Noone
  Sales,         \* bookings, each with the payment that pays for it
  Buyer,         \* whose booking it is
  Txs,           \* transactions that may be open at a time
  Noone,         \* no member, no transaction
  EarnedPoints,  \* what a payment earns
  RedeemedPoints,\* what a booking may spend
  BonusPoints,   \* welcome and referral bonus, and an operator's adjustment
  TierThreshold  \* purchase points of the second tier

ASSUME LoyaltyAssumption ==
  /\ Referrer \in [Members -> Members \cup {Noone}]
  /\ Buyer \in [Sales -> Members] /\ IsFiniteSet(Sales)
  /\ Noone \notin Members \cup Txs
  /\ {EarnedPoints, RedeemedPoints, BonusPoints, TierThreshold} \subseteq Nat \ {0}

VARIABLES
  ledger,    \* the entries committed
  accounts,  \* balance, purchase points, tier and whether the referral is rewarded
  locks,     \* which transaction has locked an account's row
  sales,     \* status of each booking and the points it spent
  txs        \* the open transactions

loyaltyVars == <<ledger, accounts, locks, sales, txs>>

\* tierFor: the highest tier whose threshold the purchase points reach.
TierFor(points) == IF points >= TierThreshold THEN 2 ELSE 1

NewAccount == [balance |-> 0, tierPoints |-> 0, tier |-> 1, rewarded |-> FALSE]

\* work: what is left to post; own: the accounts as this transaction has
\* changed them; wrote: its entries; sets: the bookings it holds locked, with
\* the state they have once it commits.
NoSale == [k \in {} |-> [status |-> "NONE", redeemed |-> 0]]
IdleTx == [work |-> << >>, step |-> "idle", own |-> [u \in {} |-> NewAccount], wrote |-> {}, sets |-> NoSale]

LoyaltyInit ==
  /\ ledger = {}
  /\ accounts = [u \in Members |-> NewAccount]
  /\ locks = [u \in Members |-> Noone]
  /\ sales = [k \in Sales |-> [status |-> "NONE", redeemed |-> 0]]
  /\ txs = [x \in Txs |-> IdleTx]

(***************************************************************************)
(* The transactions that post                                              *)
(***************************************************************************)
Entry(kind, user, ref, points, tierPoints) ==
  [kind |-> kind, user |-> user, ref |-> ref, points |-> points, tierPoints |-> tierPoints]

\* Entries that are refused rather than taking the balance below zero.
RefusesOverdraft(e) == e.kind \in {"REDEEMED", "ADMIN_ADJUSTMENT"}

BeginTx(x, work, sets) ==
  /\ txs[x] = IdleTx
  /\ \A y \in Txs, k \in DOMAIN sets : k \notin DOMAIN txs[y].sets
  /\ txs' = [txs EXCEPT ![x] = [IdleTx EXCEPT !.work = work, !.step = "look", !.sets = sets]]
  /\ UNCHANGED <<ledger, accounts, locks, sales>>

\* A reservation, after its early look at the balance.
ReserveWithPoints(x, k) ==
  /\ sales[k].status = "NONE"
  /\ accounts[Buyer[k]].balance >= RedeemedPoints
  /\ BeginTx(x, <<Entry("REDEEMED", Buyer[k], k, -RedeemedPoints, 0)>>, [j \in {k} |-> [status |-> "HELD", redeemed |-> RedeemedPoints]])

ReserveWithoutPoints(x, k) ==
  /\ sales[k].status = "NONE"
  /\ BeginTx(x, << >>, [j \in {k} |-> [status |-> "HELD", redeemed |-> 0]])

\* releaseRedeemedPoints, for a booking that did not happen and spent some.
GiveBack(k) == Entry("REDEMPTION_RELEASED", Buyer[k], k, sales[k].redeemed, 0)
Release(k) == IF sales[k].redeemed > 0 THEN <<GiveBack(k)>> ELSE << >>

\* The orders in which the rows of some bookings may come.
Listings(K) == {order \in [1..Cardinality(K) -> K] : \A k \in K : \E i \in DOMAIN order : order[i] = k}

\* expireLapsedHolds: the holds that have lapsed, of several customers and in
\* the order the rows come, lose their slot in one transaction.
ExpireLapsedHolds(x) ==
  \E lapsed \in SUBSET {k \in Sales : sales[k].status = "HELD"} \ {{}} :
    \E order \in Listings({k \in lapsed : sales[k].redeemed > 0}) :
      BeginTx(x, [i \in DOMAIN order |-> GiveBack(order[i])],
              [k \in lapsed |-> [sales[k] EXCEPT !.status = "EXPIRED"]])

\* A captured payment of a held booking earns, and rewards a referral
\* (earnOnSettledPayment, rewardReferralOnFirstPaidBooking).
SettleSale(x, k) ==
  /\ sales[k].status = "HELD"
  /\ BeginTx(x, <<Entry("PURCHASE_EARNED", Buyer[k], k, EarnedPoints, EarnedPoints),
                  Entry("CLAIM_REFERRAL", Buyer[k], k, 0, 0)>>,
             [j \in {k} |-> [sales[k] EXCEPT !.status = "CONFIRMED"]])

\* reverseLoyaltyForRefund takes back exactly what the earn entry recorded.
RefundSale(x, k) ==
  /\ sales[k].status = "CONFIRMED"
  /\ LET earned == {e \in ledger : e.kind = "PURCHASE_EARNED" /\ e.ref = k}
         reversal == [i \in 1..Cardinality(earned) |->
                        LET e == CHOOSE e \in earned : TRUE
                        IN  Entry("PURCHASE_REVERSED", e.user, k, -e.points, -e.tierPoints)]
     IN  BeginTx(x, reversal \o Release(k), [j \in {k} |-> [sales[k] EXCEPT !.status = "REFUNDED"]])

\* markEmailVerified, by whichever link proves the mailbox first.
Welcome(x, u) == BeginTx(x, <<Entry("WELCOME_BONUS", u, u, BonusPoints, 0)>>, NoSale)

\* adjustLoyaltyPoints, which an operator may send again with the same id.
AdjustPoints(x, u) == BeginTx(x, <<Entry("ADMIN_ADJUSTMENT", u, u, -BonusPoints, 0)>>, NoSale)

(***************************************************************************)
(* postLoyaltyEntry, statement by statement                                *)
(***************************************************************************)
Key(e) == <<e.user, e.kind, e.ref>>
Written(x, e) == \E f \in ledger \cup txs[x].wrote : Key(f) = Key(e)
Account(x, u) == IF u \in DOMAIN txs[x].own THEN txs[x].own[u] ELSE accounts[u]
Changed(own, u, acc) == [v \in DOMAIN own \cup {u} |-> IF v = u THEN acc ELSE own[v]]

WorkDone(tx) == [tx EXCEPT !.work = Tail(tx.work), !.step = "look"]
Moved(acc, points, tierPoints) == [acc EXCEPT !.balance = acc.balance + points, !.tierPoints = acc.tierPoints + tierPoints]

\* The entry is looked for; one already recorded is not posted again.
LookForEntry(x) ==
  /\ txs[x].step = "look"
  /\ txs[x].work # << >>
  /\ Head(txs[x].work).kind # "CLAIM_REFERRAL"
  /\ txs' = [txs EXCEPT ![x] = IF Written(x, Head(txs[x].work)) THEN WorkDone(txs[x])
                                    ELSE [txs[x] EXCEPT !.step = "move"]]
  /\ UNCHANGED <<ledger, accounts, locks, sales>>

LockAccount(x, u) ==
  /\ locks[u] \in {Noone, x}
  /\ locks' = [locks EXCEPT ![u] = x]

RollBack(x) ==
  /\ txs' = [txs EXCEPT ![x] = IdleTx]
  /\ locks' = [u \in Members |-> IF locks[u] = x THEN Noone ELSE locks[u]]
  /\ UNCHANGED <<ledger, accounts, sales>>

\* The condition of the spend's update, on the row as it stands.
Covered(x, e) == e.points >= 0 \/ ~RefusesOverdraft(e) \/ Account(x, e.user).balance >= -e.points

\* The account is moved. A spend that is not covered moves nothing: the
\* reservation is rolled back, the adjustment answered with a refusal.
MoveAccount(x) ==
  LET e == Head(txs[x].work) IN
  /\ txs[x].step = "move"
  /\ \/ /\ Covered(x, e)
        /\ LockAccount(x, e.user)
        /\ txs' = [txs EXCEPT ![x] = [txs[x] EXCEPT !.step = "write",
             !.own = Changed(txs[x].own, e.user, Moved(Account(x, e.user), e.points, e.tierPoints))]]
        /\ UNCHANGED <<ledger, accounts, sales>>
     \/ /\ ~Covered(x, e)
        /\ RollBack(x)

\* The transaction with the entry recorded: the tier follows the purchase
\* points. With the entry recorded by a concurrent writer: the move is undone.
Posted(tx, e) ==
  [WorkDone(tx) EXCEPT !.wrote = tx.wrote \cup {e},
                       !.own = Changed(tx.own, e.user, [tx.own[e.user] EXCEPT !.tier = TierFor(tx.own[e.user].tierPoints)])]
Undone(tx, e) ==
  [WorkDone(tx) EXCEPT !.own = Changed(tx.own, e.user, Moved(tx.own[e.user], -e.points, -e.tierPoints))]

\* Mutant of InsertEntry: a duplicate is skipped with the account moved.
InsertEntryNoUndo(x) ==
  LET e == Head(txs[x].work) IN
  /\ txs[x].step = "write"
  /\ txs' = [txs EXCEPT ![x] = IF Written(x, e) THEN WorkDone(txs[x]) ELSE Posted(txs[x], e)]
  /\ UNCHANGED <<ledger, accounts, locks, sales>>

\* The entry is inserted with ON CONFLICT DO NOTHING.
InsertEntry(x) ==
  LET e == Head(txs[x].work) IN
  /\ txs[x].step = "write"
  /\ txs' = [txs EXCEPT ![x] = IF Written(x, e) THEN Undone(txs[x], e) ELSE Posted(txs[x], e)]
  /\ UNCHANGED <<ledger, accounts, locks, sales>>

\* rewardReferralOnFirstPaidBooking: nobody referred this member, or the
\* reward was given; otherwise it is claimed on the member's row and both
\* sides get the bonus.
ClaimReferral(x) ==
  LET u == Head(txs[x].work).user
      bonus(v) == Entry("REFERRAL_BONUS", v, u, BonusPoints, 0) IN
  /\ txs[x].step = "look"
  /\ txs[x].work # << >>
  /\ Head(txs[x].work).kind = "CLAIM_REFERRAL"
  /\ \/ /\ Referrer[u] = Noone \/ Account(x, u).rewarded
        /\ txs' = [txs EXCEPT ![x] = WorkDone(txs[x])]
        /\ UNCHANGED locks
     \/ /\ Referrer[u] # Noone /\ ~Account(x, u).rewarded
        /\ LockAccount(x, u)
        /\ txs' = [txs EXCEPT ![x] = [txs[x] EXCEPT
             !.work = <<bonus(u), bonus(Referrer[u])>> \o Tail(txs[x].work),
             !.own = Changed(txs[x].own, u, [Account(x, u) EXCEPT !.rewarded = TRUE])]]
  /\ UNCHANGED <<ledger, accounts, sales>>

CommitTx(x) ==
  /\ txs[x].step = "look"
  /\ txs[x].work = << >>
  /\ ledger' = ledger \cup txs[x].wrote
  /\ accounts' = [u \in Members |-> Account(x, u)]
  /\ sales' = [k \in Sales |-> IF k \in DOMAIN txs[x].sets THEN txs[x].sets[k] ELSE sales[k]]
  /\ locks' = [u \in Members |-> IF locks[u] = x THEN Noone ELSE locks[u]]
  /\ txs' = [txs EXCEPT ![x] = IdleTx]

\* The account row a transaction is about to lock.
WaitsFor(x) ==
  IF txs[x].step = "move" THEN locks[Head(txs[x].work).user] ELSE Noone

\* Two transactions that wait for each other: the database ends one, and its
\* caller (a payment's callback, a reservation) sends it again.
DeadlockVictim(x) ==
  /\ \E y \in Txs \ {x} : WaitsFor(x) = y /\ WaitsFor(y) = x
  /\ RollBack(x)

PostStep(x) == LookForEntry(x) \/ MoveAccount(x) \/ InsertEntry(x) \/ ClaimReferral(x) \/ CommitTx(x) \/ DeadlockVictim(x)

LoyaltyNext ==
  \/ \E x \in Txs, k \in Sales :
       ReserveWithPoints(x, k) \/ ReserveWithoutPoints(x, k) \/ SettleSale(x, k) \/ RefundSale(x, k)
  \/ \E x \in Txs : ExpireLapsedHolds(x)
  \/ \E x \in Txs, u \in Members : Welcome(x, u) \/ AdjustPoints(x, u)
  \/ \E x \in Txs : PostStep(x)

LoyaltySpec == LoyaltyInit /\ [][LoyaltyNext]_loyaltyVars

(***************************************************************************)
(* Properties                                                              *)
(***************************************************************************)
\* What a column of entries adds up to: its units counted, credits less debits.
Units(column) == UNION {{e} \X (1..column[e]) : e \in DOMAIN column}
Total(column) == Cardinality(Units(column)) - Cardinality(Units([e \in DOMAIN column |-> -column[e]]))
PointsOf(entries) == Total([e \in entries |-> e.points])
TierPointsOf(entries) == Total([e \in entries |-> e.tierPoints])

\* Every row has the columns of its table, and a lock is an open
\* transaction's.
LoyaltyTypeOK ==
  /\ accounts \in [Members -> [balance : Int, tierPoints : Int, tier : {1, 2}, rewarded : BOOLEAN]]
  /\ \A u \in Members : locks[u] # Noone => txs[locks[u]].step # "idle"
  /\ sales \in [Sales -> [status : {"NONE", "HELD", "EXPIRED", "CONFIRMED", "REFUNDED"}, redeemed : Nat]]
  /\ \A x \in Txs : txs[x].step \in {"idle", "look", "move", "write"}

\* An account is the sum of its entries and its tier that of its purchase
\* points, whatever was posted twice, undone or rolled back, and a booking
\* that did not happen has cost no points.  Only a refund takes a balance
\* below zero: spends racing for one balance are not both granted
\* (postLoyaltyEntry, refuseNegativeBalance).
LedgerAddsUp ==
  /\ LoyaltyTypeOK
  /\ \A u \in Members :
       LET mine == {e \in ledger : e.user = u} IN
       /\ accounts[u].balance = PointsOf(mine)
       /\ accounts[u].tierPoints = TierPointsOf(mine)
       /\ accounts[u].tier = TierFor(accounts[u].tierPoints)
       /\ accounts[u].balance < 0 => \E e \in mine : e.kind = "PURCHASE_REVERSED"
  /\ \A k \in Sales :
       PointsOf({e \in ledger : e.ref = k /\ e.kind \in {"REDEEMED", "REDEMPTION_RELEASED"}})
         = IF sales[k].status \in {"HELD", "CONFIRMED"} THEN -sales[k].redeemed ELSE 0

=============================================================================
