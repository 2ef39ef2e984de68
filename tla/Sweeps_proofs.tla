--------------------------- MODULE Sweeps_proofs ---------------------------
(***************************************************************************)
(* Proofs about what the realtime service's timers do behind the           *)
(* customers' backs: Subscriptions, for every length of a period, number   *)
(* of attempts, gap, grace and finite set of bookings paid with minutes;   *)
(* EmailOutbox, for every finite set of emails and every set of passes     *)
(* that run at once; Waitlist, for every set of people and slots and every *)
(* length of an offer and of a hold, one pass at a time.                   *)
(***************************************************************************)
EXTENDS Subscriptions, EmailOutbox, Waitlist, FiniteSetTheorems, TLAPS

-----------------------------------------------------------------------------
(* Subscriptions.                                                          *)

Rows == [status : {"none", "ACTIVE", "PAUSED"} \cup Finished,
         start : Nat, end : Nat, ending : BOOLEAN, mandate : BOOLEAN]
Charges == [period : Nat, status : {"PENDING", "CAPTURED", "FAILED"}, asked : BOOLEAN]

\* A settlement is of a payment still open, and of no other's payment.
SettlingOK ==
  /\ \A s \in settling : s.row \in Rows
  /\ \A s, t \in settling : s.payment = t.payment => s = t

\* Payment_subscription_period_live_key: a period has one charge that is not
\* refused.
OneLiveCharge ==
  \A p, q \in DOMAIN dues :
    /\ dues[p].period = dues[q].period /\ dues[p].period # Never
    /\ dues[p].status # "FAILED" /\ dues[q].status # "FAILED"
    => p = q

\* The key of a grant names the captured payment it is for.
KeysOK ==
  \A k \in granted :
    \/ \E p \in Captured : k[2] = p
    \/ /\ k[2] = 0
       /\ \E p \in Captured : dues[p].period = k[1] /\ k[1] # Never

SpentOutings == {o \in Outings : outing[o] = "spent"}

\* The account: what was granted is there, spent or expired.
Balanced ==
  /\ IsFiniteSet(granted)
  /\ Cardinality(granted) = Cardinality(Captured)
  /\ credit + taken + Cardinality(SpentOutings) = MinutesPerPeriod * Cardinality(granted)

SubInv == SubTypeOK /\ SettlingOK /\ OneLiveCharge /\ KeysOK /\ Balanced

\* The captured payments and the bookings paid with minutes are finitely many.
LEMMA SubFinite ==
  ASSUME SubTypeOK
  PROVE  /\ IsFiniteSet(Captured) /\ IsFiniteSet(SpentOutings)
         /\ Cardinality(Captured) \in Nat /\ Cardinality(SpentOutings) \in Nat
<1>1. DOMAIN dues = 1..Len(dues) /\ Len(dues) \in Nat
  BY DEF SubTypeOK
<1>2. IsFiniteSet(DOMAIN dues)
  BY <1>1, FS_Interval
<1>3. Captured \in SUBSET DOMAIN dues /\ SpentOutings \in SUBSET Outings
  BY DEF Captured, SpentOutings
<1>4. IsFiniteSet(Captured) /\ IsFiniteSet(SpentOutings)
  BY <1>2, <1>3, FS_Subset, SubAssumption
<1> QED BY <1>4, FS_CardinalityType

\* Every payment is one.
LEMMA DuesType ==
  ASSUME SubTypeOK
  PROVE  /\ dues \in Seq(Charges) /\ DOMAIN dues = 1..Len(dues) /\ Len(dues) \in Nat
         /\ \A p \in DOMAIN dues : dues[p] \in Charges
         /\ \A p \in DOMAIN dues : dues[p].status \in {"PENDING", "CAPTURED", "FAILED"}
<1>1. dues \in Seq(Charges)
  BY DEF SubTypeOK, Charges
<1>2. DOMAIN dues = 1..Len(dues) /\ Len(dues) \in Nat
  BY <1>1
<1>3. \A p \in DOMAIN dues : dues[p] \in Charges
  BY ONLY <1>1, <1>2
<1> QED BY <1>1, <1>2, <1>3 DEF Charges

\* Nobody has subscribed at the start.
LEMMA SubInitially == SubInit => SubInv
<1> SUFFICES ASSUME SubInit PROVE SubInv
  OBVIOUS
<1>1. NoSubscription \in Rows
  BY DEF NoSubscription, Rows, Never
<1>2. SubTypeOK
  <2>1. sub \in Rows
    BY <1>1 DEF SubInit
  <2>2. dues \in Seq(Charges) /\ settling = {} /\ submitting = {}
    BY DEF SubInit
  <2>3. /\ credit \in Nat /\ taken \in Nat /\ subClock \in Nat
        /\ outing \in [Outings -> {"none", "spent", "returned"}]
    BY DEF SubInit
  <2> QED BY <2>1, <2>2, <2>3 DEF SubTypeOK, Rows, Charges
<1>3. SettlingOK /\ OneLiveCharge /\ KeysOK
  BY DEF SubInit, SettlingOK, OneLiveCharge, KeysOK
<1>4. Captured = {} /\ SpentOutings = {} /\ granted = {} /\ credit = 0 /\ taken = 0
  BY DEF SubInit, Captured, SpentOutings
<1>5. Balanced
  BY <1>4, FS_EmptySet, SubAssumption DEF Balanced
<1> QED BY <1>2, <1>3, <1>5 DEF SubInv

\* Steps that change neither a payment nor the account.
LEMMA AccountSame ==
  ASSUME SubInv, SubTypeOK', UNCHANGED <<dues, credit, taken, granted, outing>>
  PROVE  OneLiveCharge' /\ KeysOK' /\ Balanced'
<1>1. Captured' = Captured /\ SpentOutings' = SpentOutings
  BY DEF Captured, SpentOutings
<1> QED BY <1>1 DEF SubInv, OneLiveCharge, KeysOK, Balanced

\* A payment's status that leaves PENDING for FAILED grants and costs nothing.
LEMMA RefusedCharge ==
  ASSUME SubInv, NEW p \in DOMAIN dues, Open(p), dues' = [dues EXCEPT ![p].status = "FAILED"]
  PROVE  /\ DOMAIN dues' = DOMAIN dues /\ dues' \in Seq(Charges)
         /\ Captured' = Captured /\ OneLiveCharge'
         /\ \A q \in DOMAIN dues : dues'[q].period = dues[q].period
         /\ \A q \in DOMAIN dues : q # p => dues'[q] = dues[q]
<1>1. dues \in Seq(Charges) /\ dues[p] \in Charges
  BY DuesType DEF SubInv
<1>2. dues' = [dues EXCEPT ![p] = [dues[p] EXCEPT !.status = "FAILED"]]
  BY <1>1
<1>3. [dues[p] EXCEPT !.status = "FAILED"] \in Charges
  BY <1>1 DEF Charges
<1>4. DOMAIN dues' = DOMAIN dues /\ dues' \in Seq(Charges)
  BY <1>1, <1>2, <1>3
<1>5. /\ dues'[p].period = dues[p].period /\ dues'[p].status = "FAILED"
      /\ \A q \in DOMAIN dues : q # p => dues'[q] = dues[q]
  BY <1>1, <1>2 DEF Charges
<1>6. Captured' = Captured
  BY <1>4, <1>5 DEF Captured, Open
<1>7. OneLiveCharge'
  BY <1>4, <1>5 DEF OneLiveCharge, SubInv
<1> QED BY <1>4, <1>5, <1>6, <1>7

\* A payment that is new is open, and the period's only live one.
LEMMA NewCharge ==
  ASSUME SubInv, NEW c \in Charges, c.status = "PENDING",
         c.period # Never => ~LiveCharge(c.period), dues' = Append(dues, c)
  PROVE  /\ dues' \in Seq(Charges) /\ DOMAIN dues' = DOMAIN dues \cup {Len(dues) + 1}
         /\ Len(dues) + 1 \notin DOMAIN dues
         /\ \A q \in DOMAIN dues : dues'[q] = dues[q]
         /\ Captured' = Captured /\ OneLiveCharge'
<1>1. dues \in Seq(Charges) /\ Len(dues) \in Nat /\ DOMAIN dues = 1..Len(dues)
  BY DEF SubInv, SubTypeOK, Charges
<1>2. /\ dues' \in Seq(Charges) /\ DOMAIN dues' = DOMAIN dues \cup {Len(dues) + 1}
      /\ Len(dues) + 1 \notin DOMAIN dues
      /\ \A q \in DOMAIN dues : dues'[q] = dues[q]
      /\ dues'[Len(dues) + 1] = c
  BY <1>1
<1>3. Captured' = Captured
  BY <1>2 DEF Captured
<1>4. \A q \in DOMAIN dues : c.period # Never /\ dues[q].period = c.period
        => dues[q].status = "FAILED"
  <2>1. \A q \in DOMAIN dues : dues[q].status \in {"PENDING", "CAPTURED", "FAILED"}
    BY DuesType DEF SubInv
  <2> QED BY <2>1 DEF LiveCharge, Attempts
<1>5. OneLiveCharge'
  BY <1>2, <1>4 DEF OneLiveCharge, SubInv
<1> QED BY <1>2, <1>3, <1>5

\* Balanced says no more than these say.
LEMMA BalancedSame ==
  ASSUME Balanced, Captured' = Captured, granted' = granted,
         credit' + taken' + Cardinality(SpentOutings') = credit + taken + Cardinality(SpentOutings)
  PROVE  Balanced'
BY DEF Balanced

\* Nor does KeysOK.
LEMMA KeysSame ==
  ASSUME KeysOK, Captured' = Captured, granted' = granted,
         \A q \in Captured : dues'[q].period = dues[q].period
  PROVE  KeysOK'
BY DEF KeysOK

\* The key of a payment that is being captured is new.
LEMMA NewKey ==
  ASSUME SubInv, NEW p \in DOMAIN dues, Open(p)
  PROVE  GrantKey(p) \notin granted
<1>1. p \in Nat \ {0} /\ p \notin Captured
  BY DuesType DEF SubInv, Open, Captured
<1>2. CASE dues[p].period = Never
  <2>1. GrantKey(p)[2] = p
    BY <1>2 DEF GrantKey
  <2> QED BY <1>1, <2>1 DEF SubInv, KeysOK
<1>3. CASE dues[p].period # Never
  <2>1. GrantKey(p)[1] = dues[p].period /\ GrantKey(p)[2] = 0
    BY <1>3 DEF GrantKey
  <2>2. \A q \in Captured : q # 0
    BY DuesType DEF SubInv, Captured
  <2>3. \A q \in Captured : dues[q].period # dues[p].period
    BY <1>1, <1>3 DEF SubInv, OneLiveCharge, Captured, Open
  <2> QED BY <2>1, <2>2, <2>3 DEF SubInv, KeysOK
<1> QED BY <1>2, <1>3

\* One period's minutes more.
LEMMA OnePeriodMore ==
  ASSUME NEW m \in Nat, NEW n \in Nat
  PROVE  m * (n + 1) = m * n + m
OBVIOUS

\* Each step of a subscription preserves its invariant: one lemma for each part, above.
LEMMA SubStep == SubInv /\ [SubNext]_subVars => SubInv'
<1> SUFFICES ASSUME SubInv, [SubNext]_subVars PROVE SubInv'
  OBVIOUS
<1>a. /\ SubTypeOK /\ SettlingOK /\ OneLiveCharge /\ KeysOK /\ Balanced
      /\ sub \in Rows /\ credit \in Nat /\ taken \in Nat /\ subClock \in Nat
      /\ outing \in [Outings -> {"none", "spent", "returned"}]
      /\ submitting \subseteq DOMAIN dues
      /\ PeriodLength \in Nat /\ MinutesPerPeriod \in Nat
  BY SubAssumption DEF SubInv, SubTypeOK, Rows
<1>b. /\ dues \in Seq(Charges)
      /\ \A s \in settling : /\ s.payment \in DOMAIN dues /\ Open(s.payment)
                             /\ s.result \in {"CAPTURED", "FAILED"} /\ s.row \in Rows
  BY <1>a, DuesType DEF SubTypeOK, SettlingOK
<1>c. ASSUME sub' \in Rows, dues' \in Seq(Charges), submitting' \subseteq DOMAIN dues',
             \A s \in settling' : /\ s.payment \in DOMAIN dues' /\ Open(s.payment)'
                                  /\ s.result \in {"CAPTURED", "FAILED"},
             credit' \in Nat, taken' \in Nat, subClock' \in Nat,
             outing' \in [Outings -> {"none", "spent", "returned"}]
      PROVE  SubTypeOK'
  BY <1>c DEF SubTypeOK, Rows, Charges
<1>1. CASE Subscribe
  <2> DEFINE c == Payment(Never, TRUE)
  <2>1. c \in Charges /\ c.status = "PENDING" /\ c.period = Never
    BY DEF Payment, Charges, Never
  <2>2. dues' = Append(dues, c)
    BY <1>1 DEF Subscribe
  <2> HIDE DEF c
  <2>3. /\ dues' \in Seq(Charges) /\ DOMAIN dues' = DOMAIN dues \cup {Len(dues) + 1}
        /\ \A q \in DOMAIN dues : dues'[q] = dues[q]
        /\ Captured' = Captured /\ OneLiveCharge'
    BY <2>1, <2>2, NewCharge
  <2>4. sub' \in Rows
    BY <1>1 DEF Subscribe, Rows, NoSubscription, Never
  <2>5. UNCHANGED <<settling, submitting, credit, granted, taken, outing, subClock>>
    BY <1>1 DEF Subscribe
  <2>6. SubTypeOK'
    <3>1. \A s \in settling' : /\ s.payment \in DOMAIN dues' /\ Open(s.payment)'
                                /\ s.result \in {"CAPTURED", "FAILED"}
      BY <1>b, <2>3, <2>5 DEF Open
    <3> QED BY <1>a, <1>c, <2>3, <2>4, <2>5, <3>1
  <2>7. SettlingOK'
    BY <1>a, <2>5 DEF SettlingOK
  <2>8. KeysOK' /\ Balanced'
    <3>1. SpentOutings' = SpentOutings
      BY <2>5 DEF SpentOutings
    <3>2. \A q \in Captured : dues'[q].period = dues[q].period
      BY <2>3 DEF Captured
    <3> QED BY <1>a, <2>3, <2>5, <3>1, <3>2, KeysSame, BalancedSame
  <2> QED BY <2>3, <2>6, <2>7, <2>8 DEF SubInv
<1>2. CASE \/ PauseMySubscription \/ ResumeMySubscription \/ CancelMySubscription
           \/ SubTick
  <2>1. UNCHANGED <<dues, settling, submitting, credit, granted, taken, outing>>
    BY <1>2 DEF PauseMySubscription, ResumeMySubscription, CancelMySubscription, SubTick
  <2>2. sub' \in Rows
    BY <1>2, <1>a DEF PauseMySubscription, ResumeMySubscription, CancelMySubscription,
                      SubTick, Rows, Finished
  <2>3. subClock' \in Nat
    BY <1>2, <1>a DEF PauseMySubscription, ResumeMySubscription, CancelMySubscription, SubTick
  <2>4. SubTypeOK'
    BY <1>a, <1>b, <1>c, <2>1, <2>2, <2>3 DEF Open
  <2>5. SettlingOK'
    BY <1>a, <2>1 DEF SettlingOK
  <2> QED BY <2>1, <2>4, <2>5, AccountSame DEF SubInv
<1>3. ASSUME NEW o \in Outings, SpendBookingMinutes(o) \/ ReleaseSpentMinutes(o)
      PROVE  SubInv'
  <2>1. UNCHANGED <<sub, dues, settling, submitting, granted, taken, subClock>>
    BY <1>3 DEF SpendBookingMinutes, ReleaseSpentMinutes
  <2>2. /\ IsFiniteSet(SpentOutings) /\ Cardinality(SpentOutings) \in Nat
        /\ Captured' = Captured
    BY <1>a, <2>1, SubFinite DEF Captured
  <2>3. credit' \in Nat /\ outing' \in [Outings -> {"none", "spent", "returned"}]
    BY <1>3, <1>a DEF SpendBookingMinutes, ReleaseSpentMinutes
  <2>4. credit' + Cardinality(SpentOutings') = credit + Cardinality(SpentOutings)
    <3>1. CASE UNCHANGED <<credit, outing>>
      BY <3>1 DEF SpentOutings
    <3>2. CASE /\ outing[o] = "none" /\ credit >= 1 /\ credit' = credit - 1
               /\ outing' = [outing EXCEPT ![o] = "spent"]
      <4>1. SpentOutings' = SpentOutings \cup {o} /\ o \notin SpentOutings
        BY <3>2, <1>a DEF SpentOutings
      <4>2. Cardinality(SpentOutings') = Cardinality(SpentOutings) + 1
        BY <4>1, <2>2, FS_AddElement
      <4> QED BY <3>2, <4>2, <2>2, <1>a
    <3>3. CASE /\ outing[o] = "spent" /\ credit' = credit + 1
               /\ outing' = [outing EXCEPT ![o] = "returned"]
      <4>1. SpentOutings' = SpentOutings \ {o} /\ o \in SpentOutings
        BY <3>3, <1>a DEF SpentOutings
      <4>2. Cardinality(SpentOutings') = Cardinality(SpentOutings) - 1
        BY <4>1, <2>2, FS_RemoveElement
      <4> QED BY <3>3, <4>2, <2>2, <1>a
    <3> QED BY <1>3, <3>1, <3>2, <3>3 DEF SpendBookingMinutes, ReleaseSpentMinutes
  <2>5. SubTypeOK'
    BY <1>a, <1>b, <1>c, <2>1, <2>3 DEF Open
  <2>6. SettlingOK' /\ OneLiveCharge' /\ KeysOK'
    BY <1>a, <2>1, <2>2 DEF SettlingOK, OneLiveCharge, KeysOK
  <2>7. Cardinality(SpentOutings') \in Nat
    <3>1. SpentOutings' \in SUBSET Outings
      BY DEF SpentOutings
    <3> QED BY <3>1, SubAssumption, FS_Subset, FS_CardinalityType
  <2>8. credit' + taken' + Cardinality(SpentOutings') = credit + taken + Cardinality(SpentOutings)
    BY <1>a, <2>1, <2>2, <2>3, <2>4, <2>7
  <2> QED BY <1>a, <2>1, <2>2, <2>5, <2>6, <2>8, BalancedSame DEF SubInv
<1>4. ASSUME NEW p \in DOMAIN dues, NEW result \in {"CAPTURED", "FAILED"},
             ReadSubscription(p, result)
      PROVE  SubInv'
  <2> DEFINE new == [payment |-> p, result |-> result, row |-> sub]
  <2>1. /\ Open(p) /\ \A s \in settling : s.payment # p
        /\ settling' = settling \cup {new}
        /\ UNCHANGED <<sub, dues, submitting, credit, granted, taken, outing, subClock>>
    BY <1>4 DEF ReadSubscription
  <2>2. new.payment = p /\ new.result = result /\ new.row = sub
    OBVIOUS
  <2> HIDE DEF new
  <2>3. SubTypeOK'
    BY <1>a, <1>b, <1>c, <2>1, <2>2 DEF Open
  <2>4. SettlingOK'
    BY <1>a, <2>1, <2>2 DEF SettlingOK
  <2> QED BY <2>1, <2>3, <2>4, AccountSame DEF SubInv
<1>5. ASSUME NEW s \in settling, SettleFailure(s) PROVE SubInv'
  <2>1. /\ dues' = [dues EXCEPT ![s.payment].status = "FAILED"]
        /\ settling' = settling \ {s}
        /\ UNCHANGED <<submitting, credit, granted, taken, outing, subClock>>
    BY <1>5 DEF SettleFailure
  <2>2. s.payment \in DOMAIN dues /\ Open(s.payment)
    BY <1>b
  <2>3. /\ DOMAIN dues' = DOMAIN dues /\ dues' \in Seq(Charges)
        /\ Captured' = Captured /\ OneLiveCharge'
        /\ \A q \in DOMAIN dues : dues'[q].period = dues[q].period
        /\ \A q \in DOMAIN dues : q # s.payment => dues'[q] = dues[q]
    BY <2>1, <2>2, RefusedCharge
  <2>4. sub' \in Rows
    BY <1>5, <1>a DEF SettleFailure, Rows, Finished
  <2>5. \A t \in settling' : t \in settling /\ t.payment # s.payment
    BY <1>a, <2>1 DEF SettlingOK
  <2>6. SubTypeOK'
    <3>1. \A t \in settling' : /\ t.payment \in DOMAIN dues' /\ Open(t.payment)'
                                /\ t.result \in {"CAPTURED", "FAILED"}
      BY <1>b, <2>3, <2>5 DEF Open
    <3> QED BY <1>a, <1>c, <2>1, <2>3, <2>4, <3>1
  <2>7. SettlingOK'
    BY <1>a, <2>5 DEF SettlingOK
  <2>8. KeysOK' /\ Balanced'
    <3>1. SpentOutings' = SpentOutings
      BY <2>1 DEF SpentOutings
    <3>2. \A q \in Captured : dues'[q].period = dues[q].period
      BY <2>3 DEF Captured
    <3> QED BY <1>a, <2>1, <2>3, <3>1, <3>2, KeysSame, BalancedSame
  <2> QED BY <2>3, <2>6, <2>7, <2>8 DEF SubInv
<1>6. ASSUME NEW s \in settling, NEW given \in BOOLEAN, SettleCapture(s, given)
      PROVE  SubInv'
  <2> DEFINE p == s.payment
             key == GrantKey(p)
  <2>1. p \in DOMAIN dues /\ Open(p) /\ s.row \in Rows /\ dues[p] \in Charges
    BY <1>a, <1>b, DuesType
  <2>2. key \notin granted
    BY <2>1, NewKey
  <2>3. /\ dues' = [dues EXCEPT ![p].status = "CAPTURED"]
        /\ settling' = settling \ {s}
        /\ credit' = credit + MinutesPerPeriod /\ granted' = granted \cup {key}
        /\ UNCHANGED <<submitting, taken, outing, subClock>>
    BY <1>6, <2>2 DEF SettleCapture
  <2>4. /\ dues' = [dues EXCEPT ![p] = [dues[p] EXCEPT !.status = "CAPTURED"]]
        /\ [dues[p] EXCEPT !.status = "CAPTURED"] \in Charges
    BY <2>1, <2>3, <1>b DEF Charges
  <2>5. /\ DOMAIN dues' = DOMAIN dues /\ dues' \in Seq(Charges)
        /\ dues'[p].period = dues[p].period /\ dues'[p].status = "CAPTURED"
        /\ \A q \in DOMAIN dues : q # p => dues'[q] = dues[q]
    BY <2>1, <2>4, <1>b DEF Charges
  <2>6. Captured' = Captured \cup {p} /\ p \notin Captured
    BY <2>1, <2>5 DEF Captured, Open
  <2>7. key = IF dues[p].period = Never THEN <<subClock, p>> ELSE <<dues[p].period, 0>>
    BY DEF GrantKey
  <2> HIDE DEF key
  <2>8. sub' \in Rows
    <3> DEFINE start == IF dues[p].period = Never THEN subClock ELSE dues[p].period
               status == IF s.row.status \in Finished \cup {"PAUSED"} THEN s.row.status ELSE "ACTIVE"
               card == given \/ s.row.mandate
    <3>1. start \in Nat /\ start + PeriodLength \in Nat
      BY <1>a, <2>1 DEF Charges
    <3>2. status \in {"none", "ACTIVE", "PAUSED"} \cup Finished
      BY <2>1 DEF Rows
    <3>3. card \in BOOLEAN
      BY Zenon
    <3>4. sub' = [sub EXCEPT !.status = status, !.start = start, !.end = start + PeriodLength,
                             !.mandate = card]
      BY <1>6, Zenon DEF SettleCapture
    <3> HIDE DEF start, status, card
    <3> QED BY <1>a, <3>1, <3>2, <3>3, <3>4 DEF Rows
  <2>9. \A t \in settling' : t \in settling /\ t.payment # p
    BY <1>a, <2>3 DEF SettlingOK
  <2>10. SubTypeOK'
    <3>1. \A t \in settling' : /\ t.payment \in DOMAIN dues' /\ Open(t.payment)'
                                /\ t.result \in {"CAPTURED", "FAILED"}
      BY <1>b, <2>5, <2>9 DEF Open
    <3> QED BY <1>a, <1>c, <2>3, <2>5, <2>8, <3>1
  <2>11. SettlingOK'
    BY <1>a, <2>9 DEF SettlingOK
  <2>12. OneLiveCharge'
    BY <1>a, <2>1, <2>5 DEF OneLiveCharge, Open
  <2>13. KeysOK'
    <3>1. \A q \in Captured : q \in Captured' /\ dues'[q].period = dues[q].period
      BY <2>5, <2>6 DEF Captured
    <3>2. \A k \in granted : \/ \E q \in Captured' : k[2] = q
                             \/ k[2] = 0 /\ \E q \in Captured' : dues'[q].period = k[1] /\ k[1] # Never
      BY <1>a, <3>1 DEF KeysOK
    <3>3. \/ key[2] = p
          \/ key[2] = 0 /\ dues'[p].period = key[1] /\ key[1] # Never
      BY <2>5, <2>7
    <3> QED BY <2>3, <2>6, <3>2, <3>3 DEF KeysOK
  <2>14. Balanced'
    <3>1. /\ IsFiniteSet(Captured) /\ Cardinality(Captured) \in Nat
          /\ Cardinality(SpentOutings) \in Nat
      BY <1>a, SubFinite
    <3>2. IsFiniteSet(granted) /\ Cardinality(granted) = Cardinality(Captured)
          /\ credit + taken + Cardinality(SpentOutings) = MinutesPerPeriod * Cardinality(granted)
      BY <1>a DEF Balanced
    <3>3. /\ IsFiniteSet(granted') /\ Cardinality(granted') = Cardinality(granted) + 1
          /\ Cardinality(Captured') = Cardinality(Captured) + 1
      BY <2>2, <2>3, <2>6, <3>1, <3>2, FS_AddElement
    <3>4. MinutesPerPeriod * (Cardinality(granted) + 1)
            = MinutesPerPeriod * Cardinality(granted) + MinutesPerPeriod
      BY <1>a, <3>1, <3>2, OnePeriodMore
    <3>5. SpentOutings' = SpentOutings
      BY <2>3 DEF SpentOutings
    <3>6. credit' + taken' + Cardinality(SpentOutings')
            = MinutesPerPeriod * Cardinality(granted) + MinutesPerPeriod
      BY <1>a, <2>3, <3>1, <3>2, <3>5
    <3> QED BY <3>2, <3>3, <3>4, <3>6 DEF Balanced
  <2> QED BY <2>10, <2>11, <2>12, <2>13, <2>14 DEF SubInv
<1>7. CASE Decide
  <2>1. /\ credit' \in Nat /\ taken' \in Nat /\ credit' + taken' = credit + taken
    BY <1>7, <1>a DEF Decide, ExpireSubscriptionMinutes
  <2>2. UNCHANGED <<settling, granted, outing, subClock>>
    BY <1>7 DEF Decide
  <2>3. \/ /\ sub' \in {[sub EXCEPT !.status = "CANCELLED"], [sub EXCEPT !.status = "EXPIRED"], sub}
           /\ UNCHANGED <<dues, submitting>>
        \/ /\ dues' = Append(dues, Payment(sub.end, FALSE)) /\ UNCHANGED sub
           /\ submitting' = submitting \cup {Len(dues) + 1}
           /\ ~LiveCharge(sub.end)
    BY <1>7 DEF Decide
  <2>4. SettlingOK'
    BY <1>a, <2>2 DEF SettlingOK
  <2>5. SpentOutings' = SpentOutings /\ Cardinality(SpentOutings) \in Nat
    BY <1>a, <2>2, SubFinite DEF SpentOutings
  <2>6. credit' + taken' + Cardinality(SpentOutings') = credit + taken + Cardinality(SpentOutings)
    BY <2>1, <2>5
  <2>7. CASE /\ sub' \in {[sub EXCEPT !.status = "CANCELLED"], [sub EXCEPT !.status = "EXPIRED"], sub}
             /\ UNCHANGED <<dues, submitting>>
    <3>1. sub' \in Rows
      BY <2>7, <1>a DEF Rows, Finished
    <3>2. SubTypeOK'
      BY <1>a, <1>b, <1>c, <2>1, <2>2, <2>7, <3>1 DEF Open
    <3>3. Captured' = Captured
      BY <2>7 DEF Captured
    <3>4. OneLiveCharge' /\ KeysOK'
      BY <1>a, <2>2, <2>7, <3>3 DEF OneLiveCharge, KeysOK
    <3> QED BY <1>a, <2>2, <2>4, <2>6, <3>2, <3>3, <3>4, BalancedSame DEF SubInv
  <2>8. CASE /\ dues' = Append(dues, Payment(sub.end, FALSE)) /\ UNCHANGED sub
             /\ submitting' = submitting \cup {Len(dues) + 1}
             /\ ~LiveCharge(sub.end)
    <3> DEFINE c == Payment(sub.end, FALSE)
    <3>1. c \in Charges /\ c.status = "PENDING" /\ c.period = sub.end
      BY <1>a DEF Payment, Charges, Rows
    <3>2. dues' = Append(dues, c)
      BY <2>8
    <3> HIDE DEF c
    <3>3. /\ dues' \in Seq(Charges) /\ DOMAIN dues' = DOMAIN dues \cup {Len(dues) + 1}
          /\ \A q \in DOMAIN dues : dues'[q] = dues[q]
          /\ Captured' = Captured /\ OneLiveCharge'
      BY <2>8, <3>1, <3>2, NewCharge
    <3>4. SubTypeOK'
      <4>1. \A s \in settling' : /\ s.payment \in DOMAIN dues' /\ Open(s.payment)'
                                  /\ s.result \in {"CAPTURED", "FAILED"}
        BY <1>b, <2>2, <3>3 DEF Open
      <4>2. submitting' \subseteq DOMAIN dues'
        BY <1>a, <2>8, <3>3
      <4> QED BY <1>a, <1>c, <2>1, <2>2, <2>8, <3>3, <4>1, <4>2
    <3>5. KeysOK'
      <4>1. \A q \in Captured : dues'[q].period = dues[q].period
        BY <3>3 DEF Captured
      <4> QED BY <1>a, <2>2, <3>3, <4>1, KeysSame
    <3> QED BY <1>a, <2>2, <2>4, <2>6, <3>3, <3>4, <3>5, BalancedSame DEF SubInv
  <2> QED BY <2>3, <2>7, <2>8
<1>8. ASSUME NEW p \in submitting, ChargeSavedInstrument(p) PROVE SubInv'
  <2>1. /\ dues' = [dues EXCEPT ![p].asked = TRUE] /\ submitting' \subseteq submitting
        /\ UNCHANGED <<sub, settling, credit, granted, taken, outing, subClock>>
    BY <1>8 DEF ChargeSavedInstrument
  <2>2. p \in DOMAIN dues /\ dues[p] \in Charges
    BY <1>a, DuesType
  <2>3. /\ dues' = [dues EXCEPT ![p] = [dues[p] EXCEPT !.asked = TRUE]]
        /\ [dues[p] EXCEPT !.asked = TRUE] \in Charges
    BY <2>1, <2>2, <1>b DEF Charges
  <2>a. PICK c \in Charges : /\ dues' = [dues EXCEPT ![p] = c]
                             /\ c.period = dues[p].period /\ c.status = dues[p].status
    BY <2>2, <2>3 DEF Charges
  <2>4. /\ DOMAIN dues' = DOMAIN dues /\ dues' \in Seq(Charges)
        /\ dues'[p].period = dues[p].period /\ dues'[p].status = dues[p].status
        /\ \A q \in DOMAIN dues : q # p => dues'[q] = dues[q]
    BY <2>2, <2>a, <1>b
  <2>5. Captured' = Captured /\ SpentOutings' = SpentOutings
    BY <2>1, <2>4 DEF Captured, SpentOutings
  <2>6. OneLiveCharge'
    BY <1>a, <2>4 DEF OneLiveCharge
  <2>7. KeysOK' /\ Balanced'
    <3>1. \A q \in Captured : dues'[q].period = dues[q].period
      BY <2>4 DEF Captured
    <3> QED BY <1>a, <2>1, <2>5, <3>1, KeysSame, BalancedSame
  <2>8. SubTypeOK'
    <3>1. \A s \in settling' : /\ s.payment \in DOMAIN dues' /\ Open(s.payment)'
                                /\ s.result \in {"CAPTURED", "FAILED"}
      BY <1>b, <2>1, <2>4 DEF Open
    <3>2. submitting' \subseteq DOMAIN dues'
      BY <1>a, <2>1, <2>4
    <3> QED BY <1>a, <1>c, <2>1, <2>4, <3>1, <3>2
  <2>9. SettlingOK'
    BY <1>a, <2>1 DEF SettlingOK
  <2> QED BY <2>6, <2>7, <2>8, <2>9 DEF SubInv
<1>9. ASSUME NEW p \in submitting, RecordUnsubmitted(p) PROVE SubInv'
  <2>1. /\ submitting' \subseteq submitting /\ \A s \in settling : s.payment # p
        /\ UNCHANGED <<sub, settling, credit, granted, taken, outing, subClock>>
    BY <1>9 DEF RecordUnsubmitted
  <2>2. p \in DOMAIN dues /\ dues[p] \in Charges
    BY <1>a, DuesType
  <2>3. SettlingOK'
    BY <1>a, <2>1 DEF SettlingOK
  <2>4. SpentOutings' = SpentOutings
    BY <2>1 DEF SpentOutings
  <2>5. CASE Open(p)
    <3>1. dues' = [dues EXCEPT ![p].status = "FAILED"]
      BY <1>9, <2>5 DEF RecordUnsubmitted
    <3>2. /\ DOMAIN dues' = DOMAIN dues /\ dues' \in Seq(Charges)
          /\ Captured' = Captured /\ OneLiveCharge'
          /\ \A q \in DOMAIN dues : dues'[q].period = dues[q].period
          /\ \A q \in DOMAIN dues : q # p => dues'[q] = dues[q]
      BY <2>2, <2>5, <3>1, RefusedCharge
    <3>3. SubTypeOK'
      <4>1. \A s \in settling' : /\ s.payment \in DOMAIN dues' /\ Open(s.payment)'
                                  /\ s.result \in {"CAPTURED", "FAILED"}
        BY <1>b, <2>1, <3>2 DEF Open
      <4>2. submitting' \subseteq DOMAIN dues'
        BY <1>a, <2>1, <3>2
      <4> QED BY <1>a, <1>c, <2>1, <3>2, <4>1, <4>2
    <3>4. KeysOK' /\ Balanced'
      <4>1. \A q \in Captured : dues'[q].period = dues[q].period
        BY <3>2 DEF Captured
      <4> QED BY <1>a, <2>1, <2>4, <3>2, <4>1, KeysSame, BalancedSame
    <3> QED BY <2>3, <3>2, <3>3, <3>4 DEF SubInv
  <2>6. CASE ~Open(p)
    <3>1. dues' = dues
      <4>1. dues' = [dues EXCEPT ![p].status = dues[p].status]
        BY <1>9, <2>6 DEF RecordUnsubmitted
      <4>2. [dues[p] EXCEPT !.status = dues[p].status] = dues[p]
        BY <2>2 DEF Charges
      <4> QED BY <4>1, <4>2, <2>2, <1>b
    <3>2. SubTypeOK'
      BY <1>a, <1>b, <1>c, <2>1, <3>1 DEF Open
    <3> QED BY <2>1, <2>3, <3>1, <3>2, AccountSame DEF SubInv
  <2> QED BY <2>5, <2>6
<1>10. CASE SweepDies \/ UNCHANGED subVars
  <2>1. /\ UNCHANGED <<sub, dues, settling, credit, granted, taken, outing, subClock>>
        /\ submitting' \subseteq submitting
    BY <1>10 DEF SweepDies, subVars
  <2>2. SubTypeOK'
    BY <1>a, <1>b, <1>c, <2>1 DEF Open
  <2>3. SettlingOK'
    BY <1>a, <2>1 DEF SettlingOK
  <2> QED BY <2>1, <2>2, <2>3, AccountSame DEF SubInv
<1> QED
  BY <1>1, <1>2, <1>3, <1>4, <1>5, <1>6, <1>7, <1>8, <1>9, <1>10 DEF SubNext

\* However often the sweep runs, charges are retried and reports cross the
\* customer's own changes, a captured payment grants one period's minutes, and
\* every minute is on the account, spent or expired: settleSubscriptionPayment,
\* expireSubscriptionMinutes and spendBookingMinutes.
THEOREM MinutesAlwaysEarned == SubSpec => []MinutesAreEarned
<1>1. SubInit => SubInv
  BY SubInitially
<1>2. SubInv /\ [SubNext]_subVars => SubInv'
  BY SubStep
<1>3. SubInv => MinutesAreEarned
  BY DEF SubInv, Balanced, SpentOutings, MinutesAreEarned
<1> QED BY <1>1, <1>2, <1>3, PTL DEF SubSpec

-----------------------------------------------------------------------------
(* The email outbox.                                                       *)

Letters == [status : {"none", "PENDING", "SENT", "SKIPPED", "FAILED"},
            attempts : Nat, wait : 0..(ClaimLease + RetryDelay)]
Readings == [email : Emails, attempts : Nat]
DispatchStates == [todo : Seq(Readings), hand : {"none", "claimed", "accepted", "failed"},
           age : 0..(ClaimLease - 1)]

MailShapes ==
  /\ outbox \in [Emails -> Letters]
  /\ applies \subseteq Emails /\ accepted \subseteq Emails
  /\ faults \in 0..MaxFaults
  /\ dispatch \in [Dispatches -> DispatchStates]
  /\ \A d \in Dispatches : dispatch[d].hand # "none" => Reads(d)

\* An email is given up after MaxAttempts; only a pass that dies adds to them.
Tries ==
  \A e \in Emails :
    /\ outbox[e].attempts <= MaxAttempts + faults
    /\ outbox[e].status = "PENDING" /\ (\A d \in Dispatches : ~Holds(d, e))
         => outbox[e].attempts < MaxAttempts + faults
    /\ outbox[e].status = "none" => outbox[e].attempts = 0

\* What a pass has in hand is its own until its lease is over, which it lives
\* not to see.
Leased ==
  \A d \in Dispatches, e \in Emails : Holds(d, e) =>
    /\ outbox[e].status = "PENDING"
    /\ outbox[e].attempts = Head(dispatch[d].todo).attempts + 1
    /\ outbox[e].wait + dispatch[d].age >= ClaimLease

OneHolder ==
  \A e \in Emails, c, d \in Dispatches : (Holds(c, e) /\ Holds(d, e)) => c = d

\* Whoever else read the row read it before it was claimed.
ReadBefore ==
  \A c \in Dispatches : \A i \in DOMAIN dispatch[c].todo :
    LET r == dispatch[c].todo[i] IN
    /\ r.attempts <= outbox[r.email].attempts
    /\ \A d \in Dispatches : d # c /\ Holds(d, r.email) => r.attempts < outbox[r.email].attempts

MailInv == MailShapes /\ Tries /\ Leased /\ OneHolder /\ ReadBefore

\* The invariant says of holders what the property says, and bounds the attempts.
LEMMA MailInvIsEnough == MailInv => OneAttemptAtATime
<1> SUFFICES ASSUME MailInv PROVE OneAttemptAtATime
  OBVIOUS
<1>1. \A e \in Emails : outbox[e].attempts \in 0..(MaxAttempts + MaxFaults)
  <2>1. \A e \in Emails : outbox[e].attempts \in Nat /\ outbox[e].attempts <= MaxAttempts + faults
    BY DEF MailInv, MailShapes, Letters, Tries
  <2>2. faults \in Nat /\ faults <= MaxFaults /\ MaxFaults \in Nat /\ MaxAttempts \in Nat
    BY OutboxAssumption DEF MailInv, MailShapes
  <2> QED BY <2>1, <2>2
<1>2. outbox \in [Emails -> [status : {"none", "PENDING", "SENT", "SKIPPED", "FAILED"},
                             attempts : 0..(MaxAttempts + MaxFaults),
                             wait : 0..(ClaimLease + RetryDelay)]]
  BY <1>1 DEF MailInv, MailShapes, Letters
<1>3. \A d \in Dispatches : dispatch[d].hand \in {"none", "claimed", "accepted", "failed"}
  BY DEF MailInv, MailShapes, DispatchStates
<1>4. MailTypeOK
  BY <1>2, <1>3 DEF MailTypeOK, MailInv, MailShapes
<1> QED BY <1>4 DEF OneAttemptAtATime, MailInv, OneHolder, Leased

\* A pass that rests has nothing in hand.
LEMMA RestingType ==
  /\ Resting \in DispatchStates /\ Resting.todo = <<>> /\ Resting.hand = "none"
  /\ Resting.age = 0
BY OutboxAssumption DEF Resting, DispatchStates

\* Nothing is queued and nobody holds anything at the beginning.
LEMMA MailInitially == MailInit => MailInv
<1> SUFFICES ASSUME MailInit PROVE MailInv
  OBVIOUS
<1>1. MailShapes
  BY RestingType, OutboxAssumption DEF MailInit, MailShapes, Letters, Reads
<1>2. \A d \in Dispatches : dispatch[d].todo = <<>> /\ dispatch[d].hand = "none"
  BY RestingType DEF MailInit
<1>3. \A d \in Dispatches : \A e : ~Holds(d, e)
  BY <1>2 DEF Holds
<1>4. Tries
  BY OutboxAssumption DEF MailInit, Tries
<1>5. Leased /\ OneHolder /\ ReadBefore
  BY <1>2, <1>3 DEF Leased, OneHolder, ReadBefore
<1> QED BY <1>1, <1>4, <1>5 DEF MailInv

\* The next row in hand, or none.
LEMMA TurnedType ==
  ASSUME MailShapes, NEW d \in Dispatches, Reads(d)
  PROVE  /\ Turned(d) \in DispatchStates /\ Turned(d).hand = "none"
         /\ \A i \in DOMAIN Turned(d).todo :
              \E j \in DOMAIN dispatch[d].todo : Turned(d).todo[i] = dispatch[d].todo[j]
<1>1. dispatch[d] \in DispatchStates /\ dispatch[d].todo \in Seq(Readings)
      /\ dispatch[d].todo # <<>>
  BY DEF MailShapes, DispatchStates, Reads
<1>2. CASE Len(dispatch[d].todo) = 1
  BY <1>2, RestingType DEF Turned
<1>3. CASE Len(dispatch[d].todo) # 1
  <2> DEFINE rest == Tail(dispatch[d].todo)
  <2>1. rest \in Seq(Readings) /\ \A i \in DOMAIN rest :
           i + 1 \in DOMAIN dispatch[d].todo /\ rest[i] = dispatch[d].todo[i + 1]
    BY <1>1
  <2>2. Turned(d) = [dispatch[d] EXCEPT !.todo = rest, !.hand = "none"]
    BY <1>3, Zenon DEF Turned
  <2> HIDE DEF rest
  <2>3. Turned(d) \in DispatchStates /\ Turned(d).hand = "none" /\ Turned(d).todo = rest
    BY <1>1, <2>1, <2>2 DEF DispatchStates
  <2> QED BY <2>1, <2>3
<1> QED BY <1>2, <1>3

\* What a pass reads from the wire of its rows.
LEMMA InHandType ==
  ASSUME MailShapes, NEW d \in Dispatches, Reads(d)
  PROVE  /\ Head(dispatch[d].todo) \in Readings /\ InHand(d) \in Emails
         /\ InHand(d) = Head(dispatch[d].todo).email
         /\ 1 \in DOMAIN dispatch[d].todo /\ Head(dispatch[d].todo) = dispatch[d].todo[1]
<1>1. dispatch[d].todo \in Seq(Readings) /\ dispatch[d].todo # <<>>
  BY DEF MailShapes, DispatchStates, Reads
<1>2. Head(dispatch[d].todo) \in Readings
  BY ONLY <1>1
<1> QED BY <1>1, <1>2 DEF InHand, Readings

\* A pass that lets go of its row, having written it or not: nothing of the
\* other passes changes, and the attempts of the row do not.
LEMMA LetGo ==
  ASSUME MailInv, NEW d \in Dispatches, Reads(d), NEW e \in Emails, NEW row \in Letters,
         e = InHand(d),
         outbox' = [outbox EXCEPT ![e] = row],
         dispatch' = [dispatch EXCEPT ![d] = Turned(d)],
         row.attempts = outbox[e].attempts,
         row.status = "PENDING" => \/ row.attempts < MaxAttempts
                                   \/ row = outbox[e] /\ dispatch[d].hand = "none",
         row = outbox[e] \/ (dispatch[d].hand # "none" /\ row.status # "none"),
         UNCHANGED <<applies, accepted, faults>>
  PROVE  MailInv'
<1>1. MailShapes /\ Tries /\ Leased /\ OneHolder /\ ReadBefore
  BY DEF MailInv
<1>2. /\ Turned(d) \in DispatchStates /\ Turned(d).hand = "none"
      /\ \A i \in DOMAIN Turned(d).todo :
           \E j \in DOMAIN dispatch[d].todo : Turned(d).todo[i] = dispatch[d].todo[j]
  BY <1>1, TurnedType
<1>3. /\ dispatch'[d] = Turned(d) /\ \A c \in Dispatches : c # d => dispatch'[c] = dispatch[c]
      /\ outbox'[e] = row /\ \A f \in Emails : f # e => outbox'[f] = outbox[f]
  BY <1>1 DEF MailShapes
<1>4. MailShapes'
  <2>1. outbox' \in [Emails -> Letters] /\ dispatch' \in [Dispatches -> DispatchStates]
    BY <1>1, <1>2 DEF MailShapes
  <2>2. \A c \in Dispatches : dispatch'[c].hand # "none" => Reads(c)'
    BY <1>1, <1>2, <1>3 DEF MailShapes, Reads
  <2> QED BY <1>1, <2>1, <2>2 DEF MailShapes
<1>5. /\ \A f : ~Holds(d, f)'
      /\ \A c \in Dispatches : \A f : c # d => (Holds(c, f)' <=> Holds(c, f))
  BY <1>2, <1>3 DEF Holds, Reads, InHand
<1>6. \A f \in Emails : outbox'[f].attempts = outbox[f].attempts
  BY <1>3
<1>7. faults \in Nat /\ MaxAttempts \in Nat
  BY <1>1, OutboxAssumption DEF MailShapes
<1>8. \A f \in Emails : f # e => ~Holds(d, f)
  BY DEF Holds
<1>9. dispatch[d].hand # "none" => Holds(d, e)
  BY DEF Holds
<1>10. \A c \in Dispatches : c # d /\ Holds(c, e) => row = outbox[e]
  BY <1>1, <1>9 DEF OneHolder
<1>11. Tries'
  <2> SUFFICES ASSUME NEW f \in Emails
               PROVE  /\ outbox'[f].attempts <= MaxAttempts + faults
                      /\ outbox'[f].status = "PENDING" /\ (\A c \in Dispatches : ~Holds(c, f)')
                           => outbox'[f].attempts < MaxAttempts + faults
                      /\ outbox'[f].status = "none" => outbox'[f].attempts = 0
    BY DEF Tries
  <2>1. outbox[f].attempts \in Nat /\ outbox'[f].attempts <= MaxAttempts + faults
    BY <1>1, <1>6 DEF Tries, MailShapes, Letters
  <2>2. ASSUME outbox'[f].status = "PENDING", \A c \in Dispatches : ~Holds(c, f)'
        PROVE  outbox'[f].attempts < MaxAttempts + faults
    <3>1. CASE f # e
      <4>1. \A c \in Dispatches : ~Holds(c, f)
        BY <2>2, <3>1, <1>5, <1>8
      <4> QED BY <1>1, <1>3, <2>2, <3>1, <4>1 DEF Tries
    <3>2. CASE f = e /\ row.attempts < MaxAttempts
      BY <1>3, <1>7, <2>1, <1>6, <3>2
    <3>3. CASE f = e /\ row = outbox[e] /\ dispatch[d].hand = "none"
      <4>1. \A c \in Dispatches : ~Holds(c, f)
        <5>1. ~Holds(d, f)
          BY <3>3 DEF Holds
        <5> QED BY <2>2, <1>5, <5>1
      <4> QED BY <1>1, <1>3, <2>2, <3>3, <4>1 DEF Tries
    <3> QED BY <1>3, <2>2, <3>1, <3>2, <3>3
  <2>3. outbox'[f].status = "none" => outbox'[f].attempts = 0
    BY <1>1, <1>3 DEF Tries
  <2> QED BY <2>1, <2>2, <2>3
<1>12. Leased'
  <2> SUFFICES ASSUME NEW c \in Dispatches, NEW f \in Emails, Holds(c, f)'
               PROVE  /\ outbox'[f].status = "PENDING"
                      /\ outbox'[f].attempts = Head(dispatch'[c].todo).attempts + 1
                      /\ outbox'[f].wait + dispatch'[c].age >= ClaimLease
    BY DEF Leased
  <2>1. c # d /\ Holds(c, f)
    BY <1>5
  <2>2. outbox'[f] = outbox[f]
    BY <1>3, <1>10, <2>1
  <2>3. dispatch'[c] = dispatch[c]
    BY <1>3, <2>1
  <2> QED BY <1>1, <2>1, <2>2, <2>3 DEF Leased
<1>13. OneHolder'
  BY <1>1, <1>5 DEF OneHolder
<1>14. ReadBefore'
  <2> SUFFICES ASSUME NEW c \in Dispatches, NEW i \in DOMAIN dispatch'[c].todo, NEW r,
                      r = dispatch'[c].todo[i]
               PROVE  /\ r.attempts <= outbox'[r.email].attempts
                      /\ \A b \in Dispatches : b # c /\ Holds(b, r.email)'
                           => r.attempts < outbox'[r.email].attempts
    BY DEF ReadBefore
  <2>1. PICK j \in DOMAIN dispatch[c].todo : r = dispatch[c].todo[j]
    BY <1>2, <1>3
  <2>2. r \in Readings
    <3>1. dispatch[c].todo \in Seq(Readings)
      BY <1>1 DEF MailShapes, DispatchStates
    <3> QED BY ONLY <2>1, <3>1
  <2>3. outbox'[r.email].attempts = outbox[r.email].attempts
    BY <1>6, <2>2 DEF Readings
  <2>4. /\ r.attempts <= outbox[r.email].attempts
        /\ \A b \in Dispatches : b # c /\ Holds(b, r.email) => r.attempts < outbox[r.email].attempts
    BY <1>1, <2>1 DEF ReadBefore
  <2>5. \A b \in Dispatches : Holds(b, r.email)' => Holds(b, r.email)
    BY <1>5
  <2> QED BY <2>3, <2>4, <2>5
<1> QED BY <1>4, <1>11, <1>12, <1>13, <1>14 DEF MailInv

\* What no pass holds, reads or tries changes nothing of what is held.
LEMMA MailSame ==
  ASSUME MailInv, MailShapes', UNCHANGED <<outbox, faults>>,
         \A d \in Dispatches : /\ dispatch'[d].todo = dispatch[d].todo
                               /\ dispatch'[d].age = dispatch[d].age
                               /\ dispatch'[d].hand = "none" <=> dispatch[d].hand = "none"
  PROVE  MailInv'
<1>1. \A d \in Dispatches : \A e : Holds(d, e)' <=> Holds(d, e)
  BY DEF Holds, Reads, InHand
<1>2. Tries'
  BY <1>1 DEF MailInv, Tries
<1>3. Leased' /\ OneHolder'
  BY <1>1 DEF MailInv, Leased, OneHolder
<1>4. ReadBefore'
  BY <1>1 DEF MailInv, ReadBefore
<1> QED BY <1>2, <1>3, <1>4 DEF MailInv

\* Reading takes only rows that nobody has in hand.
LEMMA ReadStep ==
  ASSUME MailInv, NEW d \in Dispatches, ReadDue(d)
  PROVE  MailInv'
<1>1. MailShapes /\ Tries /\ Leased /\ OneHolder /\ ReadBefore
  BY DEF MailInv
<1>2. Cardinality(Due) \in Nat
  <2>1. Due \in SUBSET Emails
    BY DEF Due
  <2> QED BY <2>1, OutboxAssumption, FS_Subset, FS_CardinalityType
<1>a. PICK n \in Nat : \E s \in [1..n -> Due] :
        dispatch' = [dispatch EXCEPT ![d] =
            [todo |-> [i \in DOMAIN s |-> [email |-> s[i], attempts |-> outbox[s[i]].attempts]],
             hand |-> "none", age |-> 0]]
  <2> DEFINE size == IF Cardinality(Due) < BatchSize THEN Cardinality(Due) ELSE BatchSize
  <2>1. size \in Nat
    BY <1>2, OutboxAssumption
  <2> QED BY <2>1 DEF ReadDue
<1>3. PICK s \in [1..n -> Due] :
        dispatch' = [dispatch EXCEPT ![d] =
            [todo |-> [i \in DOMAIN s |-> [email |-> s[i], attempts |-> outbox[s[i]].attempts]],
             hand |-> "none", age |-> 0]]
  BY <1>a
<1>4. UNCHANGED <<outbox, applies, accepted, faults>>
  BY DEF ReadDue
<1> DEFINE todo == [i \in DOMAIN s |-> [email |-> s[i], attempts |-> outbox[s[i]].attempts]]
           new == [todo |-> todo, hand |-> "none", age |-> 0]
<1>5. \A i \in 1..n : s[i] \in Emails /\ outbox[s[i]].attempts \in Nat /\ outbox[s[i]].wait = 0
  BY <1>1 DEF Due, MailShapes, Letters
<1>6. /\ DOMAIN todo = 1..n
      /\ \A i \in 1..n : /\ todo[i] \in Readings /\ todo[i].email = s[i]
                         /\ todo[i].attempts = outbox[s[i]].attempts
  BY <1>5 DEF Readings
<1>7. todo \in Seq(Readings)
  BY <1>3, <1>6
<1>8. dispatch' = [dispatch EXCEPT ![d] = new]
  BY <1>3
<1> HIDE DEF todo
<1>9. new \in DispatchStates /\ new.todo = todo /\ new.hand = "none"
  BY <1>7, OutboxAssumption DEF DispatchStates
<1> HIDE DEF new
<1>10. dispatch'[d] = new /\ \A c \in Dispatches : c # d => dispatch'[c] = dispatch[c]
  BY <1>1, <1>8 DEF MailShapes
<1>11. MailShapes'
  <2>1. dispatch' \in [Dispatches -> DispatchStates]
    BY <1>1, <1>8, <1>9 DEF MailShapes
  <2>2. \A c \in Dispatches : dispatch'[c].hand # "none" => Reads(c)'
    BY <1>1, <1>9, <1>10 DEF MailShapes, Reads
  <2> QED BY <1>1, <1>4, <2>1, <2>2 DEF MailShapes
<1>12. /\ \A f : ~Holds(d, f)' /\ ~Holds(d, f)
       /\ \A c \in Dispatches : \A f : c # d => (Holds(c, f)' <=> Holds(c, f))
  BY <1>9, <1>10 DEF Holds, Reads, InHand, ReadDue
<1>13. \A c \in Dispatches : \A f : Holds(c, f)' <=> Holds(c, f)
  BY <1>12
<1>14. Tries' /\ OneHolder'
  BY <1>1, <1>4, <1>13 DEF Tries, OneHolder
<1>15. Leased'
  BY <1>1, <1>4, <1>10, <1>12 DEF Leased
<1>16. ReadBefore'
  <2> SUFFICES ASSUME NEW c \in Dispatches, NEW i \in DOMAIN dispatch'[c].todo, NEW r,
                      r = dispatch'[c].todo[i]
               PROVE  /\ r.attempts <= outbox[r.email].attempts
                      /\ \A b \in Dispatches : b # c /\ Holds(b, r.email)
                           => r.attempts < outbox[r.email].attempts
    BY <1>4, <1>13 DEF ReadBefore
  <2>1. CASE c # d
    BY <1>1, <1>10, <2>1 DEF ReadBefore
  <2>2. CASE c = d
    <3>1. /\ i \in 1..n /\ r.email = s[i] /\ r.attempts = outbox[s[i]].attempts
          /\ r.email \in Emails /\ outbox[r.email].wait = 0 /\ outbox[r.email].attempts \in Nat
      BY <1>5, <1>6, <1>9, <1>10, <2>2
    <3>2. \A b \in Dispatches : ~Holds(b, r.email)
      <4> SUFFICES ASSUME NEW b \in Dispatches, Holds(b, r.email) PROVE FALSE
        OBVIOUS
      <4>1. outbox[r.email].wait + dispatch[b].age >= ClaimLease
        BY <1>1, <3>1 DEF Leased
      <4>2. dispatch[b].age \in 0..(ClaimLease - 1) /\ ClaimLease \in Nat
        BY <1>1, OutboxAssumption DEF MailShapes, DispatchStates
      <4> QED BY <3>1, <4>1, <4>2
    <3> QED BY <3>1, <3>2
  <2> QED BY <2>1, <2>2
<1> QED BY <1>11, <1>14, <1>15, <1>16 DEF MailInv

\* The claim of a row that nobody has in hand.
LEMMA ClaimStep ==
  ASSUME MailInv, NEW d \in Dispatches, Claim(d)
  PROVE  MailInv'
<1>1. MailShapes /\ Tries /\ Leased /\ OneHolder /\ ReadBefore
  BY DEF MailInv
<1> DEFINE r == Head(dispatch[d].todo)
           e == r.email
<1>2. Reads(d) /\ dispatch[d].hand = "none" /\ UNCHANGED <<applies, accepted, faults>>
  BY DEF Claim
<1>3. /\ r \in Readings /\ e \in Emails /\ InHand(d) = e
      /\ 1 \in DOMAIN dispatch[d].todo /\ r = dispatch[d].todo[1]
  BY <1>1, <1>2, InHandType DEF Readings
<1>4. outbox[e] \in Letters /\ dispatch[d] \in DispatchStates
  BY <1>1, <1>3 DEF MailShapes
<1>5. CASE ~(outbox[e].status = "PENDING" /\ outbox[e].attempts = r.attempts)
  <2>1. UNCHANGED outbox /\ dispatch' = [dispatch EXCEPT ![d] = Turned(d)]
    BY <1>5 DEF Claim
  <2>2. outbox' = [outbox EXCEPT ![e] = outbox[e]]
    BY <1>1, <1>3, <2>1 DEF MailShapes
  <2> QED BY <1>2, <1>3, <1>4, <2>1, <2>2, LetGo
<1>6. CASE outbox[e].status = "PENDING" /\ outbox[e].attempts = r.attempts
  <2> DEFINE row == [outbox[e] EXCEPT !.attempts = outbox[e].attempts + 1,
                                      !.wait = Left(ClaimLease, dispatch[d].age)]
             new == [dispatch[d] EXCEPT !.hand = "claimed"]
  <2>1. outbox' = [outbox EXCEPT ![e] = row] /\ dispatch' = [dispatch EXCEPT ![d] = new]
    BY <1>1, <1>3, <1>6 DEF Claim, MailShapes
  <2>2. /\ Left(ClaimLease, dispatch[d].age) = ClaimLease - dispatch[d].age
        /\ dispatch[d].age \in 0..(ClaimLease - 1) /\ ClaimLease \in Nat /\ RetryDelay \in Nat
    BY <1>4, OutboxAssumption DEF Left, DispatchStates
  <2>3. ClaimLease - dispatch[d].age \in 0..(ClaimLease + RetryDelay)
    BY <2>2
  <2>4. outbox[e].attempts \in Nat
    BY <1>4 DEF Letters
  <2>5. /\ row \in Letters /\ row.status = "PENDING" /\ row.attempts = outbox[e].attempts + 1
        /\ row.wait = ClaimLease - dispatch[d].age
    <3>1. /\ row.status = outbox[e].status /\ row.attempts = outbox[e].attempts + 1
          /\ row.wait = Left(ClaimLease, dispatch[d].age)
      BY <1>4 DEF Letters
    <3>2. outbox[e].attempts + 1 \in Nat
      BY <2>4
    <3>3. Left(ClaimLease, dispatch[d].age) \in 0..(ClaimLease + RetryDelay)
      BY <2>2, <2>3
    <3>4. row \in Letters
      BY <1>4, <3>2, <3>3 DEF Letters
    <3> QED BY <1>6, <2>2, <3>1, <3>4
  <2>6. /\ new \in DispatchStates /\ new.hand = "claimed" /\ new.todo = dispatch[d].todo
        /\ new.age = dispatch[d].age
    BY <1>4 DEF DispatchStates
  <2> HIDE DEF row, new
  <2>7. /\ dispatch'[d] = new /\ \A c \in Dispatches : c # d => dispatch'[c] = dispatch[c]
        /\ outbox'[e] = row /\ \A f \in Emails : f # e => outbox'[f] = outbox[f]
    BY <1>1, <1>3, <2>1 DEF MailShapes
  <2>8. MailShapes'
    <3>1. outbox' \in [Emails -> Letters] /\ dispatch' \in [Dispatches -> DispatchStates]
      BY <1>1, <2>1, <2>5, <2>6 DEF MailShapes
    <3>2. \A c \in Dispatches : dispatch'[c].hand # "none" => Reads(c)'
      BY <1>1, <1>2, <2>6, <2>7 DEF MailShapes, Reads
    <3> QED BY <1>1, <1>2, <3>1, <3>2 DEF MailShapes
  <2>9. /\ \A f \in Emails : Holds(d, f)' <=> f = e
        /\ \A c \in Dispatches : \A f : c # d => (Holds(c, f)' <=> Holds(c, f))
        /\ \A f : ~Holds(d, f)
    BY <1>2, <1>3, <2>6, <2>7 DEF Holds, Reads, InHand
  <2>10. \A c \in Dispatches : ~Holds(c, e)
    <3> SUFFICES ASSUME NEW c \in Dispatches, Holds(c, e) PROVE FALSE
      OBVIOUS
    <3>1. c # d
      BY <2>9
    <3>2. r.attempts < outbox[e].attempts
      BY <1>1, <1>3, <3>1 DEF ReadBefore
    <3> QED BY <1>6, <2>4, <3>2
  <2>11. faults \in Nat /\ MaxAttempts \in Nat
    BY <1>1, OutboxAssumption DEF MailShapes
  <2>12. Tries'
    <3> SUFFICES ASSUME NEW f \in Emails
                 PROVE  /\ outbox'[f].attempts <= MaxAttempts + faults
                        /\ outbox'[f].status = "PENDING" /\ (\A c \in Dispatches : ~Holds(c, f)')
                             => outbox'[f].attempts < MaxAttempts + faults
                        /\ outbox'[f].status = "none" => outbox'[f].attempts = 0
      BY <1>2 DEF Tries
    <3>1. CASE f = e
      <4>1. outbox[e].attempts < MaxAttempts + faults
        BY <1>1, <1>3, <1>6, <2>10 DEF Tries
      <4>2. Holds(d, f)'
        BY <2>9, <3>1
      <4> QED BY <2>4, <2>5, <2>7, <2>11, <3>1, <4>1, <4>2
    <3>2. CASE f # e
      BY <1>1, <2>7, <2>9, <3>2 DEF Tries
    <3> QED BY <3>1, <3>2
  <2>13. Leased'
    <3> SUFFICES ASSUME NEW c \in Dispatches, NEW f \in Emails, Holds(c, f)'
                 PROVE  /\ outbox'[f].status = "PENDING"
                        /\ outbox'[f].attempts = Head(dispatch'[c].todo).attempts + 1
                        /\ outbox'[f].wait + dispatch'[c].age >= ClaimLease
      BY DEF Leased
    <3>1. CASE c = d
      <4>1. f = e
        BY <2>9, <3>1
      <4>2. Head(dispatch'[c].todo) = r
        BY <2>6, <2>7, <3>1
      <4> QED BY <1>6, <2>2, <2>5, <2>6, <2>7, <3>1, <4>1, <4>2
    <3>2. CASE c # d
      <4>1. Holds(c, f) /\ f # e
        BY <2>9, <2>10, <3>2
      <4> QED BY <1>1, <2>7, <3>2, <4>1 DEF Leased
    <3> QED BY <3>1, <3>2
  <2>14. OneHolder'
    BY <1>1, <2>9, <2>10 DEF OneHolder
  <2>15. ReadBefore'
    <3> SUFFICES ASSUME NEW c \in Dispatches, NEW i \in DOMAIN dispatch'[c].todo, NEW q,
                        q = dispatch'[c].todo[i]
                 PROVE  /\ q.attempts <= outbox'[q.email].attempts
                        /\ \A b \in Dispatches : b # c /\ Holds(b, q.email)'
                             => q.attempts < outbox'[q.email].attempts
      BY DEF ReadBefore
    <3>1. i \in DOMAIN dispatch[c].todo /\ q = dispatch[c].todo[i]
      BY <2>6, <2>7
    <3>2. q \in Readings
      <4>1. dispatch[c].todo \in Seq(Readings)
        BY <1>1 DEF MailShapes, DispatchStates
      <4> QED BY ONLY <3>1, <4>1
    <3>3. q.attempts <= outbox[q.email].attempts
      BY <1>1, <3>1 DEF ReadBefore
    <3>4. q.email \in Emails /\ q.attempts \in Nat
      BY <3>2 DEF Readings
    <3>5. CASE q.email = e
      BY <2>4, <2>5, <2>7, <3>3, <3>4, <3>5
    <3>6. CASE q.email # e
      <4>1. outbox'[q.email] = outbox[q.email]
        BY <2>7, <3>4, <3>6
      <4>2. \A b \in Dispatches : Holds(b, q.email)' => Holds(b, q.email)
        BY <2>9, <3>4, <3>6
      <4>3. \A b \in Dispatches : b # c /\ Holds(b, q.email) => q.attempts < outbox[q.email].attempts
        BY <1>1, <3>1 DEF ReadBefore
      <4> QED BY <3>3, <4>1, <4>2, <4>3
    <3> QED BY <3>5, <3>6
  <2> QED BY <2>8, <2>12, <2>13, <2>14, <2>15 DEF MailInv
<1> QED BY <1>5, <1>6

\* Each step of a pass, and a pass that dies, preserves the outbox's invariant.
LEMMA MailStep == MailInv /\ [MailNext]_mailVars => MailInv'
<1> SUFFICES ASSUME MailInv, [MailNext]_mailVars PROVE MailInv'
  OBVIOUS
<1>a. MailShapes /\ Tries /\ Leased /\ OneHolder /\ ReadBefore
  BY DEF MailInv
<1>1. ASSUME NEW e \in Emails, QueueEmail(e) PROVE MailInv'
  <2> DEFINE row == [outbox[e] EXCEPT !.status = "PENDING"]
  <2>1. /\ outbox[e].status = "none" /\ outbox[e] \in Letters
        /\ outbox' = [outbox EXCEPT ![e] = row]
        /\ UNCHANGED <<applies, accepted, dispatch, faults>>
    BY <1>1, <1>a DEF QueueEmail, MailShapes
  <2>2. /\ row \in Letters /\ row.status = "PENDING" /\ row.attempts = outbox[e].attempts
        /\ row.wait = outbox[e].wait
    BY <2>1 DEF Letters
  <2> HIDE DEF row
  <2>3. outbox'[e] = row /\ \A f \in Emails : f # e => outbox'[f] = outbox[f]
    BY <1>a, <2>1 DEF MailShapes
  <2>4. MailShapes'
    <3>1. outbox' \in [Emails -> Letters]
      BY <1>a, <2>1, <2>2 DEF MailShapes
    <3> QED BY <1>a, <2>1, <3>1 DEF MailShapes, Reads
  <2>5. \A c \in Dispatches : \A f : Holds(c, f)' <=> Holds(c, f)
    BY <2>1 DEF Holds, Reads, InHand
  <2>6. \A c \in Dispatches : ~Holds(c, e)
    BY <1>a, <2>1 DEF Leased
  <2>7. outbox[e].attempts = 0 /\ faults \in Nat /\ MaxAttempts \in Nat \ {0}
    BY <1>a, <2>1, OutboxAssumption DEF Tries, MailShapes
  <2>8. Tries'
    <3> SUFFICES ASSUME NEW f \in Emails
                 PROVE  /\ outbox'[f].attempts <= MaxAttempts + faults
                        /\ outbox'[f].status = "PENDING" /\ (\A c \in Dispatches : ~Holds(c, f)')
                             => outbox'[f].attempts < MaxAttempts + faults
                        /\ outbox'[f].status = "none" => outbox'[f].attempts = 0
      BY <2>1 DEF Tries
    <3>1. CASE f = e
      BY <2>2, <2>3, <2>7, <3>1
    <3>2. CASE f # e
      BY <1>a, <2>3, <2>5, <3>2 DEF Tries
    <3> QED BY <3>1, <3>2
  <2>9. Leased' /\ OneHolder'
    BY <1>a, <2>1, <2>3, <2>5, <2>6 DEF Leased, OneHolder
  <2>10. ReadBefore'
    <3>1. \A f \in Emails : outbox'[f].attempts = outbox[f].attempts
      BY <2>2, <2>3
    <3>0. SUFFICES ASSUME NEW c \in Dispatches, NEW i \in DOMAIN dispatch[c].todo, NEW q,
                        q = dispatch[c].todo[i]
                 PROVE  /\ q.attempts <= outbox'[q.email].attempts
                        /\ \A b \in Dispatches : b # c /\ Holds(b, q.email)
                             => q.attempts < outbox'[q.email].attempts
      BY <2>1, <2>5 DEF ReadBefore
    <3>2. q \in Readings
      <4>1. dispatch[c].todo \in Seq(Readings)
        BY <1>a DEF MailShapes, DispatchStates
      <4> QED BY ONLY <3>0, <4>1
    <3>3. q.email \in Emails
      BY <3>2 DEF Readings
    <3> QED BY <1>a, <3>0, <3>1, <3>3 DEF ReadBefore
  <2> QED BY <2>4, <2>8, <2>9, <2>10 DEF MailInv
<1>2. ASSUME NEW e \in Emails, NoLongerApplies(e) PROVE MailInv'
  <2>1. MailShapes'
    BY <1>2, <1>a DEF NoLongerApplies, MailShapes, Reads
  <2> QED BY <1>2, <2>1, MailSame DEF NoLongerApplies
<1>3. ASSUME NEW d \in Dispatches, Deliver(d) \/ NotWritableYet(d) PROVE MailInv'
  <2>1. PICK answer \in {"accepted", "failed"} : dispatch' = [dispatch EXCEPT ![d].hand = answer]
    BY <1>3 DEF Deliver, NotWritableYet
  <2>2. /\ dispatch[d].hand = "claimed" /\ Reads(d) /\ dispatch[d] \in DispatchStates
        /\ UNCHANGED <<outbox, applies, faults>>
    BY <1>3, <1>a DEF Deliver, NotWritableYet, MailShapes
  <2>3. InHand(d) \in Emails
    BY <1>a, <2>2, InHandType
  <2> DEFINE new == [dispatch[d] EXCEPT !.hand = answer]
  <2>4. /\ new \in DispatchStates /\ new.hand = answer /\ new.todo = dispatch[d].todo
        /\ new.age = dispatch[d].age
    BY <2>2 DEF DispatchStates
  <2>5. dispatch' = [dispatch EXCEPT ![d] = new]
    BY <1>a, <2>1 DEF MailShapes
  <2> HIDE DEF new
  <2>6. dispatch'[d] = new /\ \A c \in Dispatches : c # d => dispatch'[c] = dispatch[c]
    BY <1>a, <2>5 DEF MailShapes
  <2>7. accepted' \subseteq Emails
    BY <1>3, <1>a, <2>3 DEF Deliver, NotWritableYet, MailShapes
  <2>8. MailShapes'
    <3>1. dispatch' \in [Dispatches -> DispatchStates]
      BY <1>a, <2>4, <2>5 DEF MailShapes
    <3>2. \A c \in Dispatches : dispatch'[c].hand # "none" => Reads(c)'
      BY <1>a, <2>2, <2>4, <2>6 DEF MailShapes, Reads
    <3> QED BY <1>a, <2>2, <2>7, <3>1, <3>2 DEF MailShapes
  <2> QED BY <2>2, <2>4, <2>6, <2>8, MailSame
<1>4. ASSUME NEW d \in Dispatches, Skip(d) \/ RecordSent(d) PROVE MailInv'
  <2>1. /\ dispatch[d].hand \in {"claimed", "accepted"}
        /\ dispatch' = [dispatch EXCEPT ![d] = Turned(d)]
        /\ UNCHANGED <<applies, accepted, faults>>
    BY <1>4 DEF Skip, RecordSent
  <2>2. Reads(d)
    BY <1>a, <2>1 DEF MailShapes
  <2>3. InHand(d) \in Emails /\ outbox[InHand(d)] \in Letters
    BY <1>a, <2>2, InHandType DEF MailShapes
  <2>4. PICK status \in {"SENT", "SKIPPED"} :
          outbox' = [outbox EXCEPT ![InHand(d)] = [outbox[InHand(d)] EXCEPT !.status = status]]
    BY <1>4, <1>a, <2>3 DEF Skip, RecordSent, MailShapes
  <2> DEFINE row == [outbox[InHand(d)] EXCEPT !.status = status]
  <2>5. /\ row \in Letters /\ row.status = status /\ row.attempts = outbox[InHand(d)].attempts
        /\ outbox' = [outbox EXCEPT ![InHand(d)] = row]
    BY <2>3, <2>4 DEF Letters
  <2> HIDE DEF row
  <2> QED BY <2>1, <2>2, <2>3, <2>5, LetGo
<1>5. ASSUME NEW d \in Dispatches, RecordFailure(d) PROVE MailInv'
  <2>1. /\ dispatch[d].hand = "failed" /\ dispatch' = [dispatch EXCEPT ![d] = Turned(d)]
        /\ UNCHANGED <<applies, accepted, faults>>
    BY <1>5 DEF RecordFailure
  <2>2. Reads(d) /\ dispatch[d] \in DispatchStates
    BY <1>a, <2>1 DEF MailShapes
  <2>3. InHand(d) \in Emails /\ outbox[InHand(d)] \in Letters
        /\ Head(dispatch[d].todo) \in Readings
    BY <1>a, <2>2, InHandType DEF MailShapes
  <2> DEFINE e == InHand(d)
             row == IF Head(dispatch[d].todo).attempts + 1 >= MaxAttempts
                    THEN [outbox[e] EXCEPT !.status = "FAILED"]
                    ELSE [outbox[e] EXCEPT !.wait = Left(RetryDelay, dispatch[d].age)]
  <2>4. outbox' = [outbox EXCEPT ![e] = row]
    BY <1>5 DEF RecordFailure
  <2>5. Left(RetryDelay, dispatch[d].age) \in 0..(ClaimLease + RetryDelay)
    <3>1. dispatch[d].age \in 0..(ClaimLease - 1) /\ ClaimLease \in Nat \ {0} /\ RetryDelay \in Nat
      BY <2>2, OutboxAssumption DEF DispatchStates
    <3> QED BY <3>1 DEF Left
  <2>6. Holds(d, e) /\ outbox[e].attempts = Head(dispatch[d].todo).attempts + 1
        /\ outbox[e].status = "PENDING"
    BY <1>a, <2>1, <2>2, <2>3 DEF Holds, Leased
  <2>7. row \in Letters /\ row.attempts = outbox[e].attempts /\ row.status # "none"
        /\ (row.status = "PENDING" => row.attempts < MaxAttempts)
    <3>1. CASE Head(dispatch[d].todo).attempts + 1 >= MaxAttempts
      BY <2>3, <2>6, <3>1 DEF Letters
    <3>2. CASE ~(Head(dispatch[d].todo).attempts + 1 >= MaxAttempts)
      <4>1. row = [outbox[e] EXCEPT !.wait = Left(RetryDelay, dispatch[d].age)]
        BY <3>2
      <4>2. /\ row \in Letters /\ row.attempts = outbox[e].attempts
            /\ row.status = outbox[e].status
        BY <2>3, <2>5, <4>1 DEF Letters
      <4>3. Head(dispatch[d].todo).attempts + 1 < MaxAttempts
        BY <2>3, <3>2, OutboxAssumption DEF Readings
      <4> QED BY <2>6, <4>2, <4>3
    <3> QED BY <3>1, <3>2
  <2> HIDE DEF row
  <2> QED BY <2>1, <2>2, <2>3, <2>4, <2>7, LetGo
<1>6. CASE PassDies
  <2>1. /\ dispatch' = [d \in Dispatches |-> Resting] /\ faults < MaxFaults
        /\ faults' = faults + 1 /\ UNCHANGED <<outbox, applies, accepted>>
    BY <1>6 DEF PassDies
  <2>2. \A d \in Dispatches : dispatch'[d].todo = <<>> /\ dispatch'[d].hand = "none"
    BY <2>1, RestingType
  <2>3. faults \in Nat /\ MaxAttempts \in Nat /\ faults' \in 0..MaxFaults
    BY <1>a, <2>1, OutboxAssumption DEF MailShapes
  <2>4. MailShapes'
    <3>1. dispatch' \in [Dispatches -> DispatchStates]
      BY <2>1, RestingType
    <3> QED BY <1>a, <2>1, <2>2, <2>3, <3>1 DEF MailShapes
  <2>5. \A d \in Dispatches : \A e : ~Holds(d, e)'
    BY <2>2 DEF Holds
  <2>6. Tries'
    <3>1. \A e \in Emails : /\ outbox[e].attempts \in Nat
                            /\ outbox[e].attempts <= MaxAttempts + faults
                            /\ outbox[e].status = "none" => outbox[e].attempts = 0
      BY <1>a DEF Tries, MailShapes, Letters
    <3>2. \A e \in Emails : outbox[e].attempts < MaxAttempts + faults'
      BY <2>1, <2>3, <3>1
    <3> QED BY <2>1, <2>3, <3>1, <3>2 DEF Tries
  <2>7. Leased' /\ OneHolder' /\ ReadBefore'
    BY <2>2, <2>5 DEF Leased, OneHolder, ReadBefore
  <2> QED BY <2>4, <2>6, <2>7 DEF MailInv
<1>7. CASE MailTick
  <2>1. /\ \A d \in Dispatches : Reads(d) => dispatch[d].age + 1 < ClaimLease
        /\ outbox' = [e \in Emails |-> [outbox[e] EXCEPT !.wait = Left(outbox[e].wait, 1)]]
        /\ dispatch' = [d \in Dispatches |->
             IF Reads(d) THEN [dispatch[d] EXCEPT !.age = dispatch[d].age + 1] ELSE Resting]
        /\ UNCHANGED <<applies, accepted, faults>>
    BY <1>7 DEF MailTick
  <2>2. ClaimLease \in Nat \ {0} /\ RetryDelay \in Nat
    BY OutboxAssumption
  <2>3. \A e \in Emails : /\ outbox[e] \in Letters /\ outbox[e].wait \in 0..(ClaimLease + RetryDelay)
                          /\ outbox[e].attempts \in Nat
    BY <1>a DEF MailShapes, Letters
  <2>4. \A e \in Emails : /\ Left(outbox[e].wait, 1) \in 0..(ClaimLease + RetryDelay)
                          /\ Left(outbox[e].wait, 1) + 1 >= outbox[e].wait
    BY <2>2, <2>3 DEF Left
  <2>5. \A e \in Emails : /\ outbox'[e] \in Letters /\ outbox'[e].status = outbox[e].status
                          /\ outbox'[e].attempts = outbox[e].attempts
                          /\ outbox'[e].wait = Left(outbox[e].wait, 1)
    <3> SUFFICES ASSUME NEW e \in Emails
                 PROVE  /\ outbox'[e] \in Letters /\ outbox'[e].status = outbox[e].status
                        /\ outbox'[e].attempts = outbox[e].attempts
                        /\ outbox'[e].wait = Left(outbox[e].wait, 1)
      OBVIOUS
    <3>1. outbox'[e] = [outbox[e] EXCEPT !.wait = Left(outbox[e].wait, 1)]
      BY <2>1
    <3>2. outbox[e] \in Letters /\ Left(outbox[e].wait, 1) \in 0..(ClaimLease + RetryDelay)
      BY <2>3, <2>4
    <3> QED BY <3>1, <3>2 DEF Letters
  <2>6. \A d \in Dispatches :
          /\ dispatch'[d] \in DispatchStates /\ dispatch'[d].todo = dispatch[d].todo
          /\ dispatch'[d].hand = dispatch[d].hand
          /\ Reads(d) => dispatch'[d].age = dispatch[d].age + 1
    <3> SUFFICES ASSUME NEW d \in Dispatches
                 PROVE  /\ dispatch'[d] \in DispatchStates /\ dispatch'[d].todo = dispatch[d].todo
                        /\ dispatch'[d].hand = dispatch[d].hand
                        /\ Reads(d) => dispatch'[d].age = dispatch[d].age + 1
      OBVIOUS
    <3>1. dispatch[d] \in DispatchStates /\ dispatch[d].age \in 0..(ClaimLease - 1)
      BY <1>a DEF MailShapes, DispatchStates
    <3>2. CASE Reads(d)
      <4>1. dispatch[d].age + 1 \in 0..(ClaimLease - 1)
        BY <2>1, <2>2, <3>1, <3>2
      <4>2. dispatch'[d] = [dispatch[d] EXCEPT !.age = dispatch[d].age + 1]
        BY <2>1, <3>2
      <4> QED BY <3>1, <4>1, <4>2 DEF DispatchStates
    <3>3. CASE ~Reads(d)
      <4>1. dispatch'[d] = Resting /\ dispatch[d].todo = <<>> /\ dispatch[d].hand = "none"
        BY <1>a, <2>1, <3>3 DEF MailShapes, Reads
      <4> QED BY <3>3, <4>1, RestingType
    <3> QED BY <3>2, <3>3
  <2>7. \A d \in Dispatches : \A e : Holds(d, e)' <=> Holds(d, e)
    BY <2>6 DEF Holds, Reads, InHand
  <2>8. MailShapes'
    <3>1. outbox' \in [Emails -> Letters] /\ dispatch' \in [Dispatches -> DispatchStates]
      BY <2>1, <2>5, <2>6
    <3> QED BY <1>a, <2>1, <2>6, <3>1 DEF MailShapes, Reads
  <2>9. Tries' /\ OneHolder'
    BY <1>a, <2>1, <2>5, <2>7 DEF Tries, OneHolder
  <2>10. Leased'
    <3> SUFFICES ASSUME NEW d \in Dispatches, NEW e \in Emails, Holds(d, e)
                 PROVE  /\ outbox'[e].status = "PENDING"
                        /\ outbox'[e].attempts = Head(dispatch'[d].todo).attempts + 1
                        /\ outbox'[e].wait + dispatch'[d].age >= ClaimLease
      BY <2>7 DEF Leased
    <3>1. /\ outbox[e].status = "PENDING"
          /\ outbox[e].attempts = Head(dispatch[d].todo).attempts + 1
          /\ outbox[e].wait + dispatch[d].age >= ClaimLease
      BY <1>a DEF Leased
    <3>2. Reads(d) /\ dispatch[d].age \in Nat
      BY <1>a DEF Holds, MailShapes, DispatchStates
    <3>3. outbox'[e].wait + dispatch'[d].age >= ClaimLease
      BY <2>2, <2>3, <2>4, <2>5, <2>6, <3>1, <3>2
    <3> QED BY <2>5, <2>6, <3>1, <3>3
  <2>11. ReadBefore'
    <3>0. SUFFICES ASSUME NEW c \in Dispatches, NEW i \in DOMAIN dispatch[c].todo, NEW q,
                        q = dispatch[c].todo[i]
                 PROVE  /\ q.attempts <= outbox'[q.email].attempts
                        /\ \A b \in Dispatches : b # c /\ Holds(b, q.email)
                             => q.attempts < outbox'[q.email].attempts
      BY <2>6, <2>7 DEF ReadBefore
    <3>2. q \in Readings
      <4>1. dispatch[c].todo \in Seq(Readings)
        BY <1>a DEF MailShapes, DispatchStates
      <4> QED BY ONLY <3>0, <4>1
    <3>3. q.email \in Emails
      BY <3>2 DEF Readings
    <3> QED BY <1>a, <2>5, <3>0, <3>3 DEF ReadBefore
  <2> QED BY <2>8, <2>9, <2>10, <2>11 DEF MailInv
<1>8. CASE UNCHANGED mailVars
  <2>1. MailShapes'
    BY <1>8, <1>a DEF mailVars, MailShapes, Reads
  <2> QED BY <1>8, <2>1, MailSame DEF mailVars
<1> QED
  BY <1>1, <1>2, <1>3, <1>4, <1>5, <1>6, <1>7, <1>8, ReadStep, ClaimStep
     DEF MailNext, DispatchStep

\* Passes overlap, die and leave their claims to the lease: an email is still
\* attempted by one pass at a time, and by no more than MaxAttempts and one for
\* every pass that died: dispatchEmails of email.ts.
THEOREM AlwaysOneAttempt == MailSpec => []OneAttemptAtATime
<1>1. MailInit => MailInv
  BY MailInitially
<1>2. MailInv /\ [MailNext]_mailVars => MailInv'
  BY MailStep
<1>3. MailInv => OneAttemptAtATime
  BY MailInvIsEnough
<1> QED BY <1>1, <1>2, <1>3, PTL DEF MailSpec

-----------------------------------------------------------------------------
(* Waitlist.                                                               *)

PlaceStatuses == ActivePlace \cup {"CLAIMED", "LAPSED", "ENDED", "LEFT"}

\* A row as it is written.
LineRows == [user : Persons, place : Places, status : PlaceStatuses, expires : Nat, number : Nat]
\* A booking, and a reservation on its way to be one.
Holdings == [user : Persons, place : Places, until : Nat, seen : Nat]
\* What a pass read of an active row; a pass has rows to look at or to offer.
Looks == [entry : Nat, status : ActivePlace]
Lists == Seq(Nat) \cup Seq(Looks)
PassRows == [stage : {"idle", "active", "waiting"}, now : Nat, todo : Lists,
             found : {"none", "CLAIMED", "LAPSED", "as it is", "free"}]

\* Rows, bookings and passes have their shapes, and nobody has seen an offer
\* that was not made.
LineShape ==
  /\ line \in Seq(LineRows)
  /\ offers \in Nat /\ lineClock \in Nat
  /\ pass \in [Passes -> PassRows]
  /\ booked \cup asking \subseteq Holdings
  /\ \A b \in booked \cup asking : b.seen <= offers

\* The offers are numbered as they are made, and a row that waits has none.
NumbersOK ==
  /\ offers = Cardinality({e \in DOMAIN line : line[e].number > 0})
  /\ \A e \in DOMAIN line :
       /\ line[e].number <= offers
       /\ (line[e].number > 0) <=> (line[e].expires > 0)
       /\ line[e].status = "WAITING" => line[e].number = 0

\* A pass looks at rows there are, and a slot it found free is nobody's
\* offer; what it has left to offer is first in its line.
PassOK(p) ==
  /\ pass[p].now <= lineClock
  /\ pass[p].found # "none" => pass[p].todo # <<>>
  /\ pass[p].stage = "idle" => pass[p] = Idle
  /\ pass[p].stage = "active" =>
       /\ pass[p].todo \in Seq(Looks) /\ pass[p].found # "free"
       /\ \A i \in DOMAIN pass[p].todo : pass[p].todo[i].entry \in DOMAIN line
  /\ pass[p].stage = "waiting" =>
       /\ pass[p].todo \in Seq(Nat) /\ pass[p].found \in {"none", "free"}
       /\ \A i \in DOMAIN pass[p].todo :
            /\ pass[p].todo[i] \in DOMAIN line
            /\ \A d \in DOMAIN line :
                 (line[d].status = "WAITING" /\ line[d].place[1] = line[pass[p].todo[i]].place[1])
                   => pass[p].todo[i] <= d
       /\ pass[p].found = "free" =>
            OffersAround(line[Head(pass[p].todo)].place, pass[p].now, line[Head(pass[p].todo)].user) = {}

PassesOK == \A p \in Passes : PassOK(p)

\* OfferCanBeTaken, reservations that are still asking included.
TakeableOK ==
  \A e \in DOMAIN line : OpenOffer(e) =>
    /\ \A b \in booked \cup asking : (b.user # line[e].user /\ Overlap(b.place, line[e].place))
         => b.seen < line[e].number
    /\ \A d \in DOMAIN line :
         (OpenOffer(d) /\ Overlap(line[d].place, line[e].place))
           => line[d].user = line[e].user

\* The invariant; FirstInLineFirst is part of the property.
LineInv == LineShape /\ NumbersOK /\ PassesOK /\ TakeableOK /\ FirstInLineFirst

\* Between two states no row was offered: rows stay whose they are and where,
\* may only leave the line, and whoever joins comes last.
Eased ==
  /\ line' \in Seq(LineRows) /\ Len(line) <= Len(line')
  /\ \A e \in DOMAIN line :
       /\ line'[e].user = line[e].user /\ line'[e].place = line[e].place
       /\ line'[e].expires = line[e].expires /\ line'[e].number = line[e].number
       /\ line'[e].status \in ActivePlace => line'[e].status = line[e].status
  /\ \A e \in DOMAIN line' \ DOMAIN line :
       line'[e].status = "WAITING" /\ line'[e].number = 0 /\ line'[e].expires = 0

\* What a row is made of.
LEMMA RowType ==
  ASSUME NEW l \in Seq(LineRows), NEW e \in DOMAIN l
  PROVE  /\ e \in Nat /\ 1 <= e /\ e <= Len(l)
         /\ l[e] \in LineRows
         /\ l[e].user \in Persons /\ l[e].place \in Places /\ l[e].status \in PlaceStatuses
         /\ l[e].expires \in Nat /\ l[e].number \in Nat
<1>1. DOMAIN l = 1..Len(l) /\ Len(l) \in Nat
  OBVIOUS
<1>2. l[e] \in LineRows
  OBVIOUS
<1> QED BY <1>1, <1>2 DEF LineRows

\* The rows of a line can be counted.
LEMMA LineFinite ==
  ASSUME NEW l \in Seq(LineRows), NEW S \in SUBSET DOMAIN l
  PROVE  IsFiniteSet(S) /\ Cardinality(S) \in Nat
<1>1. DOMAIN l = 1..Len(l) /\ Len(l) \in Nat
  OBVIOUS
<1>2. IsFiniteSet(1..Len(l))
  BY <1>1, FS_Interval
<1>3. IsFiniteSet(S)
  BY <1>1, <1>2, FS_Subset
<1> QED BY <1>3, FS_CardinalityType

\* A line that stays as it is is an eased one.
LEMMA EasedSame ==
  ASSUME LineInv, line' = line PROVE Eased
BY DEF Eased, LineInv, LineShape

\* A step that offers nothing keeps the numbers ...
LEMMA NumbersKept ==
  ASSUME LineInv, Eased, offers' = offers
  PROVE  NumbersOK'
<1>1. {e \in DOMAIN line' : line'[e].number > 0} = {e \in DOMAIN line : line[e].number > 0}
  <2>1. ASSUME NEW e \in DOMAIN line' PROVE e \notin DOMAIN line => ~(line'[e].number > 0)
    BY <2>1 DEF Eased
  <2>2. DOMAIN line \subseteq DOMAIN line'
    BY DEF Eased, LineInv, LineShape
  <2> QED BY <2>1, <2>2 DEF Eased
<1>2. ASSUME NEW e \in DOMAIN line'
      PROVE  /\ line'[e].number <= offers'
             /\ (line'[e].number > 0) <=> (line'[e].expires > 0)
             /\ line'[e].status = "WAITING" => line'[e].number = 0
  <2>1. CASE e \in DOMAIN line
    BY <2>1 DEF Eased, LineInv, NumbersOK, ActivePlace
  <2>2. CASE e \notin DOMAIN line
    BY <1>2, <2>2 DEF Eased, LineInv, LineShape
  <2> QED BY <2>1, <2>2
<1> QED BY <1>1, <1>2 DEF NumbersOK, LineInv

\* ... leaves the first in line where it is ...
LEMMA FirstKept ==
  ASSUME LineInv, Eased
  PROVE  FirstInLineFirst'
<1> SUFFICES ASSUME NEW e \in DOMAIN line', NEW d \in DOMAIN line',
                    line'[e].status = "OFFERED", line'[d].status = "WAITING",
                    line'[d].place[1] = line'[e].place[1]
             PROVE  e < d
  BY DEF FirstInLineFirst
<1>1. e \in DOMAIN line /\ line[e].status = "OFFERED" /\ line'[e].place = line[e].place
  BY DEF Eased, ActivePlace
<1>2. e \in Nat /\ d \in Nat /\ e <= Len(line)
  BY <1>1 DEF Eased, LineInv, LineShape
<1>3. CASE d \in DOMAIN line
  BY <1>1, <1>3 DEF Eased, ActivePlace, LineInv, FirstInLineFirst
<1>4. CASE d \notin DOMAIN line
  BY <1>2, <1>4 DEF LineInv, LineShape, Eased
<1> QED BY <1>3, <1>4

\* ... leaves the open offers open to whoever has them ...
LEMMA TakeableKept ==
  ASSUME LineInv, Eased, lineClock' \in Nat, lineClock' >= lineClock,
         \A b \in booked' \cup asking' : \E c \in booked \cup asking :
           c.user = b.user /\ c.place = b.place /\ c.seen = b.seen
  PROVE  TakeableOK'
<1>1. ASSUME NEW e \in DOMAIN line', OpenOffer(e)'
      PROVE  /\ e \in DOMAIN line /\ OpenOffer(e)
             /\ line'[e].user = line[e].user /\ line'[e].place = line[e].place
             /\ line'[e].number = line[e].number
  <2>1. e \in DOMAIN line
    BY <1>1 DEF Eased, OpenOffer
  <2>2. line[e].expires \in Nat /\ lineClock \in Nat
    BY <2>1, RowType DEF LineInv, LineShape
  <2> QED BY <1>1, <2>1, <2>2 DEF Eased, OpenOffer, ActivePlace
<1>2. SUFFICES ASSUME NEW e \in DOMAIN line', OpenOffer(e)'
               PROVE  /\ \A b \in booked' \cup asking' :
                           (b.user # line'[e].user /\ Overlap(b.place, line'[e].place))
                             => b.seen < line'[e].number
                      /\ \A d \in DOMAIN line' :
                           (OpenOffer(d)' /\ Overlap(line'[d].place, line'[e].place))
                             => line'[d].user = line'[e].user
  BY DEF TakeableOK, Overlap
<1>3. /\ e \in DOMAIN line /\ OpenOffer(e)
      /\ line'[e].user = line[e].user /\ line'[e].place = line[e].place
      /\ line'[e].number = line[e].number
  BY <1>1, <1>2
<1>4. /\ \A b \in booked \cup asking : (b.user # line[e].user /\ Overlap(b.place, line[e].place))
           => b.seen < line[e].number
      /\ \A d \in DOMAIN line :
           (OpenOffer(d) /\ Overlap(line[d].place, line[e].place)) => line[d].user = line[e].user
  BY <1>3 DEF LineInv, TakeableOK
<1>5. ASSUME NEW b \in booked' \cup asking', b.user # line'[e].user, Overlap(b.place, line'[e].place)
      PROVE  b.seen < line'[e].number
  <2>1. PICK c \in booked \cup asking : c.user = b.user /\ c.place = b.place /\ c.seen = b.seen
    OBVIOUS
  <2> QED BY <1>3, <1>4, <1>5, <2>1
<1>6. ASSUME NEW d \in DOMAIN line', OpenOffer(d)', Overlap(line'[d].place, line'[e].place)
      PROVE  line'[d].user = line'[e].user
  BY <1>1, <1>3, <1>4, <1>6
<1> QED BY <1>5, <1>6

\* ... and a pass that does not move keeps what it found.
LEMMA PassKept ==
  ASSUME LineInv, Eased, lineClock' \in Nat, lineClock' >= lineClock,
         NEW p \in Passes, pass'[p] = pass[p]
  PROVE  PassOK(p)'
<1> USE DEF LineInv, LineShape
<1>0. PassOK(p) /\ pass[p] \in PassRows /\ pass[p].now \in Nat
  BY DEF PassesOK, PassRows
<1>1. DOMAIN line = 1..Len(line) /\ DOMAIN line \subseteq DOMAIN line' /\ Len(line) \in Nat
  BY DEF Eased
<1>2. pass'[p].now <= lineClock'
  BY <1>0 DEF PassOK
<1>3. ASSUME pass[p].stage = "waiting", NEW i \in DOMAIN pass[p].todo
      PROVE  /\ pass[p].todo[i] \in DOMAIN line'
             /\ \A d \in DOMAIN line' :
                  (line'[d].status = "WAITING" /\ line'[d].place[1] = line'[pass[p].todo[i]].place[1])
                    => pass[p].todo[i] <= d
  <2>1. /\ pass[p].todo[i] \in DOMAIN line
        /\ \A d \in DOMAIN line :
                  (line[d].status = "WAITING" /\ line[d].place[1] = line[pass[p].todo[i]].place[1])
                    => pass[p].todo[i] <= d
    BY <1>0, <1>3 DEF PassOK
  <2>2. ASSUME NEW d \in DOMAIN line', line'[d].status = "WAITING",
               line'[d].place[1] = line'[pass[p].todo[i]].place[1]
        PROVE  pass[p].todo[i] <= d
    <3>1. CASE d \in DOMAIN line
      BY <2>1, <2>2, <3>1 DEF Eased, ActivePlace
    <3>2. CASE d \notin DOMAIN line
      BY <1>1, <2>1, <3>2 DEF Eased
    <3> QED BY <3>1, <3>2
  <2> QED BY <1>1, <2>1, <2>2
<1>4. ASSUME pass[p].stage = "waiting", pass[p].found = "free"
      PROVE  LET h == Head(pass[p].todo)
             IN  OffersAround(line[h].place, pass[p].now, line[h].user)' = {}
  <2> DEFINE h == Head(pass[p].todo)
  <2>1. h \in DOMAIN line
    BY <1>0, <1>4 DEF PassOK
  <2>2. OffersAround(line[h].place, pass[p].now, line[h].user) = {}
    BY <1>0, <1>4 DEF PassOK
  <2>3. line'[h].place = line[h].place /\ line'[h].user = line[h].user
    BY <2>1 DEF Eased
  <2>4. ASSUME NEW d \in DOMAIN line', line'[d].status = "OFFERED", line'[d].expires > pass[p].now,
               line'[d].user # line[h].user, Overlap(line'[d].place, line[h].place)
        PROVE  d \in OffersAround(line[h].place, pass[p].now, line[h].user)
    BY <2>4 DEF OffersAround, Eased, ActivePlace
  <2> QED BY <2>2, <2>3, <2>4 DEF OffersAround
<1>5. pass[p].stage = "active" =>
        \A i \in DOMAIN pass[p].todo : pass[p].todo[i].entry \in DOMAIN line'
  BY <1>0, <1>1 DEF PassOK
<1>6. /\ pass[p].found # "none" => pass[p].todo # <<>>
      /\ pass[p].stage = "idle" => pass[p] = Idle
      /\ pass[p].stage = "active" => pass[p].todo \in Seq(Looks) /\ pass[p].found # "free"
      /\ pass[p].stage = "waiting" => pass[p].todo \in Seq(Nat) /\ pass[p].found \in {"none", "free"}
  BY <1>0 DEF PassOK
<1> QED BY <1>2, <1>3, <1>4, <1>5, <1>6 DEF PassOK
\* A step that leaves the line and the passes alone.
LEMMA QuietStep ==
  ASSUME LineInv, Eased, UNCHANGED <<pass, offers>>,
         lineClock' \in Nat, lineClock' >= lineClock,
         booked' \cup asking' \subseteq Holdings,
         \A b \in booked' \cup asking' : \E c \in booked \cup asking :
           c.user = b.user /\ c.place = b.place /\ c.seen = b.seen
  PROVE  LineInv'
<1>1. LineShape'
  <2>1. \A b \in booked' \cup asking' :
          b.seen <= offers
    BY DEF LineInv, LineShape
  <2> QED BY <2>1 DEF LineInv, LineShape, Eased
<1>2. PassesOK'
  BY PassKept DEF PassesOK
<1> QED BY <1>1, <1>2, NumbersKept, FirstKept, TakeableKept DEF LineInv

\* A step of a pass that offers nothing.
LEMMA PassMoves ==
  ASSUME LineInv, Eased, NEW p \in Passes, \A q \in Passes : q = p,
         UNCHANGED <<booked, asking, offers, lineClock>>,
         pass' \in [Passes -> PassRows], PassOK(p)'
  PROVE  LineInv'
<1>1. LineShape'
  BY DEF LineInv, LineShape, Eased
<1>2. PassesOK'
  BY DEF PassesOK
<1>3. lineClock' \in Nat /\ lineClock' >= lineClock
  BY DEF LineInv, LineShape
<1>4. TakeableOK'
  BY <1>3, TakeableKept
<1> QED BY <1>1, <1>2, <1>4, NumbersKept, FirstKept DEF LineInv

\* JoinWaitlist: the new row is the last.
LEMMA JoinStep ==
  ASSUME LineInv, NEW u \in Persons, NEW place \in Places, JoinWaitlist(u, place)
  PROVE  LineInv'
<1> DEFINE row == [user |-> u, place |-> place, status |-> "WAITING", expires |-> 0, number |-> 0]
<1>1. line' = Append(line, row) /\ UNCHANGED <<booked, asking, pass, offers, lineClock>>
  BY DEF JoinWaitlist
<1>2. row \in LineRows
  BY DEF LineRows, PlaceStatuses, ActivePlace
<1>3. line \in Seq(LineRows) /\ lineClock \in Nat
  BY DEF LineInv, LineShape
<1>4. row.status = "WAITING" /\ row.number = 0 /\ row.expires = 0
  OBVIOUS
<1> HIDE DEF row
<1>5. /\ line' \in Seq(LineRows) /\ Len(line') = Len(line) + 1 /\ Len(line) \in Nat
      /\ DOMAIN line = 1..Len(line) /\ DOMAIN line' = 1..Len(line) + 1
      /\ \A e \in DOMAIN line : line'[e] = line[e]
      /\ line'[Len(line) + 1] = row
  BY <1>1, <1>2, <1>3
<1>6. Eased
  BY <1>4, <1>5 DEF Eased
<1>7. booked' \cup asking' \subseteq Holdings
  BY <1>1 DEF LineInv, LineShape
<1> QED BY <1>1, <1>3, <1>6, <1>7, QuietStep

\* One row leaves the line, or none does.
LEMMA RowLeaves ==
  ASSUME LineInv, NEW e \in DOMAIN line, NEW x \in PlaceStatuses \ ActivePlace,
         line' = [line EXCEPT ![e].status = x]
  PROVE  Eased
<1>1. line \in Seq(LineRows)
  BY DEF LineInv, LineShape
<1>2. ASSUME NEW d \in DOMAIN line
      PROVE  line'[d] = IF d = e THEN [line[d] EXCEPT !.status = x] ELSE line[d]
  BY <1>1
<1>3. DOMAIN line' = DOMAIN line /\ Len(line') = Len(line) /\ Len(line) \in Nat
  BY <1>1
<1>4. ASSUME NEW d \in DOMAIN line PROVE line'[d] \in LineRows
  BY <1>1, <1>2, RowType DEF LineRows
<1>5. line' \in Seq(LineRows)
  BY <1>1, <1>3, <1>4
<1>6. ASSUME NEW d \in DOMAIN line
      PROVE  /\ line'[d].user = line[d].user /\ line'[d].place = line[d].place
             /\ line'[d].expires = line[d].expires /\ line'[d].number = line[d].number
             /\ line'[d].status \in ActivePlace => line'[d].status = line[d].status
  BY <1>1, <1>2, RowType DEF LineRows
<1> QED BY <1>3, <1>5, <1>6 DEF Eased

\* LeaveWaitlist.
LEMMA LeaveStep ==
  ASSUME LineInv, NEW e \in DOMAIN line, LeaveWaitlist(e)
  PROVE  LineInv'
<1>1. Eased
  BY RowLeaves DEF LeaveWaitlist, PlaceStatuses, ActivePlace
<1>2. lineClock' \in Nat /\ lineClock' >= lineClock /\ booked' \cup asking' \subseteq Holdings
  BY DEF LineInv, LineShape, LeaveWaitlist
<1> QED BY <1>1, <1>2, QuietStep DEF LeaveWaitlist

\* AskForSlot: a reservation let through lies across nobody else's open offer.
LEMMA AskStep ==
  ASSUME LineInv, NEW u \in Persons, NEW place \in Places, AskForSlot(u, place)
  PROVE  LineInv'
<1> DEFINE a == [user |-> u, place |-> place, until |-> lineClock + HoldLength, seen |-> offers]
<1>1. /\ LetThrough(u, place) /\ asking' = asking \cup {a}
      /\ UNCHANGED <<line, booked, pass, offers, lineClock>>
  BY DEF AskForSlot
<1>2. a.user = u /\ a.place = place /\ a.seen = offers /\ a \in Holdings
  BY WaitlistAssumption DEF LineInv, LineShape, Holdings
<1> HIDE DEF a
<1>3. Eased /\ lineClock' \in Nat /\ lineClock' >= lineClock
  BY <1>1, EasedSame DEF LineInv, LineShape
<1>4. LineShape'
  BY <1>1, <1>2 DEF LineInv, LineShape
<1>5. PassesOK'
  BY <1>1, <1>3, PassKept DEF PassesOK
<1>6. TakeableOK'
  <2>1. ASSUME NEW e \in DOMAIN line, OpenOffer(e), u # line[e].user PROVE ~Overlap(place, line[e].place)
    BY <1>1, <2>1 DEF LetThrough, OffersAround, OpenOffer, Overlap
  <2>2. TakeableOK
    BY DEF LineInv
  <2> QED BY <1>1, <1>2, <2>1, <2>2 DEF TakeableOK, OpenOffer
<1> QED BY <1>1, <1>3, <1>4, <1>5, <1>6, NumbersKept, FirstKept DEF LineInv

\* The transaction of a reservation, a capture, a cancellation and time.
LEMMA BookingSteps ==
  ASSUME LineInv,
         \/ \E a \in asking : ReserveSlot(a)
         \/ \E b \in booked : Confirmed(b) \/ GivenUp(b)
         \/ LineTick
  PROVE  LineInv'
<1>0. booked \cup asking \subseteq Holdings /\ Forever \in Nat
  BY WaitlistAssumption DEF LineInv, LineShape, Forever
<1>1. Eased /\ UNCHANGED <<pass, offers>>
  BY EasedSame DEF ReserveSlot, Confirmed, GivenUp, LineTick
<1>2. lineClock' \in Nat /\ lineClock' >= lineClock
  BY DEF ReserveSlot, Confirmed, GivenUp, LineTick, LineInv, LineShape
<1>3. \A b \in booked' \cup asking' : \E c \in booked \cup asking :
         c.user = b.user /\ c.place = b.place /\ c.seen = b.seen
  <2>1. ASSUME NEW a \in asking, ReserveSlot(a) PROVE booked' \cup asking' \subseteq booked \cup asking
    BY <2>1 DEF ReserveSlot
  <2>2. ASSUME NEW b \in booked, Confirmed(b)
        PROVE  \A d \in booked' \cup asking' : \E c \in booked \cup asking :
                  c.user = d.user /\ c.place = d.place /\ c.seen = d.seen
    BY <2>2, <1>0 DEF Confirmed, Holdings
  <2>3. ASSUME NEW b \in booked, GivenUp(b) PROVE booked' \cup asking' \subseteq booked \cup asking
    BY <2>3 DEF GivenUp
  <2>4. ASSUME LineTick PROVE booked' \cup asking' \subseteq booked \cup asking
    BY <2>4 DEF LineTick
  <2> QED BY <2>1, <2>2, <2>3, <2>4
<1>4. booked' \cup asking' \subseteq Holdings
  BY <1>0 DEF ReserveSlot, Confirmed, GivenUp, LineTick, Holdings
<1> QED BY <1>1, <1>2, <1>3, <1>4, QuietStep
\* What a pass and a row it looks at are made of.
LEMMA PassType ==
  ASSUME LineInv, NEW p \in Passes
  PROVE  /\ PassOK(p) /\ pass[p] \in PassRows /\ pass \in [Passes -> PassRows]
         /\ pass[p].stage \in {"idle", "active", "waiting"}
         /\ pass[p].now \in Nat /\ pass[p].todo \in Lists
         /\ pass[p].found \in {"none", "CLAIMED", "LAPSED", "as it is", "free"}
BY DEF LineInv, LineShape, PassesOK, PassRows

\* The entries of a set in their order are entries of the set.
LEMMA InOrderType ==
  ASSUME LineInv, NEW S \in SUBSET DOMAIN line, NEW order \in InOrder(S)
  PROVE  order \in Seq(Nat) /\ \A i \in DOMAIN order : order[i] \in S
<1>1. Cardinality(S) \in Nat
  BY LineFinite DEF LineInv, LineShape
<1>2. S \subseteq Nat
  BY DEF LineInv, LineShape
<1>3. order \in [1..Cardinality(S) -> S]
  BY DEF InOrder
<1> QED BY <1>1, <1>2, <1>3

\* BeginPass: places of slots that have started end.
LEMMA BeginStep ==
  ASSUME LineInv, NEW p \in Passes, \A q \in Passes : q = p, BeginPass(p)
  PROVE  LineInv'
<1> DEFINE ends == {e \in DOMAIN line : line[e].status \in ActivePlace /\ line[e].place[1] <= lineClock}
           left == {e \in DOMAIN line \ ends : line[e].status \in ActivePlace}
<1>1. PICK order \in InOrder(left) :
        pass' = [pass EXCEPT ![p] =
               [stage |-> "active", now |-> lineClock, found |-> "none",
                todo |-> [i \in DOMAIN order |->
                   [entry |-> order[i], status |-> line[order[i]].status]]]]
  BY DEF BeginPass
<1>2. /\ line' = [e \in DOMAIN line |-> IF e \in ends THEN [line[e] EXCEPT !.status = "ENDED"] ELSE line[e]]
      /\ UNCHANGED <<booked, asking, offers, lineClock>>
  BY DEF BeginPass
<1>3. line \in Seq(LineRows) /\ lineClock \in Nat /\ pass \in [Passes -> PassRows]
  BY DEF LineInv, LineShape
<1>4. order \in Seq(Nat) /\ \A i \in DOMAIN order : order[i] \in left
  BY InOrderType
<1>5. \A e \in left : e \in DOMAIN line /\ line[e].status \in ActivePlace
  OBVIOUS
<1> HIDE DEF ends, left
<1>6. Eased
  <2>1. ASSUME NEW d \in DOMAIN line
        PROVE  /\ line'[d] \in LineRows
               /\ line'[d].user = line[d].user /\ line'[d].place = line[d].place
               /\ line'[d].expires = line[d].expires /\ line'[d].number = line[d].number
               /\ line'[d].status \in ActivePlace => line'[d].status = line[d].status
    <3>1. line[d] \in LineRows
      BY <1>3
    <3>2. line'[d] = IF d \in ends THEN [line[d] EXCEPT !.status = "ENDED"] ELSE line[d]
      BY <1>2
    <3> QED BY <3>1, <3>2 DEF LineRows, PlaceStatuses, ActivePlace
  <2>2. DOMAIN line' = DOMAIN line /\ DOMAIN line = 1..Len(line) /\ Len(line) \in Nat
    BY <1>2, <1>3
  <2>3. line' \in Seq(LineRows) /\ Len(line') = Len(line)
    BY <1>2, <2>1, <2>2
  <2> QED BY <2>1, <2>2, <2>3 DEF Eased
<1> DEFINE looks == [i \in DOMAIN order |-> [entry |-> order[i], status |-> line[order[i]].status]]
           row == [stage |-> "active", now |-> lineClock, found |-> "none", todo |-> looks]
<1>7. looks \in Seq(Looks) /\ \A i \in DOMAIN looks : looks[i].entry \in DOMAIN line
  <2>1. \A i \in DOMAIN order : [entry |-> order[i], status |-> line[order[i]].status] \in Looks
    BY <1>4, <1>5 DEF Looks
  <2> QED BY <1>4, <1>5, <2>1
<1> HIDE DEF looks
<1>8. row \in PassRows
  BY <1>3, <1>7 DEF PassRows, Lists
<1>9. pass' \in [Passes -> PassRows] /\ pass'[p] = row
  BY <1>1, <1>3, <1>8 DEF looks
<1>10. PassOK(p)'
  <2>1. /\ row.stage = "active" /\ row.now = lineClock /\ row.found = "none" /\ row.todo = looks
    OBVIOUS
  <2>2. DOMAIN line' = DOMAIN line
    BY <1>2
  <2> HIDE DEF row
  <2> QED BY <1>2, <1>3, <1>7, <1>9, <2>1, <2>2 DEF PassOK
<1> QED BY <1>2, <1>6, <1>9, <1>10, PassMoves

\* LookAtEntry.
LEMMA LookStep ==
  ASSUME LineInv, NEW p \in Passes, \A q \in Passes : q = p, LookAtEntry(p)
  PROVE  LineInv'
<1>1. PICK x \in {"CLAIMED", "LAPSED", "as it is"} : pass' = [pass EXCEPT ![p].found = x]
  <2> DEFINE e == line[Head(pass[p].todo).entry]
             mine == \E b \in BookingsHolding(e.place, pass[p].now) : b.user = e.user
             over == Head(pass[p].todo).status = "OFFERED" /\ e.expires <= pass[p].now
             x == IF mine THEN "CLAIMED" ELSE IF over THEN "LAPSED" ELSE "as it is"
  <2>1. pass' = [pass EXCEPT ![p].found = x]
    BY DEF LookAtEntry
  <2>2. x \in {"CLAIMED", "LAPSED", "as it is"}
    OBVIOUS
  <2> HIDE DEF x
  <2> QED BY <2>1, <2>2
<1>2. /\ UNCHANGED <<line, booked, asking, offers, lineClock>>
      /\ pass[p].stage = "active" /\ pass[p].todo # <<>>
  BY DEF LookAtEntry
<1>3. Eased
  BY <1>2, EasedSame
<1>4. pass'[p] = [pass[p] EXCEPT !.found = x] /\ pass' \in [Passes -> PassRows]
  BY <1>1, PassType DEF PassRows
<1>5. /\ pass'[p].stage = "active" /\ pass'[p].now = pass[p].now
      /\ pass'[p].found = x /\ pass'[p].todo = pass[p].todo
  BY <1>2, <1>4, PassType DEF PassRows
<1>6. PassOK(p)'
  BY <1>2, <1>5, PassType DEF PassOK
<1> QED BY <1>2, <1>3, <1>4, <1>6, PassMoves

\* The head and the tail of a list that is not empty.
LEMMA HeadAndTail ==
  ASSUME NEW S, NEW s \in Seq(S), s # <<>>
  PROVE  /\ 1 \in DOMAIN s /\ Head(s) = s[1] /\ Head(s) \in S
         /\ Tail(s) \in Seq(S)
         /\ \A i \in DOMAIN Tail(s) : i + 1 \in DOMAIN s /\ Tail(s)[i] = s[i + 1]
<1>1. Len(s) \in Nat /\ Len(s) >= 1 /\ DOMAIN s = 1..Len(s)
  OBVIOUS
<1>2. Tail(s) \in Seq(S) /\ Len(Tail(s)) = Len(s) - 1
  BY <1>1
<1>3. ASSUME NEW i \in DOMAIN Tail(s) PROVE i + 1 \in DOMAIN s /\ Tail(s)[i] = s[i + 1]
  BY <1>1, <1>2
<1> QED BY <1>1, <1>2, <1>3

\* UpdateEntry: a claimed or lapsed row leaves the line, the others stay.
LEMMA UpdateStep ==
  ASSUME LineInv, NEW p \in Passes, \A q \in Passes : q = p, UpdateEntry(p)
  PROVE  LineInv'
<1> DEFINE h == Head(pass[p].todo)
<1>1. /\ UNCHANGED <<booked, asking, offers, lineClock>>
      /\ pass[p].stage = "active" /\ pass[p].todo # <<>> /\ pass[p].found # "none"
      /\ pass' = [pass EXCEPT ![p].todo = Tail(@), ![p].found = "none"]
  BY DEF UpdateEntry
<1>2. /\ pass[p].todo \in Seq(Looks) /\ pass[p].found \in {"CLAIMED", "LAPSED", "as it is"}
      /\ \A i \in DOMAIN pass[p].todo : pass[p].todo[i].entry \in DOMAIN line
  BY <1>1, PassType DEF PassOK
<1>20. PICK todo : todo = pass[p].todo
  OBVIOUS
<1>21. /\ todo \in Seq(Looks) /\ todo # <<>> /\ h = Head(todo)
       /\ \A i \in DOMAIN todo : todo[i].entry \in DOMAIN line
  BY <1>1, <1>2, <1>20
<1>22. /\ 1 \in DOMAIN todo /\ Head(todo) = todo[1] /\ Head(todo) \in Looks
       /\ Tail(todo) \in Seq(Looks)
       /\ \A i \in DOMAIN Tail(todo) : i + 1 \in DOMAIN todo /\ Tail(todo)[i] = todo[i + 1]
  BY <1>21, HeadAndTail
<1>3. h \in Looks /\ h.entry \in DOMAIN line
  BY <1>21, <1>22
<1>4. Eased
  <2>1. CASE pass[p].found # "as it is" /\ line[h.entry].status = h.status
    <3>1. line' = [line EXCEPT ![h.entry].status = pass[p].found]
      BY <2>1 DEF UpdateEntry
    <3>2. pass[p].found \in PlaceStatuses \ ActivePlace
      BY <1>2, <2>1 DEF PlaceStatuses, ActivePlace
    <3> QED BY <1>3, <3>1, <3>2, RowLeaves
  <2>2. CASE ~(pass[p].found # "as it is" /\ line[h.entry].status = h.status)
    <3>1. line' = line
      BY <2>2 DEF UpdateEntry
    <3> QED BY <3>1, EasedSame
  <2> QED BY <2>1, <2>2
<1>5. PICK rest \in Seq(Looks) : rest = Tail(todo)
  BY <1>22
<1>50. \A i \in DOMAIN rest : rest[i].entry \in DOMAIN line
  BY <1>5, <1>21, <1>22
<1>61. pass' = [pass EXCEPT ![p] = [pass[p] EXCEPT !.todo = rest, !.found = "none"]]
  BY <1>1, <1>5, <1>20
<1>62. pass'[p] = [pass[p] EXCEPT !.todo = rest, !.found = "none"]
  BY <1>61, PassType
<1>7. /\ pass'[p].stage = "active" /\ pass'[p].now = pass[p].now
      /\ pass'[p].found = "none" /\ pass'[p].todo = rest /\ pass'[p] \in PassRows
  <2>1. rest \in Lists
    BY <1>5 DEF Lists
  <2> QED BY <1>1, <1>62, <2>1, PassType DEF PassRows
<1>6. pass' \in [Passes -> PassRows]
  BY <1>61, <1>7, PassType
<1>8. DOMAIN line \subseteq DOMAIN line'
  BY <1>4 DEF Eased, LineInv, LineShape
<1>9. PassOK(p)'
  BY <1>1, <1>50, <1>7, <1>8, PassType DEF PassOK
<1> QED BY <1>1, <1>4, <1>6, <1>9, PassMoves

\* ReadWaiting: what is left to offer is first in its line, and whoever joins
\* later comes after it.
LEMMA ReadStepOfPass ==
  ASSUME LineInv, NEW p \in Passes, \A q \in Passes : q = p, ReadWaiting(p)
  PROVE  LineInv'
<1> DEFINE waiting == {e \in DOMAIN line : line[e].status = "WAITING" /\ line[e].place[1] > pass[p].now}
<1>1. PICK order \in InOrder(FirstOfEachStart(waiting)) :
        pass' = [pass EXCEPT ![p].stage = "waiting", ![p].todo = order]
  BY DEF ReadWaiting
<1>2. /\ UNCHANGED <<line, booked, asking, offers, lineClock>>
      /\ pass[p].stage = "active" /\ pass[p].todo = <<>>
  BY DEF ReadWaiting
<1>3. FirstOfEachStart(waiting) \subseteq waiting /\ FirstOfEachStart(waiting) \in SUBSET DOMAIN line
  BY DEF FirstOfEachStart
<1>4. order \in Seq(Nat) /\ \A i \in DOMAIN order : order[i] \in FirstOfEachStart(waiting)
  BY <1>3, InOrderType
<1>5. ASSUME NEW e \in FirstOfEachStart(waiting)
      PROVE  /\ e \in DOMAIN line
             /\ \A d \in DOMAIN line :
                  (line[d].status = "WAITING" /\ line[d].place[1] = line[e].place[1]) => e <= d
  BY <1>3, <1>5 DEF FirstOfEachStart
<1> HIDE DEF waiting
<1>6. pass'[p] = [pass[p] EXCEPT !.stage = "waiting", !.todo = order] /\ pass' \in [Passes -> PassRows]
  <2>1. order \in Lists
    BY <1>4 DEF Lists
  <2> QED BY <1>1, <2>1, PassType DEF PassRows
<1>7. /\ pass'[p].stage = "waiting" /\ pass'[p].now = pass[p].now
      /\ pass'[p].found = pass[p].found /\ pass'[p].todo = order
  BY <1>6, PassType DEF PassRows
<1>8. pass[p].found = "none"
  BY <1>2, PassType DEF PassOK
<1>9. PassOK(p)'
  <2>1. \A i \in DOMAIN order : /\ order[i] \in DOMAIN line
             /\ \A d \in DOMAIN line :
                  (line[d].status = "WAITING" /\ line[d].place[1] = line[order[i]].place[1]) => order[i] <= d
    BY <1>4, <1>5
  <2> QED BY <1>2, <1>4, <1>7, <1>8, <2>1, PassType DEF PassOK
<1>10. Eased
  BY <1>2, EasedSame
<1> QED BY <1>2, <1>6, <1>9, <1>10, PassMoves

\* LookAtSlot.
LEMMA SlotStep ==
  ASSUME LineInv, NEW p \in Passes, \A q \in Passes : q = p, LookAtSlot(p)
  PROVE  LineInv'
<1>1. /\ UNCHANGED <<line, booked, asking, offers, lineClock>>
      /\ pass[p].stage = "waiting" /\ pass[p].todo # <<>> /\ pass[p].found = "none"
  BY DEF LookAtSlot
<1>2. Eased
  BY <1>1, EasedSame
<1>3. pass[p].todo \in Seq(Nat)
  BY <1>1, PassType DEF PassOK
<1>4. CASE FreeToOffer(Head(pass[p].todo), pass[p].now)
  <2>1. pass' = [pass EXCEPT ![p] = [pass[p] EXCEPT !.found = "free"]]
    BY <1>4 DEF LookAtSlot
  <2>2. pass'[p] = [pass[p] EXCEPT !.found = "free"] /\ pass' \in [Passes -> PassRows]
    BY <2>1, PassType DEF PassRows
  <2>3. /\ pass'[p].stage = "waiting" /\ pass'[p].now = pass[p].now
        /\ pass'[p].found = "free" /\ pass'[p].todo = pass[p].todo
    BY <1>1, <2>2, PassType DEF PassRows
  <2>4. PassOK(p)'
    BY <1>1, <1>4, <2>3, PassType DEF PassOK, FreeToOffer, OffersAround
  <2> QED BY <1>1, <1>2, <2>2, <2>4, PassMoves
<1>5. CASE ~FreeToOffer(Head(pass[p].todo), pass[p].now)
  <2>1. pass' = [pass EXCEPT ![p] = [pass[p] EXCEPT !.todo = Tail(pass[p].todo)]]
    BY <1>5 DEF LookAtSlot
  <2>2. PICK todo : todo = pass[p].todo /\ todo \in Seq(Nat) /\ todo # <<>>
    BY <1>1, <1>3
  <2>20. Tail(todo) \in Seq(Nat) /\
         \A i \in DOMAIN Tail(todo) : i + 1 \in DOMAIN todo /\ Tail(todo)[i] = todo[i + 1]
    BY <2>2, HeadAndTail
  <2>21. PICK rest \in Seq(Nat) : rest = Tail(todo)
    BY <2>20
  <2>22. \A i \in DOMAIN rest : \E j \in DOMAIN pass[p].todo : rest[i] = pass[p].todo[j]
    BY <2>2, <2>20, <2>21
  <2>30. pass' = [pass EXCEPT ![p] = [pass[p] EXCEPT !.todo = rest]]
    BY <2>1, <2>2, <2>21
  <2>31. pass'[p] = [pass[p] EXCEPT !.todo = rest]
    BY <2>30, PassType
  <2>4. /\ pass'[p].stage = "waiting" /\ pass'[p].now = pass[p].now
        /\ pass'[p].found = "none" /\ pass'[p].todo = rest /\ pass'[p] \in PassRows
    <3>1. rest \in Lists
      BY <2>21 DEF Lists
    <3> QED BY <1>1, <2>31, <3>1, PassType DEF PassRows
  <2>3. pass' \in [Passes -> PassRows]
    BY <2>30, <2>4, PassType
  <2>5. PassOK(p)'
    BY <1>1, <2>22, <2>4, PassType DEF PassOK
  <2> QED BY <1>1, <1>2, <2>3, <2>5, PassMoves
<1> QED BY <1>4, <1>5

\* EndPass.
LEMMA EndStep ==
  ASSUME LineInv, NEW p \in Passes, \A q \in Passes : q = p, EndPass(p)
  PROVE  LineInv'
<1>1. UNCHANGED <<line, booked, asking, offers, lineClock>> /\ pass' = [pass EXCEPT ![p] = Idle]
  BY DEF EndPass
<1>2. Idle \in PassRows
  BY DEF Idle, PassRows, Lists
<1>3. pass' \in [Passes -> PassRows] /\ pass'[p] = Idle
  BY <1>1, <1>2, PassType
<1>4. Idle.stage = "idle" /\ Idle.now = 0 /\ Idle.todo = <<>> /\ Idle.found = "none"
  BY DEF Idle
<1>5. PassOK(p)'
  BY <1>1, <1>3, <1>4 DEF PassOK, LineInv, LineShape
<1>6. Eased
  BY <1>1, EasedSame
<1> QED BY <1>1, <1>3, <1>5, <1>6, PassMoves

\* The offer itself.  The row was waiting, so it had no number; the number it
\* gets is one above all that any reservation has seen; nobody else's open
\* offer lies across it, for the pass found none and is the only one to offer;
\* and all who wait for its start come after it.
LEMMA OfferStep ==
  ASSUME LineInv, NEW p \in Passes, \A q \in Passes : q = p, MakeOffer(p)
  PROVE  LineInv'
<1> DEFINE e == Head(pass[p].todo)
<1>1. /\ pass[p].stage = "waiting" /\ pass[p].found = "free"
      /\ pass' = [pass EXCEPT ![p].todo = Tail(@), ![p].found = "none"]
      /\ UNCHANGED <<booked, asking, lineClock>>
  BY DEF MakeOffer
<1>2. PICK todo : todo = pass[p].todo /\ todo \in Seq(Nat) /\ todo # <<>>
  BY <1>1, PassType DEF PassOK
<1>3. /\ 1 \in DOMAIN todo /\ Head(todo) = todo[1] /\ Tail(todo) \in Seq(Nat)
      /\ \A i \in DOMAIN Tail(todo) : i + 1 \in DOMAIN todo /\ Tail(todo)[i] = todo[i + 1]
  BY <1>2, HeadAndTail
<1>4. PICK rest \in Seq(Nat) : rest = Tail(todo)
  BY <1>3
<1>5. \A i \in DOMAIN rest : \E j \in DOMAIN pass[p].todo : rest[i] = pass[p].todo[j]
  BY <1>2, <1>3, <1>4
<1>30. \A j \in DOMAIN pass[p].todo :
         /\ pass[p].todo[j] \in DOMAIN line
         /\ \A d \in DOMAIN line :
              (line[d].status = "WAITING" /\ line[d].place[1] = line[pass[p].todo[j]].place[1])
                => pass[p].todo[j] <= d
  BY <1>1, PassType DEF PassOK
<1>6. pass' = [pass EXCEPT ![p] = [pass[p] EXCEPT !.todo = rest, !.found = "none"]]
  BY <1>1, <1>2, <1>4
<1>7. pass'[p] = [pass[p] EXCEPT !.todo = rest, !.found = "none"]
  BY <1>6, PassType
<1>8. /\ pass'[p].stage = "waiting" /\ pass'[p].now = pass[p].now
      /\ pass'[p].found = "none" /\ pass'[p].todo = rest /\ pass'[p] \in PassRows
  <2>1. rest \in Lists
    BY <1>4 DEF Lists
  <2> QED BY <1>1, <1>7, <2>1, PassType DEF PassRows
<1>9. pass' \in [Passes -> PassRows]
  BY <1>6, <1>8, PassType
<1>10. /\ e \in DOMAIN line
       /\ \A d \in DOMAIN line :
            (line[d].status = "WAITING" /\ line[d].place[1] = line[e].place[1]) => e <= d
       /\ OffersAround(line[e].place, pass[p].now, line[e].user) = {}
  BY <1>1, <1>2, <1>3, PassType DEF PassOK
<1>11. line \in Seq(LineRows) /\ offers \in Nat /\ lineClock \in Nat /\ pass[p].now \in Nat
       /\ pass[p].now <= lineClock /\ OfferLength \in Nat /\ OfferLength > 0
  <2>1. line \in Seq(LineRows) /\ offers \in Nat /\ lineClock \in Nat
    BY DEF LineInv, LineShape
  <2>2. pass[p].now \in Nat /\ pass[p].now <= lineClock
    BY PassType DEF PassOK
  <2>3. OfferLength \in Nat /\ OfferLength > 0
    BY WaitlistAssumption
  <2> QED BY <2>1, <2>2, <2>3
<1> HIDE DEF e
<1>12. CASE line[e].status = "WAITING" /\ OfferedAt(line[e].place[1]) = {}
  <2> DEFINE x == pass[p].now + OfferLength
  <2>1. /\ line' = [line EXCEPT ![e].status = "OFFERED", ![e].expires = x, ![e].number = offers + 1]
        /\ offers' = offers + 1
    BY <1>12 DEF MakeOffer, e
  <2>2. x \in Nat /\ x > 0 /\ x > pass[p].now /\ offers + 1 \in Nat /\ offers + 1 > 0
    BY <1>11
  <2> HIDE DEF x
  <2>3. DOMAIN line' = DOMAIN line /\ Len(line') = Len(line) /\ DOMAIN line = 1..Len(line) /\ Len(line) \in Nat
    BY <1>11, <2>1
  <2>4. \A d \in DOMAIN line : d # e => line'[d] = line[d]
    BY <1>11, <2>1
  <2>5. line[e] \in LineRows
    BY <1>10, <1>11
  <2>6. line'[e] = [line[e] EXCEPT !.status = "OFFERED", !.expires = x, !.number = offers + 1]
    BY <1>10, <1>11, <2>1
  <2>7. /\ line'[e] \in LineRows /\ line'[e].user = line[e].user /\ line'[e].place = line[e].place
        /\ line'[e].status = "OFFERED" /\ line'[e].expires = x /\ line'[e].number = offers + 1
    BY <2>2, <2>5, <2>6 DEF LineRows, PlaceStatuses, ActivePlace
  <2>8. line' \in Seq(LineRows)
    <3>1. \A d \in DOMAIN line : line'[d] \in LineRows
      BY <1>11, <2>4, <2>7
    <3>2. line' = [d \in 1..Len(line) |-> line'[d]]
      BY <1>11, <2>1, <2>3
    <3> QED BY ONLY <2>3, <3>1, <3>2
  <2>9. LineShape'
    <3>1. \A b \in booked' \cup asking' : b.seen <= offers'
      <4>1. \A b \in booked \cup asking : b.seen \in Nat /\ b.seen <= offers
        BY DEF LineInv, LineShape, Holdings
      <4> QED BY <1>1, <1>11, <2>1, <4>1
    <3> QED BY <1>1, <1>9, <2>1, <2>2, <2>8, <3>1 DEF LineInv, LineShape
  <2>10. NumbersOK'
    <3> DEFINE N == {d \in DOMAIN line : line[d].number > 0}
    <3>0. ASSUME NEW d \in DOMAIN line
          PROVE  /\ line[d].number \in Nat /\ line[d].number <= offers
                 /\ line[d].number > 0 => line[d].expires > 0
                 /\ line[d].expires > 0 => line[d].number > 0
                 /\ line[d].status = "WAITING" => line[d].number = 0
      BY <1>11, RowType DEF LineInv, NumbersOK
    <3>1. /\ \A d \in DOMAIN line : line[d].number \in Nat
          /\ \A d \in DOMAIN line : line[d].number <= offers
          /\ \A d \in DOMAIN line : line[d].number > 0 => line[d].expires > 0
          /\ \A d \in DOMAIN line : line[d].expires > 0 => line[d].number > 0
          /\ \A d \in DOMAIN line : line[d].status = "WAITING" => line[d].number = 0
      BY <3>0
    <3>2. e \notin N /\ N \subseteq DOMAIN line
      <4>1. line[e].number = 0
        BY <1>10, <1>12, <3>1
      <4> QED BY <4>1
    <3>3. {d \in DOMAIN line' : line'[d].number > 0} = N \cup {e}
      BY <1>10, <2>2, <2>3, <2>4, <2>7
    <3>4. offers = Cardinality(N)
      BY DEF LineInv, NumbersOK
    <3> HIDE DEF N
    <3>5. IsFiniteSet(N)
      BY <1>11, <3>2, LineFinite
    <3>6. Cardinality(N \cup {e}) = Cardinality(N) + 1
      BY <3>2, <3>5, FS_AddElement
    <3>7. offers' = Cardinality({d \in DOMAIN line' : line'[d].number > 0})
      BY <2>1, <3>3, <3>4, <3>6
    <3>8. ASSUME NEW d \in DOMAIN line'
          PROVE  /\ line'[d].number <= offers'
                 /\ (line'[d].number > 0) <=> (line'[d].expires > 0)
                 /\ line'[d].status = "WAITING" => line'[d].number = 0
      <4>1. CASE d = e
        BY <1>11, <2>1, <2>2, <2>7, <4>1
      <4>2. CASE d # e
        <5>1. d \in DOMAIN line /\ line'[d] = line[d]
          BY <2>3, <2>4, <4>2
        <5>2. line[d].number \in Nat /\ line[d].number <= offers /\ offers' = offers + 1
          BY <2>1, <3>1, <5>1
        <5>3. line[d].number <= offers'
          BY ONLY <1>11, <5>2
        <5> QED BY ONLY <3>1, <5>1, <5>3
      <4> QED BY <4>1, <4>2
    <3> QED BY <3>7, <3>8 DEF NumbersOK
  <2>11. PassesOK'
    <3>1. ASSUME NEW i \in DOMAIN rest
          PROVE  /\ rest[i] \in DOMAIN line'
                 /\ \A d \in DOMAIN line' :
                     (line'[d].status = "WAITING" /\ line'[d].place[1] = line'[rest[i]].place[1])
                       => rest[i] <= d
      <4>1. /\ rest[i] \in DOMAIN line
            /\ \A d \in DOMAIN line :
                 (line[d].status = "WAITING" /\ line[d].place[1] = line[rest[i]].place[1])
                   => rest[i] <= d
        BY <1>30, <1>5
      <4>2. line'[rest[i]].place = line[rest[i]].place
        BY <2>4, <2>7, <4>1
      <4>3. \A d \in DOMAIN line : line'[d].status = "WAITING" =>
               line[d].status = "WAITING" /\ line'[d].place = line[d].place
        BY <2>4, <2>7
      <4> QED BY <2>3, <4>1, <4>2, <4>3
    <3>2. PassOK(p)'
      BY <1>1, <1>8, <1>11, <3>1 DEF PassOK
    <3> QED BY <3>2 DEF PassesOK
  <2>12. FirstInLineFirst'
    <3> SUFFICES ASSUME NEW a \in DOMAIN line', NEW d \in DOMAIN line',
                        line'[a].status = "OFFERED", line'[d].status = "WAITING",
                        line'[d].place[1] = line'[a].place[1]
                 PROVE  a < d
      BY DEF FirstInLineFirst
    <3>1. d # e /\ line'[d] = line[d] /\ d \in DOMAIN line /\ d \in Nat /\ e \in Nat
      BY <1>10, <2>3, <2>4, <2>7
    <3>2. CASE a = e
      BY <1>10, <2>7, <3>1, <3>2
    <3>3. CASE a # e
      BY <2>3, <2>4, <3>1, <3>3 DEF LineInv, FirstInLineFirst
    <3> QED BY <3>2, <3>3
  <2>13. TakeableOK'
    <3>1. ASSUME NEW d \in DOMAIN line, d # e, line[d].status = "OFFERED", line[d].expires > lineClock,
                 Overlap(line[d].place, line[e].place) \/ Overlap(line[e].place, line[d].place)
          PROVE  line[d].user = line[e].user
      <4>1. line[d].expires \in Nat
        BY <1>11, RowType
      <4>2. line[d].expires > pass[p].now
        BY <1>11, <3>1, <4>1
      <4>3. Overlap(line[d].place, line[e].place)
        BY <3>1 DEF Overlap
      <4> QED BY <1>10, <3>1, <4>2, <4>3 DEF OffersAround
    <3>2. TakeableOK
      BY DEF LineInv
    <3>3. \A b \in booked \cup asking : b.seen \in Nat /\ b.seen < offers + 1
      BY <1>11 DEF LineInv, LineShape, Holdings
    <3>4. SUFFICES ASSUME NEW a \in DOMAIN line, line'[a].status = "OFFERED", line'[a].expires > lineClock
                   PROVE  /\ \A b \in booked \cup asking :
                               (b.user # line'[a].user /\ Overlap(b.place, line'[a].place))
                                 => b.seen < line'[a].number
                          /\ \A d \in DOMAIN line :
                               (/\ line'[d].status = "OFFERED" /\ line'[d].expires > lineClock
                                /\ Overlap(line'[d].place, line'[a].place))
                                 => line'[d].user = line'[a].user
      BY <1>1, <2>3 DEF TakeableOK, OpenOffer
    <3>5. CASE a = e
      <4>1. ASSUME NEW d \in DOMAIN line, line'[d].status = "OFFERED", line'[d].expires > lineClock,
                   Overlap(line'[d].place, line'[a].place)
            PROVE  line'[d].user = line'[a].user
        BY <2>4, <2>7, <3>1, <3>5, <4>1
      <4> QED BY <2>7, <3>3, <3>5, <4>1
    <3>6. CASE a # e
      <4>1. OpenOffer(a) /\ line'[a] = line[a]
        BY <2>4, <3>4, <3>6 DEF OpenOffer
      <4>2. ASSUME NEW d \in DOMAIN line, line'[d].status = "OFFERED", line'[d].expires > lineClock,
                   Overlap(line'[d].place, line'[a].place)
            PROVE  line'[d].user = line'[a].user
        <5>1. CASE d = e
          BY <2>7, <3>1, <3>4, <3>6, <4>1, <4>2, <5>1
        <5>2. CASE d # e
          BY <2>4, <3>2, <4>1, <4>2, <5>2 DEF TakeableOK, OpenOffer
        <5> QED BY <5>1, <5>2
      <4> QED BY <3>2, <4>1, <4>2 DEF TakeableOK
    <3> QED BY <3>5, <3>6
  <2> QED BY <2>9, <2>10, <2>11, <2>12, <2>13 DEF LineInv
<1>13. CASE ~(line[e].status = "WAITING" /\ OfferedAt(line[e].place[1]) = {})
  <2>1. line' = line /\ offers' = offers
    BY <1>13 DEF MakeOffer, e
  <2>2. Eased
    BY <2>1, EasedSame
  <2>3. PassOK(p)'
    <3>1. \A i \in DOMAIN rest :
            /\ rest[i] \in DOMAIN line
            /\ \A d \in DOMAIN line :
                 (line[d].status = "WAITING" /\ line[d].place[1] = line[rest[i]].place[1])
                   => rest[i] <= d
      BY <1>5, <1>30
    <3> QED BY <1>1, <1>8, <1>11, <2>1, <3>1 DEF PassOK
  <2> QED BY <1>1, <1>9, <2>1, <2>2, <2>3, PassMoves
<1> QED BY <1>12, <1>13

\* It holds at the start ...
LEMMA LineStart ==
  LineInit => LineInv
<1> SUFFICES ASSUME LineInit PROVE LineInv
  OBVIOUS
<1>1. PICK place \in Places :
        booked = {[user |-> CHOOSE u \in Persons : TRUE, place |-> place, until |-> Forever, seen |-> 0]}
  BY DEF LineInit
<1>2. (CHOOSE u \in Persons : TRUE) \in Persons
  BY WaitlistAssumption
<1>3. Forever \in Nat
  BY WaitlistAssumption DEF Forever
<1>4. booked \subseteq Holdings /\ \A b \in booked : b.seen = 0
  BY <1>1, <1>2, <1>3 DEF Holdings
<1>5. line = <<>> /\ line \in Seq(LineRows) /\ DOMAIN line = {} /\ asking = {} /\ offers = 0 /\ lineClock = 0
  BY DEF LineInit
<1>6. Idle \in PassRows /\ Idle.stage = "idle" /\ Idle.now = 0 /\ Idle.todo = <<>> /\ Idle.found = "none"
  BY DEF Idle, PassRows, Lists
<1>7. pass \in [Passes -> PassRows] /\ \A p \in Passes : pass[p] = Idle
  BY <1>6 DEF LineInit
<1>8. LineShape
  BY <1>4, <1>5, <1>7 DEF LineShape
<1>9. NumbersOK
  <2>1. {e \in DOMAIN line : line[e].number > 0} = {}
    BY <1>5
  <2> QED BY <1>5, <2>1, FS_EmptySet DEF NumbersOK
<1>10. PassesOK
  BY <1>5, <1>6, <1>7 DEF PassesOK, PassOK
<1> QED BY <1>5, <1>8, <1>9, <1>10 DEF LineInv, TakeableOK, FirstInLineFirst

\* ... every step keeps it, when one pass runs at a time ...
LEMMA LineStep ==
  ASSUME LineInv, LineNext, \A p, q \in Passes : p = q
  PROVE  LineInv'
<1>1. ASSUME NEW p \in Passes, PassStep(p) PROVE LineInv'
  <2>1. \A q \in Passes : q = p
    OBVIOUS
  <2> QED BY <1>1, <2>1, BeginStep, LookStep, UpdateStep, ReadStepOfPass, SlotStep, OfferStep, EndStep
      DEF PassStep
<1>2. ASSUME NEW u \in Persons, NEW place \in Places, JoinWaitlist(u, place) \/ AskForSlot(u, place)
      PROVE  LineInv'
  BY <1>2, JoinStep, AskStep
<1>3. ASSUME NEW e \in DOMAIN line, LeaveWaitlist(e) PROVE LineInv'
  BY <1>3, LeaveStep
<1> QED BY <1>1, <1>2, <1>3, BookingSteps DEF LineNext

LEMMA LineStutters ==
  ASSUME LineInv, UNCHANGED lineVars
  PROVE  LineInv'
<1>1. Eased
  BY EasedSame DEF lineVars
<1>2. lineClock' \in Nat /\ lineClock' >= lineClock /\ booked' \cup asking' \subseteq Holdings
  BY DEF LineInv, LineShape, lineVars
<1> QED BY <1>1, <1>2, QuietStep DEF lineVars

\* ... and it is enough.
LEMMA LineHonest ==
  LineInv => OffersAreHonest
<1> SUFFICES ASSUME LineInv PROVE OffersAreHonest
  OBVIOUS
<1>1. LineTypeOK
  <2>1. \A e \in DOMAIN line :
         /\ line[e].user \in Persons /\ line[e].place \in Places
         /\ line[e].status \in ActivePlace \cup {"CLAIMED", "LAPSED", "ENDED", "LEFT"}
    BY RowType DEF LineInv, LineShape, PlaceStatuses
  <2>2. \A b \in booked \cup asking : b.user \in Persons /\ b.place \in Places
    BY DEF LineInv, LineShape, Holdings
  <2> QED BY <2>1, <2>2 DEF LineInv, NumbersOK, LineTypeOK
<1>2. OfferCanBeTaken
  BY DEF LineInv, TakeableOK, OfferCanBeTaken
<1> QED BY <1>1, <1>2 DEF LineInv, OffersAreHonest

\* With one pass at a time, every offer is made to the first in line, and open
\* to whoever has it: no booking asked for after it and no other's open offer
\* lies across it, however reservations, payments and people who leave come in
\* between what the pass reads and what it writes: sweepWaitlist and reserveSlot.
THEOREM OffersAlwaysHonest ==
  ASSUME \A p, q \in Passes : p = q
  PROVE  LineSpec => []OffersAreHonest
<1>1. LineInit => LineInv
  BY LineStart
<1>2. LineInv /\ [LineNext]_lineVars => LineInv'
  BY LineStep, LineStutters
<1>3. LineInv => OffersAreHonest
  BY LineHonest
<1> QED BY <1>1, <1>2, <1>3, PTL DEF LineSpec
=============================================================================
