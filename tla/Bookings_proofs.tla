--------------------------- MODULE Bookings_proofs ---------------------------
(***************************************************************************)
(* Proofs about the bookings of module Bookings: whatever requests, bank   *)
(* answers and sweeps cross, every live booking is backed, every chain of  *)
(* reschedules carries one claim, and what was spent comes back when due.  *)
(*                                                                         *)
(* A chain is followed by a walk of any length, so the proofs begin with   *)
(* induction over the naturals (by the least counterexample) and with what *)
(* a walk, and the origin of a chain, do when the chain grows.  The        *)
(* invariant IInv then says of each row what its payment, code, minutes    *)
(* and entries may be, and of each job what it read that is still so.      *)
(***************************************************************************)
EXTENDS Bookings, TLAPS, WellFoundedInduction, FiniteSetTheorems

-----------------------------------------------------------------------------
(* Induction over the naturals, by the least counterexample *)

Less == {p \in Nat \X Nat : p[1] < p[2]}

\* Less is well founded, by the theorem of the library.
LEMMA LessIsWellFounded == IsWellFoundedOn(Less, Nat)
<1>1. OpToRel(<, Nat) = Less
  BY Zenon DEF OpToRel, Less
<1> QED BY NatLessThanWellFounded, <1>1, Zenon

\* A set of naturals that is closed under successor and holds 0 holds them all.
LEMMA Induction ==
  ASSUME NEW P, 0 \in P, \A i \in Nat : i \in P => i + 1 \in P
  PROVE  Nat \subseteq P
<1> DEFINE T == Nat \ P
<1> SUFFICES ASSUME T # {} PROVE FALSE
  OBVIOUS
<1>1. PICK x \in T : \A y \in T : ~(<<y, x>> \in Less)
  BY LessIsWellFounded, WFMin
<1>2. x \in Nat /\ x # 0 /\ x \notin P
  OBVIOUS
<1>3. x - 1 \in Nat /\ x - 1 < x
  BY <1>2
<1>4. <<x - 1, x>> \in Less
  BY <1>2, <1>3 DEF Less
<1>5. x - 1 \in P
  BY <1>1, <1>3, <1>4
<1>6. (x - 1) + 1 = x
  BY <1>2
<1> QED BY <1>2, <1>3, <1>5, <1>6

-----------------------------------------------------------------------------
(* Walks *)

\* f lists the first n steps of back from b.
IsWalk(f, back, b, n) ==
  f = [i \in 0..n |-> IF i = 0 THEN b ELSE back[f[i - 1]]]

\* There is a walk of every length.
LEMMA WalkExists ==
  ASSUME NEW back, NEW b
  PROVE  \A n \in Nat : \E f : IsWalk(f, back, b, n)
<1> DEFINE P == {n \in Nat : \E f : IsWalk(f, back, b, n)}
<1>1. 0 \in P
  <2> DEFINE f == [i \in 0..0 |-> b]
  <2>1. IsWalk(f, back, b, 0)
    BY DEF IsWalk
  <2> QED BY <2>1
<1>2. ASSUME NEW n \in Nat, n \in P PROVE n + 1 \in P
  <2>1. PICK f : IsWalk(f, back, b, n)
    BY <1>2
  <2> DEFINE g == [i \in 0..(n + 1) |-> IF i = n + 1 THEN back[f[n]] ELSE f[i]]
  <2>2. \A i \in 0..n : f[i] = IF i = 0 THEN b ELSE back[f[i - 1]]
    BY <2>1 DEF IsWalk
  <2>3. \A i \in 0..(n + 1) : g[i] = IF i = 0 THEN b ELSE back[g[i - 1]]
    <3> TAKE i \in 0..(n + 1)
    <3>1. CASE i = n + 1
      BY <3>1
    <3>2. CASE i = 0
      BY <2>2, <3>2
    <3>3. CASE i \in 1..n
      <4>1. g[i] = f[i] /\ g[i - 1] = f[i - 1] /\ i \in 0..n
        BY <3>3
      <4> QED BY <2>2, <3>3, <4>1
    <3> QED BY <3>1, <3>2, <3>3
  <2>4. IsWalk(g, back, b, n + 1)
    BY <2>3, Zenon DEF IsWalk
  <2> QED BY <2>4
<1> HIDE DEF P
<1>3. Nat \subseteq P
  BY <1>1, <1>2, Induction
<1> QED BY <1>3 DEF P

\* A walk is determined by where it starts.
LEMMA WalkUnique ==
  ASSUME NEW back, NEW b, NEW m \in Nat, NEW n \in Nat, NEW f, NEW g,
         IsWalk(f, back, b, m), IsWalk(g, back, b, n)
  PROVE  \A i \in Nat : i <= m /\ i <= n => f[i] = g[i]
<1> DEFINE P == {i \in Nat : i <= m /\ i <= n => f[i] = g[i]}
<1>a. \A i \in 0..m : f[i] = IF i = 0 THEN b ELSE back[f[i - 1]]
  BY DEF IsWalk
<1>b. \A i \in 0..n : g[i] = IF i = 0 THEN b ELSE back[g[i - 1]]
  BY DEF IsWalk
<1>1. 0 \in P
  BY <1>a, <1>b
<1>2. ASSUME NEW i \in Nat, i \in P PROVE i + 1 \in P
  <2> SUFFICES ASSUME i + 1 <= m, i + 1 <= n PROVE f[i + 1] = g[i + 1]
    OBVIOUS
  <2>1. f[i] = g[i]
    BY <1>2
  <2>2. f[i + 1] = back[f[i]] /\ g[i + 1] = back[g[i]]
    BY <1>a, <1>b
  <2> QED BY <2>1, <2>2
<1> HIDE DEF P
<1>3. Nat \subseteq P
  BY <1>1, <1>2, Induction
<1> QED BY <1>3 DEF P

\* What Walk computes.
LEMMA WalkSteps ==
  ASSUME NEW back, NEW b
  PROVE  /\ Walk(back, b, 0) = b
         /\ \A n \in Nat : Walk(back, b, n + 1) = back[Walk(back, b, n)]
<1> DEFINE V(n) == CHOOSE f : IsWalk(f, back, b, n)
<1>1. \A n \in Nat : IsWalk(V(n), back, b, n)
  BY WalkExists
<1>2. \A n \in Nat : Walk(back, b, n) = V(n)[n]
  BY DEF Walk, IsWalk
<1> HIDE DEF V
<1>3. Walk(back, b, 0) = b
  BY <1>1, <1>2 DEF IsWalk
<1>4. ASSUME NEW n \in Nat PROVE Walk(back, b, n + 1) = back[Walk(back, b, n)]
  <2>1. V(n + 1)[n + 1] = back[V(n + 1)[n]]
    <3>1. IsWalk(V(n + 1), back, b, n + 1)
      BY <1>1
    <3> QED BY <3>1 DEF IsWalk
  <2>2. V(n + 1)[n] = V(n)[n]
    BY <1>1, WalkUnique
  <2> QED BY <1>2, <2>1, <2>2
<1> QED BY <1>3, <1>4

\* A walk that shifts: the first step may be taken first.
LEMMA WalkShift ==
  ASSUME NEW back, NEW b
  PROVE  \A n \in Nat : Walk(back, b, n + 1) = Walk(back, back[b], n)
<1> DEFINE P == {n \in Nat : Walk(back, b, n + 1) = Walk(back, back[b], n)}
<1>1. 0 \in P
  <2>1. Walk(back, b, 0) = b /\ Walk(back, b, 0 + 1) = back[Walk(back, b, 0)]
    BY WalkSteps
  <2>2. Walk(back, back[b], 0) = back[b]
    BY WalkSteps
  <2> QED BY <2>1, <2>2
<1>2. ASSUME NEW n \in Nat, n \in P PROVE n + 1 \in P
  <2>1. Walk(back, b, (n + 1) + 1) = back[Walk(back, b, n + 1)]
    BY WalkSteps
  <2>2. Walk(back, back[b], n + 1) = back[Walk(back, back[b], n)]
    BY WalkSteps
  <2> QED BY <1>2, <2>1, <2>2
<1> HIDE DEF P
<1>3. Nat \subseteq P
  BY <1>1, <1>2, Induction
<1> QED BY <1>3 DEF P

\* A walk stays in a set that back keeps.
LEMMA WalkStays ==
  ASSUME NEW back, NEW S, NEW b \in S, \A c \in S : back[c] \in S
  PROVE  \A n \in Nat : Walk(back, b, n) \in S
<1> DEFINE P == {n \in Nat : Walk(back, b, n) \in S}
<1>1. 0 \in P
  BY WalkSteps
<1>2. ASSUME NEW n \in Nat, n \in P PROVE n + 1 \in P
  <2>1. Walk(back, b, n + 1) = back[Walk(back, b, n)]
    BY WalkSteps
  <2> QED BY <1>2, <2>1
<1> HIDE DEF P
<1>3. Nat \subseteq P
  BY <1>1, <1>2, Induction
<1> QED BY <1>3 DEF P

\* Two ways back that agree on a set they keep lead to the same.
LEMMA WalkAgrees ==
  ASSUME NEW back, NEW S, \A c \in S : back[c] \in S,
         NEW other, \A c \in S : other[c] = back[c]
  PROVE  \A b \in S : \A n \in Nat : Walk(other, b, n) = Walk(back, b, n)
<1> SUFFICES ASSUME NEW b \in S
             PROVE  \A n \in Nat : Walk(other, b, n) = Walk(back, b, n)
  OBVIOUS
<1> DEFINE P == {n \in Nat : Walk(other, b, n) = Walk(back, b, n)}
<1>a. /\ Walk(back, b, 0) = b
      /\ \A n \in Nat : Walk(back, b, n + 1) = back[Walk(back, b, n)]
  BY ONLY WalkSteps
<1>b. /\ Walk(other, b, 0) = b
      /\ \A n \in Nat : Walk(other, b, n + 1) = other[Walk(other, b, n)]
  BY ONLY WalkSteps
<1>1. 0 \in P
  BY <1>a, <1>b
<1>2. ASSUME NEW n \in Nat, n \in P PROVE n + 1 \in P
  <2>1. Walk(back, b, n) \in S
    BY WalkStays
  <2> QED BY <1>a, <1>b, <1>2, <2>1
<1> HIDE DEF P
<1>3. Nat \subseteq P
  BY <1>1, <1>2, Induction
<1> QED BY <1>3 DEF P

\* A walk that goes down the bookings has arrived after MaxBookings steps.
LEMMA WalkArrives ==
  ASSUME NEW back, NEW b \in Bookings,
         \A c \in Bookings : back[c] \in Bookings /\ (back[c] = c \/ back[c] < c)
  PROVE  LET o == Walk(back, b, MaxBookings) IN o \in Bookings /\ back[o] = o
<1> DEFINE w(n) == Walk(back, b, n)
           P == {n \in Nat : back[w(n)] = w(n) \/ w(n) <= MaxBookings - n}
<1>0. MaxBookings \in Nat \ {0}
  BY BookingsAssumption
<1>s. \A n \in Nat : w(n) \in Bookings
  BY WalkStays
<1>t. w(0) = b /\ \A n \in Nat : w(n + 1) = back[w(n)]
  BY WalkSteps
<1> HIDE DEF w
<1>1. 0 \in P
  BY <1>0, <1>t DEF Bookings
<1>2. ASSUME NEW n \in Nat, n \in P PROVE n + 1 \in P
  <2>1. CASE back[w(n)] = w(n)
    BY <1>t, <2>1
  <2>2. CASE back[w(n)] # w(n)
    <3>1. w(n) <= MaxBookings - n /\ back[w(n)] < w(n)
      BY <1>2, <1>s, <2>2
    <3>2. w(n) \in Int /\ w(n + 1) \in Int /\ w(n + 1) < w(n)
      BY <1>s, <1>t, <3>1 DEF Bookings
    <3>3. w(n + 1) <= MaxBookings - (n + 1)
      BY <1>0, <3>1, <3>2
    <3> QED BY <3>3
  <2> QED BY <2>1, <2>2
<1> HIDE DEF P
<1>3. MaxBookings \in P
  BY <1>0, <1>1, <1>2, Induction
<1>4. ~(w(MaxBookings) <= MaxBookings - MaxBookings)
  BY <1>0, <1>s DEF Bookings
<1>5. back[w(MaxBookings)] = w(MaxBookings)
  BY <1>3, <1>4 DEF P
<1> QED BY <1>0, <1>s, <1>5 DEF w

-----------------------------------------------------------------------------
(* Chains of reschedules *)

\* The definitions of the specification, of any entitlements e.
FromIn(e, b) ==
  IF \E c \in Bookings : e[c].to = b
  THEN CHOOSE c \in Bookings : e[c].to = b
  ELSE None

BackIn(e) == [c \in Bookings |-> IF FromIn(e, c) = None THEN c ELSE FromIn(e, c)]

OriginIn(e, b) == Walk(BackIn(e), b, MaxBookings)

\* A booking is rescheduled to a later one, and none is the new slot of two.
Chained(e) ==
  /\ \A c \in Bookings : e[c].to \in Bookings \cup {None} /\ (e[c].to # None => c < e[c].to)
  /\ \A c, d \in Bookings : e[c].to = e[d].to /\ e[c].to # None => c = d

\* RescheduledFrom and Origin are these definitions of the specification's
\* entitlements.
LEMMA OriginDef ==
  \A b : RescheduledFrom(b) = FromIn(entitlement, b) /\ Origin(b) = OriginIn(entitlement, b)
BY DEF RescheduledFrom, Origin, FromIn, BackIn, OriginIn

\* rescheduledFrom is the inverse of the reschedule it reads.
LEMMA FromUnique ==
  ASSUME NEW e, Chained(e)
  PROVE  /\ \A b, c \in Bookings : e[c].to = b <=> FromIn(e, b) = c
         /\ \A b \in Bookings : (\A c \in Bookings : e[c].to # b) <=> FromIn(e, b) = None
         /\ \A b \in Bookings : FromIn(e, b) \in Bookings \cup {None}
<1>0. None \notin Bookings
  BY BookingsAssumption
<1> SUFFICES ASSUME NEW b \in Bookings
             PROVE  /\ \A c \in Bookings : e[c].to = b <=> FromIn(e, b) = c
                    /\ (\A c \in Bookings : e[c].to # b) <=> FromIn(e, b) = None
                    /\ FromIn(e, b) \in Bookings \cup {None}
  OBVIOUS
<1>1. CASE \E c \in Bookings : e[c].to = b
  <2>1. FromIn(e, b) \in Bookings /\ e[FromIn(e, b)].to = b
    BY <1>1 DEF FromIn
  <2>2. \A c \in Bookings : e[c].to = b => c = FromIn(e, b)
    BY <2>1, <1>0 DEF Chained
  <2> QED BY <1>0, <2>1, <2>2
<1>2. CASE ~\E c \in Bookings : e[c].to = b
  BY <1>0, <1>2 DEF FromIn
<1> QED BY <1>1, <1>2

\* A chain is followed to bookings that were written earlier.
LEMMA BackGoesDown ==
  ASSUME NEW e, Chained(e)
  PROVE  \A c \in Bookings :
           BackIn(e)[c] \in Bookings /\ (BackIn(e)[c] = c \/ BackIn(e)[c] < c)
<1> SUFFICES ASSUME NEW c \in Bookings
             PROVE  BackIn(e)[c] \in Bookings /\ (BackIn(e)[c] = c \/ BackIn(e)[c] < c)
  OBVIOUS
<1>1. BackIn(e)[c] = IF FromIn(e, c) = None THEN c ELSE FromIn(e, c)
  BY DEF BackIn
<1>2. ASSUME FromIn(e, c) # None
      PROVE  FromIn(e, c) \in Bookings /\ FromIn(e, c) < c
  <2>1. FromIn(e, c) \in Bookings /\ e[FromIn(e, c)].to = c
    BY <1>2, FromUnique
  <2> QED BY <2>1, BookingsAssumption DEF Chained
<1> QED BY <1>1, <1>2

\* The origin is the first booking of the chain, the same for all of it.
LEMMA OriginFacts ==
  ASSUME NEW e, Chained(e), NEW b \in Bookings
  PROVE  /\ OriginIn(e, b) \in Bookings /\ FromIn(e, OriginIn(e, b)) = None
         /\ FromIn(e, b) = None => OriginIn(e, b) = b
         /\ FromIn(e, b) # None => OriginIn(e, b) = OriginIn(e, FromIn(e, b))
<1> DEFINE back == BackIn(e) o == OriginIn(e, b)
<1>0. MaxBookings \in Nat
  BY BookingsAssumption
<1>1. \A c \in Bookings : back[c] \in Bookings /\ (back[c] = c \/ back[c] < c)
  BY BackGoesDown
<1>2. \A c \in Bookings : back[c] = IF FromIn(e, c) = None THEN c ELSE FromIn(e, c)
  BY DEF BackIn
<1> HIDE DEF back
<1>3. o = Walk(back, b, MaxBookings)
  BY DEF OriginIn, back
<1>4. o \in Bookings /\ back[o] = o
  BY <1>1, <1>3, WalkArrives
<1> HIDE DEF o
<1>5. FromIn(e, o) = None
  <2> SUFFICES ASSUME FromIn(e, o) # None PROVE FALSE
    OBVIOUS
  <2>1. FromIn(e, o) = o /\ o \in Int
    BY <1>2, <1>4 DEF Bookings
  <2>2. e[o].to = o
    BY <1>4, <2>1, FromUnique
  <2>3. o # None
    BY <1>4, BookingsAssumption
  <2>4. o < o
    BY <1>4, <2>2, <2>3 DEF Chained
  <2> QED BY <2>1, <2>4
<1>6. ASSUME FromIn(e, b) = None PROVE o = b
  <2>1. \A c \in {b} : back[c] \in {b}
    BY <1>2, <1>6
  <2>2. Walk(back, b, MaxBookings) \in {b}
    BY <1>0, <2>1, WalkStays
  <2> QED BY <1>3, <2>2
<1>7. ASSUME FromIn(e, b) # None PROVE o = OriginIn(e, FromIn(e, b))
  <2>1. back[b] = FromIn(e, b)
    BY <1>2, <1>7
  <2>2. Walk(back, b, MaxBookings + 1) = Walk(back, back[b], MaxBookings)
    BY <1>0, WalkShift
  <2>3. Walk(back, b, MaxBookings + 1) = back[o]
    BY <1>0, <1>3, WalkSteps
  <2> QED BY <1>4, <2>1, <2>2, <2>3 DEF OriginIn, back
<1> QED BY <1>4, <1>5, <1>6, <1>7 DEF o

\* A booking that was not rescheduled is the origin of no other.
LEMMA OriginOfNoOther ==
  ASSUME NEW e, Chained(e), NEW b \in Bookings, e[b].to = None,
         NEW c \in Bookings, c # b
  PROVE  OriginIn(e, c) # b
<1> DEFINE S == Bookings \ {b}
<1>1. \A d \in S : BackIn(e)[d] \in S
  <2> TAKE d \in S
  <2>1. FromIn(e, d) # b
    <3>1. FromIn(e, d) = b => e[b].to = d
      BY FromUnique
    <3> QED BY <3>1, BookingsAssumption
  <2>2. BackIn(e)[d] \in Bookings
    BY BackGoesDown
  <2> QED BY <2>1, <2>2 DEF BackIn
<1> HIDE DEF S
<1>2. Walk(BackIn(e), c, MaxBookings) \in S
  <2>1. c \in S
    BY DEF S
  <2> QED BY <1>1, <2>1, WalkStays, BookingsAssumption
<1> QED BY <1>2 DEF OriginIn, S

\* What leaves the reschedules alone leaves the chains alone.
LEMMA OriginSame ==
  ASSUME NEW e, NEW f, Chained(e), \A c \in Bookings : f[c].to = e[c].to
  PROVE  /\ Chained(f)
         /\ \A b \in Bookings :
              FromIn(f, b) = FromIn(e, b) /\ OriginIn(f, b) = OriginIn(e, b)
<1>1. Chained(f)
  BY DEF Chained
<1>2. \A b \in Bookings : FromIn(f, b) = FromIn(e, b)
  <2> TAKE b \in Bookings
  <2>1. CASE \E c \in Bookings : e[c].to = b
    <3>1. PICK c \in Bookings : e[c].to = b
      BY <2>1
    <3>2. FromIn(e, b) = c
      BY <3>1, FromUnique
    <3>3. FromIn(f, b) = c
      BY <1>1, <3>1, FromUnique
    <3> QED BY <3>2, <3>3
  <2>2. CASE ~\E c \in Bookings : e[c].to = b
    BY <2>2 DEF FromIn
  <2> QED BY <2>1, <2>2
<1>3. BackIn(f) = BackIn(e)
  BY <1>2 DEF BackIn
<1> QED BY <1>1, <1>2, <1>3 DEF OriginIn

\* A reschedule makes one chain longer by its new booking.
LEMMA OriginExtends ==
  ASSUME NEW e, NEW f, Chained(e), NEW a \in Bookings, NEW n \in Bookings,
         a < n, e[a].to = None, e[n].to = None, \A c \in Bookings : e[c].to # n,
         f[a].to = n, \A c \in Bookings : c # a => f[c].to = e[c].to
  PROVE  /\ Chained(f)
         /\ FromIn(f, n) = a /\ OriginIn(f, n) = OriginIn(e, a)
         /\ \A b \in Bookings :
              b # n => FromIn(f, b) = FromIn(e, b) /\ OriginIn(f, b) = OriginIn(e, b)
<1> DEFINE S == Bookings \ {n}
<1>0. None \notin Bookings /\ a \in Int /\ n \in Int /\ a # n /\ MaxBookings \in Nat
  BY BookingsAssumption DEF Bookings
<1>1. Chained(f)
  BY <1>0 DEF Chained
<1>2. FromIn(f, n) = a
  BY <1>1, FromUnique
<1>3. \A b \in S : FromIn(f, b) = FromIn(e, b)
  <2> TAKE b \in S
  <2>1. CASE \E c \in Bookings : e[c].to = b
    <3>1. PICK c \in Bookings : e[c].to = b
      BY <2>1
    <3>2. c # a /\ f[c].to = b
      BY <1>0, <3>1
    <3>3. FromIn(e, b) = c
      BY <3>1, FromUnique
    <3>4. FromIn(f, b) = c
      BY <1>1, <3>2, FromUnique
    <3> QED BY <3>3, <3>4
  <2>2. CASE ~\E c \in Bookings : e[c].to = b
    <3>1. ~\E c \in Bookings : f[c].to = b
      BY <2>2
    <3> QED BY <2>2, <3>1 DEF FromIn
  <2> QED BY <2>1, <2>2
<1>4. \A d \in S : BackIn(e)[d] \in S /\ BackIn(f)[d] = BackIn(e)[d]
  <2> TAKE d \in S
  <2>1. FromIn(e, d) # n
    <3>1. FromIn(e, d) = n => e[n].to = d
      BY FromUnique
    <3> QED BY <3>1, <1>0
  <2>2. BackIn(e)[d] \in Bookings
    BY BackGoesDown
  <2>3. /\ BackIn(e)[d] = IF FromIn(e, d) = None THEN d ELSE FromIn(e, d)
        /\ BackIn(f)[d] = IF FromIn(f, d) = None THEN d ELSE FromIn(f, d)
    BY DEF BackIn
  <2> QED BY <1>3, <2>1, <2>2, <2>3
<1> HIDE DEF S
<1>5. ASSUME NEW b \in S PROVE OriginIn(f, b) = OriginIn(e, b)
  <2> DEFINE back == BackIn(e) other == BackIn(f)
  <2>1. \A d \in S : back[d] \in S
    BY <1>4
  <2>2. \A d \in S : other[d] = back[d]
    BY <1>4
  <2> HIDE DEF back, other
  <2>3. \A d \in S : \A i \in Nat : Walk(other, d, i) = Walk(back, d, i)
    BY <2>1, <2>2, WalkAgrees
  <2>4. Walk(other, b, MaxBookings) = Walk(back, b, MaxBookings)
    BY <1>0, <1>5, <2>3
  <2> QED BY <2>4 DEF OriginIn, back, other
<1>6. OriginIn(f, n) = OriginIn(f, a)
  BY <1>0, <1>1, <1>2, OriginFacts
<1>7. OriginIn(f, a) = OriginIn(e, a)
  BY <1>0, <1>5 DEF S
<1> QED BY <1>1, <1>2, <1>3, <1>5, <1>6, <1>7 DEF S

-----------------------------------------------------------------------------
(* The inductive invariant *)

Kept == {"CONFIRMED", "REFUNDED"}

\* The kinds of entries in the two ledgers.
Kinds == {"REDEEMED", "REDEMPTION_RELEASED", "PURCHASE_EARNED", "PURCHASE_REVERSED",
          "MISSION_DEBIT", "REFUND"}

\* Rows are written in order, and nothing mentions one before it is written.
FreeRow(b) ==
  booking[b].status = "FREE" =>
    /\ payment[b] = "NONE" /\ code # b /\ b \notin withoutSlot
    /\ \A c \in Bookings : entitlement[c].to # b
    /\ \A k \in Kinds : <<k, b>> \notin loyalty /\ <<k, b>> \notin credits

InOrder ==
  \A b, c \in Bookings :
    b < c /\ booking[b].status = "FREE" => booking[c].status = "FREE"

FreeRows == InOrder /\ \A b \in Bookings : FreeRow(b)

\* Only a kept booking is judged, and its status and its reschedule agree with
\* what was decided.
Judged ==
  \A b \in Bookings :
    /\ entitlement[b].outcome # "UNJUDGED" => booking[b].status \in Kept
    /\ entitlement[b].outcome = "REFUNDED" <=> booking[b].status = "REFUNDED"
    /\ entitlement[b].to # None <=> entitlement[b].outcome = "RESCHEDULED"
    /\ booking[b].status \in Held => booking[b].slot \in Slots

\* What paid for b was given back for some booking of its chain.
Returned(b) ==
  \E c \in Bookings : Refunded(c) /\ OriginIn(entitlement, c) = b

\* What each payment, code and debit says about the booking it is for.
SpentOn(b) ==
  /\ booking[b].status = "PENDING_PAYMENT" => payment[b] = "PENDING"
  /\ payment[b] = "PENDING" =>
       /\ booking[b].status \in {"PENDING_PAYMENT", "EXPIRED"}
       /\ booking[b].missions = 0 /\ b \notin withoutSlot
  /\ payment[b] = "FAILED" =>
       booking[b].status \in Dropped /\ booking[b].missions = 0
  /\ payment[b] = "NONE" =>
       booking[b].status \in {"FREE"} \cup Kept /\ ~booking[b].points
  /\ booking[b].minutes =>
       /\ payment[b] = "NONE" /\ booking[b].status \in Kept
       /\ <<"MISSION_DEBIT", b>> \in credits
  /\ code = b /\ wallet \in {"GIFT", "FREE_SLOT"} =>
       payment[b] = "NONE" /\ ~booking[b].minutes
  /\ <<"PURCHASE_EARNED", b>> \in loyalty =>
       payment[b] \in {"CAPTURED", "REFUNDED"}
  /\ <<"PURCHASE_REVERSED", b>> \in loyalty =>
       <<"PURCHASE_EARNED", b>> \in loyalty
  /\ <<"REFUND", b>> \in credits => Returned(b)

Spent == \A b \in Bookings : SpentOn(b)

\* CaptureAccounted, of one booking.
CaptureFor(b) ==
  /\ payment[b] \in {"CAPTURED", "REFUNDED"} =>
       \/ /\ booking[b].status \in Kept
          /\ booking[b].missions = 1
          /\ b \notin withoutSlot
       \/ /\ booking[b].status = "EXPIRED"
          /\ booking[b].missions = 0
          /\ b \in withoutSlot
          /\ <<"PURCHASE_EARNED", b>> \notin loyalty
  /\ booking[b].missions = 1 =>
       payment[b] \in {"NONE", "CAPTURED", "REFUNDED"}

Captures == \A b \in Bookings : CaptureFor(b)

\* A booking got by a reschedule was paid for where its chain begins.
Moved ==
  \A b \in Bookings : FromIn(entitlement, b) # None =>
    payment[b] = "NONE" /\ code # b /\ ~booking[b].minutes

\* What a job has read is still so when it writes, if the entitlement is open.
JobsKnow ==
  \A j \in BagToSet(jobs) :
    /\ booking[j.on].status \in Kept
    /\ j.op = "refund" => entitlement[j.on].outcome # "UNJUDGED"
    /\ j.op = "refund" /\ entitlement[j.on].outcome = "OPEN" =>
         /\ j.paid = OriginIn(entitlement, j.on)
         /\ j.by = Tender(j.paid)
         /\ j.by = "PAYMENT" => payment[j.paid] = "CAPTURED"

Claimed(b) == Live(b) \/ Refunded(b)

OneClaim ==
  \A b, c \in Bookings :
    b # c /\ Claimed(b) /\ Claimed(c)
      => OriginIn(entitlement, b) # OriginIn(entitlement, c)

Backs(p) ==
  \/ payment[p] = "CAPTURED"
  \/ code = p /\ wallet \in {"GIFT", "FREE_SLOT"}
  \/ <<"MISSION_DEBIT", p>> \in credits /\ <<"REFUND", p>> \notin credits

Backed == \A b \in Bookings : Live(b) => Backs(OriginIn(entitlement, b))

Over(b) == \/ booking[b].status \in Dropped
           \/ Returned(b)

GivenBackFor(b) ==
  /\ Over(b) => code # b
  /\ booking[b].points =>
       (Over(b) <=> <<"REDEMPTION_RELEASED", b>> \in loyalty)
  /\ <<"PURCHASE_EARNED", b>> \in loyalty =>
       (Over(b) <=> <<"PURCHASE_REVERSED", b>> \in loyalty)
  /\ payment[b] = "REFUNDED" => Over(b)

GivenBack == \A b \in Bookings : GivenBackFor(b)

IInv == /\ TypeOK /\ Chained(entitlement) /\ FreeRows /\ Judged /\ Spent
        /\ Moved /\ JobsKnow /\ OneHolderPerSlot /\ Captures
        /\ OneClaim /\ Backed /\ GivenBack

-----------------------------------------------------------------------------
(* Jobs and small facts *)

\* Starting a job adds it to the bag.
LEMMA BagAdd ==
  ASSUME NEW B, NEW x, IsABag(B)
  PROVE  IsABag(B (+) SetToBag({x})) /\ BagToSet(B (+) SetToBag({x})) = BagToSet(B) \cup {x}
<1> DEFINE C == SetToBag({x})
<1>1. DOMAIN C = {x} /\ C[x] = 1
  BY DEF SetToBag
<1>2. \A y \in DOMAIN B : B[y] \in Nat /\ B[y] > 0
  BY DEF IsABag
<1> HIDE DEF C
<1>3. B (+) C = [y \in (DOMAIN B) \cup {x} |->
                   (IF y \in DOMAIN B THEN B[y] ELSE 0) + (IF y \in {x} THEN C[y] ELSE 0)]
  BY <1>1, Zenon DEF (+)
<1>4. \A y \in DOMAIN B \cup {x} : (B (+) C)[y] \in {n \in Nat : n > 0}
  BY <1>1, <1>2, <1>3
<1> QED BY <1>3, <1>4 DEF IsABag, BagToSet, C

\* Finishing one takes a copy of it away.
LEMMA BagTake ==
  ASSUME NEW B, NEW x, IsABag(B)
  PROVE  IsABag(B (-) SetToBag({x})) /\ BagToSet(B (-) SetToBag({x})) \subseteq BagToSet(B)
<1> DEFINE C == SetToBag({x})
           D == [y \in DOMAIN B |-> IF y \in DOMAIN C THEN B[y] - C[y] ELSE B[y]]
           E == {d \in DOMAIN D : D[d] > 0}
<1>1. DOMAIN C = {x} /\ C[x] = 1
  BY DEF SetToBag
<1>2. \A y \in DOMAIN B : B[y] \in Nat /\ B[y] > 0
  BY DEF IsABag
<1> HIDE DEF C
<1>3. B (-) C = [y \in E |-> D[y]]
  BY Zenon DEF (-)
<1>4. \A y \in DOMAIN B : D[y] \in Int
  BY <1>1, <1>2
<1>5. DOMAIN D = DOMAIN B
  OBVIOUS
<1> HIDE DEF D
<1>6. \A y \in E : D[y] \in {n \in Nat : n > 0}
  BY <1>4, <1>5
<1>7. E \subseteq DOMAIN B
  BY <1>5
<1> QED BY <1>3, <1>6, <1>7 DEF IsABag, BagToSet, C

\* Any set of bookings has a size.
LEMMA SizeOfSome ==
  ASSUME NEW S, S \subseteq Bookings
  PROVE  Cardinality(S) \in Nat
<1>1. IsFiniteSet(Bookings)
  BY FS_Interval, BookingsAssumption DEF Bookings
<1> QED BY <1>1, FS_Subset, FS_CardinalityType

\* The invariant holds before the first request.
LEMMA InitInv == Init => IInv
<1> SUFFICES ASSUME Init PROVE IInv
  OBVIOUS
<1>0. None \notin Bookings /\ BagToSet(jobs) = {} /\ IsABag(jobs) /\ <<provider, wallet>> \in Customers
  <2>1. None \notin Bookings
    BY BookingsAssumption
  <2>2. BagToSet(jobs) = {} /\ IsABag(jobs)
    BY DEF Init, EmptyBag, SetToBag, BagToSet, IsABag
  <2>3. <<provider, wallet>> \in Customers
    <3>1. PICK c \in Customers : provider = c[1] /\ wallet = c[2]
      BY DEF Init
    <3>2. c \in Providers \X Wallets
      BY BookingsAssumption
    <3> QED BY <3>1, <3>2
  <2> QED BY <2>1, <2>2, <2>3
<1>1. /\ \A b \in Bookings : booking[b] = NoBooking /\ payment[b] = "NONE" /\ entitlement[b] = Unjudged
      /\ code = None /\ loyalty = {} /\ credits = {} /\ withoutSlot = {}
  BY DEF Init
<1>2. TypeOK
  <2>1. period \in BOOLEAN
    BY Zenon DEF Init
  <2>2. minutes \in Nat
    BY <2>1 DEF Init
  <2>3. NoBooking \in Rows /\ Unjudged \in [outcome : Outcomes, expired : BOOLEAN, to : Bookings \cup {None}]
    BY DEF NoBooking, Rows, Statuses, Unjudged, Outcomes
  <2>4. /\ booking \in [Bookings -> Rows] /\ payment \in [Bookings -> PaymentStatuses]
        /\ entitlement \in [Bookings -> [outcome : Outcomes, expired : BOOLEAN, to : Bookings \cup {None}]]
    BY <2>3 DEF Init, PaymentStatuses
  <2>5. opened = {} /\ answers = {} /\ past = {}
    BY DEF Init
  <2> QED BY <1>0, <1>1, <2>1, <2>2, <2>4, <2>5 DEF TypeOK
<1>3. Chained(entitlement)
  BY <1>0, <1>1 DEF Chained, Unjudged
<1>4. FreeRows /\ Judged /\ JobsKnow /\ OneHolderPerSlot /\ Captures
  BY <1>0, <1>1 DEF FreeRows, FreeRow, InOrder, Judged, JobsKnow, OneHolderPerSlot, Captures, CaptureFor, NoBooking,
     Unjudged, Held
<1>5. Spent /\ Moved /\ OneClaim /\ Backed /\ GivenBack
  BY <1>0, <1>1 DEF Spent, SpentOn, Moved, OneClaim, Backed, GivenBack, GivenBackFor, NoBooking, Unjudged, Claimed, Live,
     Refunded, Over, Returned, Dropped
<1> QED BY <1>2, <1>3, <1>4, <1>5 DEF IInv

-----------------------------------------------------------------------------
(* Steps that no other part of the invariant sees *)

\* A step that changes neither a column the invariant reads nor what a job knows
\* keeps it.
LEMMA Unseen ==
  ASSUME IInv, TypeOK',
         \A b \in Bookings : /\ booking'[b].status = booking[b].status
                             /\ booking'[b].slot = booking[b].slot
                             /\ booking'[b].points = booking[b].points
                             /\ booking'[b].minutes = booking[b].minutes
                             /\ booking'[b].missions = booking[b].missions,
         \A b \in Bookings : /\ entitlement'[b].outcome = entitlement[b].outcome
                             /\ entitlement'[b].to = entitlement[b].to,
         UNCHANGED <<payment, code, loyalty, credits, withoutSlot, wallet>>,
         JobsKnow'
  PROVE  IInv'
<1> USE DEF IInv
<1>1. /\ Chained(entitlement')
      /\ \A b \in Bookings : /\ FromIn(entitlement', b) = FromIn(entitlement, b)
                             /\ OriginIn(entitlement', b) = OriginIn(entitlement, b)
  BY OriginSame
<1>2. FreeRows' /\ Judged'
  BY DEF FreeRows, FreeRow, InOrder, Judged
<1>3. Moved' /\ OneHolderPerSlot' /\ Captures'
  BY <1>1 DEF Moved, OneHolderPerSlot, Captures, CaptureFor
<1>4. \A b \in Bookings : (Refunded(b)' <=> Refunded(b)) /\ (Live(b)' <=> Live(b))
  BY DEF Refunded, Live
<1>5. OneClaim' /\ Backed'
  BY <1>1, <1>4 DEF OneClaim, Backed, Claimed, Backs
<1>6. \A b \in Bookings : Returned(b)' <=> Returned(b)
  BY <1>1, <1>4 DEF Returned
<1>7. GivenBack'
  <2>1. \A b \in Bookings : Over(b)' <=> Over(b)
    BY <1>6 DEF Over
  <2> QED BY <2>1 DEF GivenBack, GivenBackFor
<1>8. Spent'
  BY <1>6 DEF Spent, SpentOn
<1> QED BY <1>1, <1>2, <1>3, <1>5, <1>7, <1>8

\* The provider's answers, time and the subscription.
LEMMA OutsideSteps ==
  ASSUME IInv,
         \/ UNCHANGED vars
         \/ \E b \in Bookings : OpenBogCheckout(b)
         \/ \E b \in Bookings, r \in Results : BankAnswers(b, r) \/ SandboxAnswers(b, r)
         \/ Time
  PROVE  IInv'
<1> USE DEF IInv
<1>0. TypeOK /\ JobsKnow
  OBVIOUS
<1>1. CASE UNCHANGED vars
  <2>1. TypeOK'
    BY <1>0, <1>1 DEF TypeOK, vars, dbVars, envVars
  <2>2. JobsKnow'
    BY <1>0, <1>1 DEF JobsKnow, Tender, vars, dbVars, envVars
  <2> QED BY <1>1, <2>1, <2>2, Unseen DEF vars, dbVars, envVars
<1>2. CASE \E b \in Bookings : OpenBogCheckout(b)
  <2>1. PICK b \in Bookings : OpenBogCheckout(b)
    BY <1>2
  <2>2. TypeOK'
    BY <1>0, <2>1 DEF OpenBogCheckout, TypeOK, dbVars
  <2>3. JobsKnow'
    BY <1>0, <2>1 DEF OpenBogCheckout, JobsKnow, Tender, dbVars
  <2> QED BY <2>1, <2>2, <2>3, Unseen DEF OpenBogCheckout, dbVars
<1>3. CASE \E b \in Bookings, r \in Results : BankAnswers(b, r) \/ SandboxAnswers(b, r)
  <2>1. PICK b \in Bookings, r \in Results : BankAnswers(b, r) \/ SandboxAnswers(b, r)
    BY <1>3
  <2>2. TypeOK'
    BY <1>0, <2>1 DEF BankAnswers, SandboxAnswers, TypeOK, dbVars
  <2>3. JobsKnow'
    BY <1>0, <2>1 DEF BankAnswers, SandboxAnswers, JobsKnow, Tender, dbVars
  <2> QED BY <2>1, <2>2, <2>3, Unseen DEF BankAnswers, SandboxAnswers, dbVars
<1>4. ASSUME NEW b \in Bookings, HoldLapses(b) PROVE IInv'
  <2>1. booking' = [booking EXCEPT ![b].lapsed = TRUE]
    BY <1>4 DEF HoldLapses
  <2>2. booking' \in [Bookings -> Rows]
    BY <1>0, <2>1 DEF TypeOK, Rows
  <2>3. \A c \in Bookings : /\ booking'[c].status = booking[c].status
                            /\ booking'[c].slot = booking[c].slot
                            /\ booking'[c].points = booking[c].points
                            /\ booking'[c].minutes = booking[c].minutes
                            /\ booking'[c].missions = booking[c].missions
    BY <1>0, <2>1 DEF TypeOK, Rows
  <2>4. UNCHANGED <<payment, entitlement, code, loyalty, credits, minutes, withoutSlot, jobs, envVars>>
    BY <1>4 DEF HoldLapses
  <2>5. TypeOK'
    BY <1>0, <2>2, <2>4 DEF TypeOK, envVars
  <2>6. JobsKnow'
    <3>1. \A j \in BagToSet(jobs) : j.on \in Bookings /\ (j.op = "refund" => j.paid \in Bookings)
      BY <1>0 DEF TypeOK, Jobs
    <3> QED BY <1>0, <2>3, <2>4, <3>1 DEF JobsKnow, Tender, envVars
  <2> QED BY <2>3, <2>4, <2>5, <2>6, Unseen DEF envVars
<1>5. ASSUME NEW b \in Bookings, EntitlementExpires(b) PROVE IInv'
  <2>1. entitlement' = [entitlement EXCEPT ![b].expired = TRUE]
    BY <1>5 DEF EntitlementExpires
  <2>2. entitlement' \in [Bookings -> [outcome : Outcomes, expired : BOOLEAN, to : Bookings \cup {None}]]
    BY <1>0, <2>1 DEF TypeOK
  <2>3. \A c \in Bookings : /\ entitlement'[c].outcome = entitlement[c].outcome
                            /\ entitlement'[c].to = entitlement[c].to
    BY <1>0, <2>1 DEF TypeOK
  <2>4. UNCHANGED <<booking, payment, code, loyalty, credits, minutes, withoutSlot, jobs, envVars>>
    BY <1>5 DEF EntitlementExpires
  <2>5. TypeOK'
    BY <1>0, <2>2, <2>4 DEF TypeOK, envVars
  <2>6. JobsKnow'
    <3>1. \A j \in BagToSet(jobs) : j.on \in Bookings
      BY <1>0 DEF TypeOK, Jobs
    <3>2. \A c \in Bookings : OriginIn(entitlement', c) = OriginIn(entitlement, c)
      BY <2>3, OriginSame
    <3> QED BY <1>0, <2>3, <2>4, <3>1, <3>2 DEF JobsKnow, Tender, envVars
  <2> QED BY <2>3, <2>4, <2>5, <2>6, Unseen DEF envVars
<1>6. ASSUME NEW s \in Slots, SlotEnds(s) PROVE IInv'
  <2>1. TypeOK'
    BY <1>0, <1>6 DEF SlotEnds, TypeOK, dbVars
  <2>2. JobsKnow'
    BY <1>0, <1>6 DEF SlotEnds, JobsKnow, Tender, dbVars
  <2> QED BY <1>6, <2>1, <2>2, Unseen DEF SlotEnds, dbVars
<1>7. ASSUME PeriodEnds \/ PeriodStarts PROVE IInv'
  <2>1. TypeOK'
    <3>1. period' \in BOOLEAN
      BY <1>7, Zenon DEF PeriodEnds, PeriodStarts
    <3>3. minutes' \in Nat
      BY <1>0, <1>7 DEF PeriodEnds, PeriodStarts, TypeOK
    <3>2. UNCHANGED <<booking, payment, entitlement, code, loyalty, credits, withoutSlot, jobs,
                      provider, wallet, opened, answers, past>>
      BY <1>7 DEF PeriodEnds, PeriodStarts
    <3> QED BY <1>0, <3>1, <3>2, <3>3 DEF TypeOK
  <2>2. JobsKnow'
    BY <1>0, <1>7 DEF PeriodEnds, PeriodStarts, JobsKnow, Tender
  <2> QED BY <1>7, <2>1, <2>2, Unseen DEF PeriodEnds, PeriodStarts
<1> QED BY <1>1, <1>2, <1>3, <1>4, <1>5, <1>6, <1>7 DEF Time

-----------------------------------------------------------------------------
(* Jobs that have read *)

\* A booking that something paid for is the first of its chain, so the walk of
\* refundEntitledBooking ends at the origin or finds nothing to refund.
LEMMA PaidAtOrigin ==
  ASSUME IInv, NEW b \in Bookings, NEW n \in Nat,
         Refundable(PaidBooking(b, n))
  PROVE  PaidBooking(b, n) = OriginIn(entitlement, b)
<1> DEFINE stop(c) == c = None \/ Tender(c) # "NONE"
           back == [c \in Bookings \cup {None} |-> IF stop(c) THEN c ELSE RescheduledFrom(c)]
           o == OriginIn(entitlement, b)
           S == {c \in Bookings : OriginIn(entitlement, c) = o} \cup {None}
           p == PaidBooking(b, n)
<1>0. Chained(entitlement) /\ Moved
  BY DEF IInv
<1>1. p = Walk(back, b, n)
  BY DEF PaidBooking
<1>2. \A c \in S : back[c] \in S
  <2> TAKE c \in S
  <2>1. CASE stop(c)
    BY <2>1
  <2>2. CASE ~stop(c)
    <3>1. c \in Bookings /\ back[c] = FromIn(entitlement, c)
      BY <2>2, OriginDef
    <3>2. CASE FromIn(entitlement, c) = None
      BY <3>1, <3>2
    <3>3. CASE FromIn(entitlement, c) # None
      <4>1. FromIn(entitlement, c) \in Bookings
        BY <1>0, <3>1, <3>3, FromUnique
      <4>2. OriginIn(entitlement, c) = OriginIn(entitlement, FromIn(entitlement, c))
        BY <1>0, <3>1, <3>3, OriginFacts
      <4> QED BY <3>1, <4>1, <4>2
    <3> QED BY <3>2, <3>3
  <2> QED BY <2>1, <2>2
<1>3. b \in S
  OBVIOUS
<1> HIDE DEF back, S
<1>4. p \in S
  BY <1>1, <1>2, <1>3, WalkStays
<1> HIDE DEF p
<1>5. p # None /\ Tender(p) # "NONE"
  BY DEF Refundable, p
<1>6. p \in Bookings /\ OriginIn(entitlement, p) = o
  BY <1>4, <1>5 DEF S
<1>7. FromIn(entitlement, p) = None
  BY <1>0, <1>5, <1>6 DEF Moved, Tender
<1>8. OriginIn(entitlement, p) = p
  BY <1>0, <1>6, <1>7, OriginFacts
<1> QED BY <1>6, <1>8 DEF p

\* A step that only starts or finishes a job.
LEMMA JobSteps ==
  ASSUME IInv, UNCHANGED <<dbVars, envVars>>,
         \/ \E j \in Jobs : Start(j) /\ booking[j.on].status \in Kept
                            /\ (j.op = "refund" => /\ entitlement[j.on].outcome # "UNJUDGED"
                                                   /\ j.paid = OriginIn(entitlement, j.on)
                                                   /\ j.by = Tender(j.paid)
                                                   /\ j.by = "PAYMENT" => payment[j.paid] = "CAPTURED")
         \/ \E j : Finish(j)
  PROVE  IInv'
<1>0. TypeOK /\ JobsKnow
  BY DEF IInv
<1>1. IsABag(jobs') /\ BagToSet(jobs') \subseteq Jobs
  <2>0. IsABag(jobs) /\ BagToSet(jobs) \subseteq Jobs
    BY <1>0 DEF TypeOK
  <2>1. ASSUME NEW j \in Jobs, Start(j) PROVE IsABag(jobs') /\ BagToSet(jobs') \subseteq Jobs
    <3>1. jobs' = jobs (+) SetToBag({j})
      BY <2>1 DEF Start
    <3>2. IsABag(jobs') /\ BagToSet(jobs') = BagToSet(jobs) \cup {j}
      BY ONLY <2>0, <3>1, BagAdd
    <3> QED BY <2>0, <2>1, <3>2
  <2>2. ASSUME NEW j, Finish(j) PROVE IsABag(jobs') /\ BagToSet(jobs') \subseteq Jobs
    BY ONLY <2>0, <2>2, BagTake DEF Finish
  <2> QED BY <2>1, <2>2
<1>3. TypeOK'
  BY <1>0, <1>1 DEF TypeOK, dbVars, envVars
<1>4. \A j \in BagToSet(jobs') :
         /\ booking[j.on].status \in Kept
         /\ j.op = "refund" => entitlement[j.on].outcome # "UNJUDGED"
         /\ j.op = "refund" /\ entitlement[j.on].outcome = "OPEN" =>
              /\ j.paid = OriginIn(entitlement, j.on)
              /\ j.by = Tender(j.paid)
              /\ j.by = "PAYMENT" => payment[j.paid] = "CAPTURED"
  <2>1. CASE \E j : Finish(j)
    <3>1. BagToSet(jobs') \subseteq BagToSet(jobs)
      BY <1>0, <2>1, BagTake DEF Finish, TypeOK
    <3> QED BY <1>0, <3>1 DEF JobsKnow
  <2>2. CASE ~\E j : Finish(j)
    <3>1. PICK j \in Jobs : Start(j) /\ booking[j.on].status \in Kept
                            /\ (j.op = "refund" => /\ entitlement[j.on].outcome # "UNJUDGED"
                                                   /\ j.paid = OriginIn(entitlement, j.on)
                                                   /\ j.by = Tender(j.paid)
                                                   /\ j.by = "PAYMENT" => payment[j.paid] = "CAPTURED")
      BY <2>2
    <3>2. BagToSet(jobs') = BagToSet(jobs) \cup {j}
      BY <1>0, <3>1, BagAdd DEF Start, TypeOK
    <3> QED BY <1>0, <3>1, <3>2 DEF JobsKnow
  <2> QED BY <2>1, <2>2
<1>5. \A p : Tender(p)' = Tender(p)
  BY DEF Tender, dbVars, envVars
<1>6. JobsKnow'
  BY <1>4, <1>5 DEF JobsKnow, dbVars
<1> QED BY <1>3, <1>6, Unseen DEF dbVars, envVars

\* judge, refund and reschedule as far as their reads.
LEMMA ReadSteps ==
  ASSUME IInv, NEW b \in Bookings, LostSlot(b)
  PROVE  IInv'
<1>0. TypeOK /\ Judged /\ Chained(entitlement)
  BY DEF IInv
<1>1. ASSUME NEW entitled \in BOOLEAN, JudgeRead(b, entitled) PROVE IInv'
  <2> DEFINE j == [op |-> "judge", on |-> b, entitled |-> entitled]
  <2>1. j \in Jobs /\ j.op # "refund" /\ j.on = b
    BY DEF Jobs
  <2>2. booking[b].status \in Kept /\ Start(j) /\ UNCHANGED <<dbVars, envVars>>
    BY <1>1 DEF JudgeRead, Kept
  <2> HIDE DEF j
  <2> QED BY <2>1, <2>2, JobSteps
<1>2. ASSUME RefundRead(b) PROVE IInv'
  <2> DEFINE p == PaidBooking(b, MaxRescheduleChain - 1)
             j == [op |-> "refund", on |-> b, paid |-> p, by |-> Tender(p)]
  <2>1. entitlement[b].outcome = "OPEN" /\ Refundable(p) /\ Start(j) /\ UNCHANGED <<dbVars, envVars>>
    BY <1>2 DEF RefundRead
  <2>2. MaxRescheduleChain - 1 \in Nat
    BY BookingsAssumption
  <2>3. p = OriginIn(entitlement, b)
    BY <2>1, <2>2, PaidAtOrigin
  <2>4. p \in Bookings
    BY <1>0, <2>3, OriginFacts
  <2> HIDE DEF p
  <2>5. Tender(p) \in {"PAYMENT", "VOUCHER", "FREE_SLOT", "MINUTES"}
        /\ (Tender(p) = "PAYMENT" => payment[p] = "CAPTURED")
    BY <2>1 DEF Refundable, Tender
  <2>6. /\ j \in Jobs /\ j.on = b /\ entitlement[j.on].outcome = "OPEN" /\ j.paid = OriginIn(entitlement, j.on)
        /\ j.by = Tender(j.paid) /\ (j.by = "PAYMENT" => payment[j.paid] = "CAPTURED")
    BY <2>1, <2>3, <2>4, <2>5 DEF Jobs
  <2>7. booking[b].status \in Kept
    BY <1>0, <2>1 DEF Judged
  <2> HIDE DEF j
  <2> QED BY <2>1, <2>6, <2>7, JobSteps
<1>3. ASSUME NEW s \in Slots, RescheduleRead(b, s) PROVE IInv'
  <2> DEFINE j == [op |-> "reschedule", on |-> b, slot |-> s]
  <2>1. j \in Jobs /\ j.op # "refund" /\ j.on = b
    BY DEF Jobs
  <2>2. entitlement[b].outcome = "OPEN" /\ Start(j) /\ UNCHANGED <<dbVars, envVars>>
    BY <1>3 DEF RescheduleRead
  <2>3. booking[b].status \in Kept
    BY <1>0, <2>2 DEF Judged
  <2> HIDE DEF j
  <2> QED BY <2>1, <2>2, <2>3, JobSteps
<1> QED BY <1>1, <1>2, <1>3 DEF LostSlot

\* A request that is rolled back changes nothing but the bag.
LEMMA RefusedStep ==
  ASSUME IInv, NEW j, RequestRefused(j)
  PROVE  IInv'
BY JobSteps DEF RequestRefused

-----------------------------------------------------------------------------
(* Facts about chains and holds in a state that satisfies the invariant *)

\* Where a kept booking's chain begins, there is a kept booking.
LEMMA OriginIsKept ==
  ASSUME IInv, NEW b \in Bookings, booking[b].status \in Kept
  PROVE  /\ OriginIn(entitlement, b) \in Bookings
         /\ booking[OriginIn(entitlement, b)].status \in Kept
<1> DEFINE o == OriginIn(entitlement, b)
<1>0. Chained(entitlement) /\ Judged
  BY DEF IInv
<1>1. o \in Bookings
  BY <1>0, OriginFacts
<1>2. CASE o = b
  BY <1>1, <1>2
<1>3. CASE o # b
  <2>1. entitlement[o].to # None
    BY <1>0, <1>1, <1>3, OriginOfNoOther
  <2> HIDE DEF o
  <2> QED BY <1>0, <1>1, <2>1 DEF Judged, o
<1> QED BY <1>2, <1>3

\* A payment is for the first booking of a chain.
LEMMA PaidIsFirst ==
  ASSUME IInv, NEW b \in Bookings, payment[b] # "NONE"
  PROVE  FromIn(entitlement, b) = None /\ OriginIn(entitlement, b) = b
<1>1. Chained(entitlement) /\ Moved
  BY DEF IInv
<1>2. FromIn(entitlement, b) = None
  BY <1>1 DEF Moved
<1> QED BY <1>1, <1>2, OriginFacts

\* What is dropped or was never written is the origin of nothing refunded.
LEMMA NotReturned ==
  ASSUME IInv, NEW b \in Bookings, booking[b].status \notin Kept
  PROVE  ~Returned(b) /\ ~Claimed(b) /\ entitlement[b].to = None
         /\ \A c \in Bookings : booking[c].status \in Kept => OriginIn(entitlement, c) # b
<1>0. Judged /\ TypeOK
  BY DEF IInv
<1>1. \A c \in Bookings : booking[c].status \in Kept => OriginIn(entitlement, c) # b
  BY OriginIsKept
<1>2. \A c \in Bookings : Claimed(c) => booking[c].status \in Kept
  BY <1>0 DEF Claimed, Live, Refunded, Kept, Judged
<1>3. ~Returned(b)
  BY <1>1, <1>2 DEF Returned, Claimed
<1>4. entitlement[b].to = None
  BY <1>0 DEF Judged
<1> QED BY <1>1, <1>2, <1>3, <1>4

\* Releasing what unpaid holds spent touches no minutes and no gift voucher.
LEMMA HoldsReleased ==
  ASSUME IInv, NEW D, D \subseteq Bookings,
         \A b \in D : booking[b].status = "PENDING_PAYMENT"
  PROVE  /\ MinutesReleased(D) = {} /\ Cardinality(MinutesReleased(D)) = 0
         /\ PrizeReleased(D) \notin D
         /\ PrizeReleased(D) = code \/ (PrizeReleased(D) = None /\ code \in D)
<1>0. Spent /\ TypeOK /\ None \notin Bookings
  BY BookingsAssumption DEF IInv
<1>1. MinutesReleased(D) = {}
  BY <1>0 DEF Spent, SpentOn, MinutesReleased
<1>2. Cardinality(MinutesReleased(D)) = 0
  BY <1>1, FS_EmptySet
<1>3. PrizeReleased(D) \notin D
  BY <1>0 DEF PrizeReleased, Spent, SpentOn
<1> QED BY <1>1, <1>2, <1>3 DEF PrizeReleased

-----------------------------------------------------------------------------
(* Steps that change rows of bookings nobody has a claim on *)

\* The step leaves b's row, its payment and its entries as they are.
RowSame(b) ==
  /\ booking'[b].status = booking[b].status /\ booking'[b].slot = booking[b].slot
  /\ booking'[b].points = booking[b].points /\ booking'[b].minutes = booking[b].minutes
  /\ booking'[b].missions = booking[b].missions
  /\ payment'[b] = payment[b]
  /\ code' = b <=> code = b
  /\ b \in withoutSlot' <=> b \in withoutSlot
  /\ \A k \in Kinds : <<k, b>> \in loyalty' <=> <<k, b>> \in loyalty
  /\ \A k \in Kinds : <<k, b>> \in credits' <=> <<k, b>> \in credits

\* What the invariant says of one booking.
RowOK(b) == FreeRow(b) /\ SpentOn(b) /\ CaptureFor(b) /\ GivenBackFor(b)

\* A row that is the same, of a chain that is as much refunded, is as right.
LEMMA RowStays ==
  ASSUME NEW b \in Bookings, RowSame(b), RowOK(b), wallet' = wallet,
         Returned(b)' <=> Returned(b),
         \A c \in Bookings : entitlement'[c].to = b => entitlement[c].to = b
  PROVE  RowOK(b)' /\ (Over(b)' <=> Over(b)) /\ Tender(b)' = Tender(b) /\ (Backs(b)' <=> Backs(b))
<1>1. Over(b)' <=> Over(b)
  BY DEF Over, RowSame
<1>2. FreeRow(b)'
  BY DEF RowOK, FreeRow, RowSame
<1>3. SpentOn(b)'
  BY DEF RowOK, SpentOn, RowSame, Kinds
<1>4. CaptureFor(b)'
  BY DEF RowOK, CaptureFor, RowSame, Kinds
<1>5. GivenBackFor(b)'
  BY <1>1 DEF RowOK, GivenBackFor, RowSame, Kinds
<1>6. Tender(b)' = Tender(b)
  BY DEF Tender, RowSame
<1>7. Backs(b)' <=> Backs(b)
  BY DEF Backs, RowSame, Kinds
<1> QED BY <1>1, <1>2, <1>3, <1>4, <1>5, <1>6, <1>7 DEF RowOK

\* It is enough that every changed row, of a booking nobody has a claim on yet,
\* is right by itself, and that a booking that becomes live is paid for.
LEMMA RowsChange ==
  ASSUME IInv, TypeOK', UNCHANGED <<entitlement, jobs, wallet>>, InOrder', OneHolderPerSlot',
         NEW D, D \subseteq Bookings,
         \A b \in Bookings \ D : RowSame(b),
         \A b \in D : booking[b].status \notin Kept /\ FromIn(entitlement, b) = None,
         \A b \in D : /\ RowOK(b)' /\ (Live(b)' => Backs(b)')
                      /\ booking'[b].status # "REFUNDED"
                      /\ booking'[b].status \in Held => booking'[b].slot \in Slots
  PROVE  IInv'
<1>0. /\ TypeOK /\ Chained(entitlement) /\ FreeRows /\ Judged /\ Spent /\ Moved /\ JobsKnow
      /\ OneHolderPerSlot /\ Captures /\ OneClaim /\ Backed /\ GivenBack
  BY DEF IInv
<1>1. \A b \in Bookings : RowOK(b)
  BY <1>0 DEF RowOK, FreeRows, Spent, Captures, GivenBack
<1>2. \A b \in Bookings : (Refunded(b)' <=> Refunded(b)) /\ (Returned(b)' <=> Returned(b))
  BY DEF Refunded, Returned
<1>3. \A b \in Bookings \ D :
         RowOK(b)' /\ (Over(b)' <=> Over(b)) /\ Tender(b)' = Tender(b) /\ (Backs(b)' <=> Backs(b))
  BY <1>1, <1>2, RowStays
<1>4. FreeRows' /\ Spent' /\ Captures' /\ GivenBack'
  <2>1. \A b \in Bookings : RowOK(b)'
    BY <1>3
  <2> QED BY <2>1 DEF RowOK, FreeRows, Spent, Captures, GivenBack
<1>5. \A b \in D : /\ ~Returned(b) /\ ~Claimed(b) /\ entitlement[b].outcome = "UNJUDGED"
                   /\ \A c \in Bookings : booking[c].status \in Kept => OriginIn(entitlement, c) # b
                   /\ OriginIn(entitlement, b) = b
  BY <1>0, NotReturned, OriginFacts DEF Judged
<1>6. Judged'
  <2> SUFFICES ASSUME NEW b \in Bookings
               PROVE  /\ entitlement[b].outcome # "UNJUDGED" => booking'[b].status \in Kept
                      /\ entitlement[b].outcome = "REFUNDED" <=> booking'[b].status = "REFUNDED"
                      /\ entitlement[b].to # None <=> entitlement[b].outcome = "RESCHEDULED"
                      /\ booking'[b].status \in Held => booking'[b].slot \in Slots
    BY DEF Judged
  <2>1. CASE b \in D
    BY <1>0, <1>5, <2>1 DEF Judged
  <2>2. CASE b \notin D
    BY <1>0, <2>2 DEF Judged, RowSame
  <2> QED BY <2>1, <2>2
<1>7. Moved'
  BY <1>0 DEF Moved, RowSame
<1>8. JobsKnow'
  <2> SUFFICES ASSUME NEW j \in BagToSet(jobs)
               PROVE  /\ booking'[j.on].status \in Kept
                      /\ j.op = "refund" => entitlement[j.on].outcome # "UNJUDGED"
                      /\ j.op = "refund" /\ entitlement[j.on].outcome = "OPEN" =>
                           /\ j.paid = OriginIn(entitlement, j.on)
                           /\ j.by = Tender(j.paid)'
                           /\ j.by = "PAYMENT" => payment'[j.paid] = "CAPTURED"
    BY DEF JobsKnow
  <2>1. j.on \in Bookings /\ booking[j.on].status \in Kept /\ j.on \notin D
    BY <1>0 DEF TypeOK, Jobs, JobsKnow
  <2>2. /\ booking'[j.on].status \in Kept
        /\ j.op = "refund" => entitlement[j.on].outcome # "UNJUDGED"
    BY <1>0, <2>1 DEF RowSame, JobsKnow
  <2>3. ASSUME j.op = "refund", entitlement[j.on].outcome = "OPEN"
        PROVE  /\ j.paid = OriginIn(entitlement, j.on)
               /\ j.by = Tender(j.paid)'
               /\ j.by = "PAYMENT" => payment'[j.paid] = "CAPTURED"
    <3>1. /\ j.paid = OriginIn(entitlement, j.on) /\ j.by = Tender(j.paid)
          /\ j.by = "PAYMENT" => payment[j.paid] = "CAPTURED"
      BY <1>0, <2>3 DEF JobsKnow
    <3>2. j.paid \in Bookings \ D
      BY <1>0, <1>5, <2>1, <3>1, OriginFacts
    <3> QED BY <1>3, <3>1, <3>2 DEF RowSame
  <2> QED BY <2>2, <2>3
<1>9. \A b \in Bookings \ D : Live(b)' <=> Live(b)
  BY DEF Live, RowSame
<1>a. \A b \in Bookings : Claimed(b) => booking[b].status \in Kept
  BY <1>0 DEF Claimed, Live, Refunded, Judged, Kept
<1>b. OneClaim'
  <2> SUFFICES ASSUME NEW b \in Bookings, NEW c \in Bookings, b # c, Claimed(b)', Claimed(c)'
               PROVE  OriginIn(entitlement, b) # OriginIn(entitlement, c)
    BY DEF OneClaim
  <2>1. \A d \in Bookings \ D : Claimed(d)' => Claimed(d)
    BY <1>2, <1>9 DEF Claimed
  <2>2. CASE b \in D /\ c \in D
    BY <1>5, <2>2
  <2>3. CASE b \in D /\ c \notin D
    BY <1>5, <1>a, <2>1, <2>3
  <2>4. CASE b \notin D /\ c \in D
    BY <1>5, <1>a, <2>1, <2>4
  <2>5. CASE b \notin D /\ c \notin D
    BY <1>0, <2>1, <2>5 DEF OneClaim
  <2> QED BY <2>2, <2>3, <2>4, <2>5
<1>c. Backed'
  <2> SUFFICES ASSUME NEW b \in Bookings, Live(b)'
               PROVE  Backs(OriginIn(entitlement, b))'
    BY DEF Backed
  <2>1. CASE b \in D
    BY <1>5, <2>1
  <2>2. CASE b \notin D
    <3>1. Live(b) /\ booking[b].status \in Kept
      BY <1>9, <2>2 DEF Live, Kept
    <3>2. OriginIn(entitlement, b) \in Bookings \ D
      BY <1>0, <1>5, <3>1, OriginFacts
    <3> QED BY <1>0, <1>3, <3>1, <3>2 DEF Backed
  <2> QED BY <2>1, <2>2
<1>d. Chained(entitlement')
  BY <1>0
<1> QED BY <1>4, <1>6, <1>7, <1>8, <1>b, <1>c, <1>d DEF IInv

-----------------------------------------------------------------------------
(* Payments *)

\* A hold as the invariant knows it: unpaid, unjudged, and nobody's origin.
LEMMA HoldFacts ==
  ASSUME IInv, NEW b \in Bookings, payment[b] = "PENDING"
  PROVE  /\ booking[b].status \in {"PENDING_PAYMENT", "EXPIRED"} /\ booking[b].status \notin Kept
         /\ booking[b].missions = 0 /\ ~booking[b].minutes /\ b \notin withoutSlot
         /\ FromIn(entitlement, b) = None /\ ~Returned(b) /\ entitlement[b].outcome = "UNJUDGED"
         /\ <<"PURCHASE_EARNED", b>> \notin loyalty /\ <<"PURCHASE_REVERSED", b>> \notin loyalty
         /\ <<"REFUND", b>> \notin credits
         /\ (code = b => wallet \notin {"GIFT", "FREE_SLOT"})
         /\ booking[b] \in Rows
<1>0. Spent /\ Judged /\ TypeOK
  BY DEF IInv
<1>1. SpentOn(b)
  BY <1>0 DEF Spent
<1>2. booking[b].status \in {"PENDING_PAYMENT", "EXPIRED"} /\ booking[b].status \notin Kept
  BY <1>1 DEF SpentOn, Kept
<1>3. ~Returned(b) /\ FromIn(entitlement, b) = None
  BY <1>2, NotReturned, PaidIsFirst
<1>4. entitlement[b].outcome = "UNJUDGED" /\ booking[b] \in Rows
  BY <1>0, <1>2 DEF Judged, TypeOK
<1> QED BY <1>1, <1>2, <1>3, <1>4 DEF SpentOn

\* releaseHeldSlot, for a failed payment and for a cancellation.
LEMMA ReleaseStep ==
  ASSUME IInv, NEW b \in Bookings, AwaitsPayment(b), ReleaseHeldSlot(b),
         UNCHANGED <<entitlement, withoutSlot, jobs, envVars>>
  PROVE  IInv'
<1>0. TypeOK /\ FreeRows /\ Spent /\ OneHolderPerSlot
  BY DEF IInv
<1>n. None \notin Bookings
  BY BookingsAssumption
<1>1. booking[b].status = "PENDING_PAYMENT" /\ payment[b] = "PENDING"
  BY <1>0 DEF AwaitsPayment, Spent, SpentOn
<1>2. /\ booking[b].missions = 0 /\ ~booking[b].minutes /\ b \notin withoutSlot
      /\ FromIn(entitlement, b) = None /\ ~Returned(b) /\ entitlement[b].outcome = "UNJUDGED"
      /\ <<"PURCHASE_EARNED", b>> \notin loyalty /\ <<"PURCHASE_REVERSED", b>> \notin loyalty
      /\ <<"REFUND", b>> \notin credits
      /\ booking[b] \in Rows /\ booking[b].status \notin Kept
  BY <1>1, HoldFacts
<1>3. /\ MinutesReleased({b}) = {} /\ Cardinality(MinutesReleased({b})) = 0
      /\ PrizeReleased({b}) # b
      /\ PrizeReleased({b}) = code \/ (PrizeReleased({b}) = None /\ code = b)
  <2>1. {b} \subseteq Bookings /\ \A c \in {b} : booking[c].status = "PENDING_PAYMENT"
    BY <1>1
  <2> QED BY <2>1, HoldsReleased
<1>4. credits' = credits /\ minutes' = minutes
  <2>1. ReleaseMinutes({b})
    BY DEF ReleaseHeldSlot
  <2>2. minutes \in Nat
    BY <1>0 DEF TypeOK
  <2>3. credits' = credits
    BY <1>3, <2>1 DEF ReleaseMinutes
  <2>4. minutes' = minutes + 0
    BY <1>3, <2>1 DEF ReleaseMinutes
  <2> QED BY <2>2, <2>3, <2>4
<1>5. /\ booking' \in [Bookings -> Rows] /\ booking'[b].status = "CANCELLED"
      /\ booking'[b].points = booking[b].points
      /\ booking'[b].minutes = booking[b].minutes /\ booking'[b].missions = booking[b].missions
      /\ \A c \in Bookings : c # b => booking'[c] = booking[c]
  <2>1. booking' = [booking EXCEPT ![b] = [booking[b] EXCEPT !.status = "CANCELLED", !.lapsed = FALSE]]
    BY DEF ReleaseHeldSlot, Become
  <2>2. [booking[b] EXCEPT !.status = "CANCELLED", !.lapsed = FALSE] \in Rows
    BY <1>2 DEF Rows, Statuses, Dropped
  <2> QED BY <1>0, <1>2, <2>1, <2>2 DEF TypeOK, Rows
<1>6. /\ payment' = [payment EXCEPT ![b] = "FAILED"] /\ code' = PrizeReleased({b})
      /\ loyalty' = loyalty \cup PointsReleased({b})
  BY DEF ReleaseHeldSlot
<1>7. /\ payment'[b] = "FAILED" /\ \A c \in Bookings : c # b => payment'[c] = payment[c]
      /\ payment' \in [Bookings -> PaymentStatuses]
  BY <1>0, <1>6 DEF TypeOK, PaymentStatuses, Results
<1>8. /\ booking[b].points => <<"REDEMPTION_RELEASED", b>> \in loyalty'
      /\ loyalty' \subseteq loyalty \cup {<<"REDEMPTION_RELEASED", b>>}
      /\ <<"PURCHASE_EARNED", b>> \notin loyalty' /\ <<"PURCHASE_REVERSED", b>> \notin loyalty'
      /\ \A c \in Bookings, k \in Kinds :
           c # b => (<<k, c>> \in loyalty' <=> <<k, c>> \in loyalty)
  BY <1>2, <1>6 DEF PointsReleased
<1>9. UNCHANGED <<entitlement, withoutSlot, jobs, wallet>> /\ UNCHANGED envVars
  BY DEF envVars
<1>s. ASSUME NEW c \in Bookings, c # b PROVE RowSame(c)
  BY <1>3, <1>4, <1>5, <1>6, <1>7, <1>8, <1>9, <1>n, <1>s DEF RowSame
<1>a. TypeOK'
  <2>1. loyalty' \subseteq {"REDEEMED", "REDEMPTION_RELEASED", "PURCHASE_EARNED", "PURCHASE_REVERSED"} \X Bookings
    BY <1>0, <1>8 DEF TypeOK
  <2>2. code' \in Bookings \cup {None}
    BY <1>0, <1>3, <1>6 DEF TypeOK
  <2> QED BY <1>0, <1>4, <1>5, <1>7, <1>9, <2>1, <2>2 DEF TypeOK, envVars
<1>b. InOrder' /\ OneHolderPerSlot'
  BY <1>0, <1>1, <1>5 DEF FreeRows, InOrder, OneHolderPerSlot, Held
<1>c. RowOK(b)'
  <2>1. Over(b)'
    BY <1>5 DEF Over, Dropped
  <2>2. FreeRow(b)' /\ CaptureFor(b)'
    BY <1>2, <1>5, <1>7 DEF FreeRow, CaptureFor
  <2>3. SpentOn(b)'
    BY <1>2, <1>3, <1>4, <1>5, <1>6, <1>7, <1>8 DEF SpentOn, Dropped
  <2>4. GivenBackFor(b)'
    BY <1>3, <1>5, <1>6, <1>8, <2>1 DEF GivenBackFor
  <2> QED BY <2>2, <2>3, <2>4 DEF RowOK
<1>d. ~Live(b)' /\ booking'[b].status \notin Held \cup {"REFUNDED"}
  BY <1>5 DEF Live, Held
<1> DEFINE D == {b}
<1>e. /\ D \subseteq Bookings /\ \A c \in Bookings \ D : RowSame(c)
      /\ \A c \in D : booking[c].status \notin Kept /\ FromIn(entitlement, c) = None
  BY <1>2, <1>s
<1>f. \A c \in D : /\ RowOK(c)' /\ (Live(c)' => Backs(c)')
                   /\ booking'[c].status # "REFUNDED"
                   /\ booking'[c].status \in Held => booking'[c].slot \in Slots
  BY <1>c, <1>d
<1> HIDE DEF D
<1> QED BY <1>9, <1>a, <1>b, <1>e, <1>f, RowsChange

\* settlePayment for a payment nobody waits for: only the payment is marked.
LEMMA LateSettleStep ==
  ASSUME IInv, NEW b \in Bookings, payment[b] = "PENDING", ~AwaitsPayment(b),
         NEW r \in Results, payment' = [payment EXCEPT ![b] = r],
         withoutSlot' = IF r = "CAPTURED" THEN withoutSlot \cup {b} ELSE withoutSlot,
         UNCHANGED <<booking, entitlement, code, loyalty, credits, minutes, jobs, envVars>>
  PROVE  IInv'
<1>0. TypeOK /\ FreeRows /\ Spent /\ OneHolderPerSlot /\ GivenBack
  BY DEF IInv
<1>2. /\ booking[b].status = "EXPIRED"
      /\ booking[b].missions = 0 /\ ~booking[b].minutes /\ b \notin withoutSlot
      /\ FromIn(entitlement, b) = None /\ ~Returned(b) /\ entitlement[b].outcome = "UNJUDGED"
      /\ <<"PURCHASE_EARNED", b>> \notin loyalty /\ <<"PURCHASE_REVERSED", b>> \notin loyalty
      /\ <<"REFUND", b>> \notin credits
      /\ (code = b => wallet \notin {"GIFT", "FREE_SLOT"})
      /\ booking[b].status \notin Kept
  BY HoldFacts DEF AwaitsPayment
<1>7. /\ payment'[b] = r /\ \A c \in Bookings : c # b => payment'[c] = payment[c]
      /\ payment' \in [Bookings -> PaymentStatuses]
      /\ \A c \in Bookings : c # b => (c \in withoutSlot' <=> c \in withoutSlot)
      /\ withoutSlot' \subseteq Bookings /\ (r = "CAPTURED" => b \in withoutSlot')
  BY <1>0 DEF TypeOK, PaymentStatuses, Results
<1>9. UNCHANGED <<entitlement, jobs, wallet>> /\ UNCHANGED envVars
  BY DEF envVars
<1>s. ASSUME NEW c \in Bookings, c # b PROVE RowSame(c)
  BY <1>7, <1>s DEF RowSame
<1>a. TypeOK'
  BY <1>0, <1>7 DEF TypeOK, envVars
<1>b. InOrder' /\ OneHolderPerSlot'
  BY <1>0 DEF FreeRows, InOrder, OneHolderPerSlot
<1>c. RowOK(b)'
  <2>1. Over(b)' /\ Over(b)
    BY <1>2 DEF Over, Dropped
  <2>2. FreeRow(b)' /\ CaptureFor(b)'
    BY <1>2, <1>7 DEF FreeRow, CaptureFor, Results
  <2>3. SpentOn(b)'
    BY <1>2, <1>7, <1>9 DEF SpentOn, Dropped, Results
  <2>4. GivenBackFor(b)'
    BY <1>0, <1>7, <2>1 DEF GivenBack, GivenBackFor, Results
  <2> QED BY <2>2, <2>3, <2>4 DEF RowOK
<1>d. ~Live(b)' /\ booking'[b].status \notin Held \cup {"REFUNDED"}
  BY <1>2 DEF Live, Held
<1> DEFINE D == {b}
<1>e. /\ D \subseteq Bookings /\ \A c \in Bookings \ D : RowSame(c)
      /\ \A c \in D : booking[c].status \notin Kept /\ FromIn(entitlement, c) = None
  BY <1>2, <1>s
<1>f. \A c \in D : /\ RowOK(c)' /\ (Live(c)' => Backs(c)')
                   /\ booking'[c].status # "REFUNDED"
                   /\ booking'[c].status \in Held => booking'[c].slot \in Slots
  BY <1>c, <1>d
<1> HIDE DEF D
<1> QED BY <1>9, <1>a, <1>b, <1>e, <1>f, RowsChange

\* A capture in time confirms the booking, with its one mission.
LEMMA ConfirmStep ==
  ASSUME IInv, NEW b \in Bookings, SettleCaptured(b), AwaitsPayment(b)
  PROVE  IInv'
<1>0. TypeOK /\ FreeRows /\ Spent /\ OneHolderPerSlot /\ GivenBack /\ Judged
  BY DEF IInv
<1>1. /\ booking[b].status = "PENDING_PAYMENT" /\ payment[b] = "PENDING"
      /\ payment' = [payment EXCEPT ![b] = "CAPTURED"]
      /\ booking' = [booking EXCEPT ![b] = [Become(booking[b], "CONFIRMED")
                                              EXCEPT !.missions = booking[b].missions + 1]]
      /\ loyalty' = loyalty \cup {<<"PURCHASE_EARNED", b>>}
      /\ UNCHANGED <<withoutSlot, entitlement, code, credits, minutes, jobs, envVars>>
  BY DEF SettleCaptured, AwaitsPayment, Unsettled
<1>2. /\ booking[b].missions = 0 /\ ~booking[b].minutes /\ b \notin withoutSlot
      /\ FromIn(entitlement, b) = None /\ ~Returned(b) /\ entitlement[b].outcome = "UNJUDGED"
      /\ <<"PURCHASE_EARNED", b>> \notin loyalty /\ <<"PURCHASE_REVERSED", b>> \notin loyalty
      /\ <<"REFUND", b>> \notin credits
      /\ (code = b => wallet \notin {"GIFT", "FREE_SLOT"})
      /\ booking[b] \in Rows /\ booking[b].status \notin Kept
  BY <1>1, HoldFacts
<1>5. /\ booking' \in [Bookings -> Rows] /\ booking'[b].status = "CONFIRMED"
      /\ booking'[b].points = booking[b].points /\ booking'[b].slot = booking[b].slot
      /\ booking'[b].minutes = booking[b].minutes /\ booking'[b].missions = 1
      /\ \A c \in Bookings : c # b => booking'[c] = booking[c]
  <2> DEFINE mid == [booking[b] EXCEPT !.status = "CONFIRMED", !.lapsed = FALSE]
             row == [mid EXCEPT !.missions = booking[b].missions + 1]
  <2>1. mid \in Rows /\ mid.status = "CONFIRMED" /\ mid.points = booking[b].points
        /\ mid.slot = booking[b].slot /\ mid.minutes = booking[b].minutes /\ mid.missions = 0
    BY <1>2 DEF Rows, Statuses, Held
  <2>2. booking' = [booking EXCEPT ![b] = row]
    BY <1>1 DEF Become
  <2> HIDE DEF mid
  <2>3. row \in Rows /\ row.status = "CONFIRMED" /\ row.points = booking[b].points
        /\ row.slot = booking[b].slot /\ row.minutes = booking[b].minutes /\ row.missions = 1
    BY <1>2, <2>1 DEF Rows
  <2> HIDE DEF row
  <2> QED BY <1>0, <2>2, <2>3 DEF TypeOK
<1>7. /\ payment'[b] = "CAPTURED" /\ \A c \in Bookings : c # b => payment'[c] = payment[c]
      /\ payment' \in [Bookings -> PaymentStatuses]
  BY <1>0, <1>1 DEF TypeOK, PaymentStatuses, Results
<1>8. /\ <<"PURCHASE_EARNED", b>> \in loyalty' /\ <<"PURCHASE_REVERSED", b>> \notin loyalty'
      /\ <<"REDEMPTION_RELEASED", b>> \in loyalty' <=> <<"REDEMPTION_RELEASED", b>> \in loyalty
      /\ \A c \in Bookings, k \in Kinds :
           c # b => (<<k, c>> \in loyalty' <=> <<k, c>> \in loyalty)
  BY <1>1, <1>2
<1>9. UNCHANGED <<entitlement, withoutSlot, jobs, wallet, code, credits, minutes>> /\ UNCHANGED envVars
  BY <1>1 DEF envVars
<1>s. ASSUME NEW c \in Bookings, c # b PROVE RowSame(c)
  BY <1>5, <1>7, <1>8, <1>9, <1>s DEF RowSame
<1>a. TypeOK'
  <2>1. loyalty' \subseteq {"REDEEMED", "REDEMPTION_RELEASED", "PURCHASE_EARNED", "PURCHASE_REVERSED"} \X Bookings
    BY <1>0, <1>1 DEF TypeOK
  <2> QED BY <1>0, <1>5, <1>7, <1>9, <2>1 DEF TypeOK, envVars
<1>b. InOrder' /\ OneHolderPerSlot'
  BY <1>0, <1>1, <1>5 DEF FreeRows, InOrder, OneHolderPerSlot, Held
<1>c. RowOK(b)'
  <2>1. ~Over(b)' /\ ~Over(b)
    <3>1. ~Returned(b)'
      BY <1>2, <1>9 DEF Returned, Refunded
    <3> QED BY <1>1, <1>2, <1>5, <3>1 DEF Over, Dropped
  <2>2. FreeRow(b)' /\ CaptureFor(b)'
    BY <1>2, <1>5, <1>7, <1>9 DEF FreeRow, CaptureFor, Kept
  <2>3. SpentOn(b)'
    BY <1>2, <1>5, <1>7, <1>8, <1>9 DEF SpentOn, Dropped
  <2>4. GivenBackFor(b)'
    BY <1>0, <1>5, <1>7, <1>8, <1>9, <2>1 DEF GivenBack, GivenBackFor
  <2> QED BY <2>2, <2>3, <2>4 DEF RowOK
<1>d. Backs(b)' /\ booking'[b].slot \in Slots
  BY <1>0, <1>1, <1>5, <1>7 DEF Backs, Judged, Held
<1> DEFINE D == {b}
<1>e. /\ D \subseteq Bookings /\ \A c \in Bookings \ D : RowSame(c)
      /\ \A c \in D : booking[c].status \notin Kept /\ FromIn(entitlement, c) = None
  BY <1>2, <1>s
<1>f. \A c \in D : /\ RowOK(c)' /\ (Live(c)' => Backs(c)')
                   /\ booking'[c].status # "REFUNDED"
                   /\ booking'[c].status \in Held => booking'[c].slot \in Slots
  BY <1>5, <1>c, <1>d
<1> HIDE DEF D
<1> QED BY <1>9, <1>a, <1>b, <1>e, <1>f, RowsChange

\* Every step of a payment.
LEMMA PaymentSteps ==
  ASSUME IInv, NEW b \in Bookings, Payment(b)
  PROVE  IInv'
<1>1. CASE OpenBogCheckout(b)
  BY <1>1, OutsideSteps
<1>2. CASE \E r \in Results : BankAnswers(b, r) \/ SandboxAnswers(b, r)
  BY <1>2, OutsideSteps
<1>3. CASE SettleFailed(b)
  <2>1. CASE AwaitsPayment(b)
    BY <1>3, <2>1, ReleaseStep DEF SettleFailed
  <2>2. CASE ~AwaitsPayment(b)
    <3>1. /\ payment[b] = "PENDING" /\ payment' = [payment EXCEPT ![b] = "FAILED"]
          /\ UNCHANGED <<booking, entitlement, code, loyalty, credits, minutes, jobs, envVars>>
          /\ withoutSlot' = IF "FAILED" = "CAPTURED" THEN withoutSlot \cup {b} ELSE withoutSlot
          /\ "FAILED" \in Results
      BY <1>3, <2>2 DEF SettleFailed, Unsettled, Results
    <3> QED BY <2>2, <3>1, LateSettleStep
  <2> QED BY <2>1, <2>2
<1>4. CASE SettleCaptured(b)
  <2>1. CASE AwaitsPayment(b)
    BY <1>4, <2>1, ConfirmStep
  <2>2. CASE ~AwaitsPayment(b)
    <3>1. /\ payment[b] = "PENDING" /\ payment' = [payment EXCEPT ![b] = "CAPTURED"]
          /\ UNCHANGED <<booking, entitlement, code, loyalty, credits, minutes, jobs, envVars>>
          /\ withoutSlot' = IF "CAPTURED" = "CAPTURED" THEN withoutSlot \cup {b} ELSE withoutSlot
          /\ "CAPTURED" \in Results
      BY <1>4, <2>2 DEF SettleCaptured, Unsettled, Results
    <3> QED BY <2>2, <3>1, LateSettleStep
  <2> QED BY <2>1, <2>2
<1>5. CASE CancelMyBooking(b)
  BY <1>5, ReleaseStep DEF CancelMyBooking
<1> QED BY <1>1, <1>2, <1>3, <1>4, <1>5 DEF Payment

-----------------------------------------------------------------------------
(* New bookings *)

\* The row and the payment of a hold, or of a booking paid for at once.
NewRow(b, row) ==
  /\ row \in Rows /\ row.status \in Held /\ row.slot \in Slots
  /\ \/ /\ row.status = "PENDING_PAYMENT" /\ payment'[b] = "PENDING"
        /\ row.missions = 0 /\ ~row.minutes
        /\ code' = b => wallet \notin {"GIFT", "FREE_SLOT"}
     \/ /\ row.status = "CONFIRMED" /\ payment'[b] = "NONE"
        /\ row.missions = 1 /\ ~row.points
        /\ row.minutes => code' # b /\ <<"MISSION_DEBIT", b>> \in credits'

\* What every booking that is added does: holds that have lapsed are swept, and
\* what they spent is released.
Adds(b, row) ==
  /\ Fresh(b) /\ Insert(b, row) /\ SlotIsFree(row.slot) /\ NewRow(b, row)
  /\ \A c \in Bookings : c # b => payment'[c] = payment[c]
  /\ code' = PrizeReleased(Lapsed) \/ (code' = b /\ PrizeReleased(Lapsed) = None)
  /\ loyalty \cup PointsReleased(Lapsed) \subseteq loyalty'
  /\ loyalty' \subseteq loyalty \cup PointsReleased(Lapsed) \cup {<<"REDEEMED", b>>}
  /\ credits \subseteq credits' /\ credits' \subseteq credits \cup {<<"MISSION_DEBIT", b>>}
  /\ UNCHANGED <<withoutSlot, wallet>>

\* A lapsed hold as the invariant knows it.
LEMMA LapsedFacts ==
  ASSUME IInv, NEW c \in Lapsed
  PROVE  /\ c \in Bookings /\ payment[c] = "PENDING" /\ booking[c].status = "PENDING_PAYMENT"
         /\ booking[c].missions = 0 /\ ~booking[c].minutes /\ c \notin withoutSlot
         /\ FromIn(entitlement, c) = None /\ ~Returned(c) /\ booking[c] \in Rows
         /\ <<"PURCHASE_EARNED", c>> \notin loyalty /\ <<"PURCHASE_REVERSED", c>> \notin loyalty
         /\ <<"REFUND", c>> \notin credits /\ booking[c].status \notin Kept
<1>1. c \in Bookings /\ booking[c].status = "PENDING_PAYMENT"
  BY DEF Lapsed
<1>2. payment[c] = "PENDING"
  BY <1>1 DEF IInv, Spent, SpentOn
<1> QED BY <1>1, <1>2, HoldFacts

\* A row that is about to be written.
LEMMA FreshFacts ==
  ASSUME IInv, NEW b \in Bookings, Fresh(b)
  PROVE  /\ booking[b].status = "FREE" /\ booking[b].status \notin Kept /\ b \notin Lapsed
         /\ payment[b] = "NONE" /\ code # b /\ b \notin withoutSlot
         /\ FromIn(entitlement, b) = None /\ ~Returned(b)
         /\ entitlement[b].to = None /\ entitlement[b].outcome = "UNJUDGED"
         /\ \A c \in Bookings : entitlement[c].to # b
         /\ \A k \in Kinds : <<k, b>> \notin loyalty /\ <<k, b>> \notin credits
<1>1. booking[b].status = "FREE"
  BY DEF Fresh
<1>2. booking[b].status \notin Kept /\ b \notin Lapsed
  BY <1>1 DEF Kept, Lapsed
<1>3. FreeRow(b) /\ Chained(entitlement) /\ Judged
  BY DEF IInv, FreeRows
<1>4. ~Returned(b) /\ entitlement[b].to = None /\ entitlement[b].outcome = "UNJUDGED"
  BY <1>2, <1>3, NotReturned DEF Judged
<1>5. FromIn(entitlement, b) = None
  BY <1>1, <1>3, FromUnique DEF FreeRow
<1> QED BY <1>1, <1>2, <1>3, <1>4, <1>5 DEF FreeRow

\* The rows are right after a booking is added: the new one, the swept holds and
\* all the others.
LEMMA AddedRows ==
  ASSUME IInv, NEW b \in Bookings, NEW row, Adds(b, row),
         ~Returned(b)', \A c \in Lapsed : ~Returned(c)'
  PROVE  /\ booking' \in [Bookings -> Rows] /\ code' \in Bookings \cup {None}
         /\ loyalty' \subseteq {"REDEEMED", "REDEMPTION_RELEASED", "PURCHASE_EARNED",
                                "PURCHASE_REVERSED"} \X Bookings
         /\ InOrder' /\ OneHolderPerSlot'
         /\ \A c \in Bookings \ (Lapsed \cup {b}) : RowSame(c)
         /\ booking'[b] = row /\ RowOK(b)'
         /\ \A c \in Lapsed : RowOK(c)' /\ booking'[c].status = "EXPIRED"
<1>0. TypeOK /\ FreeRows /\ Spent /\ OneHolderPerSlot /\ GivenBack /\ Judged
  BY DEF IInv
<1>n. None \notin Bookings /\ Lapsed \subseteq Bookings /\ b \in Int
  BY BookingsAssumption DEF Lapsed, Bookings
<1>1. /\ booking[b].status = "FREE" /\ b \notin Lapsed /\ code # b /\ b \notin withoutSlot
      /\ \A k \in Kinds : <<k, b>> \notin loyalty /\ <<k, b>> \notin credits
  BY FreshFacts DEF Adds
<1>2. /\ PrizeReleased(Lapsed) \notin Lapsed
      /\ PrizeReleased(Lapsed) = code \/ (PrizeReleased(Lapsed) = None /\ code \in Lapsed)
  <2>1. \A c \in Lapsed : booking[c].status = "PENDING_PAYMENT"
    BY DEF Lapsed
  <2> QED BY <1>n, <2>1, HoldsReleased
<1>3. \A k \in Kinds : \A c \in Bookings :
         /\ <<k, c>> \in loyalty => <<k, c>> \in loyalty'
         /\ <<k, c>> \in loyalty' => \/ <<k, c>> \in loyalty
                                     \/ k = "REDEMPTION_RELEASED" /\ c \in Lapsed /\ booking[c].points
                                     \/ k = "REDEEMED" /\ c = b
         /\ k = "REDEMPTION_RELEASED" /\ c \in Lapsed /\ booking[c].points => <<k, c>> \in loyalty'
         /\ <<k, c>> \in credits => <<k, c>> \in credits'
         /\ <<k, c>> \in credits' => <<k, c>> \in credits \/ (k = "MISSION_DEBIT" /\ c = b)
  BY DEF Adds, PointsReleased
<1>4. /\ booking'[b] = row
      /\ \A c \in Lapsed : booking'[c] = [booking[c] EXCEPT !.status = "EXPIRED", !.lapsed = FALSE]
      /\ \A c \in Bookings \ (Lapsed \cup {b}) : booking'[c] = booking[c]
      /\ DOMAIN booking' = Bookings
      /\ booking' = [c \in Bookings |-> booking'[c]]
  BY <1>1, <1>n DEF Adds, Insert, Swept, Become
<1>5. \A c \in Lapsed :
         /\ [booking[c] EXCEPT !.status = "EXPIRED", !.lapsed = FALSE] \in Rows
         /\ booking'[c].status = "EXPIRED" /\ booking'[c].slot = booking[c].slot
         /\ booking'[c].points = booking[c].points /\ booking'[c].minutes = booking[c].minutes
         /\ booking'[c].missions = booking[c].missions
  <2> TAKE c \in Lapsed
  <2>1. booking[c] \in Rows
    BY LapsedFacts
  <2> QED BY <1>4, <2>1 DEF Rows, Statuses, Dropped
<1>6. booking' \in [Bookings -> Rows]
  <2>1. \A c \in Bookings : booking[c] \in Rows
    BY <1>0 DEF TypeOK
  <2>2. row \in Rows
    BY DEF Adds, NewRow
  <2>3. \A c \in Bookings : booking'[c] \in Rows
    <3> TAKE c \in Bookings
    <3>1. CASE c = b
      BY <1>4, <2>2, <3>1
    <3>2. CASE c \in Lapsed
      BY <1>4, <1>5, <3>2, Zenon
    <3>3. CASE c \in Bookings \ (Lapsed \cup {b})
      BY <1>4, <2>1, <3>3
    <3> QED BY <3>1, <3>2, <3>3
  <2> QED BY <1>4, <2>3
<1>7. code' \in Bookings \cup {None}
  BY <1>0, <1>2 DEF TypeOK, Adds
<1>8. loyalty' \subseteq {"REDEEMED", "REDEMPTION_RELEASED", "PURCHASE_EARNED", "PURCHASE_REVERSED"} \X Bookings
  <2>1. PointsReleased(Lapsed) \subseteq {"REDEMPTION_RELEASED"} \X Bookings
    BY <1>n DEF PointsReleased
  <2> QED BY <1>0, <2>1 DEF TypeOK, Adds
<1>9. InOrder'
  <2> SUFFICES ASSUME NEW c \in Bookings, NEW d \in Bookings, c < d, booking'[c].status = "FREE"
               PROVE  booking'[d].status = "FREE"
    BY DEF InOrder
  <2>1. booking[c].status = "FREE" /\ c # b
    BY <1>4, <1>5 DEF Adds, NewRow, Held
  <2>2. d # b
    <3> SUFFICES ASSUME d = b PROVE FALSE
      OBVIOUS
    <3>1. c \in 1..(b - 1)
      BY <1>n DEF Bookings
    <3> QED BY <2>1, <3>1 DEF Adds, Fresh
  <2>3. booking[d].status = "FREE"
    BY <1>0, <2>1 DEF FreeRows, InOrder
  <2> QED BY <1>4, <2>2, <2>3 DEF Lapsed
<1>a. OneHolderPerSlot'
  <2> SUFFICES ASSUME NEW c \in Bookings, NEW d \in Bookings, c # d,
                      booking'[c].status \in Held, booking'[d].status \in Held
               PROVE  ~Overlap(booking'[c].slot, booking'[d].slot)
    BY DEF OneHolderPerSlot
  <2>1. \A x \in Bookings : x # b /\ booking'[x].status \in Held =>
           x \in Bookings \ Lapsed /\ booking[x].status \in Held /\ booking'[x].slot = booking[x].slot
    BY <1>4, <1>5 DEF Held
  <2>2. \A x, y : Overlap(x, y) <=> Overlap(y, x)
    BY DEF Overlap
  <2>3. \A x \in Bookings \ Lapsed : booking[x].status \in Held => ~Overlap(booking[x].slot, row.slot)
    BY DEF Adds, SlotIsFree
  <2>4. CASE c = b
    BY <1>4, <2>1, <2>2, <2>3, <2>4
  <2>5. CASE d = b
    BY <1>4, <2>1, <2>3, <2>5
  <2>6. CASE c # b /\ d # b
    BY <1>0, <2>1, <2>6 DEF OneHolderPerSlot
  <2> QED BY <2>4, <2>5, <2>6
<1>b. ASSUME NEW c \in Bookings \ (Lapsed \cup {b}) PROVE RowSame(c)
  <2>1. booking'[c] = booking[c] /\ payment'[c] = payment[c]
    BY <1>4 DEF Adds
  <2>2. code' = c <=> code = c
    BY <1>2, <1>n DEF Adds
  <2>3. \A k \in Kinds : /\ <<k, c>> \in loyalty' <=> <<k, c>> \in loyalty
                         /\ <<k, c>> \in credits' <=> <<k, c>> \in credits
    BY <1>3
  <2> QED BY <2>1, <2>2, <2>3 DEF RowSame, Adds
<1>c. RowOK(b)'
  <2>0. NewRow(b, row) /\ withoutSlot' = withoutSlot /\ wallet' = wallet
    BY DEF Adds
  <2>1. ~Over(b)'
    BY <1>4, <2>0 DEF Over, Dropped, NewRow, Held
  <2>2. /\ <<"PURCHASE_EARNED", b>> \notin loyalty' /\ <<"PURCHASE_REVERSED", b>> \notin loyalty'
        /\ <<"REDEMPTION_RELEASED", b>> \notin loyalty' /\ <<"REFUND", b>> \notin credits'
    BY <1>1, <1>3 DEF Kinds
  <2>3. FreeRow(b)'
    BY <1>4, <2>0 DEF FreeRow, NewRow, Held
  <2>4. CaptureFor(b)'
    <3>1. \/ payment'[b] = "PENDING" /\ booking'[b].missions = 0
          \/ payment'[b] = "NONE"
      BY <1>4, <2>0 DEF NewRow
    <3> QED BY ONLY <3>1 DEF CaptureFor
  <2>5. SpentOn(b)'
    BY <1>1, <1>4, <2>0, <2>2 DEF SpentOn, NewRow, Kept
  <2>6. GivenBackFor(b)'
    BY <1>4, <2>0, <2>1, <2>2 DEF GivenBackFor, NewRow
  <2> QED BY <2>3, <2>4, <2>5, <2>6 DEF RowOK
<1>d. ASSUME NEW c \in Lapsed PROVE RowOK(c)'
  <2>0. /\ c \in Bookings /\ c # b /\ payment'[c] = "PENDING" /\ booking[c].missions = 0
        /\ ~booking[c].minutes /\ c \notin withoutSlot
        /\ <<"PURCHASE_EARNED", c>> \notin loyalty /\ <<"PURCHASE_REVERSED", c>> \notin loyalty
        /\ <<"REFUND", c>> \notin credits
    BY <1>1, LapsedFacts DEF Adds
  <2>1. Over(c)' /\ withoutSlot' = withoutSlot
    BY <1>5 DEF Over, Dropped, Adds
  <2>2. /\ <<"PURCHASE_EARNED", c>> \notin loyalty' /\ <<"PURCHASE_REVERSED", c>> \notin loyalty'
        /\ (booking[c].points => <<"REDEMPTION_RELEASED", c>> \in loyalty')
        /\ <<"REFUND", c>> \notin credits'
    BY <1>3, <2>0 DEF Kinds
  <2>3. code' # c
    BY <1>2, <2>0 DEF Adds
  <2>4. FreeRow(c)'
    BY <1>5 DEF FreeRow
  <2>5. CaptureFor(c)'
    <3>1. payment'[c] = "PENDING" /\ booking'[c].missions = 0
      BY <1>5, <2>0
    <3> QED BY ONLY <3>1 DEF CaptureFor
  <2>6. SpentOn(c)'
    BY <1>5, <2>0, <2>1, <2>2, <2>3 DEF SpentOn
  <2>7. GivenBackFor(c)'
    BY <1>5, <2>0, <2>1, <2>2, <2>3 DEF GivenBackFor
  <2> QED BY <2>4, <2>5, <2>6, <2>7 DEF RowOK
<1> QED BY <1>4, <1>5, <1>6, <1>7, <1>8, <1>9, <1>a, <1>b, <1>c, <1>d

\* The rest of what a reservation does.
Reserves(b, row) ==
  /\ Adds(b, row)
  /\ payment' \in [Bookings -> PaymentStatuses]
  /\ credits' \subseteq {"MISSION_DEBIT", "REFUND"} \X Bookings /\ minutes' \in Nat
  /\ UNCHANGED <<entitlement, jobs, envVars>>
  /\ row.status = "CONFIRMED" =>
       \/ code' = b /\ wallet \in {"GIFT", "FREE_SLOT"}
       \/ <<"MISSION_DEBIT", b>> \in credits'

\* No hold spent minutes, so the sweep of the lapsed ones returns none.
LEMMA NothingOnHolds ==
  ASSUME IInv
  PROVE  /\ MinutesReleased(Lapsed) = {} /\ Cardinality(MinutesReleased(Lapsed)) = 0
         /\ {<<"REFUND", c>> : c \in MinutesReleased(Lapsed)} = {}
<1>1. Lapsed \subseteq Bookings /\ \A c \in Lapsed : booking[c].status = "PENDING_PAYMENT"
  BY DEF Lapsed
<1>2. MinutesReleased(Lapsed) = {} /\ Cardinality(MinutesReleased(Lapsed)) = 0
  BY <1>1, HoldsReleased
<1> QED BY <1>2

\* The row of a booking before it is written.
LEMMA NoBookingRow ==
  /\ NoBooking \in Rows /\ NoBooking.missions = 0
  /\ NoBooking.minutes = FALSE /\ NoBooking.points = FALSE
BY DEF NoBooking, Rows, Statuses

\* The row of a hold.
LEMMA HoldRow ==
  ASSUME NEW s \in Slots, NEW points \in BOOLEAN
  PROVE  LET row == [NoBooking EXCEPT !.status = "PENDING_PAYMENT", !.slot = s, !.points = points]
         IN  /\ row \in Rows /\ row.status = "PENDING_PAYMENT" /\ row.slot = s
             /\ row.missions = 0 /\ ~row.minutes
BY NoBookingRow DEF Rows, Statuses, Held

\* Those of bookings confirmed at once.
LEMMA ConfirmedRow ==
  ASSUME NEW s \in Slots
  PROVE  /\ LET row == Confirmed(s)
            IN  /\ row \in Rows /\ row.status = "CONFIRMED" /\ row.slot = s /\ row.missions = 1
                /\ ~row.minutes /\ ~row.points
         /\ LET row == [Confirmed(s) EXCEPT !.minutes = TRUE]
            IN  /\ row \in Rows /\ row.status = "CONFIRMED" /\ row.slot = s /\ row.missions = 1
                /\ ~row.points
<1> DEFINE row == [NoBooking EXCEPT !.status = "CONFIRMED", !.slot = s, !.missions = 1]
<1>0. 1 \in 0..1 /\ s \in Slots \cup {None} /\ "CONFIRMED" \in Statuses
  BY DEF Statuses, Held
<1>1. row \in Rows
  BY ONLY <1>0, NoBookingRow DEF Rows
<1>2. /\ row.status = "CONFIRMED" /\ row.slot = s /\ row.missions = 1
      /\ row.minutes = NoBooking.minutes /\ row.points = NoBooking.points
  BY NoBookingRow DEF Rows
<1> HIDE DEF row
<1>3. ~row.minutes /\ ~row.points
  BY <1>2, NoBookingRow
<1>4. LET new == [row EXCEPT !.minutes = TRUE]
      IN  /\ new \in Rows /\ new.status = "CONFIRMED" /\ new.slot = s /\ new.missions = 1
          /\ ~new.points
  BY <1>1, <1>2, <1>3 DEF Rows
<1>5. row = Confirmed(s)
  BY DEF Confirmed, row
<1> QED BY <1>1, <1>2, <1>3, <1>4, <1>5

\* Each of the three reservations adds one row, and pays for it or holds it.
LEMMA ReservationIs ==
  ASSUME IInv, NEW b \in Bookings, Reservation(b)
  PROVE  \E row : Reserves(b, row)
<1>0. TypeOK /\ b # None
  BY BookingsAssumption DEF IInv
<1>p. payment[b] = "NONE" \/ ~Fresh(b)
  BY FreshFacts
<1>m. /\ MinutesReleased(Lapsed) = {} /\ Cardinality(MinutesReleased(Lapsed)) = 0
      /\ {<<"REFUND", c>> : c \in MinutesReleased(Lapsed)} = {} /\ minutes \in Nat
  BY <1>0, NothingOnHolds DEF TypeOK
<1>c. credits \subseteq {"MISSION_DEBIT", "REFUND"} \X Bookings
  BY <1>0 DEF TypeOK
<1>r. ReleaseMinutes(Lapsed) => credits' = credits /\ minutes' = minutes
  <2>1. ReleaseMinutes(Lapsed) => credits' = credits \cup {} /\ minutes' = minutes + 0
    BY <1>m DEF ReleaseMinutes
  <2> QED BY <1>m, <2>1
<1>1. ASSUME NEW s \in Slots, NEW points \in BOOLEAN, NEW discount \in BOOLEAN,
             ReserveSlot(b, s, points, discount)
      PROVE  \E row : Reserves(b, row)
  <2> DEFINE row == [NoBooking EXCEPT !.status = "PENDING_PAYMENT", !.slot = s, !.points = points]
  <2>1. row \in Rows /\ row.status = "PENDING_PAYMENT" /\ row.slot = s /\ row.missions = 0 /\ ~row.minutes
    BY HoldRow
  <2>2. Fresh(b) /\ Insert(b, row) /\ SlotIsFree(s)
    BY <1>1 DEF ReserveSlot, Sellable
  <2> HIDE DEF row
  <2>3. /\ payment' = [payment EXCEPT ![b] = "PENDING"]
        /\ code' = IF discount THEN b ELSE PrizeReleased(Lapsed)
        /\ loyalty' = loyalty \cup PointsReleased(Lapsed)
                              \cup (IF points THEN {<<"REDEEMED", b>>} ELSE {})
        /\ credits' = credits /\ minutes' = minutes
        /\ UNCHANGED <<entitlement, withoutSlot, jobs, envVars>>
    BY <1>1, <1>r DEF ReserveSlot
  <2>4. discount => wallet = "DISCOUNT" /\ PrizeReleased(Lapsed) = None
    BY <1>1 DEF ReserveSlot, TakesDiscount, Claims
  <2>5. /\ payment' \in [Bookings -> PaymentStatuses] /\ payment'[b] = "PENDING"
        /\ \A c \in Bookings : c # b => payment'[c] = payment[c]
    BY <1>0, <2>3 DEF TypeOK, PaymentStatuses
  <2>6. code' = b => wallet \notin {"GIFT", "FREE_SLOT"}
    <3>1. PrizeReleased(Lapsed) # b
      BY <1>0, <2>2, FreshFacts DEF PrizeReleased
    <3> QED BY <2>3, <2>4, <3>1
  <2>7. NewRow(b, row)
    BY <2>1, <2>5, <2>6 DEF NewRow, Held
  <2>8. Adds(b, row)
    <3>1. /\ loyalty \cup PointsReleased(Lapsed) \subseteq loyalty'
          /\ loyalty' \subseteq loyalty \cup PointsReleased(Lapsed) \cup {<<"REDEEMED", b>>}
      BY <2>3
    <3>2. code' = PrizeReleased(Lapsed) \/ (code' = b /\ PrizeReleased(Lapsed) = None)
      BY <2>3, <2>4
    <3>3. UNCHANGED <<withoutSlot, wallet>>
      BY <2>3 DEF envVars
    <3> QED BY <2>1, <2>2, <2>3, <2>5, <2>7, <3>1, <3>2, <3>3 DEF Adds
  <2>9. Reserves(b, row)
    BY <1>m, <1>c, <2>1, <2>3, <2>5, <2>8 DEF Reserves
  <2> QED BY <2>9
<1>2. ASSUME NEW s \in Slots, ReserveWithVoucher(b, s)
      PROVE  \E row : Reserves(b, row)
  <2> DEFINE row == Confirmed(s)
  <2>1. row \in Rows /\ row.status = "CONFIRMED" /\ row.slot = s /\ row.missions = 1 /\ ~row.minutes
        /\ ~row.points
    BY ConfirmedRow
  <2>2. Fresh(b) /\ Insert(b, row) /\ SlotIsFree(s)
    BY <1>2 DEF ReserveWithVoucher, Sellable
  <2> HIDE DEF row
  <2>3. /\ code' = b /\ wallet \in {"GIFT", "FREE_SLOT"} /\ PrizeReleased(Lapsed) = None
        /\ loyalty' = loyalty \cup PointsReleased(Lapsed)
        /\ credits' = credits /\ minutes' = minutes
        /\ UNCHANGED <<payment, entitlement, withoutSlot, jobs, envVars>>
    BY <1>2, <1>r DEF ReserveWithVoucher, VoucherSpend, Claims
  <2>5. payment' \in [Bookings -> PaymentStatuses] /\ payment'[b] = "NONE"
    BY <1>0, <1>p, <2>2, <2>3 DEF TypeOK
  <2>7. NewRow(b, row)
    BY <2>1, <2>5 DEF NewRow, Held
  <2>8. Adds(b, row)
    BY <2>1, <2>2, <2>3, <2>7 DEF Adds, envVars
  <2>9. Reserves(b, row)
    BY <1>m, <1>c, <2>3, <2>5, <2>8 DEF Reserves
  <2> QED BY <2>9
<1>3. ASSUME NEW s \in Slots, ReserveWithMinutes(b, s)
      PROVE  \E row : Reserves(b, row)
  <2> DEFINE row == [Confirmed(s) EXCEPT !.minutes = TRUE]
  <2>1. row \in Rows /\ row.status = "CONFIRMED" /\ row.slot = s /\ row.missions = 1 /\ ~row.points
    BY ConfirmedRow
  <2>2. Fresh(b) /\ Insert(b, row) /\ SlotIsFree(s)
    BY <1>3 DEF ReserveWithMinutes, Sellable
  <2> HIDE DEF row
  <2>3. /\ code' = PrizeReleased(Lapsed)
        /\ loyalty' = loyalty \cup PointsReleased(Lapsed)
        /\ credits' = credits \cup {<<"REFUND", c>> : c \in MinutesReleased(Lapsed)}
                              \cup {<<"MISSION_DEBIT", b>>}
        /\ minutes' = minutes + Cardinality(MinutesReleased(Lapsed)) - 1
        /\ minutes + Cardinality(MinutesReleased(Lapsed)) >= 1
        /\ UNCHANGED <<payment, entitlement, withoutSlot, jobs, envVars>>
    BY <1>3 DEF ReserveWithMinutes, CanSpendMinutes
  <2>4. credits' = credits \cup {<<"MISSION_DEBIT", b>>} /\ minutes' \in Nat
    BY <1>m, <2>3
  <2>5. payment' \in [Bookings -> PaymentStatuses] /\ payment'[b] = "NONE"
    BY <1>0, <1>p, <2>2, <2>3 DEF TypeOK
  <2>6. code' # b
    BY <1>0, <2>2, <2>3, FreshFacts DEF PrizeReleased
  <2>7. NewRow(b, row)
    BY <2>1, <2>4, <2>5, <2>6 DEF NewRow, Held
  <2>8. Adds(b, row)
    <3>1. UNCHANGED <<withoutSlot, wallet, payment>>
      BY <2>3 DEF envVars
    <3>2. credits \subseteq credits' /\ credits' \subseteq credits \cup {<<"MISSION_DEBIT", b>>}
      BY <2>4
    <3>3. /\ loyalty \cup PointsReleased(Lapsed) \subseteq loyalty'
          /\ loyalty' \subseteq loyalty \cup PointsReleased(Lapsed) \cup {<<"REDEEMED", b>>}
      BY <2>3
    <3> QED BY <2>1, <2>2, <2>3, <2>7, <3>1, <3>2, <3>3 DEF Adds
  <2>9. Reserves(b, row)
    BY <1>c, <2>3, <2>4, <2>5, <2>8 DEF Reserves
  <2> QED BY <2>9
<1> QED BY <1>1, <1>2, <1>3 DEF Reservation

\* Every reservation.
LEMMA ReservationSteps ==
  ASSUME IInv, NEW b \in Bookings, Reservation(b)
  PROVE  IInv'
<1>1. PICK row : Reserves(b, row)
  BY ReservationIs
<1>0. TypeOK /\ UNCHANGED <<entitlement, jobs, wallet>>
  BY <1>1 DEF IInv, Reserves, envVars
<1>2. Adds(b, row) /\ Fresh(b) /\ NewRow(b, row)
  BY <1>1 DEF Reserves, Adds
<1>3. \A c \in Bookings : ~Returned(c) => ~Returned(c)'
  BY <1>0 DEF Returned, Refunded
<1>4. ~Returned(b) /\ FromIn(entitlement, b) = None /\ booking[b].status \notin Kept
      /\ \A k \in Kinds : <<k, b>> \notin credits
  BY <1>2, FreshFacts
<1>5. \A c \in Lapsed : ~Returned(c) /\ c \in Bookings /\ booking[c].status \notin Kept
                        /\ FromIn(entitlement, c) = None
  BY LapsedFacts
<1>6. ~Returned(b)' /\ \A c \in Lapsed : ~Returned(c)'
  BY <1>3, <1>4, <1>5
<1>7. /\ booking' \in [Bookings -> Rows] /\ code' \in Bookings \cup {None}
      /\ loyalty' \subseteq {"REDEEMED", "REDEMPTION_RELEASED", "PURCHASE_EARNED",
                             "PURCHASE_REVERSED"} \X Bookings
      /\ InOrder' /\ OneHolderPerSlot'
      /\ \A c \in Bookings \ (Lapsed \cup {b}) : RowSame(c)
      /\ booking'[b] = row /\ RowOK(b)'
      /\ \A c \in Lapsed : RowOK(c)' /\ booking'[c].status = "EXPIRED"
  BY <1>2, <1>6, AddedRows
<1>8. TypeOK'
  BY <1>0, <1>1, <1>2, <1>7 DEF TypeOK, Reserves, Adds, envVars
<1>9. Live(b)' => Backs(b)'
  <2>1. <<"REFUND", b>> \notin credits'
    <3>1. credits' \subseteq credits \cup {<<"MISSION_DEBIT", b>>}
      BY <1>2 DEF Adds
    <3> QED BY <1>4, <3>1 DEF Kinds
  <2> QED BY <1>0, <1>1, <1>7, <2>1 DEF Live, Backs, Reserves
<1> DEFINE D == Lapsed \cup {b}
<1>a. /\ D \subseteq Bookings /\ \A c \in Bookings \ D : RowSame(c)
      /\ \A c \in D : booking[c].status \notin Kept /\ FromIn(entitlement, c) = None
  BY <1>4, <1>5, <1>7
<1>b. \A c \in D : /\ RowOK(c)' /\ (Live(c)' => Backs(c)')
                   /\ booking'[c].status # "REFUNDED"
                   /\ booking'[c].status \in Held => booking'[c].slot \in Slots
  <2>1. \A c \in Lapsed : ~Live(c)' /\ booking'[c].status \notin Held
    BY <1>7 DEF Live, Held
  <2>2. booking'[b].status \in Held /\ booking'[b].slot \in Slots
    BY <1>2, <1>7 DEF NewRow
  <2> QED BY <1>7, <1>9, <2>1, <2>2 DEF Held
<1> HIDE DEF D
<1> QED BY <1>0, <1>7, <1>8, <1>a, <1>b, RowsChange

-----------------------------------------------------------------------------
(* Lost slots *)

\* What is left of the bag when j is done.
LEMMA JobDone ==
  ASSUME TypeOK, NEW j, Finish(j)
  PROVE  IsABag(jobs') /\ BagToSet(jobs') \subseteq BagToSet(jobs) /\ BagToSet(jobs') \subseteq Jobs
<1>1. IsABag(jobs) /\ BagToSet(jobs) \subseteq Jobs /\ jobs' = jobs (-) SetToBag({j})
  BY DEF TypeOK, Finish
<1>2. IsABag(jobs') /\ BagToSet(jobs') \subseteq BagToSet(jobs)
  BY ONLY <1>1, BagTake
<1> QED BY <1>1, <1>2

\* A judgement opens an entitlement, or closes it, for a booking that is still live.
LEMMA JudgeStep ==
  ASSUME IInv, NEW j \in BagToSet(jobs), JudgeWrite(j)
  PROVE  IInv'
<1>0. /\ TypeOK /\ Chained(entitlement) /\ FreeRows /\ Judged /\ Spent /\ Moved /\ JobsKnow
      /\ OneHolderPerSlot /\ Captures /\ OneClaim /\ Backed /\ GivenBack
  BY DEF IInv
<1>1. /\ UNCHANGED <<booking, payment, code, loyalty, credits, minutes, withoutSlot, envVars>>
      /\ UNCHANGED wallet
      /\ IsABag(jobs') /\ BagToSet(jobs') \subseteq BagToSet(jobs) /\ BagToSet(jobs') \subseteq Jobs
  BY <1>0, JobDone DEF JudgeWrite, envVars
<1>2. CASE entitlement[j.on].outcome # "UNJUDGED"
  <2>1. entitlement' = entitlement
    BY <1>2 DEF JudgeWrite
  <2>2. TypeOK'
    BY <1>0, <1>1, <2>1 DEF TypeOK, envVars
  <2>3. JobsKnow'
    BY <1>0, <1>1, <2>1 DEF JobsKnow, Tender
  <2> QED BY <1>1, <2>1, <2>2, <2>3, Unseen
<1>3. CASE entitlement[j.on].outcome = "UNJUDGED"
  <2> DEFINE o == IF j.entitled THEN "OPEN" ELSE "NONE"
  <2>1. j.on \in Bookings /\ booking[j.on].status = "CONFIRMED"
    BY <1>0, <1>3 DEF TypeOK, Jobs, JobsKnow, Kept, Judged
  <2>2. entitlement' = [entitlement EXCEPT ![j.on].outcome = o]
    BY <1>3 DEF JudgeWrite
  <2>3. o \in {"OPEN", "NONE"}
    OBVIOUS
  <2> HIDE DEF o
  <2>4. /\ entitlement' \in [Bookings -> [outcome : Outcomes, expired : BOOLEAN, to : Bookings \cup {None}]]
        /\ entitlement'[j.on].outcome = o
        /\ \A b \in Bookings : entitlement'[b].to = entitlement[b].to
        /\ \A b \in Bookings : b # j.on => entitlement'[b].outcome = entitlement[b].outcome
    BY <1>0, <2>1, <2>2, <2>3 DEF TypeOK, Outcomes
  <2>5. TypeOK'
    BY <1>0, <1>1, <2>4 DEF TypeOK, envVars
  <2>6. /\ Chained(entitlement')
        /\ \A b \in Bookings : /\ FromIn(entitlement', b) = FromIn(entitlement, b)
                               /\ OriginIn(entitlement', b) = OriginIn(entitlement, b)
    BY <1>0, <2>4, OriginSame
  <2>7. \A b \in Bookings : (Refunded(b)' <=> Refunded(b)) /\ (Live(b)' <=> Live(b))
    BY <1>1, <1>3, <2>1, <2>3, <2>4 DEF Refunded, Live
  <2>8. \A b \in Bookings : Returned(b)' <=> Returned(b)
    BY <2>6, <2>7 DEF Returned
  <2>9. \A b \in Bookings : RowOK(b)'
    <3>1. \A b \in Bookings : RowOK(b) /\ RowSame(b)
      BY <1>0, <1>1 DEF RowOK, RowSame, FreeRows, Spent, Captures, GivenBack
    <3> QED BY <1>1, <2>4, <2>8, <3>1, RowStays
  <2>a. FreeRows' /\ Spent' /\ Captures' /\ GivenBack'
    BY <1>0, <1>1, <2>9 DEF RowOK, FreeRows, InOrder, Spent, Captures, GivenBack
  <2>b. Judged'
    BY <1>0, <1>1, <1>3, <2>1, <2>3, <2>4 DEF Judged, Kept
  <2>c. Moved' /\ OneHolderPerSlot'
    BY <1>0, <1>1, <2>6 DEF Moved, OneHolderPerSlot
  <2>d. OneClaim' /\ Backed'
    BY <1>0, <1>1, <2>6, <2>7 DEF OneClaim, Claimed, Backed, Backs
  <2>e. JobsKnow'
    <3>1. \A k \in BagToSet(jobs) : k.on \in Bookings
      BY <1>0 DEF TypeOK, Jobs
    <3>2. \A k \in BagToSet(jobs) : k.op = "refund" => k.on # j.on
      BY <1>0, <1>3 DEF JobsKnow
    <3>3. \A b : Tender(b)' = Tender(b)
      BY <1>1 DEF Tender
    <3> QED BY <1>0, <1>1, <2>4, <2>6, <3>1, <3>2, <3>3 DEF JobsKnow
  <2> QED BY <2>5, <2>6, <2>a, <2>b, <2>c, <2>d, <2>e DEF IInv
<1> QED BY <1>2, <1>3

\* A refund gives the origin's tender back, for the one booking of the chain
\* that is still live.
LEMMA RefundStep ==
  ASSUME IInv, NEW j \in BagToSet(jobs), RefundWrite(j)
  PROVE  IInv'
<1> DEFINE a == j.on
           p == j.paid
<1>0. /\ TypeOK /\ Chained(entitlement) /\ FreeRows /\ Judged /\ Spent /\ Moved /\ JobsKnow
      /\ OneHolderPerSlot /\ Captures /\ OneClaim /\ Backed /\ GivenBack
  BY DEF IInv
<1>n. None \notin Bookings
  BY BookingsAssumption
<1>1. /\ j.op = "refund" /\ a \in Bookings /\ entitlement[a].outcome = "OPEN"
      /\ booking[a].status = "CONFIRMED" /\ entitlement[a].to = None
  BY <1>0 DEF TypeOK, Jobs, RefundWrite, StillOpen, Judged, Kept
<1>2. /\ p = OriginIn(entitlement, a) /\ j.by = Tender(p)
      /\ j.by = "PAYMENT" => payment[p] = "CAPTURED"
  BY <1>0, <1>1 DEF JobsKnow
<1>3. p \in Bookings /\ booking[p].status \in Kept /\ FromIn(entitlement, p) = None
  BY <1>0, <1>1, <1>2, OriginIsKept, OriginFacts DEF Kept
<1>4. /\ entitlement' = [entitlement EXCEPT ![a].outcome = "REFUNDED", ![a].expired = FALSE]
      /\ booking' = [booking EXCEPT ![a].status = "REFUNDED"]
      /\ payment' = IF j.by = "PAYMENT" THEN [payment EXCEPT ![p] = "REFUNDED"] ELSE payment
      /\ code' = CodeRestored(j)
      /\ loyalty' = loyalty \cup PointsReleased({p})
                            \cup {<<"PURCHASE_REVERSED", e[2]>> :
                                    e \in loyalty \cap {<<"PURCHASE_EARNED", p>>}}
      /\ ReturnMinutes(j) /\ Finish(j)
      /\ UNCHANGED withoutSlot /\ UNCHANGED envVars /\ UNCHANGED wallet
  BY DEF RefundWrite, envVars
<1>5. IsABag(jobs') /\ BagToSet(jobs') \subseteq BagToSet(jobs) /\ BagToSet(jobs') \subseteq Jobs
  BY <1>0, <1>4, JobDone
<1> HIDE DEF a, p
<1>6. /\ entitlement' \in [Bookings -> [outcome : Outcomes, expired : BOOLEAN, to : Bookings \cup {None}]]
      /\ entitlement'[a].outcome = "REFUNDED"
      /\ \A b \in Bookings : entitlement'[b].to = entitlement[b].to
      /\ \A b \in Bookings : b # a => entitlement'[b].outcome = entitlement[b].outcome
  BY <1>0, <1>1, <1>4 DEF TypeOK, Outcomes
<1>7. /\ booking' \in [Bookings -> Rows] /\ booking'[a].status = "REFUNDED"
      /\ \A b \in Bookings : b # a => booking'[b].status = booking[b].status
      /\ \A b \in Bookings : /\ booking'[b].slot = booking[b].slot
                             /\ booking'[b].points = booking[b].points
                             /\ booking'[b].minutes = booking[b].minutes
                             /\ booking'[b].missions = booking[b].missions
  BY <1>0, <1>1, <1>4 DEF TypeOK, Rows, Statuses
<1>8. /\ payment' \in [Bookings -> PaymentStatuses]
      /\ \A b \in Bookings : b # p => payment'[b] = payment[b]
      /\ \/ payment[p] = "CAPTURED" /\ payment'[p] = "REFUNDED"
         \/ payment'[p] = payment[p] /\ payment[p] = "NONE"
  <2>1. ASSUME payment[p] # "NONE" PROVE j.by = "PAYMENT"
    BY <1>0, <1>2, <1>3, <2>1 DEF Tender, Spent, SpentOn
  <2>2. ASSUME j.by = "PAYMENT" PROVE payment[p] # "NONE"
    BY <1>2, <2>2
  <2>3. payment' \in [Bookings -> PaymentStatuses]
    BY <1>0, <1>4 DEF TypeOK, PaymentStatuses
  <2> QED BY <1>0, <1>2, <1>3, <1>4, <2>1, <2>2, <2>3 DEF TypeOK
<1>9. code' # p /\ (code' = code \/ (code = p /\ code' = None))
  <2>1. code = p /\ wallet = "GIFT" => j.by = "VOUCHER"
    BY <1>0, <1>2, <1>3 DEF Spent, SpentOn, Tender
  <2>2. j.by = "VOUCHER" => code = p
    BY <1>2 DEF Tender
  <2>3. code' = IF j.by = "VOUCHER" THEN None ELSE PrizeReleased({p})
    BY <1>4 DEF CodeRestored, p
  <2> QED BY <1>3, <1>n, <2>1, <2>2, <2>3 DEF PrizeReleased
<1>a. /\ loyalty \subseteq loyalty'
      /\ loyalty' \subseteq loyalty \cup {<<"REDEMPTION_RELEASED", p>>, <<"PURCHASE_REVERSED", p>>}
      /\ booking[p].points => <<"REDEMPTION_RELEASED", p>> \in loyalty'
      /\ <<"PURCHASE_EARNED", p>> \in loyalty => <<"PURCHASE_REVERSED", p>> \in loyalty'
      /\ <<"PURCHASE_REVERSED", p>> \in loyalty' =>
           <<"PURCHASE_REVERSED", p>> \in loyalty \/ <<"PURCHASE_EARNED", p>> \in loyalty
  <2>1. PointsReleased({p}) = IF booking[p].points THEN {<<"REDEMPTION_RELEASED", p>>} ELSE {}
    BY DEF PointsReleased
  <2>2. {<<"PURCHASE_REVERSED", e[2]>> : e \in loyalty \cap {<<"PURCHASE_EARNED", p>>}}
          = IF <<"PURCHASE_EARNED", p>> \in loyalty THEN {<<"PURCHASE_REVERSED", p>>} ELSE {}
    OBVIOUS
  <2> DEFINE A == PointsReleased({p})
             B == {<<"PURCHASE_REVERSED", e[2]>> : e \in loyalty \cap {<<"PURCHASE_EARNED", p>>}}
  <2>3. loyalty' = loyalty \cup A \cup B
    BY <1>4
  <2>4. /\ A = IF booking[p].points THEN {<<"REDEMPTION_RELEASED", p>>} ELSE {}
        /\ B = IF <<"PURCHASE_EARNED", p>> \in loyalty THEN {<<"PURCHASE_REVERSED", p>>} ELSE {}
    BY <2>1, <2>2
  <2> HIDE DEF A, B
  <2> QED BY <2>3, <2>4
<1>b. /\ \A b \in Bookings, k \in Kinds : b # p =>
           (<<k, b>> \in loyalty' <=> <<k, b>> \in loyalty)
      /\ <<"PURCHASE_EARNED", p>> \in loyalty' <=> <<"PURCHASE_EARNED", p>> \in loyalty
  BY <1>a
<1>c. /\ credits \subseteq credits' /\ credits' \subseteq credits \cup {<<"REFUND", p>>}
      /\ minutes' \in Nat
  <2>1. /\ credits' = credits \cup {<<"REFUND", b>> : b \in MinutesReleased({p})}
        /\ minutes' = minutes + Cardinality(MinutesReleased({p}))
    BY <1>4 DEF ReturnMinutes, ReleaseMinutes, p
  <2>2. MinutesReleased({p}) \subseteq {p}
    BY DEF MinutesReleased
  <2>3. Cardinality(MinutesReleased({p})) \in Nat /\ minutes \in Nat
    <3>1. MinutesReleased({p}) \subseteq Bookings
      BY <1>3, <2>2
    <3> QED BY <1>0, <3>1, SizeOfSome DEF TypeOK
  <2>4. minutes' \in Nat
    BY <2>1, <2>3
  <2> QED BY <2>1, <2>2, <2>4
<1>d. \A b \in Bookings, k \in Kinds : b # p => (<<k, b>> \in credits' <=> <<k, b>> \in credits)
  BY <1>c
<1>e. TypeOK'
  <2>1. loyalty' \subseteq {"REDEEMED", "REDEMPTION_RELEASED", "PURCHASE_EARNED", "PURCHASE_REVERSED"} \X Bookings
    BY <1>0, <1>3, <1>a DEF TypeOK
  <2>2. credits' \subseteq {"MISSION_DEBIT", "REFUND"} \X Bookings
    BY <1>0, <1>3, <1>c DEF TypeOK
  <2>3. code' \in Bookings \cup {None}
    BY <1>0, <1>9 DEF TypeOK
  <2> QED BY <1>0, <1>4, <1>5, <1>6, <1>7, <1>8, <1>c, <2>1, <2>2, <2>3 DEF TypeOK, envVars
<1>f. /\ Chained(entitlement')
      /\ \A b \in Bookings : /\ FromIn(entitlement', b) = FromIn(entitlement, b)
                             /\ OriginIn(entitlement', b) = OriginIn(entitlement, b)
  BY <1>0, <1>6, OriginSame
<1>g. /\ Refunded(a)' /\ ~Refunded(a) /\ ~Live(a)' /\ Live(a)
      /\ \A b \in Bookings : b # a => (Refunded(b)' <=> Refunded(b)) /\ (Live(b)' <=> Live(b))
  BY <1>1, <1>6, <1>7 DEF Refunded, Live
<1>h. Returned(p)' /\ \A b \in Bookings : b # p => (Returned(b)' <=> Returned(b))
  <2>1. Returned(p)'
    BY <1>1, <1>2, <1>f, <1>g DEF Returned
  <2>2. ASSUME NEW b \in Bookings, b # p PROVE Returned(b)' <=> Returned(b)
    <3>1. \A c \in Bookings : (Refunded(c)' /\ OriginIn(entitlement', c) = b)
                              <=> (Refunded(c) /\ OriginIn(entitlement, c) = b)
      BY <1>2, <1>f, <1>g, <2>2
    <3> QED BY <3>1 DEF Returned
  <2> QED BY <2>1, <2>2
<1>i. \A b \in Bookings : RowOK(b)
  BY <1>0 DEF RowOK, FreeRows, Spent, Captures, GivenBack
<1>j. ASSUME NEW b \in Bookings, b # p
      PROVE  /\ payment'[b] = payment[b] /\ (code' = b <=> code = b)
             /\ (b \in withoutSlot' <=> b \in withoutSlot)
             /\ \A k \in Kinds : <<k, b>> \in loyalty' <=> <<k, b>> \in loyalty
             /\ \A k \in Kinds : <<k, b>> \in credits' <=> <<k, b>> \in credits
  BY <1>4, <1>8, <1>9, <1>b, <1>d, <1>n, <1>j
<1>k. \A b \in Bookings : RowOK(b)'
  <2> TAKE b \in Bookings
  <2>1. CASE b # p /\ b # a
    <3>1. RowSame(b)
      BY <1>7, <1>j, <2>1 DEF RowSame
    <3> QED BY <1>4, <1>6, <1>h, <1>i, <2>1, <3>1, RowStays
  <2>2. CASE b # p /\ b = a
    <3>1. RowOK(a) /\ (Returned(a)' <=> Returned(a))
      BY <1>1, <1>h, <1>i, <2>2
    <3>2. Over(a)' <=> Over(a)
      BY <1>1, <1>7, <3>1 DEF Over, Dropped
    <3>3. FreeRow(a)'
      BY <1>7 DEF FreeRow
    <3>4. SpentOn(a)'
      BY <1>1, <1>4, <1>7, <1>j, <2>2, <3>1 DEF RowOK, SpentOn, Kept, Dropped, Kinds
    <3>5. CaptureFor(a)'
      BY <1>1, <1>7, <1>j, <2>2, <3>1 DEF RowOK, CaptureFor, Kept, Kinds
    <3>6. GivenBackFor(a)'
      BY <1>1, <1>7, <1>j, <2>2, <3>1, <3>2 DEF RowOK, GivenBackFor, Kinds
    <3> QED BY <2>2, <3>3, <3>4, <3>5, <3>6 DEF RowOK
  <2>3. CASE b = p
    <3>1. RowOK(p) /\ Over(p)' /\ Returned(p)'
      BY <1>3, <1>h, <1>i DEF Over
    <3>2. booking'[p].status \in Kept
      BY <1>3, <1>7 DEF Kept
    <3>3. FreeRow(p)'
      BY <3>2 DEF FreeRow, Kept
    <3>4. SpentOn(p)'
      <4>1. <<"MISSION_DEBIT", p>> \in credits => <<"MISSION_DEBIT", p>> \in credits'
        BY <1>c
      <4>2. <<"PURCHASE_EARNED", p>> \in loyalty => payment[p] \in {"CAPTURED", "REFUNDED"}
        BY <3>1 DEF RowOK, SpentOn
      <4>3. <<"PURCHASE_REVERSED", p>> \in loyalty' => <<"PURCHASE_EARNED", p>> \in loyalty'
        BY <1>a, <3>1 DEF RowOK, SpentOn
      <4> QED BY <1>3, <1>7, <1>8, <1>9, <1>b, <3>1, <3>2, <4>1, <4>2, <4>3 DEF RowOK, SpentOn, Kept
    <3>5. CaptureFor(p)'
      <4>1. payment'[p] = "NONE" \/ (payment'[p] = "REFUNDED" /\ payment[p] = "CAPTURED")
        BY <1>8
      <4>2. payment[p] = "CAPTURED" => booking[p].missions = 1 /\ p \notin withoutSlot
        BY <1>3, <3>1 DEF RowOK, CaptureFor, Kept
      <4> QED BY <1>3, <1>4, <1>7, <3>2, <4>1, <4>2 DEF CaptureFor
    <3>6. GivenBackFor(p)'
      BY <1>3, <1>7, <1>9, <1>a, <1>b, <3>1 DEF GivenBackFor
    <3> QED BY <2>3, <3>3, <3>4, <3>5, <3>6 DEF RowOK
  <2> QED BY <2>1, <2>2, <2>3
<1>l. FreeRows' /\ Spent' /\ Captures' /\ GivenBack'
  <2>1. InOrder'
    BY <1>0, <1>1, <1>7 DEF FreeRows, InOrder
  <2> QED BY <1>k, <2>1 DEF RowOK, FreeRows, Spent, Captures, GivenBack
<1>o. Judged'
  <2> SUFFICES ASSUME NEW b \in Bookings
               PROVE  /\ entitlement'[b].outcome # "UNJUDGED" => booking'[b].status \in Kept
                      /\ entitlement'[b].outcome = "REFUNDED" <=> booking'[b].status = "REFUNDED"
                      /\ entitlement'[b].to # None <=> entitlement'[b].outcome = "RESCHEDULED"
                      /\ booking'[b].status \in Held => booking'[b].slot \in Slots
    BY DEF Judged
  <2>1. CASE b = a
    BY <1>1, <1>6, <1>7, <2>1 DEF Kept, Held
  <2>2. CASE b # a
    BY <1>0, <1>6, <1>7, <2>2 DEF Judged
  <2> QED BY <2>1, <2>2
<1>p. Moved'
  <2> SUFFICES ASSUME NEW b \in Bookings, FromIn(entitlement, b) # None
               PROVE  payment'[b] = "NONE" /\ code' # b /\ ~booking'[b].minutes
    BY <1>f DEF Moved
  <2>1. b # p /\ payment[b] = "NONE" /\ code # b /\ ~booking[b].minutes
    BY <1>0, <1>3 DEF Moved
  <2> QED BY <1>7, <1>j, <2>1
<1>q. OneHolderPerSlot'
  BY <1>0, <1>1, <1>7 DEF OneHolderPerSlot, Held
<1>r. \A b \in Bookings : Claimed(b)' <=> Claimed(b)
  BY <1>g DEF Claimed
<1>s. OneClaim'
  BY <1>0, <1>f, <1>r DEF OneClaim
<1>t. \A b \in Bookings : Live(b) /\ b # a => OriginIn(entitlement, b) # p
  BY <1>0, <1>1, <1>2, <1>g DEF OneClaim, Claimed
<1>u. Backed'
  <2>1. ASSUME NEW q \in Bookings, q # p, Backs(q) PROVE Backs(q)'
    <3>1. /\ payment'[q] = payment[q] /\ (code' = q <=> code = q) /\ wallet' = wallet
          /\ (<<"MISSION_DEBIT", q>> \in credits' <=> <<"MISSION_DEBIT", q>> \in credits)
          /\ (<<"REFUND", q>> \in credits' <=> <<"REFUND", q>> \in credits)
      BY <1>4, <1>j, <2>1 DEF Kinds
    <3> QED BY <2>1, <3>1 DEF Backs
  <2>2. ASSUME NEW b \in Bookings, Live(b)'
        PROVE  \E q \in Bookings : q = OriginIn(entitlement', b) /\ Backs(q)'
    <3>1. Live(b) /\ b # a
      BY <1>g, <2>2
    <3>2. PICK q \in Bookings : q = OriginIn(entitlement, b) /\ q # p /\ Backs(q)
      BY <1>0, <1>t, <3>1, OriginFacts DEF Backed
    <3> QED BY <1>f, <2>1, <3>2
  <2> QED BY <2>2 DEF Backed
<1>v. JobsKnow'
  <2> SUFFICES ASSUME NEW k \in BagToSet(jobs')
               PROVE  /\ booking'[k.on].status \in Kept
                      /\ k.op = "refund" => entitlement'[k.on].outcome # "UNJUDGED"
                      /\ k.op = "refund" /\ entitlement'[k.on].outcome = "OPEN" =>
                           /\ k.paid = OriginIn(entitlement', k.on)
                           /\ k.by = Tender(k.paid)'
                           /\ k.by = "PAYMENT" => payment'[k.paid] = "CAPTURED"
    BY DEF JobsKnow
  <2>1. k \in BagToSet(jobs) /\ k.on \in Bookings /\ booking[k.on].status \in Kept
    BY <1>0, <1>5 DEF TypeOK, Jobs, JobsKnow
  <2>2. booking'[k.on].status \in Kept /\ (k.op = "refund" => entitlement'[k.on].outcome # "UNJUDGED")
    BY <1>0, <1>6, <1>7, <2>1 DEF Kept, JobsKnow
  <2>3. ASSUME k.op = "refund", entitlement'[k.on].outcome = "OPEN"
        PROVE  /\ k.paid = OriginIn(entitlement', k.on)
               /\ k.by = Tender(k.paid)'
               /\ k.by = "PAYMENT" => payment'[k.paid] = "CAPTURED"
    <3>1. k.on # a /\ entitlement[k.on].outcome = "OPEN"
      BY <1>6, <2>1, <2>3
    <3>2. /\ k.paid = OriginIn(entitlement, k.on) /\ k.by = Tender(k.paid)
          /\ k.by = "PAYMENT" => payment[k.paid] = "CAPTURED"
      BY <1>0, <2>1, <2>3, <3>1 DEF JobsKnow
    <3>3. Live(k.on)
      BY <1>0, <2>1, <3>1 DEF Live, Judged, Kept
    <3>4. k.paid \in Bookings /\ k.paid # p
      BY <1>0, <1>t, <2>1, <3>1, <3>2, <3>3, OriginFacts
    <3>5. Tender(k.paid)' = Tender(k.paid)
      BY <1>4, <1>7, <1>j, <3>4 DEF Tender
    <3> QED BY <1>f, <1>j, <2>1, <3>2, <3>4, <3>5
  <2> QED BY <2>2, <2>3
<1> QED BY <1>e, <1>f, <1>l, <1>o, <1>p, <1>q, <1>s, <1>u, <1>v DEF IInv

\* A reschedule hands the chain's one claim on to the new booking.
LEMMA RescheduleStep ==
  ASSUME IInv, NEW j \in BagToSet(jobs), NEW n \in Bookings, RescheduleWrite(j, n)
  PROVE  IInv'
<1> DEFINE a == j.on
           row == Confirmed(j.slot)
<1>0. /\ TypeOK /\ Chained(entitlement) /\ FreeRows /\ Judged /\ Spent /\ Moved /\ JobsKnow
      /\ OneHolderPerSlot /\ Captures /\ OneClaim /\ Backed /\ GivenBack
  BY DEF IInv
<1>n. None \notin Bookings
  BY BookingsAssumption
<1>1. /\ a \in Bookings /\ j.slot \in Slots /\ entitlement[a].outcome = "OPEN"
      /\ booking[a].status = "CONFIRMED" /\ entitlement[a].to = None
  BY <1>0 DEF TypeOK, Jobs, RescheduleWrite, StillOpen, Judged, Kept
<1>2. /\ Fresh(n) /\ SlotIsFree(j.slot) /\ Insert(n, row)
      /\ entitlement' = [entitlement EXCEPT ![a] = [outcome |-> "RESCHEDULED", expired |-> FALSE, to |-> n]]
      /\ code' = PrizeReleased(Lapsed)
      /\ loyalty' = loyalty \cup PointsReleased(Lapsed)
      /\ ReleaseMinutes(Lapsed) /\ Finish(j)
      /\ UNCHANGED <<payment, withoutSlot, wallet>> /\ UNCHANGED envVars
  BY DEF RescheduleWrite, envVars
<1>3. IsABag(jobs') /\ BagToSet(jobs') \subseteq BagToSet(jobs) /\ BagToSet(jobs') \subseteq Jobs
  BY <1>0, <1>2, JobDone
<1>4. row \in Rows /\ row.status = "CONFIRMED" /\ row.slot = j.slot /\ row.missions = 1
      /\ ~row.minutes /\ ~row.points
  BY <1>1, ConfirmedRow
<1> HIDE DEF a, row
<1>5. credits' = credits /\ minutes' = minutes
  <2>1. credits' = credits \cup {} /\ minutes' = minutes + 0
    BY <1>2, NothingOnHolds DEF ReleaseMinutes
  <2> QED BY <1>0, <2>1 DEF TypeOK
<1>6. /\ booking[n].status = "FREE" /\ n \notin Lapsed /\ payment[n] = "NONE" /\ code # n
      /\ ~Returned(n) /\ entitlement[n].to = None /\ entitlement[n].outcome = "UNJUDGED"
      /\ \A c \in Bookings : entitlement[c].to # n
  BY <1>2, FreshFacts
<1>7. a # n /\ a < n /\ a \notin Lapsed
  <2>1. a # n /\ a \notin Lapsed
    BY <1>1, <1>6 DEF Lapsed
  <2>2. ~(n < a)
    BY <1>0, <1>1, <1>6 DEF FreeRows, InOrder
  <2> QED BY <1>1, <2>1, <2>2 DEF Bookings
<1>8. /\ entitlement' \in [Bookings -> [outcome : Outcomes, expired : BOOLEAN, to : Bookings \cup {None}]]
      /\ entitlement'[a].outcome = "RESCHEDULED" /\ entitlement'[a].to = n
      /\ \A b \in Bookings : b # a => entitlement'[b] = entitlement[b]
  BY <1>0, <1>1, <1>2 DEF TypeOK, Outcomes
<1>9. /\ Chained(entitlement') /\ FromIn(entitlement', n) = a
      /\ OriginIn(entitlement', n) = OriginIn(entitlement, a)
      /\ \A b \in Bookings : b # n => /\ FromIn(entitlement', b) = FromIn(entitlement, b)
                                      /\ OriginIn(entitlement', b) = OriginIn(entitlement, b)
  <2>1. \A c \in Bookings : c # a => entitlement'[c].to = entitlement[c].to
    BY <1>8
  <2> QED BY <1>0, <1>1, <1>6, <1>7, <1>8, <2>1, OriginExtends
<1>a. \A b \in Bookings : (Refunded(b)' <=> Refunded(b)) /\ (Returned(b)' <=> Returned(b))
  <2>1. \A b \in Bookings : Refunded(b)' <=> Refunded(b)
    BY <1>1, <1>8 DEF Refunded
  <2>2. ~Refunded(n)
    BY <1>6 DEF Refunded
  <2> QED BY <1>9, <2>1, <2>2 DEF Returned
<1>b. Adds(n, row)
  <2>1. code' # n
    BY <1>2, <1>6, <1>n DEF PrizeReleased
  <2>2. NewRow(n, row)
    BY <1>1, <1>2, <1>4, <1>6 DEF NewRow, Held
  <2>3. /\ loyalty \cup PointsReleased(Lapsed) \subseteq loyalty'
        /\ loyalty' \subseteq loyalty \cup PointsReleased(Lapsed) \cup {<<"REDEEMED", n>>}
    BY <1>2
  <2> QED BY <1>2, <1>4, <1>5, <2>2, <2>3 DEF Adds
<1>c. \A c \in Lapsed : c \in Bookings /\ ~Returned(c) /\ booking[c].status \notin Kept
                        /\ ~Claimed(c) /\ entitlement[c].outcome = "UNJUDGED" /\ entitlement[c].to = None
                        /\ FromIn(entitlement, c) = None
  BY <1>0, LapsedFacts, NotReturned DEF Judged
<1>d. /\ booking' \in [Bookings -> Rows] /\ code' \in Bookings \cup {None}
      /\ loyalty' \subseteq {"REDEEMED", "REDEMPTION_RELEASED", "PURCHASE_EARNED",
                             "PURCHASE_REVERSED"} \X Bookings
      /\ InOrder' /\ OneHolderPerSlot'
      /\ \A c \in Bookings \ (Lapsed \cup {n}) : RowSame(c)
      /\ booking'[n] = row /\ RowOK(n)'
      /\ \A c \in Lapsed : RowOK(c)' /\ booking'[c].status = "EXPIRED"
  <2>1. ~Returned(n)' /\ \A c \in Lapsed : ~Returned(c)'
    BY <1>6, <1>a, <1>c
  <2> QED BY <1>b, <2>1, AddedRows
<1>e. TypeOK'
  BY <1>0, <1>2, <1>3, <1>5, <1>8, <1>d DEF TypeOK, envVars
<1> DEFINE Rest == Bookings \ (Lapsed \cup {n})
<1>f. \A b \in Rest : RowSame(b) /\ RowOK(b)' /\ Tender(b)' = Tender(b) /\ (Backs(b)' <=> Backs(b))
  <2> TAKE b \in Rest
  <2>1. RowSame(b) /\ RowOK(b)
    BY <1>0, <1>d DEF RowOK, FreeRows, Spent, Captures, GivenBack
  <2>2. \A c \in Bookings : entitlement'[c].to = b => entitlement[c].to = b
    BY <1>8
  <2> QED BY <1>2, <1>a, <2>1, <2>2, RowStays
<1>g. FreeRows' /\ Spent' /\ Captures' /\ GivenBack'
  <2>1. \A b \in Bookings : RowOK(b)'
    BY <1>d, <1>f
  <2> QED BY <1>d, <2>1 DEF RowOK, FreeRows, Spent, Captures, GivenBack
<1>h. Judged'
  <2> SUFFICES ASSUME NEW b \in Bookings
               PROVE  /\ entitlement'[b].outcome # "UNJUDGED" => booking'[b].status \in Kept
                      /\ entitlement'[b].outcome = "REFUNDED" <=> booking'[b].status = "REFUNDED"
                      /\ entitlement'[b].to # None <=> entitlement'[b].outcome = "RESCHEDULED"
                      /\ booking'[b].status \in Held => booking'[b].slot \in Slots
    BY DEF Judged
  <2>1. CASE b = a
    <3>1. booking'[a].status = "CONFIRMED" /\ booking'[a].slot = booking[a].slot
      BY <1>1, <1>7, <1>d DEF RowSame
    <3> QED BY <1>0, <1>1, <1>8, <1>n, <2>1, <3>1 DEF Kept, Held, Judged
  <2>2. CASE b = n
    BY <1>1, <1>4, <1>6, <1>7, <1>8, <1>d, <2>2
  <2>3. CASE b \in Lapsed
    BY <1>7, <1>8, <1>c, <1>d, <2>3 DEF Held
  <2>4. CASE b \in Rest /\ b # a
    BY <1>0, <1>8, <1>f, <2>4 DEF Judged, RowSame
  <2> QED BY <2>1, <2>2, <2>3, <2>4
<1>i. Moved'
  <2> SUFFICES ASSUME NEW b \in Bookings, FromIn(entitlement', b) # None
               PROVE  payment'[b] = "NONE" /\ code' # b /\ ~booking'[b].minutes
    BY DEF Moved
  <2>1. CASE b = n
    BY <1>2, <1>4, <1>6, <1>d, <1>n, <2>1 DEF PrizeReleased
  <2>2. CASE b # n
    <3>1. b \in Rest
      BY <1>9, <1>c, <2>2
    <3> QED BY <1>0, <1>9, <1>f, <2>2, <3>1 DEF Moved, RowSame
  <2> QED BY <2>1, <2>2
<1>j. /\ ~Claimed(a)' /\ Claimed(a) /\ Live(a)
      /\ \A b \in Bookings : b \notin {a, n} => (Claimed(b)' => Claimed(b)) /\ (Live(b)' => Live(b) /\ b \in Rest)
  <2>1. ~Claimed(a)' /\ Claimed(a) /\ Live(a)
    BY <1>1, <1>8 DEF Claimed, Live, Refunded
  <2>2. \A b \in Rest : b # a => (Live(b)' <=> Live(b))
    BY <1>8, <1>f DEF Live, RowSame
  <2>3. \A b \in Lapsed : ~Live(b)'
    BY <1>d DEF Live
  <2> QED BY <1>a, <2>1, <2>2, <2>3 DEF Claimed
<1>k. \A b \in Bookings : b \notin {a, n} /\ Claimed(b)' =>
         OriginIn(entitlement', b) # OriginIn(entitlement', n)
  BY <1>0, <1>1, <1>9, <1>j DEF OneClaim
<1>l. OneClaim'
  <2> SUFFICES ASSUME NEW b \in Bookings, NEW c \in Bookings, b # c, Claimed(b)', Claimed(c)'
               PROVE  OriginIn(entitlement', b) # OriginIn(entitlement', c)
    BY DEF OneClaim
  <2>1. b # a /\ c # a
    BY <1>j
  <2>2. CASE b # n /\ c # n
    BY <1>0, <1>9, <1>j, <2>1, <2>2 DEF OneClaim
  <2>3. CASE b = n
    BY <1>k, <2>1, <2>3
  <2>4. CASE c = n
    BY <1>k, <2>1, <2>4
  <2> QED BY <2>2, <2>3, <2>4
<1>o. \A b \in Bookings : booking[b].status \in Kept => OriginIn(entitlement, b) \in Rest
  <2> TAKE b \in Bookings
  <2> HAVE booking[b].status \in Kept
  <2>1. OriginIn(entitlement, b) \in Bookings /\ booking[OriginIn(entitlement, b)].status \in Kept
    BY OriginIsKept
  <2> QED BY <1>6, <1>c, <2>1 DEF Kept
<1> HIDE DEF Rest
<1>p. Backed'
  <2>1. \A b \in Bookings : Live(b) => \E q \in Rest : q = OriginIn(entitlement, b) /\ Backs(q)'
    <3> TAKE b \in Bookings
    <3> HAVE Live(b)
    <3>1. booking[b].status \in Kept
      BY DEF Live, Kept
    <3>2. PICK q \in Rest : q = OriginIn(entitlement, b)
      BY <1>o, <3>1
    <3>3. Backs(q)
      BY <1>0, <3>2 DEF Backed
    <3> QED BY <1>f, <3>2, <3>3
  <2>2. ASSUME NEW b \in Bookings, Live(b)'
        PROVE  \E q \in Rest : q = OriginIn(entitlement', b) /\ Backs(q)'
    <3>1. CASE b = n
      BY <1>1, <1>9, <1>j, <2>1, <3>1
    <3>2. CASE b # n
      <4>1. b # a /\ Live(b)
        BY <1>j, <2>2, <3>2 DEF Claimed
      <4> QED BY <1>9, <2>1, <3>2, <4>1
    <3> QED BY <3>1, <3>2
  <2> QED BY <2>2 DEF Backed
<1>q. JobsKnow'
  <2> SUFFICES ASSUME NEW k \in BagToSet(jobs')
               PROVE  /\ booking'[k.on].status \in Kept
                      /\ k.op = "refund" => entitlement'[k.on].outcome # "UNJUDGED"
                      /\ k.op = "refund" /\ entitlement'[k.on].outcome = "OPEN" =>
                           /\ k.paid = OriginIn(entitlement', k.on)
                           /\ k.by = Tender(k.paid)'
                           /\ k.by = "PAYMENT" => payment'[k.paid] = "CAPTURED"
    BY DEF JobsKnow
  <2>1. k \in BagToSet(jobs) /\ k.on \in Bookings /\ booking[k.on].status \in Kept
    BY <1>0, <1>3 DEF TypeOK, Jobs, JobsKnow
  <2>2. k.on \in Rest /\ k.on # n
    BY <1>6, <1>c, <2>1 DEF Kept, Rest
  <2>3. booking'[k.on].status \in Kept /\ (k.op = "refund" => entitlement'[k.on].outcome # "UNJUDGED")
    BY <1>0, <1>8, <1>f, <2>1, <2>2 DEF Kept, JobsKnow, RowSame
  <2>4. ASSUME k.op = "refund", entitlement'[k.on].outcome = "OPEN"
        PROVE  /\ k.paid = OriginIn(entitlement', k.on)
               /\ k.by = Tender(k.paid)'
               /\ k.by = "PAYMENT" => payment'[k.paid] = "CAPTURED"
    <3>1. k.on # a /\ entitlement[k.on].outcome = "OPEN"
      BY <1>8, <2>1, <2>4
    <3>2. /\ k.paid = OriginIn(entitlement, k.on) /\ k.by = Tender(k.paid)
          /\ k.by = "PAYMENT" => payment[k.paid] = "CAPTURED"
      BY <1>0, <2>1, <2>4, <3>1 DEF JobsKnow
    <3>3. k.paid \in Rest
      BY <1>o, <2>1, <3>2
    <3> QED BY <1>2, <1>9, <1>f, <2>1, <2>2, <3>2, <3>3
  <2> QED BY <2>3, <2>4
<1> QED BY <1>9, <1>d, <1>e, <1>g, <1>h, <1>i, <1>l, <1>p, <1>q DEF IInv

-----------------------------------------------------------------------------
(* The theorems *)

\* Every step keeps the invariant.
LEMMA StepInv == IInv /\ [Next]_vars => IInv'
<1> SUFFICES ASSUME IInv, [Next]_vars PROVE IInv'
  OBVIOUS
<1>1. CASE UNCHANGED vars
  BY <1>1, OutsideSteps
<1>2. ASSUME NEW b \in Bookings, Reservation(b) PROVE IInv'
  BY <1>2, ReservationSteps
<1>3. ASSUME NEW b \in Bookings, Payment(b) PROVE IInv'
  BY <1>3, PaymentSteps
<1>4. ASSUME NEW b \in Bookings, LostSlot(b) PROVE IInv'
  BY <1>4, ReadSteps
<1>5. ASSUME NEW j \in BagToSet(jobs), Write(j) PROVE IInv'
  BY <1>5, JudgeStep, RefundStep, RescheduleStep, RefusedStep DEF Write
<1>6. CASE Time
  BY <1>6, OutsideSteps
<1> QED BY <1>1, <1>2, <1>3, <1>4, <1>5, <1>6 DEF Next

\* The inductive invariant holds in every state of every behaviour.
LEMMA Invariance == Spec => []IInv
<1> QED BY InitInv, StepInv, PTL DEF Spec

\* For every number of bookings, jobs and slots, every length of reschedule
\* chain and every mix of customers: no two bookings hold overlapping slots, a
\* live booking is backed by a tender that is still spent, and captured money
\* is a booking with one mission or a row that says there was no slot.
THEOREM AlwaysBacked == Spec => []BookingsAreBacked
<1>1. IInv => BookingsAreBacked
  <2> SUFFICES ASSUME IInv PROVE BookingsAreBacked
    OBVIOUS
  <2>1. TenderBacksBooking
    BY OriginDef DEF IInv, Backed, Backs, TenderBacksBooking
  <2>2. CaptureAccounted
    BY DEF IInv, Captures, CaptureFor, CaptureAccounted, Kept
  <2> QED BY <2>1, <2>2 DEF IInv, BookingsAreBacked
<1> QED BY <1>1, Invariance, PTL

\* However refunds, reschedules and the sweep race, each chain of reschedules
\* has one booking that is live or refunded.
THEOREM AlwaysOneClaim == Spec => []OneClaimPerTender
<1>1. IInv => OneClaimPerTender
  BY OriginDef DEF IInv, OneClaim, Claimed, OneClaimPerTender
<1> QED BY <1>1, Invariance, PTL

\* Points, the code and what a payment earned are given back, or taken back,
\* exactly when the booking they belong to is dropped or refunded.
THEOREM AlwaysGivenBack == Spec => []GivenBackWhenDue
<1>1. IInv => GivenBackWhenDue
  <2> SUFFICES ASSUME IInv, NEW b \in Bookings
               PROVE  LET over == \/ booking[b].status \in Dropped
                                  \/ \E c \in Bookings : Refunded(c) /\ Origin(c) = b
                      IN  /\ over => code # b
                          /\ booking[b].points =>
                               (over <=> <<"REDEMPTION_RELEASED", b>> \in loyalty)
                          /\ <<"PURCHASE_EARNED", b>> \in loyalty =>
                               (over <=> <<"PURCHASE_REVERSED", b>> \in loyalty)
                          /\ payment[b] = "REFUNDED" => over
    BY DEF GivenBackWhenDue
  <2>1. Over(b) <=> (\/ booking[b].status \in Dropped
                     \/ \E c \in Bookings : Refunded(c) /\ Origin(c) = b)
    BY OriginDef DEF Over, Returned
  <2>2. GivenBackFor(b)
    BY DEF IInv, GivenBack
  <2> QED BY <2>1, <2>2 DEF GivenBackFor
<1> QED BY <1>1, Invariance, PTL

=============================================================================
