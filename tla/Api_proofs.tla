----------------------------- MODULE Api_proofs -----------------------------
(***************************************************************************)
(* Proofs about the API's own transactions: Accounts, for every set of     *)
(* addresses and any number of links, sessions and requests in flight;     *)
(* ObserverPacks, for any buyers, seats and prices; CardDraws, for any     *)
(* players, reads, cards and weekly cap; Loyalty, for any members,         *)
(* bookings and open transactions; an allowance, an operator's control of  *)
(* an observatory and the checks of every route (ApiDoor), for any limits, *)
(* desks, missions and requests; Pointing, for any circle, survey and      *)
(* sector.                                                                 *)
(***************************************************************************)
EXTENDS Accounts, ObserverPacks, CardDraws, Loyalty, Pointing, ApiDoor, FiniteSetTheorems, TLAPS

-----------------------------------------------------------------------------
(* Accounts.                                                               *)

Ops == Kinds \cup {"register", "session", "google", "reserve", "delete",
                   "askReset", "askChange", "password"}
UserRows == [row : BOOLEAN, email : Addresses, verified : BOOLEAN, password : BOOLEAN,
             google : BOOLEAN, deleted : BOOLEAN]
LinkRows == [number : Nat, used : BOOLEAN, to : Addresses]
InFlight == [op : Ops, id : Nat, number : Nat, to : Addresses, saw : BOOLEAN]

AccountRows ==
  /\ user \in UserRows
  /\ link \in [Kinds -> LinkRows]
  /\ lastLink \in 0..MaxLinks
  /\ acted \in [1..MaxLinks -> Nat]
  /\ sessions \in 0..MaxSessions

\* The rows of two kinds never have one number, and an opened link had one.
Numbered ==
  /\ \A k \in Kinds : link[k].number <= lastLink
  /\ \A k, l \in Kinds : link[k].number = link[l].number /\ k # l => link[k].number = 0

\* What is in flight was asked for; whoever asks for a link has a row.
Asked ==
  /\ inFlight \subseteq InFlight
  /\ \A r \in inFlight : r.op \in Kinds => r.number \in 1..lastLink

\* A link that may still act has not.
Unspent ==
  /\ \A n \in 1..MaxLinks : acted[n] <= 1 /\ (n > lastLink => acted[n] = 0)
  /\ \A k \in Kinds : link[k].number # 0 /\ ~link[k].used => acted[link[k].number] = 0

\* There are links, and requests for them, only of an account that exists.
Existing ==
  /\ user.verified => user.row
  /\ user.row \/ (lastLink = 0 /\ \A r \in inFlight : r.op \notin {"askReset", "askChange"})

AccountInv == AccountRows /\ Numbered /\ Asked /\ Unspent /\ Existing

\* The invariant is stronger than the property.
LEMMA AccountInvIsEnough == AccountInv => LinkActsOnce
<1> SUFFICES ASSUME AccountInv PROVE LinkActsOnce
  OBVIOUS
<1>1. user.email \in Addresses /\ sessions \in 0..MaxSessions
  BY DEF AccountInv, AccountRows, UserRows
<1>2. \A r \in inFlight : r.op \in Ops
  BY DEF AccountInv, Asked, InFlight
<1>3. \A k \in Kinds : link[k].number <= lastLink
  BY DEF AccountInv, Numbered
<1>4. user.verified => user.row
  BY DEF AccountInv, Existing
<1>5. AccountTypeOK
  BY <1>1, <1>2, <1>3, <1>4, Zenon DEF AccountTypeOK, Ops
<1> QED BY <1>5 DEF LinkActsOnce, AccountInv, Unspent

\* The rows a new account has.
LEMMA NoRows ==
  /\ NoUser \in UserRows /\ NoLink \in LinkRows /\ NoLink.number = 0
  /\ ~NoUser.row /\ ~NoUser.verified
<1>1. FALSE \in BOOLEAN
  OBVIOUS
<1> QED BY <1>1, AccountsAssumption, Zenon DEF NoUser, NoLink, UserRows, LinkRows

\* Nobody has registered at the start.
LEMMA AccountInitially == AccountInit => AccountInv
<1> SUFFICES ASSUME AccountInit PROVE AccountInv
  OBVIOUS
<1>1. AccountRows
  BY NoRows, AccountsAssumption DEF AccountInit, AccountRows
<1>2. \A k \in Kinds : link[k].number = 0
  BY NoRows DEF AccountInit
<1>3. Numbered /\ Unspent
  BY <1>2, AccountsAssumption DEF AccountInit, Numbered, Unspent
<1>4. Existing /\ Asked
  BY NoRows DEF AccountInit, Existing, Asked
<1> QED BY <1>1, <1>3, <1>4 DEF AccountInv

\* A request is one of those known, with nothing in it.
LEMMA RequestType ==
  ASSUME NEW op \in Ops
  PROVE  /\ Request(op) \in InFlight /\ Request(op).op = op
         /\ \A n \in Nat : [Request(op) EXCEPT !.id = n] \in InFlight
                           /\ [Request(op) EXCEPT !.id = n].op = op
<1>1. FALSE \in BOOLEAN /\ 0 \in Nat
  OBVIOUS
<1> QED BY <1>1, AccountsAssumption, Zenon DEF Request, InFlight

\* A request that begins is added to those in flight under an id of its own.
LEMMA BeginAsks ==
  ASSUME Asked, NEW r \in InFlight, Begin(r), lastLink' = lastLink,
         r.op \in Kinds => r.number \in 1..lastLink
  PROVE  /\ Asked'
         /\ \A q \in inFlight' : q \in inFlight \/ q.op = r.op
<1>1. PICK i \in 1..MaxInFlight : inFlight' = inFlight \cup {[r EXCEPT !.id = i]}
  BY DEF Begin
<1> DEFINE s == [r EXCEPT !.id = i]
<1>2. i \in Nat
  BY AccountsAssumption
<1>3. s \in InFlight /\ s.op = r.op /\ s.number = r.number
  BY <1>2 DEF InFlight
<1> HIDE DEF s
<1>4. inFlight' = inFlight \cup {s}
  BY <1>1 DEF s
<1> QED BY <1>3, <1>4 DEF Asked

\* A request that is answered is in flight no more, or goes on to a session.
LEMMA AnsweredAsks ==
  ASSUME Asked, NEW r \in inFlight, lastLink \in Nat,
         inFlight' \in {inFlight \ {r}, ThenSession(r)},
         lastLink' \in Nat, lastLink' >= lastLink
  PROVE  /\ Asked'
         /\ \A q \in inFlight' : q \in inFlight \/ q.op = "session"
<1> DEFINE s == [Request("session") EXCEPT !.id = r.id]
<1>1. r.id \in Nat
  BY DEF Asked, InFlight
<1>2. s \in InFlight /\ s.op = "session" /\ "session" \notin Kinds
  BY <1>1, RequestType DEF Ops, Kinds
<1> HIDE DEF s
<1>3. inFlight' \subseteq inFlight \cup {s}
  BY DEF ThenSession, s
<1>4. \A q \in inFlight' : q.op \in Kinds => q.number \in 1..lastLink
  BY <1>2, <1>3 DEF Asked
<1> QED BY <1>2, <1>3, <1>4 DEF Asked

\* Links that stay as they are, are withdrawn or are used up are still apart,
\* and what may act has not.
LEMMA LinksKept ==
  ASSUME AccountRows, Numbered, Unspent, lastLink' = lastLink, acted' = acted,
         link' \in [Kinds -> LinkRows],
         \A k \in Kinds : \/ link'[k] = link[k]
                          \/ link'[k].number = 0
                          \/ link'[k].number = link[k].number /\ link'[k].used
  PROVE  Numbered' /\ Unspent'
<1>1. \A k \in Kinds : link'[k].number = 0 \/ link'[k].number = link[k].number
  OBVIOUS
<1>2. lastLink \in Nat
  BY AccountsAssumption DEF AccountRows
<1>3. Numbered'
  BY <1>1, <1>2 DEF Numbered
<1>4. \A k \in Kinds : link'[k].number # 0 /\ ~link'[k].used => link'[k] = link[k]
  OBVIOUS
<1>5. Unspent'
  BY <1>4 DEF Unspent
<1> QED BY <1>3, <1>5

\* A link that is consumed had not acted, and does not act again.
LEMMA LinkConsumed ==
  ASSUME AccountRows, Numbered, Unspent, Asked, NEW r \in inFlight, NEW k \in Kinds,
         Consumes(r, k), lastLink' = lastLink, link' \in [Kinds -> LinkRows],
         link'[k].number = link[k].number, link'[k].used,
         \A l \in Kinds \ {k} : link'[l] = link[l] \/ link'[l].number = 0
  PROVE  Numbered' /\ Unspent' /\ acted' \in [1..MaxLinks -> Nat]
<1> DEFINE n == r.number
<1>1. /\ link[k].number = n /\ ~link[k].used /\ acted' = [acted EXCEPT ![n] = @ + 1]
      /\ n \in 1..lastLink
  BY DEF Consumes, Asked
<1>2. lastLink \in 0..MaxLinks /\ acted \in [1..MaxLinks -> Nat] /\ MaxLinks \in Nat
  BY AccountsAssumption DEF AccountRows
<1>3. n \in 1..MaxLinks /\ n # 0
  BY <1>1, <1>2
<1>4. acted[n] = 0
  BY <1>1, <1>3 DEF Unspent
<1> HIDE DEF n
<1>5. /\ acted' \in [1..MaxLinks -> Nat]
      /\ acted'[n] = 1 /\ \A m \in 1..MaxLinks : m # n => acted'[m] = acted[m]
  BY <1>1, <1>2, <1>3, <1>4
<1>6. \A l \in Kinds : link'[l].number = 0 \/ link'[l].number = link[l].number
  OBVIOUS
<1>7. Numbered'
  BY <1>2, <1>6 DEF Numbered
<1>8. \A l \in Kinds : link'[l].number # 0 /\ ~link'[l].used =>
        /\ l # k /\ link'[l] = link[l] /\ link[l].number # n
        /\ link[l].number \in 1..MaxLinks
  <2> TAKE l \in Kinds
  <2> HAVE link'[l].number # 0 /\ ~link'[l].used
  <2>1. l # k /\ link'[l] = link[l]
    OBVIOUS
  <2>2. link[l].number \in Nat /\ link[l].number <= lastLink
    BY DEF AccountRows, LinkRows, Numbered
  <2> QED BY <2>1, <2>2, <1>1, <1>2 DEF Numbered
<1>9. \A m \in 1..MaxLinks : acted'[m] <= 1 /\ (m > lastLink' => acted'[m] = 0)
  BY <1>1, <1>2, <1>5 DEF Unspent
<1>10. Unspent'
  BY <1>5, <1>8, <1>9 DEF Unspent
<1> QED BY <1>5, <1>7, <1>10

\* A new link has a number of its own, and has not acted.
LEMMA LinkMade ==
  ASSUME AccountRows, Numbered, Unspent, NEW k \in Kinds, NEW to \in Addresses,
         NewLink(k, to), acted' = acted
  PROVE  /\ Numbered' /\ Unspent' /\ link' \in [Kinds -> LinkRows]
         /\ lastLink' \in 0..MaxLinks /\ lastLink \in Nat /\ lastLink' = lastLink + 1
<1> DEFINE row == [number |-> lastLink + 1, used |-> FALSE, to |-> to]
<1>1. lastLink \in Nat /\ MaxLinks \in Nat /\ lastLink < MaxLinks /\ lastLink' = lastLink + 1
  BY AccountsAssumption DEF AccountRows, NewLink
<1>2. FALSE \in BOOLEAN /\ lastLink + 1 \in Nat
  BY <1>1
<1>3. row \in LinkRows /\ row.number = lastLink + 1
  BY <1>2, Zenon DEF LinkRows
<1>4. link' = [link EXCEPT ![k] = row]
  BY DEF NewLink
<1> HIDE DEF row
<1>5. /\ link' \in [Kinds -> LinkRows] /\ link'[k] = row
      /\ \A l \in Kinds : l # k => link'[l] = link[l]
  BY <1>3, <1>4 DEF AccountRows
<1>6. \A l \in Kinds : link[l].number \in Nat /\ link[l].number <= lastLink
  BY DEF AccountRows, LinkRows, Numbered
<1>7. Numbered'
  BY <1>1, <1>3, <1>5, <1>6 DEF Numbered
<1>8. lastLink + 1 \in 1..MaxLinks /\ acted[lastLink + 1] = 0
  BY <1>1 DEF Unspent
<1>9. Unspent'
  BY <1>1, <1>3, <1>5, <1>8 DEF Unspent
<1> QED BY <1>1, <1>5, <1>7, <1>9

\* A request that only begins changes nothing else.
LEMMA BeginStep ==
  ASSUME AccountInv, NEW r \in InFlight, Begin(r),
         r.op \in Kinds => r.number \in 1..lastLink,
         r.op \in {"askReset", "askChange"} => user.row,
         UNCHANGED <<user, link, lastLink, acted, sessions, othersHave, upcoming>>
  PROVE  AccountInv'
<1>1. AccountRows' /\ Numbered' /\ Unspent'
  BY DEF AccountInv, AccountRows, Numbered, Unspent
<1>2. Asked' /\ \A q \in inFlight' : q \in inFlight \/ q.op = r.op
  BY BeginAsks DEF AccountInv
<1>3. Existing'
  BY <1>2 DEF AccountInv, Existing
<1> QED BY <1>1, <1>2, <1>3 DEF AccountInv

\* A request that is answered leaves the account's row in existence.
LEMMA AnsweredStep ==
  ASSUME AccountInv, NEW r \in inFlight, inFlight' \in {inFlight \ {r}, ThenSession(r)},
         AccountRows', Numbered', Unspent',
         user.row => user'.row, user'.verified => user'.row,
         lastLink' = lastLink \/ (lastLink' \in Nat /\ lastLink' >= lastLink /\ user'.row)
  PROVE  AccountInv'
<1>1. lastLink \in Nat /\ lastLink' \in Nat /\ lastLink' >= lastLink
  BY AccountsAssumption DEF AccountInv, AccountRows
<1>2. Asked' /\ \A q \in inFlight' : q \in inFlight \/ q.op = "session"
  BY <1>1, AnsweredAsks DEF AccountInv
<1>3. user'.row \/ (lastLink' = 0 /\ \A q \in inFlight' : q.op \notin {"askReset", "askChange"})
  BY <1>2 DEF AccountInv, Existing
<1>4. Existing'
  BY <1>3 DEF Existing
<1> QED BY <1>2, <1>4 DEF AccountInv

\* Whoever opened a link, or asked for one, has a row.
LEMMA AskerExists ==
  ASSUME AccountInv, NEW r \in inFlight, r.op \in Kinds \cup {"askReset", "askChange"}
  PROVE  user.row
<1>1. r.op \in Kinds => r.number \in 1..lastLink
  BY DEF AccountInv, Asked
<1>2. r.op \in Kinds => lastLink # 0
  BY <1>1
<1> QED BY <1>2 DEF AccountInv, Existing

\* A used link is a row.
LEMMA UsedType ==
  ASSUME AccountRows, NEW k \in Kinds
  PROVE  Used(k) \in LinkRows /\ Used(k).number = link[k].number /\ Used(k).used
<1>1. link[k] \in LinkRows /\ TRUE \in BOOLEAN
  BY DEF AccountRows
<1> QED BY <1>1, Zenon DEF Used, LinkRows

\* The user's row after one of its columns was set.
LEMMA UserType ==
  ASSUME AccountRows
  PROVE  /\ [user EXCEPT !.verified = TRUE] \in UserRows
         /\ [user EXCEPT !.verified = TRUE].row = user.row
         /\ [user EXCEPT !.row = TRUE, !.google = TRUE, !.verified = TRUE] \in UserRows
         /\ [user EXCEPT !.row = TRUE, !.google = TRUE, !.verified = TRUE].row
         /\ \A a \in Addresses : /\ [user EXCEPT !.email = a] \in UserRows
                                 /\ [user EXCEPT !.email = a].row = user.row
                                 /\ [user EXCEPT !.email = a].verified = user.verified
<1>1. user \in UserRows /\ TRUE \in BOOLEAN
  BY DEF AccountRows
<1>2. [user EXCEPT !.verified = TRUE] \in UserRows /\ [user EXCEPT !.verified = TRUE].row = user.row
  BY <1>1, Zenon DEF UserRows
<1>3. /\ [user EXCEPT !.row = TRUE, !.google = TRUE, !.verified = TRUE] \in UserRows
      /\ [user EXCEPT !.row = TRUE, !.google = TRUE, !.verified = TRUE].row
  BY <1>1 DEF UserRows
<1>4. ASSUME NEW a \in Addresses
      PROVE /\ [user EXCEPT !.email = a] \in UserRows
            /\ [user EXCEPT !.email = a].row = user.row
            /\ [user EXCEPT !.email = a].verified = user.verified
  BY <1>1 DEF UserRows
<1> QED BY <1>2, <1>3, <1>4

\* Each step of an account preserves its invariant.
LEMMA AccountStep == AccountInv /\ [AccountNext]_accountVars => AccountInv'
<1> SUFFICES ASSUME AccountInv, [AccountNext]_accountVars PROVE AccountInv'
  OBVIOUS
<1>a. AccountRows /\ Numbered /\ Unspent /\ Asked /\ Existing
  BY DEF AccountInv
<1>b. /\ user \in UserRows /\ link \in [Kinds -> LinkRows] /\ lastLink \in Nat
      /\ lastLink \in 0..MaxLinks /\ sessions \in 0..MaxSessions /\ MaxSessions \in Nat
      /\ 0 \in 0..MaxSessions
  BY <1>a, AccountsAssumption DEF AccountRows
<1>c. ASSUME NEW op \in Ops PROVE Request(op) \in InFlight /\ Request(op).op = op
  BY RequestType
<1>1. ASSUME LookUpToRegister PROVE AccountInv'
  <2> DEFINE q == [Request("register") EXCEPT !.saw = user.row]
  <2>1. user.row \in BOOLEAN /\ "register" \in Ops /\ "register" \notin Kinds
    BY <1>b DEF UserRows, Ops, Kinds
  <2>2. q \in InFlight /\ q.op = "register"
    BY <1>c, <2>1 DEF InFlight
  <2>3. Begin(q) /\ UNCHANGED <<user, link, lastLink, acted, sessions, othersHave, upcoming>>
    BY <1>1 DEF LookUpToRegister
  <2> HIDE DEF q
  <2> QED BY <2>1, <2>2, <2>3, BeginStep
<1>2. ASSUME CheckCredentials \/ AskReset \/ AskPasswordChange \/ BeginReservation \/ ReadBlockers
      PROVE  AccountInv'
  <2>1. /\ UNCHANGED <<user, link, lastLink, acted, sessions, othersHave, upcoming>>
        /\ \E op \in {"session", "askReset", "password", "reserve", "delete"} :
             Begin(Request(op)) /\ (op = "askReset" => user.row)
    BY <1>2 DEF CheckCredentials, AskReset, AskPasswordChange, BeginReservation, ReadBlockers
  <2>2. PICK op \in {"session", "askReset", "password", "reserve", "delete"} :
          Begin(Request(op)) /\ (op = "askReset" => user.row)
    BY <2>1
  <2>3. op \in Ops /\ op \notin Kinds /\ op # "askChange"
    BY <2>2 DEF Ops, Kinds
  <2>4. Request(op) \in InFlight /\ Request(op).op = op
    BY <1>c, <2>3
  <2> QED BY <2>1, <2>2, <2>3, <2>4, BeginStep
<1>3. ASSUME LookUpGoogle PROVE AccountInv'
  <2>1. PICK op \in {"session", "google"} : op = IF user.google THEN "session" ELSE "google"
    OBVIOUS
  <2> DEFINE q == [Request(op) EXCEPT !.saw = user.row]
  <2>2. user.row \in BOOLEAN /\ op \in Ops /\ op \notin Kinds \cup {"askReset", "askChange"}
    BY <1>b, <2>1 DEF UserRows, Ops, Kinds
  <2>3. q \in InFlight /\ q.op = op
    BY <1>c, <2>2 DEF InFlight
  <2>4. Begin(q) /\ UNCHANGED <<user, link, lastLink, acted, sessions, othersHave, upcoming>>
    BY <1>3, <2>1 DEF LookUpGoogle
  <2> HIDE DEF q
  <2> QED BY <2>2, <2>3, <2>4, BeginStep
<1>4. ASSUME NEW a \in Addresses, AskEmailChange(a) PROVE AccountInv'
  <2> DEFINE q == [Request("askChange") EXCEPT !.to = a]
  <2>1. "askChange" \in Ops /\ "askChange" \notin Kinds
    BY DEF Ops, Kinds
  <2>2. q \in InFlight /\ q.op = "askChange"
    BY <1>c, <2>1 DEF InFlight
  <2>3. Begin(q) /\ UNCHANGED <<user, link, lastLink, acted, sessions, othersHave, upcoming>>
    BY <1>4 DEF AskEmailChange
  <2>4. user.row
    BY <1>4, <1>a DEF AskEmailChange, SignedIn, Existing
  <2> HIDE DEF q
  <2> QED BY <2>1, <2>2, <2>3, <2>4, BeginStep
<1>5. ASSUME NEW k \in Kinds, OpenLink(k) PROVE AccountInv'
  <2> DEFINE q == [Request(k) EXCEPT !.number = link[k].number, !.to = link[k].to]
  <2>1. k \in Ops /\ k \notin {"askReset", "askChange"} /\ link[k] \in LinkRows
    BY <1>b DEF Ops, Kinds
  <2>2. q \in InFlight /\ q.op = k /\ q.number = link[k].number
    <3>1. link[k].number \in Nat /\ link[k].to \in Addresses
      BY <2>1 DEF LinkRows
    <3>2. Request(k) \in InFlight /\ Request(k).op = k
      BY <1>c, <2>1
    <3> QED BY ONLY <3>1, <3>2 DEF InFlight
  <2>3. Begin(q) /\ UNCHANGED <<user, link, lastLink, acted, sessions, othersHave, upcoming>>
    BY <1>5 DEF OpenLink
  <2>4. link[k].number \in 1..lastLink
    BY <1>5, <1>a, <1>b, <2>1 DEF OpenLink, Numbered, LinkRows
  <2> HIDE DEF q
  <2> QED BY <2>1, <2>2, <2>3, <2>4, BeginStep
<1>6. ASSUME NEW k \in Kinds, LinkExpires(k) PROVE AccountInv'
  <2>1. /\ link' = [link EXCEPT ![k] = Used(k)]
        /\ UNCHANGED <<user, lastLink, acted, sessions, inFlight>>
    BY <1>6 DEF LinkExpires
  <2>2. Used(k) \in LinkRows /\ Used(k).number = link[k].number /\ Used(k).used
    BY <1>a, UsedType
  <2>3. /\ link' \in [Kinds -> LinkRows]
        /\ \A l \in Kinds : link'[l] = link[l] \/ (link'[l].number = link[l].number /\ link'[l].used)
    BY <1>b, <2>1, <2>2
  <2>4. Numbered' /\ Unspent'
    BY <1>a, <2>1, <2>3, LinksKept
  <2>5. AccountRows' /\ Existing' /\ Asked'
    BY <1>a, <2>1, <2>3 DEF AccountRows, Existing, Asked
  <2> QED BY <2>4, <2>5 DEF AccountInv
<1>7. ASSUME SignOut \/ BookingIsOver \/ (\E a \in Addresses : OthersTake(a)) PROVE AccountInv'
  <2>1. UNCHANGED <<user, link, lastLink, acted, inFlight>> /\ sessions' \in 0..MaxSessions
    BY <1>7, <1>b DEF SignOut, BookingIsOver, OthersTake
  <2> QED BY <2>1 DEF AccountInv, AccountRows, Numbered, Unspent, Existing, Asked
<1>8. ASSUME NEW r \in inFlight,
             \/ CreateSession(r) \/ DeadLink(r) \/ ResetFails(r) \/ ChangeFails(r)
             \/ CommitReservation(r)
      PROVE  AccountInv'
  <2>1. /\ UNCHANGED <<user, link, lastLink, acted>> /\ inFlight' = inFlight \ {r}
        /\ sessions' \in 0..MaxSessions
    BY <1>8, <1>b DEF CreateSession, DeadLink, ResetFails, ChangeFails, CommitReservation
  <2>2. AccountRows' /\ Numbered' /\ Unspent'
    BY <1>a, <2>1 DEF AccountRows, Numbered, Unspent
  <2> QED BY <2>1, <2>2, <1>a, AnsweredStep DEF Existing
<1>9. ASSUME NEW r \in inFlight, Register(r) PROVE AccountInv'
  <2>1. inFlight' = inFlight \ {r} /\ UNCHANGED <<acted, sessions>>
    BY <1>9 DEF Register
  <2>2. CASE UNCHANGED <<user, link, lastLink>>
    <3>1. AccountRows' /\ Numbered' /\ Unspent'
      BY <1>a, <2>1, <2>2 DEF AccountRows, Numbered, Unspent
    <3> QED BY <2>1, <2>2, <3>1, <1>a, AnsweredStep DEF Existing
  <2>3. CASE ~UNCHANGED <<user, link, lastLink>>
    <3> DEFINE fresh == [NoUser EXCEPT !.row = TRUE, !.password = TRUE]
    <3>1. fresh \in UserRows /\ fresh.row /\ ~fresh.verified
      BY NoRows DEF UserRows
    <3>2. ((user' = user /\ user.row) \/ user' = fresh) /\ NewLink("verify", user.email)
      BY <1>9, <2>3 DEF Register
    <3> HIDE DEF fresh
    <3>3. user' \in UserRows /\ user'.row
      BY <1>b, <3>1, <3>2
    <3>4. "verify" \in Kinds /\ user.email \in Addresses
      BY <1>b DEF Kinds, UserRows
    <3>5. /\ Numbered' /\ Unspent' /\ link' \in [Kinds -> LinkRows]
          /\ lastLink' \in 0..MaxLinks /\ lastLink \in Nat /\ lastLink' = lastLink + 1
      BY <1>a, <2>1, <3>2, <3>4, LinkMade
    <3>6. AccountRows'
      BY <1>a, <2>1, <3>3, <3>5 DEF AccountRows
    <3>7. lastLink' \in Nat /\ lastLink' >= lastLink
      BY <3>5
    <3> QED BY <2>1, <3>3, <3>5, <3>6, <3>7, AnsweredStep
  <2> QED BY <2>2, <2>3
<1>10. ASSUME NEW r \in inFlight, LinkGoogle(r) PROVE AccountInv'
  <2>1. /\ UNCHANGED <<link, lastLink, acted, sessions>>
        /\ inFlight' \in {inFlight \ {r}, ThenSession(r)}
        /\ user' = user \/ user' = [user EXCEPT !.row = TRUE, !.google = TRUE, !.verified = TRUE]
    BY <1>10 DEF LinkGoogle
  <2>2. user' \in UserRows /\ (user'.row \/ user' = user)
    BY <1>a, <1>b, <2>1, UserType
  <2>3. AccountRows' /\ Numbered' /\ Unspent'
    BY <1>a, <2>1, <2>2 DEF AccountRows, Numbered, Unspent
  <2> QED BY <1>a, <2>1, <2>2, <2>3, AnsweredStep DEF Existing
<1>11. ASSUME NEW r \in inFlight, RequestPasswordReset(r) \/ RequestEmailChange(r)
       PROVE  AccountInv'
  <2>1. r \in InFlight /\ r.to \in Addresses /\ user.email \in Addresses
    BY <1>a, <1>b DEF Asked, InFlight, UserRows
  <2>2. PICK k \in Kinds, to \in Addresses : NewLink(k, to)
    BY <1>11, <2>1 DEF RequestPasswordReset, RequestEmailChange, Kinds
  <2>3. /\ inFlight' = inFlight \ {r} /\ UNCHANGED <<user, acted, sessions>>
        /\ r.op \in {"askReset", "askChange"}
    BY <1>11 DEF RequestPasswordReset, RequestEmailChange
  <2>4. user.row
    BY <2>3, AskerExists
  <2>5. /\ Numbered' /\ Unspent' /\ link' \in [Kinds -> LinkRows]
        /\ lastLink' \in 0..MaxLinks /\ lastLink \in Nat /\ lastLink' = lastLink + 1
    BY <1>a, <2>2, <2>3, LinkMade
  <2>6. AccountRows'
    BY <1>a, <2>3, <2>5 DEF AccountRows
  <2>7. lastLink' \in Nat /\ lastLink' >= lastLink
    BY <2>5
  <2> QED BY <2>3, <2>4, <2>5, <2>6, <2>7, AnsweredStep
<1>12. ASSUME NEW r \in inFlight, ChangePassword(r) PROVE AccountInv'
  <2>1. /\ inFlight' = inFlight \ {r} /\ UNCHANGED <<user, lastLink, acted>>
        /\ sessions' \in 0..MaxSessions
        /\ link' = link \/ link' = [link EXCEPT !["reset"] = NoLink, !["change"] = NoLink]
    BY <1>12, <1>b DEF ChangePassword
  <2>2. /\ link' \in [Kinds -> LinkRows]
        /\ \A k \in Kinds : link'[k] = link[k] \/ link'[k].number = 0
    BY <1>b, <2>1, NoRows
  <2>3. Numbered' /\ Unspent'
    BY <1>a, <2>1, <2>2, LinksKept
  <2>4. AccountRows'
    BY <1>a, <2>1, <2>2 DEF AccountRows
  <2> QED BY <1>a, <2>1, <2>3, <2>4, AnsweredStep DEF Existing
<1>13. ASSUME NEW r \in inFlight,
              VerifyEmail(r) \/ ConfirmPasswordReset(r) \/ ConfirmEmailChange(r)
       PROVE  AccountInv'
  <2>1. /\ "verify" \in Kinds /\ "reset" \in Kinds /\ "change" \in Kinds
        /\ "verify" # "reset" /\ "verify" # "change" /\ "reset" # "change"
    BY DEF Kinds
  <2>2. /\ Used("verify") \in LinkRows /\ Used("verify").number = link["verify"].number
        /\ Used("verify").used
        /\ Used("reset") \in LinkRows /\ Used("reset").number = link["reset"].number
        /\ Used("reset").used
        /\ Used("change") \in LinkRows /\ Used("change").number = link["change"].number
        /\ Used("change").used
    BY <1>a, <2>1, UsedType
  <2>3. PICK k \in Kinds :
          /\ Consumes(r, k) /\ link' \in [Kinds -> LinkRows]
          /\ link'[k].number = link[k].number /\ link'[k].used
          /\ \A l \in Kinds \ {k} : link'[l] = link[l] \/ link'[l].number = 0
    <3>1. CASE VerifyEmail(r)
      <4>1. Consumes(r, "verify") /\ link' = [link EXCEPT !["verify"] = Used("verify")]
        BY <3>1 DEF VerifyEmail
      <4>2. /\ link' \in [Kinds -> LinkRows] /\ link'["verify"] = Used("verify")
            /\ \A l \in Kinds \ {"verify"} : link'[l] = link[l]
        BY <1>b, <2>1, <2>2, <4>1
      <4> QED BY <2>1, <2>2, <4>1, <4>2
    <3>2. CASE ConfirmPasswordReset(r)
      <4>1. /\ Consumes(r, "reset")
            /\ \/ link' = [link EXCEPT !["reset"] = Used("reset"), !["change"] = NoLink,
                                       !["verify"] = link["verify"]]
               \/ link' = [link EXCEPT !["reset"] = Used("reset"), !["change"] = NoLink,
                                       !["verify"] = NoLink]
        BY <3>2, <1>b, <2>1 DEF ConfirmPasswordReset
      <4>2. /\ link' \in [Kinds -> LinkRows] /\ link'["reset"] = Used("reset")
            /\ \A l \in Kinds \ {"reset"} : link'[l] = link[l] \/ link'[l] = NoLink
        BY <1>b, <2>1, <2>2, <4>1, NoRows
      <4> QED BY <2>1, <2>2, <4>1, <4>2, NoRows
    <3>3. CASE ConfirmEmailChange(r)
      <4>1. /\ Consumes(r, "change")
            /\ link' = [link EXCEPT !["change"] = Used("change"), !["reset"] = NoLink]
        BY <3>3 DEF ConfirmEmailChange
      <4>2. /\ link' \in [Kinds -> LinkRows] /\ link'["change"] = Used("change")
            /\ \A l \in Kinds \ {"change"} : link'[l] = link[l] \/ link'[l] = NoLink
        BY <1>b, <2>1, <2>2, <4>1, NoRows
      <4> QED BY <2>1, <2>2, <4>1, <4>2, NoRows
    <3> QED BY <1>13, <3>1, <3>2, <3>3
  <2>4. lastLink' = lastLink /\ sessions' = 0 /\ inFlight' = ThenSession(r)
    BY <1>13 DEF VerifyEmail, ConfirmPasswordReset, ConfirmEmailChange
  <2>5. Numbered' /\ Unspent' /\ acted' \in [1..MaxLinks -> Nat]
    BY <1>a, <2>3, <2>4, LinkConsumed
  <2>6. r.op \in Kinds /\ r \in InFlight /\ r.to \in Addresses
    BY <1>a, <2>3 DEF Consumes, Asked, InFlight
  <2>7. user.row
    BY <2>6, AskerExists
  <2>8. user' = [user EXCEPT !.verified = TRUE] \/ user' = [user EXCEPT !.email = r.to]
    BY <1>13 DEF VerifyEmail, ConfirmPasswordReset, ConfirmEmailChange
  <2>9. user' \in UserRows /\ user'.row
    BY <1>a, <2>6, <2>7, <2>8, UserType
  <2>10. AccountRows'
    BY <1>a, <1>b, <2>3, <2>4, <2>5, <2>9 DEF AccountRows
  <2> QED BY <2>4, <2>5, <2>9, <2>10, AnsweredStep
<1>14. ASSUME NEW r \in inFlight, DeleteAccount(r) PROVE AccountInv'
  <2> DEFINE gone == [NoUser EXCEPT !.row = TRUE, !.deleted = TRUE]
  <2>1. gone \in UserRows /\ gone.row
    BY NoRows DEF UserRows
  <2>2. /\ inFlight' = inFlight \ {r} /\ UNCHANGED <<lastLink, acted>>
        /\ user' = user \/ user' = gone
        /\ link' = link \/ link' = [k \in Kinds |-> NoLink]
        /\ sessions' \in 0..MaxSessions
    BY <1>14, <1>b DEF DeleteAccount
  <2> HIDE DEF gone
  <2>3. /\ link' \in [Kinds -> LinkRows]
        /\ \A k \in Kinds : link'[k] = link[k] \/ link'[k].number = 0
    BY <1>b, <2>2, NoRows
  <2>4. Numbered' /\ Unspent'
    BY <1>a, <2>2, <2>3, LinksKept
  <2>5. AccountRows'
    BY <1>a, <1>b, <2>1, <2>2, <2>3 DEF AccountRows
  <2> QED BY <1>a, <2>1, <2>2, <2>4, <2>5, AnsweredStep DEF Existing
<1>15. ASSUME UNCHANGED accountVars PROVE AccountInv'
  BY <1>15 DEF accountVars, AccountInv, AccountRows, Numbered, Unspent, Existing, Asked
<1> QED
  BY <1>1, <1>2, <1>3, <1>4, <1>5, <1>6, <1>7, <1>8, <1>9, <1>10, <1>11, <1>12, <1>13,
     <1>14, <1>15 DEF AccountNext

\* A mailed link acts at most once, however often it is opened, replaced or
\* withdrawn while it is being opened: verifyEmail, confirmPasswordReset and
\* confirmEmailChange.
THEOREM LinkAlwaysActsOnce == AccountSpec => []LinkActsOnce
<1>1. AccountSpec => []AccountInv
  BY AccountInitially, AccountStep, PTL DEF AccountSpec
<1> QED BY <1>1, AccountInvIsEnough, PTL

-----------------------------------------------------------------------------
(* Observer packs.                                                         *)

\* A payment a pack names is its buyer's.
OwnPayments ==
  \A b \in Buyers : pack[b].payment # 0 => charges[pack[b].payment].buyer = b

\* What was read of the time is past.
PackTimes ==
  /\ \A b \in Buyers : pack[b].paidAt <= packClock
  /\ \A r \in asked : r.at <= packClock

\* A payment that was taken back was given back to its pack.
TakenBack ==
  \A b \in Buyers :
    /\ pack[b].status = "PAID" /\ pack[b].payment # 0
    /\ charges[pack[b].payment].status = "REFUNDED"
    => pack[b].refunded > 0

\* Whoever was put out of a seat by a close has been made good.
PutOutMadeGood ==
  ends /\ packClock < SessionLength =>
    \A b \in Buyers \ leftAlone :
      seat[b] = "LEFT" /\ pack[b].payment # 0 => pack[b].refunded + pack[b].owed > 0

\* Only a seat that is paid for is ever taken.
Seated == \A b \in Buyers : seat[b] # "none" => pack[b].status = "PAID"

PackInv ==
  /\ PackTypeOK /\ SeatsAreKept /\ PackMoneyAccounted /\ CloseIsMadeGood
  /\ OwnPayments /\ PackTimes /\ TakenBack /\ PutOutMadeGood /\ Seated

ChargeRows == [buyer : Buyers, earned : BOOLEAN, seatless : BOOLEAN,
               status : {"PENDING", "CAPTURED", "FAILED", "REFUNDED"}]

HeldSet(packs) == {b \in Buyers : packs[b].status \in SeatHolding}

\* Seats held, counted.
LEMMA HeldCounts ==
  ASSUME NEW f, NEW g, NEW b \in Buyers
  PROVE  /\ Held(f) \in Nat /\ Held(g) \in Nat
         /\ (\A c \in Buyers : g[c].status \in SeatHolding => f[c].status \in SeatHolding)
              => Held(g) <= Held(f)
         /\ (\A c \in Buyers \ {b} : g[c].status \in SeatHolding => f[c].status \in SeatHolding)
              => Held(g) <= Held(f) + 1
<1>1. IsFiniteSet(Buyers)
  BY PackAssumption
<1>2. HeldSet(f) \subseteq Buyers /\ HeldSet(g) \subseteq Buyers
  BY DEF HeldSet
<1>3. /\ IsFiniteSet(HeldSet(f)) /\ IsFiniteSet(HeldSet(g))
      /\ Cardinality(HeldSet(f)) \in Nat /\ Cardinality(HeldSet(g)) \in Nat
  BY <1>1, <1>2, FS_Subset, FS_CardinalityType
<1>4. Held(f) = Cardinality(HeldSet(f)) /\ Held(g) = Cardinality(HeldSet(g))
  BY DEF Held, HeldSet
<1>5. ASSUME \A c \in Buyers : g[c].status \in SeatHolding => f[c].status \in SeatHolding
      PROVE  Held(g) <= Held(f)
  <2>1. HeldSet(g) \subseteq HeldSet(f)
    BY <1>5 DEF HeldSet
  <2> QED BY <2>1, <1>3, <1>4, FS_Subset
<1>6. ASSUME \A c \in Buyers \ {b} : g[c].status \in SeatHolding => f[c].status \in SeatHolding
      PROVE  Held(g) <= Held(f) + 1
  <2>1. HeldSet(g) \subseteq HeldSet(f) \cup {b}
    BY <1>6 DEF HeldSet
  <2>2. /\ IsFiniteSet(HeldSet(f) \cup {b})
        /\ \/ Cardinality(HeldSet(f) \cup {b}) = Cardinality(HeldSet(f))
           \/ Cardinality(HeldSet(f) \cup {b}) = Cardinality(HeldSet(f)) + 1
    BY <1>3, FS_AddElement
  <2>3. Cardinality(HeldSet(g)) <= Cardinality(HeldSet(f) \cup {b})
    BY <2>1, <2>2, FS_Subset
  <2> QED BY <1>3, <1>4, <2>2, <2>3
<1> QED BY <1>3, <1>4, <1>5, <1>6

\* What a close pays back for a seat with time left: something, and no more
\* than its price.
LEMMA RefundBounds ==
  ASSUME NEW paidAt \in Nat, NEW closedAt \in Nat
  PROVE  /\ CloseRefundMinor(paidAt, closedAt) \in 0..PackPrice
         /\ closedAt < SessionLength /\ paidAt < SessionLength
              => CloseRefundMinor(paidAt, closedAt) > 0
<1>1. SessionLength \in Nat /\ PackPrice \in Nat /\ PackPrice > 0
  BY PackAssumption
<1>2. CASE closedAt >= SessionLength \/ paidAt >= SessionLength
  BY <1>1, <1>2 DEF CloseRefundMinor
<1>3. CASE closedAt < SessionLength /\ paidAt < SessionLength
  <2> DEFINE remaining == SessionLength - closedAt
             bought == SessionLength - paidAt
  <2>1. remaining \in Nat /\ bought \in Nat /\ remaining > 0 /\ bought > 0
    BY <1>1, <1>3
  <2>2. CloseRefundMinor(paidAt, closedAt) =
          IF remaining >= bought THEN PackPrice
          ELSE (PackPrice * remaining + bought - 1) \div bought
    BY <1>1, <1>3 DEF CloseRefundMinor
  <2> HIDE DEF remaining, bought
  <2>3. ASSUME remaining < bought
        PROVE  /\ (PackPrice * remaining + bought - 1) \div bought \in 0..PackPrice
               /\ (PackPrice * remaining + bought - 1) \div bought > 0
    <3> DEFINE a == PackPrice * remaining + bought - 1
               q == a \div bought
    <3>1. PackPrice * remaining \in Nat /\ PackPrice * remaining >= 1
      BY <1>1, <2>1
    <3>2. PackPrice * remaining <= PackPrice * bought
      BY <1>1, <2>1, <2>3
    <3>3. a \in Nat /\ a >= bought /\ a < PackPrice * bought + bought
      <4>1. PICK m \in Nat : m = PackPrice * remaining
        BY <3>1
      <4>2. PICK n \in Nat : n = PackPrice * bought
        BY <1>1, <2>1
      <4>3. m + bought - 1 \in Nat /\ m + bought - 1 >= bought /\ m + bought - 1 < n + bought
        BY ONLY <2>1, <3>1, <3>2, <4>1, <4>2
      <4> QED BY <4>1, <4>2, <4>3
    <3>4. q \in Int /\ bought * q <= a /\ a < bought * q + bought
      BY <2>1, <3>3
    <3>5. q > 0
      BY <2>1, <3>3, <3>4
    <3>6. q <= PackPrice
      BY <1>1, <2>1, <3>3, <3>4
    <3> QED BY <1>1, <3>4, <3>5, <3>6
  <2> QED BY <1>1, <2>1, <2>2, <2>3
<1> QED BY <1>2, <1>3, <1>1

\* The packs that may name one of the first n payments.
RowsUpTo(n) == [status : PackStatuses, payment : 0..n, lapsed : BOOLEAN, paidAt : Nat,
                refunded : 0..PackPrice, owed : 0..PackPrice]

\* What the types say of one pack and of one payment.
LEMMA PackTyped ==
  ASSUME PackTypeOK
  PROVE  /\ charges \in Seq(ChargeRows) /\ Len(charges) \in Nat
         /\ DOMAIN charges = 1..Len(charges)
         /\ \A p \in DOMAIN charges : charges[p] \in ChargeRows
         /\ pack \in [Buyers -> RowsUpTo(Len(charges))]
         /\ \A b \in Buyers : pack[b] \in RowsUpTo(Len(charges))
         /\ \A b \in Buyers : pack[b].payment # 0 => pack[b].payment \in DOMAIN charges
<1>1. charges \in Seq(ChargeRows) /\ pack \in [Buyers -> RowsUpTo(Len(charges))]
  BY DEF PackTypeOK, ChargeRows, RowsUpTo
<1>2. Len(charges) \in Nat /\ DOMAIN charges = 1..Len(charges)
  BY <1>1
<1>3. \A p \in DOMAIN charges : charges[p] \in ChargeRows
  BY ONLY <1>1, <1>2
<1>4. \A b \in Buyers : pack[b] \in RowsUpTo(Len(charges))
  BY <1>1
<1>5. \A b \in Buyers : pack[b].payment \in 0..Len(charges)
  BY <1>4 DEF RowsUpTo
<1> QED BY <1>1, <1>2, <1>3, <1>4, <1>5

\* A payment that is opened leaves the others where they are.
LEMMA ChargeOpened ==
  ASSUME charges \in Seq(ChargeRows), NEW b \in Buyers
  PROVE  /\ Append(charges, OpenCharge(b)) \in Seq(ChargeRows)
         /\ Len(Append(charges, OpenCharge(b))) = Len(charges) + 1
         /\ \A p \in DOMAIN charges : Append(charges, OpenCharge(b))[p] = charges[p]
         /\ Append(charges, OpenCharge(b))[Len(charges) + 1] = OpenCharge(b)
         /\ OpenCharge(b).buyer = b /\ OpenCharge(b).status = "PENDING"
<1>1. FALSE \in BOOLEAN
  OBVIOUS
<1>2. /\ OpenCharge(b) \in ChargeRows
      /\ OpenCharge(b).buyer = b /\ OpenCharge(b).status = "PENDING"
  BY <1>1, Zenon DEF OpenCharge, ChargeRows
<1> QED BY <1>2

\* A step that leaves the packs that are paid for alone, and names only a
\* payment it opens.
LEMMA UnpaidMoves ==
  ASSUME PackInv, NEW b \in Buyers,
         pack' \in [Buyers -> RowsUpTo(Len(charges'))], Held(pack') <= SeatCapacity,
         \A c \in Buyers : pack[c].status = "PAID" \/ pack'[c].status = "PAID"
                             => pack'[c] = pack[c],
         \A c \in Buyers : \/ pack'[c].payment = pack[c].payment
                           \/ /\ c = b /\ pack'[c].payment = Len(charges) + 1
                              /\ charges' = Append(charges, OpenCharge(b)),
         \A c \in Buyers : pack'[c].paidAt <= packClock,
         charges' = charges \/ charges' = Append(charges, OpenCharge(b)),
         UNCHANGED <<flying, observable, ends, provider, seat, prize, asked, packClock,
                     leftAlone, late>>
  PROVE  PackInv'
<1>1. PackTypeOK /\ SeatsAreKept /\ PackMoneyAccounted /\ CloseIsMadeGood /\ OwnPayments
      /\ PackTimes /\ TakenBack /\ PutOutMadeGood /\ Seated
  BY DEF PackInv
<1>2. /\ charges \in Seq(ChargeRows) /\ Len(charges) \in Nat
      /\ DOMAIN charges = 1..Len(charges)
      /\ \A c \in Buyers : pack[c].payment # 0 => pack[c].payment \in DOMAIN charges
  BY <1>1, PackTyped
<1>3. /\ charges' \in Seq(ChargeRows) /\ DOMAIN charges' = 1..Len(charges')
      /\ \A p \in DOMAIN charges : charges'[p] = charges[p] /\ p \in DOMAIN charges'
      /\ \A p \in DOMAIN charges' : p \in DOMAIN charges \/ charges'[p].status = "PENDING"
      /\ charges' # charges => /\ charges'[Len(charges) + 1].buyer = b
  <2>1. CASE charges' = charges
    BY <1>2, <2>1
  <2>2. CASE charges' = Append(charges, OpenCharge(b))
    <3>1. /\ charges' \in Seq(ChargeRows) /\ Len(charges') = Len(charges) + 1
          /\ \A p \in DOMAIN charges : charges'[p] = charges[p]
          /\ charges'[Len(charges) + 1].buyer = b
          /\ charges'[Len(charges) + 1].status = "PENDING"
      BY <1>2, <2>2, ChargeOpened
    <3>2. DOMAIN charges' = 1..(Len(charges) + 1)
      BY <3>1
    <3> QED BY <1>2, <3>1, <3>2
  <2> QED BY <2>1, <2>2
<1>4. PackTypeOK'
  BY <1>1, <1>3 DEF PackTypeOK, ChargeRows, RowsUpTo
<1>5. SeatsAreKept'
  BY <1>1 DEF SeatsAreKept, Joined
<1>6. PackMoneyAccounted'
  <2>1. ASSUME NEW p \in DOMAIN charges', charges'[p].status = "CAPTURED"
        PROVE  LET carried == pack'[charges'[p].buyer].payment = p
                              /\ pack'[charges'[p].buyer].status = "PAID"
               IN charges'[p].seatless = ~carried /\ charges'[p].earned = carried
    <3>1. p \in DOMAIN charges /\ charges'[p] = charges[p]
      BY <1>3, <2>1
    <3>2. charges[p].buyer \in Buyers
      BY <3>1, <1>1, PackTyped DEF ChargeRows
    <3>3. pack'[charges[p].buyer].payment = p /\ pack'[charges[p].buyer].status = "PAID"
          <=> pack[charges[p].buyer].payment = p /\ pack[charges[p].buyer].status = "PAID"
      BY <3>2
    <3> QED BY <1>1, <2>1, <3>1, <3>3 DEF PackMoneyAccounted
  <2>2. ASSUME NEW c \in Buyers, pack'[c].status = "PAID"
        PROVE  IF pack'[c].payment = 0 THEN prize'[c] = "REDEEMED"
               ELSE charges'[pack'[c].payment].status \in {"CAPTURED", "REFUNDED"}
    <3>1. pack'[c] = pack[c] /\ prize' = prize
      BY <2>2
    <3>2. IF pack[c].payment = 0 THEN prize[c] = "REDEEMED"
          ELSE charges[pack[c].payment].status \in {"CAPTURED", "REFUNDED"}
      BY <1>1, <2>2, <3>1 DEF PackMoneyAccounted
    <3>3. pack[c].payment # 0 => charges'[pack[c].payment] = charges[pack[c].payment]
      BY <1>2, <1>3
    <3> QED BY ONLY <3>1, <3>2, <3>3
  <2> QED BY <2>1, <2>2 DEF PackMoneyAccounted
<1>7. CloseIsMadeGood'
  BY <1>1 DEF CloseIsMadeGood
<1>8. OwnPayments'
  <2> SUFFICES ASSUME NEW c \in Buyers, pack'[c].payment # 0
               PROVE  charges'[pack'[c].payment].buyer = c
    BY DEF OwnPayments
  <2>1. CASE pack'[c].payment = pack[c].payment
    <3>1. charges'[pack[c].payment] = charges[pack[c].payment]
      BY <1>2, <1>3, <2>1
    <3>2. charges[pack[c].payment].buyer = c
      BY <1>1, <2>1 DEF OwnPayments
    <3> QED BY <2>1, <3>1, <3>2
  <2>2. CASE /\ c = b /\ pack'[c].payment = Len(charges) + 1
             /\ charges' = Append(charges, OpenCharge(b))
    BY <1>2, <2>2, ChargeOpened
  <2> QED BY <2>1, <2>2
<1>9. PackTimes' /\ Seated'
  BY <1>1 DEF PackTimes, Seated
<1>10. TakenBack'
  BY <1>1, <1>2, <1>3 DEF TakenBack
<1>11. PutOutMadeGood'
  BY <1>1 DEF PutOutMadeGood, Seated
<1> QED BY <1>4, <1>5, <1>6, <1>7, <1>8, <1>9, <1>10, <1>11 DEF PackInv

\* Holds that have lapsed are expired, and nothing else changes.
LEMMA ExpiredPacks ==
  ASSUME PackTypeOK
  PROVE  /\ ExpireLapsedPacks \in [Buyers -> RowsUpTo(Len(charges))]
         /\ Held(ExpireLapsedPacks) <= Held(pack)
         /\ \A c \in Buyers :
              /\ ExpireLapsedPacks[c].payment = pack[c].payment
              /\ ExpireLapsedPacks[c].paidAt = pack[c].paidAt
              /\ pack[c].status = "PAID" \/ ExpireLapsedPacks[c].status = "PAID"
                   => ExpireLapsedPacks[c] = pack[c]
<1>1. \A c \in Buyers : pack[c] \in RowsUpTo(Len(charges))
  BY PackTyped
<1>2. ASSUME NEW c \in Buyers
      PROVE  /\ ExpireLapsedPacks[c] \in RowsUpTo(Len(charges))
             /\ ExpireLapsedPacks[c].payment = pack[c].payment
             /\ ExpireLapsedPacks[c].paidAt = pack[c].paidAt
             /\ pack[c].status = "PAID" \/ ExpireLapsedPacks[c].status = "PAID"
                  => ExpireLapsedPacks[c] = pack[c]
             /\ ExpireLapsedPacks[c].status \in SeatHolding => pack[c].status \in SeatHolding
  <2> DEFINE row == [pack[c] EXCEPT !.status = "EXPIRED", !.lapsed = FALSE]
  <2>1. FALSE \in BOOLEAN /\ "EXPIRED" \in PackStatuses
    BY DEF PackStatuses
  <2>2. /\ row \in RowsUpTo(Len(charges)) /\ row.payment = pack[c].payment
        /\ row.paidAt = pack[c].paidAt /\ row.status = "EXPIRED"
    BY <1>1, <2>1, Zenon DEF RowsUpTo
  <2>3. \/ ExpireLapsedPacks[c] = row /\ pack[c].status = "PENDING_PAYMENT"
        \/ ExpireLapsedPacks[c] = pack[c]
    BY DEF ExpireLapsedPacks
  <2> HIDE DEF row
  <2>4. CASE ExpireLapsedPacks[c] = pack[c]
    BY <1>1, <2>4
  <2>5. CASE ExpireLapsedPacks[c] = row /\ pack[c].status = "PENDING_PAYMENT"
    BY <2>2, <2>5 DEF SeatHolding
  <2> QED BY <2>3, <2>4, <2>5
<1>3. ExpireLapsedPacks \in [Buyers -> RowsUpTo(Len(charges))]
  <2>1. ExpireLapsedPacks = [c \in Buyers |-> ExpireLapsedPacks[c]]
    BY DEF ExpireLapsedPacks
  <2> QED BY <1>2, <2>1
<1>4. Held(ExpireLapsedPacks) <= Held(pack)
  <2>1. CASE Buyers = {}
    <3>1. HeldSet(ExpireLapsedPacks) = {} /\ HeldSet(pack) = {}
      BY <2>1 DEF HeldSet
    <3> QED BY <3>1, FS_EmptySet DEF Held, HeldSet
  <2>2. CASE Buyers # {}
    BY <1>2, <2>2, HeldCounts
  <2> QED BY <2>1, <2>2
<1> QED BY <1>2, <1>3, <1>4

\* A purchase with money keeps the invariant.
LEMMA PurchaseStep ==
  ASSUME PackInv, NEW b \in Buyers, PurchaseObserverPack(b)
  PROVE  PackInv'
<1> DEFINE packs == ExpireLapsedPacks
<1>1. PackTypeOK /\ SeatsAreKept /\ PackTimes /\ packClock \in Nat
  BY DEF PackInv, PackTypeOK
<1>2. /\ packs \in [Buyers -> RowsUpTo(Len(charges))] /\ Held(packs) <= Held(pack)
      /\ \A c \in Buyers :
           /\ packs[c].payment = pack[c].payment /\ packs[c].paidAt = pack[c].paidAt
           /\ pack[c].status = "PAID" \/ packs[c].status = "PAID" => packs[c] = pack[c]
  BY <1>1, ExpiredPacks
<1>3. UNCHANGED <<flying, observable, ends, provider, seat, prize, asked, packClock,
                  leftAlone, late>>
  BY DEF PurchaseObserverPack
<1>4. /\ Held(pack) \in Nat /\ Held(packs) \in Nat /\ Held(pack) <= SeatCapacity
      /\ SeatCapacity \in Nat
  BY <1>1, HeldCounts, PackAssumption DEF SeatsAreKept
<1>5. \/ pack' = packs /\ UNCHANGED charges
      \/ /\ packs[b].status \notin SeatHolding /\ Held(packs) < SeatCapacity
         /\ charges' = Append(charges, OpenCharge(b)) /\ pack' = HoldSeat(packs, b)
  BY <1>4 DEF PurchaseObserverPack
<1> HIDE DEF packs
<1>6. CASE pack' = packs /\ UNCHANGED charges
  <2>1. Held(pack') <= SeatCapacity
    BY <1>2, <1>4, <1>6
  <2>2. \A c \in Buyers : pack'[c].paidAt <= packClock
    BY <1>1, <1>2, <1>6 DEF PackTimes
  <2> QED BY <1>2, <1>3, <1>6, <2>1, <2>2, UnpaidMoves
<1>7. CASE /\ packs[b].status \notin SeatHolding /\ Held(packs) < SeatCapacity
           /\ charges' = Append(charges, OpenCharge(b)) /\ pack' = HoldSeat(packs, b)
  <2> DEFINE n == Len(charges) + 1
             row == [packs[b] EXCEPT !.status = "PENDING_PAYMENT", !.payment = n, !.paidAt = 0]
  <2>1. Len(charges') = n /\ Len(charges) \in Nat
    BY <1>1, <1>7, PackTyped, ChargeOpened
  <2>2. packs[b] \in RowsUpTo(Len(charges))
    BY <1>2
  <2>3. row \in RowsUpTo(n) /\ row.payment = n /\ row.paidAt = 0 /\ row.status = "PENDING_PAYMENT"
    <3>1. n \in 0..n /\ 0 \in Nat /\ "PENDING_PAYMENT" \in PackStatuses
      BY <2>1 DEF PackStatuses
    <3> HIDE DEF n
    <3> QED BY <2>2, <3>1, Zenon DEF RowsUpTo
  <2>4. pack' = [packs EXCEPT ![b] = row]
    BY <1>2, <1>7 DEF HoldSeat
  <2> HIDE DEF row
  <2>5. pack'[b] = row /\ \A c \in Buyers : c # b => pack'[c] = packs[c]
    BY <1>2, <2>4
  <2>6. \A c \in Buyers : packs[c] \in RowsUpTo(n)
    <3>1. 0..Len(charges) \subseteq 0..n
      BY <2>1
    <3>2. \A c \in Buyers : packs[c] \in RowsUpTo(Len(charges))
      BY <1>2
    <3> HIDE DEF n
    <3> QED BY <3>1, <3>2 DEF RowsUpTo
  <2>7. pack' \in [Buyers -> RowsUpTo(Len(charges'))]
    BY <1>2, <2>1, <2>3, <2>4, <2>6
  <2>8. Held(pack') <= Held(packs) + 1 /\ Held(pack') \in Nat
    BY <2>5, HeldCounts
  <2>9. Held(pack') <= SeatCapacity
    BY <1>4, <1>7, <2>8
  <2>10. \A c \in Buyers : pack'[c].paidAt <= packClock
    BY <1>1, <1>2, <2>3, <2>5 DEF PackTimes
  <2>11. \A c \in Buyers : pack[c].status = "PAID" \/ pack'[c].status = "PAID"
                             => pack'[c] = pack[c]
    BY <1>2, <1>7, <2>3, <2>5 DEF SeatHolding
  <2>12. \A c \in Buyers : \/ pack'[c].payment = pack[c].payment
                           \/ c = b /\ pack'[c].payment = Len(charges) + 1
    BY <1>2, <2>3, <2>5
  <2> HIDE DEF n
  <2> QED BY <1>3, <1>7, <2>7, <2>9, <2>10, <2>11, <2>12, UnpaidMoves
<1> QED BY <1>5, <1>6, <1>7

\* A hold that lapses keeps the invariant.
LEMMA HoldLapsesStep ==
  ASSUME PackInv, NEW b \in Buyers, PackHoldLapses(b)
  PROVE  PackInv'
<1> DEFINE row == [pack[b] EXCEPT !.lapsed = TRUE]
<1>1. PackTypeOK /\ SeatsAreKept /\ PackTimes
  BY DEF PackInv
<1>2. /\ pack \in [Buyers -> RowsUpTo(Len(charges))] /\ pack[b] \in RowsUpTo(Len(charges))
      /\ pack[b].status = "PENDING_PAYMENT"
  BY <1>1, PackTyped DEF PackHoldLapses
<1>3. TRUE \in BOOLEAN
  OBVIOUS
<1>4. /\ row \in RowsUpTo(Len(charges)) /\ row.status = pack[b].status
      /\ row.payment = pack[b].payment /\ row.paidAt = pack[b].paidAt
  BY <1>2, <1>3, Zenon DEF RowsUpTo
<1>5. pack' = [pack EXCEPT ![b] = row]
  BY <1>2 DEF PackHoldLapses
<1>6. /\ charges' = charges
      /\ UNCHANGED <<flying, observable, ends, provider, seat, prize, asked, packClock,
                     leftAlone, late>>
  BY DEF PackHoldLapses
<1> HIDE DEF row
<1>7. pack'[b] = row /\ \A c \in Buyers : c # b => pack'[c] = pack[c]
  BY <1>2, <1>5
<1>8. pack' \in [Buyers -> RowsUpTo(Len(charges'))]
  BY <1>2, <1>4, <1>5, <1>6
<1>9. Held(pack') <= SeatCapacity
  <2>1. Held(pack') <= Held(pack) /\ Held(pack') \in Nat /\ Held(pack) \in Nat
    BY <1>4, <1>7, HeldCounts
  <2> QED BY <1>1, <2>1, PackAssumption DEF SeatsAreKept
<1>10. \A c \in Buyers : pack'[c].paidAt <= packClock
  BY <1>1, <1>4, <1>7 DEF PackTimes
<1>11. \A c \in Buyers : /\ pack'[c].payment = pack[c].payment
                         /\ pack[c].status = "PAID" \/ pack'[c].status = "PAID"
                              => pack'[c] = pack[c]
  BY <1>2, <1>4, <1>7
<1> QED BY <1>6, <1>8, <1>9, <1>10, <1>11, UnpaidMoves

\* A seat paid for with a prize keeps the invariant.
LEMMA PrizeStep ==
  ASSUME PackInv, NEW b \in Buyers, SeatPaidByPrize(b)
  PROVE  PackInv'
<1> DEFINE packs == ExpireLapsedPacks
<1>1. PackTypeOK /\ SeatsAreKept /\ PackMoneyAccounted /\ CloseIsMadeGood /\ OwnPayments
      /\ PackTimes /\ TakenBack /\ PutOutMadeGood /\ Seated /\ packClock \in Nat
  BY DEF PackInv, PackTypeOK
<1>2. /\ packs \in [Buyers -> RowsUpTo(Len(charges))] /\ Held(packs) <= Held(pack)
      /\ \A c \in Buyers :
           /\ packs[c].payment = pack[c].payment /\ packs[c].paidAt = pack[c].paidAt
           /\ pack[c].status = "PAID" \/ packs[c].status = "PAID" => packs[c] = pack[c]
  BY <1>1, ExpiredPacks
<1>3. UNCHANGED <<flying, observable, ends, provider, charges, seat, asked, packClock,
                  leftAlone, late>>
  BY DEF SeatPaidByPrize
<1>4. /\ Held(pack) \in Nat /\ Held(packs) \in Nat /\ Held(pack) <= SeatCapacity
      /\ SeatCapacity \in Nat
  BY <1>1, HeldCounts, PackAssumption DEF SeatsAreKept
<1>5. \/ pack' = packs /\ UNCHANGED prize
      \/ /\ packs[b].status \notin SeatHolding /\ Held(packs) < SeatCapacity
         /\ prize' = [prize EXCEPT ![b] = "REDEEMED"]
         /\ pack' = [packs EXCEPT ![b].status = "PAID", ![b].payment = 0, ![b].paidAt = packClock]
  BY <1>4 DEF SeatPaidByPrize
<1> HIDE DEF packs
<1>6. CASE pack' = packs /\ UNCHANGED prize
  <2>1. Held(pack') <= SeatCapacity
    BY <1>2, <1>4, <1>6
  <2>2. \A c \in Buyers : pack'[c].paidAt <= packClock
    BY <1>1, <1>2, <1>6 DEF PackTimes
  <2> QED BY <1>2, <1>3, <1>6, <2>1, <2>2, UnpaidMoves
<1>7. CASE /\ packs[b].status \notin SeatHolding /\ Held(packs) < SeatCapacity
           /\ prize' = [prize EXCEPT ![b] = "REDEEMED"]
           /\ pack' = [packs EXCEPT ![b].status = "PAID", ![b].payment = 0, ![b].paidAt = packClock]
  <2> DEFINE n == Len(charges)
             row == [packs[b] EXCEPT !.status = "PAID", !.payment = 0, !.paidAt = packClock]
  <2>1. n \in Nat /\ \A p \in DOMAIN charges : charges[p] \in ChargeRows /\ p # 0
    BY <1>1, PackTyped
  <2>2. row \in RowsUpTo(n) /\ row.payment = 0 /\ row.paidAt = packClock /\ row.status = "PAID"
    <3>1. 0 \in 0..n /\ "PAID" \in PackStatuses /\ packs[b] \in RowsUpTo(n)
      BY <1>2, <2>1 DEF PackStatuses
    <3> HIDE DEF n
    <3> QED BY <1>1, <3>1, Zenon DEF RowsUpTo
  <2>3. pack' = [packs EXCEPT ![b] = row]
    BY <1>2, <1>7
  <2> HIDE DEF row, n
  <2>4. pack'[b] = row /\ \A c \in Buyers : c # b => pack'[c] = packs[c]
    BY <1>2, <2>3
  <2>5. pack' \in [Buyers -> RowsUpTo(Len(charges'))]
    BY <1>2, <1>3, <2>2, <2>3 DEF n
  <2>6. Held(pack') <= SeatCapacity
    <3>1. Held(pack') <= Held(packs) + 1 /\ Held(pack') \in Nat
      BY <2>4, HeldCounts
    <3> QED BY <1>4, <1>7, <3>1
  <2>7. pack[b].status # "PAID"
    BY <1>2, <1>7 DEF SeatHolding
  <2>8. \A c \in Buyers : c # b /\ (pack[c].status = "PAID" \/ pack'[c].status = "PAID")
                            => pack'[c] = pack[c]
    BY <1>2, <2>4
  <2>9. /\ prize \in [Buyers -> {"none", "ACTIVE", "REDEEMED"}]
        /\ prize' \in [Buyers -> {"none", "ACTIVE", "REDEEMED"}] /\ prize'[b] = "REDEEMED"
        /\ \A c \in Buyers : c # b => prize'[c] = prize[c]
    BY <1>1, <1>7 DEF PackTypeOK
  <2>10. PackTypeOK'
    BY <1>1, <1>3, <2>5, <2>9 DEF PackTypeOK, RowsUpTo
  <2>11. SeatsAreKept'
    BY <1>1, <1>3, <2>6, <2>7, <2>8 DEF SeatsAreKept, Joined
  <2>12. PackMoneyAccounted'
    <3>1. ASSUME NEW p \in DOMAIN charges, charges[p].status = "CAPTURED"
          PROVE  LET carried == pack'[charges[p].buyer].payment = p
                                /\ pack'[charges[p].buyer].status = "PAID"
                 IN charges[p].seatless = ~carried /\ charges[p].earned = carried
      <4>1. charges[p].buyer \in Buyers /\ p # 0
        BY <2>1 DEF ChargeRows
      <4>2. pack'[charges[p].buyer].payment = p /\ pack'[charges[p].buyer].status = "PAID"
            <=> pack[charges[p].buyer].payment = p /\ pack[charges[p].buyer].status = "PAID"
        BY <2>2, <2>4, <2>7, <2>8, <4>1
      <4> QED BY <1>1, <3>1, <4>2 DEF PackMoneyAccounted
    <3>2. ASSUME NEW c \in Buyers, pack'[c].status = "PAID"
          PROVE  IF pack'[c].payment = 0 THEN prize'[c] = "REDEEMED"
                 ELSE charges'[pack'[c].payment].status \in {"CAPTURED", "REFUNDED"}
      <4>1. CASE c = b
        BY <2>2, <2>4, <2>9, <4>1
      <4>2. CASE c # b
        <5>1. pack'[c] = pack[c] /\ prize'[c] = prize[c]
          BY <2>8, <2>9, <3>2, <4>2
        <5> QED BY <1>1, <1>3, <3>2, <5>1 DEF PackMoneyAccounted
      <4> QED BY <4>1, <4>2
    <3> QED BY <1>3, <3>1, <3>2 DEF PackMoneyAccounted
  <2>13. CloseIsMadeGood'
    BY <1>1, <1>3, <2>2, <2>4, <2>8 DEF CloseIsMadeGood
  <2>14. OwnPayments'
    BY <1>1, <1>2, <1>3, <2>2, <2>4 DEF OwnPayments
  <2>15. PackTimes'
    BY <1>1, <1>2, <1>3, <2>2, <2>4 DEF PackTimes
  <2>16. TakenBack'
    BY <1>1, <1>3, <2>2, <2>4, <2>8 DEF TakenBack
  <2>17. Seated'
    BY <1>1, <1>3, <2>7, <2>8 DEF Seated
  <2>18. PutOutMadeGood'
    BY <1>1, <1>3, <2>7, <2>8 DEF PutOutMadeGood, Seated
  <2> QED BY <2>10, <2>11, <2>12, <2>13, <2>14, <2>15, <2>16, <2>17, <2>18 DEF PackInv
<1> QED BY <1>5, <1>6, <1>7

\* A payment that is pending is no paid pack's.
LEMMA PendingIsUnpaid ==
  ASSUME PackInv, NEW p \in DOMAIN charges, charges[p].status = "PENDING",
         NEW c \in Buyers, pack[c].payment = p
  PROVE  c = charges[p].buyer /\ pack[c].status # "PAID" /\ seat[c] = "none" /\ p # 0
<1>1. p # 0
  BY PackTyped DEF PackInv
<1>2. c = charges[p].buyer /\ pack[c].status # "PAID"
  BY <1>1 DEF PackInv, PackMoneyAccounted, OwnPayments
<1> QED BY <1>1, <1>2 DEF PackInv, Seated

\* A payment the provider settles, with what that does to its buyer's pack.
LEMMA SettledMoves ==
  ASSUME PackInv, NEW p \in DOMAIN charges, charges[p].status = "PENDING",
         NEW row \in ChargeRows, NEW b \in Buyers, b = charges[p].buyer, row.buyer = b,
         row.status \in {"CAPTURED", "FAILED"}, charges' = [charges EXCEPT ![p] = row],
         pack' \in [Buyers -> RowsUpTo(Len(charges))], Held(pack') <= SeatCapacity,
         \A c \in Buyers : c # b => pack'[c] = pack[c],
         pack'[b].payment = pack[b].payment, pack'[b].paidAt <= packClock,
         pack[b].status = "PAID" => pack'[b] = pack[b],
         pack'[b].status = "PAID" =>
           \/ pack'[b] = pack[b]
           \/ pack[b].payment = p /\ row.status = "CAPTURED" /\ (observable \/ b \in late'),
         row.status = "CAPTURED" =>
           /\ row.seatless = ~(pack'[b].payment = p /\ pack'[b].status = "PAID")
           /\ row.earned = (pack'[b].payment = p /\ pack'[b].status = "PAID"),
         late \subseteq late', late' \subseteq Buyers,
         UNCHANGED <<flying, observable, ends, provider, seat, prize, asked, packClock, leftAlone>>
  PROVE  PackInv'
<1>1. PackTypeOK /\ SeatsAreKept /\ PackMoneyAccounted /\ CloseIsMadeGood /\ OwnPayments
      /\ PackTimes /\ TakenBack /\ PutOutMadeGood /\ Seated
  BY DEF PackInv
<1>2. /\ charges \in Seq(ChargeRows) /\ Len(charges) \in Nat /\ DOMAIN charges = 1..Len(charges)
      /\ \A q \in DOMAIN charges : charges[q] \in ChargeRows
      /\ \A c \in Buyers : pack[c].payment # 0 => pack[c].payment \in DOMAIN charges
  BY <1>1, PackTyped
<1>3. /\ charges' \in Seq(ChargeRows) /\ Len(charges') = Len(charges)
      /\ DOMAIN charges' = DOMAIN charges
      /\ charges'[p] = row /\ \A q \in DOMAIN charges : q # p => charges'[q] = charges[q]
  BY <1>2
<1>4. \A c \in Buyers : c # b => pack[c].payment # p
  BY PendingIsUnpaid
<1>5. pack[b].payment = p => pack[b].status # "PAID" /\ seat[b] = "none"
  BY PendingIsUnpaid
<1>6. \A c \in Buyers : pack'[c].payment = pack[c].payment
  OBVIOUS
<1>7. PackTypeOK'
  BY <1>1, <1>3 DEF PackTypeOK, ChargeRows, RowsUpTo
<1>8. SeatsAreKept'
  BY <1>1 DEF SeatsAreKept, Joined
<1>9. PackMoneyAccounted'
  <2>1. ASSUME NEW q \in DOMAIN charges, charges'[q].status = "CAPTURED"
        PROVE  LET carried == pack'[charges'[q].buyer].payment = q
                              /\ pack'[charges'[q].buyer].status = "PAID"
               IN charges'[q].seatless = ~carried /\ charges'[q].earned = carried
    <3>1. CASE q = p
      BY <1>3, <2>1, <3>1
    <3>2. CASE q # p
      <4>1. charges'[q] = charges[q] /\ charges[q].buyer \in Buyers
        BY <1>2, <1>3, <3>2 DEF ChargeRows
      <4>2. pack'[charges[q].buyer].payment = q /\ pack'[charges[q].buyer].status = "PAID"
            <=> pack[charges[q].buyer].payment = q /\ pack[charges[q].buyer].status = "PAID"
        BY <3>2, <4>1
      <4> QED BY <1>1, <2>1, <4>1, <4>2 DEF PackMoneyAccounted
    <3> QED BY <3>1, <3>2
  <2>2. ASSUME NEW c \in Buyers, pack'[c].status = "PAID"
        PROVE  IF pack'[c].payment = 0 THEN prize'[c] = "REDEEMED"
               ELSE charges'[pack'[c].payment].status \in {"CAPTURED", "REFUNDED"}
    <3>1. CASE pack'[c] = pack[c]
      <4>1. IF pack[c].payment = 0 THEN prize[c] = "REDEEMED"
            ELSE charges[pack[c].payment].status \in {"CAPTURED", "REFUNDED"}
        BY <1>1, <2>2, <3>1 DEF PackMoneyAccounted
      <4>2. pack[c].payment # 0 => charges'[pack[c].payment] = charges[pack[c].payment]
        BY <1>2, <1>3, <1>4, <1>5, <2>2, <3>1
      <4> QED BY <3>1, <4>1, <4>2
    <3>2. CASE c = b /\ pack[b].payment = p /\ row.status = "CAPTURED"
      <4>1. p # 0
        BY <1>2
      <4> QED BY <1>3, <3>2, <4>1
    <3> QED BY <2>2, <3>1, <3>2
  <2> QED BY <1>3, <2>1, <2>2 DEF PackMoneyAccounted
<1>10. CloseIsMadeGood'
  BY <1>1 DEF CloseIsMadeGood
<1>11. OwnPayments'
  <2> SUFFICES ASSUME NEW c \in Buyers, pack[c].payment # 0
               PROVE  charges'[pack[c].payment].buyer = c
    BY <1>6 DEF OwnPayments
  <2>1. pack[c].payment \in DOMAIN charges /\ charges[pack[c].payment].buyer = c
    BY <1>1, <1>2 DEF OwnPayments
  <2> QED BY <1>3, <1>4, <2>1
<1>12. PackTimes'
  BY <1>1 DEF PackTimes
<1>13. TakenBack'
  <2> SUFFICES ASSUME NEW c \in Buyers, pack'[c].status = "PAID", pack'[c].payment # 0,
                      charges'[pack'[c].payment].status = "REFUNDED"
               PROVE  pack'[c].refunded > 0
    BY DEF TakenBack
  <2>1. pack[c].payment # p /\ pack[c].payment \in DOMAIN charges
    BY <1>2, <1>3, <1>6
  <2>2. pack'[c] = pack[c] /\ charges'[pack[c].payment] = charges[pack[c].payment]
    BY <1>3, <2>1
  <2> QED BY <1>1, <2>2 DEF TakenBack
<1>14. Seated'
  BY <1>1 DEF Seated
<1>15. PutOutMadeGood'
  BY <1>1 DEF PutOutMadeGood, Seated
<1> QED BY <1>7, <1>8, <1>9, <1>10, <1>11, <1>12, <1>13, <1>14, <1>15 DEF PackInv

\* A payment that is captured keeps the invariant, with a seat or without.
LEMMA CapturedStep ==
  ASSUME PackInv, NEW p \in DOMAIN charges, SettleCaptured(p)
  PROVE  PackInv'
<1> DEFINE b == charges[p].buyer
           seated == LockOwnedPack(p) /\ CanSeat(b)
           paid == [pack[b] EXCEPT !.status = "PAID", !.lapsed = FALSE, !.paidAt = packClock]
           kept == [charges[p] EXCEPT !.status = "CAPTURED", !.earned = TRUE, !.seatless = FALSE]
           lost == [charges[p] EXCEPT !.status = "CAPTURED", !.earned = FALSE, !.seatless = TRUE]
<1>1. PackTypeOK /\ SeatsAreKept /\ PackTimes /\ packClock \in Nat /\ late \subseteq Buyers
  BY DEF PackInv, PackTypeOK
<1>2. /\ charges \in Seq(ChargeRows) /\ charges[p] \in ChargeRows
      /\ pack \in [Buyers -> RowsUpTo(Len(charges))]
      /\ \A c \in Buyers : pack[c] \in RowsUpTo(Len(charges))
  BY <1>1, PackTyped
<1>3. b \in Buyers
  BY <1>2 DEF ChargeRows
<1>4. /\ charges[p].status = "PENDING"
      /\ charges' = [charges EXCEPT ![p].status = "CAPTURED", ![p].earned = seated,
                                    ![p].seatless = ~seated]
      /\ pack' = IF seated THEN [pack EXCEPT ![b].status = "PAID", ![b].lapsed = FALSE,
                                             ![b].paidAt = packClock]
                 ELSE pack
      /\ late' = IF observable THEN late ELSE late \cup {b}
      /\ UNCHANGED <<flying, observable, ends, provider, seat, prize, asked, packClock, leftAlone>>
  BY DEF SettleCaptured
<1>5. TRUE \in BOOLEAN /\ FALSE \in BOOLEAN /\ "PAID" \in PackStatuses
  BY DEF PackStatuses
<1>6. /\ kept \in ChargeRows /\ kept.buyer = b /\ kept.status = "CAPTURED"
      /\ kept.earned = TRUE /\ kept.seatless = FALSE
      /\ lost \in ChargeRows /\ lost.buyer = b /\ lost.status = "CAPTURED"
      /\ lost.earned = FALSE /\ lost.seatless = TRUE
  BY <1>2, <1>5, Zenon DEF ChargeRows
<1>7. /\ paid \in RowsUpTo(Len(charges)) /\ paid.status = "PAID"
      /\ paid.payment = pack[b].payment /\ paid.paidAt = packClock
  BY <1>1, <1>2, <1>3, <1>5, Zenon DEF RowsUpTo
<1>8. late \subseteq late' /\ late' \subseteq Buyers /\ (observable \/ b \in late')
  BY <1>1, <1>3, <1>4
<1>9. CASE seated
  <2>1. seated = TRUE /\ (~seated) = FALSE
    BY <1>9, Zenon
  <2>2. charges' = [charges EXCEPT ![p] = kept] /\ pack' = [pack EXCEPT ![b] = paid]
    BY <1>2, <1>3, <1>4, <1>9, <2>1
  <2>3. pack[b].payment = p
    BY <1>9 DEF LockOwnedPack
  <2>4. pack[b].status # "PAID"
    BY <1>3, <1>4, <2>3, PendingIsUnpaid
  <2>5. pack[b].status = "PENDING_PAYMENT" \/ Held(pack) < SeatCapacity
    BY <1>9, <2>4 DEF CanSeat
  <2> HIDE DEF paid, kept, lost, b, seated
  <2>6. pack'[b] = paid /\ \A c \in Buyers : c # b => pack'[c] = pack[c]
    BY <1>2, <1>3, <2>2
  <2>7. pack' \in [Buyers -> RowsUpTo(Len(charges))]
    BY <1>2, <1>7, <2>2
  <2>8. Held(pack') <= SeatCapacity
    <3>1. /\ Held(pack') \in Nat /\ Held(pack) \in Nat /\ Held(pack') <= Held(pack) + 1
          /\ pack[b].status = "PENDING_PAYMENT" => Held(pack') <= Held(pack)
      BY <1>3, <2>6, HeldCounts DEF SeatHolding
    <3> QED BY <1>1, <2>5, <3>1, PackAssumption DEF SeatsAreKept
  <2>9. pack'[b].payment = pack[b].payment /\ pack'[b].paidAt <= packClock
    BY <1>1, <1>7, <2>6
  <2>10. /\ kept.seatless = ~(pack'[b].payment = p /\ pack'[b].status = "PAID")
         /\ kept.earned = (pack'[b].payment = p /\ pack'[b].status = "PAID")
    BY <1>6, <1>7, <2>3, <2>6
  <2>11. charges[p].buyer = b
    BY DEF b
  <2>12. kept \in ChargeRows /\ kept.buyer = b /\ kept.status = "CAPTURED"
    BY <1>6
  <2>13. /\ charges[p].status = "PENDING"
         /\ UNCHANGED <<flying, observable, ends, provider, seat, prize, asked, packClock, leftAlone>>
    BY <1>4
  <2>14. charges' = [charges EXCEPT ![p] = kept]
    BY <2>2
  <2> QED BY ONLY PackInv, p \in DOMAIN charges, <1>3, <1>8, <2>3, <2>4, <2>6, <2>7, <2>8, <2>9,
             <2>10, <2>11, <2>12, <2>13, <2>14, SettledMoves
<1>10. CASE ~seated
  <2>1. seated = FALSE /\ (~seated) = TRUE
    BY <1>10, Zenon
  <2>2. charges' = [charges EXCEPT ![p] = lost] /\ pack' = pack
    BY <1>2, <1>4, <1>10, <2>1
  <2>3. ~(pack[b].payment = p /\ pack[b].status = "PAID")
    BY <1>10 DEF LockOwnedPack, CanSeat
  <2> HIDE DEF paid, kept, lost, b, seated
  <2>4. Held(pack') <= SeatCapacity /\ pack'[b].paidAt <= packClock
    BY <1>1, <1>3, <2>2 DEF SeatsAreKept, PackTimes
  <2>5. /\ lost.seatless = ~(pack'[b].payment = p /\ pack'[b].status = "PAID")
        /\ lost.earned = (pack'[b].payment = p /\ pack'[b].status = "PAID")
    BY <1>6, <2>2, <2>3
  <2>6. charges[p].buyer = b
    BY DEF b
  <2>7. lost \in ChargeRows /\ lost.buyer = b /\ lost.status = "CAPTURED"
    BY <1>6
  <2>8. /\ charges[p].status = "PENDING"
        /\ UNCHANGED <<flying, observable, ends, provider, seat, prize, asked, packClock, leftAlone>>
    BY <1>4
  <2>9. charges' = [charges EXCEPT ![p] = lost]
    BY <2>2
  <2>10. pack \in [Buyers -> RowsUpTo(Len(charges))] /\ pack' = pack
    BY <1>2, <2>2
  <2> QED BY ONLY PackInv, p \in DOMAIN charges, <1>3, <1>8, <2>4, <2>5, <2>6, <2>7, <2>8, <2>9,
             <2>10, SettledMoves
<1> QED BY <1>9, <1>10

\* A payment that fails keeps the invariant.
LEMMA FailedStep ==
  ASSUME PackInv, NEW p \in DOMAIN charges, SettleFailed(p)
  PROVE  PackInv'
<1> DEFINE b == charges[p].buyer
           dropped == [pack[b] EXCEPT !.status = "CANCELLED", !.lapsed = FALSE]
           row == [charges[p] EXCEPT !.status = "FAILED"]
<1>1. PackTypeOK /\ SeatsAreKept /\ PackTimes /\ late \subseteq Buyers
  BY DEF PackInv, PackTypeOK
<1>2. /\ charges \in Seq(ChargeRows) /\ charges[p] \in ChargeRows
      /\ pack \in [Buyers -> RowsUpTo(Len(charges))]
      /\ \A c \in Buyers : pack[c] \in RowsUpTo(Len(charges))
  BY <1>1, PackTyped
<1>3. b \in Buyers
  BY <1>2 DEF ChargeRows
<1>4. /\ charges[p].status = "PENDING" /\ charges' = [charges EXCEPT ![p].status = "FAILED"]
      /\ \/ pack' = pack
         \/ /\ pack[b].status = "PENDING_PAYMENT"
            /\ pack' = [pack EXCEPT ![b].status = "CANCELLED", ![b].lapsed = FALSE]
      /\ UNCHANGED <<flying, observable, ends, provider, seat, prize, asked, packClock, leftAlone, late>>
  BY DEF SettleFailed
<1>5. FALSE \in BOOLEAN /\ "CANCELLED" \in PackStatuses
  BY DEF PackStatuses
<1>6. row \in ChargeRows /\ row.buyer = b /\ row.status = "FAILED"
  BY <1>2 DEF ChargeRows
<1>7. /\ dropped \in RowsUpTo(Len(charges)) /\ dropped.status = "CANCELLED"
      /\ dropped.payment = pack[b].payment /\ dropped.paidAt = pack[b].paidAt
  BY <1>2, <1>3, <1>5, Zenon DEF RowsUpTo
<1>8. charges' = [charges EXCEPT ![p] = row]
  BY <1>2, <1>4
<1>9. \/ pack' = pack
      \/ pack[b].status = "PENDING_PAYMENT" /\ pack' = [pack EXCEPT ![b] = dropped]
  BY <1>2, <1>3, <1>4
<1>10. charges[p].buyer = b
  OBVIOUS
<1> HIDE DEF dropped, row, b
<1>11. CASE pack' = pack
  <2>1. Held(pack') <= SeatCapacity /\ pack'[b].paidAt <= packClock
    BY <1>1, <1>3, <1>11 DEF SeatsAreKept, PackTimes
  <2> QED BY <1>1, <1>2, <1>3, <1>4, <1>6, <1>8, <1>10, <1>11, <2>1, SettledMoves
<1>12. CASE pack[b].status = "PENDING_PAYMENT" /\ pack' = [pack EXCEPT ![b] = dropped]
  <2>1. pack'[b] = dropped /\ \A c \in Buyers : c # b => pack'[c] = pack[c]
    BY <1>2, <1>3, <1>12
  <2>2. pack' \in [Buyers -> RowsUpTo(Len(charges))]
    BY <1>2, <1>7, <1>12
  <2>3. Held(pack') <= SeatCapacity
    <3>1. Held(pack') \in Nat /\ Held(pack) \in Nat /\ Held(pack') <= Held(pack)
      BY <1>3, <1>7, <1>12, <2>1, HeldCounts DEF SeatHolding
    <3> QED BY <1>1, <3>1, PackAssumption DEF SeatsAreKept
  <2>4. pack'[b].payment = pack[b].payment /\ pack'[b].paidAt <= packClock
        /\ pack'[b].status # "PAID" /\ pack[b].status # "PAID"
    BY <1>1, <1>3, <1>7, <1>12, <2>1 DEF PackTimes
  <2>5. /\ charges[p].status = "PENDING"
        /\ UNCHANGED <<flying, observable, ends, provider, seat, prize, asked, packClock, leftAlone, late>>
    BY <1>4
  <2>6. \A c \in Buyers : c # b => pack'[c] = pack[c]
    BY <2>1
  <2> QED BY ONLY PackInv, p \in DOMAIN charges, <1>1, <1>3, <1>6, <1>8,
             <1>10, <2>2, <2>3, <2>4, <2>5, <2>6, SettledMoves
<1> QED BY <1>9, <1>11, <1>12

\* A seat that is taken or given back keeps the invariant.
LEMMA SeatStep ==
  ASSUME PackInv, NEW b \in Buyers, TakeObserverSeat(b) \/ ReleaseObserverSeat(b)
  PROVE  PackInv'
<1>1. PackTypeOK /\ SeatsAreKept /\ PackMoneyAccounted /\ CloseIsMadeGood /\ OwnPayments
      /\ PackTimes /\ TakenBack /\ PutOutMadeGood /\ Seated
  BY DEF PackInv
<1>2. seat \in [Buyers -> {"none", "JOINED", "LEFT"}] /\ SeatCapacity \in Nat /\ IsFiniteSet(Buyers)
  BY <1>1, PackAssumption DEF PackTypeOK
<1>3. UNCHANGED <<flying, observable, ends, provider, pack, charges, prize, asked, packClock, late>>
  BY DEF TakeObserverSeat, ReleaseObserverSeat
<1>4. Joined \subseteq Buyers
  BY DEF Joined
<1>5. IsFiniteSet(Joined) /\ Cardinality(Joined) \in Nat
  BY <1>2, <1>4, FS_Subset, FS_CardinalityType
<1>6. PackTypeOK'
  BY <1>1, <1>2, <1>3 DEF PackTypeOK, TakeObserverSeat, ReleaseObserverSeat
<1>7. PackMoneyAccounted' /\ OwnPayments' /\ PackTimes' /\ TakenBack'
  BY <1>1, <1>3 DEF PackMoneyAccounted, OwnPayments, PackTimes, TakenBack
<1>8. CASE TakeObserverSeat(b)
  <2>1. /\ observable /\ pack[b].status = "PAID" /\ Cardinality(Joined) < SeatCapacity
        /\ seat' = [seat EXCEPT ![b] = "JOINED"] /\ leftAlone' = leftAlone \ {b}
        /\ seat[b] # "JOINED"
    BY <1>8 DEF TakeObserverSeat
  <2>2. Joined' = Joined \cup {b} /\ b \notin Joined
    BY <1>2, <2>1 DEF Joined
  <2>3. Cardinality(Joined') = Cardinality(Joined) + 1
    BY <1>5, <2>2, FS_AddElement
  <2>4. Cardinality(Joined') <= SeatCapacity
    BY <1>2, <1>5, <2>1, <2>3
  <2>5. SeatsAreKept'
    BY <1>1, <1>3, <2>1, <2>2, <2>4 DEF SeatsAreKept
  <2>6. CloseIsMadeGood'
    BY <1>3, <2>1 DEF CloseIsMadeGood
  <2>7. PutOutMadeGood' /\ Seated'
    BY <1>1, <1>2, <1>3, <2>1 DEF PutOutMadeGood, Seated
  <2> QED BY <1>6, <1>7, <2>5, <2>6, <2>7 DEF PackInv
<1>9. CASE ReleaseObserverSeat(b)
  <2>1. /\ seat[b] = "JOINED" /\ seat' = [seat EXCEPT ![b] = "LEFT"]
        /\ leftAlone' = leftAlone \cup {b}
    BY <1>9 DEF ReleaseObserverSeat
  <2>2. Joined' \subseteq Joined
    BY <1>2, <2>1 DEF Joined
  <2>3. Cardinality(Joined') <= Cardinality(Joined) /\ Cardinality(Joined') \in Nat
    BY <1>5, <2>2, FS_Subset, FS_CardinalityType
  <2>4. Cardinality(Joined) <= SeatCapacity
    BY <1>1 DEF SeatsAreKept
  <2>5. Cardinality(Joined') <= SeatCapacity
    BY <1>2, <1>5, <2>3, <2>4
  <2>6. SeatsAreKept'
    BY <1>1, <1>3, <2>2, <2>5 DEF SeatsAreKept
  <2>7. CloseIsMadeGood'
    BY <1>1, <1>3, <2>1 DEF CloseIsMadeGood
  <2>8. PutOutMadeGood' /\ Seated'
    BY <1>1, <1>2, <1>3, <2>1 DEF PutOutMadeGood, Seated
  <2> QED BY <1>6, <1>7, <2>6, <2>7, <2>8 DEF PackInv
<1> QED BY <1>8, <1>9

\* A request to open or close, the mission's end and time passing keep it.
LEMMA AroundStep ==
  ASSUME PackInv,
         (\E open \in BOOLEAN : AskObservation(open)) \/ ObservedMissionEnds \/ PackTick
  PROVE  PackInv'
<1>1. PackTypeOK /\ SeatsAreKept /\ PackMoneyAccounted /\ CloseIsMadeGood /\ OwnPayments
      /\ PackTimes /\ TakenBack /\ PutOutMadeGood /\ Seated
  BY DEF PackInv
<1>2. packClock \in Nat /\ SessionLength \in Nat /\ \A b \in Buyers : pack[b].paidAt \in Nat
  BY <1>1, PackAssumption, PackTyped DEF PackTypeOK, RowsUpTo
<1>3. UNCHANGED <<observable, ends, provider, pack, charges, seat, prize, leftAlone, late>>
  BY DEF AskObservation, ObservedMissionEnds, PackTick
<1>4. SeatsAreKept' /\ PackMoneyAccounted' /\ OwnPayments' /\ TakenBack' /\ Seated'
  BY <1>1, <1>3 DEF SeatsAreKept, Joined, PackMoneyAccounted, OwnPayments, TakenBack, Seated
<1>5. packClock' \in Nat /\ packClock <= packClock'
  BY <1>2 DEF AskObservation, ObservedMissionEnds, PackTick
<1>6. CloseIsMadeGood' /\ PutOutMadeGood'
  BY <1>1, <1>2, <1>3, <1>5 DEF CloseIsMadeGood, PutOutMadeGood
<1>7. \A r \in asked : r \in [open : BOOLEAN, at : Nat] /\ r.at <= packClock
  BY <1>1 DEF PackTypeOK, PackTimes
<1>8. \A r \in asked' : r \in [open : BOOLEAN, at : Nat] /\ r.at <= packClock'
  <2>1. CASE \E open \in BOOLEAN : AskObservation(open)
    <3>1. PICK open \in BOOLEAN : AskObservation(open)
      BY <2>1
    <3>2. asked' = {[open |-> open, at |-> packClock]} /\ packClock' = packClock
      BY <3>1 DEF AskObservation
    <3>3. [open |-> open, at |-> packClock] \in [open : BOOLEAN, at : Nat]
      BY <1>2, Zenon
    <3>4. [open |-> open, at |-> packClock].at = packClock
      OBVIOUS
    <3> QED BY <1>2, <3>2, <3>3, <3>4
  <2>2. CASE asked' = asked
    BY <1>2, <1>5, <1>7, <2>2
  <2> QED BY <2>1, <2>2 DEF ObservedMissionEnds, PackTick
<1>9. PackTypeOK'
  <2>1. asked' \subseteq [open : BOOLEAN, at : Nat]
    BY <1>8
  <2>2. flying' \in BOOLEAN
    <3>1. flying \in BOOLEAN
      BY <1>1 DEF PackTypeOK
    <3>2. flying' = flying \/ flying' = FALSE
      BY DEF AskObservation, ObservedMissionEnds, PackTick
    <3> QED BY <3>1, <3>2
  <2> QED BY <1>1, <1>3, <1>5, <2>1, <2>2 DEF PackTypeOK
<1>10. PackTimes'
  BY <1>1, <1>2, <1>3, <1>5, <1>8 DEF PackTimes
<1> QED BY <1>4, <1>6, <1>9, <1>10 DEF PackInv

\* What a close gives back: nothing, or the share of a seat it took that has
\* had no refund before.
LEMMA GivenBack ==
  ASSUME PackInv, NEW b \in Buyers, NEW at \in Nat
  PROVE  /\ Refund(b, at) \in 0..PackPrice
         /\ Refund(b, at) # 0 => pack[b].refunded = 0 /\ pack[b].owed = 0
         /\ /\ ends /\ TakenByClose(b) /\ at < SessionLength /\ pack[b].paidAt < SessionLength
            => Refund(b, at) > 0
<1>1. pack[b].paidAt \in Nat /\ PackPrice \in Nat
  BY PackTyped, PackAssumption DEF PackInv, RowsUpTo
<1>2. /\ CloseRefundMinor(pack[b].paidAt, at) \in 0..PackPrice
      /\ at < SessionLength /\ pack[b].paidAt < SessionLength
           => CloseRefundMinor(pack[b].paidAt, at) > 0
  BY <1>1, RefundBounds
<1>3. Refund(b, at) = IF ends /\ TakenByClose(b) THEN CloseRefundMinor(pack[b].paidAt, at) ELSE 0
  BY DEF Refund
<1>4. TakenByClose(b) => pack[b].refunded = 0 /\ pack[b].owed = 0
  BY DEF TakenByClose
<1> QED BY <1>1, <1>2, <1>3, <1>4

\* What a close makes of a pack and of a payment.
LEMMA ClosedRows ==
  ASSUME PackInv, NEW at \in Nat, RefundSeatsTakenByClose(at)
  PROVE  /\ pack' \in [Buyers -> RowsUpTo(Len(charges))]
         /\ charges' \in Seq(ChargeRows) /\ Len(charges') = Len(charges)
         /\ DOMAIN charges' = DOMAIN charges
         /\ \A b \in Buyers :
              /\ pack'[b].status = pack[b].status /\ pack'[b].payment = pack[b].payment
              /\ pack'[b].paidAt = pack[b].paidAt
              /\ pack'[b].refunded \in Nat /\ pack'[b].owed \in Nat
              /\ pack'[b].refunded + pack'[b].owed
                   = pack[b].refunded + pack[b].owed + Refund(b, at)
              /\ pack'[b].refunded >= pack[b].refunded
              /\ provider = "SANDBOX" => pack'[b].refunded = pack[b].refunded + Refund(b, at)
         /\ \A p \in DOMAIN charges :
              \/ charges'[p] = charges[p]
              \/ /\ charges'[p].status = "REFUNDED" /\ charges'[p].buyer = charges[p].buyer
                 /\ provider = "SANDBOX" /\ Refund(charges[p].buyer, at) = PackPrice
<1>1. PackTypeOK /\ PackPrice \in Nat
  BY PackAssumption DEF PackInv
<1>2. /\ charges \in Seq(ChargeRows) /\ Len(charges) \in Nat /\ DOMAIN charges = 1..Len(charges)
      /\ \A p \in DOMAIN charges : charges[p] \in ChargeRows
      /\ \A b \in Buyers : pack[b] \in RowsUpTo(Len(charges))
  BY <1>1, PackTyped
<1>3. ASSUME NEW b \in Buyers
      PROVE  /\ pack'[b] \in RowsUpTo(Len(charges))
             /\ pack'[b].status = pack[b].status /\ pack'[b].payment = pack[b].payment
             /\ pack'[b].paidAt = pack[b].paidAt
             /\ pack'[b].refunded \in Nat /\ pack'[b].owed \in Nat
             /\ pack'[b].refunded + pack'[b].owed
                  = pack[b].refunded + pack[b].owed + Refund(b, at)
             /\ pack'[b].refunded >= pack[b].refunded
             /\ provider = "SANDBOX" => pack'[b].refunded = pack[b].refunded + Refund(b, at)
  <2>1. PICK n \in Nat : n = Refund(b, at) /\ n <= PackPrice
                         /\ (n # 0 => pack[b].refunded = 0 /\ pack[b].owed = 0)
    BY <1>1, GivenBack
  <2>2. pack[b].refunded \in 0..PackPrice /\ pack[b].owed \in 0..PackPrice
    BY <1>2 DEF RowsUpTo
  <2>3. pack[b].refunded + n \in 0..PackPrice /\ pack[b].owed + n \in 0..PackPrice
    BY <1>1, <2>1, <2>2
  <2> DEFINE issued == [pack[b] EXCEPT !.refunded = pack[b].refunded + n]
             noted == [pack[b] EXCEPT !.owed = pack[b].owed + n]
  <2>4. /\ issued \in RowsUpTo(Len(charges)) /\ issued.status = pack[b].status
        /\ issued.payment = pack[b].payment /\ issued.paidAt = pack[b].paidAt
        /\ issued.refunded = pack[b].refunded + n /\ issued.owed = pack[b].owed
    BY <1>2, <2>3, Zenon DEF RowsUpTo
  <2>5. /\ noted \in RowsUpTo(Len(charges)) /\ noted.status = pack[b].status
        /\ noted.payment = pack[b].payment /\ noted.paidAt = pack[b].paidAt
        /\ noted.owed = pack[b].owed + n /\ noted.refunded = pack[b].refunded
    BY <1>2, <2>3, Zenon DEF RowsUpTo
  <2>6. pack'[b] = IF provider = "SANDBOX" THEN issued ELSE noted
    BY <2>1 DEF RefundSeatsTakenByClose
  <2> HIDE DEF issued, noted
  <2>7. CASE provider = "SANDBOX"
    <3>1. pack'[b] = issued
      BY <2>6, <2>7
    <3>2. PICK i \in Nat, j \in Nat : i = pack[b].refunded /\ j = pack[b].owed
      BY <1>1, <2>2
    <3>3. issued.refunded = i + n /\ issued.owed = j
      BY <2>4, <3>2
    <3>4. /\ i + n \in Nat /\ j \in Nat /\ i + n >= i
          /\ (i + n) + (j) = i + j + n
      BY <2>1, <3>2
    <3>5. /\ issued.refunded \in Nat /\ issued.owed \in Nat /\ issued.refunded >= pack[b].refunded
          /\ issued.refunded + issued.owed = pack[b].refunded + pack[b].owed + Refund(b, at)
      BY ONLY <2>1, <3>2, <3>3, <3>4
    <3> QED BY ONLY <2>1, <2>4, <2>7, <3>1, <3>5
  <2>8. CASE provider # "SANDBOX"
    <3>1. pack'[b] = noted
      BY <2>6, <2>8
    <3>2. PICK i \in Nat, j \in Nat : i = pack[b].refunded /\ j = pack[b].owed
      BY <1>1, <2>2
    <3>3. noted.refunded = i /\ noted.owed = j + n
      BY <2>5, <3>2
    <3>4. /\ i \in Nat /\ j + n \in Nat /\ i >= i
          /\ (i) + (j + n) = i + j + n
      BY <2>1, <3>2
    <3>5. /\ noted.refunded \in Nat /\ noted.owed \in Nat /\ noted.refunded >= pack[b].refunded
          /\ noted.refunded + noted.owed = pack[b].refunded + pack[b].owed + Refund(b, at)
      BY ONLY <2>1, <3>2, <3>3, <3>4
    <3> QED BY ONLY <2>1, <2>5, <2>8, <3>1, <3>5
  <2> QED BY <2>7, <2>8
<1>4. pack' \in [Buyers -> RowsUpTo(Len(charges))]
  <2>1. pack' = [b \in Buyers |-> pack'[b]]
    BY DEF RefundSeatsTakenByClose
  <2> QED BY <1>3, <2>1
<1>5. ASSUME NEW p \in DOMAIN charges
      PROVE  /\ charges'[p] \in ChargeRows
             /\ \/ charges'[p] = charges[p]
                \/ /\ charges'[p].status = "REFUNDED" /\ charges'[p].buyer = charges[p].buyer
                   /\ provider = "SANDBOX" /\ Refund(charges[p].buyer, at) = PackPrice
  <2> DEFINE row == [charges[p] EXCEPT !.status = "REFUNDED", !.earned = FALSE]
  <2>1. FALSE \in BOOLEAN
    OBVIOUS
  <2>2. row \in ChargeRows /\ row.status = "REFUNDED" /\ row.buyer = charges[p].buyer
    BY <1>2, <2>1, Zenon DEF ChargeRows
  <2>3. \/ charges'[p] = charges[p]
        \/ charges'[p] = row /\ provider = "SANDBOX" /\ Refund(charges[p].buyer, at) = PackPrice
    BY DEF RefundSeatsTakenByClose
  <2> HIDE DEF row
  <2> QED BY <1>2, <2>2, <2>3
<1>6. /\ charges' \in Seq(ChargeRows) /\ Len(charges') = Len(charges)
      /\ DOMAIN charges' = DOMAIN charges
  <2>1. charges' = [p \in 1..Len(charges) |-> charges'[p]]
    BY <1>2 DEF RefundSeatsTakenByClose
  <2>2. \A p \in 1..Len(charges) : charges'[p] \in ChargeRows
    BY <1>2, <1>5
  <2>3. charges' \in [1..Len(charges) -> ChargeRows]
    BY <2>1, <2>2
  <2> QED BY <1>2, <2>3
<1> QED BY <1>3, <1>4, <1>5, <1>6

\* The owner opening or closing the session keeps the invariant.
LEMMA ObservationStep ==
  ASSUME PackInv, NEW r \in asked, SetMissionObservation(r)
  PROVE  PackInv'
<1>1. PackTypeOK /\ SeatsAreKept /\ PackMoneyAccounted /\ CloseIsMadeGood /\ OwnPayments
      /\ PackTimes /\ TakenBack /\ PutOutMadeGood /\ Seated
  BY DEF PackInv
<1>2. r.open \in BOOLEAN /\ r.at \in Nat /\ r.at <= packClock /\ packClock \in Nat
  <2>1. r \in [open : BOOLEAN, at : Nat] /\ packClock \in Nat
    BY <1>1 DEF PackTypeOK
  <2>2. r.open \in BOOLEAN /\ r.at \in Nat
    BY <2>1, Zenon
  <2> QED BY <1>1, <2>1, <2>2 DEF PackTimes
<1>3. /\ asked' = asked \ {r} /\ observable' = r.open /\ late' = IF r.open THEN {} ELSE late
      /\ UNCHANGED <<flying, ends, provider, prize, packClock, leftAlone>>
  BY DEF SetMissionObservation
<1>4. late' \subseteq Buyers /\ asked' \subseteq asked /\ observable' \in BOOLEAN
  BY <1>1, <1>2, <1>3 DEF PackTypeOK
<1>5. CASE r.open
  <2>1. UNCHANGED <<pack, charges, seat>> /\ observable' = TRUE
    <3>1. r.open = TRUE
      BY <1>2, <1>5, Zenon
    <3> QED BY <1>3, <1>5, <3>1 DEF SetMissionObservation
  <2>2. PackTypeOK' /\ PackTimes'
    BY <1>1, <1>3, <1>4, <2>1 DEF PackTypeOK, PackTimes
  <2>3. SeatsAreKept' /\ PackMoneyAccounted' /\ CloseIsMadeGood' /\ OwnPayments' /\ TakenBack'
        /\ PutOutMadeGood' /\ Seated'
    BY <1>1, <1>3, <2>1 DEF SeatsAreKept, Joined, PackMoneyAccounted, CloseIsMadeGood,
       OwnPayments, TakenBack, PutOutMadeGood, Seated
  <2> QED BY <2>2, <2>3 DEF PackInv
<1>6. CASE ~r.open
  <2>1. /\ RefundSeatsTakenByClose(r.at) /\ late' = late
        /\ seat' = [b \in Buyers |-> IF seat[b] = "JOINED" THEN "LEFT" ELSE seat[b]]
    BY <1>3, <1>6 DEF SetMissionObservation
  <2>2. /\ pack' \in [Buyers -> RowsUpTo(Len(charges))]
        /\ charges' \in Seq(ChargeRows) /\ Len(charges') = Len(charges)
        /\ DOMAIN charges' = DOMAIN charges
        /\ \A b \in Buyers :
              /\ pack'[b].status = pack[b].status /\ pack'[b].payment = pack[b].payment
              /\ pack'[b].paidAt = pack[b].paidAt
              /\ pack'[b].refunded \in Nat /\ pack'[b].owed \in Nat
              /\ pack'[b].refunded + pack'[b].owed
                   = pack[b].refunded + pack[b].owed + Refund(b, r.at)
              /\ pack'[b].refunded >= pack[b].refunded
              /\ provider = "SANDBOX" => pack'[b].refunded = pack[b].refunded + Refund(b, r.at)
        /\ \A p \in DOMAIN charges :
              \/ charges'[p] = charges[p]
              \/ /\ charges'[p].status = "REFUNDED" /\ charges'[p].buyer = charges[p].buyer
                 /\ provider = "SANDBOX" /\ Refund(charges[p].buyer, r.at) = PackPrice
    BY <1>2, <2>1, ClosedRows
  <2>3. /\ \A p \in DOMAIN charges : charges[p] \in ChargeRows
        /\ \A b \in Buyers : pack[b] \in RowsUpTo(Len(charges))
        /\ \A b \in Buyers : pack[b].payment # 0 => pack[b].payment \in DOMAIN charges
    BY <1>1, PackTyped
  <2>4. \A b \in Buyers : pack[b].refunded \in Nat /\ pack[b].owed \in Nat /\ pack[b].paidAt \in Nat
    <3>1. PackPrice \in Nat
      BY PackAssumption
    <3> QED BY <2>3, <3>1 DEF RowsUpTo
  <2>5. ASSUME ends, packClock < SessionLength, NEW b \in Buyers \ leftAlone,
               pack[b].status = "PAID", pack[b].payment # 0
        PROVE  pack'[b].refunded + pack'[b].owed > 0
    <3>1. Refund(b, r.at) \in Nat
      BY <1>2, GivenBack, PackAssumption
    <3>2. CASE pack[b].refunded + pack[b].owed > 0
      BY <2>2, <2>4, <3>1, <3>2
    <3>3. CASE pack[b].refunded = 0 /\ pack[b].owed = 0
      <4>1. charges[pack[b].payment].status \in {"CAPTURED", "REFUNDED"}
        BY <1>1, <2>5 DEF PackMoneyAccounted
      <4>2. charges[pack[b].payment].status # "REFUNDED"
        BY <1>1, <2>5, <3>3 DEF TakenBack
      <4>3. seat[b] # "LEFT"
        BY <1>1, <2>5, <3>3 DEF PutOutMadeGood
      <4>4. TakenByClose(b)
        BY <2>5, <3>3, <4>1, <4>2, <4>3 DEF TakenByClose
      <4>5. SessionLength \in Nat /\ pack[b].paidAt <= packClock
        BY <1>1, PackAssumption DEF PackTimes
      <4>6. r.at < SessionLength /\ pack[b].paidAt < SessionLength
        BY <1>2, <2>4, <2>5, <4>5
      <4>7. Refund(b, r.at) > 0
        BY <1>2, <2>5, <4>4, <4>6, GivenBack
      <4>8. pack'[b].refunded + pack'[b].owed = 0 + 0 + Refund(b, r.at)
        BY <2>2, <3>3
      <4> QED BY <3>1, <4>7, <4>8
    <3> QED BY <2>4, <3>2, <3>3
  <2>6. /\ seat \in [Buyers -> {"none", "JOINED", "LEFT"}]
        /\ \A b \in Buyers : seat'[b] # "JOINED" /\ (seat'[b] # "none" => seat[b] # "none")
    BY <1>1, <2>1 DEF PackTypeOK
  <2>7. PackTypeOK'
    <3>1. seat' \in [Buyers -> {"none", "JOINED", "LEFT"}]
      BY <2>1, <2>6
    <3> QED BY <1>1, <1>3, <1>4, <2>2, <3>1 DEF PackTypeOK, RowsUpTo, ChargeRows
  <2>8. SeatsAreKept'
    <3>1. Joined' = {}
      BY <2>6 DEF Joined
    <3>2. Cardinality(Joined') = 0
      BY <3>1, FS_EmptySet
    <3>3. HeldSet(pack') = HeldSet(pack)
      BY <2>2 DEF HeldSet
    <3>4. Held(pack') = Held(pack)
      BY <3>3 DEF Held, HeldSet
    <3>5. Held(pack)' = Held(pack')
      BY DEF Held
    <3> QED BY <1>1, <3>1, <3>2, <3>4, <3>5, PackAssumption DEF SeatsAreKept
  <2>9. PackMoneyAccounted'
    <3>1. ASSUME NEW p \in DOMAIN charges, charges'[p].status = "CAPTURED"
          PROVE  LET carried == pack'[charges'[p].buyer].payment = p
                                /\ pack'[charges'[p].buyer].status = "PAID"
                 IN charges'[p].seatless = ~carried /\ charges'[p].earned = carried
      <4>1. charges'[p] = charges[p] /\ charges[p].buyer \in Buyers
        BY <2>2, <2>3, <3>1 DEF ChargeRows
      <4>2. pack'[charges[p].buyer].payment = p /\ pack'[charges[p].buyer].status = "PAID"
            <=> pack[charges[p].buyer].payment = p /\ pack[charges[p].buyer].status = "PAID"
        BY <2>2, <4>1
      <4> QED BY <1>1, <3>1, <4>1, <4>2 DEF PackMoneyAccounted
    <3>2. ASSUME NEW b \in Buyers, pack'[b].status = "PAID"
          PROVE  IF pack'[b].payment = 0 THEN prize'[b] = "REDEEMED"
                 ELSE charges'[pack'[b].payment].status \in {"CAPTURED", "REFUNDED"}
      <4>1. pack[b].status = "PAID" /\ pack'[b].payment = pack[b].payment
        BY <2>2, <3>2
      <4>2. IF pack[b].payment = 0 THEN prize[b] = "REDEEMED"
            ELSE charges[pack[b].payment].status \in {"CAPTURED", "REFUNDED"}
        BY <1>1, <4>1 DEF PackMoneyAccounted
      <4>3. pack[b].payment # 0 => \/ charges'[pack[b].payment] = charges[pack[b].payment]
                                   \/ charges'[pack[b].payment].status = "REFUNDED"
        BY <2>2, <2>3
      <4> QED BY <1>3, <4>1, <4>2, <4>3
    <3> QED BY <2>2, <3>1, <3>2 DEF PackMoneyAccounted
  <2>10. CloseIsMadeGood'
    BY <1>3, <2>2, <2>5 DEF CloseIsMadeGood
  <2>11. OwnPayments'
    <3> SUFFICES ASSUME NEW b \in Buyers, pack'[b].payment # 0
                 PROVE  charges'[pack'[b].payment].buyer = b
      BY DEF OwnPayments
    <3>1. pack'[b].payment = pack[b].payment /\ pack[b].payment \in DOMAIN charges
      BY <2>2, <2>3
    <3>2. charges[pack[b].payment].buyer = b
      BY <1>1, <3>1 DEF OwnPayments
    <3> QED BY <2>2, <3>1, <3>2
  <2>12. PackTimes'
    BY <1>1, <1>3, <1>4, <2>2 DEF PackTimes
  <2>13. TakenBack'
    <3> SUFFICES ASSUME NEW b \in Buyers, pack'[b].status = "PAID", pack'[b].payment # 0,
                        charges'[pack'[b].payment].status = "REFUNDED"
                 PROVE  pack'[b].refunded > 0
      BY DEF TakenBack
    <3>1. /\ pack[b].status = "PAID" /\ pack'[b].payment = pack[b].payment
          /\ pack[b].payment # 0 /\ pack[b].payment \in DOMAIN charges
      BY <2>2, <2>3
    <3>2. charges[pack[b].payment].buyer = b
      BY <1>1, <3>1 DEF OwnPayments
    <3>3. CASE charges'[pack[b].payment] = charges[pack[b].payment]
      <4>1. pack[b].refunded > 0
        BY <1>1, <3>1, <3>3 DEF TakenBack
      <4> QED BY <2>2, <2>4, <4>1
    <3>4. CASE provider = "SANDBOX" /\ Refund(b, r.at) = PackPrice
      <4>1. pack'[b].refunded = pack[b].refunded + PackPrice
        BY <2>2, <3>4
      <4> QED BY <2>4, <4>1, PackAssumption
    <3> QED BY <2>2, <3>1, <3>2, <3>3, <3>4
  <2>14. Seated'
    BY <1>1, <2>2, <2>6 DEF Seated
  <2>15. PutOutMadeGood'
    BY <1>1, <1>3, <2>2, <2>5, <2>6 DEF PutOutMadeGood, Seated
  <2> QED BY <2>7, <2>8, <2>9, <2>10, <2>11, <2>12, <2>13, <2>14, <2>15 DEF PackInv
<1> QED BY <1>5, <1>6

\* The seats sold on a live mission, for any buyers, capacity, price and length
\* of the session: purchases, prizes, lapsed holds, late captures and the
\* owner's closes never hold or seat more than there is room for, captured
\* money is a paid pack's or flagged as seatless, and a close leaves nobody it
\* put out unpaid.
THEOREM PacksAlwaysHonoured == PackSpec => []PacksAreHonoured
<1>1. PackInit => PackInv
  <2> SUFFICES ASSUME PackInit
               PROVE  PackInv
    OBVIOUS
  <2>1. /\ flying = TRUE /\ observable = FALSE /\ ends \in BOOLEAN /\ provider \in {"SANDBOX", "BOG"}
        /\ pack = [b \in Buyers |-> NoPack] /\ charges = <<>>
        /\ seat = [b \in Buyers |-> "none"]
        /\ prize = [b \in Buyers |-> IF b \in PrizeHolders THEN "ACTIVE" ELSE "none"]
        /\ asked = {} /\ packClock = 0 /\ leftAlone = {} /\ late = {}
    BY DEF PackInit
  <2>2. SeatCapacity \in Nat /\ SessionLength \in Nat /\ PackPrice \in Nat
    BY PackAssumption
  <2>3. charges \in Seq(ChargeRows) /\ Len(charges) = 0 /\ DOMAIN charges = {}
    BY <2>1
  <2>4. /\ NoPack \in RowsUpTo(Len(charges)) /\ NoPack.status = "none" /\ NoPack.payment = 0
        /\ NoPack.paidAt = 0
    <3>1. FALSE \in BOOLEAN /\ 0 \in Nat /\ 0 \in 0..PackPrice /\ 0 \in 0..Len(charges)
          /\ "none" \in PackStatuses
      BY <2>2, <2>3 DEF PackStatuses
    <3> QED BY <3>1, Zenon DEF NoPack, RowsUpTo
  <2>5. pack \in [Buyers -> RowsUpTo(Len(charges))] /\ \A b \in Buyers : pack[b] = NoPack
    BY <2>1, <2>4
  <2>6. PackTypeOK
    <3>1. flying \in BOOLEAN /\ observable \in BOOLEAN
      BY <2>1, Zenon
    <3> QED BY <2>1, <2>3, <2>5, <3>1 DEF PackTypeOK, RowsUpTo, ChargeRows
  <2>7. SeatsAreKept
    <3>1. HeldSet(pack) = {} /\ Joined = {}
      BY <2>1, <2>4, <2>5 DEF HeldSet, SeatHolding, Joined
    <3>2. Held(pack) = 0 /\ Cardinality(Joined) = 0
      BY <3>1, FS_EmptySet DEF Held, HeldSet
    <3> QED BY <2>2, <3>1, <3>2 DEF SeatsAreKept
  <2>8. PackMoneyAccounted /\ CloseIsMadeGood /\ OwnPayments /\ TakenBack /\ PutOutMadeGood
        /\ Seated
    BY <2>1, <2>3, <2>4, <2>5 DEF PackMoneyAccounted, CloseIsMadeGood, OwnPayments, TakenBack,
       PutOutMadeGood, Seated
  <2>9. PackTimes
    BY <2>1, <2>4, <2>5 DEF PackTimes
  <2> QED BY <2>6, <2>7, <2>8, <2>9 DEF PackInv
<1>2. PackInv /\ [PackNext]_packVars => PackInv'
  <2> SUFFICES ASSUME PackInv, [PackNext]_packVars
               PROVE  PackInv'
    OBVIOUS
  <2>1. ASSUME NEW b \in Buyers,
               \/ PurchaseObserverPack(b) \/ SeatPaidByPrize(b) \/ PackHoldLapses(b)
               \/ TakeObserverSeat(b) \/ ReleaseObserverSeat(b)
        PROVE  PackInv'
    BY <2>1, PurchaseStep, PrizeStep, HoldLapsesStep, SeatStep
  <2>2. ASSUME NEW p \in DOMAIN charges, SettleCaptured(p) \/ SettleFailed(p)
        PROVE  PackInv'
    BY <2>2, CapturedStep, FailedStep
  <2>3. ASSUME NEW r \in asked, SetMissionObservation(r)
        PROVE  PackInv'
    BY <2>3, ObservationStep
  <2>4. CASE (\E open \in BOOLEAN : AskObservation(open)) \/ ObservedMissionEnds \/ PackTick
    BY <2>4, AroundStep
  <2>5. CASE UNCHANGED packVars
    BY <2>5 DEF packVars, PackInv, PackTypeOK, SeatsAreKept, Held, Joined, PackMoneyAccounted,
       CloseIsMadeGood, OwnPayments, PackTimes, TakenBack, PutOutMadeGood, Seated
  <2> QED BY <2>1, <2>2, <2>3, <2>4, <2>5 DEF PackNext
<1>3. PackInv => PacksAreHonoured
  BY DEF PackInv, PacksAreHonoured
<1> QED BY <1>1, <1>2, <1>3, PTL DEF PackSpec

-----------------------------------------------------------------------------
(* Card draws.                                                             *)

\* A deal is of all its cards; without a pick there is no prize.
DealsAreWhole ==
  \A u \in Players :
    /\ Dealt(u) => Len(deals[u].cards) = Cards
    /\ deals[u].picked = 0 => prizes[u].status = "NONE"
    /\ deals[u].picked # 0 => Dealt(u)

\* A transaction has counted its legendary cards, under the week's lock, and
\* there is room for them.
TookUnderLock ==
  \A r \in Reads :
    /\ dealing[r].took = Legendary(dealing[r].cards)
    /\ dealing[r].took > 0 =>
         weekLock = r /\ freeSlotsHeld + dealing[r].took <= FreeSlotsPerWeek

DrawInv == DrawTypeOK /\ FreeSlotsAccounted /\ PrizePaysOnce /\ DealsAreWhole /\ TookUnderLock

PrizeKinds == {PRIZE_OF[c] : c \in Rarities}
DealRows == [cards : CardSeqs, picked : 0..Cards]
PrizeRows == [kind : PrizeKinds, status : {"NONE", "ACTIVE", "REDEEMED"}, expires : Nat,
              spentOn : Spends \cup {NoPlayer}]
ReadRows == [player : Players \cup {NoPlayer}, cards : CardSeqs, took : 0..Cards]
SpendRows == [player : Players \cup {NoPlayer}, at : 0..MaxDrawClock]
LegendaryAt(cards) == {i \in DOMAIN cards : cards[i] = "LEGENDARY"}

\* The types, row by row.
LEMMA DrawTyped ==
  /\ DrawTypeOK => /\ drawClock \in 0..MaxDrawClock /\ freeSlotsHeld \in Nat
                   /\ deals \in [Players -> DealRows] /\ prizes \in [Players -> PrizeRows]
                   /\ dealing \in [Reads -> ReadRows] /\ weekLock \in Reads \cup {NoPlayer}
                   /\ paidBy \in [Spends -> Players \cup {NoPlayer}]
                   /\ spending \in [Spends -> SpendRows]
  /\ /\ drawClock \in 0..MaxDrawClock /\ freeSlotsHeld \in Nat
     /\ deals \in [Players -> DealRows] /\ prizes \in [Players -> PrizeRows]
     /\ dealing \in [Reads -> ReadRows] /\ weekLock \in Reads \cup {NoPlayer}
     /\ paidBy \in [Spends -> Players \cup {NoPlayer}]
     /\ spending \in [Spends -> SpendRows]
     => DrawTypeOK
BY DEF DrawTypeOK, DealRows, PrizeRows, ReadRows, SpendRows, PrizeKinds

\* The rarities, and what the scheme may roll.
LEMMA RaritiesAre ==
  /\ Rarities = {"LEGENDARY", "EPIC", "RARE", "COMMON"} /\ Rolls \subseteq Rarities
  /\ "NONE" \in PrizeKinds
<1>1. Rarities = {"LEGENDARY", "EPIC", "RARE", "COMMON"}
  BY DEF Rarities, PRIZE_OF
<1>2. PRIZE_OF["COMMON"] = "NONE"
  BY DEF PRIZE_OF
<1> QED BY <1>1, <1>2, CardDrawsAssumption DEF PrizeKinds

\* The cards of a deal are a sequence of so many rarities.
LEMMA CardsAre ==
  /\ \A cards \in CardSeqs : cards \in Seq(Rarities) /\ Len(cards) \in Nat /\ Len(cards) <= Cards
                             /\ DOMAIN cards = 1..Len(cards)
  /\ \A cards \in Seq(Rarities) : Len(cards) <= Cards => cards \in CardSeqs
<1>1. Cards \in Nat
  BY CardDrawsAssumption
<1>2. ASSUME NEW cards \in CardSeqs
      PROVE  cards \in Seq(Rarities) /\ Len(cards) \in Nat /\ Len(cards) <= Cards
             /\ DOMAIN cards = 1..Len(cards)
  <2>1. PICK n \in 0..Cards : cards \in [1..n -> Rarities]
    BY DEF CardSeqs
  <2> QED BY <1>1, <2>1
<1>3. ASSUME NEW cards \in Seq(Rarities), Len(cards) <= Cards
      PROVE  cards \in CardSeqs
  <2>1. Len(cards) \in 0..Cards /\ cards \in [1..Len(cards) -> Rarities]
    BY <1>1, <1>3
  <2> QED BY <2>1 DEF CardSeqs
<1> QED BY <1>2, <1>3

\* Legendary cards, counted as they are dealt.
LEMMA LegendaryCounts ==
  ASSUME NEW cards \in Seq(Rarities)
  PROVE  /\ IsFiniteSet(LegendaryAt(cards)) /\ Legendary(cards) = Cardinality(LegendaryAt(cards))
         /\ Legendary(cards) \in Nat /\ Legendary(cards) <= Len(cards)
         /\ \A x \in Rarities : Legendary(Append(cards, x))
              = Legendary(cards) + (IF x = "LEGENDARY" THEN 1 ELSE 0)
<1>1. Len(cards) \in Nat /\ DOMAIN cards = 1..Len(cards)
  OBVIOUS
<1>2. IsFiniteSet(1..Len(cards)) /\ Cardinality(1..Len(cards)) = Len(cards)
  BY <1>1, FS_Interval
<1>3. LegendaryAt(cards) \subseteq 1..Len(cards)
  BY <1>1 DEF LegendaryAt
<1>4. /\ IsFiniteSet(LegendaryAt(cards))
      /\ Cardinality(LegendaryAt(cards)) <= Cardinality(1..Len(cards))
      /\ Cardinality(LegendaryAt(cards)) \in Nat
  BY <1>2, <1>3, FS_Subset, FS_CardinalityType
<1>5. Legendary(cards) = Cardinality(LegendaryAt(cards))
  BY DEF Legendary, LegendaryAt
<1>6. ASSUME NEW x \in Rarities
      PROVE  Legendary(Append(cards, x)) = Legendary(cards) + (IF x = "LEGENDARY" THEN 1 ELSE 0)
  <2> DEFINE n == Len(cards) + 1
             more == Append(cards, x)
  <2>1. /\ DOMAIN more = 1..n /\ more[n] = x /\ \A i \in 1..Len(cards) : more[i] = cards[i]
    BY <1>1
  <2>2. Legendary(more) = Cardinality(LegendaryAt(more))
    BY DEF Legendary, LegendaryAt
  <2>3. 1..n = 1..Len(cards) \cup {n} /\ n \notin 1..Len(cards)
    BY <1>1
  <2> HIDE DEF more, n
  <2>4. LegendaryAt(more) = IF x = "LEGENDARY" THEN LegendaryAt(cards) \cup {n} ELSE LegendaryAt(cards)
    BY <1>1, <2>1, <2>3 DEF LegendaryAt
  <2>5. n \notin LegendaryAt(cards)
    BY <1>3, <2>3
  <2>6. Cardinality(LegendaryAt(cards) \cup {n}) = Cardinality(LegendaryAt(cards)) + 1
    BY <1>4, <2>5, FS_AddElement
  <2>7. Legendary(more) = Legendary(cards) + (IF x = "LEGENDARY" THEN 1 ELSE 0)
    BY <1>4, <1>5, <2>2, <2>4, <2>6
  <2> QED BY <2>7 DEF more
<1> QED BY <1>2, <1>4, <1>5, <1>6

\* The cards of one player are as many as their positions.
LEMMA PairsCounted ==
  ASSUME NEW u, NEW S, IsFiniteSet(S)
  PROVE  IsFiniteSet({u} \X S) /\ Cardinality({u} \X S) = Cardinality(S)
<1>1. IsFiniteSet({u}) /\ Cardinality({u}) = 1
  BY FS_Singleton
<1>2. IsFiniteSet({u} \X S) /\ Cardinality({u} \X S) = Cardinality({u}) * Cardinality(S)
  BY <1>1, FS_Product
<1>3. Cardinality(S) \in Nat
  BY FS_CardinalityType
<1>4. 1 * Cardinality(S) = Cardinality(S)
  BY <1>3
<1> QED BY <1>1, <1>2, <1>4

\* KeptFromWeek, of any deals.
KeptOf(ds) == {card \in Players \X (1..Cards) :
                 LET deal == ds[card[1]] IN
                 /\ card[2] \in DOMAIN deal.cards /\ deal.cards[card[2]] = "LEGENDARY"
                 /\ deal.picked \in {0, card[2]}}

\* What is kept from the week can be counted; a card of a player's deal is kept
\* while it is legendary and the pick leaves it.
LEMMA KeptCard ==
  ASSUME NEW ds \in [Players -> DealRows]
  PROVE  /\ IsFiniteSet(KeptOf(ds)) /\ Cardinality(KeptOf(ds)) \in Nat
         /\ KeptOf(ds) \subseteq Players \X (1..Cards)
         /\ \A v \in Players : ds[v].cards \in Seq(Rarities) /\ LegendaryAt(ds[v].cards) \subseteq 1..Cards
         /\ \A v \in Players : \A i \in 1..Cards : <<v, i>> \in KeptOf(ds) <=>
              i \in LegendaryAt(ds[v].cards) /\ ds[v].picked \in {0, i}
<1>1. \A v \in Players : ds[v].cards \in CardSeqs
  BY DEF DealRows
<1>2. \A v \in Players : ds[v].cards \in Seq(Rarities) /\ LegendaryAt(ds[v].cards) \subseteq 1..Cards
  <2> SUFFICES ASSUME NEW v \in Players
               PROVE  ds[v].cards \in Seq(Rarities) /\ LegendaryAt(ds[v].cards) \subseteq 1..Cards
    OBVIOUS
  <2>1. DOMAIN ds[v].cards = 1..Len(ds[v].cards) /\ Len(ds[v].cards) \in Nat
        /\ Len(ds[v].cards) <= Cards /\ Cards \in Nat /\ ds[v].cards \in Seq(Rarities)
    BY <1>1, CardsAre, CardDrawsAssumption
  <2> QED BY <2>1 DEF LegendaryAt
<1>3. IsFiniteSet(Players) /\ IsFiniteSet(1..Cards)
  <2>1. IsFiniteSet(Players) /\ 1 \in Int /\ Cards \in Int
    BY CardDrawsAssumption
  <2> QED BY <2>1, FS_Interval
<1>4. IsFiniteSet(Players \X (1..Cards))
  BY <1>3, FS_Product
<1>5. KeptOf(ds) \subseteq Players \X (1..Cards)
  BY DEF KeptOf
<1>6. IsFiniteSet(KeptOf(ds)) /\ Cardinality(KeptOf(ds)) \in Nat
  BY <1>4, <1>5, FS_Subset, FS_CardinalityType
<1>7. \A v \in Players : \A i \in 1..Cards : <<v, i>> \in KeptOf(ds) <=>
              i \in LegendaryAt(ds[v].cards) /\ ds[v].picked \in {0, i}
  BY DEF KeptOf, LegendaryAt
<1> QED BY <1>2, <1>5, <1>6, <1>7

\* A deal that is committed keeps its legendary cards from the week.
LEMMA KeptByDeal ==
  ASSUME NEW ds \in [Players -> DealRows], NEW u \in Players, NEW cards \in CardSeqs,
         NEW es \in [Players -> DealRows],
         ds[u].cards = << >>, ds[u].picked = 0, es[u].cards = cards, es[u].picked = 0,
         \A v \in Players : v # u => es[v] = ds[v]
  PROVE  Cardinality(KeptOf(es)) = Cardinality(KeptOf(ds)) + Legendary(cards)
<1> DEFINE added == {u} \X LegendaryAt(cards)
<1>1. cards \in Seq(Rarities)
  BY CardsAre
<1>2. IsFiniteSet(LegendaryAt(cards)) /\ Legendary(cards) = Cardinality(LegendaryAt(cards))
      /\ Legendary(cards) \in Nat
  BY <1>1, LegendaryCounts
<1>3. IsFiniteSet(added) /\ Cardinality(added) = Legendary(cards)
  BY <1>2, PairsCounted
<1>4. LegendaryAt(ds[u].cards) = {}
  BY DEF LegendaryAt
<1>5. LegendaryAt(cards) \subseteq 1..Cards
  BY KeptCard
<1>6. \A c \in KeptOf(es) : c \in KeptOf(ds) \cup added
  <2> SUFFICES ASSUME NEW c \in KeptOf(es)
               PROVE  c \in KeptOf(ds) \cup added
    OBVIOUS
  <2>1. PICK v \in Players, i \in 1..Cards : c = <<v, i>>
    BY KeptCard
  <2>2. i \in LegendaryAt(es[v].cards) /\ es[v].picked \in {0, i}
    BY <2>1, KeptCard
  <2>3. CASE v = u
    BY <2>1, <2>2, <2>3
  <2>4. CASE v # u
    BY <2>1, <2>2, <2>4, KeptCard
  <2> QED BY <2>3, <2>4
<1>7. \A c \in KeptOf(ds) : c \in KeptOf(es) /\ c \notin added
  <2> SUFFICES ASSUME NEW c \in KeptOf(ds)
               PROVE  c \in KeptOf(es) /\ c \notin added
    OBVIOUS
  <2>1. PICK v \in Players, i \in 1..Cards : c = <<v, i>>
    BY KeptCard
  <2>2. i \in LegendaryAt(ds[v].cards) /\ ds[v].picked \in {0, i}
    BY <2>1, KeptCard
  <2>3. v # u
    BY <1>4, <2>2
  <2> QED BY <2>1, <2>2, <2>3, KeptCard
<1>8. \A c \in added : c \in KeptOf(es)
  <2> SUFFICES ASSUME NEW i \in LegendaryAt(cards)
               PROVE  <<u, i>> \in KeptOf(es)
    OBVIOUS
  <2> QED BY <1>5, KeptCard
<1> HIDE DEF added
<1>9. KeptOf(es) = KeptOf(ds) \cup added /\ KeptOf(ds) \cap added = {}
  BY <1>6, <1>7, <1>8
<1>10. IsFiniteSet(KeptOf(ds)) /\ Cardinality(KeptOf(ds)) \in Nat
  BY KeptCard
<1>11. Cardinality(KeptOf(ds) \cup added)
         = Cardinality(KeptOf(ds)) + Cardinality(added) - Cardinality(KeptOf(ds) \cap added)
  BY <1>3, <1>10, FS_Union
<1>12. Cardinality(KeptOf(ds) \cap added) = 0
  BY <1>9, FS_EmptySet
<1> QED BY <1>2, <1>3, <1>9, <1>10, <1>11, <1>12

\* A pick gives back the free slots of the cards that were not chosen.
LEMMA KeptByPick ==
  ASSUME NEW ds \in [Players -> DealRows], NEW u \in Players, NEW position \in 1..Cards,
         NEW es \in [Players -> DealRows],
         ds[u].picked = 0, es[u].cards = ds[u].cards, es[u].picked = position,
         position \in DOMAIN ds[u].cards,
         \A v \in Players : v # u => es[v] = ds[v]
  PROVE  LET given == Legendary(ds[u].cards)
                        - (IF ds[u].cards[position] = "LEGENDARY" THEN 1 ELSE 0)
         IN /\ given \in Nat /\ given <= Cardinality(KeptOf(ds))
            /\ Cardinality(KeptOf(es)) = Cardinality(KeptOf(ds)) - given
<1> DEFINE cards == ds[u].cards
           others == LegendaryAt(cards) \ {position}
           gone == {u} \X others
<1>1. cards \in Seq(Rarities) /\ LegendaryAt(cards) \subseteq 1..Cards
  BY KeptCard
<1>2. IsFiniteSet(LegendaryAt(cards)) /\ Legendary(cards) = Cardinality(LegendaryAt(cards))
      /\ Legendary(cards) \in Nat
  BY <1>1, LegendaryCounts
<1>3. position \in LegendaryAt(cards) <=> cards[position] = "LEGENDARY"
  BY DEF LegendaryAt
<1>4. /\ IsFiniteSet(others)
      /\ Cardinality(others) = IF position \in LegendaryAt(cards)
                               THEN Cardinality(LegendaryAt(cards)) - 1 ELSE Cardinality(LegendaryAt(cards))
  BY <1>2, FS_RemoveElement
<1>5. Cardinality(others) = Legendary(cards) - (IF cards[position] = "LEGENDARY" THEN 1 ELSE 0)
  BY <1>2, <1>3, <1>4
<1>6. IsFiniteSet(gone) /\ Cardinality(gone) = Cardinality(others) /\ Cardinality(others) \in Nat
  BY <1>4, PairsCounted, FS_CardinalityType
<1>7. \A c \in KeptOf(es) : c \in KeptOf(ds) /\ c \notin gone
  <2> SUFFICES ASSUME NEW c \in KeptOf(es)
               PROVE  c \in KeptOf(ds) /\ c \notin gone
    OBVIOUS
  <2>1. PICK v \in Players, i \in 1..Cards : c = <<v, i>>
    BY KeptCard
  <2>2. i \in LegendaryAt(es[v].cards) /\ es[v].picked \in {0, i}
    BY <2>1, KeptCard
  <2>3. CASE v = u
    <3>1. i = position
      BY <2>2, <2>3
    <3> QED BY <2>1, <2>2, <2>3, <3>1, KeptCard
  <2>4. CASE v # u
    BY <2>1, <2>2, <2>4, KeptCard
  <2> QED BY <2>3, <2>4
<1>8. \A c \in KeptOf(ds) : c \in KeptOf(es) \/ c \in gone
  <2> SUFFICES ASSUME NEW c \in KeptOf(ds)
               PROVE  c \in KeptOf(es) \/ c \in gone
    OBVIOUS
  <2>1. PICK v \in Players, i \in 1..Cards : c = <<v, i>>
    BY KeptCard
  <2>2. i \in LegendaryAt(ds[v].cards) /\ ds[v].picked \in {0, i}
    BY <2>1, KeptCard
  <2>3. CASE v = u /\ i # position
    BY <2>1, <2>2, <2>3
  <2>4. CASE v # u \/ i = position
    BY <2>1, <2>2, <2>4, KeptCard
  <2> QED BY <2>3, <2>4
<1>9. \A c \in gone : c \in KeptOf(ds)
  <2> SUFFICES ASSUME NEW i \in others
               PROVE  <<u, i>> \in KeptOf(ds)
    OBVIOUS
  <2> QED BY <1>1, KeptCard
<1> HIDE DEF gone, others
<1>10. KeptOf(es) = KeptOf(ds) \ gone /\ KeptOf(ds) \cap gone = gone
  BY <1>7, <1>8, <1>9
<1>11. IsFiniteSet(KeptOf(ds)) /\ Cardinality(KeptOf(ds)) \in Nat
  BY KeptCard
<1>12. Cardinality(KeptOf(ds) \ gone) = Cardinality(KeptOf(ds)) - Cardinality(KeptOf(ds) \cap gone)
  BY <1>11, FS_Difference
<1>13. gone \subseteq KeptOf(ds)
  BY <1>9
<1>14. Cardinality(gone) <= Cardinality(KeptOf(ds))
  BY <1>11, <1>13, FS_Subset
<1> QED BY <1>5, <1>6, <1>10, <1>11, <1>12, <1>14

\* A transaction that goes on dealing: what it took it counts under the lock.
LEMMA DealingMoves ==
  ASSUME DrawInv, NEW r \in Reads, NEW row \in ReadRows,
         dealing' = [dealing EXCEPT ![r] = row], weekLock' \in Reads \cup {NoPlayer},
         row.took = Legendary(row.cards),
         row.took > 0 => weekLock' = r /\ freeSlotsHeld + row.took <= FreeSlotsPerWeek,
         \A q \in Reads : q # r /\ weekLock = q => weekLock' = q,
         UNCHANGED <<drawClock, freeSlotsHeld, deals, prizes, paidBy, spending>>
  PROVE  DrawInv'
<1>1. DrawTypeOK /\ FreeSlotsAccounted /\ PrizePaysOnce /\ DealsAreWhole /\ TookUnderLock
  BY DEF DrawInv
<1>2. dealing \in [Reads -> ReadRows]
  BY <1>1, DrawTyped
<1>3. dealing' \in [Reads -> ReadRows]
  BY <1>2
<1>4. DrawTypeOK'
  BY <1>1, <1>3 DEF DrawTypeOK, ReadRows
<1>5. FreeSlotsAccounted' /\ PrizePaysOnce' /\ DealsAreWhole'
  BY <1>1 DEF FreeSlotsAccounted, KeptFromWeek, PrizePaysOnce, DealsAreWhole, Dealt
<1>6. TookUnderLock'
  <2> SUFFICES ASSUME NEW q \in Reads
               PROVE  /\ dealing'[q].took = Legendary(dealing'[q].cards)
                      /\ dealing'[q].took > 0 =>
                           /\ weekLock' = q
                           /\ freeSlotsHeld' + dealing'[q].took <= FreeSlotsPerWeek
    BY DEF TookUnderLock, Legendary
  <2>1. CASE q = r
    BY <1>2, <2>1
  <2>2. CASE q # r
    <3>1. dealing'[q] = dealing[q]
      BY <1>2, <2>2
    <3> QED BY <1>1, <2>2, <3>1 DEF TookUnderLock
  <2> QED BY <2>1, <2>2
<1> QED BY <1>4, <1>5, <1>6 DEF DrawInv

\* A step that spends or gives back prizes leaves the week alone.
LEMMA SpendingMoves ==
  ASSUME DrawInv, prizes' \in [Players -> PrizeRows],
         paidBy' \in [Spends -> Players \cup {NoPlayer}], spending' \in [Spends -> SpendRows],
         PrizePaysOnce',
         \A u \in Players : prizes[u].status = "NONE" => prizes'[u].status = "NONE",
         UNCHANGED <<drawClock, freeSlotsHeld, deals, dealing, weekLock>>
  PROVE  DrawInv'
<1>1. DrawTypeOK /\ FreeSlotsAccounted /\ DealsAreWhole /\ TookUnderLock
  BY DEF DrawInv
<1>2. DrawTypeOK'
  BY <1>1 DEF DrawTypeOK, PrizeRows, PrizeKinds, SpendRows
<1>3. FreeSlotsAccounted' /\ DealsAreWhole' /\ TookUnderLock'
  BY <1>1 DEF FreeSlotsAccounted, KeptFromWeek, DealsAreWhole, Dealt, TookUnderLock, Legendary
<1> QED BY <1>2, <1>3 DEF DrawInv

\* A read that opens its transaction, and a card it rolls.
LEMMA DealStep ==
  ASSUME DrawInv, NEW r \in Reads,
         (\E u \in Players : BeginDeal(r, u)) \/ RollCard(r)
  PROVE  DrawInv'
<1>1. DrawTypeOK /\ TookUnderLock
  BY DEF DrawInv
<1>2. /\ dealing \in [Reads -> ReadRows] /\ dealing[r] \in ReadRows /\ freeSlotsHeld \in Nat
      /\ weekLock \in Reads \cup {NoPlayer}
  BY <1>1, DrawTyped
<1>3. /\ dealing[r].cards \in CardSeqs /\ dealing[r].took \in 0..Cards
      /\ dealing[r].took = Legendary(dealing[r].cards)
      /\ dealing[r].player \in Players \cup {NoPlayer}
  BY <1>1, <1>2 DEF ReadRows, TookUnderLock
<1>4. dealing[r].took > 0 => weekLock = r /\ freeSlotsHeld + dealing[r].took <= FreeSlotsPerWeek
  BY <1>1 DEF TookUnderLock
<1>5. FreeSlotsPerWeek \in Nat /\ Cards \in Nat /\ NoPlayer \notin Reads
  BY CardDrawsAssumption
<1>6. ASSUME NEW u \in Players, BeginDeal(r, u)
      PROVE  DrawInv'
  <2> DEFINE row == [dealing[r] EXCEPT !.player = u]
  <2>1. row \in ReadRows /\ row.cards = dealing[r].cards /\ row.took = dealing[r].took
    BY <1>2 DEF ReadRows
  <2>2. /\ dealing' = [dealing EXCEPT ![r] = row] /\ weekLock' = weekLock
        /\ UNCHANGED <<drawClock, freeSlotsHeld, deals, prizes, paidBy, spending>>
    BY <1>2, <1>6 DEF BeginDeal
  <2> HIDE DEF row
  <2> QED BY <1>2, <1>3, <1>4, <2>1, <2>2, DealingMoves
<1>7. ASSUME RollCard(r)
      PROVE  DrawInv'
  <2>1. PICK rolled \in Rolls :
       \/ /\ rolled # "LEGENDARY"
          /\ dealing' = [dealing EXCEPT ![r].cards = Append(@, rolled)]
          /\ UNCHANGED weekLock
       \/ /\ rolled = "LEGENDARY"
          /\ FreeSlotLeft(r)
          /\ weekLock \in {NoPlayer, r}
          /\ dealing' = [dealing EXCEPT ![r].cards = Append(@, "LEGENDARY"), ![r].took = @ + 1]
          /\ weekLock' = r
       \/ /\ rolled = "LEGENDARY"
          /\ ~FreeSlotLeft(r)
          /\ dealing' = [dealing EXCEPT ![r].cards = Append(@, "RARE")]
          /\ UNCHANGED weekLock
    BY <1>7 DEF RollCard
  <2>2. /\ Len(dealing[r].cards) < Cards
        /\ UNCHANGED <<drawClock, freeSlotsHeld, deals, prizes, paidBy, spending>>
    BY <1>7 DEF RollCard
  <2>3. dealing[r].cards \in Seq(Rarities) /\ Len(dealing[r].cards) \in Nat
    BY <1>3, CardsAre
  <2>4. ASSUME NEW x \in Rarities
        PROVE  /\ Append(dealing[r].cards, x) \in CardSeqs
               /\ Legendary(Append(dealing[r].cards, x))
                    = dealing[r].took + (IF x = "LEGENDARY" THEN 1 ELSE 0)
    <3>1. Append(dealing[r].cards, x) \in Seq(Rarities)
          /\ Len(Append(dealing[r].cards, x)) <= Cards
      BY <1>5, <2>2, <2>3
    <3> QED BY <1>3, <2>3, <3>1, CardsAre, LegendaryCounts
  <2>5. ASSUME NEW x \in Rarities, x # "LEGENDARY", weekLock' = weekLock,
               dealing' = [dealing EXCEPT ![r].cards = Append(dealing[r].cards, x)]
        PROVE  DrawInv'
    <3> DEFINE cards == Append(dealing[r].cards, x)
               row == [dealing[r] EXCEPT !.cards = cards]
    <3>1. cards \in CardSeqs /\ Legendary(cards) = dealing[r].took
      BY <1>3, <2>4, <2>5
    <3> HIDE DEF cards
    <3>2. row \in ReadRows /\ row.cards = cards /\ row.took = dealing[r].took
      BY <1>2, <3>1 DEF ReadRows
    <3>3. dealing' = [dealing EXCEPT ![r] = row]
      BY <1>2, <2>5 DEF cards
    <3> HIDE DEF row
    <3> QED BY <1>2, <1>4, <2>2, <2>5, <3>1, <3>2, <3>3, DealingMoves
  <2>6. ASSUME FreeSlotLeft(r), weekLock \in {NoPlayer, r}, weekLock' = r,
               dealing' = [dealing EXCEPT ![r].cards = Append(dealing[r].cards, "LEGENDARY"),
                                          ![r].took = dealing[r].took + 1]
        PROVE  DrawInv'
    <3> DEFINE cards == Append(dealing[r].cards, "LEGENDARY")
               row == [dealing[r] EXCEPT !.cards = cards, !.took = dealing[r].took + 1]
    <3>1. cards \in CardSeqs /\ Legendary(cards) = dealing[r].took + 1
      BY <2>4, RaritiesAre
    <3>2. dealing[r].took + 1 \in 0..Cards
      <4>1. cards \in Seq(Rarities) /\ Len(cards) <= Cards /\ Len(cards) \in Nat
        BY <3>1, CardsAre
      <4>2. Legendary(cards) <= Len(cards)
        BY <4>1, LegendaryCounts
      <4> HIDE DEF cards
      <4> QED BY <1>3, <1>5, <3>1, <4>1, <4>2
    <3> HIDE DEF cards
    <3>3. row \in ReadRows /\ row.cards = cards /\ row.took = dealing[r].took + 1
      BY <1>2, <3>1, <3>2, Zenon DEF ReadRows
    <3>4. dealing' = [dealing EXCEPT ![r] = row]
      BY <1>2, <2>6 DEF cards
    <3>5. freeSlotsHeld + (dealing[r].took + 1) <= FreeSlotsPerWeek
      BY <1>2, <1>3, <1>5, <2>6 DEF FreeSlotLeft
    <3> HIDE DEF row
    <3>6. freeSlotsHeld + row.took <= FreeSlotsPerWeek /\ row.took = Legendary(row.cards)
      BY <3>1, <3>3, <3>5
    <3>7. \A q \in Reads : q # r /\ weekLock = q => weekLock' = q
      BY <1>5, <2>6
    <3>8. weekLock' = r /\ weekLock' \in Reads \cup {NoPlayer}
      BY <2>6
    <3> QED BY <2>2, <3>3, <3>4, <3>6, <3>7, <3>8, DealingMoves
  <2>7. rolled \in Rarities /\ "RARE" \in Rarities
    BY RaritiesAre
  <2> QED BY <2>1, <2>5, <2>6, <2>7
<1> QED BY <1>6, <1>7

\* A read that does nothing yet has no cards.
LEMMA IdleReads ==
  IdleRead \in ReadRows /\ IdleRead.took = 0 /\ IdleRead.cards = << >> /\ Legendary(<< >>) = 0
  /\ IdleRead.player = NoPlayer /\ << >> \in CardSeqs
<1>1. << >> \in Seq(Rarities) /\ Len(<< >>) = 0 /\ Cards \in Nat
  BY CardDrawsAssumption
<1>2. << >> \in CardSeqs
  <2>1. << >> \in [1..0 -> Rarities] /\ 0 \in 0..Cards
    BY <1>1
  <2> QED BY <2>1, Zenon DEF CardSeqs
<1>3. Legendary(<< >>) = 0
  <2>1. LegendaryAt(<< >>) = {}
    BY DEF LegendaryAt
  <2> QED BY <2>1, FS_EmptySet DEF Legendary, LegendaryAt
<1>4. 0 \in 0..Cards
  BY <1>1
<1>5. /\ IdleRead \in ReadRows /\ IdleRead.took = 0 /\ IdleRead.cards = << >>
      /\ IdleRead.player = NoPlayer
  BY <1>2, <1>4, Zenon DEF IdleRead, ReadRows
<1> QED BY <1>2, <1>3, <1>5

\* A deal that is committed, or rolled back by the customer's other read.
LEMMA CommitStep ==
  ASSUME DrawInv, NEW r \in Reads, CommitDeal(r)
  PROVE  DrawInv'
<1> DEFINE u == dealing[r].player
           cards == dealing[r].cards
<1>1. DrawTypeOK /\ FreeSlotsAccounted /\ PrizePaysOnce /\ DealsAreWhole /\ TookUnderLock
  BY DEF DrawInv
<1>2. /\ dealing \in [Reads -> ReadRows] /\ dealing[r] \in ReadRows /\ freeSlotsHeld \in Nat
      /\ deals \in [Players -> DealRows] /\ weekLock \in Reads \cup {NoPlayer}
  BY <1>1, DrawTyped
<1>3. u \in Players /\ cards \in CardSeqs /\ Len(cards) = Cards /\ dealing[r].took \in 0..Cards
  BY <1>2 DEF CommitDeal, ReadRows
<1>4. /\ dealing' = [dealing EXCEPT ![r] = IdleRead]
      /\ weekLock' = IF weekLock = r THEN NoPlayer ELSE weekLock
      /\ UNCHANGED <<drawClock, prizes, paidBy, spending>>
  BY DEF CommitDeal, EndDeal
<1>5. CASE Dealt(u)
  <2>1. UNCHANGED <<deals, freeSlotsHeld>>
    BY <1>5 DEF CommitDeal
  <2>2. IdleRead \in ReadRows /\ IdleRead.took = 0 /\ IdleRead.took = Legendary(IdleRead.cards)
    BY IdleReads
  <2>3. weekLock' \in Reads \cup {NoPlayer} /\ \A q \in Reads : q # r /\ weekLock = q => weekLock' = q
    BY <1>2, <1>4
  <2>4. ~(IdleRead.took > 0)
    BY <2>2
  <2> QED BY ONLY DrawInv, r \in Reads, <1>4, <2>1, <2>2, <2>3, <2>4, DealingMoves
<1>6. CASE ~Dealt(u)
  <2> DEFINE row == [deals[u] EXCEPT !.cards = cards]
  <2>1. deals' = [deals EXCEPT ![u].cards = cards] /\ freeSlotsHeld' = freeSlotsHeld + dealing[r].took
    BY <1>6 DEF CommitDeal
  <2>2. deals[u].cards = << >> /\ deals[u].picked = 0 /\ deals[u] \in DealRows
    BY <1>1, <1>2, <1>3, <1>6 DEF Dealt, DealsAreWhole
  <2>3. dealing[r].took = Legendary(cards)
    BY <1>1 DEF TookUnderLock
  <2>4. dealing[r].took > 0 => weekLock = r /\ freeSlotsHeld + dealing[r].took <= FreeSlotsPerWeek
    BY <1>1 DEF TookUnderLock
  <2>5. \A q \in Reads : /\ dealing[q].took = Legendary(dealing[q].cards)
                         /\ dealing[q].took > 0 => weekLock = q
    BY <1>1 DEF TookUnderLock
  <2>6. \A q \in Reads : dealing[q].took > 0 => freeSlotsHeld + dealing[q].took <= FreeSlotsPerWeek
    BY <1>1 DEF TookUnderLock
  <2> HIDE DEF u, cards
  <2>7. row \in DealRows /\ row.cards = cards /\ row.picked = 0
    BY <1>3, <2>2 DEF DealRows
  <2>8. deals' = [deals EXCEPT ![u] = row]
    BY <1>2, <1>3, <2>1
  <2> HIDE DEF row
  <2>9. deals' \in [Players -> DealRows] /\ deals'[u] = row
        /\ \A v \in Players : v # u => deals'[v] = deals[v]
    BY <1>2, <1>3, <2>7, <2>8
  <2>10. Cardinality(KeptOf(deals')) = Cardinality(KeptOf(deals)) + Legendary(cards)
    BY <1>2, <1>3, <2>2, <2>7, <2>9, KeptByDeal
  <2>11. freeSlotsHeld = Cardinality(KeptOf(deals)) /\ freeSlotsHeld <= FreeSlotsPerWeek
    BY <1>1 DEF FreeSlotsAccounted, KeptFromWeek, KeptOf
  <2>12. freeSlotsHeld' = Cardinality(KeptOf(deals'))
    BY <2>1, <2>3, <2>10, <2>11
  <2>13. dealing[r].took \in Nat /\ freeSlotsHeld' \in Nat /\ freeSlotsHeld' <= FreeSlotsPerWeek
    BY <1>2, <1>3, <2>1, <2>4, <2>11, CardDrawsAssumption
  <2>14. FreeSlotsAccounted'
    BY <2>12, <2>13 DEF FreeSlotsAccounted, KeptFromWeek, KeptOf
  <2>15. dealing' \in [Reads -> ReadRows] /\ weekLock' \in Reads \cup {NoPlayer}
    BY <1>2, <1>4, IdleReads
  <2>16. DrawTypeOK'
    BY <1>1, <1>4, <2>9, <2>13, <2>15 DEF DrawTypeOK, DealRows, ReadRows
  <2>17. PrizePaysOnce'
    BY <1>1, <1>4 DEF PrizePaysOnce
  <2>18. DealsAreWhole'
    <3> SUFFICES ASSUME NEW v \in Players
                 PROVE  /\ deals'[v].cards # << >> => Len(deals'[v].cards) = Cards
                        /\ deals'[v].picked = 0 => prizes[v].status = "NONE"
                        /\ deals'[v].picked # 0 => deals'[v].cards # << >>
      BY <1>4 DEF DealsAreWhole, Dealt
    <3>1. CASE v = u
      <4>1. prizes[u].status = "NONE"
        BY <1>1, <1>3, <2>2 DEF DealsAreWhole
      <4> QED BY <1>3, <2>7, <2>9, <3>1, <4>1 DEF cards
    <3>2. CASE v # u
      BY <1>1, <2>9, <3>2 DEF DealsAreWhole, Dealt
    <3> QED BY <3>1, <3>2
  <2>19. TookUnderLock'
    <3> SUFFICES ASSUME NEW q \in Reads
                 PROVE  /\ dealing'[q].took = Legendary(dealing'[q].cards)
                        /\ dealing'[q].took > 0 =>
                             /\ weekLock' = q
                             /\ freeSlotsHeld' + dealing'[q].took <= FreeSlotsPerWeek
      BY DEF TookUnderLock, Legendary
    <3>1. CASE q = r
      BY <1>2, <1>4, <3>1, IdleReads
    <3>2. CASE q # r
      <4>1. dealing'[q] = dealing[q]
        BY <1>2, <1>4, <3>2
      <4>2. dealing[q].took > 0 => weekLock = q /\ dealing[r].took = 0
        BY <2>4, <2>5, <2>13, <3>2
      <4>3. dealing[q].took > 0 => weekLock' = q /\ freeSlotsHeld' = freeSlotsHeld
        BY <1>2, <1>4, <2>1, <3>2, <4>2
      <4> QED BY <2>5, <2>6, <4>1, <4>3
    <3> QED BY <3>1, <3>2
  <2> QED BY <2>14, <2>16, <2>17, <2>18, <2>19 DEF DrawInv
<1> QED BY <1>5, <1>6

\* A card that is picked: its prize, and the free slots given back.
LEMMA PickStep ==
  ASSUME DrawInv, NEW u \in Players, NEW position \in 1..Cards, PickCard(u, position)
  PROVE  DrawInv'
<1> DEFINE kind == PRIZE_OF[deals[u].cards[position]]
           won == [kind |-> kind, status |-> "ACTIVE", expires |-> drawClock + PrizeValid,
                     spentOn |-> NoPlayer]
           row == [deals[u] EXCEPT !.picked = position]
           given == Legendary(deals[u].cards)
                      - (IF deals[u].cards[position] = "LEGENDARY" THEN 1 ELSE 0)
<1>1. DrawTypeOK /\ FreeSlotsAccounted /\ PrizePaysOnce /\ DealsAreWhole /\ TookUnderLock
  BY DEF DrawInv
<1>2. /\ deals \in [Players -> DealRows] /\ deals[u] \in DealRows /\ freeSlotsHeld \in Nat
      /\ prizes \in [Players -> PrizeRows] /\ weekLock \in Reads \cup {NoPlayer}
      /\ dealing \in [Reads -> ReadRows]
      /\ drawClock \in Nat /\ PrizeValid \in Nat /\ Cards \in Nat /\ NoPlayer \notin Players \cup Reads
  <2>1. MaxDrawClock \in Nat /\ PrizeValid \in Nat /\ Cards \in Nat /\ NoPlayer \notin Players \cup Reads
    BY CardDrawsAssumption
  <2> QED BY <1>1, <2>1, DrawTyped
<1>3. /\ deals[u].picked = 0 /\ deals[u].cards \in CardSeqs /\ Len(deals[u].cards) = Cards
      /\ prizes[u].status = "NONE"
  BY <1>1, <1>2 DEF PickCard, DealsAreWhole, DealRows
<1>4. deals[u].cards \in Seq(Rarities) /\ position \in DOMAIN deals[u].cards
      /\ deals[u].cards[position] \in Rarities
  BY <1>3, CardsAre
<1>5. /\ deals' = [deals EXCEPT ![u] = row]
      /\ prizes' = IF kind = "NONE" THEN prizes ELSE [prizes EXCEPT ![u] = won]
      /\ \/ given = 0 /\ freeSlotsHeld' = freeSlotsHeld
         \/ given > 0 /\ weekLock = NoPlayer /\ freeSlotsHeld' = Max({freeSlotsHeld - given, 0})
      /\ UNCHANGED <<drawClock, dealing, weekLock, paidBy, spending>>
  BY <1>2 DEF PickCard, Unchosen
<1>6. row \in DealRows /\ row.cards = deals[u].cards /\ row.picked = position /\ position # 0
  BY <1>2 DEF DealRows
<1>7. won \in PrizeRows
  <2>1. kind \in PrizeKinds /\ drawClock + PrizeValid \in Nat
    BY <1>2, <1>4 DEF PrizeKinds
  <2> HIDE DEF kind
  <2> QED BY <2>1 DEF PrizeRows
<1> HIDE DEF row, won, kind
<1>8. /\ deals' \in [Players -> DealRows] /\ deals'[u] = row
      /\ \A v \in Players : v # u => deals'[v] = deals[v]
  BY <1>2, <1>5, <1>6
<1>9. /\ prizes' \in [Players -> PrizeRows]
      /\ \A v \in Players : v # u => prizes'[v] = prizes[v]
  BY <1>2, <1>5, <1>7
<1>10. /\ given \in Nat /\ given <= Cardinality(KeptOf(deals))
       /\ Cardinality(KeptOf(deals')) = Cardinality(KeptOf(deals)) - given
  BY <1>2, <1>3, <1>4, <1>6, <1>8, KeptByPick
<1>11. freeSlotsHeld = Cardinality(KeptOf(deals)) /\ freeSlotsHeld <= FreeSlotsPerWeek
  BY <1>1 DEF FreeSlotsAccounted, KeptFromWeek, KeptOf
<1> HIDE DEF given
<1>12. freeSlotsHeld' = freeSlotsHeld - given /\ freeSlotsHeld' \in Nat
  <2>1. freeSlotsHeld - given \in Nat
    BY <1>2, <1>10, <1>11
  <2>2. Max({freeSlotsHeld - given, 0}) = freeSlotsHeld - given
    <3> DEFINE n == freeSlotsHeld - given
    <3>1. \E x \in {n, 0} : \A y \in {n, 0} : x >= y
      BY <2>1
    <3>2. Max({n, 0}) \in {n, 0} /\ \A y \in {n, 0} : Max({n, 0}) >= y
      BY <3>1 DEF Max
    <3> QED BY <2>1, <3>2
  <2> QED BY <1>2, <1>5, <1>10, <2>1, <2>2
<1>13. FreeSlotsAccounted'
  <2>1. freeSlotsHeld' = Cardinality(KeptOf(deals'))
    BY <1>10, <1>11, <1>12
  <2>2. freeSlotsHeld' <= FreeSlotsPerWeek
    BY <1>2, <1>10, <1>11, <1>12, CardDrawsAssumption
  <2> QED BY <2>1, <2>2 DEF FreeSlotsAccounted, KeptFromWeek, KeptOf
<1>14. DrawTypeOK'
  BY <1>1, <1>5, <1>8, <1>9, <1>12 DEF DrawTypeOK, DealRows, PrizeRows, PrizeKinds
<1>15. PrizePaysOnce'
  <2> SUFFICES ASSUME NEW s \in Spends, paidBy[s] # NoPlayer
               PROVE  prizes'[paidBy[s]].status = "REDEEMED" /\ prizes'[paidBy[s]].spentOn = s
    BY <1>5 DEF PrizePaysOnce
  <2>1. prizes[paidBy[s]].status = "REDEEMED" /\ prizes[paidBy[s]].spentOn = s
    BY <1>1 DEF PrizePaysOnce
  <2>2. paidBy[s] \in Players /\ paidBy[s] # u
    BY <1>1, <1>3, <2>1, DrawTyped
  <2> QED BY <1>9, <2>1, <2>2
<1>16. DealsAreWhole'
  <2> SUFFICES ASSUME NEW v \in Players
               PROVE  /\ deals'[v].cards # << >> => Len(deals'[v].cards) = Cards
                      /\ deals'[v].picked = 0 => prizes'[v].status = "NONE"
                      /\ deals'[v].picked # 0 => deals'[v].cards # << >>
    BY DEF DealsAreWhole, Dealt
  <2>1. CASE v = u
    <3>1. deals[u].cards # << >>
      BY DEF PickCard, Dealt
    <3> QED BY <1>3, <1>6, <1>8, <2>1, <3>1
  <2>2. CASE v # u
    BY <1>1, <1>8, <1>9, <2>2 DEF DealsAreWhole, Dealt
  <2> QED BY <2>1, <2>2
<1>17. TookUnderLock'
  <2> SUFFICES ASSUME NEW q \in Reads
               PROVE  /\ dealing[q].took = Legendary(dealing[q].cards)
                      /\ dealing[q].took > 0 =>
                           /\ weekLock = q
                           /\ freeSlotsHeld' + dealing[q].took <= FreeSlotsPerWeek
    BY <1>5 DEF TookUnderLock, Legendary
  <2>1. /\ dealing[q].took = Legendary(dealing[q].cards)
        /\ dealing[q].took > 0 => weekLock = q /\ freeSlotsHeld + dealing[q].took <= FreeSlotsPerWeek
    BY <1>1 DEF TookUnderLock
  <2>2. dealing[q].took > 0 => freeSlotsHeld' = freeSlotsHeld
    BY <1>2, <1>5, <2>1
  <2> QED BY <2>1, <2>2
<1> QED BY <1>13, <1>14, <1>15, <1>16, <1>17 DEF DrawInv

\* A prize looked up, claimed and given back.
LEMMA SpendStep ==
  ASSUME DrawInv, NEW s \in Spends,
         \/ \E u \in Players : FindSpendablePrize(s, u)
         \/ ClaimPrize(s)
         \/ \E cause \in {"HOLD_RELEASED", "BOOKING_REFUNDED"} : ReleaseCardPrize(s, cause)
  PROVE  DrawInv'
<1>1. DrawTypeOK /\ PrizePaysOnce
  BY DEF DrawInv
<1>2. /\ prizes \in [Players -> PrizeRows] /\ paidBy \in [Spends -> Players \cup {NoPlayer}]
      /\ spending \in [Spends -> SpendRows] /\ drawClock \in 0..MaxDrawClock
  BY <1>1, DrawTyped
<1>3. /\ NoPlayer \notin Players \cup Spends /\ RestoredMin \in Nat /\ MaxDrawClock \in Nat
      /\ drawClock \in Nat
  BY <1>2, CardDrawsAssumption
<1>4. UNCHANGED <<drawClock, freeSlotsHeld, deals, dealing, weekLock>>
  BY DEF FindSpendablePrize, ClaimPrize, ReleaseCardPrize
<1>5. IdleSpend \in SpendRows
  BY <1>3 DEF IdleSpend, SpendRows
<1>6. ASSUME NEW u \in Players, FindSpendablePrize(s, u)
      PROVE  DrawInv'
  <2>1. [player |-> u, at |-> drawClock] \in SpendRows
    BY <1>2 DEF SpendRows
  <2>2. spending' \in [Spends -> SpendRows] /\ prizes' = prizes /\ paidBy' = paidBy
    BY <1>2, <1>6, <2>1 DEF FindSpendablePrize
  <2>3. PrizePaysOnce'
    BY <1>1, <2>2 DEF PrizePaysOnce
  <2> QED BY <1>2, <1>4, <2>2, <2>3, SpendingMoves
<1>7. ASSUME NEW u \in Players, NEW row \in PrizeRows, NEW who \in Players \cup {NoPlayer},
             prizes' = [prizes EXCEPT ![u] = row], paidBy' = [paidBy EXCEPT ![s] = who],
             spending' \in [Spends -> SpendRows], prizes[u].status # "NONE",
             who # NoPlayer => who = u /\ row.status = "REDEEMED" /\ row.spentOn = s,
             \A t \in Spends : t # s => paidBy[t] # u
      PROVE  DrawInv'
  <2>1. prizes' \in [Players -> PrizeRows] /\ paidBy' \in [Spends -> Players \cup {NoPlayer}]
    BY <1>2, <1>7
  <2>2. prizes'[u] = row /\ \A v \in Players : v # u => prizes'[v] = prizes[v]
    BY <1>2, <1>7
  <2>3. PrizePaysOnce'
    <3> SUFFICES ASSUME NEW t \in Spends, paidBy'[t] # NoPlayer
                 PROVE  prizes'[paidBy'[t]].status = "REDEEMED" /\ prizes'[paidBy'[t]].spentOn = t
      BY DEF PrizePaysOnce
    <3>1. CASE t = s
      <4>1. paidBy'[t] = who /\ who = u
        BY <1>2, <1>7, <3>1
      <4> QED BY <1>7, <2>2, <3>1, <4>1
    <3>2. CASE t # s
      <4>1. paidBy'[t] = paidBy[t] /\ paidBy[t] # u /\ paidBy[t] \in Players
        BY <1>2, <1>7, <3>2
      <4> QED BY <1>1, <2>2, <4>1 DEF PrizePaysOnce
    <3> QED BY <3>1, <3>2
  <2>4. \A v \in Players : prizes[v].status = "NONE" => prizes'[v].status = "NONE"
    BY <1>7, <2>2
  <2> QED BY <1>4, <1>7, <2>1, <2>3, <2>4, SpendingMoves
<1>8. ASSUME ClaimPrize(s)
      PROVE  DrawInv'
  <2> DEFINE u == spending[s].player
             row == [prizes[u] EXCEPT !.status = "REDEEMED", !.spentOn = s]
  <2>1. u \in Players /\ spending' = [spending EXCEPT ![s] = IdleSpend]
    BY <1>2, <1>8 DEF ClaimPrize, SpendRows
  <2>2. spending' \in [Spends -> SpendRows]
    BY <1>2, <1>5, <2>1
  <2>3. CASE Claimable(s)
    <3>1. prizes[u].status = "ACTIVE"
      BY <2>3 DEF Claimable, Spendable
    <3>2. row \in PrizeRows /\ row.status = "REDEEMED" /\ row.spentOn = s
      <4>1. prizes[u] \in PrizeRows
        BY <1>2, <2>1
      <4> QED BY <4>1, Zenon DEF PrizeRows
    <3>3. prizes' = [prizes EXCEPT ![u] = row] /\ paidBy' = [paidBy EXCEPT ![s] = u]
      BY <1>2, <1>8, <2>1, <2>3 DEF ClaimPrize
    <3>4. \A t \in Spends : paidBy[t] # u
      BY <1>1, <1>3, <2>1, <3>1 DEF PrizePaysOnce
    <3> HIDE DEF row, u
    <3> QED BY <1>3, <1>7, <2>1, <2>2, <3>1, <3>2, <3>3, <3>4
  <2>4. CASE ~Claimable(s)
    <3>1. prizes' = prizes /\ paidBy' = paidBy
      BY <1>8, <2>4 DEF ClaimPrize
    <3>2. PrizePaysOnce'
      BY <1>1, <3>1 DEF PrizePaysOnce
    <3> QED BY <1>2, <1>4, <2>2, <3>1, <3>2, SpendingMoves
  <2> QED BY <2>3, <2>4
<1>9. ASSUME NEW cause \in {"HOLD_RELEASED", "BOOKING_REFUNDED"}, ReleaseCardPrize(s, cause)
      PROVE  DrawInv'
  <2> DEFINE u == paidBy[s]
             until == IF cause = "BOOKING_REFUNDED" THEN Max({prizes[u].expires, drawClock + RestoredMin})
                      ELSE prizes[u].expires
             row == [prizes[u] EXCEPT !.status = "ACTIVE", !.spentOn = NoPlayer, !.expires = until]
  <2>1. u \in Players /\ paidBy' = [paidBy EXCEPT ![s] = NoPlayer] /\ spending' = spending
    BY <1>2, <1>9 DEF ReleaseCardPrize
  <2>2. prizes[u].status = "REDEEMED" /\ prizes[u].spentOn = s
    BY <1>1, <1>3, <2>1 DEF PrizePaysOnce
  <2>3. prizes' = [prizes EXCEPT ![u] = row]
    BY <1>2, <1>9, <2>1, <2>2 DEF ReleaseCardPrize
  <2>4. prizes[u] \in PrizeRows
    BY <1>2, <2>1
  <2>5. until \in Nat
    <3>1. prizes[u].expires \in Nat /\ drawClock + RestoredMin \in Nat
      BY <1>3, <2>4 DEF PrizeRows
    <3>2. ASSUME NEW m \in Nat, NEW n \in Nat
          PROVE  Max({m, n}) \in {m, n}
      <4>1. \E x \in {m, n} : \A y \in {m, n} : x >= y
        OBVIOUS
      <4> QED BY <4>1 DEF Max
    <3> QED BY <3>1, <3>2
  <2>6. row \in PrizeRows
    <3> HIDE DEF until
    <3> QED BY <2>4, <2>5, Zenon DEF PrizeRows
  <2>7. \A t \in Spends : t # s => paidBy[t] # u
    BY <1>1, <1>3, <2>1, <2>2 DEF PrizePaysOnce
  <2> HIDE DEF row, u
  <2> QED BY <1>2, <1>7, <2>1, <2>2, <2>3, <2>6, <2>7
<1> QED BY <1>6, <1>8, <1>9

\* A week of card draws, for any players, requests, cards in a deal and cap:
\* racing first reads, rolled back deals and picks neither lose a free slot nor
\* give one away twice, and a prize pays for one booking at a time.
THEOREM PrizesAlwaysAccounted == DrawSpec => []PrizesAccounted
<1>1. DrawInit => DrawInv
  <2> SUFFICES ASSUME DrawInit
               PROVE  DrawInv
    OBVIOUS
  <2>1. /\ drawClock = 0 /\ freeSlotsHeld = 0 /\ deals = [u \in Players |-> NoDeal]
        /\ prizes = [u \in Players |-> NoPrize] /\ dealing = [r \in Reads |-> IdleRead]
        /\ weekLock = NoPlayer /\ paidBy = [s \in Spends |-> NoPlayer]
        /\ spending = [s \in Spends |-> IdleSpend]
    BY DEF DrawInit
  <2>2. Cards \in Nat /\ MaxDrawClock \in Nat /\ FreeSlotsPerWeek \in Nat
    BY CardDrawsAssumption
  <2>3. NoDeal \in DealRows /\ NoDeal.cards = << >> /\ NoDeal.picked = 0
    <3>1. 0 \in 0..Cards /\ << >> \in CardSeqs
      BY <2>2, IdleReads
    <3> QED BY <3>1, Zenon DEF NoDeal, DealRows
  <2>4. NoPrize \in PrizeRows /\ NoPrize.status = "NONE"
    <3>1. "NONE" \in PrizeKinds /\ 0 \in Nat
      BY RaritiesAre
    <3> QED BY <3>1, Zenon DEF NoPrize, PrizeRows
  <2>5. IdleSpend \in SpendRows
    BY <2>2 DEF IdleSpend, SpendRows
  <2>6. /\ deals \in [Players -> DealRows] /\ prizes \in [Players -> PrizeRows]
        /\ dealing \in [Reads -> ReadRows] /\ spending \in [Spends -> SpendRows]
        /\ paidBy \in [Spends -> Players \cup {NoPlayer}]
    BY <2>1, <2>3, <2>4, <2>5, IdleReads
  <2>7. DrawTypeOK
    BY <2>1, <2>2, <2>6, DrawTyped
  <2>8. FreeSlotsAccounted
    <3>1. LegendaryAt(<< >>) = {}
      BY DEF LegendaryAt
    <3>2. KeptOf(deals) = {}
      <4> SUFFICES ASSUME NEW c \in KeptOf(deals)
                   PROVE  FALSE
        OBVIOUS
      <4>1. PICK v \in Players, i \in 1..Cards : c = <<v, i>>
        BY <2>6, KeptCard
      <4>2. i \in LegendaryAt(deals[v].cards)
        BY <2>6, <4>1, KeptCard
      <4> QED BY <2>1, <2>3, <3>1, <4>2
    <3>3. Cardinality(KeptFromWeek) = 0
      BY <3>2, FS_EmptySet DEF KeptFromWeek, KeptOf
    <3> QED BY <2>1, <2>2, <3>3 DEF FreeSlotsAccounted
  <2>9. PrizePaysOnce /\ DealsAreWhole
    BY <2>1, <2>3, <2>4 DEF PrizePaysOnce, DealsAreWhole, Dealt
  <2>10. TookUnderLock
    <3>1. \A r \in Reads : dealing[r].took = 0 /\ Legendary(dealing[r].cards) = 0
      BY <2>1, IdleReads
    <3> QED BY <3>1 DEF TookUnderLock
  <2> QED BY <2>7, <2>8, <2>9, <2>10 DEF DrawInv
<1>2. DrawInv /\ [DrawNext]_drawVars => DrawInv'
  <2> SUFFICES ASSUME DrawInv, [DrawNext]_drawVars
               PROVE  DrawInv'
    OBVIOUS
  <2>1. ASSUME NEW r \in Reads, (\E u \in Players : BeginDeal(r, u)) \/ RollCard(r) \/ CommitDeal(r)
        PROVE  DrawInv'
    BY <2>1, DealStep, CommitStep
  <2>2. ASSUME NEW u \in Players, NEW position \in 1..Cards, PickCard(u, position)
        PROVE  DrawInv'
    BY <2>2, PickStep
  <2>3. ASSUME NEW s \in Spends,
               \/ \E u \in Players : FindSpendablePrize(s, u)
               \/ ClaimPrize(s)
               \/ \E cause \in {"HOLD_RELEASED", "BOOKING_REFUNDED"} : ReleaseCardPrize(s, cause)
        PROVE  DrawInv'
    BY <2>3, SpendStep
  <2>4. CASE DrawTick \/ UNCHANGED drawVars
    <3>1. UNCHANGED <<freeSlotsHeld, deals, prizes, dealing, weekLock, paidBy, spending>>
      BY <2>4 DEF DrawTick, drawVars
    <3>2. drawClock' \in 0..MaxDrawClock
      <4>1. drawClock \in 0..MaxDrawClock /\ MaxDrawClock \in Nat
        BY DrawTyped, CardDrawsAssumption DEF DrawInv
      <4> QED BY <2>4, <4>1 DEF DrawTick, drawVars
    <3>3. DrawTypeOK'
      BY <3>1, <3>2 DEF DrawInv, DrawTypeOK
    <3>4. FreeSlotsAccounted' /\ PrizePaysOnce' /\ DealsAreWhole' /\ TookUnderLock'
      BY <3>1 DEF DrawInv, FreeSlotsAccounted, KeptFromWeek, PrizePaysOnce, DealsAreWhole, Dealt,
         TookUnderLock, Legendary
    <3> QED BY <3>3, <3>4 DEF DrawInv
  <2> QED BY <2>1, <2>2, <2>3, <2>4 DEF DrawNext
<1>3. DrawInv => PrizesAccounted
  BY DEF DrawInv, PrizesAccounted
<1> QED BY <1>1, <1>2, <1>3, PTL DEF DrawSpec

-----------------------------------------------------------------------------
(* The loyalty ledger.                                                     *)

\* What an entry may be; the kinds a booking's points are about.
EntryKinds == {"REDEEMED", "REDEMPTION_RELEASED", "PURCHASE_EARNED", "PURCHASE_REVERSED",
               "WELCOME_BONUS", "REFERRAL_BONUS", "ADMIN_ADJUSTMENT", "CLAIM_REFERRAL"}
SaleKinds == {"REDEEMED", "REDEMPTION_RELEASED"}

\* An entry; only spends, which are refused rather than overdrawing, and
\* reversals take points away.
EntryRows == [kind : EntryKinds, user : Members, ref : Members \cup Sales, points : Int, tierPoints : Int]
Entries == {e \in EntryRows : e.points < 0 => RefusesOverdraft(e) \/ e.kind = "PURCHASE_REVERSED"}

\* The rows there are, and the transactions that change them.
AccountRow == [balance : Int, tierPoints : Int, tier : {1, 2}, rewarded : BOOLEAN]
SaleStates == {"NONE", "HELD", "EXPIRED", "CONFIRMED", "REFUNDED"}
SaleRow == [status : SaleStates, redeemed : {0, RedeemedPoints}]
OwnRows == UNION {[D -> AccountRow] : D \in SUBSET Members}
SetRows == UNION {[D -> SaleRow] : D \in SUBSET Sales}
TxRows == [work : Seq(Entries), step : {"idle", "look", "move", "write"}, own : OwnRows,
           wrote : SUBSET Entries, sets : SetRows]
Listed(list) == {list[i] : i \in DOMAIN list}
InWork(tx) == Listed(tx.work)

\* Rows, locks and transactions have their shapes.
LedgerShape ==
  /\ ledger \in SUBSET Entries /\ IsFiniteSet(ledger)
  /\ accounts \in [Members -> AccountRow]
  /\ locks \in [Members -> Txs \cup {Noone}]
  /\ sales \in [Sales -> SaleRow]
  /\ txs \in [Txs -> TxRows]
  /\ \A x \in Txs : IsFiniteSet(txs[x].wrote)
  /\ \A x \in Txs : txs[x].step \in {"move", "write"} => txs[x].work # << >>
  /\ \A u \in Members : locks[u] # Noone => txs[locks[u]].step # "idle"

\* What a transaction changed is locked by it; its entries are of accounts it
\* changed, and new.
LockedOwn ==
  \A x \in Txs :
    /\ \A u \in DOMAIN txs[x].own : locks[u] = x
    /\ \A e \in txs[x].wrote : e.user \in DOMAIN txs[x].own /\ e \notin ledger

\* An account less the points of a move under way is the sum of some entries.
Mine(S, u) == {e \in S : e.user = u}
Fits(acc, S, p, t) ==
  /\ acc.balance - p = PointsOf(S) /\ acc.tierPoints - t = TierPointsOf(S)
  /\ acc.tier = TierFor(acc.tierPoints - t)
  /\ acc.balance - p < 0 => \E e \in S : e.kind = "PURCHASE_REVERSED"

\* An account is being moved; the accounts a transaction changed add up.
Moving(tx, u) == tx.step = "write" /\ Head(tx.work).user = u
OwnFits(tx) ==
  /\ \A u \in DOMAIN tx.own :
       /\ Moving(tx, u) => Fits(tx.own[u], Mine(ledger \cup tx.wrote, u), Head(tx.work).points, Head(tx.work).tierPoints)
       /\ ~Moving(tx, u) => Fits(tx.own[u], Mine(ledger \cup tx.wrote, u), 0, 0)
  /\ tx.step = "write" =>
       /\ Head(tx.work).user \in DOMAIN tx.own
       /\ Head(tx.work).points >= 0 \/ ~RefusesOverdraft(Head(tx.work)) \/ tx.own[Head(tx.work).user].balance >= 0

\* So do the committed ones.
AccountsFit ==
  /\ \A u \in Members : Fits(accounts[u], Mine(ledger, u), 0, 0)
  /\ \A x \in Txs : OwnFits(txs[x])

\* The entries about a booking's points are those its state asks for.
OfSale(S, k) == {e \in S : e.ref = k /\ e.kind \in SaleKinds}
Spend(k) == Entry("REDEEMED", Buyer[k], k, -RedeemedPoints, 0)
Return(k) == Entry("REDEMPTION_RELEASED", Buyer[k], k, RedeemedPoints, 0)
SaleAsks(k, row) ==
  IF row.redeemed = 0 THEN {}
  ELSE IF row.status \in {"EXPIRED", "REFUNDED"} THEN {Spend(k), Return(k)} ELSE {Spend(k)}

\* Once a transaction is done, its bookings have the entries they ask for.
SetsFit(tx) ==
  /\ \A k \in DOMAIN tx.sets : OfSale(ledger \cup tx.wrote \cup InWork(tx), k) = SaleAsks(k, tx.sets[k])
  /\ \A e \in tx.wrote \cup InWork(tx) : e.kind \in SaleKinds => e.ref \in DOMAIN tx.sets

\* Every booking has, and is changed by one transaction at a time.
SalesFit ==
  /\ \A k \in Sales : OfSale(ledger, k) = SaleAsks(k, sales[k])
  /\ \A k \in Sales : sales[k].status = "NONE" => sales[k].redeemed = 0
  /\ \A x \in Txs : \A k \in DOMAIN txs[x].sets : txs[x].sets[k].status # "NONE"
  /\ \A x \in Txs : SetsFit(txs[x])
  /\ \A x, y \in Txs : \A k \in DOMAIN txs[x].sets : k \in DOMAIN txs[y].sets => x = y

LedgerInv == LedgerShape /\ LockedOwn /\ AccountsFit /\ SalesFit

\* Finitely many entries have finitely many units.
LEMMA UnitsFinite ==
  ASSUME NEW S, IsFiniteSet(S), NEW w \in [S -> Int]
  PROVE  IsFiniteSet(Units(w)) /\ Cardinality(Units(w)) \in Nat
<1> DEFINE part(e) == {e} \X (1..w[e])
           family == {part(e) : e \in S}
           f == [e \in S |-> part(e)]
<1>1. f \in Surjection(S, family)
  BY DEF Surjection
<1>2. IsFiniteSet(family)
  BY <1>1, FS_Surjection
<1>3. \A T \in family : IsFiniteSet(T)
  <2> SUFFICES ASSUME NEW e \in S PROVE IsFiniteSet(part(e))
    OBVIOUS
  <2>1. IsFiniteSet({e})
    BY FS_Singleton
  <2>2. w[e] \in Int
    OBVIOUS
  <2>3. IsFiniteSet(1..w[e])
    BY <2>2, FS_Interval
  <2> QED BY <2>1, <2>3, FS_Product
<1>4. Units(w) = UNION family
  BY DEF Units
<1>5. IsFiniteSet(Units(w))
  BY <1>2, <1>3, <1>4, FS_UNION
<1> QED BY <1>5, FS_CardinalityType

\* One more entry adds its own units.
LEMMA OneMoreUnits ==
  ASSUME NEW S, IsFiniteSet(S), NEW e, e \notin S, NEW v \in [S -> Int], NEW w \in [S \cup {e} -> Int],
         \A d \in S : w[d] = v[d]
  PROVE  Cardinality(Units(w)) = Cardinality(Units(v)) + IF w[e] > 0 THEN w[e] ELSE 0
<1> DEFINE more == {e} \X (1..w[e])
<1>1. IsFiniteSet(Units(v)) /\ Cardinality(Units(v)) \in Nat
  BY UnitsFinite
<1>2. Units(w) = Units(v) \cup more
  <2>1. Units(w) = UNION {{d} \X (1..w[d]) : d \in S \cup {e}}
    BY DEF Units
  <2>2. Units(v) = UNION {{d} \X (1..v[d]) : d \in S}
    BY DEF Units
  <2> QED BY <2>1, <2>2
<1>3. Units(v) \cap more = {}
  BY DEF Units
<1>4. w[e] \in Int
  OBVIOUS
<1>5. IsFiniteSet({e}) /\ Cardinality({e}) = 1 /\ IsFiniteSet(1..w[e])
      /\ Cardinality(1..w[e]) = IF w[e] > 0 THEN w[e] ELSE 0
  <2>1. IsFiniteSet(1..w[e]) /\ Cardinality(1..w[e]) = IF 1 > w[e] THEN 0 ELSE w[e] - 1 + 1
    BY <1>4, FS_Interval
  <2>2. IsFiniteSet({e}) /\ Cardinality({e}) = 1
    BY FS_Singleton
  <2>3. Cardinality(1..w[e]) = IF w[e] > 0 THEN w[e] ELSE 0
    BY ONLY <1>4, <2>1
  <2> QED BY <2>1, <2>2, <2>3
<1>6. IsFiniteSet(more) /\ Cardinality(more) = 1 * Cardinality(1..w[e])
  BY <1>5, FS_Product
<1>7. Cardinality(Units(v) \cup more) = Cardinality(Units(v)) + Cardinality(more) - Cardinality({})
  <2> HIDE DEF more
  <2> QED BY <1>1, <1>3, <1>6, FS_Union
<1> HIDE DEF more
<1>8. Cardinality({}) = 0
  BY FS_EmptySet
<1> QED BY <1>1, <1>2, <1>4, <1>5, <1>6, <1>7, <1>8

\* A total grows by what an entry adds to it, and is none without entries.
LEMMA OneMore ==
  ASSUME NEW S, IsFiniteSet(S), NEW e, e \notin S, NEW v \in [S -> Int], NEW w \in [S \cup {e} -> Int],
         \A d \in S : w[d] = v[d]
  PROVE  Total(w) = Total(v) + w[e] /\ Total(v) \in Int
<1> DEFINE nv == [d \in S |-> -v[d]]
           nw == [d \in S \cup {e} |-> -w[d]]
<1>1. nv \in [S -> Int] /\ nw \in [S \cup {e} -> Int] /\ \A d \in S : nw[d] = nv[d]
  OBVIOUS
<1>2. nw[e] = -w[e] /\ w[e] \in Int
  OBVIOUS
<1>3. Total(v) = Cardinality(Units(v)) - Cardinality(Units(nv)) /\ Total(w) = Cardinality(Units(w)) - Cardinality(Units(nw))
  BY DEF Total
<1> HIDE DEF nv, nw
<1>4. Cardinality(Units(w)) = Cardinality(Units(v)) + IF w[e] > 0 THEN w[e] ELSE 0
  BY OneMoreUnits
<1>5. Cardinality(Units(nw)) = Cardinality(Units(nv)) + IF nw[e] > 0 THEN nw[e] ELSE 0
  BY <1>1, OneMoreUnits
<1>6. Cardinality(Units(v)) \in Nat /\ Cardinality(Units(nv)) \in Nat
  BY <1>1, UnitsFinite
<1> QED BY ONLY <1>2, <1>3, <1>4, <1>5, <1>6

\* Without entries there are no points.
LEMMA NoTotal == PointsOf({}) = 0 /\ TierPointsOf({}) = 0
<1>1. ASSUME NEW w, DOMAIN w = {} PROVE Total(w) = 0
  <2>1. Units(w) = {} /\ Units([e \in DOMAIN w |-> -w[e]]) = {}
    BY <1>1 DEF Units
  <2> QED BY <2>1, FS_EmptySet DEF Total
<1> QED BY <1>1 DEF PointsOf, TierPointsOf

\* So do the points of entries.
LEMMA OneMoreEntry ==
  ASSUME NEW S \in SUBSET Entries, IsFiniteSet(S), NEW e \in Entries, e \notin S
  PROVE  /\ PointsOf(S \cup {e}) = PointsOf(S) + e.points /\ TierPointsOf(S \cup {e}) = TierPointsOf(S) + e.tierPoints
         /\ PointsOf(S) \in Int /\ TierPointsOf(S) \in Int
<1>0. \A d \in S \cup {e} : d.points \in Int /\ d.tierPoints \in Int
  BY DEF Entries, EntryRows
<1> DEFINE vp == [d \in S |-> d.points]
           wp == [d \in S \cup {e} |-> d.points]
           vt == [d \in S |-> d.tierPoints]
           wt == [d \in S \cup {e} |-> d.tierPoints]
<1>1. vp \in [S -> Int] /\ wp \in [S \cup {e} -> Int] /\ (\A d \in S : wp[d] = vp[d]) /\ wp[e] = e.points
  BY <1>0
<1>2. vt \in [S -> Int] /\ wt \in [S \cup {e} -> Int] /\ (\A d \in S : wt[d] = vt[d]) /\ wt[e] = e.tierPoints
  BY <1>0
<1>3. /\ PointsOf(S) = Total(vp) /\ PointsOf(S \cup {e}) = Total(wp)
      /\ TierPointsOf(S) = Total(vt) /\ TierPointsOf(S \cup {e}) = Total(wt)
  BY DEF PointsOf, TierPointsOf
<1> HIDE DEF vp, wp, vt, wt
<1>4. Total(wp) = Total(vp) + wp[e] /\ Total(vp) \in Int
  BY ONLY <1>1, OneMore, IsFiniteSet(S), e \notin S
<1>5. Total(wt) = Total(vt) + wt[e] /\ Total(vt) \in Int
  BY ONLY <1>2, OneMore, IsFiniteSet(S), e \notin S
<1> QED BY <1>1, <1>2, <1>3, <1>4, <1>5

\* What a transaction is made of.
LEMMA TxFields ==
  ASSUME NEW tx \in TxRows
  PROVE  /\ tx.work \in Seq(Entries) /\ tx.step \in {"idle", "look", "move", "write"}
         /\ tx.wrote \in SUBSET Entries /\ tx.own \in OwnRows /\ tx.sets \in SetRows
         /\ tx = [work |-> tx.work, step |-> tx.step, own |-> tx.own, wrote |-> tx.wrote, sets |-> tx.sets]
<1> HIDE DEF Entries, OwnRows, SetRows
<1> QED BY DEF TxRows

\* The accounts a transaction changed.
LEMMA OwnFields ==
  ASSUME NEW own \in OwnRows
  PROVE  /\ DOMAIN own \in SUBSET Members /\ own \in [DOMAIN own -> AccountRow]
BY DEF OwnRows

\* They are accounts of members.
LEMMA OwnType ==
  ASSUME NEW D \in SUBSET Members, NEW own \in [D -> AccountRow]
  PROVE  own \in OwnRows
BY DEF OwnRows

\* The bookings a transaction changes.
LEMMA SetFields ==
  ASSUME NEW sets \in SetRows
  PROVE  /\ DOMAIN sets \in SUBSET Sales /\ sets \in [DOMAIN sets -> SaleRow]
BY DEF SetRows

\* They are bookings there are.
LEMMA SetType ==
  ASSUME NEW D \in SUBSET Sales, NEW sets \in [D -> SaleRow]
  PROVE  sets \in SetRows
BY DEF SetRows

\* What makes a transaction.
LEMMA TxType ==
  ASSUME NEW work \in Seq(Entries), NEW p \in {"idle", "look", "move", "write"}, NEW own \in OwnRows,
         NEW wrote \in SUBSET Entries, NEW sets \in SetRows
  PROVE  [work |-> work, step |-> p, own |-> own, wrote |-> wrote, sets |-> sets] \in TxRows
BY DEF TxRows

\* What is changed of a transaction, and what is not.
BegunTx(tx, w, p, b) == [tx EXCEPT !.work = w, !.step = p, !.sets = b]
WorkedTx(tx, w) == [tx EXCEPT !.work = w, !.step = "look"]
ClaimedTx(tx, w, o) == [tx EXCEPT !.work = w, !.own = o]
MovedTx(tx, o) == [tx EXCEPT !.step = "write", !.own = o]
SteppedTx(tx, p) == [tx EXCEPT !.step = p]
OwningTx(tx, o) == [tx EXCEPT !.own = o]
WritingTx(tx, r, o) == [tx EXCEPT !.wrote = r, !.own = o]

\* A transaction that begins.
LEMMA BegunFields ==
  ASSUME NEW tx \in TxRows, NEW w \in Seq(Entries), NEW p \in {"idle", "look", "move", "write"}, NEW b \in SetRows
  PROVE  /\ BegunTx(tx, w, p, b) \in TxRows
         /\ BegunTx(tx, w, p, b).work = w
         /\ BegunTx(tx, w, p, b).step = p
         /\ BegunTx(tx, w, p, b).own = tx.own
         /\ BegunTx(tx, w, p, b).wrote = tx.wrote
         /\ BegunTx(tx, w, p, b).sets = b
<1> HIDE DEF Entries, OwnRows, SetRows
<1>1. PICK LS : LS = Seq(Entries)
  OBVIOUS
<1>2. TxRows = [work : LS, step : {"idle", "look", "move", "write"}, own : OwnRows, wrote : SUBSET Entries, sets : SetRows]
  BY <1>1 DEF TxRows
<1> QED BY <1>1, <1>2 DEF BegunTx

\* One that is on with its list.
LEMMA WorkedFields ==
  ASSUME NEW tx \in TxRows, NEW w \in Seq(Entries)
  PROVE  /\ WorkedTx(tx, w) \in TxRows
         /\ WorkedTx(tx, w).work = w
         /\ WorkedTx(tx, w).step = "look"
         /\ WorkedTx(tx, w).own = tx.own
         /\ WorkedTx(tx, w).wrote = tx.wrote
         /\ WorkedTx(tx, w).sets = tx.sets
<1> HIDE DEF Entries, OwnRows, SetRows
<1>1. PICK LS : LS = Seq(Entries)
  OBVIOUS
<1>2. TxRows = [work : LS, step : {"idle", "look", "move", "write"}, own : OwnRows, wrote : SUBSET Entries, sets : SetRows]
  BY <1>1 DEF TxRows
<1> QED BY <1>1, <1>2 DEF WorkedTx

\* One that claimed a referral's reward.
LEMMA ClaimedFields ==
  ASSUME NEW tx \in TxRows, NEW w \in Seq(Entries), NEW o \in OwnRows
  PROVE  /\ ClaimedTx(tx, w, o) \in TxRows
         /\ ClaimedTx(tx, w, o).work = w
         /\ ClaimedTx(tx, w, o).step = tx.step
         /\ ClaimedTx(tx, w, o).own = o
         /\ ClaimedTx(tx, w, o).wrote = tx.wrote
         /\ ClaimedTx(tx, w, o).sets = tx.sets
<1> HIDE DEF Entries, OwnRows, SetRows
<1>1. PICK LS : LS = Seq(Entries)
  OBVIOUS
<1>2. TxRows = [work : LS, step : {"idle", "look", "move", "write"}, own : OwnRows, wrote : SUBSET Entries, sets : SetRows]
  BY <1>1 DEF TxRows
<1> QED BY <1>1, <1>2 DEF ClaimedTx

\* One that moved an account.
LEMMA MovedFields ==
  ASSUME NEW tx \in TxRows, NEW o \in OwnRows
  PROVE  /\ MovedTx(tx, o) \in TxRows
         /\ MovedTx(tx, o).work = tx.work
         /\ MovedTx(tx, o).step = "write"
         /\ MovedTx(tx, o).own = o
         /\ MovedTx(tx, o).wrote = tx.wrote
         /\ MovedTx(tx, o).sets = tx.sets
<1> HIDE DEF Entries, OwnRows, SetRows
<1>1. PICK LS : LS = Seq(Entries)
  OBVIOUS
<1>2. TxRows = [work : LS, step : {"idle", "look", "move", "write"}, own : OwnRows, wrote : SUBSET Entries, sets : SetRows]
  BY <1>1 DEF TxRows
<1> QED BY <1>1, <1>2 DEF MovedTx

\* One that takes a step.
LEMMA SteppedFields ==
  ASSUME NEW tx \in TxRows, NEW p \in {"idle", "look", "move", "write"}
  PROVE  /\ SteppedTx(tx, p) \in TxRows
         /\ SteppedTx(tx, p).work = tx.work
         /\ SteppedTx(tx, p).step = p
         /\ SteppedTx(tx, p).own = tx.own
         /\ SteppedTx(tx, p).wrote = tx.wrote
         /\ SteppedTx(tx, p).sets = tx.sets
<1> HIDE DEF Entries, OwnRows, SetRows
<1>1. PICK LS : LS = Seq(Entries)
  OBVIOUS
<1>2. TxRows = [work : LS, step : {"idle", "look", "move", "write"}, own : OwnRows, wrote : SUBSET Entries, sets : SetRows]
  BY <1>1 DEF TxRows
<1> QED BY <1>1, <1>2 DEF SteppedTx

\* One that put an account back.
LEMMA OwningFields ==
  ASSUME NEW tx \in TxRows, NEW o \in OwnRows
  PROVE  /\ OwningTx(tx, o) \in TxRows
         /\ OwningTx(tx, o).work = tx.work
         /\ OwningTx(tx, o).step = tx.step
         /\ OwningTx(tx, o).own = o
         /\ OwningTx(tx, o).wrote = tx.wrote
         /\ OwningTx(tx, o).sets = tx.sets
<1> HIDE DEF Entries, OwnRows, SetRows
<1>1. PICK LS : LS = Seq(Entries)
  OBVIOUS
<1>2. TxRows = [work : LS, step : {"idle", "look", "move", "write"}, own : OwnRows, wrote : SUBSET Entries, sets : SetRows]
  BY <1>1 DEF TxRows
<1> QED BY <1>1, <1>2 DEF OwningTx

\* One that wrote an entry.
LEMMA WritingFields ==
  ASSUME NEW tx \in TxRows, NEW r \in SUBSET Entries, NEW o \in OwnRows
  PROVE  /\ WritingTx(tx, r, o) \in TxRows
         /\ WritingTx(tx, r, o).work = tx.work
         /\ WritingTx(tx, r, o).step = tx.step
         /\ WritingTx(tx, r, o).own = o
         /\ WritingTx(tx, r, o).wrote = r
         /\ WritingTx(tx, r, o).sets = tx.sets
<1> HIDE DEF Entries, OwnRows, SetRows
<1>1. PICK LS : LS = Seq(Entries)
  OBVIOUS
<1>2. TxRows = [work : LS, step : {"idle", "look", "move", "write"}, own : OwnRows, wrote : SUBSET Entries, sets : SetRows]
  BY <1>1 DEF TxRows
<1> QED BY <1>1, <1>2 DEF WritingTx

\* The list of what is left to post, its first and the others.
LEMMA ListParts ==
  ASSUME NEW list \in Seq(Entries), list # << >>
  PROVE  /\ Head(list) \in Entries /\ Tail(list) \in Seq(Entries)
         /\ Listed(list) = {Head(list)} \cup Listed(Tail(list))
<1> HIDE DEF Entries
<1>1. Len(list) \in Nat /\ Len(list) > 0 /\ DOMAIN list = 1..Len(list) /\ Head(list) = list[1]
  OBVIOUS
<1>2. Tail(list) \in Seq(Entries) /\ DOMAIN Tail(list) = 1..(Len(list) - 1)
      /\ \A i \in 1..(Len(list) - 1) : Tail(list)[i] = list[i + 1]
  OBVIOUS
<1>3. \A i \in DOMAIN list : i = 1 \/ (i - 1 \in DOMAIN Tail(list) /\ Tail(list)[i - 1] = list[i])
  BY <1>1, <1>2
<1>4. \A i \in DOMAIN Tail(list) : i + 1 \in DOMAIN list
  BY <1>1, <1>2
<1>5. Listed(list) \subseteq {Head(list)} \cup Listed(Tail(list))
  BY <1>1, <1>3 DEF Listed
<1>6. {Head(list)} \cup Listed(Tail(list)) \subseteq Listed(list)
  BY <1>1, <1>2, <1>4 DEF Listed
<1> QED BY <1>1, <1>2, <1>5, <1>6

\* One list after another.
LEMMA ListsJoin ==
  ASSUME NEW s \in Seq(Entries), NEW list \in Seq(Entries)
  PROVE  s \o list \in Seq(Entries) /\ Listed(s \o list) = Listed(s) \cup Listed(list)
<1> HIDE DEF Entries
<1>1. /\ Len(s) \in Nat /\ Len(list) \in Nat /\ DOMAIN s = 1..Len(s) /\ DOMAIN list = 1..Len(list)
      /\ s \o list \in Seq(Entries) /\ DOMAIN (s \o list) = 1..(Len(s) + Len(list))
  OBVIOUS
<1>2. \A i \in DOMAIN s : i \in DOMAIN (s \o list) /\ (s \o list)[i] = s[i]
  BY <1>1
<1>3. \A i \in DOMAIN list : Len(s) + i \in DOMAIN (s \o list) /\ (s \o list)[Len(s) + i] = list[i]
  BY <1>1
<1>4. \A i \in DOMAIN (s \o list) : i \in DOMAIN s \/ (i - Len(s) \in DOMAIN list /\ (s \o list)[i] = list[i - Len(s)])
  BY <1>1
<1>5. Listed(s \o list) \subseteq Listed(s) \cup Listed(list)
  BY <1>2, <1>4 DEF Listed
<1>6. Listed(s) \cup Listed(list) \subseteq Listed(s \o list)
  BY <1>2, <1>3 DEF Listed
<1> QED BY <1>1, <1>5, <1>6

\* The list of nothing.
LEMMA NoList == << >> \in Seq(Entries) /\ Listed(<< >>) = {}
BY DEF Listed

\* The list of one entry.
LEMMA ListOfOne ==
  ASSUME NEW a \in Entries
  PROVE  <<a>> \in Seq(Entries) /\ Listed(<<a>>) = {a}
<1> HIDE DEF Entries
<1> QED BY DEF Listed

\* The list of two.
LEMMA ListOfTwo ==
  ASSUME NEW a \in Entries, NEW b \in Entries
  PROVE  <<a, b>> \in Seq(Entries) /\ Listed(<<a, b>>) = {a, b}
<1> HIDE DEF Entries
<1> QED BY DEF Listed

\* A step of one transaction that commits nothing.
LEMMA LocalStep ==
  ASSUME LedgerInv, NEW x \in Txs, NEW tx \in TxRows,
         txs' = [txs EXCEPT ![x] = tx], UNCHANGED <<ledger, accounts, sales>>,
         IsFiniteSet(tx.wrote), tx.step \in {"move", "write"} => tx.work # << >>,
         locks' \in [Members -> Txs \cup {Noone}],
         \A u \in Members : locks'[u] = locks[u] \/ locks[u] = x \/ (locks[u] = Noone /\ locks'[u] = x),
         \A u \in Members : locks'[u] \in {x, Noone, locks[u]} /\ (locks'[u] = x => tx.step # "idle"),
         \A u \in DOMAIN tx.own : locks'[u] = x,
         \A e \in tx.wrote : e.user \in DOMAIN tx.own /\ e \notin ledger,
         OwnFits(tx), SetsFit(tx),
         \A k \in DOMAIN tx.sets : tx.sets[k].status # "NONE" /\ \A y \in Txs : k \in DOMAIN txs[y].sets => y = x
  PROVE  LedgerInv'
<1>1. txs' \in [Txs -> TxRows] /\ txs'[x] = tx /\ \A y \in Txs : y # x => txs'[y] = txs[y]
  BY DEF LedgerInv, LedgerShape
<1>2. \A y \in Txs : y = x \/ txs'[y] = txs[y]
  BY <1>1
<1>3. ledger' = ledger /\ accounts' = accounts /\ sales' = sales
  OBVIOUS
<1>4. Noone \notin Txs
  BY LoyaltyAssumption
<1>5. LedgerShape'
  <2>1. \A y \in Txs : IsFiniteSet(txs'[y].wrote) /\ (txs'[y].step \in {"move", "write"} => txs'[y].work # << >>)
    BY <1>1, <1>2 DEF LedgerInv, LedgerShape
  <2>2. ASSUME NEW u \in Members, locks'[u] # Noone PROVE txs'[locks'[u]].step # "idle"
    BY <1>1, <1>2, <1>4, <2>2 DEF LedgerInv, LedgerShape
  <2> QED BY <1>1, <1>3, <2>1, <2>2 DEF LedgerInv, LedgerShape
<1>6. LockedOwn'
  <2> SUFFICES ASSUME NEW y \in Txs
               PROVE  /\ \A u \in DOMAIN txs'[y].own : locks'[u] = y
                      /\ \A e \in txs'[y].wrote : e.user \in DOMAIN txs'[y].own /\ e \notin ledger'
    BY DEF LockedOwn
  <2>1. CASE y = x
    BY <1>1, <1>3, <2>1
  <2>2. CASE y # x
    <3>1. txs'[y] = txs[y] /\ txs[y] \in TxRows
      BY <1>1, <2>2 DEF LedgerInv, LedgerShape
    <3>2. DOMAIN txs[y].own \subseteq Members
      BY <3>1, TxFields, OwnFields
    <3> QED BY <1>3, <1>4, <2>2, <3>1, <3>2 DEF LedgerInv, LockedOwn
  <2> QED BY <2>1, <2>2
<1>7. AccountsFit'
  <2>1. \A y \in Txs : OwnFits(txs'[y])
    BY <1>1, <1>2 DEF LedgerInv, AccountsFit
  <2> QED BY <1>3, <2>1 DEF LedgerInv, AccountsFit, OwnFits, Moving
<1>8. SalesFit'
  <2>1. \A y \in Txs : SetsFit(txs'[y]) /\ \A k \in DOMAIN txs'[y].sets : txs'[y].sets[k].status # "NONE"
    BY <1>1, <1>2 DEF LedgerInv, SalesFit
  <2>2. ASSUME NEW y \in Txs, NEW z \in Txs, NEW k \in DOMAIN txs'[y].sets, k \in DOMAIN txs'[z].sets
        PROVE  y = z
    <3>1. CASE y # x /\ z # x
      BY <1>1, <2>2, <3>1 DEF LedgerInv, SalesFit
    <3>2. CASE y = x \/ z = x
      BY <1>1, <1>2, <2>2, <3>2
    <3> QED BY <3>1, <3>2
  <2>3. (\A y \in Txs : SetsFit(txs[y]))'
    <3> SUFFICES ASSUME NEW y \in Txs PROVE SetsFit(txs[y])'
      OBVIOUS
    <3>1. PICK t : t = txs'[y]
      OBVIOUS
    <3>2. SetsFit(t)
      BY <2>1, <3>1
    <3>3. /\ \A k \in DOMAIN t.sets : OfSale(ledger \cup t.wrote \cup InWork(t), k) = SaleAsks(k, t.sets[k])
          /\ \A e \in t.wrote \cup InWork(t) : e.kind \in SaleKinds => e.ref \in DOMAIN t.sets
      BY <3>2 DEF SetsFit
    <3>4. InWork(txs[y])' = InWork(t)
      BY <3>1 DEF InWork
    <3> QED BY <1>3, <3>1, <3>3, <3>4 DEF SetsFit
  <2>4. (\A y, z \in Txs : \A k \in DOMAIN txs[y].sets : k \in DOMAIN txs[z].sets => y = z)'
    BY <2>2
  <2> QED BY <1>3, <2>1, <2>3, <2>4 DEF LedgerInv, SalesFit
<1> QED BY <1>5, <1>6, <1>7, <1>8 DEF LedgerInv

\* A transaction that is not open.
LEMMA IdleFields ==
  /\ IdleTx \in TxRows /\ IdleTx.step = "idle" /\ IdleTx.work = << >> /\ IdleTx.wrote = {}
  /\ IdleTx.own \in OwnRows /\ DOMAIN IdleTx.own = {} /\ DOMAIN IdleTx.sets = {} /\ InWork(IdleTx) = {}
<1>1. [u \in {} |-> NewAccount] \in OwnRows /\ DOMAIN [u \in {} |-> NewAccount] = {}
  <2>1. [u \in {} |-> NewAccount] \in [{} -> AccountRow] /\ {} \in SUBSET Members
    OBVIOUS
  <2> QED BY <2>1, OwnType
<1>2. NoSale \in SetRows /\ DOMAIN NoSale = {}
  <2>1. NoSale \in [{} -> SaleRow] /\ {} \in SUBSET Sales
    BY DEF NoSale
  <2> QED BY <2>1, SetType
<1>3. << >> \in Seq(Entries) /\ {} \in SUBSET Entries
  OBVIOUS
<1>4. PICK own0 \in OwnRows : own0 = [u \in {} |-> NewAccount] /\ DOMAIN own0 = {}
  BY <1>1
<1>5. IdleTx = [work |-> << >>, step |-> "idle", own |-> own0, wrote |-> {}, sets |-> NoSale]
  BY <1>4 DEF IdleTx
<1>6. IdleTx \in TxRows
  BY <1>2, <1>3, <1>5, TxType
<1>7. InWork(IdleTx) = {}
  BY <1>5 DEF InWork, Listed
<1> QED BY <1>2, <1>4, <1>5, <1>6, <1>7

\* A transaction is rolled back, by itself or by the database.
LEMMA RollBackStep ==
  ASSUME LedgerInv, NEW x \in Txs, RollBack(x)
  PROVE  LedgerInv'
<1>0. PICK tx \in TxRows : tx = IdleTx
  BY IdleFields
<1>1. txs' = [txs EXCEPT ![x] = tx] /\ UNCHANGED <<ledger, accounts, sales>>
  BY <1>0 DEF RollBack
<1>2. locks' = [u \in Members |-> IF locks[u] = x THEN Noone ELSE locks[u]] /\ locks \in [Members -> Txs \cup {Noone}]
      /\ Noone # x
  BY LoyaltyAssumption DEF RollBack, LedgerInv, LedgerShape
<1>3. /\ tx.step = "idle" /\ tx.wrote = {} /\ DOMAIN tx.own = {} /\ DOMAIN tx.sets = {} /\ InWork(tx) = {}
  BY <1>0, IdleFields
<1>4. IsFiniteSet(tx.wrote)
  BY <1>3, FS_EmptySet
<1>5. locks' \in [Members -> Txs \cup {Noone}]
  BY <1>2
<1>6. \A u \in Members : locks'[u] = locks[u] \/ locks[u] = x \/ (locks[u] = Noone /\ locks'[u] = x)
  BY <1>2
<1>7. \A u \in Members : locks'[u] \in {x, Noone, locks[u]} /\ (locks'[u] = x => tx.step # "idle")
  BY <1>2
<1>8. OwnFits(tx) /\ SetsFit(tx)
  BY <1>3 DEF OwnFits, SetsFit
<1>9. tx.step \in {"move", "write"} => tx.work # << >>
  BY <1>3
<1>10. /\ \A u \in DOMAIN tx.own : locks'[u] = x
       /\ \A e \in tx.wrote : e.user \in DOMAIN tx.own /\ e \notin ledger
       /\ \A k \in DOMAIN tx.sets : tx.sets[k].status # "NONE" /\ \A y \in Txs : k \in DOMAIN txs[y].sets => y = x
  BY <1>3
<1> QED BY ONLY LedgerInv, <1>1, <1>4, <1>5, <1>6, <1>7, <1>8, <1>9, <1>10, LocalStep

\* A transaction begins with what its bookings ask for.
LEMMA BeginTxStep ==
  ASSUME LedgerInv, NEW x \in Txs, NEW work \in Seq(Entries), NEW sets \in SetRows, BeginTx(x, work, sets),
         \A k \in DOMAIN sets : sets[k].status # "NONE" /\ OfSale(ledger \cup Listed(work), k) = SaleAsks(k, sets[k]),
         \A e \in Listed(work) : e.kind \in SaleKinds => e.ref \in DOMAIN sets
  PROVE  LedgerInv'
<1>0. IdleTx \in TxRows /\ IdleTx.wrote = {} /\ DOMAIN IdleTx.own = {}
  BY IdleFields
<1>1. "look" \in {"idle", "look", "move", "write"}
  OBVIOUS
<1>2. PICK tx : tx = BegunTx(IdleTx, work, "look", sets)
  OBVIOUS
<1>3. /\ tx \in TxRows /\ tx.work = work /\ tx.step = "look" /\ tx.own = IdleTx.own /\ tx.wrote = IdleTx.wrote
      /\ tx.sets = sets
  BY <1>0, <1>1, <1>2, BegunFields
<1>5. tx.work = work /\ tx.step = "look" /\ tx.wrote = {} /\ tx.sets = sets /\ DOMAIN tx.own = {}
  BY <1>0, <1>3
<1>6. /\ txs[x] = IdleTx /\ \A y \in Txs, k \in DOMAIN sets : k \notin DOMAIN txs[y].sets
      /\ txs' = [txs EXCEPT ![x] = tx] /\ UNCHANGED <<ledger, accounts, sales>> /\ locks' = locks
  BY <1>2 DEF BeginTx, BegunTx
<1>7. locks' \in [Members -> Txs \cup {Noone}]
  BY <1>6 DEF LedgerInv, LedgerShape
<1>8. IsFiniteSet(tx.wrote)
  BY <1>5, FS_EmptySet
<1>9. OwnFits(tx)
  BY <1>5 DEF OwnFits
<1>10. SetsFit(tx)
  <2>1. InWork(tx) = Listed(work)
    BY <1>5 DEF InWork
  <2>2. ledger \cup tx.wrote \cup InWork(tx) = ledger \cup Listed(work) /\ tx.wrote \cup InWork(tx) = Listed(work)
    BY <1>5, <2>1
  <2> QED BY <1>5, <2>2 DEF SetsFit
<1>11. \A u \in Members : locks'[u] = locks[u] \/ locks[u] = x \/ (locks[u] = Noone /\ locks'[u] = x)
  BY <1>6
<1>12. \A u \in Members : locks'[u] \in {x, Noone, locks[u]} /\ (locks'[u] = x => tx.step # "idle")
  BY <1>5, <1>6
<1>13. /\ \A u \in DOMAIN tx.own : locks'[u] = x
       /\ \A e \in tx.wrote : e.user \in DOMAIN tx.own /\ e \notin ledger
       /\ \A k \in DOMAIN tx.sets : tx.sets[k].status # "NONE" /\ \A y \in Txs : k \in DOMAIN txs[y].sets => y = x
  BY <1>5, <1>6
<1>14. tx.step \in {"move", "write"} => tx.work # << >>
  BY <1>5
<1> QED BY ONLY LedgerInv, <1>3, <1>6, <1>7, <1>8, <1>9, <1>10, <1>11, <1>12, <1>13, <1>14, LocalStep

\* What the rows are made of.
LEMMA LedgerRows ==
  ASSUME LedgerInv
  PROVE  /\ accounts \in [Members -> AccountRow] /\ sales \in [Sales -> SaleRow] /\ ledger \in SUBSET Entries
         /\ txs \in [Txs -> TxRows] /\ locks \in [Members -> Txs \cup {Noone}]
         /\ Buyer \in [Sales -> Members] /\ Referrer \in [Members -> Members \cup {Noone}]
         /\ Noone \notin Members /\ Noone \notin Txs
         /\ RedeemedPoints \in Nat \ {0} /\ EarnedPoints \in Nat \ {0} /\ BonusPoints \in Nat \ {0}
BY LoyaltyAssumption DEF LedgerInv, LedgerShape

\* The entries there are.
LEMMA EntryType ==
  ASSUME NEW kind \in EntryKinds, NEW w \in Members, NEW ref \in Members \cup Sales, NEW a \in Int, NEW b \in Int,
         a < 0 => kind \in {"REDEEMED", "ADMIN_ADJUSTMENT", "PURCHASE_REVERSED"}
  PROVE  Entry(kind, w, ref, a, b) \in Entries
<1>1. [kind |-> kind, user |-> w, ref |-> ref, points |-> a, tierPoints |-> b] \in EntryRows
  BY DEF EntryRows
<1> QED BY <1>1 DEF Entry, Entries, RefusesOverdraft

\* The entries about a booking.
LEMMA SaleEntries ==
  ASSUME NEW k \in Sales, NEW u \in Members, NEW p \in Int, NEW t \in Int
  PROVE  /\ Spend(k) \in Entries /\ Return(k) \in Entries
         /\ Entry("PURCHASE_EARNED", u, k, EarnedPoints, EarnedPoints) \in Entries
         /\ Entry("PURCHASE_REVERSED", u, k, p, t) \in Entries
         /\ Entry("CLAIM_REFERRAL", u, k, 0, 0) \in Entries
<1>1. Buyer[k] \in Members /\ RedeemedPoints \in Nat \ {0} /\ EarnedPoints \in Nat \ {0}
  BY LoyaltyAssumption
<1>2. /\ -RedeemedPoints \in Int /\ RedeemedPoints \in Int /\ ~(RedeemedPoints < 0) /\ EarnedPoints \in Int
      /\ ~(EarnedPoints < 0) /\ 0 \in Int /\ ~(0 < 0)
  BY <1>1
<1>3. Spend(k) \in Entries /\ Return(k) \in Entries
  BY <1>1, <1>2, EntryType DEF Spend, Return, EntryKinds
<1> QED BY <1>1, <1>2, <1>3, EntryType DEF EntryKinds

\* The entries about a member.
LEMMA MemberEntries ==
  ASSUME NEW u \in Members, NEW v \in Members
  PROVE  /\ Entry("WELCOME_BONUS", u, u, BonusPoints, 0) \in Entries
         /\ Entry("REFERRAL_BONUS", u, v, BonusPoints, 0) \in Entries
         /\ Entry("ADMIN_ADJUSTMENT", u, u, -BonusPoints, 0) \in Entries
<1>1. BonusPoints \in Nat \ {0}
  BY LoyaltyAssumption
<1>2. BonusPoints \in Int /\ -BonusPoints \in Int /\ ~(BonusPoints < 0) /\ 0 \in Int
  BY <1>1
<1> QED BY <1>2, EntryType DEF EntryKinds

\* The points a booking has cost, and will have cost.
LEMMA SaleFacts ==
  ASSUME LedgerInv, NEW k \in Sales
  PROVE  /\ OfSale(ledger, k) = SaleAsks(k, sales[k]) /\ sales[k] \in SaleRow
         /\ sales[k].status \in SaleStates /\ sales[k].redeemed \in {0, RedeemedPoints}
         /\ sales[k].status = "NONE" => sales[k].redeemed = 0
BY DEF LedgerInv, SalesFit, LedgerShape, SaleRow

\* Entries about no booking's points change nothing about them.
LEMMA OtherEntries ==
  ASSUME NEW S, NEW T, NEW k, \A e \in T : e.kind \notin SaleKinds \/ e.ref # k
  PROVE  OfSale(S \cup T, k) = OfSale(S, k)
BY DEF OfSale

\* A reservation asks for the points it spends.
LEMMA ReserveStep ==
  ASSUME LedgerInv, NEW x \in Txs, NEW k \in Sales, ReserveWithPoints(x, k) \/ ReserveWithoutPoints(x, k)
  PROVE  LedgerInv'
<1>0. /\ sales[k].status = "NONE" /\ OfSale(ledger, k) = {} /\ RedeemedPoints \in Nat \ {0}
  BY SaleFacts, LedgerRows DEF ReserveWithPoints, ReserveWithoutPoints, SaleAsks
<1>1. CASE ReserveWithPoints(x, k)
  <2>1. PICK row : row = [status |-> "HELD", redeemed |-> RedeemedPoints]
    OBVIOUS
  <2>2. row \in SaleRow /\ row.status = "HELD" /\ row.redeemed = RedeemedPoints
    BY <2>1 DEF SaleRow, SaleStates
  <2>3. PICK sets \in SetRows : sets = [j \in {k} |-> row]
    <3>1. [j \in {k} |-> row] \in [{k} -> SaleRow] /\ {k} \in SUBSET Sales
      BY <2>2
    <3> QED BY <3>1, SetType
  <2>4. PICK e \in Entries : e = Spend(k)
    BY SaleEntries, LedgerRows
  <2>5. <<e>> \in Seq(Entries) /\ Listed(<<e>>) = {e}
    BY ListOfOne
  <2>6. BeginTx(x, <<e>>, sets)
    BY <1>1, <2>1, <2>3, <2>4 DEF ReserveWithPoints, Spend
  <2>7. e.ref = k /\ e.kind \in SaleKinds
    BY <2>4 DEF Spend, Entry, SaleKinds
  <2>8. OfSale(ledger \cup {e}, k) = {e}
    BY <1>0, <2>7 DEF OfSale
  <2>9. SaleAsks(k, row) = {e}
    BY <1>0, <2>2, <2>4 DEF SaleAsks
  <2> QED BY <2>2, <2>3, <2>5, <2>6, <2>7, <2>8, <2>9, BeginTxStep
<1>2. CASE ReserveWithoutPoints(x, k)
  <2>1. PICK row : row = [status |-> "HELD", redeemed |-> 0]
    OBVIOUS
  <2>2. row \in SaleRow /\ row.status = "HELD" /\ row.redeemed = 0
    BY <2>1 DEF SaleRow, SaleStates
  <2>3. PICK sets \in SetRows : sets = [j \in {k} |-> row]
    <3>1. [j \in {k} |-> row] \in [{k} -> SaleRow] /\ {k} \in SUBSET Sales
      BY <2>2
    <3> QED BY <3>1, SetType
  <2>4. << >> \in Seq(Entries) /\ Listed(<< >>) = {}
    BY NoList
  <2>5. BeginTx(x, << >>, sets)
    BY <1>2, <2>1, <2>3 DEF ReserveWithoutPoints
  <2>6. SaleAsks(k, row) = {} /\ ledger \cup {} = ledger
    BY <2>2 DEF SaleAsks
  <2> QED BY <1>0, <2>2, <2>3, <2>4, <2>5, <2>6, BeginTxStep
<1> QED BY <1>1, <1>2

\* A payment earns, and asks for no points of the booking.
LEMMA SettleStep ==
  ASSUME LedgerInv, NEW x \in Txs, NEW k \in Sales, SettleSale(x, k)
  PROVE  LedgerInv'
<1>0. /\ sales[k].status = "HELD" /\ OfSale(ledger, k) = SaleAsks(k, sales[k]) /\ sales[k] \in SaleRow
  BY SaleFacts DEF SettleSale
<1>1. PICK row : row = [sales[k] EXCEPT !.status = "CONFIRMED"]
  OBVIOUS
<1>2. row \in SaleRow /\ row.status = "CONFIRMED" /\ row.redeemed = sales[k].redeemed
  BY <1>0, <1>1 DEF SaleRow, SaleStates
<1>3. PICK sets \in SetRows : sets = [j \in {k} |-> row]
  <2>1. [j \in {k} |-> row] \in [{k} -> SaleRow] /\ {k} \in SUBSET Sales
    BY <1>2
  <2> QED BY <2>1, SetType
<1>4. Buyer[k] \in Members /\ 0 \in Int
  BY LedgerRows
<1>5. PICK a \in Entries : a = Entry("PURCHASE_EARNED", Buyer[k], k, EarnedPoints, EarnedPoints)
  BY <1>4, SaleEntries
<1>6. PICK b \in Entries : b = Entry("CLAIM_REFERRAL", Buyer[k], k, 0, 0)
  BY <1>4, SaleEntries
<1>7. <<a, b>> \in Seq(Entries) /\ Listed(<<a, b>>) = {a, b}
  BY ListOfTwo
<1>8. BeginTx(x, <<a, b>>, sets)
  BY <1>1, <1>3, <1>5, <1>6 DEF SettleSale
<1>9. a.kind \notin SaleKinds /\ b.kind \notin SaleKinds
  BY <1>5, <1>6 DEF Entry, SaleKinds
<1>10. OfSale(ledger \cup {a, b}, k) = OfSale(ledger, k)
  BY <1>9 DEF OfSale
<1>11. SaleAsks(k, row) = SaleAsks(k, sales[k])
  BY <1>0, <1>2 DEF SaleAsks
<1> QED BY <1>0, <1>2, <1>3, <1>7, <1>8, <1>9, <1>10, <1>11, BeginTxStep

\* A welcome or an adjustment is about no booking.
LEMMA MemberStep ==
  ASSUME LedgerInv, NEW x \in Txs, NEW u \in Members, Welcome(x, u) \/ AdjustPoints(x, u)
  PROVE  LedgerInv'
<1>0. NoSale \in SetRows /\ DOMAIN NoSale = {}
  <2>1. NoSale \in [{} -> SaleRow] /\ {} \in SUBSET Sales
    BY DEF NoSale
  <2> QED BY <2>1, SetType
<1>1. ASSUME NEW e \in Entries, e.kind \notin SaleKinds, BeginTx(x, <<e>>, NoSale)
      PROVE  LedgerInv'
  <2>1. <<e>> \in Seq(Entries) /\ Listed(<<e>>) = {e}
    BY <1>1, ListOfOne
  <2> QED BY <1>0, <1>1, <2>1, BeginTxStep
<1>2. BonusPoints \in Nat
  BY LedgerRows
<1>3. Entry("WELCOME_BONUS", u, u, BonusPoints, 0) \in Entries /\ Entry("ADMIN_ADJUSTMENT", u, u, -BonusPoints, 0) \in Entries
  BY MemberEntries
<1>4. /\ Entry("WELCOME_BONUS", u, u, BonusPoints, 0).kind \notin SaleKinds
      /\ Entry("ADMIN_ADJUSTMENT", u, u, -BonusPoints, 0).kind \notin SaleKinds
  BY DEF Entry, SaleKinds
<1>5. CASE Welcome(x, u)
  BY <1>1, <1>3, <1>4, <1>5 DEF Welcome
<1>6. CASE AdjustPoints(x, u)
  BY <1>1, <1>3, <1>4, <1>6 DEF AdjustPoints
<1> QED BY <1>5, <1>6

\* What a booking that spent points gives back is what it spent.
LEMMA GivesBack ==
  ASSUME LedgerInv, NEW k \in Sales, sales[k].redeemed > 0
  PROVE  /\ sales[k].redeemed = RedeemedPoints /\ GiveBack(k) = Return(k) /\ Return(k) \in Entries
         /\ Return(k).ref = k /\ Return(k).kind = "REDEMPTION_RELEASED"
<1>1. sales[k].redeemed = RedeemedPoints
  BY SaleFacts
<1>2. Return(k) \in Entries
  BY SaleEntries, LedgerRows
<1> QED BY <1>1, <1>2 DEF GiveBack, Return, Entry

\* A booking dropped owes the points it cost, and no others.
LEMMA DroppedAsks ==
  ASSUME LedgerInv, NEW k \in Sales, sales[k].status \in {"HELD", "CONFIRMED"}, NEW row,
         row.status \in {"EXPIRED", "REFUNDED"}, row.redeemed = sales[k].redeemed
  PROVE  SaleAsks(k, row) = OfSale(ledger, k) \cup (IF sales[k].redeemed > 0 THEN {Return(k)} ELSE {})
<1>1. OfSale(ledger, k) = SaleAsks(k, sales[k]) /\ sales[k].redeemed \in {0, RedeemedPoints} /\ RedeemedPoints \in Nat \ {0}
  BY SaleFacts, LedgerRows
<1>2. CASE sales[k].redeemed = 0
  BY <1>1, <1>2 DEF SaleAsks
<1>3. CASE sales[k].redeemed # 0
  BY <1>1, <1>3 DEF SaleAsks
<1> QED BY <1>2, <1>3

\* Lapsed holds give back what each of them spent.
LEMMA ExpireStep ==
  ASSUME LedgerInv, NEW x \in Txs, ExpireLapsedHolds(x)
  PROVE  LedgerInv'
<1>1. PICK lapsed \in SUBSET {k \in Sales : sales[k].status = "HELD"} :
        \E order \in Listings({k \in lapsed : sales[k].redeemed > 0}) :
          BeginTx(x, [i \in DOMAIN order |-> GiveBack(order[i])], [k \in lapsed |-> [sales[k] EXCEPT !.status = "EXPIRED"]])
  BY DEF ExpireLapsedHolds
<1>2. PICK R \in SUBSET Sales : R = {k \in lapsed : sales[k].redeemed > 0}
  OBVIOUS
<1>3. PICK order \in Listings(R) :
        BeginTx(x, [i \in DOMAIN order |-> GiveBack(order[i])], [k \in lapsed |-> [sales[k] EXCEPT !.status = "EXPIRED"]])
  BY <1>1, <1>2
<1>4. Cardinality(R) \in Nat
  BY LoyaltyAssumption, FS_Subset, FS_CardinalityType
<1>5. order \in [1..Cardinality(R) -> R] /\ \A k \in R : \E i \in DOMAIN order : order[i] = k
  BY DEF Listings
<1>6. \A k \in R : GiveBack(k) = Return(k) /\ Return(k) \in Entries /\ Return(k).ref = k /\ Return(k).kind = "REDEMPTION_RELEASED"
  BY <1>2, GivesBack
<1>7. PICK work : work = [i \in DOMAIN order |-> GiveBack(order[i])]
  OBVIOUS
<1>8. work \in Seq(Entries)
  <2>1. work \in [1..Cardinality(R) -> Entries]
    BY <1>5, <1>6, <1>7
  <2> HIDE DEF Entries
  <2> QED BY <1>4, <2>1
<1>9. Listed(work) = {Return(k) : k \in R}
  BY <1>5, <1>6, <1>7 DEF Listed
<1>10. PICK sets : sets = [k \in lapsed |-> [sales[k] EXCEPT !.status = "EXPIRED"]]
  OBVIOUS
<1>11. /\ DOMAIN sets = lapsed
       /\ \A k \in lapsed : /\ sets[k] \in SaleRow /\ sets[k].status = "EXPIRED" /\ sets[k].redeemed = sales[k].redeemed
                            /\ k \in Sales /\ sales[k].status = "HELD"
  BY <1>10, SaleFacts DEF SaleRow, SaleStates
<1>12. sets \in SetRows
  <2>1. sets \in [lapsed -> SaleRow] /\ lapsed \in SUBSET Sales
    BY <1>10, <1>11
  <2> QED BY <2>1, SetType
<1>13. ASSUME NEW k \in DOMAIN sets PROVE sets[k].status # "NONE" /\ OfSale(ledger \cup Listed(work), k) = SaleAsks(k, sets[k])
  <2>1. OfSale(Listed(work), k) = IF sales[k].redeemed > 0 THEN {Return(k)} ELSE {}
    BY <1>2, <1>6, <1>9, <1>11 DEF OfSale, SaleKinds
  <2>2. OfSale(ledger \cup Listed(work), k) = OfSale(ledger, k) \cup OfSale(Listed(work), k)
    BY DEF OfSale
  <2>3. SaleAsks(k, sets[k]) = OfSale(ledger, k) \cup (IF sales[k].redeemed > 0 THEN {Return(k)} ELSE {})
    BY <1>11, DroppedAsks
  <2> QED BY <1>11, <2>1, <2>2, <2>3
<1>14. \A e \in Listed(work) : e.kind \in SaleKinds => e.ref \in DOMAIN sets
  BY <1>2, <1>6, <1>9, <1>11
<1>15. BeginTx(x, work, sets)
  BY <1>3, <1>7, <1>10
<1> QED BY <1>8, <1>12, <1>13, <1>14, <1>15, BeginTxStep

\* A refund reverses what was earned and gives back what was spent.
LEMMA RefundStep ==
  ASSUME LedgerInv, NEW x \in Txs, NEW k \in Sales, RefundSale(x, k)
  PROVE  LedgerInv'
<1> DEFINE earned == {e \in ledger : e.kind = "PURCHASE_EARNED" /\ e.ref = k}
           first == CHOOSE e \in earned : TRUE
           back == Entry("PURCHASE_REVERSED", first.user, k, -first.points, -first.tierPoints)
           reversal == [i \in 1..Cardinality(earned) |-> back]
<1>0. /\ sales[k].status = "CONFIRMED" /\ sales[k] \in SaleRow
      /\ BeginTx(x, reversal \o Release(k), [j \in {k} |-> [sales[k] EXCEPT !.status = "REFUNDED"]])
  BY SaleFacts DEF RefundSale
<1>1. Cardinality(earned) \in Nat /\ (Cardinality(earned) > 0 => earned # {})
  <2>1. IsFiniteSet(earned)
    BY FS_Subset DEF LedgerInv, LedgerShape
  <2> QED BY <2>1, FS_CardinalityType, FS_EmptySet
<1>2. \A i \in 1..Cardinality(earned) : back \in Entries /\ back.kind = "PURCHASE_REVERSED"
  <2> SUFFICES ASSUME earned # {} PROVE back \in Entries /\ back.kind = "PURCHASE_REVERSED"
    BY <1>1
  <2>1. first \in earned
    OBVIOUS
  <2>2. first \in Entries
    BY <2>1, LedgerRows
  <2>3. first.user \in Members /\ -first.points \in Int /\ -first.tierPoints \in Int
    BY <2>2 DEF Entries, EntryRows
  <2>4. back \in Entries
    BY <2>3, SaleEntries
  <2>5. back.kind = "PURCHASE_REVERSED"
    BY DEF Entry
  <2> QED BY <2>4, <2>5
<1>3. PICK n \in Nat : n = Cardinality(earned)
  BY <1>1
<1>4. PICK b : b = back
  OBVIOUS
<1>5. PICK rev : rev = reversal
  OBVIOUS
<1>6. rev = [i \in 1..n |-> b] /\ \A i \in 1..n : b \in Entries /\ b.kind = "PURCHASE_REVERSED"
  BY <1>2, <1>3, <1>4, <1>5
<1> HIDE DEF earned, first, back, reversal
<1>7. rev \in Seq(Entries) /\ \A e \in Listed(rev) : e.kind \notin SaleKinds
  <2>1. rev \in [1..n -> Entries] /\ \A e \in Listed(rev) : e.kind = "PURCHASE_REVERSED"
    BY <1>6 DEF Listed
  <2>2. rev \in Seq(Entries)
    <3> HIDE DEF Entries
    <3> QED BY <2>1
  <2> QED BY <2>1, <2>2 DEF SaleKinds
<1>8. PICK rel \in Seq(Entries) : rel = Release(k) /\ Listed(rel) = IF sales[k].redeemed > 0 THEN {Return(k)} ELSE {}
  <2>1. CASE sales[k].redeemed > 0
    BY <2>1, GivesBack, ListOfOne DEF Release
  <2>2. CASE ~(sales[k].redeemed > 0)
    BY <2>2, NoList DEF Release
  <2> QED BY <2>1, <2>2
<1>9. PICK work \in Seq(Entries) : work = rev \o rel /\ Listed(work) = Listed(rev) \cup Listed(rel)
  BY <1>7, ListsJoin
<1>10. PICK row : row = [sales[k] EXCEPT !.status = "REFUNDED"]
  OBVIOUS
<1>11. row \in SaleRow /\ row.status = "REFUNDED" /\ row.redeemed = sales[k].redeemed
  BY <1>0, <1>10 DEF SaleRow, SaleStates
<1>12. PICK sets \in SetRows : sets = [j \in {k} |-> row]
  <2>1. [j \in {k} |-> row] \in [{k} -> SaleRow] /\ {k} \in SUBSET Sales
    BY <1>11
  <2> QED BY <2>1, SetType
<1>13. BeginTx(x, work, sets)
  BY <1>0, <1>5, <1>8, <1>9, <1>10, <1>12
<1>14. OfSale(ledger \cup Listed(work), k) = SaleAsks(k, row)
  <2>1. OfSale(Listed(rel), k) = Listed(rel)
    BY <1>8, GivesBack DEF OfSale, SaleKinds
  <2>2. OfSale(ledger \cup Listed(work), k) = OfSale(ledger, k) \cup OfSale(Listed(rel), k)
    BY <1>7, <1>9 DEF OfSale
  <2>3. SaleAsks(k, row) = OfSale(ledger, k) \cup (IF sales[k].redeemed > 0 THEN {Return(k)} ELSE {})
    BY <1>0, <1>11, DroppedAsks
  <2> QED BY <1>8, <2>1, <2>2, <2>3
<1>15. \A e \in Listed(work) : e.kind \in SaleKinds => e.ref \in DOMAIN sets
  BY <1>7, <1>8, <1>9, <1>12, GivesBack
<1> QED BY <1>11, <1>12, <1>13, <1>14, <1>15, BeginTxStep

\* What an open transaction knows.
LEMMA TxFacts ==
  ASSUME LedgerInv, NEW x \in Txs
  PROVE  /\ txs[x] \in TxRows /\ IsFiniteSet(txs[x].wrote) /\ txs[x].work \in Seq(Entries)
         /\ txs[x].own \in OwnRows /\ txs[x].wrote \in SUBSET Entries /\ txs[x].sets \in SetRows
         /\ DOMAIN txs[x].own \in SUBSET Members /\ txs[x].own \in [DOMAIN txs[x].own -> AccountRow]
         /\ txs[x].step \in {"move", "write"} => txs[x].work # << >>
         /\ OwnFits(txs[x]) /\ SetsFit(txs[x])
         /\ \A u \in DOMAIN txs[x].own : locks[u] = x
         /\ \A e \in txs[x].wrote : e.user \in DOMAIN txs[x].own /\ e \notin ledger
         /\ \A k \in DOMAIN txs[x].sets : txs[x].sets[k].status # "NONE" /\ \A y \in Txs : k \in DOMAIN txs[y].sets => y = x
         /\ \A u \in Members : locks[u] = x => txs[x].step # "idle"
<1>1. txs[x] \in TxRows
  BY DEF LedgerInv, LedgerShape
<1>2. /\ txs[x].work \in Seq(Entries) /\ txs[x].own \in OwnRows /\ txs[x].wrote \in SUBSET Entries /\ txs[x].sets \in SetRows
  BY <1>1, TxFields
<1>3. DOMAIN txs[x].own \in SUBSET Members /\ txs[x].own \in [DOMAIN txs[x].own -> AccountRow]
  BY <1>2, OwnFields
<1>4. IsFiniteSet(txs[x].wrote) /\ (txs[x].step \in {"move", "write"} => txs[x].work # << >>)
  BY DEF LedgerInv, LedgerShape
<1>5. \A u \in Members : locks[u] = x => txs[x].step # "idle"
  BY LedgerRows DEF LedgerInv, LedgerShape
<1>6. OwnFits(txs[x]) /\ SetsFit(txs[x])
  BY DEF LedgerInv, AccountsFit, SalesFit
<1>7. /\ \A u \in DOMAIN txs[x].own : locks[u] = x
      /\ \A e \in txs[x].wrote : e.user \in DOMAIN txs[x].own /\ e \notin ledger
  BY DEF LedgerInv, LockedOwn
<1>8. \A k \in DOMAIN txs[x].sets : txs[x].sets[k].status # "NONE" /\ \A y \in Txs : k \in DOMAIN txs[y].sets => y = x
  BY DEF LedgerInv, SalesFit
<1> QED BY <1>1, <1>2, <1>3, <1>4, <1>5, <1>6, <1>7, <1>8

\* A booking's entries of one kind are one.
LEMMA OneOfAKind ==
  ASSUME NEW k, NEW row, NEW e \in SaleAsks(k, row), NEW f \in SaleAsks(k, row), e.kind = f.kind
  PROVE  e = f
<1>1. Spend(k).kind = "REDEEMED" /\ Return(k).kind = "REDEMPTION_RELEASED"
  BY DEF Spend, Return, Entry
<1>2. e \in {Spend(k), Return(k)} /\ f \in {Spend(k), Return(k)}
  BY DEF SaleAsks
<1> QED BY <1>1, <1>2

\* An entry is off the list once it is recorded, by whomever.
LEMMA WorkDrops ==
  ASSUME LedgerInv, NEW x \in Txs, txs[x].work # << >>, NEW tx \in TxRows, NEW e, e = Head(txs[x].work),
         tx.work = Tail(txs[x].work), tx.sets = txs[x].sets, tx.wrote \in {txs[x].wrote, txs[x].wrote \cup {e}},
         e \in tx.wrote \/ Written(x, e) \/ e.kind \notin SaleKinds
  PROVE  SetsFit(tx)
<1>1. PICK t \in TxRows : t = txs[x]
  BY TxFacts
<1>2. InWork(t) = {e} \cup InWork(tx)
  BY <1>1, TxFacts, ListParts DEF InWork
<1>3. /\ \A k \in DOMAIN t.sets : OfSale(ledger \cup t.wrote \cup InWork(t), k) = SaleAsks(k, t.sets[k])
      /\ \A d \in t.wrote \cup InWork(t) : d.kind \in SaleKinds => d.ref \in DOMAIN t.sets
  BY <1>1, TxFacts DEF SetsFit
<1> DEFINE A == ledger \cup t.wrote \cup InWork(t)
           B == ledger \cup tx.wrote \cup InWork(tx)
<1>4. B \subseteq A /\ \A d \in A : d \in B \/ d = e
  BY <1>1, <1>2
<1>5. ASSUME NEW k \in DOMAIN tx.sets PROVE OfSale(B, k) = SaleAsks(k, tx.sets[k])
  <2>1. k \in DOMAIN t.sets /\ tx.sets[k] = t.sets[k] /\ OfSale(A, k) = SaleAsks(k, t.sets[k])
    BY <1>1, <1>3, <1>5
  <2>2. OfSale(B, k) \subseteq OfSale(A, k)
    BY <1>4 DEF OfSale
  <2>3. ASSUME e \in OfSale(A, k) PROVE e \in B
    <3>1. e.ref = k /\ e.kind \in SaleKinds
      BY <2>3 DEF OfSale
    <3>2. CASE e \in tx.wrote
      BY <3>2
    <3>3. CASE Written(x, e)
      <4>1. PICK f \in ledger \cup t.wrote : f.kind = e.kind /\ f.ref = e.ref
        BY <1>1, <3>3 DEF Written, Key
      <4>2. f \in OfSale(A, k)
        BY <3>1, <4>1 DEF OfSale
      <4>3. f = e
        BY <2>1, <2>3, <4>1, <4>2, OneOfAKind
      <4> QED BY <1>1, <4>1, <4>3
    <3> QED BY <3>1, <3>2, <3>3
  <2>4. OfSale(A, k) \subseteq OfSale(B, k)
    <3> SUFFICES ASSUME NEW d \in OfSale(A, k) PROVE d \in OfSale(B, k)
      OBVIOUS
    <3>1. d \in A /\ d.ref = k /\ d.kind \in SaleKinds
      BY DEF OfSale
    <3>2. d \in B
      BY <1>4, <2>3, <3>1
    <3> QED BY <3>1, <3>2 DEF OfSale
  <2> QED BY <2>1, <2>2, <2>4
<1>6. \A d \in tx.wrote \cup InWork(tx) : d.kind \in SaleKinds => d.ref \in DOMAIN tx.sets
  BY <1>1, <1>2, <1>3
<1> QED BY <1>5, <1>6 DEF SetsFit

\* A step that leaves the list and the entries alone.
LEMMA SameSets ==
  ASSUME LedgerInv, NEW x \in Txs, NEW tx \in TxRows,
         tx.work = txs[x].work, tx.sets = txs[x].sets, tx.wrote = txs[x].wrote
  PROVE  SetsFit(tx)
<1>1. PICK t \in TxRows : t = txs[x]
  BY TxFacts
<1>2. SetsFit(t)
  BY <1>1, TxFacts
<1>3. /\ \A k \in DOMAIN t.sets : OfSale(ledger \cup t.wrote \cup InWork(t), k) = SaleAsks(k, t.sets[k])
      /\ \A d \in t.wrote \cup InWork(t) : d.kind \in SaleKinds => d.ref \in DOMAIN t.sets
  BY <1>2 DEF SetsFit
<1>4. InWork(tx) = InWork(t) /\ tx.sets = t.sets /\ tx.wrote = t.wrote
  BY <1>1 DEF InWork
<1> QED BY <1>3, <1>4 DEF SetsFit

\* The account a transaction sees is the sum of the entries it sees.
LEMMA AccountFits ==
  ASSUME LedgerInv, NEW x \in Txs, NEW u \in Members, txs[x].step # "write"
  PROVE  Account(x, u) \in AccountRow /\ Fits(Account(x, u), Mine(ledger \cup txs[x].wrote, u), 0, 0)
<1>1. CASE u \in DOMAIN txs[x].own
  <2>1. ~Moving(txs[x], u)
    BY DEF Moving
  <2>2. Account(x, u) = txs[x].own[u] /\ txs[x].own[u] \in AccountRow
    BY <1>1, TxFacts DEF Account
  <2>3. Fits(txs[x].own[u], Mine(ledger \cup txs[x].wrote, u), 0, 0)
    <3>1. OwnFits(txs[x])
      BY TxFacts
    <3> QED BY <1>1, <2>1, <3>1 DEF OwnFits
  <2> QED BY <2>2, <2>3
<1>2. CASE u \notin DOMAIN txs[x].own
  <2>1. Mine(ledger \cup txs[x].wrote, u) = Mine(ledger, u)
    BY <1>2, TxFacts DEF Mine
  <2>2. Account(x, u) = accounts[u] /\ accounts[u] \in AccountRow
    BY <1>2, LedgerRows DEF Account
  <2> QED BY <2>1, <2>2 DEF LedgerInv, AccountsFit
<1> QED BY <1>1, <1>2

\* A step that leaves accounts and entries alone.
LEMMA StillFits ==
  ASSUME LedgerInv, NEW x \in Txs, NEW tx \in TxRows, tx.own = txs[x].own, tx.wrote = txs[x].wrote,
         tx.step # "write", txs[x].step # "write"
  PROVE  OwnFits(tx)
BY TxFacts DEF OwnFits, Moving

\* The entry is looked for.
LEMMA LookStep ==
  ASSUME LedgerInv, NEW x \in Txs, LookForEntry(x)
  PROVE  LedgerInv'
<1>1. PICK t \in TxRows : t = txs[x]
  BY TxFacts
<1>2. PICK e : e = Head(t.work)
  OBVIOUS
<1>3. t.step = "look" /\ t.work # << >> /\ t.work \in Seq(Entries)
  BY <1>1, TxFacts DEF LookForEntry
<1>4. Tail(t.work) \in Seq(Entries)
  BY <1>3, ListParts
<1>5. /\ txs' = [txs EXCEPT ![x] = IF Written(x, e) THEN WorkedTx(t, Tail(t.work)) ELSE SteppedTx(t, "move")]
      /\ UNCHANGED <<ledger, accounts, sales>> /\ locks' = locks
  BY <1>1, <1>2 DEF LookForEntry, WorkDone, WorkedTx, SteppedTx
<1>6. ASSUME NEW tx \in TxRows, txs' = [txs EXCEPT ![x] = tx], tx.own = t.own, tx.wrote = t.wrote, tx.sets = t.sets,
             tx.step \in {"look", "move"}, tx.step = "move" => tx.work # << >>, SetsFit(tx)
      PROVE  LedgerInv'
  <2>1. locks' \in [Members -> Txs \cup {Noone}] /\ \A u \in Members : locks'[u] \in {x, Noone, locks[u]} /\ (locks'[u] = x => tx.step # "idle")
    BY <1>5, <1>6, LedgerRows
  <2>2. \A u \in Members : locks'[u] = locks[u] \/ locks[u] = x \/ (locks[u] = Noone /\ locks'[u] = x)
    BY <1>5
  <2>3. OwnFits(tx)
    BY <1>1, <1>3, <1>6, StillFits
  <2>4. IsFiniteSet(tx.wrote) /\ (tx.step \in {"move", "write"} => tx.work # << >>)
    BY <1>1, <1>6, TxFacts
  <2>5. /\ \A u \in DOMAIN tx.own : locks'[u] = x
        /\ \A d \in tx.wrote : d.user \in DOMAIN tx.own /\ d \notin ledger
        /\ \A k \in DOMAIN tx.sets : tx.sets[k].status # "NONE" /\ \A y \in Txs : k \in DOMAIN txs[y].sets => y = x
    BY <1>1, <1>5, <1>6, TxFacts
  <2> QED BY ONLY LedgerInv, <1>5, <1>6, <2>1, <2>2, <2>3, <2>4, <2>5, LocalStep
<1>7. CASE Written(x, e)
  <2>1. PICK tx : tx = WorkedTx(t, Tail(t.work))
    OBVIOUS
  <2>2. tx \in TxRows /\ tx.work = Tail(t.work) /\ tx.step = "look" /\ tx.own = t.own /\ tx.wrote = t.wrote /\ tx.sets = t.sets
    BY <1>4, <2>1, WorkedFields
  <2>3. SetsFit(tx)
    BY <1>1, <1>2, <1>3, <1>7, <2>2, WorkDrops
  <2> QED BY <1>5, <1>6, <1>7, <2>1, <2>2, <2>3
<1>8. CASE ~Written(x, e)
  <2>1. PICK tx : tx = SteppedTx(t, "move")
    OBVIOUS
  <2>2. tx \in TxRows /\ tx.work = t.work /\ tx.step = "move" /\ tx.own = t.own /\ tx.wrote = t.wrote /\ tx.sets = t.sets
    BY <2>1, SteppedFields
  <2>3. SetsFit(tx)
    BY <1>1, <2>2, SameSets
  <2> QED BY <1>3, <1>5, <1>6, <1>8, <2>1, <2>2, <2>3
<1> QED BY <1>7, <1>8

\* Accounts with one of them changed.
LEMMA ChangedOwn ==
  ASSUME NEW own \in OwnRows, NEW u \in Members, NEW acc \in AccountRow
  PROVE  /\ Changed(own, u, acc) \in OwnRows /\ DOMAIN Changed(own, u, acc) = DOMAIN own \cup {u}
         /\ Changed(own, u, acc)[u] = acc /\ \A v \in DOMAIN own : v # u => Changed(own, u, acc)[v] = own[v]
<1>1. DOMAIN own \in SUBSET Members /\ own \in [DOMAIN own -> AccountRow]
  BY OwnFields
<1>2. Changed(own, u, acc) \in [DOMAIN own \cup {u} -> AccountRow]
  <2> HIDE DEF AccountRow
  <2> QED BY <1>1 DEF Changed
<1>3. Changed(own, u, acc) \in OwnRows
  BY <1>1, <1>2, OwnType
<1> QED BY <1>2, <1>3 DEF Changed

\* Points come and go, the rest of an account stays.
LEMMA MovedRow ==
  ASSUME NEW acc \in AccountRow, NEW p \in Int, NEW t \in Int
  PROVE  /\ Moved(acc, p, t) \in AccountRow /\ Moved(acc, p, t).balance = acc.balance + p
         /\ Moved(acc, p, t).tierPoints = acc.tierPoints + t /\ Moved(acc, p, t).tier = acc.tier
         /\ acc.balance \in Int /\ acc.tierPoints \in Int
<1>1. acc.balance \in Int /\ acc.tierPoints \in Int
  BY DEF AccountRow
<1>2. PICK a \in Int : a = acc.balance + p
  BY <1>1
<1>3. PICK b \in Int : b = acc.tierPoints + t
  BY <1>1
<1>4. Moved(acc, p, t) = [acc EXCEPT !.balance = a, !.tierPoints = b]
  BY <1>2, <1>3 DEF Moved
<1>5. [acc EXCEPT !.balance = a, !.tierPoints = b] \in AccountRow
  BY DEF AccountRow
<1>6. /\ [acc EXCEPT !.balance = a, !.tierPoints = b].balance = a
      /\ [acc EXCEPT !.balance = a, !.tierPoints = b].tierPoints = b
      /\ [acc EXCEPT !.balance = a, !.tierPoints = b].tier = acc.tier
  BY DEF AccountRow
<1> QED BY <1>1, <1>2, <1>3, <1>4, <1>5, <1>6

\* What an entry is made of.
LEMMA EntryFields ==
  ASSUME NEW e \in Entries
  PROVE  /\ e.user \in Members /\ e.points \in Int /\ e.tierPoints \in Int /\ e.kind \in EntryKinds
         /\ e.points < 0 => RefusesOverdraft(e) \/ e.kind = "PURCHASE_REVERSED"
BY DEF Entries, EntryRows

\* A lock is taken where nobody else has it.
LEMMA LockTaken ==
  ASSUME LedgerInv, NEW x \in Txs, NEW u \in Members, LockAccount(x, u)
  PROVE  /\ locks' \in [Members -> Txs \cup {Noone}] /\ locks'[u] = x
         /\ \A v \in Members : locks'[v] = locks[v] \/ locks[v] = x \/ (locks[v] = Noone /\ locks'[v] = x)
         /\ \A v \in Members : locks'[v] \in {x, Noone, locks[v]}
         /\ \A v \in DOMAIN txs[x].own : locks'[v] = x
<1>1. locks \in [Members -> Txs \cup {Noone}] /\ locks[u] \in {Noone, x} /\ locks' = [locks EXCEPT ![u] = x]
  BY LedgerRows DEF LockAccount
<1>2. DOMAIN txs[x].own \in SUBSET Members /\ \A v \in DOMAIN txs[x].own : locks[v] = x
  BY TxFacts
<1> QED BY <1>1, <1>2

\* The account is moved, by no more than it covers.
LEMMA MoveStep ==
  ASSUME LedgerInv, NEW x \in Txs, MoveAccount(x)
  PROVE  LedgerInv'
<1>1. PICK t \in TxRows : t = txs[x]
  BY TxFacts
<1>2. t.step = "move" /\ t.work # << >> /\ t.work \in Seq(Entries) /\ t.own \in OwnRows
  BY <1>1, TxFacts DEF MoveAccount
<1>3. PICK e \in Entries : e = Head(t.work)
  BY <1>2, ListParts
<1>4. PICK u \in Members : u = e.user
  BY EntryFields
<1>5. CASE RollBack(x)
  BY <1>5, RollBackStep
<1>6. CASE ~RollBack(x)
  <2>1. PICK acc \in AccountRow : acc = Account(x, u) /\ Fits(acc, Mine(ledger \cup t.wrote, u), 0, 0)
    BY <1>1, <1>2, AccountFits
  <2>2. PICK new : new = Moved(acc, e.points, e.tierPoints)
    OBVIOUS
  <2>3. /\ new \in AccountRow /\ new.balance = acc.balance + e.points /\ new.tierPoints = acc.tierPoints + e.tierPoints
        /\ new.tier = acc.tier /\ acc.balance \in Int /\ acc.tierPoints \in Int /\ e.points \in Int /\ e.tierPoints \in Int
    BY <2>2, EntryFields, MovedRow
  <2>4. PICK own : own = Changed(t.own, u, new)
    OBVIOUS
  <2>5. /\ own \in OwnRows /\ DOMAIN own = DOMAIN t.own \cup {u} /\ own[u] = new
        /\ \A v \in DOMAIN t.own : v # u => own[v] = t.own[v]
    <3>1. t.own \in OwnRows /\ u \in Members /\ new \in AccountRow
      BY <1>2, <2>3
    <3> QED BY ONLY <2>4, <3>1, ChangedOwn
  <2>6. PICK tx : tx = MovedTx(t, own)
    OBVIOUS
  <2>7. tx \in TxRows /\ tx.work = t.work /\ tx.step = "write" /\ tx.own = own /\ tx.wrote = t.wrote /\ tx.sets = t.sets
    BY <2>5, <2>6, MovedFields
  <2>8. /\ Covered(x, e) /\ LockAccount(x, u) /\ UNCHANGED <<ledger, accounts, sales>> /\ txs' = [txs EXCEPT ![x] = tx]
    BY <1>1, <1>3, <1>4, <1>6, <2>1, <2>2, <2>4, <2>6 DEF MoveAccount, MovedTx
  <2>9. Fits(new, Mine(ledger \cup t.wrote, u), e.points, e.tierPoints)
    <3>1. new.balance - e.points = acc.balance - 0 /\ new.tierPoints - e.tierPoints = acc.tierPoints - 0
      BY ONLY <2>3
    <3> QED BY <2>1, <2>3, <3>1 DEF Fits
  <2>10. e.points >= 0 \/ ~RefusesOverdraft(e) \/ new.balance >= 0
    BY <1>4, <2>1, <2>3, <2>8 DEF Covered
  <2>11. OwnFits(tx)
    <3>1. Head(tx.work) = e /\ Head(tx.work).user = u /\ tx.step = "write" /\ tx.own[u] = new /\ u \in DOMAIN tx.own
      BY <1>3, <1>4, <2>5, <2>7
    <3>2. ASSUME NEW v \in DOMAIN tx.own, v # u PROVE Fits(tx.own[v], Mine(ledger \cup tx.wrote, v), 0, 0)
      <4>1. v \in DOMAIN t.own /\ tx.own[v] = t.own[v] /\ v \in Members
        BY <1>1, <2>5, <2>7, <3>2, TxFacts
      <4>2. Account(x, v) = t.own[v]
        BY <1>1, <4>1 DEF Account
      <4> QED BY <1>1, <1>2, <2>7, <4>1, <4>2, AccountFits
    <3> QED BY <2>7, <2>9, <2>10, <3>1, <3>2 DEF OwnFits, Moving
  <2>12. SetsFit(tx)
    BY <1>1, <2>7, SameSets
  <2>13. /\ locks' \in [Members -> Txs \cup {Noone}]
         /\ \A v \in Members : locks'[v] = locks[v] \/ locks[v] = x \/ (locks[v] = Noone /\ locks'[v] = x)
         /\ \A v \in Members : locks'[v] \in {x, Noone, locks[v]} /\ (locks'[v] = x => tx.step # "idle")
         /\ \A v \in DOMAIN tx.own : locks'[v] = x
    BY <1>1, <2>5, <2>7, <2>8, LockTaken
  <2>14. IsFiniteSet(tx.wrote) /\ (tx.step \in {"move", "write"} => tx.work # << >>)
    BY <1>1, <1>2, <2>7, TxFacts
  <2>15. /\ \A d \in tx.wrote : d.user \in DOMAIN tx.own /\ d \notin ledger
         /\ \A k \in DOMAIN tx.sets : tx.sets[k].status # "NONE" /\ \A y \in Txs : k \in DOMAIN txs[y].sets => y = x
    BY <1>1, <2>5, <2>7, TxFacts
  <2> QED BY ONLY LedgerInv, <2>7, <2>8, <2>11, <2>12, <2>13, <2>14, <2>15, LocalStep
<1> QED BY <1>5, <1>6

\* An account's tier follows its purchase points.
Tiered(acc) == [acc EXCEPT !.tier = TierFor(acc.tierPoints)]

\* The rest of the account stays.
LEMMA TieredRow ==
  ASSUME NEW acc \in AccountRow
  PROVE  /\ Tiered(acc) \in AccountRow /\ Tiered(acc).balance = acc.balance
         /\ Tiered(acc).tierPoints = acc.tierPoints /\ Tiered(acc).tier = TierFor(acc.tierPoints)
         /\ acc.balance \in Int /\ acc.tierPoints \in Int
<1>1. PICK n \in {1, 2} : n = TierFor(acc.tierPoints)
  BY DEF TierFor
<1>2. Tiered(acc) = [acc EXCEPT !.tier = n]
  BY <1>1 DEF Tiered
<1>3. [acc EXCEPT !.tier = n] \in AccountRow
  BY DEF AccountRow
<1>4. /\ [acc EXCEPT !.tier = n].balance = acc.balance
      /\ [acc EXCEPT !.tier = n].tierPoints = acc.tierPoints
      /\ [acc EXCEPT !.tier = n].tier = n
  BY DEF AccountRow
<1>5. acc.balance \in Int /\ acc.tierPoints \in Int
  BY DEF AccountRow
<1> QED BY <1>1, <1>2, <1>3, <1>4, <1>5

\* What an account whose move is under way knows once the entry is there.
LEMMA EntryCounts ==
  ASSUME NEW acc \in AccountRow, NEW S \in SUBSET Entries, IsFiniteSet(S), NEW e \in Entries, e \notin S,
         Fits(acc, S, e.points, e.tierPoints), e.points >= 0 \/ ~RefusesOverdraft(e) \/ acc.balance >= 0
  PROVE  Fits(Tiered(acc), S \cup {e}, 0, 0)
<1>1. PICK new : new = Tiered(acc)
  OBVIOUS
<1>2. /\ new.balance = acc.balance /\ new.tierPoints = acc.tierPoints /\ new.tier = TierFor(acc.tierPoints)
      /\ acc.balance \in Int /\ acc.tierPoints \in Int /\ e.points \in Int /\ e.tierPoints \in Int
  BY <1>1, TieredRow, EntryFields
<1>3. /\ PointsOf(S \cup {e}) = PointsOf(S) + e.points /\ TierPointsOf(S \cup {e}) = TierPointsOf(S) + e.tierPoints
  BY OneMoreEntry
<1>4. acc.balance - e.points = PointsOf(S) /\ acc.tierPoints - e.tierPoints = TierPointsOf(S)
  BY DEF Fits
<1>5. acc.balance = PointsOf(S \cup {e}) /\ acc.tierPoints = TierPointsOf(S \cup {e})
  BY ONLY <1>2, <1>3, <1>4
<1>6. acc.balance < 0 => \E d \in S \cup {e} : d.kind = "PURCHASE_REVERSED"
  <2> SUFFICES ASSUME acc.balance < 0 PROVE \E d \in S \cup {e} : d.kind = "PURCHASE_REVERSED"
    OBVIOUS
  <2>1. CASE e.points < 0
    <3>1. e.kind = "PURCHASE_REVERSED"
      BY <1>2, <2>1, EntryFields
    <3> QED BY <3>1
  <2>2. CASE ~(e.points < 0)
    <3>1. acc.balance - e.points < 0
      BY <1>2, <2>2
    <3> QED BY <3>1 DEF Fits
  <2> QED BY <2>1, <2>2
<1>7. new.balance - 0 = acc.balance /\ new.tierPoints - 0 = acc.tierPoints
  BY ONLY <1>2
<1> QED BY <1>1, <1>2, <1>5, <1>6, <1>7 DEF Fits

\* And once it was there already.
LEMMA EntryTakenBack ==
  ASSUME NEW acc \in AccountRow, NEW S, NEW p \in Int, NEW q \in Int, Fits(acc, S, p, q)
  PROVE  Fits(Moved(acc, -p, -q), S, 0, 0)
<1>1. PICK new : new = Moved(acc, -p, -q)
  OBVIOUS
<1>2. /\ new.balance = acc.balance + (-p) /\ new.tierPoints = acc.tierPoints + (-q) /\ new.tier = acc.tier
      /\ acc.balance \in Int /\ acc.tierPoints \in Int
  <2>1. -p \in Int /\ -q \in Int
    OBVIOUS
  <2> QED BY <1>1, <2>1, MovedRow
<1>3. new.balance - 0 = acc.balance - p /\ new.tierPoints - 0 = acc.tierPoints - q
  BY ONLY <1>2, p \in Int, q \in Int
<1> QED BY <1>1, <1>2, <1>3 DEF Fits

\* The entry is recorded, or its move taken back.
LEMMA InsertStep ==
  ASSUME LedgerInv, NEW x \in Txs, InsertEntry(x)
  PROVE  LedgerInv'
<1>1. PICK t \in TxRows : t = txs[x]
  BY TxFacts
<1>2. t.step = "write" /\ t.work # << >> /\ t.work \in Seq(Entries) /\ t.own \in OwnRows
  BY <1>1, TxFacts DEF InsertEntry
<1>3. PICK e \in Entries : e = Head(t.work)
  BY <1>2, ListParts
<1>4. PICK u \in Members : u = e.user
  BY EntryFields
<1>5. PICK done : done = WorkedTx(t, Tail(t.work))
  OBVIOUS
<1>6. /\ done \in TxRows /\ done.work = Tail(t.work) /\ done.step = "look" /\ done.own = t.own /\ done.wrote = t.wrote
      /\ done.sets = t.sets
  <2>1. Tail(t.work) \in Seq(Entries)
    BY <1>2, ListParts
  <2> QED BY <1>5, <2>1, WorkedFields
<1>7. /\ UNCHANGED <<ledger, accounts, sales>> /\ locks' = locks
      /\ txs' = [txs EXCEPT ![x] = IF Written(x, e) THEN Undone(t, e) ELSE Posted(t, e)]
  BY <1>1, <1>3 DEF InsertEntry
<1>8. /\ u \in DOMAIN t.own /\ Fits(t.own[u], Mine(ledger \cup t.wrote, u), e.points, e.tierPoints)
      /\ e.points >= 0 \/ ~RefusesOverdraft(e) \/ t.own[u].balance >= 0
      /\ \A v \in DOMAIN t.own : v # u => Fits(t.own[v], Mine(ledger \cup t.wrote, v), 0, 0)
  <2>1. OwnFits(t)
    BY <1>1, TxFacts
  <2> QED BY <1>2, <1>3, <1>4, <2>1 DEF OwnFits, Moving
<1>9. PICK acc \in AccountRow : acc = t.own[u]
  BY <1>1, <1>8, TxFacts
<1>10. e.points \in Int /\ e.tierPoints \in Int
  BY EntryFields
<1>11. ASSUME NEW tx \in TxRows, txs' = [txs EXCEPT ![x] = tx], NEW new, tx.own = Changed(t.own, u, new), new \in AccountRow,
              tx.work = Tail(t.work), tx.step = "look", tx.sets = t.sets, IsFiniteSet(tx.wrote),
              tx.wrote \in {t.wrote, t.wrote \cup {e}}, e \in tx.wrote \/ Written(x, e),
              \A d \in tx.wrote : d \notin ledger, Fits(new, Mine(ledger \cup tx.wrote, u), 0, 0)
       PROVE  LedgerInv'
  <2>1. DOMAIN tx.own = DOMAIN t.own /\ tx.own[u] = new /\ \A v \in DOMAIN t.own : v # u => tx.own[v] = t.own[v]
    <3>1. t.own \in OwnRows /\ u \in Members /\ new \in AccountRow
      BY <1>2, <1>11
    <3>2. /\ DOMAIN tx.own = DOMAIN t.own \cup {u} /\ tx.own[u] = new
          /\ \A v \in DOMAIN t.own : v # u => tx.own[v] = t.own[v]
      <4>1. /\ DOMAIN Changed(t.own, u, new) = DOMAIN t.own \cup {u} /\ Changed(t.own, u, new)[u] = new
            /\ \A v \in DOMAIN t.own : v # u => Changed(t.own, u, new)[v] = t.own[v]
        BY ONLY <3>1, ChangedOwn
      <4>2. tx.own = Changed(t.own, u, new)
        BY <1>11
      <4> QED BY ONLY <4>1, <4>2
    <3> QED BY <1>8, <3>2
  <2>2. OwnFits(tx)
    <3>1. ASSUME NEW v \in DOMAIN tx.own, v # u PROVE Fits(tx.own[v], Mine(ledger \cup tx.wrote, v), 0, 0)
      <4>1. Mine(ledger \cup tx.wrote, v) = Mine(ledger \cup t.wrote, v)
        BY <1>4, <1>11, <3>1 DEF Mine
      <4> QED BY <1>8, <2>1, <3>1, <4>1
    <3> QED BY <1>11, <2>1, <3>1 DEF OwnFits, Moving
  <2>3. SetsFit(tx)
    <3>1. txs[x].work # << >> /\ e = Head(txs[x].work) /\ tx.work = Tail(txs[x].work) /\ tx.sets = txs[x].sets
          /\ tx.wrote \in {txs[x].wrote, txs[x].wrote \cup {e}}
      BY <1>1, <1>2, <1>3, <1>11
    <3> QED BY ONLY LedgerInv, x \in Txs, tx \in TxRows, <1>11, <3>1, WorkDrops
  <2>4. /\ locks' \in [Members -> Txs \cup {Noone}]
        /\ \A v \in Members : locks'[v] = locks[v] \/ locks[v] = x \/ (locks[v] = Noone /\ locks'[v] = x)
        /\ \A v \in Members : locks'[v] \in {x, Noone, locks[v]} /\ (locks'[v] = x => tx.step # "idle")
    BY <1>7, <1>11, LedgerRows
  <2>5. tx.step \in {"move", "write"} => tx.work # << >>
    BY <1>11
  <2>6. /\ \A v \in DOMAIN tx.own : locks'[v] = x
        /\ \A d \in tx.wrote : d.user \in DOMAIN tx.own /\ d \notin ledger
        /\ \A k \in DOMAIN tx.sets : tx.sets[k].status # "NONE" /\ \A y \in Txs : k \in DOMAIN txs[y].sets => y = x
    BY <1>1, <1>4, <1>7, <1>8, <1>11, <2>1, TxFacts
  <2> QED BY ONLY LedgerInv, x \in Txs, tx \in TxRows, <1>7, <1>11, <2>2, <2>3, <2>4, <2>5, <2>6, LocalStep
<1>12. CASE Written(x, e)
  <2>1. PICK new : new = Moved(acc, -e.points, -e.tierPoints)
    OBVIOUS
  <2>2. new \in AccountRow /\ Fits(new, Mine(ledger \cup t.wrote, u), 0, 0)
    <3>1. -e.points \in Int /\ -e.tierPoints \in Int
      BY <1>10
    <3>2. new \in AccountRow
      BY <2>1, <3>1, MovedRow
    <3>3. Fits(new, Mine(ledger \cup t.wrote, u), 0, 0)
      BY <1>8, <1>9, <1>10, <2>1, EntryTakenBack
    <3> QED BY <3>2, <3>3
  <2>3. PICK own \in OwnRows : own = Changed(t.own, u, new)
    <3>1. t.own \in OwnRows /\ u \in Members /\ new \in AccountRow
      BY <1>2, <2>2
    <3> QED BY ONLY <3>1, ChangedOwn
  <2>4. PICK tx : tx = OwningTx(done, own)
    OBVIOUS
  <2>5. tx \in TxRows /\ tx.work = done.work /\ tx.step = done.step /\ tx.own = own /\ tx.wrote = done.wrote /\ tx.sets = done.sets
    BY <1>6, <2>4, OwningFields
  <2>6. txs' = [txs EXCEPT ![x] = tx]
    BY <1>4, <1>5, <1>7, <1>9, <1>12, <2>1, <2>3, <2>4 DEF Undone, WorkDone, WorkedTx, OwningTx
  <2>7. IsFiniteSet(tx.wrote) /\ \A d \in tx.wrote : d \notin ledger
    BY <1>1, <1>6, <2>5, TxFacts
  <2> QED BY <1>6, <1>11, <1>12, <2>2, <2>3, <2>5, <2>6, <2>7
<1>13. CASE ~Written(x, e)
  <2>1. PICK new : new = Tiered(acc)
    OBVIOUS
  <2>2. new \in AccountRow
    BY <2>1, TieredRow
  <2>3. PICK own \in OwnRows : own = Changed(t.own, u, new)
    <3>1. t.own \in OwnRows /\ u \in Members /\ new \in AccountRow
      BY <1>2, <2>2
    <3> QED BY ONLY <3>1, ChangedOwn
  <2>4. PICK r \in SUBSET Entries : r = t.wrote \cup {e}
    BY <1>1, TxFacts
  <2>5. PICK tx : tx = WritingTx(done, r, own)
    OBVIOUS
  <2>6. tx \in TxRows /\ tx.work = done.work /\ tx.step = done.step /\ tx.own = own /\ tx.wrote = r /\ tx.sets = done.sets
    BY <1>6, <2>5, WritingFields
  <2>7. txs' = [txs EXCEPT ![x] = tx]
    BY <1>4, <1>5, <1>7, <1>9, <1>13, <2>1, <2>3, <2>4, <2>5 DEF Posted, WorkDone, WorkedTx, WritingTx, Tiered
  <2>8. e \notin ledger /\ e \notin t.wrote
    BY <1>1, <1>13 DEF Written
  <2>9. IsFiniteSet(t.wrote) /\ IsFiniteSet(ledger) /\ t.wrote \in SUBSET Entries /\ ledger \in SUBSET Entries
        /\ \A d \in t.wrote : d \notin ledger
    BY <1>1, TxFacts DEF LedgerInv, LedgerShape
  <2>10. IsFiniteSet(r)
    BY <2>4, <2>9, FS_AddElement
  <2>11. \A d \in tx.wrote : d \notin ledger
    BY <2>4, <2>6, <2>8, <2>9
  <2>12. Fits(new, Mine(ledger \cup tx.wrote, u), 0, 0)
    <3>1. PICK S \in SUBSET Entries : S = Mine(ledger \cup t.wrote, u)
      BY <2>9 DEF Mine
    <3>2. IsFiniteSet(ledger \cup t.wrote)
      BY <2>9, FS_Union
    <3>3. IsFiniteSet(S)
      <4>1. S \subseteq ledger \cup t.wrote
        BY <3>1 DEF Mine
      <4> QED BY <3>2, <4>1, FS_Subset
    <3>4. e \notin S /\ Mine(ledger \cup tx.wrote, u) = S \cup {e}
      BY <1>4, <2>4, <2>6, <2>8, <3>1 DEF Mine
    <3>5. Fits(acc, S, e.points, e.tierPoints) /\ (e.points >= 0 \/ ~RefusesOverdraft(e) \/ acc.balance >= 0)
      BY <1>8, <1>9, <3>1
    <3> QED BY <2>1, <3>3, <3>4, <3>5, EntryCounts
  <2> QED BY <1>6, <1>11, <2>2, <2>3, <2>4, <2>6, <2>7, <2>10, <2>11, <2>12
<1> QED BY <1>12, <1>13

\* The account whose referral is rewarded is otherwise what it was.
Rewarded(acc) == [acc EXCEPT !.rewarded = TRUE]

\* No points are moved by the claim itself.
LEMMA RewardedRow ==
  ASSUME NEW acc \in AccountRow
  PROVE  /\ Rewarded(acc) \in AccountRow /\ Rewarded(acc).balance = acc.balance
         /\ Rewarded(acc).tierPoints = acc.tierPoints /\ Rewarded(acc).tier = acc.tier
BY DEF AccountRow, Rewarded

\* The reward of a referral is claimed for both sides.
LEMMA ClaimStep ==
  ASSUME LedgerInv, NEW x \in Txs, ClaimReferral(x)
  PROVE  LedgerInv'
<1>1. PICK t \in TxRows : t = txs[x]
  BY TxFacts
<1>2. t.step = "look" /\ t.work # << >> /\ t.work \in Seq(Entries) /\ t.own \in OwnRows
  BY <1>1, TxFacts DEF ClaimReferral
<1>3. PICK e \in Entries : e = Head(t.work)
  BY <1>2, ListParts
<1>4. PICK u \in Members : u = e.user
  BY EntryFields
<1>5. PICK rest \in Seq(Entries) : rest = Tail(t.work)
  BY <1>2, ListParts
<1>6. e.kind = "CLAIM_REFERRAL" /\ e.kind \notin SaleKinds /\ UNCHANGED <<ledger, accounts, sales>>
  BY <1>1, <1>3 DEF ClaimReferral, SaleKinds
<1>7. PICK done : done = WorkedTx(t, rest)
  OBVIOUS
<1>8. /\ done \in TxRows /\ done.work = rest /\ done.step = "look" /\ done.own = t.own /\ done.wrote = t.wrote
      /\ done.sets = t.sets
  BY <1>7, WorkedFields
<1>9. SetsFit(done)
  <2>1. txs[x].work # << >> /\ e = Head(txs[x].work) /\ done.work = Tail(txs[x].work) /\ done.sets = txs[x].sets
        /\ done.wrote \in {txs[x].wrote, txs[x].wrote \cup {e}}
    BY <1>1, <1>2, <1>3, <1>5, <1>8
  <2> QED BY ONLY LedgerInv, x \in Txs, <1>6, <1>8, <2>1, WorkDrops
<1>10. ASSUME NEW tx \in TxRows, txs' = [txs EXCEPT ![x] = tx], tx.step = "look", tx.wrote = t.wrote, tx.sets = t.sets,
              DOMAIN tx.own \in SUBSET Members, \A v \in DOMAIN t.own : v \in DOMAIN tx.own, SetsFit(tx), OwnFits(tx),
              \A v \in DOMAIN tx.own : locks'[v] = x, locks' \in [Members -> Txs \cup {Noone}],
              \A v \in Members : locks'[v] = locks[v] \/ locks[v] = x \/ (locks[v] = Noone /\ locks'[v] = x),
              \A v \in Members : locks'[v] \in {x, Noone, locks[v]}
       PROVE  LedgerInv'
  <2>1. \A v \in Members : locks'[v] \in {x, Noone, locks[v]} /\ (locks'[v] = x => tx.step # "idle")
    BY <1>10
  <2>2. IsFiniteSet(tx.wrote) /\ (tx.step \in {"move", "write"} => tx.work # << >>)
    BY <1>1, <1>10, TxFacts
  <2>3. /\ \A d \in tx.wrote : d.user \in DOMAIN tx.own /\ d \notin ledger
        /\ \A k \in DOMAIN tx.sets : tx.sets[k].status # "NONE" /\ \A y \in Txs : k \in DOMAIN txs[y].sets => y = x
    BY <1>1, <1>10, TxFacts
  <2> QED BY ONLY LedgerInv, x \in Txs, tx \in TxRows, <1>6, <1>10, <2>1, <2>2, <2>3, LocalStep
<1>11. CASE txs' = [txs EXCEPT ![x] = WorkDone(txs[x])] /\ UNCHANGED locks
  <2>1. txs' = [txs EXCEPT ![x] = done]
    BY <1>1, <1>5, <1>7, <1>11 DEF WorkDone, WorkedTx
  <2>2. OwnFits(done)
    BY <1>1, <1>2, <1>8, StillFits
  <2>3. DOMAIN done.own \in SUBSET Members /\ \A v \in DOMAIN done.own : locks'[v] = x
    BY <1>1, <1>8, <1>11, TxFacts
  <2>4. /\ locks' \in [Members -> Txs \cup {Noone}]
        /\ \A v \in Members : locks'[v] = locks[v] \/ locks[v] = x \/ (locks[v] = Noone /\ locks'[v] = x)
        /\ \A v \in Members : locks'[v] \in {x, Noone, locks[v]}
    BY <1>11, LedgerRows
  <2> QED BY <1>8, <1>9, <1>10, <2>1, <2>2, <2>3, <2>4
<1>12. CASE ~(txs' = [txs EXCEPT ![x] = WorkDone(txs[x])] /\ UNCHANGED locks)
  <2>1. PICK acc \in AccountRow : acc = Account(x, u) /\ Fits(acc, Mine(ledger \cup t.wrote, u), 0, 0)
    BY <1>1, <1>2, AccountFits
  <2>2. PICK new : new = Rewarded(acc)
    OBVIOUS
  <2>3. new \in AccountRow /\ Fits(new, Mine(ledger \cup t.wrote, u), 0, 0)
    BY <2>1, <2>2, RewardedRow DEF Fits
  <2>4. PICK own : own = Changed(t.own, u, new)
    OBVIOUS
  <2>5. /\ own \in OwnRows /\ DOMAIN own = DOMAIN t.own \cup {u} /\ own[u] = new
        /\ \A v \in DOMAIN t.own : v # u => own[v] = t.own[v]
    <3>1. t.own \in OwnRows /\ u \in Members /\ new \in AccountRow
      BY <1>2, <2>3
    <3> QED BY ONLY <2>4, <3>1, ChangedOwn
  <2>6. Referrer[u] # Noone /\ LockAccount(x, u)
    BY <1>1, <1>3, <1>4, <1>6, <1>12 DEF ClaimReferral
  <2>7. PICK a \in Entries : a = Entry("REFERRAL_BONUS", u, u, BonusPoints, 0)
    BY MemberEntries
  <2>8. PICK b \in Entries : b = Entry("REFERRAL_BONUS", Referrer[u], u, BonusPoints, 0)
    <3>1. Referrer[u] \in Members
      BY <2>6, LedgerRows
    <3> QED BY <3>1, MemberEntries
  <2>9. a.kind \notin SaleKinds /\ b.kind \notin SaleKinds
    BY <2>7, <2>8 DEF Entry, SaleKinds
  <2>10. PICK work \in Seq(Entries) : work = <<a, b>> \o rest /\ Listed(work) = {a, b} \cup Listed(rest)
    <3>1. <<a, b>> \in Seq(Entries) /\ Listed(<<a, b>>) = {a, b}
      BY ListOfTwo
    <3> QED BY <3>1, ListsJoin
  <2>11. PICK tx : tx = ClaimedTx(t, work, own)
    OBVIOUS
  <2>12. tx \in TxRows /\ tx.work = work /\ tx.step = t.step /\ tx.own = own /\ tx.wrote = t.wrote /\ tx.sets = t.sets
    BY <2>5, <2>11, ClaimedFields
  <2>13. txs' = [txs EXCEPT ![x] = tx]
    BY <1>1, <1>3, <1>4, <1>5, <1>6, <1>12, <2>1, <2>2, <2>4, <2>7, <2>8, <2>10, <2>11 DEF ClaimReferral, ClaimedTx, Rewarded
  <2>14. SetsFit(tx)
    <3>1. InWork(tx) = {a, b} \cup InWork(done)
      BY <1>8, <2>10, <2>12 DEF InWork
    <3>2. /\ \A k \in DOMAIN done.sets : OfSale(ledger \cup done.wrote \cup InWork(done), k) = SaleAsks(k, done.sets[k])
          /\ \A d \in done.wrote \cup InWork(done) : d.kind \in SaleKinds => d.ref \in DOMAIN done.sets
      BY <1>9 DEF SetsFit
    <3>3. \A k \in DOMAIN tx.sets : OfSale(ledger \cup tx.wrote \cup InWork(tx), k) = OfSale(ledger \cup done.wrote \cup InWork(done), k)
      BY <1>8, <2>9, <2>12, <3>1 DEF OfSale
    <3> QED BY <1>8, <2>9, <2>12, <3>1, <3>2, <3>3 DEF SetsFit
  <2>15. OwnFits(tx)
    <3>1. ASSUME NEW v \in DOMAIN tx.own, v # u PROVE Fits(tx.own[v], Mine(ledger \cup tx.wrote, v), 0, 0)
      <4>1. v \in DOMAIN t.own /\ tx.own[v] = t.own[v] /\ v \in Members
        BY <1>1, <2>5, <2>12, <3>1, TxFacts
      <4>2. Account(x, v) = t.own[v]
        BY <1>1, <4>1 DEF Account
      <4> QED BY <1>1, <1>2, <2>12, <4>1, <4>2, AccountFits
    <3> QED BY <1>2, <2>3, <2>5, <2>12, <3>1 DEF OwnFits, Moving
  <2>16. /\ locks' \in [Members -> Txs \cup {Noone}]
         /\ \A v \in Members : locks'[v] = locks[v] \/ locks[v] = x \/ (locks[v] = Noone /\ locks'[v] = x)
         /\ \A v \in Members : locks'[v] \in {x, Noone, locks[v]}
         /\ \A v \in DOMAIN tx.own : locks'[v] = x
    BY <1>1, <2>5, <2>6, <2>12, LockTaken
  <2>17. DOMAIN tx.own \in SUBSET Members /\ \A v \in DOMAIN t.own : v \in DOMAIN tx.own
    BY <1>1, <2>5, <2>12, TxFacts
  <2> QED BY <1>2, <1>10, <2>12, <2>13, <2>14, <2>15, <2>16, <2>17
<1> QED BY <1>11, <1>12

\* What a transaction commits touches no account and no booking of another.
LEMMA CommitTxStep ==
  ASSUME LedgerInv, NEW x \in Txs, CommitTx(x)
  PROVE  LedgerInv'
<1>1. PICK t \in TxRows : t = txs[x]
  BY TxFacts
<1>2. t.step = "look" /\ t.work = << >> /\ InWork(t) = {}
  BY <1>1, NoList DEF CommitTx, InWork
<1>3. /\ ledger' = ledger \cup t.wrote
      /\ accounts' = [u \in Members |-> Account(x, u)]
      /\ sales' = [k \in Sales |-> IF k \in DOMAIN t.sets THEN t.sets[k] ELSE sales[k]]
      /\ locks' = [u \in Members |-> IF locks[u] = x THEN Noone ELSE locks[u]]
      /\ txs' = [txs EXCEPT ![x] = IdleTx]
  BY <1>1 DEF CommitTx
<1>4. /\ txs' \in [Txs -> TxRows] /\ txs'[x] = IdleTx /\ \A y \in Txs : y # x => txs'[y] = txs[y]
  BY <1>3, IdleFields, LedgerRows
<1>5. /\ IdleTx.step = "idle" /\ IdleTx.wrote = {} /\ DOMAIN IdleTx.own = {} /\ DOMAIN IdleTx.sets = {} /\ InWork(IdleTx) = {}
  BY IdleFields
<1>6. Noone \notin Txs /\ locks \in [Members -> Txs \cup {Noone}] /\ sales \in [Sales -> SaleRow]
  BY LedgerRows
<1>7. /\ t.wrote \in SUBSET Entries /\ IsFiniteSet(t.wrote) /\ ledger \in SUBSET Entries /\ IsFiniteSet(ledger)
      /\ \A e \in t.wrote : e.user \in DOMAIN t.own /\ e \notin ledger
      /\ \A u \in DOMAIN t.own : locks[u] = x
  BY <1>1, TxFacts DEF LedgerInv, LedgerShape
<1>8. \A u \in Members : Account(x, u) \in AccountRow /\ Fits(Account(x, u), Mine(ledger \cup t.wrote, u), 0, 0)
  BY <1>1, <1>2, AccountFits
<1>9. DOMAIN t.sets \in SUBSET Sales /\ t.sets \in [DOMAIN t.sets -> SaleRow]
  BY <1>1, TxFacts, SetFields
<1>10. /\ \A k \in DOMAIN t.sets : OfSale(ledger \cup t.wrote, k) = SaleAsks(k, t.sets[k])
       /\ \A e \in t.wrote : e.kind \in SaleKinds => e.ref \in DOMAIN t.sets
  <2>1. SetsFit(t)
    BY <1>1, TxFacts
  <2>2. ledger \cup t.wrote \cup InWork(t) = ledger \cup t.wrote /\ t.wrote \cup InWork(t) = t.wrote
    BY <1>2
  <2> QED BY <2>1, <2>2 DEF SetsFit
<1>11. LedgerShape'
  <2>1. ledger' \in SUBSET Entries /\ IsFiniteSet(ledger')
    BY <1>3, <1>7, FS_Union
  <2>2. accounts' \in [Members -> AccountRow]
    BY <1>3, <1>8
  <2>3. locks' \in [Members -> Txs \cup {Noone}]
    BY <1>3, <1>6
  <2>4. sales' \in [Sales -> SaleRow]
    BY <1>3, <1>6, <1>9
  <2>5. ASSUME NEW y \in Txs PROVE IsFiniteSet(txs'[y].wrote) /\ (txs'[y].step \in {"move", "write"} => txs'[y].work # << >>)
    <3>1. CASE y = x
      BY <1>4, <1>5, <3>1, FS_EmptySet
    <3>2. CASE y # x
      BY <1>4, <3>2 DEF LedgerInv, LedgerShape
    <3> QED BY <3>1, <3>2
  <2>6. ASSUME NEW u \in Members, locks'[u] # Noone PROVE txs'[locks'[u]].step # "idle"
    <3>1. locks'[u] = locks[u] /\ locks[u] # x /\ locks[u] \in Txs
      BY <1>3, <1>6, <2>6
    <3> QED BY <1>4, <2>6, <3>1 DEF LedgerInv, LedgerShape
  <2> QED BY <1>4, <2>1, <2>2, <2>3, <2>4, <2>5, <2>6 DEF LedgerShape
<1>12. ASSUME NEW y \in Txs, y # x
       PROVE  /\ txs[y] \in TxRows /\ DOMAIN txs[y].own \in SUBSET Members
              /\ \A u \in DOMAIN txs[y].own : locks[u] = y /\ locks'[u] = y /\ u \notin DOMAIN t.own
              /\ \A e \in txs[y].wrote : e.user \in DOMAIN txs[y].own /\ e \notin ledger
              /\ \A k \in DOMAIN txs[y].sets : k \notin DOMAIN t.sets
  <2>1. /\ txs[y] \in TxRows /\ DOMAIN txs[y].own \in SUBSET Members /\ \A u \in DOMAIN txs[y].own : locks[u] = y
        /\ \A e \in txs[y].wrote : e.user \in DOMAIN txs[y].own /\ e \notin ledger
    BY TxFacts
  <2>2. \A k \in DOMAIN txs[y].sets : k \notin DOMAIN t.sets
    BY <1>1, <1>12, TxFacts
  <2> QED BY <1>3, <1>7, <1>12, <2>1, <2>2
<1>13. LockedOwn'
  <2> SUFFICES ASSUME NEW y \in Txs
               PROVE  /\ \A u \in DOMAIN txs'[y].own : locks'[u] = y
                      /\ \A e \in txs'[y].wrote : e.user \in DOMAIN txs'[y].own /\ e \notin ledger'
    BY DEF LockedOwn
  <2>1. CASE y = x
    BY <1>4, <1>5, <2>1
  <2>2. CASE y # x
    BY <1>3, <1>4, <1>7, <1>12, <2>2
  <2> QED BY <2>1, <2>2
<1>14. AccountsFit'
  <2>1. \A u \in Members : Fits(accounts'[u], Mine(ledger', u), 0, 0)
    BY <1>3, <1>8
  <2>2. ASSUME NEW y \in Txs PROVE OwnFits(txs[y])'
    <3>1. CASE y = x
      BY <1>4, <1>5, <3>1 DEF OwnFits
    <3>2. CASE y # x
      <4>1. PICK r : r = txs[y] /\ r = txs'[y]
        BY <1>4, <3>2
      <4>2. OwnFits(r)
        <5>1. OwnFits(txs[y])
          BY TxFacts
        <5> QED BY <4>1, <5>1
      <4>3. \A u \in DOMAIN r.own : Mine(ledger' \cup r.wrote, u) = Mine(ledger \cup r.wrote, u)
        <5> SUFFICES ASSUME NEW u \in DOMAIN r.own PROVE Mine(ledger' \cup r.wrote, u) = Mine(ledger \cup r.wrote, u)
          OBVIOUS
        <5>1. u \notin DOMAIN t.own
          BY <1>12, <3>2, <4>1
        <5> QED BY <1>3, <1>7, <5>1 DEF Mine
      <4>4. /\ \A u \in DOMAIN r.own :
               /\ Moving(r, u) => Fits(r.own[u], Mine(ledger' \cup r.wrote, u), Head(r.work).points, Head(r.work).tierPoints)
               /\ ~Moving(r, u) => Fits(r.own[u], Mine(ledger' \cup r.wrote, u), 0, 0)
            /\ r.step = "write" =>
               /\ Head(r.work).user \in DOMAIN r.own
               /\ Head(r.work).points >= 0 \/ ~RefusesOverdraft(Head(r.work)) \/ r.own[Head(r.work).user].balance >= 0
        BY <4>2, <4>3 DEF OwnFits
      <4>5. \A u : Moving(txs[y], u)' <=> Moving(r, u)
        BY <4>1 DEF Moving
      <4> QED BY <4>1, <4>4, <4>5 DEF OwnFits
    <3> QED BY <3>1, <3>2
  <2> QED BY <2>1, <2>2 DEF AccountsFit
<1>15. SalesFit'
  <2>1. ASSUME NEW k \in Sales
        PROVE  /\ OfSale(ledger', k) = SaleAsks(k, sales'[k])
               /\ sales'[k].status = "NONE" => sales'[k].redeemed = 0
    <3>1. CASE k \in DOMAIN t.sets
      <4>1. sales'[k] = t.sets[k] /\ OfSale(ledger', k) = SaleAsks(k, t.sets[k])
        BY <1>3, <1>10, <3>1
      <4>2. t.sets[k].status # "NONE"
        BY <1>1, <3>1, TxFacts
      <4> QED BY <4>1, <4>2
    <3>2. CASE k \notin DOMAIN t.sets
      <4>1. OfSale(ledger', k) = OfSale(ledger, k)
        BY <1>3, <1>10, <3>2 DEF OfSale
      <4> QED BY <1>3, <3>2, <4>1, SaleFacts
    <3> QED BY <3>1, <3>2
  <2>2. ASSUME NEW y \in Txs PROVE SetsFit(txs[y])' /\ \A k \in DOMAIN txs'[y].sets : txs'[y].sets[k].status # "NONE"
    <3>1. CASE y = x
      <4>1. /\ DOMAIN txs'[y].sets = {} /\ txs'[y].wrote = {} /\ InWork(txs[y])' = {}
        BY <1>4, <1>5, <3>1 DEF InWork
      <4> QED BY <4>1 DEF SetsFit
    <3>2. CASE y # x
      <4>1. PICK r : r = txs[y] /\ r = txs'[y]
        BY <1>4, <3>2
      <4>2. SetsFit(r) /\ \A k \in DOMAIN r.sets : r.sets[k].status # "NONE"
        <5>1. SetsFit(txs[y]) /\ \A k \in DOMAIN txs[y].sets : txs[y].sets[k].status # "NONE"
          BY TxFacts
        <5> QED BY <4>1, <5>1
      <4>3. /\ \A k \in DOMAIN r.sets : OfSale(ledger \cup r.wrote \cup InWork(r), k) = SaleAsks(k, r.sets[k])
            /\ \A e \in r.wrote \cup InWork(r) : e.kind \in SaleKinds => e.ref \in DOMAIN r.sets
        BY <4>2 DEF SetsFit
      <4>4. ASSUME NEW k \in DOMAIN r.sets
            PROVE  OfSale(ledger' \cup r.wrote \cup InWork(r), k) = OfSale(ledger \cup r.wrote \cup InWork(r), k)
        <5>1. k \notin DOMAIN t.sets
          BY <1>12, <3>2, <4>1
        <5> QED BY <1>3, <1>10, <5>1 DEF OfSale
      <4>5. InWork(txs[y])' = InWork(r)
        BY <4>1 DEF InWork
      <4>6. SetsFit(txs[y])'
        BY <4>1, <4>3, <4>4, <4>5 DEF SetsFit
      <4> QED BY <4>1, <4>2, <4>6
    <3> QED BY <3>1, <3>2
  <2>3. ASSUME NEW y \in Txs, NEW z \in Txs, NEW k \in DOMAIN txs'[y].sets, k \in DOMAIN txs'[z].sets
        PROVE  y = z
    <3>1. y # x /\ z # x
      BY <1>4, <1>5, <2>3
    <3> QED BY <1>4, <2>3, <3>1 DEF LedgerInv, SalesFit
  <2>4. (\A y, z \in Txs : \A k \in DOMAIN txs[y].sets : k \in DOMAIN txs[z].sets => y = z)'
    BY <2>3
  <2> QED BY <2>1, <2>2, <2>4 DEF SalesFit
<1> QED BY <1>11, <1>13, <1>14, <1>15 DEF LedgerInv

\* Nothing is posted at first.
LEMMA LedgerStart == LoyaltyInit => LedgerInv
<1> SUFFICES ASSUME LoyaltyInit PROVE LedgerInv
  OBVIOUS
<1>1. /\ ledger = {} /\ accounts = [u \in Members |-> NewAccount] /\ locks = [u \in Members |-> Noone]
      /\ sales = [k \in Sales |-> [status |-> "NONE", redeemed |-> 0]] /\ txs = [x \in Txs |-> IdleTx]
  BY DEF LoyaltyInit
<1>2. /\ IdleTx \in TxRows /\ IdleTx.step = "idle" /\ IdleTx.wrote = {} /\ DOMAIN IdleTx.own = {} /\ DOMAIN IdleTx.sets = {}
      /\ InWork(IdleTx) = {}
  BY IdleFields
<1>3. /\ NewAccount \in AccountRow /\ NewAccount.balance = 0 /\ NewAccount.tierPoints = 0 /\ NewAccount.tier = 1
  BY DEF NewAccount, AccountRow
<1>4. \A k \in Sales : sales[k] \in SaleRow /\ sales[k].status = "NONE" /\ sales[k].redeemed = 0
  BY <1>1 DEF SaleRow, SaleStates
<1>5. \A x \in Txs : txs[x] = IdleTx
  BY <1>1
<1>6. IsFiniteSet({})
  BY FS_EmptySet
<1>7. LedgerShape
  <2>1. sales \in [Sales -> SaleRow]
    BY <1>1, <1>4
  <2>2. accounts \in [Members -> AccountRow] /\ locks \in [Members -> Txs \cup {Noone}] /\ txs \in [Txs -> TxRows]
    BY <1>1, <1>2, <1>3
  <2> QED BY <1>1, <1>2, <1>5, <1>6, <2>1, <2>2 DEF LedgerShape
<1>8. LockedOwn
  BY <1>2, <1>5 DEF LockedOwn
<1>9. AccountsFit
  <2>1. ASSUME NEW u \in Members PROVE Fits(accounts[u], Mine(ledger, u), 0, 0)
    <3>1. Mine(ledger, u) = {} /\ accounts[u] = NewAccount
      BY <1>1 DEF Mine
    <3>2. TierFor(0) = 1
      BY LoyaltyAssumption DEF TierFor
    <3>3. PointsOf({}) = 0 /\ TierPointsOf({}) = 0
      BY NoTotal
    <3> QED BY <1>3, <3>1, <3>2, <3>3 DEF Fits
  <2>2. OwnFits(IdleTx)
    BY <1>2 DEF OwnFits
  <2> QED BY <1>5, <2>1, <2>2 DEF AccountsFit
<1>10. SalesFit
  <2>1. ASSUME NEW k \in Sales PROVE OfSale(ledger, k) = SaleAsks(k, sales[k])
    BY <1>1, <1>4 DEF OfSale, SaleAsks
  <2>2. SetsFit(IdleTx)
    BY <1>2 DEF SetsFit
  <2> QED BY <1>2, <1>4, <1>5, <2>1, <2>2 DEF SalesFit
<1> QED BY <1>7, <1>8, <1>9, <1>10 DEF LedgerInv

\* Every step keeps the ledger and the accounts together.
LEMMA LedgerStep == LedgerInv /\ [LoyaltyNext]_loyaltyVars => LedgerInv'
<1> SUFFICES ASSUME LedgerInv, [LoyaltyNext]_loyaltyVars PROVE LedgerInv'
  OBVIOUS
<1>1. CASE UNCHANGED loyaltyVars
  BY <1>1 DEF loyaltyVars, LedgerInv, LedgerShape, LockedOwn, AccountsFit, OwnFits, Moving, SalesFit, SetsFit, InWork
<1>2. ASSUME NEW x \in Txs, NEW k \in Sales,
             ReserveWithPoints(x, k) \/ ReserveWithoutPoints(x, k) \/ SettleSale(x, k) \/ RefundSale(x, k)
      PROVE  LedgerInv'
  BY <1>2, ReserveStep, SettleStep, RefundStep
<1>3. ASSUME NEW x \in Txs, ExpireLapsedHolds(x) PROVE LedgerInv'
  BY <1>3, ExpireStep
<1>4. ASSUME NEW x \in Txs, NEW u \in Members, Welcome(x, u) \/ AdjustPoints(x, u) PROVE LedgerInv'
  BY <1>4, MemberStep
<1>5. ASSUME NEW x \in Txs, PostStep(x) PROVE LedgerInv'
  <2>1. CASE LookForEntry(x)
    BY <2>1, LookStep
  <2>2. CASE MoveAccount(x)
    BY <2>2, MoveStep
  <2>3. CASE InsertEntry(x)
    BY <2>3, InsertStep
  <2>4. CASE ClaimReferral(x)
    BY <2>4, ClaimStep
  <2>5. CASE CommitTx(x)
    BY <2>5, CommitTxStep
  <2>6. CASE DeadlockVictim(x)
    BY <2>6, RollBackStep DEF DeadlockVictim
  <2> QED BY <1>5, <2>1, <2>2, <2>3, <2>4, <2>5, <2>6 DEF PostStep
<1> QED BY <1>1, <1>2, <1>3, <1>4, <1>5 DEF LoyaltyNext

\* What a booking's entries add up to.
LEMMA SaleCosts ==
  ASSUME NEW k \in Sales, NEW row \in SaleRow, row.status = "NONE" => row.redeemed = 0
  PROVE  PointsOf(SaleAsks(k, row)) = IF row.status \in {"HELD", "CONFIRMED"} THEN -row.redeemed ELSE 0
<1>1. row.redeemed \in {0, RedeemedPoints} /\ row.status \in SaleStates /\ RedeemedPoints \in Nat \ {0}
  BY LoyaltyAssumption DEF SaleRow
<1>2. PICK s \in Entries : s = Spend(k)
  BY LoyaltyAssumption, SaleEntries
<1>3. PICK r \in Entries : r = Return(k)
  BY LoyaltyAssumption, SaleEntries
<1>4. s.points = -RedeemedPoints /\ r.points = RedeemedPoints /\ s # r
  BY <1>1, <1>2, <1>3 DEF Spend, Return, Entry
<1>5. PointsOf({}) = 0
  BY NoTotal
<1>6. {} \in SUBSET Entries /\ IsFiniteSet({}) /\ s \notin {} /\ {} \cup {s} = {s}
  BY FS_EmptySet
<1>7. PointsOf({s}) = PointsOf({}) + s.points
  BY <1>6, OneMoreEntry
<1>8. {s} \in SUBSET Entries /\ IsFiniteSet({s}) /\ r \notin {s} /\ {s} \cup {r} = {s, r}
  BY <1>4, FS_Singleton
<1>9. PointsOf({s, r}) = PointsOf({s}) + r.points
  BY <1>8, OneMoreEntry
<1>10. PointsOf({s}) = -RedeemedPoints /\ PointsOf({s, r}) = 0
  BY ONLY <1>1, <1>4, <1>5, <1>7, <1>9
<1>11. CASE row.redeemed = 0
  BY <1>5, <1>11 DEF SaleAsks
<1>12. CASE row.redeemed # 0
  BY <1>1, <1>2, <1>3, <1>10, <1>12 DEF SaleAsks, SaleStates
<1> QED BY <1>11, <1>12

\* The invariant is stronger than the property.
LEMMA LedgerEnough == LedgerInv => LedgerAddsUp
<1> SUFFICES ASSUME LedgerInv PROVE LedgerAddsUp
  OBVIOUS
<1>1. LoyaltyTypeOK
  <2>1. accounts \in [Members -> [balance : Int, tierPoints : Int, tier : {1, 2}, rewarded : BOOLEAN]]
    BY LedgerRows DEF AccountRow
  <2>2. \A u \in Members : locks[u] # Noone => txs[locks[u]].step # "idle"
    BY DEF LedgerInv, LedgerShape
  <2>3. sales \in [Sales -> [status : {"NONE", "HELD", "EXPIRED", "CONFIRMED", "REFUNDED"}, redeemed : Nat]]
    <3>1. ASSUME NEW k \in Sales PROVE sales[k] \in [status : {"NONE", "HELD", "EXPIRED", "CONFIRMED", "REFUNDED"}, redeemed : Nat]
      <4>1. sales[k] \in SaleRow /\ RedeemedPoints \in Nat
        BY LedgerRows
      <4> QED BY <4>1 DEF SaleRow, SaleStates
    <3> QED BY <3>1, LedgerRows
  <2>4. \A x \in Txs : txs[x].step \in {"idle", "look", "move", "write"}
    BY LedgerRows, TxFields
  <2> QED BY <2>1, <2>2, <2>3, <2>4 DEF LoyaltyTypeOK
<1>2. ASSUME NEW u \in Members
      PROVE  /\ accounts[u].balance = PointsOf({e \in ledger : e.user = u})
             /\ accounts[u].tierPoints = TierPointsOf({e \in ledger : e.user = u})
             /\ accounts[u].tier = TierFor(accounts[u].tierPoints)
             /\ accounts[u].balance < 0 => \E e \in {e \in ledger : e.user = u} : e.kind = "PURCHASE_REVERSED"
  <2>1. Fits(accounts[u], Mine(ledger, u), 0, 0)
    BY DEF LedgerInv, AccountsFit
  <2>2. accounts[u].balance - 0 = accounts[u].balance /\ accounts[u].tierPoints - 0 = accounts[u].tierPoints
    <3>1. accounts[u].balance \in Int /\ accounts[u].tierPoints \in Int
      BY LedgerRows DEF AccountRow
    <3> QED BY <3>1
  <2> QED BY <2>1, <2>2 DEF Fits, Mine
<1>3. ASSUME NEW k \in Sales
      PROVE  PointsOf({e \in ledger : e.ref = k /\ e.kind \in {"REDEEMED", "REDEMPTION_RELEASED"}})
               = IF sales[k].status \in {"HELD", "CONFIRMED"} THEN -sales[k].redeemed ELSE 0
  <2>1. OfSale(ledger, k) = SaleAsks(k, sales[k]) /\ sales[k] \in SaleRow /\ (sales[k].status = "NONE" => sales[k].redeemed = 0)
    BY SaleFacts
  <2>2. PointsOf(SaleAsks(k, sales[k])) = IF sales[k].status \in {"HELD", "CONFIRMED"} THEN -sales[k].redeemed ELSE 0
    BY <2>1, SaleCosts
  <2> QED BY <2>1, <2>2 DEF OfSale, SaleKinds
<1> QED BY <1>1, <1>2, <1>3 DEF LedgerAddsUp

\* For any members, referrals, bookings and number of open transactions, and
\* any points earned, spent and given: an account is the sum of its entries,
\* whatever was posted twice, undone, rolled back or ended by the database,
\* only a refund takes a balance below zero, and a booking that did not happen
\* has cost no points (postLoyaltyEntry, expireLapsedHolds,
\* reverseLoyaltyForRefund).
THEOREM LedgerAlwaysAddsUp == LoyaltySpec => []LedgerAddsUp
<1>1. LoyaltySpec => []LedgerInv
  BY LedgerStart, LedgerStep, PTL DEF LoyaltySpec
<1> QED BY <1>1, LedgerEnough, PTL

-----------------------------------------------------------------------------
(* An allowance.                                                           *)

\* Attempts let through since the window began, and shortly before it.
SinceStart == {a \in admitted : a[1] >= bucket.started}
ShortlyBefore == {a \in admitted : bucket.started < a[1] + Window /\ a[1] < bucket.started}

\* The bucket and the attempts let through.
MeterShape ==
  /\ bucket \in [count : Nat, started : Nat, until : Nat]
  /\ meterClock \in Nat \ {0} /\ bucket.started <= meterClock
  /\ admitted \subseteq Nat \X Nat /\ IsFiniteSet(admitted)
  /\ \A a \in admitted : a[1] <= meterClock

\* A window counts what it lets through, up to the limit; a window, or the
\* block that ended it, outlasts all it let through.
WindowOK ==
  /\ bucket.count = 0 => admitted = {} /\ bucket.until = 0
  /\ bucket.until = 0 => /\ Cardinality(SinceStart) <= bucket.count /\ bucket.count <= Limit
                         /\ \A a \in admitted : a[1] < bucket.started + Window
  /\ bucket.until # 0 => /\ bucket.until >= bucket.started + Block
                         /\ \A a \in admitted : a[1] < bucket.until
  /\ Cardinality(SinceStart) <= Limit

\* What holds of the bucket and of the attempts let through, whatever the clock does.
MeterInv ==
  /\ MeterShape /\ WindowOK
  /\ Cardinality(ShortlyBefore) <= Limit
  /\ \A t \in Nat : Cardinality(Within(t, t + Window)) <= 2 * Limit

\* An allowance nobody spent.
LEMMA MeterStart == MeterInit => MeterInv
<1> SUFFICES ASSUME MeterInit PROVE MeterInv
  OBVIOUS
<1>1. /\ bucket = [count |-> 0, started |-> 0, until |-> 0] /\ admitted = {} /\ meterClock = 1
  BY DEF MeterInit
<1>2. SinceStart = {} /\ ShortlyBefore = {} /\ \A t \in Nat : Within(t, t + Window) = {}
  BY <1>1 DEF SinceStart, ShortlyBefore, Within
<1>3. Cardinality({}) = 0 /\ IsFiniteSet({})
  BY FS_EmptySet
<1>4. Limit \in Nat /\ Window \in Nat /\ Block \in Nat
  BY MeterAssumption
<1>5. MeterShape
  BY <1>1, <1>3 DEF MeterShape
<1>6. WindowOK
  BY <1>1, <1>2, <1>3, <1>4 DEF WindowOK
<1>7. Cardinality(ShortlyBefore) <= Limit /\ \A t \in Nat : Cardinality(Within(t, t + Window)) <= 2 * Limit
  <2>1. 0 <= Limit /\ 0 <= 2 * Limit
    BY <1>4
  <2> QED BY <1>2, <1>3, <2>1
<1> QED BY <1>5, <1>6, <1>7 DEF MeterInv

\* Parts of the attempts can be counted, and no part has more than the whole.
LEMMA Countable ==
  ASSUME MeterShape, NEW S \in SUBSET admitted
  PROVE  IsFiniteSet(S) /\ Cardinality(S) \in Nat
BY FS_Subset, FS_CardinalityType DEF MeterShape

\* Time passes.
LEMMA TickStep ==
  ASSUME MeterInv, MeterTick \/ UNCHANGED meterVars
  PROVE  MeterInv'
<1>1. bucket' = bucket /\ admitted' = admitted /\ meterClock' \in Nat \ {0} /\ meterClock' >= meterClock
  BY DEF MeterTick, meterVars, MeterInv, MeterShape
<1>2. MeterShape'
  <2>1. \A a \in admitted : a[1] \in Nat
    BY DEF MeterInv, MeterShape
  <2> QED BY <1>1, <2>1 DEF MeterInv, MeterShape
<1>3. SinceStart' = SinceStart /\ ShortlyBefore' = ShortlyBefore /\ \A t : Within(t, t + Window)' = Within(t, t + Window)
  BY <1>1 DEF SinceStart, ShortlyBefore, Within
<1>4. WindowOK'
  BY <1>1, <1>3 DEF MeterInv, WindowOK
<1> QED BY <1>2, <1>3, <1>4 DEF MeterInv

\* No window holds more than twice the limit once an attempt is let through:
\* what lies in one with it is of this round, or shortly before it.
LEMMA TwoRounds ==
  ASSUME MeterShape', Cardinality(SinceStart') <= Limit, Cardinality(ShortlyBefore') <= Limit,
         MeterShape, meterClock' = meterClock, NEW x, x[1] = meterClock, admitted' = admitted \cup {x},
         \A t \in Nat : Cardinality(Within(t, t + Window)) <= 2 * Limit
  PROVE  \A t \in Nat : Cardinality(Within(t, t + Window)') <= 2 * Limit
<1> SUFFICES ASSUME NEW t \in Nat PROVE Cardinality(Within(t, t + Window)') <= 2 * Limit
  OBVIOUS
<1>0. Limit \in Nat /\ Window \in Nat /\ meterClock \in Nat /\ bucket'.started \in Nat /\ bucket'.started <= meterClock
  BY MeterAssumption DEF MeterShape
<1>1. CASE ~(t <= meterClock /\ meterClock < t + Window)
  <2>1. Within(t, t + Window)' = Within(t, t + Window)
    BY <1>1 DEF Within
  <2> QED BY <2>1
<1>2. CASE t <= meterClock /\ meterClock < t + Window
  <2> DEFINE A == SinceStart'
             B == ShortlyBefore'
             C == Within(t, t + Window)'
  <2>1. C \subseteq A \cup B
    <3> SUFFICES ASSUME NEW a \in C PROVE a \in A \cup B
      OBVIOUS
    <3>1. a \in admitted' /\ t <= a[1] /\ a[1] \in Nat
      BY DEF Within, MeterShape
    <3>2. bucket'.started < a[1] + Window
      BY <1>0, <1>2, <3>1
    <3> QED BY <1>0, <3>1, <3>2 DEF SinceStart, ShortlyBefore
  <2>2. A \subseteq admitted' /\ B \subseteq admitted' /\ C \subseteq admitted' /\ IsFiniteSet(admitted')
    BY DEF SinceStart, ShortlyBefore, Within, MeterShape
  <2>3. IsFiniteSet(A) /\ IsFiniteSet(B) /\ IsFiniteSet(C) /\ IsFiniteSet(A \cup B) /\ IsFiniteSet(A \cap B)
    BY <2>2, FS_Subset, FS_Union, FS_Intersection
  <2>4. /\ Cardinality(A \cup B) = Cardinality(A) + Cardinality(B) - Cardinality(A \cap B)
        /\ Cardinality(C) <= Cardinality(A \cup B)
    BY <2>1, <2>3, FS_Union, FS_Subset
  <2>5. /\ Cardinality(A) \in Nat /\ Cardinality(B) \in Nat /\ Cardinality(A \cap B) \in Nat
        /\ Cardinality(C) \in Nat /\ Cardinality(A \cup B) \in Nat
    BY <2>3, FS_CardinalityType
  <2> HIDE DEF A, B, C
  <2>6. Cardinality(A) <= Limit /\ Cardinality(B) <= Limit
    BY DEF A, B
  <2>7. Cardinality(C) <= 2 * Limit
    BY ONLY <1>0, <2>4, <2>5, <2>6
  <2> QED BY <2>7 DEF C
<1> QED BY <1>1, <1>2

\* An attempt, counted, refused or the first of a new window.
LEMMA AttemptStep ==
  ASSUME MeterInv, ConsumeRateLimit
  PROVE  MeterInv'
<1> DEFINE now == meterClock
           x == <<now, Cardinality(admitted)>>
<1>0. /\ bucket \in [count : Nat, started : Nat, until : Nat]
      /\ bucket.count \in Nat /\ bucket.started \in Nat /\ bucket.until \in Nat
      /\ now \in Nat /\ now > 0 /\ bucket.started <= now
      /\ admitted \subseteq Nat \X Nat /\ IsFiniteSet(admitted)
      /\ \A a \in admitted : a[1] \in Nat /\ a[1] <= now
      /\ Limit \in Nat /\ Limit > 0 /\ Window \in Nat /\ Window > 0 /\ Block \in Nat /\ Block > 0
      /\ Window <= Block + 1
  BY MeterAssumption DEF MeterInv, MeterShape
<1>1. /\ bucket' = Counted(bucket, now) /\ meterClock' = now
      /\ bucket'.until <= now => admitted' = admitted \cup {x}
      /\ bucket'.until > now => admitted' = admitted
  <2>1. Counted(bucket, now).until \in Nat
    BY <1>0 DEF Counted
  <2> QED BY <1>0, <2>1 DEF ConsumeRateLimit, Proceeds
<1>2. x \in Nat \X Nat /\ x[1] = now
  BY <1>0, FS_CardinalityType
<1> HIDE DEF x
<1>3. IsFiniteSet(admitted \cup {x})
  BY <1>0, FS_AddElement
<1>4. CASE bucket.until > now
  <2>1. bucket' = bucket /\ admitted' = admitted
    BY <1>0, <1>1, <1>4 DEF Counted
  <2> QED BY <1>1, <2>1, TickStep DEF meterVars
<1>5. CASE /\ ~(bucket.until > now)
           /\ bucket.count = 0 \/ bucket.until # 0 \/ bucket.started + Window <= now
  <2>1. bucket' = [count |-> 1, started |-> now, until |-> 0]
    BY <1>1, <1>5 DEF Counted
  <2>2. bucket'.count = 1 /\ bucket'.started = now /\ bucket'.until = 0
    BY <2>1
  <2>3. admitted' = admitted \cup {x}
    BY <1>0, <1>1, <2>2
  \* All that was let through before is over.
  <2>4. ASSUME NEW a \in admitted PROVE a[1] < now
    BY <1>0, <1>5 DEF MeterInv, WindowOK
  <2>5. SinceStart' = {x}
    BY <1>0, <1>2, <2>2, <2>3, <2>4 DEF SinceStart
  <2>6. Cardinality({x}) = 1
    BY FS_Singleton
  \* What was let through before this round began is a window ago.
  <2>7. ShortlyBefore' \subseteq SinceStart
    <3> SUFFICES ASSUME NEW a \in ShortlyBefore' PROVE a \in SinceStart
      OBVIOUS
    <3>1. a \in admitted /\ now < a[1] + Window /\ a[1] < now /\ a[1] \in Nat
      BY <1>0, <1>2, <2>2, <2>3 DEF ShortlyBefore
    <3>2. now >= bucket.started + Window \/ now >= bucket.started + Block
      BY <1>0, <1>5, <3>1 DEF MeterInv, WindowOK
    <3>3. a[1] >= bucket.started
      BY ONLY <1>0, <3>1, <3>2
    <3> QED BY <3>1, <3>3 DEF SinceStart
  <2>8. Cardinality(ShortlyBefore') <= Limit
    <3>1. IsFiniteSet(SinceStart)
      BY <1>0, FS_Subset DEF SinceStart
    <3>2. IsFiniteSet(ShortlyBefore') /\ Cardinality(ShortlyBefore') <= Cardinality(SinceStart)
      BY <2>7, <3>1, FS_Subset
    <3>3. Cardinality(ShortlyBefore') \in Nat /\ Cardinality(SinceStart) \in Nat
      BY <3>1, <3>2, FS_CardinalityType
    <3>4. Cardinality(SinceStart) <= Limit
      BY DEF MeterInv, WindowOK
    <3> QED BY ONLY <1>0, <3>2, <3>3, <3>4
  <2>9. MeterShape'
    <3>1. bucket' \in [count : Nat, started : Nat, until : Nat]
      BY <1>0, <2>1
    <3>2. \A a \in admitted' : a[1] <= now
      BY <1>0, <1>2, <2>3
    <3> QED BY <1>0, <1>1, <1>2, <1>3, <2>2, <2>3, <3>1, <3>2 DEF MeterShape
  <2>10. WindowOK'
    <3>1. \A a \in admitted' : a[1] < now + Window
      BY <1>0, <1>2, <2>3
    <3> QED BY <1>0, <2>2, <2>5, <2>6, <3>1 DEF WindowOK
  <2>11. \A t \in Nat : Cardinality(Within(t, t + Window)') <= 2 * Limit
    <3>1. Cardinality(SinceStart') <= Limit
      BY <1>0, <2>5, <2>6
    <3>2. MeterShape /\ \A t \in Nat : Cardinality(Within(t, t + Window)) <= 2 * Limit
      BY DEF MeterInv
    <3> QED BY <1>1, <1>2, <2>3, <2>8, <2>9, <3>1, <3>2, TwoRounds
  <2> QED BY <2>8, <2>9, <2>10, <2>11 DEF MeterInv
<1>6. CASE /\ ~(bucket.until > now)
           /\ ~(bucket.count = 0 \/ bucket.until # 0 \/ bucket.started + Window <= now)
  <2> DEFINE until == IF bucket.count + 1 > Limit THEN now + Block ELSE 0
  <2>0. until \in Nat
    BY <1>0
  <2>1. bucket' = [bucket EXCEPT !.count = @ + 1, !.until = until]
    BY <1>1, <1>6 DEF Counted
  <2>2. bucket'.count = bucket.count + 1 /\ bucket'.started = bucket.started /\ bucket'.until = until
    BY <1>0, <2>1
  <2>3. bucket.until = 0 /\ now < bucket.started + Window
    BY <1>0, <1>6
  <2>4. /\ Cardinality(SinceStart) <= bucket.count /\ Cardinality(SinceStart) <= Limit
        /\ Cardinality(ShortlyBefore) <= Limit
    BY <2>3 DEF MeterInv, WindowOK
  <2>5. bucket' \in [count : Nat, started : Nat, until : Nat]
    <3>1. PICK n \in Nat : n = bucket.count + 1
      BY <1>0
    <3> HIDE DEF until
    <3>2. bucket' = [bucket EXCEPT !.count = n, !.until = until]
      BY <2>1, <3>1
    <3> QED BY ONLY <1>0, <2>0, <3>1, <3>2
  <2>6. MeterShape /\ \A t \in Nat : Cardinality(Within(t, t + Window)) <= 2 * Limit
    BY DEF MeterInv
  <2>7. CASE bucket.count + 1 > Limit
    <3>1. until = now + Block /\ until > now /\ until # 0
      BY <1>0, <2>7
    <3>2. admitted' = admitted
      BY <1>1, <2>2, <3>1
    <3>3. /\ SinceStart' = SinceStart /\ ShortlyBefore' = ShortlyBefore
          /\ \A t : Within(t, t + Window)' = Within(t, t + Window)
      BY <2>2, <3>2 DEF SinceStart, ShortlyBefore, Within
    <3>4. MeterShape'
      BY <1>0, <1>1, <2>2, <2>5, <3>2 DEF MeterShape
    <3>5. WindowOK'
      <4>1. \A a \in admitted : a[1] < until
        BY <1>0, <3>1
      <4>2. until >= bucket.started + Block
        BY <1>0, <3>1
      <4>3. bucket.count + 1 # 0
        BY <1>0
      <4> HIDE DEF until
      <4> QED BY <2>2, <2>4, <3>1, <3>2, <3>3, <4>1, <4>2, <4>3 DEF WindowOK
    <3> QED BY <2>4, <2>6, <3>3, <3>4, <3>5 DEF MeterInv
  <2>8. CASE ~(bucket.count + 1 > Limit)
    <3>1. until = 0 /\ bucket'.until = 0 /\ admitted' = admitted \cup {x}
      BY <1>0, <1>1, <2>2, <2>8
    <3>2. SinceStart' = SinceStart \cup {x}
      BY <1>0, <1>2, <2>2, <3>1 DEF SinceStart
    <3>3. IsFiniteSet(SinceStart)
      BY <1>0, FS_Subset DEF SinceStart
    <3>4. Cardinality(SinceStart') = Cardinality(SinceStart) \/ Cardinality(SinceStart') = Cardinality(SinceStart) + 1
      BY <3>2, <3>3, FS_AddElement
    <3>5. Cardinality(SinceStart) \in Nat
      BY <3>3, FS_CardinalityType
    <3>6. Cardinality(SinceStart') <= bucket.count + 1 /\ bucket.count + 1 <= Limit
      BY ONLY <1>0, <2>4, <2>8, <3>4, <3>5
    <3>7. Cardinality(SinceStart') <= Limit
      BY ONLY <1>0, <2>4, <2>8, <3>4, <3>5
    <3>8. ShortlyBefore' = ShortlyBefore
      BY <1>0, <1>2, <2>2, <3>1 DEF ShortlyBefore
    <3>9. MeterShape'
      <4>1. \A a \in admitted' : a[1] <= now
        BY <1>0, <1>2, <3>1
      <4> QED BY <1>0, <1>1, <1>2, <1>3, <2>2, <2>5, <3>1, <4>1 DEF MeterShape
    <3>10. WindowOK'
      <4>1. \A a \in admitted' : a[1] < bucket.started + Window
        BY <1>0, <1>2, <2>3, <3>1
      <4>2. bucket.count + 1 # 0
        BY <1>0
      <4> QED BY <2>2, <3>1, <3>6, <3>7, <4>1, <4>2 DEF WindowOK
    <3>11. \A t \in Nat : Cardinality(Within(t, t + Window)') <= 2 * Limit
      BY <1>1, <1>2, <2>4, <2>6, <3>1, <3>7, <3>8, <3>9, TwoRounds
    <3> QED BY <2>4, <3>8, <3>9, <3>10, <3>11 DEF MeterInv
  <2> QED BY <2>7, <2>8
<1> QED BY <1>4, <1>5, <1>6

\* The invariant says what the allowance promises.
LEMMA MeterHolds == MeterInv => WithinTheLimit
<1> SUFFICES ASSUME MeterInv PROVE WithinTheLimit
  OBVIOUS
<1>1. \A t \in 0..MaxMeterClock : Cardinality(Within(t, t + Window)) <= 2 * Limit
  BY DEF MeterInv
<1>2. Within(bucket.started, meterClock + 1) = SinceStart
  BY DEF MeterInv, MeterShape, Within, SinceStart
<1>3. Cardinality(SinceStart) <= Limit
  BY DEF MeterInv, WindowOK
<1> QED BY <1>1, <1>2, <1>3 DEF WithinTheLimit

\* No window of the clock lets more through than twice the limit, and a blocked
\* caller has had no more than the limit since it began (consumeRateLimit).
LEMMA MeterKeeps == MeterSpec => []WithinTheLimit
<1>1. MeterInit => MeterInv
  BY MeterStart
<1>2. MeterInv /\ [MeterNext]_meterVars => MeterInv'
  BY TickStep, AttemptStep DEF MeterNext
<1>3. MeterInv => WithinTheLimit
  BY MeterHolds
<1> QED BY <1>1, <1>2, <1>3, PTL DEF MeterSpec

-----------------------------------------------------------------------------
(* The control of an observatory.                                          *)

\* The states of a mission, and a mission or none.
NightStates == {"NONE", "SCHEDULED", "LIVE", "WEATHER_HOLD", "CANCELLED", "FAILED", "COMPLETE"}
SomeNight == Nights \cup {Nothing}

\* A request under way.
DeskOps == {"none", "submit", "approve", "suspend", "revoke", "cancel", "start", "hold",
            "REAL", "SIMULATED"} \cup Limits
DeskRows == [op : DeskOps, m : SomeNight, s : {0, 1}]
Notices == [kind : {"WEATHER", "OPERATING", "CREDENTIAL", "SESSION", "PARK", "GOTO", "ENVELOPE"},
            m : SomeNight, s : {0, 1}]
ScopeRows == [linked : BOOLEAN, hold : BOOLEAN, posture : {"ATTENDED", "UNATTENDED", "DISARMED"},
              owner : SomeNight \X {0, 1}, on : SomeNight]

\* Rows, requests, notices and the agent have their shapes.
ControlShape ==
  /\ ControlTypeOK
  /\ desks \in [Desks -> DeskRows]
  /\ \A d \in Desks : desks[d].op = "start" \/ desks[d].s # 0 => desks[d].m \in Nights
  /\ notices \in Seq(Notices)
  /\ \A i \in DOMAIN notices : notices[i].kind = "SESSION" => notices[i].m \in Nights
  /\ scope \in ScopeRows

\* The agent is behind the rows only while a notice is on its way, and only
\* one that is connected and knows of no hold observes.
AgentCatchesUp ==
  /\ hold /\ scope.linked /\ ~scope.hold => Coming("WEATHER")
  /\ ~token /\ scope.linked => Coming("CREDENTIAL")
  /\ scope.on # Nothing => scope.linked /\ ~scope.hold

\* The inductive invariant.
ControlInv == ControlShape /\ AgentCatchesUp

\* What the rows are made of.
LEMMA ControlRows ==
  ASSUME ControlShape
  PROVE  /\ night \in [Nights -> NightStates] /\ owner \in [Nights -> {0, 1}]
         /\ hold \in BOOLEAN /\ token \in BOOLEAN /\ orders \in 0..MaxOrders
         /\ desks \in [Desks -> DeskRows] /\ notices \in Seq(Notices) /\ Len(notices) <= MaxNotices
         /\ MaxOrders \in Nat /\ MaxNotices \in Nat
BY ObservatoryControlAssumption DEF ControlShape, ControlTypeOK, NightStates

\* What a transaction sends comes after what was on its way.
LEMMA Sent ==
  ASSUME ControlShape, NEW ns \in Seq(Notices), Notify(ns),
         \A i \in DOMAIN ns : ns[i].kind = "SESSION" => ns[i].m \in Nights
  PROVE  /\ notices' \in Seq(Notices) /\ Len(notices') <= MaxNotices
         /\ \A i \in DOMAIN notices' : notices'[i].kind = "SESSION" => notices'[i].m \in Nights
         /\ \A k : Coming(k) => Coming(k)'
         /\ \A i \in DOMAIN ns : Coming(ns[i].kind)'
<1>1. notices \in Seq(Notices) /\ notices' = notices \o ns /\ Len(notices') <= MaxNotices
  BY DEF Notify, ControlShape
<1>2. /\ DOMAIN notices = 1..Len(notices) /\ Len(notices) \in Nat /\ DOMAIN ns = 1..Len(ns) /\ Len(ns) \in Nat
      /\ notices' \in Seq(Notices) /\ DOMAIN notices' = 1..(Len(notices) + Len(ns))
  BY <1>1
<1>3. \A i \in DOMAIN notices : i \in DOMAIN notices' /\ notices'[i] = notices[i]
  BY <1>1, <1>2
<1>4. \A i \in DOMAIN ns : Len(notices) + i \in DOMAIN notices' /\ notices'[Len(notices) + i] = ns[i]
  BY <1>1, <1>2
<1>5. ASSUME NEW i \in DOMAIN notices', i \notin DOMAIN notices
      PROVE  i - Len(notices) \in DOMAIN ns /\ notices'[i] = ns[i - Len(notices)]
  BY <1>1, <1>2, <1>5
<1>6. ASSUME NEW i \in DOMAIN notices', notices'[i].kind = "SESSION" PROVE notices'[i].m \in Nights
  BY <1>3, <1>5, <1>6 DEF ControlShape
<1>7. \A k : Coming(k) => Coming(k)'
  BY <1>3 DEF Coming
<1>8. \A i \in DOMAIN ns : Coming(ns[i].kind)'
  BY <1>4 DEF Coming
<1> QED BY <1>1, <1>2, <1>6, <1>7, <1>8

\* What a notice is, and a short list of them.
LEMMA NoticeType ==
  ASSUME NEW k \in {"WEATHER", "OPERATING", "CREDENTIAL", "SESSION", "PARK", "GOTO", "ENVELOPE"},
         NEW m \in SomeNight, NEW s \in {0, 1}
  PROVE  /\ Notice(k, m, s) \in Notices
         /\ Notice(k, m, s).kind = k /\ Notice(k, m, s).m = m
BY DEF Notice, Notices

\* What a transaction sends is a short list of notices.
LEMMA FewNotices ==
  ASSUME NEW a \in Notices, NEW b \in Notices, NEW c \in Notices
  PROVE  /\ <<>> \in Seq(Notices) /\ DOMAIN <<>> = {}
         /\ <<a>> \in Seq(Notices) /\ \A i \in DOMAIN <<a>> : <<a>>[i] = a
         /\ <<a, b>> \in Seq(Notices) /\ \A i \in DOMAIN <<a, b>> : <<a, b>>[i] \in {a, b}
         /\ <<a>> \o <<>> = <<a>>
         /\ LET q == <<a>> \o <<b, c>>
            IN  q \in Seq(Notices) /\ 1 \in DOMAIN q /\ q[1] = a /\ \A i \in DOMAIN q : q[i] \in {a, b, c}
<1>1. /\ <<>> \in Seq(Notices) /\ DOMAIN <<>> = {}
      /\ <<a>> \in Seq(Notices) /\ \A i \in DOMAIN <<a>> : <<a>>[i] = a
      /\ <<a>> \o <<>> = <<a>>
  OBVIOUS
<1>2. <<a, b>> \in Seq(Notices) /\ Len(<<a, b>>) = 2 /\ \A i \in DOMAIN <<a, b>> : <<a, b>>[i] \in {a, b}
  OBVIOUS
<1>30. PICK p, r : p = <<a>> /\ r = <<b, c>>
  OBVIOUS
<1>3. p = <<a>> /\ p \in Seq(Notices) /\ Len(p) = 1 /\ p[1] = a
  BY <1>30
<1>4. r = <<b, c>> /\ r \in Seq(Notices) /\ Len(r) = 2 /\ r[1] = b /\ r[2] = c
  BY <1>30
<1>5. /\ p \o r \in Seq(Notices) /\ Len(p \o r) = 3 /\ DOMAIN (p \o r) = 1..3
      /\ (p \o r)[1] = a /\ (p \o r)[2] = b /\ (p \o r)[3] = c
  BY <1>3, <1>4
<1>6. \A i \in DOMAIN (p \o r) : (p \o r)[i] \in {a, b, c}
  BY <1>5
<1> QED BY <1>1, <1>2, <1>3, <1>4, <1>5, <1>6

\* One notice, of no mission.
LEMMA SentOne ==
  ASSUME ControlShape, NEW k \in {"WEATHER", "OPERATING", "CREDENTIAL", "ENVELOPE"},
         Notify(<<Notice(k, Nothing, 0)>>)
  PROVE  /\ notices' \in Seq(Notices) /\ Len(notices') <= MaxNotices
         /\ \A i \in DOMAIN notices' : notices'[i].kind = "SESSION" => notices'[i].m \in Nights
         /\ \A l : Coming(l) => Coming(l)'
         /\ Coming(k)'
<1>1. PICK n \in Notices : n = Notice(k, Nothing, 0) /\ n.kind = k
  BY DEF Notice, Notices, SomeNight
<1>2. <<n>> \in Seq(Notices) /\ DOMAIN <<n>> = {1} /\ <<n>>[1] = n
  BY <1>1
<1>3. Notify(<<n>>)
  BY <1>1
<1> HIDE DEF Notice
<1>4. \A i \in DOMAIN <<n>> : <<n>>[i].kind = "SESSION" => <<n>>[i].m \in Nights
  BY <1>1, <1>2
<1>5. PICK ns \in Seq(Notices) : ns = <<n>>
  BY <1>2
<1>6. /\ notices' \in Seq(Notices) /\ Len(notices') <= MaxNotices
      /\ \A i \in DOMAIN notices' : notices'[i].kind = "SESSION" => notices'[i].m \in Nights
      /\ \A l : Coming(l) => Coming(l)'
      /\ \A i \in DOMAIN ns : Coming(ns[i].kind)'
  BY <1>3, <1>4, <1>5, Sent
<1>7. Coming(k)'
  BY <1>1, <1>2, <1>5, <1>6
<1> QED BY <1>6, <1>7

\* The mission a request finds live, if one is.
LEMMA FoundMission == RunningMission \in SomeNight
<1>1. CASE LiveNow = {}
  BY <1>1 DEF RunningMission, SomeNight
<1>2. CASE LiveNow # {}
  BY <1>2 DEF RunningMission, SomeNight, LiveNow
<1> QED BY <1>1, <1>2

\* A request is asked, goes on, or is answered.
LEMMA DeskMoves ==
  ASSUME ControlShape, NEW d \in Desks, NEW row \in DeskRows,
         row.op = "start" \/ row.s # 0 => row.m \in Nights,
         desks' = [desks EXCEPT ![d] = row]
  PROVE  /\ desks' \in [Desks -> DeskRows]
         /\ \A c \in Desks : desks'[c].op = "start" \/ desks'[c].s # 0 => desks'[c].m \in Nights
BY DEF ControlShape

\* A desk that is answered is free again; the requests keep their shape.
LEMMA AnswerMoves ==
  ASSUME ControlShape, NEW d \in Desks, Answer(d)
  PROVE  /\ desks' \in [Desks -> DeskRows]
         /\ \A c \in Desks : desks'[c].op = "start" \/ desks'[c].s # 0 => desks'[c].m \in Nights
<1>1. FreeDesk \in DeskRows /\ FreeDesk.op = "none" /\ FreeDesk.s = 0
  BY DEF FreeDesk, DeskRows, DeskOps, SomeNight
<1> HIDE DEF FreeDesk
<1> QED BY <1>1, DeskMoves DEF Answer

\* A desk asks; the requests keep their shape.
LEMMA AskMoves ==
  ASSUME ControlShape, NEW d \in Desks, NEW op \in DeskOps, NEW m \in SomeNight, NEW s \in {0, 1},
         op = "start" \/ s # 0 => m \in Nights,
         Ask(d, op, m, s)
  PROVE  /\ desks' \in [Desks -> DeskRows]
         /\ \A c \in Desks : desks'[c].op = "start" \/ desks'[c].s # 0 => desks'[c].m \in Nights
<1>0. [op |-> op, m |-> m, s |-> s] \in DeskRows
  BY DEF DeskRows
<1>1. PICK row \in DeskRows : row = [op |-> op, m |-> m, s |-> s]
  BY <1>0
<1>10. row.op = op /\ row.s = s /\ row.m = m
  BY <1>1
<1>2. desks' = [desks EXCEPT ![d] = row]
  BY <1>1 DEF Ask
<1> QED BY ONLY <1>10, <1>2, DeskMoves, ControlShape, d \in Desks, op = "start" \/ s # 0 => m \in Nights

\* A request of a desk that reads rows.
LEMMA OrderStep ==
  ASSUME ControlInv, NEW d \in Desks, NEW op \in DeskOps, NEW m \in SomeNight, NEW s \in {0, 1},
         op = "start" \/ s # 0 => m \in Nights,
         Order(d, op, m, s) \/ (Ask(d, op, m, s) /\ UNCHANGED orders),
         UNCHANGED <<NodeRows, hold, MissionRows, notices, scope>>
  PROVE  ControlInv'
<1>1. Ask(d, op, m, s) /\ orders' \in 0..MaxOrders
  BY ControlRows DEF Order, ControlInv
<1>2. /\ desks' \in [Desks -> DeskRows]
      /\ \A c \in Desks : desks'[c].op = "start" \/ desks'[c].s # 0 => desks'[c].m \in Nights
  BY <1>1, AskMoves DEF ControlInv
<1> QED BY <1>1, <1>2 DEF ControlInv, ControlShape, ControlTypeOK, NodeRows, MissionRows, AgentCatchesUp, Coming

\* A step that leaves the hold, the token and the agent alone, and loses no
\* notice.
LEMMA RowsMove ==
  ASSUME ControlInv, UNCHANGED <<hold, token, scope>>, \A k : Coming(k) => Coming(k)', ControlShape'
  PROVE  ControlInv'
BY DEF ControlInv, AgentCatchesUp

\* The requests that only read.
LEMMA RequestSteps ==
  ASSUME ControlInv, NEW d \in Desks,
         \/ SubmitNetworkNodeForReview(d) \/ ApproveNetworkNode(d)
         \/ SuspendNetworkNode(d) \/ RevokeDeviceToken(d) \/ SetWeatherHold(d)
         \/ \E to \in {"REAL", "SIMULATED"} : SetObservatoryMode(d, to)
         \/ \E m \in Nights : BeginStart(d, m)
         \/ \E limit \in Limits : SetSafetyEnvelope(d, limit)
  PROVE  ControlInv'
<1>1. Nothing \in SomeNight /\ RunningMission \in SomeNight /\ Nights \subseteq SomeNight
  BY FoundMission DEF SomeNight
<1>2. ASSUME NEW op \in {"submit", "approve"} \cup {"REAL", "SIMULATED"} \cup Limits, Order(d, op, Nothing, 0),
             UNCHANGED <<NodeRows, hold, MissionRows, notices, scope>>
      PROVE  ControlInv'
  <2>1. op \in DeskOps /\ op # "start"
    BY DEF DeskOps, Limits
  <2> QED BY <1>1, <1>2, <2>1, OrderStep
<1>3. ASSUME NEW op \in {"suspend", "revoke"}, Order(d, op, RunningMission, 0),
             UNCHANGED <<NodeRows, hold, MissionRows, notices, scope>>
      PROVE  ControlInv'
  <2>1. op \in DeskOps /\ op # "start"
    BY DEF DeskOps
  <2> QED BY <1>1, <1>3, <2>1, OrderStep
<1>4. CASE SetWeatherHold(d)
  <2>1. PICK s : s = IF RunningMission = Nothing THEN 0 ELSE owner[RunningMission]
    OBVIOUS
  <2>2. s \in {0, 1} /\ (s # 0 => RunningMission \in Nights)
    BY <1>1, <2>1, ControlRows DEF SomeNight, ControlInv
  <2>3. Order(d, "hold", RunningMission, s) /\ UNCHANGED <<NodeRows, hold, MissionRows, notices, scope>>
    BY <1>4, <2>1 DEF SetWeatherHold
  <2>4. "hold" \in DeskOps
    BY DEF DeskOps
  <2> QED BY <1>1, <2>2, <2>3, <2>4, OrderStep
<1>5. ASSUME NEW m \in Nights, BeginStart(d, m) PROVE ControlInv'
  <2>1. "start" \in DeskOps
    BY DEF DeskOps
  <2> QED BY <1>1, <1>5, <2>1, OrderStep DEF BeginStart
<1> QED BY <1>2, <1>3, <1>4, <1>5 DEF SubmitNetworkNodeForReview, ApproveNetworkNode, SuspendNetworkNode,
             RevokeDeviceToken, SetObservatoryMode, SetSafetyEnvelope

\* The writes that tell the agent nothing it acts on.
LEMMA WriteSteps ==
  ASSUME ControlInv, NEW d \in Desks,
         WriteSubmission(d) \/ WriteMode(d) \/ WriteApproval(d) \/ WriteEnvelope(d) \/ WriteSuspension(d)
  PROVE  ControlInv'
<1>0. ControlShape
  BY DEF ControlInv
<1>1. CASE WriteSubmission(d) \/ WriteMode(d)
  <2>1. Answer(d) /\ UNCHANGED <<envelope, token, hold, MissionRows, orders, notices, scope>>
    BY <1>1 DEF WriteSubmission, WriteMode
  <2>2. approval' \in {"DRAFT", "UNDER_REVIEW", "APPROVED", "SUSPENDED"} /\ mode' \in {"REAL", "SIMULATED"}
    BY <1>0, <1>1 DEF WriteSubmission, WriteMode, ControlShape, ControlTypeOK
  <2>3. ControlShape'
    BY <1>0, <2>1, <2>2, AnswerMoves DEF ControlShape, ControlTypeOK, MissionRows
  <2> QED BY <2>1, <2>3, RowsMove DEF Coming
<1>2. CASE WriteApproval(d) \/ WriteEnvelope(d)
  <2>1. Answer(d) /\ UNCHANGED <<mode, token, hold, MissionRows, orders, scope>>
    BY <1>2 DEF WriteApproval, WriteEnvelope
  <2>2. approval' \in {"DRAFT", "UNDER_REVIEW", "APPROVED", "SUSPENDED"} /\ envelope' \in Limits
    BY <1>0, <1>2 DEF WriteApproval, WriteEnvelope, ControlShape, ControlTypeOK
  <2>3. PICK k \in {"OPERATING", "ENVELOPE"} : Notify(<<Notice(k, Nothing, 0)>>)
    BY <1>2 DEF WriteApproval, WriteEnvelope
  <2>4. /\ notices' \in Seq(Notices) /\ Len(notices') <= MaxNotices
        /\ \A i \in DOMAIN notices' : notices'[i].kind = "SESSION" => notices'[i].m \in Nights
        /\ \A l : Coming(l) => Coming(l)'
    BY <1>0, <2>3, SentOne
  <2>5. ControlShape'
    BY <1>0, <2>1, <2>2, <2>4, AnswerMoves DEF ControlShape, ControlTypeOK, MissionRows
  <2> QED BY <2>1, <2>4, <2>5, RowsMove
<1>3. CASE WriteSuspension(d)
  <2>1. /\ approval' = "SUSPENDED" /\ Notify(<<Notice("OPERATING", Nothing, 0)>>)
        /\ UNCHANGED <<envelope, mode, token, hold, MissionRows, orders, scope>>
    BY <1>3 DEF WriteSuspension
  <2>2. /\ desks' \in [Desks -> DeskRows]
        /\ \A c \in Desks : desks'[c].op = "start" \/ desks'[c].s # 0 => desks'[c].m \in Nights
    <3>1. PICK row \in DeskRows : row = desks[d] /\ (row.s # 0 => row.m \in Nights)
      BY <1>0 DEF ControlShape
    <3>20. [row EXCEPT !.op = "cancel"] \in DeskRows
      BY <3>1 DEF DeskRows, DeskOps
    <3>21. PICK next \in DeskRows : next = [row EXCEPT !.op = "cancel"]
      BY <3>20
    <3>2. next = [row EXCEPT !.op = "cancel"] /\ next.op = "cancel" /\ next.s = row.s /\ next.m = row.m
      BY <3>1, <3>21 DEF DeskRows
    <3>3. desks' = [desks EXCEPT ![d] = next]
      BY <1>3, <3>1, <3>2 DEF WriteSuspension
    <3> QED BY <1>0, <3>1, <3>2, <3>3, DeskMoves
  <2>4. /\ notices' \in Seq(Notices) /\ Len(notices') <= MaxNotices
        /\ \A i \in DOMAIN notices' : notices'[i].kind = "SESSION" => notices'[i].m \in Nights
        /\ \A l : Coming(l) => Coming(l)'
    BY <1>0, <2>1, SentOne
  <2>5. ControlShape'
    BY <1>0, <2>1, <2>2, <2>4 DEF ControlShape, ControlTypeOK, MissionRows
  <2> QED BY <2>1, <2>4, <2>5, RowsMove
<1> QED BY <1>1, <1>2, <1>3

\* The token: a revocation is on its way to an agent that is connected, and
\* none connects without one.
LEMMA TokenSteps ==
  ASSUME ControlInv, IssueDeviceToken \/ RotateDeviceToken \/ \E d \in Desks : WriteRevocation(d)
  PROVE  ControlInv'
<1>0. ControlShape
  BY DEF ControlInv
<1>1. CASE IssueDeviceToken
  <2>1. orders' \in 0..MaxOrders /\ token' = TRUE
    BY <1>0, <1>1, ControlRows DEF IssueDeviceToken
  <2>2. UNCHANGED <<approval, envelope, mode, hold, MissionRows, desks, notices, scope>>
    BY <1>1 DEF IssueDeviceToken
  <2>3. ControlShape'
    BY <1>0, <2>1, <2>2 DEF ControlShape, ControlTypeOK, MissionRows
  <2> QED BY <2>1, <2>2, <2>3 DEF ControlInv, AgentCatchesUp, Coming
<1>2. CASE RotateDeviceToken
  <2>1. /\ orders' \in 0..MaxOrders /\ Notify(<<Notice("CREDENTIAL", Nothing, 0)>>)
        /\ UNCHANGED <<NodeRows, hold, MissionRows, desks, scope>>
    BY <1>0, <1>2, ControlRows DEF RotateDeviceToken
  <2>2. /\ notices' \in Seq(Notices) /\ Len(notices') <= MaxNotices
        /\ \A i \in DOMAIN notices' : notices'[i].kind = "SESSION" => notices'[i].m \in Nights
        /\ \A l : Coming(l) => Coming(l)'
    BY <1>0, <2>1, SentOne
  <2>3. ControlShape'
    BY <1>0, <2>1, <2>2 DEF ControlShape, ControlTypeOK, MissionRows, NodeRows
  <2> QED BY <2>1, <2>2, <2>3, RowsMove DEF NodeRows
<1>3. ASSUME NEW d \in Desks, WriteRevocation(d) PROVE ControlInv'
  <2>1. /\ token' = FALSE /\ Notify(<<Notice("CREDENTIAL", Nothing, 0)>>)
        /\ UNCHANGED <<approval, envelope, mode, hold, MissionRows, orders, scope>>
    BY <1>3 DEF WriteRevocation
  <2>2. /\ desks' \in [Desks -> DeskRows]
        /\ \A c \in Desks : desks'[c].op = "start" \/ desks'[c].s # 0 => desks'[c].m \in Nights
    <3>1. PICK row \in DeskRows : row = desks[d] /\ (row.s # 0 => row.m \in Nights)
      BY <1>0 DEF ControlShape
    <3>20. [row EXCEPT !.op = "cancel"] \in DeskRows
      BY <3>1 DEF DeskRows, DeskOps
    <3>21. PICK next \in DeskRows : next = [row EXCEPT !.op = "cancel"]
      BY <3>20
    <3>2. next = [row EXCEPT !.op = "cancel"] /\ next.op = "cancel" /\ next.s = row.s /\ next.m = row.m
      BY <3>1, <3>21 DEF DeskRows
    <3>3. desks' = [desks EXCEPT ![d] = next]
      BY <1>3, <3>1, <3>2 DEF WriteRevocation
    <3> QED BY <1>0, <3>1, <3>2, <3>3, DeskMoves
  <2>4. /\ notices' \in Seq(Notices) /\ Len(notices') <= MaxNotices
        /\ \A i \in DOMAIN notices' : notices'[i].kind = "SESSION" => notices'[i].m \in Nights
        /\ \A l : Coming(l) => Coming(l)'
        /\ Coming("CREDENTIAL")'
    BY <1>0, <2>1, SentOne
  <2>5. ControlShape'
    BY <1>0, <2>1, <2>2, <2>4 DEF ControlShape, ControlTypeOK, MissionRows
  <2> QED BY <2>1, <2>4, <2>5 DEF ControlInv, AgentCatchesUp
<1> QED BY <1>1, <1>2, <1>3

\* Missions: scheduled, booked, started, cancelled.
LEMMA MissionSteps ==
  ASSUME ControlInv,
         \/ \E m \in Nights : ScheduleTestMission(m) \/ BookNight(m)
         \/ \E d \in Desks : CommitStart(d) \/ CancelFound(d)
  PROVE  ControlInv'
<1>0. ControlShape
  BY DEF ControlInv
<1>1. ASSUME NEW m \in Nights, ScheduleTestMission(m) \/ BookNight(m) PROVE ControlInv'
  <2>1. orders' \in 0..MaxOrders /\ UNCHANGED <<NodeRows, hold, owner, desks, notices, scope>>
    BY <1>0, <1>1, ControlRows DEF ScheduleTestMission, BookNight
  <2>2. night' \in [Nights -> NightStates]
    BY <1>0, <1>1, ControlRows DEF ScheduleTestMission, BookNight, NightStates
  <2>3. ControlShape'
    BY <1>0, <2>1, <2>2 DEF ControlShape, ControlTypeOK, NodeRows, NightStates
  <2> QED BY <2>1, <2>3, RowsMove DEF NodeRows, Coming
<1>2. ASSUME NEW d \in Desks, CommitStart(d) PROVE ControlInv'
  <2>1. PICK m \in Nights : m = desks[d].m
    BY <1>0, <1>2 DEF CommitStart, ControlShape
  <2>2. Answer(d) /\ UNCHANGED <<NodeRows, hold, orders, scope>>
    BY <1>2 DEF CommitStart
  <2>3. /\ night' \in [Nights -> NightStates] /\ owner' \in [Nights -> {0, 1}]
        /\ notices' \in Seq(Notices) /\ Len(notices') <= MaxNotices
        /\ \A i \in DOMAIN notices' : notices'[i].kind = "SESSION" => notices'[i].m \in Nights
        /\ \A l : Coming(l) => Coming(l)'
    <3>1. CASE night[m] = "SCHEDULED" /\ LiveNow = {}
      <4>1. /\ night' = [night EXCEPT ![m] = "LIVE"] /\ owner' = [owner EXCEPT ![m] = 1]
            /\ Notify(<<Notice("SESSION", m, 1), Notice("GOTO", m, 1)>>)
        BY <1>2, <2>1, <3>1 DEF CommitStart
      <4>20. m \in SomeNight
        BY DEF SomeNight
      <4>21. PICK n1, n2 : n1 = Notice("SESSION", m, 1) /\ n2 = Notice("GOTO", m, 1)
        OBVIOUS
      <4>2. /\ n1 = Notice("SESSION", m, 1) /\ n2 = Notice("GOTO", m, 1)
            /\ n1 \in Notices /\ n2 \in Notices /\ n1.m = m /\ n2.m = m
        BY <4>20, <4>21, NoticeType
      <4>30. PICK ns : ns = <<n1, n2>>
        OBVIOUS
      <4>3. ns = <<n1, n2>> /\ ns \in Seq(Notices) /\ \A i \in DOMAIN ns : ns[i].m = m
        <5>1. ns \in Seq(Notices) /\ \A i \in DOMAIN ns : ns[i] \in {n1, n2}
          BY <4>2, <4>30, FewNotices
        <5> QED BY <4>2, <4>30, <5>1
      <4>4. Notify(ns)
        BY <4>1, <4>2, <4>3
      <4>5. /\ notices' \in Seq(Notices) /\ Len(notices') <= MaxNotices
            /\ \A i \in DOMAIN notices' : notices'[i].kind = "SESSION" => notices'[i].m \in Nights
            /\ \A l : Coming(l) => Coming(l)'
        BY <1>0, <4>3, <4>4, Sent
      <4>6. night' \in [Nights -> NightStates] /\ owner' \in [Nights -> {0, 1}]
        BY <1>0, <4>1, ControlRows DEF NightStates
      <4> QED BY <4>5, <4>6
    <3>2. CASE ~(night[m] = "SCHEDULED" /\ LiveNow = {})
      <4>1. UNCHANGED <<night, owner, notices>>
        BY <1>2, <2>1, <3>2 DEF CommitStart, MissionRows
      <4> QED BY <1>0, <4>1, ControlRows DEF Coming, ControlShape
    <3> QED BY <3>1, <3>2
  <2>4. ControlShape'
    BY <1>0, <2>2, <2>3, AnswerMoves DEF ControlShape, ControlTypeOK, NodeRows, NightStates
  <2> QED BY <2>2, <2>3, <2>4, RowsMove DEF NodeRows
<1>3. ASSUME NEW d \in Desks, CancelFound(d) PROVE ControlInv'
  <2>1. PICK m \in SomeNight : m = desks[d].m
    BY <1>0 DEF ControlShape, DeskRows
  <2>2. Answer(d) /\ UNCHANGED <<NodeRows, hold, orders, scope>>
    BY <1>3 DEF CancelFound
  <2>3. /\ night' \in [Nights -> NightStates] /\ owner' \in [Nights -> {0, 1}]
        /\ notices' \in Seq(Notices) /\ Len(notices') <= MaxNotices
        /\ \A i \in DOMAIN notices' : notices'[i].kind = "SESSION" => notices'[i].m \in Nights
        /\ \A l : Coming(l) => Coming(l)'
    <3>1. CASE m # Nothing /\ night[m] \notin {"COMPLETE", "CANCELLED", "FAILED"}
      <4>0. m \in Nights
        BY <2>1, <3>1 DEF SomeNight
      <4>1. /\ night' = [night EXCEPT ![m] = "CANCELLED"] /\ owner' = [owner EXCEPT ![m] = 0]
            /\ Notify(IF owner[m] = 0 THEN << >> ELSE <<Notice("SESSION", m, 0)>>)
        BY <1>3, <2>1, <3>1 DEF CancelFound
      <4>21. PICK n : n = Notice("SESSION", m, 0)
        OBVIOUS
      <4>2. n = Notice("SESSION", m, 0) /\ n \in Notices /\ n.m = m
        BY <4>21, NoticeType
      <4>30. PICK ns : ns = IF owner[m] = 0 THEN << >> ELSE <<n>>
        OBVIOUS
      <4>3. ns \in Seq(Notices) /\ \A i \in DOMAIN ns : ns[i].m = m
        <5>1. /\ <<>> \in Seq(Notices) /\ DOMAIN <<>> = {}
              /\ <<n>> \in Seq(Notices) /\ \A i \in DOMAIN <<n>> : <<n>>[i] = n
          BY <4>2, FewNotices
        <5> QED BY <4>2, <4>30, <5>1
      <4>4. Notify(ns)
        BY <4>1, <4>2, <4>30
      <4>5. /\ notices' \in Seq(Notices) /\ Len(notices') <= MaxNotices
            /\ \A i \in DOMAIN notices' : notices'[i].kind = "SESSION" => notices'[i].m \in Nights
            /\ \A l : Coming(l) => Coming(l)'
        BY <1>0, <4>0, <4>3, <4>4, Sent
      <4>6. night' \in [Nights -> NightStates] /\ owner' \in [Nights -> {0, 1}]
        BY <1>0, <4>1, ControlRows DEF NightStates
      <4> QED BY <4>5, <4>6
    <3>2. CASE ~(m # Nothing /\ night[m] \notin {"COMPLETE", "CANCELLED", "FAILED"})
      <4>1. UNCHANGED <<night, owner, notices>>
        BY <1>3, <2>1, <3>2 DEF CancelFound, MissionRows
      <4> QED BY <1>0, <4>1, ControlRows DEF Coming, ControlShape
    <3> QED BY <3>1, <3>2
  <2>4. ControlShape'
    BY <1>0, <2>2, <2>3, AnswerMoves DEF ControlShape, ControlTypeOK, NodeRows, NightStates
  <2> QED BY <2>2, <2>3, <2>4, RowsMove DEF NodeRows
<1> QED BY <1>1, <1>2, <1>3

\* The hold: it is on its way to every agent that does not know of it.
LEMMA HoldSteps ==
  ASSUME ControlInv, ClearWeatherHold \/ \E d \in Desks : CommitWeatherHold(d)
  PROVE  ControlInv'
<1>0. ControlShape
  BY DEF ControlInv
<1>1. CASE ClearWeatherHold
  <2>1. /\ hold' = FALSE /\ orders' \in 0..MaxOrders /\ Notify(<<Notice("WEATHER", Nothing, 0)>>)
        /\ UNCHANGED <<NodeRows, MissionRows, desks, scope>>
    BY <1>0, <1>1, ControlRows DEF ClearWeatherHold
  <2>2. /\ notices' \in Seq(Notices) /\ Len(notices') <= MaxNotices
        /\ \A i \in DOMAIN notices' : notices'[i].kind = "SESSION" => notices'[i].m \in Nights
        /\ \A l : Coming(l) => Coming(l)'
    BY <1>0, <2>1, SentOne
  <2>3. ControlShape'
    BY <1>0, <2>1, <2>2 DEF ControlShape, ControlTypeOK, MissionRows, NodeRows
  <2> QED BY <2>1, <2>2, <2>3 DEF ControlInv, AgentCatchesUp, NodeRows
<1>2. ASSUME NEW d \in Desks, CommitWeatherHold(d) PROVE ControlInv'
  <2>1. PICK m \in SomeNight, s \in {0, 1} : m = desks[d].m /\ s = desks[d].s /\ (s # 0 => m \in Nights)
    BY <1>0 DEF ControlShape, DeskRows
  <2>2. /\ hold' = TRUE /\ Answer(d) /\ UNCHANGED <<NodeRows, orders, scope>>
        /\ Notify(<<Notice("WEATHER", Nothing, 0)>> \o
                  (IF s = 0 THEN << >> ELSE <<Notice("PARK", m, s), Notice("SESSION", m, 0)>>))
        /\ night' = IF m # Nothing /\ LiveNight(m) THEN [night EXCEPT ![m] = "WEATHER_HOLD"] ELSE night
        /\ owner' = IF m # Nothing /\ s # 0 THEN [owner EXCEPT ![m] = 0] ELSE owner
    BY <1>2, <2>1 DEF CommitWeatherHold
  <2>30. PICK n0, n1, n2 :
           n0 = Notice("WEATHER", Nothing, 0) /\ n1 = Notice("PARK", m, s) /\ n2 = Notice("SESSION", m, 0)
    OBVIOUS
  <2>31. Nothing \in SomeNight
    BY DEF SomeNight
  <2>3. /\ n0 = Notice("WEATHER", Nothing, 0) /\ n1 = Notice("PARK", m, s) /\ n2 = Notice("SESSION", m, 0)
        /\ n0 \in Notices /\ n1 \in Notices /\ n2 \in Notices
        /\ n0.kind = "WEATHER" /\ n1.kind = "PARK" /\ n2.m = m
    BY <2>1, <2>30, <2>31, NoticeType
  <2>4. PICK ns \in Seq(Notices) :
          /\ ns = <<n0>> \o (IF s = 0 THEN << >> ELSE <<n1, n2>>)
          /\ 1 \in DOMAIN ns /\ ns[1] = n0
          /\ \A i \in DOMAIN ns : ns[i] \in {n0, n1} \/ (s # 0 /\ ns[i] = n2)
    <3>1. CASE s = 0
      <4>1. <<n0>> \in Seq(Notices) /\ <<n0>> \o <<>> = <<n0>> /\ \A i \in DOMAIN <<n0>> : <<n0>>[i] = n0
        BY <2>3, FewNotices
      <4>2. 1 \in DOMAIN <<n0>>
        OBVIOUS
      <4> QED BY <3>1, <4>1, <4>2
    <3>2. CASE s # 0
      <4>1. PICK q : q = <<n0>> \o <<n1, n2>>
        OBVIOUS
      <4>2. q \in Seq(Notices) /\ 1 \in DOMAIN q /\ q[1] = n0 /\ \A i \in DOMAIN q : q[i] \in {n0, n1, n2}
        BY <2>3, <4>1, FewNotices
      <4> QED BY <3>2, <4>1, <4>2
    <3> QED BY <3>1, <3>2
  <2>5. Notify(ns)
    BY <2>2, <2>3, <2>4
  <2>6. \A i \in DOMAIN ns : ns[i].kind = "SESSION" => ns[i].m \in Nights
    BY <2>1, <2>3, <2>4
  <2>7. /\ notices' \in Seq(Notices) /\ Len(notices') <= MaxNotices
        /\ \A i \in DOMAIN notices' : notices'[i].kind = "SESSION" => notices'[i].m \in Nights
        /\ \A l : Coming(l) => Coming(l)'
        /\ Coming("WEATHER")'
    <3>1. \A i \in DOMAIN ns : Coming(ns[i].kind)'
      BY <1>0, <2>5, <2>6, Sent
    <3>2. Coming("WEATHER")'
      BY <2>3, <2>4, <3>1
    <3> QED BY <1>0, <2>5, <2>6, <3>2, Sent
  <2>8. night' \in [Nights -> NightStates] /\ owner' \in [Nights -> {0, 1}]
    BY <1>0, <2>2, ControlRows DEF NightStates
  <2>9. ControlShape'
    BY <1>0, <2>2, <2>7, <2>8, AnswerMoves DEF ControlShape, ControlTypeOK, NodeRows, NightStates
  <2> QED BY <2>2, <2>7, <2>9 DEF ControlInv, AgentCatchesUp, NodeRows
<1> QED BY <1>1, <1>2

\* What the agent makes of a notice of which weather and credentials come in.
LEMMA ToldType ==
  ASSUME ControlInv, NEW n \in Notices, n.kind = "SESSION" => n.m \in Nights
  PROVE  /\ Told(n) \in ScopeRows
         /\ hold /\ Told(n).linked /\ ~Told(n).hold =>
              scope.linked /\ ~scope.hold /\ n.kind # "WEATHER"
         /\ Told(n).linked => scope.linked /\ n.kind # "CREDENTIAL"
         /\ scope.linked /\ Told(n).on # Nothing => Told(n).linked /\ ~Told(n).hold
<1>0. ControlShape /\ scope \in ScopeRows /\ hold \in BOOLEAN /\ owner \in [Nights -> {0, 1}]
  BY ControlRows DEF ControlInv, ControlShape
<1>1. /\ n.kind \in {"WEATHER", "OPERATING", "CREDENTIAL", "SESSION", "PARK", "GOTO", "ENVELOPE"}
      /\ n.m \in SomeNight /\ Nothing \in SomeNight
  BY DEF Notices, SomeNight
<1>2. /\ scope.linked \in BOOLEAN /\ scope.hold \in BOOLEAN
      /\ scope.on # Nothing => scope.linked /\ ~scope.hold
  BY <1>0 DEF ScopeRows, ControlInv, AgentCatchesUp
<1>3. CASE n.kind = "WEATHER"
  <2>1. CASE hold
    <3>1. Told(n) = [[scope EXCEPT !.hold = TRUE] EXCEPT !.on = Nothing]
      BY <1>3, <2>1 DEF Told, Stopped
    <3> QED BY <1>0, <1>1, <1>2, <1>3, <3>1 DEF ScopeRows
  <2>2. CASE ~hold
    <3>1. Told(n) = [scope EXCEPT !.hold = FALSE]
      BY <1>3, <2>2 DEF Told
    <3> QED BY <1>0, <1>1, <1>2, <1>3, <2>2, <3>1 DEF ScopeRows
  <2> QED BY <2>1, <2>2
<1>4. CASE n.kind = "OPERATING"
  <2>1. Told(n) = [[scope EXCEPT !.posture = "DISARMED"] EXCEPT !.on = Nothing] \/ Told(n) = scope
    BY <1>4 DEF Told, Stopped
  <2> QED BY <1>0, <1>1, <1>2, <1>4, <2>1 DEF ScopeRows
<1>5. CASE n.kind = "CREDENTIAL"
  <2>1. Told(n) = [[scope EXCEPT !.linked = FALSE] EXCEPT !.on = Nothing]
    BY <1>5 DEF Told, Stopped
  <2> QED BY <1>0, <1>1, <1>2, <1>5, <2>1 DEF ScopeRows
<1>6. CASE n.kind = "SESSION"
  <2>1. Told(n) = [scope EXCEPT !.owner = <<n.m, owner[n.m]>>] /\ <<n.m, owner[n.m]>> \in SomeNight \X {0, 1}
    BY <1>0, <1>1, <1>6 DEF Told
  <2> QED BY <1>0, <1>1, <1>2, <1>6, <2>1 DEF ScopeRows
<1>7. CASE n.kind = "PARK"
  <2>1. Told(n) = [scope EXCEPT !.on = Nothing] \/ Told(n) = scope
    BY <1>7 DEF Told, Stopped
  <2> QED BY <1>0, <1>1, <1>2, <1>7, <2>1 DEF ScopeRows
<1>8. CASE n.kind = "GOTO"
  <2>1. (~scope.hold /\ Told(n) = [scope EXCEPT !.on = n.m]) \/ Told(n) = scope
    BY <1>8 DEF Told
  <2> QED BY <1>0, <1>1, <1>2, <1>8, <2>1 DEF ScopeRows
<1>9. CASE n.kind = "ENVELOPE"
  <2>1. Told(n) = scope
    BY <1>9 DEF Told
  <2> QED BY <1>0, <1>1, <1>2, <1>9, <2>1
<1> QED BY <1>1, <1>3, <1>4, <1>5, <1>6, <1>7, <1>8, <1>9

\* A notice reaches the agent: one of another kind than it waits for leaves
\* what it waits for on its way.
LEMMA DeliverStep ==
  ASSUME ControlInv, DeliverNotice
  PROVE  ControlInv'
<1>0. ControlShape
  BY DEF ControlInv
<1>1. /\ notices # << >> /\ notices' = Tail(notices)
      /\ scope' = IF scope.linked THEN Told(Head(notices)) ELSE scope
      /\ UNCHANGED <<NodeRows, hold, desks, orders>>
  BY DEF DeliverNotice
<1>2. PICK n : n = Head(notices)
  OBVIOUS
<1>3. /\ n \in Notices /\ (n.kind = "SESSION" => n.m \in Nights)
      /\ notices' \in Seq(Notices) /\ Len(notices') <= MaxNotices
      /\ \A i \in DOMAIN notices' : notices'[i].kind = "SESSION" => notices'[i].m \in Nights
      /\ \A k : Coming(k) /\ k # n.kind => Coming(k)'
  <2>1. notices \in Seq(Notices) /\ Len(notices) \in Nat /\ DOMAIN notices = 1..Len(notices)
    BY <1>0, ControlRows
  <2>2. /\ 1 \in DOMAIN notices /\ n = notices[1] /\ n \in Notices
        /\ notices' \in Seq(Notices) /\ Len(notices') = Len(notices) - 1 /\ DOMAIN notices' = 1..(Len(notices) - 1)
    BY <1>1, <1>2, <2>1
  <2>3. \A i \in DOMAIN notices' : i + 1 \in DOMAIN notices /\ notices'[i] = notices[i + 1]
    BY <1>1, <2>1, <2>2
  <2>4. \A j \in DOMAIN notices : j # 1 => j - 1 \in DOMAIN notices' /\ notices'[j - 1] = notices[j]
    BY <1>1, <2>1, <2>2, <2>3
  <2>5. Len(notices') <= MaxNotices
    BY <1>0, <2>1, <2>2, ControlRows
  <2>6. \A k : Coming(k) /\ k # n.kind => Coming(k)'
    BY <2>2, <2>4 DEF Coming
  <2>7. \A i \in DOMAIN notices : notices[i].kind = "SESSION" => notices[i].m \in Nights
    BY <1>0 DEF ControlShape
  <2> QED BY <2>2, <2>3, <2>5, <2>6, <2>7
<1>4. night' \in [Nights -> NightStates] /\ owner' \in [Nights -> {0, 1}]
  <2>1. night' = night \/ night' = [night EXCEPT ![n.m] = "FAILED"]
    BY <1>2 DEF DeliverNotice
  <2>2. owner' = [m \in Nights |-> IF night'[m] = "FAILED" THEN 0 ELSE owner[m]]
    BY DEF DeliverNotice
  <2> QED BY <1>0, <2>1, <2>2, ControlRows DEF NightStates
<1>5. /\ Told(n) \in ScopeRows
      /\ hold /\ Told(n).linked /\ ~Told(n).hold => scope.linked /\ ~scope.hold /\ n.kind # "WEATHER"
      /\ Told(n).linked => scope.linked /\ n.kind # "CREDENTIAL"
      /\ scope.linked /\ Told(n).on # Nothing => Told(n).linked /\ ~Told(n).hold
  BY <1>3, ToldType
<1>6. AgentCatchesUp /\ scope \in ScopeRows
  BY <1>0 DEF ControlInv, ControlShape
<1>7. ControlShape'
  <2>1. scope' \in ScopeRows
    BY <1>1, <1>2, <1>5, <1>6
  <2> QED BY <1>0, <1>1, <1>3, <1>4, <2>1 DEF ControlShape, ControlTypeOK, NodeRows, NightStates
<1>8. CASE scope.linked
  <2>1. scope' = Told(n) /\ hold' = hold /\ token' = token
    BY <1>1, <1>2, <1>8 DEF NodeRows
  <2>2. AgentCatchesUp'
    BY <1>3, <1>5, <1>6, <1>8, <2>1 DEF AgentCatchesUp
  <2> QED BY <1>7, <2>2 DEF ControlInv
<1>9. CASE ~scope.linked
  <2>1. scope' = scope
    BY <1>1, <1>9
  <2> QED BY <1>6, <1>7, <1>9, <2>1 DEF ControlInv, AgentCatchesUp
<1> QED BY <1>8, <1>9

\* The agent's own steps.
LEMMA AgentSteps ==
  ASSUME ControlInv, AgentConnects \/ ArmAgent \/ MissionOver
  PROVE  ControlInv'
<1>0. ControlShape /\ AgentCatchesUp /\ scope \in ScopeRows /\ hold \in BOOLEAN /\ token \in BOOLEAN
  BY ControlRows DEF ControlInv, ControlShape
<1>1. CASE AgentConnects
  <2>1. token /\ ~scope.linked /\ UNCHANGED <<NodeRows, hold, MissionRows, desks, orders, notices>>
    BY <1>1 DEF AgentConnects
  <2>2. PICK x \in {"ATTENDED", "UNATTENDED", "DISARMED"} :
          scope' = [scope EXCEPT !.linked = TRUE, !.hold = hold, !.posture = x]
    BY <1>0, <1>1 DEF AgentConnects, ScopeRows
  <2>3. scope' \in ScopeRows /\ scope'.linked = TRUE /\ scope'.hold = hold /\ scope'.on = scope.on
    BY <1>0, <2>2 DEF ScopeRows
  <2>4. ControlShape'
    BY <1>0, <2>1, <2>3 DEF ControlShape, ControlTypeOK, NodeRows, MissionRows
  <2>5. AgentCatchesUp'
    BY <1>0, <2>1, <2>3 DEF AgentCatchesUp, NodeRows
  <2> QED BY <2>4, <2>5 DEF ControlInv
<1>2. CASE ArmAgent
  <2>1. UNCHANGED <<NodeRows, hold, MissionRows, desks, orders, notices>>
    BY <1>2 DEF ArmAgent
  <2>2. scope' = [scope EXCEPT !.posture = "UNATTENDED"]
    BY <1>2 DEF ArmAgent
  <2>3. scope' \in ScopeRows /\ scope'.linked = scope.linked /\ scope'.hold = scope.hold /\ scope'.on = scope.on
    BY <1>0, <2>2 DEF ScopeRows
  <2>4. ControlShape'
    BY <1>0, <2>1, <2>3 DEF ControlShape, ControlTypeOK, NodeRows, MissionRows
  <2>5. AgentCatchesUp'
    BY <1>0, <2>1, <2>3 DEF AgentCatchesUp, NodeRows, Coming
  <2> QED BY <2>4, <2>5 DEF ControlInv
<1>3. CASE MissionOver
  <2>1. UNCHANGED <<NodeRows, hold, desks, orders, notices>>
    BY <1>3 DEF MissionOver
  <2>2. scope' = [scope EXCEPT !.on = Nothing]
    BY <1>3 DEF MissionOver, Stopped
  <2>3. scope' \in ScopeRows /\ scope'.linked = scope.linked /\ scope'.hold = scope.hold /\ scope'.on = Nothing
    BY <1>0, <2>2 DEF ScopeRows, SomeNight
  <2>4. night' \in [Nights -> NightStates] /\ owner' \in [Nights -> {0, 1}]
    BY <1>0, <1>3, ControlRows DEF MissionOver, NightStates
  <2>5. ControlShape'
    BY <1>0, <2>1, <2>3, <2>4 DEF ControlShape, ControlTypeOK, NodeRows, NightStates
  <2>6. AgentCatchesUp'
    BY <1>0, <2>1, <2>3 DEF AgentCatchesUp, NodeRows, Coming
  <2> QED BY <2>5, <2>6 DEF ControlInv
<1> QED BY <1>1, <1>2, <1>3

\* Nothing was asked yet.
LEMMA ControlStart == ControlInit => ControlInv
<1> SUFFICES ASSUME ControlInit PROVE ControlInv
  OBVIOUS
<1>1. FreeDesk \in DeskRows /\ FreeDesk.op = "none" /\ FreeDesk.s = 0
  BY DEF FreeDesk, DeskRows, DeskOps, SomeNight
<1>2. /\ IdleScope \in ScopeRows /\ IdleScope.linked = FALSE /\ IdleScope.hold = FALSE /\ IdleScope.on = Nothing
  BY DEF IdleScope, ScopeRows, SomeNight
<1>3. scope = IdleScope /\ notices = <<>> /\ hold = FALSE /\ desks = [d \in Desks |-> FreeDesk]
  BY DEF ControlInit
<1> HIDE DEF FreeDesk, IdleScope
<1>4. ControlTypeOK
  <2>1. 0 \in 0..MaxOrders /\ 0 <= MaxNotices
    BY ObservatoryControlAssumption
  <2>2. Len(notices) = 0 /\ orders = 0
    BY <1>3 DEF ControlInit
  <2>3. token \in BOOLEAN
    BY DEF ControlInit
  <2> QED BY <1>3, <2>1, <2>2, <2>3 DEF ControlInit, ControlTypeOK, Limits
<1>5. ControlShape
  BY <1>1, <1>2, <1>3, <1>4 DEF ControlShape
<1> QED BY <1>2, <1>3, <1>5 DEF ControlInv, AgentCatchesUp

\* Every step keeps it.
LEMMA ControlStep ==
  ASSUME ControlInv, [ControlNext]_controlVars
  PROVE  ControlInv'
<1>1. CASE UNCHANGED controlVars
  BY <1>1 DEF controlVars, ControlInv, ControlShape, ControlTypeOK, AgentCatchesUp, Coming
<1>2. CASE ControlNext
  BY <1>2, RequestSteps, WriteSteps, TokenSteps, MissionSteps, HoldSteps, DeliverStep, AgentSteps
     DEF ControlNext
<1> QED BY <1>1, <1>2

\* A hold or a revoked credential reaches the telescope (setWeatherHold,
\* revokeDeviceToken).
LEMMA StopsArrive == ControlSpec => [](ControlTypeOK /\ StopsReachTheTelescope)
<1>1. ControlInv => ControlTypeOK /\ StopsReachTheTelescope
  BY DEF ControlInv, ControlShape, AgentCatchesUp, StopsReachTheTelescope
<1>2. ControlInit => ControlInv
  BY ControlStart
<1>3. ControlInv /\ [ControlNext]_controlVars => ControlInv'
  BY ControlStep
<1> QED BY <1>1, <1>2, <1>3, PTL DEF ControlSpec

-----------------------------------------------------------------------------
(* The checks in front of the routes.                                      *)

\* What a check may be, and the checks of a list.
CheckNames == {"requireApiSession", "requireApiMutation", "requireOperator", "requireOperatorMutation",
               "crossOriginRefusal", "path", "body", "proof", "meter", "meterCode", "meterUnlessStop"}
IsCheck(c) == c.do \in CheckNames /\ (c.do \in {"meter", "meterCode", "meterUnlessStop"} => c.scope # "")
ChecksIn(list) == {list[i] : i \in DOMAIN list}

\* The checks a stop may meet, and those that spend an allowance.
MeetsStops(c) == c.do \in {"requireOperatorMutation", "path", "body", "meterUnlessStop"}
IsAllowance(c) == c.do \in {"meter", "meterUnlessStop"}

\* The guard a route for somebody has.
GuardFor(for, effect) ==
  IF for = "operators" THEN IF effect = "read" THEN "requireOperator" ELSE "requireOperatorMutation"
  ELSE IF effect = "read" THEN "requireApiSession" ELSE "requireApiMutation"

\* The rules every route keeps: whoever it is not for meets its guard, what
\* starts or widens something spends an allowance, and what stops is an
\* operator's and meets no check but its guard, its shape and an allowance
\* that a stop does not spend.
Rules(for, effect, checks) ==
  /\ \A c \in checks : IsCheck(c)
  /\ for # "anyone" => \E c \in checks : c.do = GuardFor(for, effect)
  /\ effect \in {"write", "either"} => \E c \in checks : IsAllowance(c)
  /\ effect \in {"stop", "either"} =>
       /\ for = "operators"
       /\ \A c \in checks : MeetsStops(c)

\* A route keeps the rules.
RouteOK(r) ==
  /\ Len(r.checks) \in Nat /\ DOMAIN r.checks = 1..Len(r.checks)
  /\ Rules(r.for, r.effect, ChecksIn(r.checks))

\* The checks there are.
LEMMA TheChecks ==
  /\ IsCheck(Session) /\ IsCheck(Mutation) /\ IsCheck(Operator) /\ IsCheck(OperatorMutation)
  /\ IsCheck(SameOrigin) /\ IsCheck(Path) /\ IsCheck(Body) /\ IsCheck(Proof)
  /\ Session.do = "requireApiSession" /\ Mutation.do = "requireApiMutation"
  /\ Operator.do = "requireOperator" /\ OperatorMutation.do = "requireOperatorMutation"
  /\ MeetsStops(OperatorMutation) /\ MeetsStops(Path) /\ MeetsStops(Body)
BY DEF MeetsStops, Session, Mutation, Operator, OperatorMutation, SameOrigin, Path, Body, Proof, Check, IsCheck, CheckNames

\* The allowances there are.
LEMMA TheMeters ==
  ASSUME NEW sc, sc # ""
  PROVE  /\ IsCheck(Meter(sc)) /\ IsAllowance(Meter(sc))
         /\ IsCheck(MeterUnlessStop(sc)) /\ IsAllowance(MeterUnlessStop(sc)) /\ MeetsStops(MeterUnlessStop(sc))
         /\ IsCheck(MeterCode(sc))
BY DEF IsAllowance, MeetsStops, Meter, MeterCode, MeterUnlessStop, IsCheck, CheckNames

\* Lists of up to five checks.
IsList(list, checks) == Len(list) \in Nat /\ DOMAIN list = 1..Len(list) /\ ChecksIn(list) = checks

\* A list written out is that of its members.
LEMMA ShortLists ==
  ASSUME NEW a, NEW b, NEW c, NEW d, NEW e
  PROVE  /\ IsList(<<>>, {}) /\ IsList(<<a>>, {a}) /\ IsList(<<a, b>>, {a, b}) /\ IsList(<<a, b, c>>, {a, b, c})
         /\ IsList(<<a, b, c, d>>, {a, b, c, d}) /\ IsList(<<a, b, c, d, e>>, {a, b, c, d, e})
<1>0. IsList(<<>>, {})
  BY DEF IsList, ChecksIn
<1>1. IsList(<<a>>, {a})
  BY DEF IsList, ChecksIn
<1>2. IsList(<<a, b>>, {a, b})
  BY DEF IsList, ChecksIn
<1>3. IsList(<<a, b, c>>, {a, b, c})
  BY DEF IsList, ChecksIn
<1>4. IsList(<<a, b, c, d>>, {a, b, c, d})
  BY DEF IsList, ChecksIn
<1>5. IsList(<<a, b, c, d, e>>, {a, b, c, d, e})
  BY DEF IsList, ChecksIn
<1> QED BY <1>0, <1>1, <1>2, <1>3, <1>4, <1>5

\* A route is as good as its rules.
LEMMA ByItsRules ==
  ASSUME NEW for, NEW call, NEW effect, NEW list, NEW checks, IsList(list, checks), Rules(for, effect, checks)
  PROVE  RouteOK(Route(for, call, effect, list))
<1>1. PICK r : r = Route(for, call, effect, list)
  OBVIOUS
<1>2. r.for = for /\ r.effect = effect /\ r.checks = list
  BY <1>1 DEF Route
<1> QED BY <1>1, <1>2 DEF RouteOK, IsList

\* What an operator reads asks for one.
LEMMA AdminReads ==
  /\ \A call : RouteOK(Admin(call, "read", <<Operator, Body>>))
  /\ \A call : RouteOK(Admin(call, "read", <<Operator, Path>>))
  /\ \A call : RouteOK(Admin(call, "read", <<Operator>>))
<1>1. ASSUME NEW call
      PROVE  RouteOK(Admin(call, "read", <<Operator, Body>>))
  <2>1. Rules("operators", "read", {Operator, Body})
    BY TheChecks DEF Rules, GuardFor
  <2> QED BY <2>1, ByItsRules, ShortLists DEF Admin
<1>2. ASSUME NEW call
      PROVE  RouteOK(Admin(call, "read", <<Operator, Path>>))
  <2>1. Rules("operators", "read", {Operator, Path})
    BY TheChecks DEF Rules, GuardFor
  <2> QED BY <2>1, ByItsRules, ShortLists DEF Admin
<1>3. ASSUME NEW call
      PROVE  RouteOK(Admin(call, "read", <<Operator>>))
  <2>1. Rules("operators", "read", {Operator})
    BY TheChecks DEF Rules, GuardFor
  <2> QED BY <2>1, ByItsRules, ShortLists DEF Admin
<1> QED BY <1>1, <1>2, <1>3

\* What an operator changes asks for one, from the site, and spends an allowance.
LEMMA AdminWrites ==
  /\ \A call, s : s # "" => RouteOK(Admin(call, "write", <<OperatorMutation, Meter(s), Body>>))
  /\ \A call, s : s # "" => RouteOK(Admin(call, "write", <<OperatorMutation, Path, Meter(s), Body>>))
  /\ \A call, s : s # "" => RouteOK(Admin(call, "write", <<OperatorMutation, Path, Body, Meter(s)>>))
<1>1. ASSUME NEW call, NEW s, s # ""
      PROVE  RouteOK(Admin(call, "write", <<OperatorMutation, Meter(s), Body>>))
  <2>1. Rules("operators", "write", {OperatorMutation, Meter(s), Body})
    BY <1>1, TheChecks, TheMeters DEF Rules, GuardFor
  <2> QED BY <2>1, ByItsRules, ShortLists DEF Admin
<1>2. ASSUME NEW call, NEW s, s # ""
      PROVE  RouteOK(Admin(call, "write", <<OperatorMutation, Path, Meter(s), Body>>))
  <2>1. Rules("operators", "write", {OperatorMutation, Path, Meter(s), Body})
    BY <1>2, TheChecks, TheMeters DEF Rules, GuardFor
  <2> QED BY <2>1, ByItsRules, ShortLists DEF Admin
<1>3. ASSUME NEW call, NEW s, s # ""
      PROVE  RouteOK(Admin(call, "write", <<OperatorMutation, Path, Body, Meter(s)>>))
  <2>1. Rules("operators", "write", {OperatorMutation, Path, Body, Meter(s)})
    BY <1>3, TheChecks, TheMeters DEF Rules, GuardFor
  <2> QED BY <2>1, ByItsRules, ShortLists DEF Admin
<1> QED BY <1>1, <1>2, <1>3

\* A stop spends none.
LEMMA AdminStops ==
  /\ \A call : RouteOK(Admin(call, "stop", <<OperatorMutation, Path, Body>>))
  /\ \A call : RouteOK(Admin(call, "stop", <<OperatorMutation, Body>>))
<1>1. ASSUME NEW call
      PROVE  RouteOK(Admin(call, "stop", <<OperatorMutation, Path, Body>>))
  <2>1. Rules("operators", "stop", {OperatorMutation, Path, Body})
    BY TheChecks DEF Rules, GuardFor
  <2> QED BY <2>1, ByItsRules, ShortLists DEF Admin
<1>2. ASSUME NEW call
      PROVE  RouteOK(Admin(call, "stop", <<OperatorMutation, Body>>))
  <2>1. Rules("operators", "stop", {OperatorMutation, Body})
    BY TheChecks DEF Rules, GuardFor
  <2> QED BY <2>1, ByItsRules, ShortLists DEF Admin
<1> QED BY <1>1, <1>2

\* What either stops or goes on spends one only to go on.
LEMMA AdminEither ==
  /\ \A call, s : s # "" => RouteOK(Admin(call, "either", <<OperatorMutation, Path, Body, MeterUnlessStop(s)>>))
  /\ \A call, s : s # "" => RouteOK(Admin(call, "either", <<OperatorMutation, Body, MeterUnlessStop(s)>>))
<1>1. ASSUME NEW call, NEW s, s # ""
      PROVE  RouteOK(Admin(call, "either", <<OperatorMutation, Path, Body, MeterUnlessStop(s)>>))
  <2>1. Rules("operators", "either", {OperatorMutation, Path, Body, MeterUnlessStop(s)})
    BY <1>1, TheChecks, TheMeters DEF Rules, GuardFor
  <2> QED BY <2>1, ByItsRules, ShortLists DEF Admin
<1>2. ASSUME NEW call, NEW s, s # ""
      PROVE  RouteOK(Admin(call, "either", <<OperatorMutation, Body, MeterUnlessStop(s)>>))
  <2>1. Rules("operators", "either", {OperatorMutation, Body, MeterUnlessStop(s)})
    BY <1>2, TheChecks, TheMeters DEF Rules, GuardFor
  <2> QED BY <2>1, ByItsRules, ShortLists DEF Admin
<1> QED BY <1>1, <1>2

\* A customer's own are read with a session ...
LEMMA CustomerReads ==
  /\ \A call : RouteOK(Customer(call, "read", <<Session>>))
  /\ \A call : RouteOK(Customer(call, "read", <<Session, Path>>))
  /\ \A call : RouteOK(Customer(call, "read", <<Session, Path, Body>>))
  /\ \A call : RouteOK(Customer(call, "read", <<Session, Body>>))
  /\ \A call, s : s # "" => RouteOK(Customer(call, "read", <<Session, Meter(s), Path>>))
<1>1. ASSUME NEW call
      PROVE  RouteOK(Customer(call, "read", <<Session>>))
  <2>1. Rules("customers", "read", {Session})
    BY TheChecks DEF Rules, GuardFor
  <2> QED BY <2>1, ByItsRules, ShortLists DEF Customer
<1>2. ASSUME NEW call
      PROVE  RouteOK(Customer(call, "read", <<Session, Path>>))
  <2>1. Rules("customers", "read", {Session, Path})
    BY TheChecks DEF Rules, GuardFor
  <2> QED BY <2>1, ByItsRules, ShortLists DEF Customer
<1>3. ASSUME NEW call
      PROVE  RouteOK(Customer(call, "read", <<Session, Path, Body>>))
  <2>1. Rules("customers", "read", {Session, Path, Body})
    BY TheChecks DEF Rules, GuardFor
  <2> QED BY <2>1, ByItsRules, ShortLists DEF Customer
<1>4. ASSUME NEW call
      PROVE  RouteOK(Customer(call, "read", <<Session, Body>>))
  <2>1. Rules("customers", "read", {Session, Body})
    BY TheChecks DEF Rules, GuardFor
  <2> QED BY <2>1, ByItsRules, ShortLists DEF Customer
<1>5. ASSUME NEW call, NEW s, s # ""
      PROVE  RouteOK(Customer(call, "read", <<Session, Meter(s), Path>>))
  <2>1. Rules("customers", "read", {Session, Meter(s), Path})
    BY <1>5, TheChecks, TheMeters DEF Rules, GuardFor
  <2> QED BY <2>1, ByItsRules, ShortLists DEF Customer
<1> QED BY <1>1, <1>2, <1>3, <1>4, <1>5

\* ... and changed from the site, on an allowance ...
LEMMA CustomerWrites ==
  /\ \A call, s, t : s # "" /\ t # "" => RouteOK(Customer(call, "write", <<Mutation, Meter(s), Body, MeterCode(t), Body>>))
  /\ \A call, s : s # "" => RouteOK(Customer(call, "write", <<Mutation, Meter(s), Path, Body>>))
  /\ \A call, s : s # "" => RouteOK(Customer(call, "write", <<Mutation, Meter(s), Path>>))
  /\ \A call, s : s # "" => RouteOK(Customer(call, "write", <<Mutation, Meter(s), Body>>))
  /\ \A call, s : s # "" => RouteOK(Customer(call, "write", <<Mutation, Body, Meter(s)>>))
  /\ \A call, s : s # "" => RouteOK(Customer(call, "write", <<Mutation, Path, Meter(s), Body>>))
  /\ \A call, s, t : s # "" /\ t # "" => RouteOK(Customer(call, "write", <<Mutation, Path, Meter(s), Body, MeterCode(t)>>))
  /\ \A call, s : s # "" => RouteOK(Customer(call, "write", <<Mutation, Path, Meter(s)>>))
  /\ \A call, s : s # "" => RouteOK(Customer(call, "write", <<Mutation, Meter(s)>>))
<1>1. ASSUME NEW call, NEW s, s # "", NEW t, t # ""
      PROVE  RouteOK(Customer(call, "write", <<Mutation, Meter(s), Body, MeterCode(t), Body>>))
  <2>1. Rules("customers", "write", {Mutation, Meter(s), Body, MeterCode(t), Body})
    BY <1>1, TheChecks, TheMeters DEF Rules, GuardFor
  <2> QED BY <2>1, ByItsRules, ShortLists DEF Customer
<1>2. ASSUME NEW call, NEW s, s # ""
      PROVE  RouteOK(Customer(call, "write", <<Mutation, Meter(s), Path, Body>>))
  <2>1. Rules("customers", "write", {Mutation, Meter(s), Path, Body})
    BY <1>2, TheChecks, TheMeters DEF Rules, GuardFor
  <2> QED BY <2>1, ByItsRules, ShortLists DEF Customer
<1>3. ASSUME NEW call, NEW s, s # ""
      PROVE  RouteOK(Customer(call, "write", <<Mutation, Meter(s), Path>>))
  <2>1. Rules("customers", "write", {Mutation, Meter(s), Path})
    BY <1>3, TheChecks, TheMeters DEF Rules, GuardFor
  <2> QED BY <2>1, ByItsRules, ShortLists DEF Customer
<1>4. ASSUME NEW call, NEW s, s # ""
      PROVE  RouteOK(Customer(call, "write", <<Mutation, Meter(s), Body>>))
  <2>1. Rules("customers", "write", {Mutation, Meter(s), Body})
    BY <1>4, TheChecks, TheMeters DEF Rules, GuardFor
  <2> QED BY <2>1, ByItsRules, ShortLists DEF Customer
<1>5. ASSUME NEW call, NEW s, s # ""
      PROVE  RouteOK(Customer(call, "write", <<Mutation, Body, Meter(s)>>))
  <2>1. Rules("customers", "write", {Mutation, Body, Meter(s)})
    BY <1>5, TheChecks, TheMeters DEF Rules, GuardFor
  <2> QED BY <2>1, ByItsRules, ShortLists DEF Customer
<1>6. ASSUME NEW call, NEW s, s # ""
      PROVE  RouteOK(Customer(call, "write", <<Mutation, Path, Meter(s), Body>>))
  <2>1. Rules("customers", "write", {Mutation, Path, Meter(s), Body})
    BY <1>6, TheChecks, TheMeters DEF Rules, GuardFor
  <2> QED BY <2>1, ByItsRules, ShortLists DEF Customer
<1>7. ASSUME NEW call, NEW s, s # "", NEW t, t # ""
      PROVE  RouteOK(Customer(call, "write", <<Mutation, Path, Meter(s), Body, MeterCode(t)>>))
  <2>1. Rules("customers", "write", {Mutation, Path, Meter(s), Body, MeterCode(t)})
    BY <1>7, TheChecks, TheMeters DEF Rules, GuardFor
  <2> QED BY <2>1, ByItsRules, ShortLists DEF Customer
<1>8. ASSUME NEW call, NEW s, s # ""
      PROVE  RouteOK(Customer(call, "write", <<Mutation, Path, Meter(s)>>))
  <2>1. Rules("customers", "write", {Mutation, Path, Meter(s)})
    BY <1>8, TheChecks, TheMeters DEF Rules, GuardFor
  <2> QED BY <2>1, ByItsRules, ShortLists DEF Customer
<1>9. ASSUME NEW call, NEW s, s # ""
      PROVE  RouteOK(Customer(call, "write", <<Mutation, Meter(s)>>))
  <2>1. Rules("customers", "write", {Mutation, Meter(s)})
    BY <1>9, TheChecks, TheMeters DEF Rules, GuardFor
  <2> QED BY <2>1, ByItsRules, ShortLists DEF Customer
<1> QED BY <1>1, <1>2, <1>3, <1>4, <1>5, <1>6, <1>7, <1>8, <1>9

\* ... which what can be done only once needs not.
LEMMA CustomerOnce ==
  /\ \A call : RouteOK(Customer(call, "once", <<Mutation>>))
  /\ \A call : RouteOK(Customer(call, "once", <<Mutation, Path, Body>>))
  /\ \A call : RouteOK(Customer(call, "once", <<Mutation, Body>>))
<1>1. ASSUME NEW call
      PROVE  RouteOK(Customer(call, "once", <<Mutation>>))
  <2>1. Rules("customers", "once", {Mutation})
    BY TheChecks DEF Rules, GuardFor
  <2> QED BY <2>1, ByItsRules, ShortLists DEF Customer
<1>2. ASSUME NEW call
      PROVE  RouteOK(Customer(call, "once", <<Mutation, Path, Body>>))
  <2>1. Rules("customers", "once", {Mutation, Path, Body})
    BY TheChecks DEF Rules, GuardFor
  <2> QED BY <2>1, ByItsRules, ShortLists DEF Customer
<1>3. ASSUME NEW call
      PROVE  RouteOK(Customer(call, "once", <<Mutation, Body>>))
  <2>1. Rules("customers", "once", {Mutation, Body})
    BY TheChecks DEF Rules, GuardFor
  <2> QED BY <2>1, ByItsRules, ShortLists DEF Customer
<1> QED BY <1>1, <1>2, <1>3

\* Anybody may read this ...
LEMMA PublicReads ==
  /\ \A call : RouteOK(Public(call, "read", <<Proof>>))
  /\ \A call, s : s # "" => RouteOK(Public(call, "read", <<Meter(s)>>))
  /\ \A call : RouteOK(Public(call, "read", <<>>))
  /\ \A call : RouteOK(Public(call, "read", <<Path>>))
  /\ \A call : RouteOK(Public(call, "read", <<Body>>))
<1>1. ASSUME NEW call
      PROVE  RouteOK(Public(call, "read", <<Proof>>))
  <2>1. Rules("anyone", "read", {Proof})
    BY TheChecks DEF Rules, GuardFor
  <2> QED BY <2>1, ByItsRules, ShortLists DEF Public
<1>2. ASSUME NEW call, NEW s, s # ""
      PROVE  RouteOK(Public(call, "read", <<Meter(s)>>))
  <2>1. Rules("anyone", "read", {Meter(s)})
    BY <1>2, TheChecks, TheMeters DEF Rules, GuardFor
  <2> QED BY <2>1, ByItsRules, ShortLists DEF Public
<1>3. ASSUME NEW call
      PROVE  RouteOK(Public(call, "read", <<>>))
  <2>1. Rules("anyone", "read", {})
    BY TheChecks DEF Rules, GuardFor
  <2> QED BY <2>1, ByItsRules, ShortLists DEF Public
<1>4. ASSUME NEW call
      PROVE  RouteOK(Public(call, "read", <<Path>>))
  <2>1. Rules("anyone", "read", {Path})
    BY TheChecks DEF Rules, GuardFor
  <2> QED BY <2>1, ByItsRules, ShortLists DEF Public
<1>5. ASSUME NEW call
      PROVE  RouteOK(Public(call, "read", <<Body>>))
  <2>1. Rules("anyone", "read", {Body})
    BY TheChecks DEF Rules, GuardFor
  <2> QED BY <2>1, ByItsRules, ShortLists DEF Public
<1> QED BY <1>1, <1>2, <1>3, <1>4, <1>5

\* ... and try this as often as the allowance goes ...
LEMMA PublicWrites ==
  /\ \A call, s : s # "" => RouteOK(Public(call, "write", <<Body, Meter(s)>>))
  /\ \A call, s : s # "" => RouteOK(Public(call, "write", <<SameOrigin, Body, Meter(s)>>))
  /\ \A call, s : s # "" => RouteOK(Public(call, "write", <<Meter(s)>>))
  /\ \A call, s : s # "" => RouteOK(Public(call, "write", <<Meter(s), Body, Proof>>))
<1>1. ASSUME NEW call, NEW s, s # ""
      PROVE  RouteOK(Public(call, "write", <<Body, Meter(s)>>))
  <2>1. Rules("anyone", "write", {Body, Meter(s)})
    BY <1>1, TheChecks, TheMeters DEF Rules, GuardFor
  <2> QED BY <2>1, ByItsRules, ShortLists DEF Public
<1>2. ASSUME NEW call, NEW s, s # ""
      PROVE  RouteOK(Public(call, "write", <<SameOrigin, Body, Meter(s)>>))
  <2>1. Rules("anyone", "write", {SameOrigin, Body, Meter(s)})
    BY <1>2, TheChecks, TheMeters DEF Rules, GuardFor
  <2> QED BY <2>1, ByItsRules, ShortLists DEF Public
<1>3. ASSUME NEW call, NEW s, s # ""
      PROVE  RouteOK(Public(call, "write", <<Meter(s)>>))
  <2>1. Rules("anyone", "write", {Meter(s)})
    BY <1>3, TheChecks, TheMeters DEF Rules, GuardFor
  <2> QED BY <2>1, ByItsRules, ShortLists DEF Public
<1>4. ASSUME NEW call, NEW s, s # ""
      PROVE  RouteOK(Public(call, "write", <<Meter(s), Body, Proof>>))
  <2>1. Rules("anyone", "write", {Meter(s), Body, Proof})
    BY <1>4, TheChecks, TheMeters DEF Rules, GuardFor
  <2> QED BY <2>1, ByItsRules, ShortLists DEF Public
<1> QED BY <1>1, <1>2, <1>3, <1>4

\* ... or this once.
LEMMA PublicOnce ==
  \A call : RouteOK(Public(call, "once", <<SameOrigin, Body>>))
<1>1. ASSUME NEW call
      PROVE  RouteOK(Public(call, "once", <<SameOrigin, Body>>))
  <2>1. Rules("anyone", "once", {SameOrigin, Body})
    BY TheChecks DEF Rules, GuardFor
  <2> QED BY <2>1, ByItsRules, ShortLists DEF Public
<1> QED BY <1>1

\* All the routes.
LEMMA TheRoutes == \A r \in Routes : RouteOK(r)
<1>1. /\ RouteOK(GET_admin_logs)
       /\ RouteOK(GET_admin_missions)
       /\ RouteOK(GET_admin_network_nodes)
       /\ RouteOK(GET_admin_network_nodes_id)
       /\ RouteOK(GET_admin_observatories)
       /\ RouteOK(GET_admin_observatories_id_safetyenvelope)
  BY AdminReads DEF GET_admin_logs, GET_admin_missions, GET_admin_network_nodes,
     GET_admin_network_nodes_id, GET_admin_observatories,
     GET_admin_observatories_id_safetyenvelope
<1>2. /\ RouteOK(GET_admin_observatories_id_state)
  BY AdminReads DEF GET_admin_observatories_id_state
<1>3. /\ RouteOK(POST_admin_loyalty_adjustments)
       /\ RouteOK(POST_admin_network_nodes_id_approve)
       /\ RouteOK(POST_admin_network_nodes_id_devicetoken)
       /\ RouteOK(POST_admin_network_nodes_id_devicetoken_rotate)
       /\ RouteOK(POST_admin_observatories_id_mode)
       /\ RouteOK(PUT_admin_observatories_id_safetyenvelope)
  BY AdminWrites DEF POST_admin_loyalty_adjustments, POST_admin_network_nodes_id_approve,
     POST_admin_network_nodes_id_devicetoken, POST_admin_network_nodes_id_devicetoken_rotate,
     POST_admin_observatories_id_mode, PUT_admin_observatories_id_safetyenvelope
<1>4. /\ RouteOK(POST_admin_observatories_id_testmission)
       /\ RouteOK(PATCH_admin_targets_id)
  BY AdminWrites DEF POST_admin_observatories_id_testmission, PATCH_admin_targets_id
<1>5. /\ RouteOK(POST_admin_missions_id_cancel)
       /\ RouteOK(POST_admin_network_nodes_id_devicetoken_revoke)
       /\ RouteOK(POST_admin_network_nodes_id_suspend)
  BY AdminStops DEF POST_admin_missions_id_cancel,
     POST_admin_network_nodes_id_devicetoken_revoke, POST_admin_network_nodes_id_suspend
<1>6. /\ RouteOK(POST_admin_observatories_id_weatherhold)
       /\ RouteOK(POST_admin_override)
  BY AdminEither DEF POST_admin_observatories_id_weatherhold, POST_admin_override
<1>7. /\ RouteOK(GET_bookings)
       /\ RouteOK(GET_bookings_id)
       /\ RouteOK(GET_captures)
       /\ RouteOK(GET_captures_id)
       /\ RouteOK(GET_captures_id_download)
       /\ RouteOK(GET_carddraws_current)
  BY CustomerReads DEF GET_bookings, GET_bookings_id, GET_captures, GET_captures_id,
     GET_captures_id_download, GET_carddraws_current
<1>8. /\ RouteOK(GET_loyalty)
       /\ RouteOK(GET_me)
       /\ RouteOK(GET_missions)
       /\ RouteOK(GET_missions_id)
       /\ RouteOK(GET_missions_id_events)
       /\ RouteOK(GET_missions_id_observers)
  BY CustomerReads DEF GET_loyalty, GET_me, GET_missions, GET_missions_id,
     GET_missions_id_events, GET_missions_id_observers
<1>9. /\ RouteOK(GET_missions_id_targets)
       /\ RouteOK(GET_missions_id_watch)
       /\ RouteOK(GET_network_nodes)
       /\ RouteOK(GET_payments_id_checkout)
       /\ RouteOK(GET_payments_id_sandboxcheckout)
       /\ RouteOK(GET_prizes)
  BY CustomerReads DEF GET_missions_id_targets, GET_missions_id_watch, GET_network_nodes,
     GET_payments_id_checkout, GET_payments_id_sandboxcheckout, GET_prizes
<1>10. /\ RouteOK(GET_subscription)
       /\ RouteOK(GET_vouchers)
       /\ RouteOK(GET_waitlist)
  BY CustomerReads DEF GET_subscription, GET_vouchers, GET_waitlist
<1>11. /\ RouteOK(POST_bookings)
       /\ RouteOK(POST_bookings_id_cancel)
       /\ RouteOK(POST_bookings_id_refund)
       /\ RouteOK(POST_bookings_id_reschedule)
       /\ RouteOK(PATCH_captures_id)
       /\ RouteOK(PATCH_me)
  BY CustomerWrites DEF POST_bookings, POST_bookings_id_cancel, POST_bookings_id_refund,
     POST_bookings_id_reschedule, PATCH_captures_id, PATCH_me
<1>12. /\ RouteOK(DELETE_me)
       /\ RouteOK(POST_me_email)
       /\ RouteOK(POST_me_password)
       /\ RouteOK(PATCH_missions_id_broadcast)
       /\ RouteOK(POST_missions_id_command)
       /\ RouteOK(PATCH_missions_id_observation)
  BY CustomerWrites DEF DELETE_me, POST_me_email, POST_me_password,
     PATCH_missions_id_broadcast, POST_missions_id_command, PATCH_missions_id_observation
<1>13. /\ RouteOK(POST_missions_id_observerpack)
       /\ RouteOK(POST_missions_id_observers)
       /\ RouteOK(DELETE_missions_id_observers)
       /\ RouteOK(POST_missions_id_start)
       /\ RouteOK(POST_network_nodes)
       /\ RouteOK(POST_network_nodes_id_submit)
  BY CustomerWrites DEF POST_missions_id_observerpack, POST_missions_id_observers,
     DELETE_missions_id_observers, POST_missions_id_start, POST_network_nodes,
     POST_network_nodes_id_submit
<1>14. /\ RouteOK(POST_payments_id_sandboxcheckout)
       /\ RouteOK(POST_subscription)
       /\ RouteOK(POST_subscription_cancel)
       /\ RouteOK(POST_subscription_pause)
       /\ RouteOK(POST_subscription_resume)
       /\ RouteOK(POST_vouchers)
  BY CustomerWrites DEF POST_payments_id_sandboxcheckout, POST_subscription,
     POST_subscription_cancel, POST_subscription_pause, POST_subscription_resume, POST_vouchers
<1>15. /\ RouteOK(POST_waitlist)
       /\ RouteOK(DELETE_waitlist_id)
  BY CustomerWrites DEF POST_waitlist, DELETE_waitlist_id
<1>16. /\ RouteOK(POST_auth_signout)
       /\ RouteOK(POST_carddraws_id_pick)
       /\ RouteOK(POST_votes)
  BY CustomerOnce DEF POST_auth_signout, POST_carddraws_id_pick, POST_votes
<1>17. /\ RouteOK(GET_auth_google_callback)
       /\ RouteOK(GET_auth_google_start)
       /\ RouteOK(GET_carddraws_odds)
       /\ RouteOK(GET_gallery_id)
       /\ RouteOK(GET_health)
       /\ RouteOK(GET_loyalty_scheme)
  BY PublicReads DEF GET_auth_google_callback, GET_auth_google_start, GET_carddraws_odds,
     GET_gallery_id, GET_health, GET_loyalty_scheme
<1>18. /\ RouteOK(GET_observatories)
       /\ RouteOK(GET_observatories_id_conditions)
       /\ RouteOK(GET_observatories_id_horizon)
       /\ RouteOK(GET_observatories_id_state)
       /\ RouteOK(GET_observatories_id_uptime)
       /\ RouteOK(GET_slots)
  BY PublicReads DEF GET_observatories, GET_observatories_id_conditions,
     GET_observatories_id_horizon, GET_observatories_id_state, GET_observatories_id_uptime,
     GET_slots
<1>19. /\ RouteOK(GET_subscription_plans)
       /\ RouteOK(GET_targets)
       /\ RouteOK(GET_targets_id)
       /\ RouteOK(GET_targets_tonight)
       /\ RouteOK(GET_targets_visibility)
       /\ RouteOK(GET_tonight)
  BY PublicReads DEF GET_subscription_plans, GET_targets, GET_targets_id, GET_targets_tonight,
     GET_targets_visibility, GET_tonight
<1>20. /\ RouteOK(GET_votes)
  BY PublicReads DEF GET_votes
<1>21. /\ RouteOK(POST_auth_nativesignin)
       /\ RouteOK(POST_auth_passwordreset)
       /\ RouteOK(POST_auth_register)
       /\ RouteOK(POST_auth_signin)
       /\ RouteOK(POST_payments_bog_callback)
       /\ RouteOK(POST_payments_webhook)
  BY PublicWrites DEF POST_auth_nativesignin, POST_auth_passwordreset, POST_auth_register,
     POST_auth_signin, POST_payments_bog_callback, POST_payments_webhook
<1>22. /\ RouteOK(POST_auth_passwordreset_confirm)
       /\ RouteOK(POST_auth_verifyemail)
  BY PublicOnce DEF POST_auth_passwordreset_confirm, POST_auth_verifyemail
<1> QED BY <1>1, <1>2, <1>3, <1>4, <1>5, <1>6, <1>7, <1>8, <1>9, <1>10, <1>11, <1>12, <1>13,
   <1>14, <1>15, <1>16, <1>17, <1>18, <1>19, <1>20, <1>21, <1>22 DEF Routes

\* Requests, and the allowances a desk may spend.
Requests == [route : Routes, cookie : BOOLEAN, bearer : {"none", "good", "bad"}, site : BOOLEAN,
             operator : BOOLEAN, fine : BOOLEAN, stop : BOOLEAN, code : BOOLEAN, proof : BOOLEAN]
AllScopes == UNION {Scopes(r) : r \in desk}

\* A request is to one of the routes, and a stop only where there is one.
DoorShape ==
  /\ desk \subseteq Routes
  /\ request \in Requests /\ request.route \in desk
  /\ request.stop => request.route.effect \in {"stop", "either"}
  /\ step \in 0..Len(request.route.checks)
  /\ answer \in {"none", "REFUSED", "RATE_LIMITED", "CALLED"}
  /\ spent \in [AllScopes -> 0..Allowance]
  /\ served \in [desk -> Nat]

\* A check that was made was spent or passed, and all were before the call.
ChecksMade ==
  /\ answer \in {"none", "CALLED"} =>
       \A i \in 1..step : LET c == request.route.checks[i] IN Meters(request, c) \/ Clears(request, c)
  /\ answer = "CALLED" => step = Len(request.route.checks)

\* A request that has spent what its route's i-th check asks and is not
\* answered.
OnItsWay(r, i) == answer = "none" /\ request.route = r /\ ~request.stop /\ i <= step

\* Nothing was served, or is on its way past an allowance, without having
\* spent it, whichever other routes spend it too.
SpentFirst ==
  \A r \in desk : \A i \in DOMAIN r.checks :
    r.effect \in {"write", "either"} /\ IsAllowance(r.checks[i]) =>
      /\ served[r] <= spent[r.checks[i].scope]
      /\ OnItsWay(r, i) => served[r] + 1 <= spent[r.checks[i].scope]

\* The inductive invariant.
DoorInv == DoorShape /\ ChecksMade /\ SpentFirst /\ StopsGetThrough

\* What the rules say of a route on the desk.
LEMMA DeskRoute ==
  ASSUME desk \subseteq Routes, NEW r \in desk
  PROVE  /\ Len(r.checks) \in Nat /\ DOMAIN r.checks = 1..Len(r.checks)
         /\ \A i \in DOMAIN r.checks : IsCheck(r.checks[i])
         /\ r.for # "anyone" => \E i \in DOMAIN r.checks : r.checks[i].do = GuardFor(r.for, r.effect)
         /\ r.effect \in {"write", "either"} => \E i \in DOMAIN r.checks : IsAllowance(r.checks[i])
         /\ r.effect \in {"stop", "either"} => r.for = "operators" /\ \A i \in DOMAIN r.checks : MeetsStops(r.checks[i])
<1>1. RouteOK(r)
  BY TheRoutes
<1>2. Rules(r.for, r.effect, ChecksIn(r.checks))
  BY <1>1 DEF RouteOK
<1>3. \A i \in DOMAIN r.checks : r.checks[i] \in ChecksIn(r.checks)
  BY DEF ChecksIn
<1>4. \A c \in ChecksIn(r.checks) : \E i \in DOMAIN r.checks : c = r.checks[i]
  BY DEF ChecksIn
<1>5. Len(r.checks) \in Nat /\ DOMAIN r.checks = 1..Len(r.checks)
  BY <1>1 DEF RouteOK
<1>6. \A i \in DOMAIN r.checks : IsCheck(r.checks[i])
  BY <1>2, <1>3 DEF Rules
<1>7. r.for # "anyone" => \E i \in DOMAIN r.checks : r.checks[i].do = GuardFor(r.for, r.effect)
  BY <1>2, <1>4 DEF Rules
<1>8. r.effect \in {"write", "either"} => \E i \in DOMAIN r.checks : IsAllowance(r.checks[i])
  BY <1>2, <1>4 DEF Rules
<1>9. r.effect \in {"stop", "either"} => r.for = "operators" /\ \A i \in DOMAIN r.checks : MeetsStops(r.checks[i])
  BY <1>2, <1>3 DEF Rules
<1> QED BY <1>5, <1>6, <1>7, <1>8, <1>9

\* A scope of a route on the desk is counted.
LEMMA DeskScope ==
  ASSUME desk \subseteq Routes, NEW r \in desk, NEW i \in DOMAIN r.checks,
         r.checks[i].do \in {"meter", "meterCode", "meterUnlessStop"}
  PROVE  r.checks[i].scope \in AllScopes
<1>1. IsCheck(r.checks[i])
  BY DeskRoute
<1>2. r.checks[i].scope # ""
  BY <1>1 DEF IsCheck
<1>3. r.checks[i].scope \in Scopes(r)
  BY <1>2 DEF Scopes
<1> QED BY <1>3 DEF AllScopes

\* Nobody asked yet.
LEMMA DoorStart == DoorInit => DoorInv
<1> SUFFICES ASSUME DoorInit PROVE DoorInv
  OBVIOUS
<1>1. PICK r0 \in Routes : desk = Family(r0)
  BY DEF DoorInit
<1>2. desk \subseteq Routes /\ r0 \in desk
  BY <1>1 DEF Family
<1>3. PICK r \in desk : r = CHOOSE x \in desk : TRUE
  BY <1>2
<1>4. request = [route |-> r, cookie |-> FALSE, bearer |-> "none", site |-> FALSE,
                 operator |-> FALSE, fine |-> FALSE, stop |-> FALSE, code |-> FALSE, proof |-> FALSE]
  BY <1>3 DEF DoorInit
<1>5. request.route = r /\ request.stop = FALSE
  BY <1>4
<1>6. request \in Requests
  BY <1>2, <1>4 DEF Requests
<1>7. /\ step = 0 /\ answer = "REFUSED"
      /\ spent = [s \in AllScopes |-> 0] /\ served = [q \in desk |-> 0]
  BY DEF DoorInit, AllScopes
<1>8. 0 \in 0..Allowance
  BY FrontDoorAssumption
<1>9. DoorShape
  <2>1. Len(r.checks) \in Nat
    BY <1>2, DeskRoute
  <2> QED BY <1>2, <1>5, <1>6, <1>7, <1>8, <2>1 DEF DoorShape
<1>10. SpentFirst
  <2> SUFFICES ASSUME NEW q \in desk, NEW i \in DOMAIN q.checks, IsAllowance(q.checks[i])
               PROVE  served[q] <= spent[q.checks[i].scope] /\ ~OnItsWay(q, i)
    BY DEF SpentFirst
  <2>1. q.checks[i].scope \in AllScopes
    BY <1>2, DeskScope DEF IsAllowance
  <2> QED BY <1>7, <2>1 DEF OnItsWay
<1>11. ChecksMade /\ StopsGetThrough
  BY <1>5, <1>7 DEF ChecksMade, StopsGetThrough
<1> QED BY <1>9, <1>10, <1>11 DEF DoorInv

\* A request arrives: nothing of it has been checked.
LEMMA ArriveStep ==
  ASSUME DoorInv, NEW r \in desk, Arrive(r)
  PROVE  DoorInv'
<1>0. DoorShape /\ SpentFirst
  BY DEF DoorInv
<1>1. step' = 0 /\ answer' = "none" /\ UNCHANGED <<desk, spent, served>>
  BY DEF Arrive
<1>2. PICK cookie \in BOOLEAN, site \in BOOLEAN, operator \in BOOLEAN, fine \in BOOLEAN,
           bearer \in {"none", "good", "bad"}, st \in Choice(r.effect = "either"),
           code \in Choice(Asks(r, "meterCode")), proof \in Choice(Asks(r, "proof")) :
        request' = [route |-> r, cookie |-> cookie, bearer |-> bearer, site |-> site, operator |-> operator,
                    fine |-> fine, stop |-> st \/ r.effect = "stop", code |-> code, proof |-> proof]
  BY DEF Arrive
<1>3. code \in BOOLEAN /\ proof \in BOOLEAN /\ st \in BOOLEAN /\ (st => r.effect = "either")
  BY Zenon DEF Choice
<1>4. PICK stops \in BOOLEAN : stops = (st \/ r.effect = "stop")
  OBVIOUS
<1>5. request' = [route |-> r, cookie |-> cookie, bearer |-> bearer, site |-> site, operator |-> operator,
                  fine |-> fine, stop |-> stops, code |-> code, proof |-> proof]
  BY <1>2, <1>4
<1>6. desk \subseteq Routes
  BY <1>0 DEF DoorShape
<1>7. request' \in Requests /\ request'.route = r /\ request'.stop = stops
  BY <1>3, <1>5, <1>6 DEF Requests
<1>8. request'.stop => r.effect \in {"stop", "either"}
  BY <1>3, <1>4, <1>7
<1>9. DoorShape'
  <2>1. Len(r.checks) \in Nat
    BY <1>6, DeskRoute
  <2> QED BY <1>0, <1>1, <1>7, <1>8, <2>1 DEF DoorShape, AllScopes
<1>10. ChecksMade' /\ StopsGetThrough'
  BY <1>1 DEF ChecksMade, StopsGetThrough
<1>11. SpentFirst'
  <2> SUFFICES ASSUME NEW q \in desk, NEW i \in DOMAIN q.checks, q.effect \in {"write", "either"}, IsAllowance(q.checks[i])
               PROVE  served[q] <= spent[q.checks[i].scope] /\ ~OnItsWay(q, i)'
    BY <1>1 DEF SpentFirst
  <2>1. DOMAIN q.checks = 1..Len(q.checks) /\ Len(q.checks) \in Nat
    BY <1>6, DeskRoute
  <2>2. ~(i <= 0)
    BY <2>1
  <2> QED BY <1>0, <1>1, <2>2 DEF SpentFirst, OnItsWay
<1> QED BY <1>9, <1>10, <1>11 DEF DoorInv

\* A check that a stop meets refuses it only when it is not rightful or not
\* well formed, and spends nothing of it.
LEMMA StopMeets ==
  ASSUME NEW q \in Requests, NEW c, MeetsStops(c), q.stop,
         q.route.for = "operators", q.route.effect \in {"stop", "either"}
  PROVE  ~Meters(q, c) /\ (~Clears(q, c) => ~Rightful(q) \/ ~q.fine)
<1>1. c.do \in {"requireOperatorMutation", "path", "body", "meterUnlessStop"}
  BY DEF MeetsStops
<1>2. ~Meters(q, c)
  BY <1>1 DEF Meters
<1>3. CASE c.do = "requireOperatorMutation"
  <2>1. Clears(q, c) <=> (Mutates(q) /\ IsOperator(q))
    BY <1>3 DEF Clears
  <2>2. Rightful(q) => Mutates(q) /\ IsOperator(q)
    BY DEF Rightful, Mutates, Authenticated, FromTheSite, IsOperator
  <2> QED BY <1>2, <2>1, <2>2
<1>4. CASE c.do \in {"path", "body"}
  BY <1>2, <1>4 DEF Clears
<1>5. CASE c.do = "meterUnlessStop"
  BY <1>2, <1>5 DEF Clears
<1> QED BY <1>1, <1>3, <1>4, <1>5

\* One check of one request.
LEMMA CheckStep ==
  ASSUME DoorInv, MakeCheck
  PROVE  DoorInv'
<1> DEFINE c == request.route.checks[step + 1]
<1>0. DoorShape /\ SpentFirst /\ ChecksMade
  BY DEF DoorInv
<1>1. answer = "none" /\ step < Len(request.route.checks) /\ UNCHANGED <<desk, request, served>>
  BY DEF MakeCheck
<1>2. PICK r \in desk : r = request.route
  BY <1>0 DEF DoorShape
<1>3. /\ desk \subseteq Routes /\ request \in Requests /\ Allowance \in Nat
      /\ (request.stop => r.effect \in {"stop", "either"})
      /\ spent \in [AllScopes -> 0..Allowance] /\ served \in [desk -> Nat]
  BY <1>0, <1>2, FrontDoorAssumption DEF DoorShape
<1>4. /\ Len(r.checks) \in Nat /\ DOMAIN r.checks = 1..Len(r.checks)
      /\ step \in Nat /\ step < Len(r.checks) /\ step + 1 \in DOMAIN r.checks /\ step + 1 \in 0..Len(r.checks)
      /\ step \in 0..Len(r.checks) /\ c = r.checks[step + 1]
  <2>1. Len(r.checks) \in Nat /\ DOMAIN r.checks = 1..Len(r.checks)
    BY <1>3, DeskRoute
  <2> QED BY <1>0, <1>1, <1>2, <2>1 DEF DoorShape
<1>5. IsCheck(c)
  BY <1>3, <1>4, DeskRoute
<1>6. request.stop => ~Meters(request, c) /\ (~Clears(request, c) => ~Rightful(request) \/ ~request.fine)
  <2> SUFFICES ASSUME request.stop PROVE ~Meters(request, c) /\ (~Clears(request, c) => ~Rightful(request) \/ ~request.fine)
    OBVIOUS
  <2>1. r.for = "operators" /\ MeetsStops(c)
    BY <1>3, <1>4, DeskRoute
  <2> QED BY <1>2, <1>3, <2>1, StopMeets
<1>7. \A q \in desk : \A i \in DOMAIN q.checks :
        q.effect \in {"write", "either"} /\ IsAllowance(q.checks[i]) =>
          /\ q.checks[i].scope \in AllScopes
          /\ served[q] <= spent[q.checks[i].scope]
          /\ OnItsWay(q, i) => served[q] + 1 <= spent[q.checks[i].scope]
  BY <1>0, <1>3, DeskScope DEF SpentFirst, IsAllowance
<1> HIDE DEF c
<1>8. CASE Meters(request, c) /\ spent[c.scope] < Allowance
  <2>1. spent' = [spent EXCEPT ![c.scope] = @ + 1] /\ step' = step + 1 /\ answer' = answer
    BY <1>8 DEF MakeCheck, c
  <2>2. ~request.stop
    BY <1>6, <1>8
  <2>3. c.scope \in AllScopes
    BY <1>3, <1>4, <1>8, DeskScope DEF Meters
  <2>4. spent' \in [AllScopes -> 0..Allowance]
    <3>1. spent[c.scope] + 1 \in 0..Allowance
      BY <1>3, <1>8, <2>3
    <3> QED BY <1>3, <2>1, <3>1
  <2>5. /\ \A s \in AllScopes : spent[s] \in Nat /\ spent'[s] \in Nat /\ spent'[s] >= spent[s]
        /\ spent'[c.scope] = spent[c.scope] + 1
    BY <1>3, <2>1, <2>3
  <2>6. DoorShape'
    BY <1>0, <1>1, <1>2, <1>4, <2>1, <2>4 DEF DoorShape, AllScopes
  <2>7. ChecksMade'
    <3>1. \A i \in 1..(step + 1) : i \in 1..step \/ i = step + 1
      BY <1>4
    <3> QED BY <1>0, <1>1, <1>2, <1>4, <1>8, <2>1, <3>1 DEF ChecksMade
  <2>8. SpentFirst'
    <3> SUFFICES ASSUME NEW q \in desk, NEW i \in DOMAIN q.checks, q.effect \in {"write", "either"}, IsAllowance(q.checks[i])
                 PROVE  /\ served[q] <= spent'[q.checks[i].scope]
                        /\ OnItsWay(q, i)' => served[q] + 1 <= spent'[q.checks[i].scope]
      BY <1>1 DEF SpentFirst
    <3>1. PICK s \in AllScopes : s = q.checks[i].scope
      BY <1>7
    <3>2. served[q] \in Nat /\ served[q] <= spent[s] /\ (OnItsWay(q, i) => served[q] + 1 <= spent[s])
      BY <1>3, <1>7, <3>1
    <3>3. served[q] <= spent'[s]
      BY <2>5, <3>1, <3>2
    <3>4. ASSUME OnItsWay(q, i)' PROVE served[q] + 1 <= spent'[s]
      <4>1. request.route = q /\ q = r /\ i <= step + 1 /\ i \in Nat
        BY <1>1, <1>2, <1>4, <2>1, <3>4 DEF OnItsWay
      <4>2. CASE i <= step
        <5>1. OnItsWay(q, i)
          BY <1>1, <2>2, <4>1, <4>2 DEF OnItsWay
        <5> QED BY <2>5, <3>1, <3>2, <5>1
      <4>3. CASE ~(i <= step)
        <5>1. i = step + 1
          BY <1>4, <4>1, <4>3
        <5>2. s = c.scope
          BY <1>4, <3>1, <4>1, <5>1
        <5> QED BY <2>5, <3>1, <3>2, <5>2
      <4> QED BY <4>2, <4>3
    <3> QED BY <3>1, <3>3, <3>4
  <2>9. StopsGetThrough'
    BY <1>1, <2>1 DEF StopsGetThrough
  <2> QED BY <2>6, <2>7, <2>8, <2>9 DEF DoorInv
<1>9. CASE Meters(request, c) /\ ~(spent[c.scope] < Allowance)
  <2>1. answer' = "RATE_LIMITED" /\ UNCHANGED <<spent, step>>
    BY <1>9 DEF MakeCheck, c
  <2>2. ~request.stop
    BY <1>6, <1>9
  <2>3. DoorShape'
    BY <1>0, <1>1, <2>1 DEF DoorShape, AllScopes
  <2>4. SpentFirst'
    BY <1>0, <1>1, <2>1 DEF SpentFirst, OnItsWay
  <2>5. ChecksMade' /\ StopsGetThrough'
    BY <1>1, <2>1, <2>2 DEF ChecksMade, StopsGetThrough
  <2> QED BY <2>3, <2>4, <2>5 DEF DoorInv
<1>10. CASE ~Meters(request, c) /\ Clears(request, c)
  <2>1. step' = step + 1 /\ UNCHANGED <<spent, answer>>
    BY <1>10 DEF MakeCheck, c
  <2>2. DoorShape'
    BY <1>0, <1>1, <1>2, <1>4, <2>1 DEF DoorShape, AllScopes
  <2>3. ChecksMade'
    <3>1. \A i \in 1..(step + 1) : i \in 1..step \/ i = step + 1
      BY <1>4
    <3> QED BY <1>0, <1>1, <1>2, <1>4, <1>10, <2>1, <3>1 DEF ChecksMade
  <2>4. SpentFirst'
    <3> SUFFICES ASSUME NEW q \in desk, NEW i \in DOMAIN q.checks, q.effect \in {"write", "either"}, IsAllowance(q.checks[i])
                 PROVE  /\ served[q] <= spent[q.checks[i].scope]
                        /\ OnItsWay(q, i)' => served[q] + 1 <= spent[q.checks[i].scope]
      BY <1>1, <2>1 DEF SpentFirst
    <3>1. ASSUME OnItsWay(q, i)' PROVE OnItsWay(q, i)
      <4>1. request.route = q /\ q = r /\ i <= step + 1 /\ i \in Nat /\ ~request.stop
        BY <1>1, <1>2, <1>4, <2>1, <3>1 DEF OnItsWay
      <4>2. i # step + 1
        BY <1>4, <1>10, <4>1 DEF IsAllowance, Meters
      <4> QED BY <1>1, <1>4, <4>1, <4>2 DEF OnItsWay
    <3> QED BY <1>7, <3>1
  <2>5. StopsGetThrough'
    BY <1>1, <2>1 DEF StopsGetThrough
  <2> QED BY <2>2, <2>3, <2>4, <2>5 DEF DoorInv
<1>11. CASE ~Meters(request, c) /\ ~Clears(request, c)
  <2>1. answer' = "REFUSED" /\ UNCHANGED <<spent, step>>
    BY <1>11 DEF MakeCheck, c
  <2>2. DoorShape'
    BY <1>0, <1>1, <2>1 DEF DoorShape, AllScopes
  <2>3. SpentFirst'
    BY <1>0, <1>1, <2>1 DEF SpentFirst, OnItsWay
  <2>4. ChecksMade'
    BY <1>1, <2>1 DEF ChecksMade
  <2>5. StopsGetThrough'
    BY <1>1, <1>6, <1>11, <2>1 DEF StopsGetThrough, Rightful
  <2> QED BY <2>2, <2>3, <2>4, <2>5 DEF DoorInv
<1> QED BY <1>8, <1>9, <1>10, <1>11

\* A request is made.
LEMMA CallStep ==
  ASSUME DoorInv, Call
  PROVE  DoorInv'
<1>0. DoorShape /\ SpentFirst /\ ChecksMade
  BY DEF DoorInv
<1>1. /\ answer = "none" /\ step = Len(request.route.checks) /\ answer' = "CALLED"
      /\ UNCHANGED <<desk, request, step, spent>>
  BY DEF Call
<1>2. PICK r \in desk : r = request.route
  BY <1>0 DEF DoorShape
<1>3. desk \subseteq Routes /\ served \in [desk -> Nat]
  BY <1>0 DEF DoorShape
<1>4. \/ served' = served
      \/ ~request.stop /\ served' = [served EXCEPT ![r] = @ + 1]
  BY <1>2 DEF Call
<1>5. served' \in [desk -> Nat]
  BY <1>2, <1>3, <1>4
<1>6. DoorShape'
  BY <1>0, <1>1, <1>5 DEF DoorShape, AllScopes
<1>7. SpentFirst'
  <2> SUFFICES ASSUME NEW q \in desk, NEW i \in DOMAIN q.checks, q.effect \in {"write", "either"}, IsAllowance(q.checks[i])
               PROVE  served'[q] <= spent[q.checks[i].scope] /\ ~OnItsWay(q, i)'
    BY <1>1 DEF SpentFirst
  <2>1. ~OnItsWay(q, i)'
    BY <1>1 DEF OnItsWay
  <2>2. served[q] <= spent[q.checks[i].scope] /\ (OnItsWay(q, i) => served[q] + 1 <= spent[q.checks[i].scope])
    BY <1>0 DEF SpentFirst
  <2>3. CASE served'[q] = served[q]
    BY <2>1, <2>2, <2>3
  <2>4. CASE served'[q] # served[q]
    <3>1. q = r /\ ~request.stop /\ served'[q] = served[q] + 1
      BY <1>3, <1>4, <2>4
    <3>2. i <= step
      <4>1. DOMAIN r.checks = 1..Len(r.checks) /\ Len(r.checks) \in Nat
        BY <1>3, DeskRoute
      <4> QED BY <1>1, <1>2, <3>1, <4>1
    <3>3. OnItsWay(q, i)
      BY <1>1, <1>2, <3>1, <3>2 DEF OnItsWay
    <3> QED BY <2>1, <2>2, <3>1, <3>3
  <2> QED BY <2>3, <2>4
<1>8. ChecksMade' /\ StopsGetThrough'
  BY <1>0, <1>1 DEF ChecksMade, StopsGetThrough
<1> QED BY <1>6, <1>7, <1>8 DEF DoorInv

\* Every step keeps it.
LEMMA DoorStep == DoorInv /\ [DoorNext]_doorVars => DoorInv'
<1> SUFFICES ASSUME DoorInv, [DoorNext]_doorVars PROVE DoorInv'
  OBVIOUS
<1>1. CASE UNCHANGED doorVars
  BY <1>1 DEF doorVars, DoorInv, DoorShape, AllScopes, ChecksMade, SpentFirst, OnItsWay, StopsGetThrough
<1> QED BY <1>1, ArriveStep, CheckStep, CallStep DEF DoorNext

\* Whoever reached a call met the route's guard.
LEMMA CalledIsRightful ==
  ASSUME DoorInv, answer = "CALLED"
  PROVE  Rightful(request)
<1>0. DoorShape /\ ChecksMade
  BY DEF DoorInv
<1>1. PICK r \in desk : r = request.route
  BY <1>0 DEF DoorShape
<1>2. desk \subseteq Routes /\ request \in Requests
  BY <1>0 DEF DoorShape
<1>3. CASE r.for = "anyone"
  BY <1>1, <1>3 DEF Rightful
<1>4. CASE r.for # "anyone"
  <2>1. PICK i \in DOMAIN r.checks : r.checks[i].do = GuardFor(r.for, r.effect)
    BY <1>2, <1>4, DeskRoute
  <2>2. PICK c : c = r.checks[i]
    OBVIOUS
  <2>3. i \in 1..step
    <3>1. DOMAIN r.checks = 1..Len(r.checks)
      BY <1>2, DeskRoute
    <3> QED BY <1>0, <1>1, <3>1 DEF ChecksMade
  <2>4. Meters(request, c) \/ Clears(request, c)
    BY <1>0, <1>1, <2>2, <2>3 DEF ChecksMade
  <2>5. CASE r.for = "operators" /\ r.effect = "read"
    <3>1. c.do = "requireOperator"
      BY <2>1, <2>2, <2>5 DEF GuardFor
    <3>2. Authenticated(request) /\ IsOperator(request)
      BY <2>4, <3>1 DEF Meters, Clears
    <3> QED BY <1>1, <2>5, <3>2 DEF Rightful, Authenticated, IsOperator
  <2>6. CASE r.for = "operators" /\ r.effect # "read"
    <3>1. c.do = "requireOperatorMutation"
      BY <2>1, <2>2, <2>6 DEF GuardFor
    <3>2. Mutates(request) /\ IsOperator(request)
      BY <2>4, <3>1 DEF Meters, Clears
    <3> QED BY <1>1, <2>6, <3>2 DEF Rightful, Mutates, FromTheSite, Authenticated, IsOperator
  <2>7. CASE r.for # "operators" /\ r.effect = "read"
    <3>1. c.do = "requireApiSession"
      BY <2>1, <2>2, <2>7 DEF GuardFor
    <3>2. Authenticated(request)
      BY <2>4, <3>1 DEF Meters, Clears
    <3> QED BY <1>1, <2>7, <3>2 DEF Rightful, Authenticated
  <2>8. CASE r.for # "operators" /\ r.effect # "read"
    <3>1. c.do = "requireApiMutation"
      BY <2>1, <2>2, <2>8 DEF GuardFor
    <3>2. Mutates(request)
      BY <2>4, <3>1 DEF Meters, Clears
    <3> QED BY <1>1, <2>8, <3>2 DEF Rightful, Mutates, FromTheSite, Authenticated
  <2> QED BY <2>5, <2>6, <2>7, <2>8
<1> QED BY <1>3, <1>4

\* The invariant says what the door promises.
LEMMA DoorEnough == DoorInv => StopsGetThrough /\ ChangesAreRightful
<1> SUFFICES ASSUME DoorInv PROVE ChangesAreRightful
  BY DEF DoorInv
<1>1. ASSUME NEW r \in desk, r.effect \in {"write", "either"} PROVE served[r] <= Allowance
  <2>1. desk \subseteq Routes /\ spent \in [AllScopes -> 0..Allowance] /\ served \in [desk -> Nat] /\ Allowance \in Nat
    BY FrontDoorAssumption DEF DoorInv, DoorShape
  <2>2. PICK i \in DOMAIN r.checks : IsAllowance(r.checks[i])
    BY <1>1, <2>1, DeskRoute
  <2>3. PICK s \in AllScopes : s = r.checks[i].scope
    BY <2>1, <2>2, DeskScope DEF IsAllowance
  <2>4. served[r] <= spent[s]
    BY <1>1, <2>2, <2>3 DEF DoorInv, SpentFirst
  <2>5. served[r] \in Nat /\ spent[s] \in 0..Allowance
    BY <2>1, <2>3
  <2> QED BY ONLY <2>1, <2>4, <2>5
<1> QED BY <1>1, CalledIsRightful DEF ChangesAreRightful

\* A stop gets through, and what gets through was rightful (requireApiMutation,
\* meterRequest).
LEMMA DoorKeeps == DoorSpec => [](StopsGetThrough /\ ChangesAreRightful)
<1>1. DoorInit => DoorInv
  BY DoorStart
<1> QED BY <1>1, DoorStep, DoorEnough, PTL DEF DoorSpec

-----------------------------------------------------------------------------
(* The door and what is behind it.                                         *)

\* For any desks, missions, notices on their way and allowances: an operator's
\* stop is refused by no check of the routes, however many allowances are
\* spent, and a weather hold or a revoked credential reaches the telescope it
\* is for, whatever else the desks write meanwhile (metered-routes.test.ts,
\* setWeatherHold, revokeDeviceToken).
THEOREM StopsAlwaysCarriedOut == DoorSpec /\ ControlSpec => []StopsAreCarriedOut
<1>1. ControlTypeOK /\ StopsReachTheTelescope /\ StopsGetThrough /\ ChangesAreRightful => StopsAreCarriedOut
  BY DEF StopsAreCarriedOut
<1> QED BY <1>1, StopsArrive, DoorKeeps, PTL

\* For every route of the API, every allowance and every limit, window and
\* block: what gets behind the door was asked for by somebody it is for and
\* paid for by an allowance, no window of the clock lets through more than twice
\* the limit, and a blocked caller had no more than the limit (requireApiMutation, meterRequest, consumeRateLimit).
THEOREM DoorAlwaysHolds == DoorSpec /\ MeterSpec => []DoorHolds
<1>1. StopsGetThrough /\ ChangesAreRightful /\ WithinTheLimit => DoorHolds
  BY DEF DoorHolds
<1> QED BY <1>1, DoorKeeps, MeterKeeps, PTL

-----------------------------------------------------------------------------
(* A pointing.                                                             *)

\* What a question is made of.
Questions ==
  [maxAlt : Altitudes \cup {Unmeasured}, minAlt : Altitudes, alt : Altitudes \cup {NotANumber}, az : -1..Circle,
   site : BOOLEAN, separation : Int, exclusion : Nat \cup {NotANumber}, sunAlt : Int, lock : Int \cup {NotANumber},
   override : BOOLEAN, mask : Masks, sector : Sectors]

\* The way round from one bearing to another.
Turn(p, q) == IF q >= p THEN q - p ELSE q - p + Circle

\* A turn more or less is the same bearing.
LEMMA Wraps ==
  ASSUME NEW x \in Int
  PROVE  /\ 0 <= x /\ x < Circle => x % Circle = x
         /\ -Circle <= x /\ x < 0 => x % Circle = x + Circle
         /\ Circle <= x /\ x < 2 * Circle => x % Circle = x - Circle
         /\ -2 * Circle <= x /\ x < -Circle => x % Circle = x + 2 * Circle
<1>0. Circle \in Nat /\ Circle > 1
  BY PointingAssumption
<1>1. 0 <= x /\ x < Circle => x % Circle = x
  BY <1>0
<1>2. -Circle <= x /\ x < 0 => x % Circle = x + Circle
  BY <1>0
<1>3. Circle <= x /\ x < 2 * Circle => x % Circle = x - Circle
  BY <1>0
<1>4. -2 * Circle <= x /\ x < -Circle => x % Circle = x + 2 * Circle
  BY <1>0
<1> QED BY <1>1, <1>2, <1>3, <1>4

LEMMA Normal ==
  ASSUME NEW x \in -1..Circle
  PROVE  /\ NormaliseAzimuth(x) \in 0..(Circle - 1)
         /\ NormaliseAzimuth(x) = IF x = -1 THEN Circle - 1 ELSE IF x = Circle THEN 0 ELSE x
<1>0. Circle \in Nat /\ Circle > 1
  BY PointingAssumption
<1>1. NormaliseAzimuth(x) = x % Circle
  BY DEF NormaliseAzimuth
<1>2. CASE x = -1
  BY <1>0, <1>1, <1>2, Wraps
<1>3. CASE x = Circle
  BY <1>0, <1>1, <1>3, Wraps
<1>4. CASE x # -1 /\ x # Circle
  BY <1>0, <1>1, <1>4, Wraps
<1> QED BY <1>2, <1>3, <1>4

LEMMA AheadIsTurn ==
  ASSUME NEW x \in -1..Circle, NEW y \in -1..Circle
  PROVE  Ahead(x, y) = Turn(NormaliseAzimuth(x), NormaliseAzimuth(y))
<1>0. Circle \in Nat /\ Circle > 1
  BY PointingAssumption
<1>1. Ahead(x, y) = (y - x) % Circle /\ y - x \in Int
  BY <1>0 DEF Ahead
<1>2. PICK a \in Int : a = NormaliseAzimuth(x) /\ a = IF x = -1 THEN Circle - 1 ELSE IF x = Circle THEN 0 ELSE x
  BY <1>0, Normal
<1>3. PICK b \in Int : b = NormaliseAzimuth(y) /\ b = IF y = -1 THEN Circle - 1 ELSE IF y = Circle THEN 0 ELSE y
  BY <1>0, Normal
<1>4. PICK d \in Int : d = y - x
  BY <1>1
<1>5. /\ 0 <= d /\ d < Circle => d % Circle = d
      /\ -Circle <= d /\ d < 0 => d % Circle = d + Circle
      /\ Circle <= d /\ d < 2 * Circle => d % Circle = d - Circle
      /\ -2 * Circle <= d /\ d < -Circle => d % Circle = d + 2 * Circle
  BY Wraps
<1>6. PICK w : w = d % Circle
  OBVIOUS
<1>7. w = Turn(a, b)
  BY ONLY <1>0, <1>2, <1>3, <1>4, <1>5, <1>6, x \in -1..Circle, y \in -1..Circle DEF Turn
<1> QED BY <1>1, <1>2, <1>3, <1>4, <1>6, <1>7

\* A sector is an arc of the circle (azimuthInSector).
LEMMA SectorIsArc ==
  ASSUME NEW x \in -1..Circle, NEW sector \in Sectors
  PROVE  AzimuthInSector(x, sector) <=> Ahead(sector.from, x) < Ahead(sector.from, sector.to)
<1>0. Circle \in Nat /\ Circle > 1
  BY PointingAssumption
<1>1. sector.from \in -1..Circle /\ sector.to \in -1..Circle
  BY <1>0 DEF Sectors
<1>2. PICK z \in 0..(Circle - 1) : z = NormaliseAzimuth(x)
  BY Normal
<1>3. PICK a \in 0..(Circle - 1) : a = NormaliseAzimuth(sector.from)
  BY <1>1, Normal
<1>4. PICK b \in 0..(Circle - 1) : b = NormaliseAzimuth(sector.to)
  BY <1>1, Normal
<1>5. Ahead(sector.from, x) = Turn(a, z) /\ Ahead(sector.from, sector.to) = Turn(a, b)
  BY <1>1, <1>2, <1>3, <1>4, AheadIsTurn
<1>6. AzimuthInSector(x, sector) <=> (a < b /\ a <= z /\ z < b) \/ (a > b /\ (z >= a \/ z < b))
  BY <1>2, <1>3, <1>4 DEF AzimuthInSector
<1>7. Turn(a, z) < Turn(a, b) <=> (a < b /\ a <= z /\ z < b) \/ (a > b /\ (z >= a \/ z < b))
  BY <1>0 DEF Turn
<1> QED BY <1>5, <1>6, <1>7

\* A survey is a list of samples.
LEMMA MaskFacts ==
  ASSUME NEW mask \in Masks
  PROVE  /\ mask \in Seq(Samples) /\ Len(mask) \in Nat /\ DOMAIN mask = 1..Len(mask)
         /\ \A i \in 1..Len(mask) : mask[i] \in Samples /\ mask[i].az \in 0..(Circle - 1) /\ mask[i].alt \in Int
<1>0. MaxAltitude \in Nat /\ MaxSamples \in Nat
  BY PointingAssumption
<1>1. PICK n \in 0..MaxSamples : mask \in [1..n -> Samples]
  BY DEF Masks
<1>2. n \in Nat
  BY <1>0
<1>3. mask \in Seq(Samples) /\ Len(mask) = n /\ DOMAIN mask = 1..n
  <2> HIDE DEF Samples
  <2> QED BY <1>1, <1>2
<1>4. \A i \in 1..n : mask[i] \in Samples /\ mask[i].az \in 0..(Circle - 1) /\ mask[i].alt \in Int
  BY <1>0, <1>1 DEF Samples, Altitudes
<1> QED BY <1>2, <1>3, <1>4

\* The samples that come before one.
Earlier(mask, i) == {j \in DOMAIN mask : Before(mask, j, i)}

LEMMA Places ==
  ASSUME NEW mask \in Masks, NEW i \in DOMAIN mask
  PROVE  /\ Place(mask, i) \in 1..Len(mask)
         /\ \A j \in DOMAIN mask : Before(mask, i, j) => Place(mask, i) < Place(mask, j)
         /\ \A j \in DOMAIN mask : i # j => Before(mask, i, j) \/ Before(mask, j, i)
<1>1. Len(mask) \in Nat /\ DOMAIN mask = 1..Len(mask) /\ \A k \in DOMAIN mask : mask[k].az \in Int
  BY MaskFacts, PointingAssumption
<1>2. PICK n \in Nat : n = Len(mask)
  BY <1>1
<1>3. IsFiniteSet(1..n) /\ Cardinality(1..n) = n
  <2>1. 1 \in Int /\ n \in Int
    OBVIOUS
  <2>2. IsFiniteSet(1..n) /\ Cardinality(1..n) = IF 1 > n THEN 0 ELSE n - 1 + 1
    BY <2>1, FS_Interval
  <2> QED BY ONLY <2>2, n \in Nat
<1>4. ASSUME NEW k \in DOMAIN mask PROVE IsFiniteSet(Earlier(mask, k)) /\ Cardinality(Earlier(mask, k)) \in Nat
  <2>1. Earlier(mask, k) \in SUBSET (1..n)
    BY <1>1, <1>2 DEF Earlier
  <2>2. IsFiniteSet(Earlier(mask, k))
    BY <1>3, <2>1, FS_Subset
  <2> QED BY <2>2, FS_CardinalityType
<1>5. ASSUME NEW k \in DOMAIN mask PROVE Place(mask, k) = Cardinality(Earlier(mask, k)) + 1
  BY DEF Place, Earlier
<1>6. ASSUME NEW k \in DOMAIN mask PROVE ~Before(mask, k, k)
  BY <1>1 DEF Before
<1>7. ASSUME NEW k \in DOMAIN mask PROVE Cardinality(Earlier(mask, k) \cup {k}) = Cardinality(Earlier(mask, k)) + 1
                                         /\ IsFiniteSet(Earlier(mask, k) \cup {k})
  <2>1. k \notin Earlier(mask, k)
    BY <1>6 DEF Earlier
  <2> QED BY <1>4, <2>1, FS_AddElement
<1>8. Place(mask, i) \in 1..Len(mask)
  <2>1. Earlier(mask, i) \cup {i} \in SUBSET (1..n)
    BY <1>1, <1>2 DEF Earlier
  <2>2. Cardinality(Earlier(mask, i) \cup {i}) <= Cardinality(1..n)
    BY <1>3, <2>1, FS_Subset
  <2> QED BY <1>2, <1>3, <1>4, <1>5, <1>7, <2>2
<1>9. ASSUME NEW j \in DOMAIN mask, Before(mask, i, j) PROVE Place(mask, i) < Place(mask, j)
  <2>1. \A k \in DOMAIN mask : Before(mask, k, i) => Before(mask, k, j)
    BY <1>1, <1>9 DEF Before
  <2>2. Earlier(mask, i) \cup {i} \in SUBSET Earlier(mask, j)
    BY <1>9, <2>1 DEF Earlier
  <2>3. Cardinality(Earlier(mask, i) \cup {i}) <= Cardinality(Earlier(mask, j))
    BY <1>4, <2>2, FS_Subset
  <2> QED BY <1>4, <1>5, <1>7, <2>3
<1>10. ASSUME NEW j \in DOMAIN mask, i # j PROVE Before(mask, i, j) \/ Before(mask, j, i)
  BY <1>1, <1>10 DEF Before
<1> QED BY <1>8, <1>9, <1>10

\* The sorted samples are the samples, and in order of azimuth.
LEMMA SortedIsSorted ==
  ASSUME NEW mask \in Masks, Distinct(mask)
  PROVE  /\ DOMAIN Sorted(mask) = 1..Len(mask) /\ Len(Sorted(mask)) = Len(mask)
         /\ \A k \in 1..Len(mask) : \E i \in DOMAIN mask : Sorted(mask)[k] = mask[i]
         /\ \A i \in DOMAIN mask : \E k \in 1..Len(mask) : Sorted(mask)[k] = mask[i]
         /\ \A k, l \in 1..Len(mask) : k < l => Sorted(mask)[k].az < Sorted(mask)[l].az
<1>1. Len(mask) \in Nat /\ DOMAIN mask = 1..Len(mask) /\ \A i \in DOMAIN mask : mask[i] \in Samples /\ mask[i].az \in Int
  BY MaskFacts, PointingAssumption
<1>2. PICK n \in Nat : n = Len(mask)
  BY <1>1
<1> DEFINE f == [i \in 1..n |-> Place(mask, i)]
<1>3. f \in Injection(1..n, 1..n)
  <2>1. f \in [1..n -> 1..n]
    BY <1>1, <1>2, Places
  <2>2. ASSUME NEW i \in 1..n, NEW j \in 1..n, f[i] = f[j] PROVE i = j
    <3>1. i \in DOMAIN mask /\ j \in DOMAIN mask /\ Place(mask, i) = Place(mask, j) /\ Place(mask, i) \in Int
      BY <1>1, <1>2, <2>2, Places
    <3>2. Before(mask, i, j) => Place(mask, i) < Place(mask, j)
      BY <3>1, Places
    <3>3. Before(mask, j, i) => Place(mask, j) < Place(mask, i)
      BY <3>1, Places
    <3>4. i # j => Before(mask, i, j) \/ Before(mask, j, i)
      BY <3>1, Places
    <3> QED BY <3>1, <3>2, <3>3, <3>4
  <2> HIDE DEF f
  <2> QED BY <2>1, <2>2 DEF Injection, IsInjective
<1>4. f \in Surjection(1..n, 1..n)
  <2>1. 1 \in Int /\ n \in Int
    OBVIOUS
  <2>2. IsFiniteSet(1..n)
    BY <2>1, FS_Interval
  <2> HIDE DEF f
  <2> QED BY <1>3, <2>2, FS_Injection
<1> DEFINE at(k) == CHOOSE i \in DOMAIN mask : Place(mask, i) = k
<1>5. ASSUME NEW k \in 1..n PROVE at(k) \in DOMAIN mask /\ Place(mask, at(k)) = k
  <2>1. \E i \in DOMAIN mask : Place(mask, i) = k
    BY <1>1, <1>2, <1>4 DEF Surjection
  <2> QED BY <2>1
<1>6. Sorted(mask) = [k \in 1..n |-> mask[at(k)]]
  BY <1>1, <1>2 DEF Sorted
<1>7. DOMAIN Sorted(mask) = 1..n /\ Len(Sorted(mask)) = n
  <2>1. Sorted(mask) \in [1..n -> Samples]
    BY <1>1, <1>5, <1>6
  <2> HIDE DEF Samples
  <2> QED BY <2>1
<1>8. ASSUME NEW k \in 1..n PROVE Sorted(mask)[k] = mask[at(k)]
  BY <1>6
<1>9. ASSUME NEW i \in DOMAIN mask PROVE \E k \in 1..n : Sorted(mask)[k] = mask[i]
  <2>1. Place(mask, i) \in 1..n
    BY <1>2, Places
  <2>2. PICK k \in 1..n : k = Place(mask, i)
    BY <2>1
  <2>3. at(k) \in DOMAIN mask /\ Place(mask, at(k)) = k
    BY <1>5
  <2>4. at(k) = i
    BY <1>1, <1>2, <1>3, <2>2, <2>3 DEF Injection
  <2> QED BY <1>8, <2>4
<1>10. ASSUME NEW k \in 1..n, NEW l \in 1..n, k < l PROVE Sorted(mask)[k].az < Sorted(mask)[l].az
  <2>1. PICK i \in DOMAIN mask : i = at(k) /\ Place(mask, i) = k
    BY <1>5
  <2>2. PICK j \in DOMAIN mask : j = at(l) /\ Place(mask, j) = l
    BY <1>5
  <2>3. i # j
    BY <1>10, <2>1, <2>2
  <2>4. ~Before(mask, j, i)
    BY <1>10, <2>1, <2>2, Places
  <2>5. Before(mask, i, j)
    BY <2>3, <2>4, Places
  <2>6. mask[i].az < mask[j].az
    BY <2>3, <2>5 DEF Before, Distinct
  <2> QED BY <1>8, <2>1, <2>2, <2>6
<1> QED BY <1>2, <1>5, <1>7, <1>8, <1>9, <1>10

\* The surveyed horizon, when the nearest samples are known.
LEMMA NearestSamples ==
  ASSUME NEW mask \in Masks, Distinct(mask), NEW x \in -1..Circle, NEW z, z = NormaliseAzimuth(x),
         NEW back \in DOMAIN mask, NEW fore \in DOMAIN mask,
         \A j \in DOMAIN mask : Turn(mask[back].az, z) <= Turn(mask[j].az, z),
         \A j \in DOMAIN mask : Turn(z, mask[fore].az) <= Turn(z, mask[j].az)
  PROVE  Surveyed(x, mask) =
           IF Turn(mask[back].az, z) = 0 THEN Whole(mask[back].alt)
           ELSE Fraction(mask[back].alt * Turn(z, mask[fore].az) + mask[fore].alt * Turn(mask[back].az, z),
                         Turn(z, mask[fore].az) + Turn(mask[back].az, z))
<1>0. Circle \in Nat /\ Circle > 1 /\ z \in 0..(Circle - 1)
  BY PointingAssumption, Normal
<1>1. \A j \in DOMAIN mask : mask[j].az \in 0..(Circle - 1)
  BY MaskFacts
<1>2. ASSUME NEW j \in DOMAIN mask
      PROVE  /\ Ahead(mask[j].az, x) = Turn(mask[j].az, z) /\ Ahead(x, mask[j].az) = Turn(z, mask[j].az)
             /\ Turn(mask[j].az, z) \in Int /\ Turn(z, mask[j].az) \in Int
  <2>1. PICK m \in -1..Circle : m = mask[j].az /\ m \in 0..(Circle - 1)
    BY <1>0, <1>1
  <2>2. NormaliseAzimuth(m) = m
    BY <1>0, <2>1, Normal
  <2>3. Ahead(m, x) = Turn(m, z) /\ Ahead(x, m) = Turn(z, m)
    BY <2>2, AheadIsTurn
  <2>4. Turn(m, z) \in Int /\ Turn(z, m) \in Int
    BY <1>0, <2>1 DEF Turn
  <2> QED BY <2>1, <2>3, <2>4
<1> DEFINE behind == CHOOSE i \in DOMAIN mask : \A j \in DOMAIN mask : Ahead(mask[i].az, x) <= Ahead(mask[j].az, x)
           ahead == CHOOSE i \in DOMAIN mask : \A j \in DOMAIN mask : Ahead(x, mask[i].az) <= Ahead(x, mask[j].az)
<1>3. behind = back
  <2>1. \A j \in DOMAIN mask : Ahead(mask[back].az, x) <= Ahead(mask[j].az, x)
    BY <1>2
  <2>2. behind \in DOMAIN mask /\ \A j \in DOMAIN mask : Ahead(mask[behind].az, x) <= Ahead(mask[j].az, x)
    BY <2>1
  <2> HIDE DEF behind
  <2>3. Turn(mask[behind].az, z) = Turn(mask[back].az, z)
    BY <1>2, <2>1, <2>2
  <2>4. mask[behind].az = mask[back].az
    <3>1. mask[behind].az \in 0..(Circle - 1) /\ mask[back].az \in 0..(Circle - 1)
      BY <1>1, <2>2
    <3> QED BY <1>0, <2>3, <3>1 DEF Turn
  <2> QED BY <2>2, <2>4 DEF Distinct
<1>4. ahead = fore
  <2>1. \A j \in DOMAIN mask : Ahead(x, mask[fore].az) <= Ahead(x, mask[j].az)
    BY <1>2
  <2>2. ahead \in DOMAIN mask /\ \A j \in DOMAIN mask : Ahead(x, mask[ahead].az) <= Ahead(x, mask[j].az)
    BY <2>1
  <2> HIDE DEF ahead
  <2>3. Turn(z, mask[ahead].az) = Turn(z, mask[fore].az)
    BY <1>2, <2>1, <2>2
  <2>4. mask[ahead].az = mask[fore].az
    <3>1. mask[ahead].az \in 0..(Circle - 1) /\ mask[fore].az \in 0..(Circle - 1)
      BY <1>1, <2>2
    <3> QED BY <1>0, <2>3, <3>1 DEF Turn
  <2> QED BY <2>2, <2>4 DEF Distinct
<1>5. Surveyed(x, mask) = IF Ahead(mask[behind].az, x) = 0 THEN Whole(mask[behind].alt)
        ELSE Fraction(mask[behind].alt * Ahead(x, mask[ahead].az) + mask[ahead].alt * Ahead(mask[behind].az, x),
                      Ahead(x, mask[ahead].az) + Ahead(mask[behind].az, x))
  BY DEF Surveyed
<1> HIDE DEF behind, ahead
<1> QED BY <1>2, <1>3, <1>4, <1>5

\* A set of places has a first one.
Smaller == {p \in Nat \X Nat : p[1] < p[2]}

LEMMA FirstPlace ==
  ASSUME NEW S \in SUBSET Nat, S # {}
  PROVE  \E i \in S : \A j \in S : i <= j
<1>1. OpToRel(<, Nat) = Smaller
  BY Zenon DEF OpToRel, Smaller
<1>2. IsWellFoundedOn(Smaller, Nat)
  BY NatLessThanWellFounded, <1>1, Zenon
<1>3. PICK i \in S : \A j \in S : ~(<<j, i>> \in Smaller)
  BY <1>2, WFMin
<1>4. \A j \in S : j < i => <<j, i>> \in Smaller
  BY DEF Smaller
<1>5. ASSUME NEW j \in S PROVE i <= j
  <2>1. ~(j < i)
    BY <1>3, <1>4
  <2>2. i \in Nat /\ j \in Nat
    OBVIOUS
  <2> QED BY <2>1, <2>2
<1> QED BY <1>5

\* The line between two samples is the same line seen from between them.
LEMMA SameLine ==
  ASSUME NEW f \in Int, NEW t \in Int, NEW z \in Int, NEW p \in Int, NEW q \in Int
  PROVE  p * (t - f) + (q - p) * (z - f) = p * (t - z) + q * (z - f) /\ t - f = (t - z) + (z - f)
OBVIOUS

LEMMA LineBetween ==
  ASSUME NEW f \in Int, NEW t \in Int, NEW z \in Int, NEW p \in Int, NEW q \in Int
  PROVE  Fraction(p * (t - f) + (q - p) * (z - f), t - f) = Fraction(p * (t - z) + q * (z - f), (t - z) + (z - f))
<1>1. PICK m : m = p * (t - f) + (q - p) * (z - f)
  OBVIOUS
<1>2. PICK d : d = t - f
  OBVIOUS
<1>3. m = p * (t - z) + q * (z - f) /\ d = (t - z) + (z - f)
  BY <1>1, <1>2, SameLine
<1> QED BY <1>1, <1>2, <1>3, Zenon

\* A height that is a fraction of whole numbers.
IsHeight(r) == r.n \in Int /\ r.d \in Int

LEMMA Heights ==
  ASSUME NEW p \in Int, NEW q \in Int, NEW u \in Int, NEW v \in Int
  PROVE  IsHeight(Fraction(p * u + q * v, u + v)) /\ IsHeight(Whole(p))
BY DEF IsHeight, Fraction, Whole

\* One sample is the horizon all round.
LEMMA SameHeight ==
  ASSUME NEW c \in Nat, c > 0, NEW a \in Int, NEW b \in Int, a + b = c, NEW p \in Int, NEW q \in Int
  PROVE  p * (a + b) >= q * a + q * b <=> p >= q
<1>1. q * a + q * b = q * (a + b)
  OBVIOUS
<1>2. p * c >= q * c <=> p >= q
  <2>1. p >= q => p * c >= q * c
    OBVIOUS
  <2>2. p < q => p * c < q * c
    OBVIOUS
  <2>3. p * c \in Int /\ q * c \in Int
    OBVIOUS
  <2> QED BY <2>1, <2>2, <2>3
<1>3. q * (a + b) = q * c /\ p * (a + b) = p * c
  BY Zenon
<1> QED BY <1>1, <1>2, <1>3, Zenon

\* The horizon of one sample.
LEMMA OneSample ==
  ASSUME NEW mask \in Masks, Len(mask) = 1, NEW x \in -1..Circle, NEW h \in Int
  PROVE  BelowHorizon(h, x, mask) <=> ~Above(h, Surveyed(x, mask))
<1>0. Circle \in Nat /\ Circle > 1
  BY PointingAssumption
<1>1. DOMAIN mask = {1} /\ mask # << >> /\ mask[1].az \in 0..(Circle - 1) /\ mask[1].alt \in Int
  <2>1. DOMAIN mask = 1..1 /\ mask \in Seq(Samples) /\ mask[1].az \in 0..(Circle - 1) /\ mask[1].alt \in Int
    BY MaskFacts
  <2>2. mask # << >>
    BY SMT
  <2>3. 1..1 = {1}
    OBVIOUS
  <2> QED BY <2>1, <2>2, <2>3, Zenon
<1>2. PICK q \in Int : q = mask[1].alt
  BY <1>1
<1>3. PICK z \in 0..(Circle - 1) : z = NormaliseAzimuth(x)
  BY Normal
<1>4. PICK m \in 0..(Circle - 1) : m = mask[1].az
  BY <1>1
<1>5. Distinct(mask)
  BY <1>1 DEF Distinct
<1>6. PICK a \in Int : a = Turn(z, m)
  BY <1>0 DEF Turn
<1>7. PICK b \in Int : b = Turn(m, z)
  BY <1>0 DEF Turn
<1>8. b # 0 => a + b = Circle
  BY <1>0, <1>6, <1>7 DEF Turn
<1>9. Surveyed(x, mask) = IF b = 0 THEN Whole(q) ELSE Fraction(q * a + q * b, a + b)
  <2>1. 1 \in DOMAIN mask
    BY <1>1
  <2>2. \A j \in DOMAIN mask : Turn(mask[1].az, z) <= Turn(mask[j].az, z)
    BY <1>1, <1>4, <1>7
  <2>3. \A j \in DOMAIN mask : Turn(z, mask[1].az) <= Turn(z, mask[j].az)
    BY <1>1, <1>4, <1>6
  <2>4. Surveyed(x, mask) =
           IF Turn(mask[1].az, z) = 0 THEN Whole(mask[1].alt)
           ELSE Fraction(mask[1].alt * Turn(z, mask[1].az) + mask[1].alt * Turn(mask[1].az, z),
                         Turn(z, mask[1].az) + Turn(mask[1].az, z))
    BY <1>3, <1>5, <2>1, <2>2, <2>3, NearestSamples
  <2> QED BY <1>2, <1>4, <1>6, <1>7, <2>4
<1>10. HorizonMinimumAltitude(x, mask) = Whole(q)
  BY <1>2 DEF HorizonMinimumAltitude
<1>11. BelowHorizon(h, x, mask) <=> h * 1 < q
  BY <1>1, <1>10 DEF BelowHorizon, Whole, Fraction
<1>12. CASE b = 0
  <2>1. Above(h, Surveyed(x, mask)) <=> h * 1 >= q
    BY <1>9, <1>12 DEF Above, Whole, Fraction
  <2> QED BY <1>11, <2>1
<1>13. CASE b # 0
  <2>1. Above(h, Surveyed(x, mask)) <=> h * (a + b) >= q * a + q * b
    BY <1>9, <1>13 DEF Above, Fraction
  <2>2. h * (a + b) >= q * a + q * b <=> h >= q
    <3>1. a + b = Circle /\ Circle > 0
      BY <1>0, <1>8, <1>13
    <3> QED BY <1>0, <3>1, SameHeight
  <2> QED BY <1>11, <2>1, <2>2
<1> QED BY <1>12, <1>13

\* The horizon of several is the line between the two next to the bearing.
LEMMA SeveralSamples ==
  ASSUME NEW mask \in Masks, Len(mask) > 1, Distinct(mask), NEW x \in -1..Circle
  PROVE  HorizonMinimumAltitude(x, mask) = Surveyed(x, mask) /\ IsHeight(Surveyed(x, mask))
<1>0. Circle \in Nat /\ Circle > 1
  BY PointingAssumption
<1>1. PICK n \in Nat : n = Len(mask) /\ n > 1 /\ DOMAIN mask = 1..n
  BY MaskFacts
<1>2. PICK s : s = Sorted(mask)
  OBVIOUS
<1>3. /\ DOMAIN s = 1..n /\ Len(s) = n
      /\ \A k \in 1..n : \E i \in DOMAIN mask : s[k] = mask[i]
      /\ \A i \in DOMAIN mask : \E k \in 1..n : s[k] = mask[i]
      /\ \A k, l \in 1..n : k < l => s[k].az < s[l].az
  BY <1>1, <1>2, SortedIsSorted
<1>4. PICK z \in 0..(Circle - 1) : z = NormaliseAzimuth(x)
  BY Normal
<1>5. \A k \in 1..n : s[k].az \in 0..(Circle - 1) /\ s[k].alt \in Int
  BY <1>1, <1>3, MaskFacts
<1>6. ASSUME NEW k \in 1..n, NEW l \in 1..n, Turn(s[k].az, z) # 0,
             \A j \in 1..n : Turn(s[k].az, z) <= Turn(s[j].az, z), \A j \in 1..n : Turn(z, s[l].az) <= Turn(z, s[j].az)
      PROVE  Surveyed(x, mask) = Fraction(s[k].alt * Turn(z, s[l].az) + s[l].alt * Turn(s[k].az, z),
                                          Turn(z, s[l].az) + Turn(s[k].az, z))
  <2>1. PICK back \in DOMAIN mask : s[k] = mask[back]
    BY <1>3
  <2>2. PICK fore \in DOMAIN mask : s[l] = mask[fore]
    BY <1>3
  <2>3. \A j \in DOMAIN mask : Turn(mask[back].az, z) <= Turn(mask[j].az, z)
    BY <1>3, <1>6, <2>1
  <2>4. \A j \in DOMAIN mask : Turn(z, mask[fore].az) <= Turn(z, mask[j].az)
    BY <1>3, <1>6, <2>2
  <2>5. Surveyed(x, mask) =
           IF Turn(mask[back].az, z) = 0 THEN Whole(mask[back].alt)
           ELSE Fraction(mask[back].alt * Turn(z, mask[fore].az) + mask[fore].alt * Turn(mask[back].az, z),
                         Turn(z, mask[fore].az) + Turn(mask[back].az, z))
    BY <1>4, <2>3, <2>4, NearestSamples
  <2> QED BY <1>6, <2>1, <2>2, <2>5
<1>7. ASSUME NEW k \in 1..n, s[k].az = z
      PROVE  Surveyed(x, mask) = Whole(s[k].alt)
  <2>1. PICK back \in DOMAIN mask : s[k] = mask[back]
    BY <1>3
  <2>2. \A j \in DOMAIN mask : mask[j].az \in 0..(Circle - 1)
    BY <1>1, MaskFacts
  <2>3. Turn(mask[back].az, z) = 0 /\ Turn(z, mask[back].az) = 0
    BY <1>0, <1>7, <2>1 DEF Turn
  <2>4. \A j \in DOMAIN mask : Turn(mask[j].az, z) >= 0 /\ Turn(z, mask[j].az) >= 0
    BY <1>0, <2>2 DEF Turn
  <2>5. \A j \in DOMAIN mask : Turn(mask[back].az, z) <= Turn(mask[j].az, z)
    BY <2>3, <2>4
  <2>6. \A j \in DOMAIN mask : Turn(z, mask[back].az) <= Turn(z, mask[j].az)
    BY <2>3, <2>4
  <2>7. Surveyed(x, mask) =
           IF Turn(mask[back].az, z) = 0 THEN Whole(mask[back].alt)
           ELSE Fraction(mask[back].alt * Turn(z, mask[back].az) + mask[back].alt * Turn(mask[back].az, z),
                         Turn(z, mask[back].az) + Turn(mask[back].az, z))
    BY <1>4, <2>5, <2>6, NearestSamples
  <2> QED BY <2>1, <2>3, <2>7
<1> DEFINE reached == {i \in DOMAIN s : s[i].az >= z}
           first == CHOOSE i \in reached : \A j \in reached : i <= j
<1>8. HorizonMinimumAltitude(x, mask) =
        CASE Len(mask) = 1 -> Whole(mask[1].alt)
          [] Len(mask) > 1 /\ reached = {} -> PastLast(s, z)
          [] Len(mask) > 1 /\ reached # {} /\ s[first].az = z -> Whole(s[first].alt)
          [] Len(mask) > 1 /\ reached # {} /\ s[first].az > z ->
               IF first = 1 THEN BeforeFirst(s, z) ELSE Between(s[first - 1], s[first], z)
  BY <1>2, <1>4 DEF HorizonMinimumAltitude
<1>9. 1 \in 1..n /\ n \in 1..n /\ Len(mask) > 1 /\ Len(mask) # 1
  BY <1>1
<1>a. \A k \in 1..n : s[k].az \in Int
  BY <1>0, <1>5
<1>b. ASSUME NEW j \in 1..n PROVE s[1].az <= s[j].az /\ s[j].az <= s[n].az
  <2>1. 1 < j => s[1].az < s[j].az
    BY <1>3, <1>9
  <2>2. j < n => s[j].az < s[n].az
    BY <1>3, <1>9
  <2>3. s[1].az \in Int /\ s[j].az \in Int /\ s[n].az \in Int
    BY <1>9, <1>a
  <2>4. (1 < j \/ 1 = j) /\ (j < n \/ j = n)
    BY <1>1
  <2>5. s[1].az <= s[j].az
    BY <2>1, <2>3, <2>4
  <2> QED BY <2>2, <2>3, <2>4, <2>5
<1>c. s[1] \in Samples /\ s[n] \in Samples
  BY <1>1, <1>3, <1>9, MaskFacts
<1>d. PICK f \in 0..(Circle - 1) : f = s[n].az
  BY <1>5, <1>9
<1>e. PICK t \in 0..(Circle - 1) : t = s[1].az
  BY <1>5, <1>9
<1>f. PICK p \in Int : p = s[n].alt
  BY <1>5, <1>9
<1>g. PICK q \in Int : q = s[1].alt
  BY <1>5, <1>9
<1>h. f \in Int /\ t \in Int /\ z \in Int /\ Circle \in Int
  BY <1>0
<1>10. CASE reached = {}
  <2>1. ASSUME NEW k \in 1..n PROVE s[k].az < z
    <3>1. ~(s[k].az >= z)
      BY <1>3, <1>10
    <3> QED BY <1>a, <1>h, <3>1
  <2>2. f < z /\ t < z
    BY <1>9, <1>d, <1>e, <2>1
  <2>3. Turn(f, z) = z - f /\ Turn(z, t) = (t + Circle) - z /\ Turn(f, z) # 0
    BY <1>h, <2>2 DEF Turn
  <2>4. ASSUME NEW j \in 1..n PROVE Turn(s[n].az, z) <= Turn(s[j].az, z) /\ Turn(z, s[1].az) <= Turn(z, s[j].az)
    <3>1. PICK m \in Int : m = s[j].az /\ m < z /\ t <= m /\ m <= f
      BY <1>a, <1>b, <1>d, <1>e, <2>1
    <3>2. Turn(f, z) <= Turn(m, z) /\ Turn(z, t) <= Turn(z, m)
      BY ONLY <1>h, <2>2, <3>1 DEF Turn
    <3> QED BY <1>d, <1>e, <3>1, <3>2
  <2>5. Surveyed(x, mask) = Fraction(p * ((t + Circle) - z) + q * (z - f), ((t + Circle) - z) + (z - f))
    <3>1. Surveyed(x, mask) = Fraction(s[n].alt * Turn(z, s[1].az) + s[1].alt * Turn(s[n].az, z),
                                       Turn(z, s[1].az) + Turn(s[n].az, z))
      BY <1>6, <1>9, <1>d, <2>3, <2>4
    <3> QED BY <1>d, <1>e, <1>f, <1>g, <2>3, <3>1
  <2>6. PICK g : g = [s[1] EXCEPT !.az = t + Circle]
    OBVIOUS
  <2>7. g.az = t + Circle /\ g.alt = q
    BY <1>c, <1>g, <2>6 DEF Samples
  <2>8. PastLast(s, z) = Between(s[n], g, z)
    BY <1>3, <1>e, <2>6 DEF PastLast
  <2>9. Between(s[n], g, z) = Fraction(p * ((t + Circle) - z) + q * (z - f), ((t + Circle) - z) + (z - f))
    <3>1. t + Circle \in Int
      BY <1>h
    <3>2. s[n].az = f /\ s[n].alt = p
      BY <1>d, <1>f
    <3>3. PICK e \in Int : e = t + Circle
      BY <3>1
    <3>4. Between(s[n], g, z) = Fraction(p * (e - f) + (q - p) * (z - f), e - f)
      BY <2>7, <3>2, <3>3, Zenon DEF Between
    <3>5. Fraction(p * (e - f) + (q - p) * (z - f), e - f) = Fraction(p * (e - z) + q * (z - f), (e - z) + (z - f))
      BY <1>h, LineBetween
    <3> QED BY <3>3, <3>4, <3>5, Zenon
  <2>10. HorizonMinimumAltitude(x, mask) = PastLast(s, z)
    BY <1>8, <1>9, <1>10
  <2>11. HorizonMinimumAltitude(x, mask) = Surveyed(x, mask)
    BY <2>5, <2>8, <2>9, <2>10, Zenon
  <2>12. (t + Circle) - z \in Int /\ z - f \in Int
    BY <1>h
  <2>13. IsHeight(Surveyed(x, mask))
    BY <2>5, <2>12, Heights
  <2> QED BY <2>11, <2>13
<1>11. CASE reached # {}
  <2>1. reached \in SUBSET Nat /\ \A i \in reached : i \in 1..n
    BY <1>3
  <2>2. first \in reached /\ \A j \in reached : first <= j
    <3>1. \E i \in reached : \A j \in reached : i <= j
      BY <1>11, <2>1, FirstPlace
    <3> QED BY <3>1
  <2>3. PICK u \in 1..n : u = first
    BY <2>1, <2>2
  <2>4. s[u].az >= z
    BY <2>2, <2>3
  <2>5. ASSUME NEW j \in 1..n, j < u PROVE s[j].az < z
    <3>1. j \notin reached
      <4>1. j \in reached => u <= j
        BY <2>2, <2>3
      <4> QED BY <2>5, <4>1
    <3> QED BY <1>3, <1>a, <1>h, <3>1
  <2>6. HorizonMinimumAltitude(x, mask) =
          IF s[u].az = z THEN Whole(s[u].alt)
          ELSE IF u = 1 THEN BeforeFirst(s, z) ELSE Between(s[u - 1], s[u], z)
    <3>1. s[u].az > z \/ s[u].az = z
      BY <1>a, <1>h, <2>4
    <3>2. s[u].az > z => s[u].az # z
      BY <1>a, <1>h
    <3> HIDE DEF first, reached
    <3> QED BY <1>8, <1>9, <1>11, <2>3, <3>1, <3>2
  <2>7. CASE s[u].az = z
    <3>1. s[u].alt \in Int
      BY <1>5
    <3>2. Surveyed(x, mask) = Whole(s[u].alt)
      BY <1>7, <2>7
    <3>3. IsHeight(Surveyed(x, mask))
      BY <3>1, <3>2, Heights
    <3> QED BY <2>6, <2>7, <3>2, <3>3
  <2>8. CASE s[u].az # z /\ u = 1
    <3>1. t > z
      BY <1>a, <1>e, <1>h, <2>4, <2>8
    <3>2. ASSUME NEW j \in 1..n PROVE s[j].az \in Int /\ t <= s[j].az /\ s[j].az <= f
      BY <1>a, <1>b, <1>d, <1>e
    <3>3. f > z
      BY <1>9, <1>d, <1>h, <3>1, <3>2
    <3>4. Turn(f, z) = z - (f - Circle) /\ Turn(z, t) = t - z /\ Turn(f, z) # 0
      BY <1>0, <3>1, <3>3 DEF Turn
    <3>5. ASSUME NEW j \in 1..n PROVE Turn(s[n].az, z) <= Turn(s[j].az, z) /\ Turn(z, s[1].az) <= Turn(z, s[j].az)
      <4>1. PICK m \in Int : m = s[j].az /\ t <= m /\ m <= f
        BY <3>2
      <4>2. Turn(f, z) <= Turn(m, z) /\ Turn(z, t) <= Turn(z, m)
        BY ONLY <1>h, <3>1, <3>3, <4>1 DEF Turn
      <4> QED BY <1>d, <1>e, <4>1, <4>2
    <3>6. Surveyed(x, mask) = Fraction(p * (t - z) + q * (z - (f - Circle)), (t - z) + (z - (f - Circle)))
      <4>1. Surveyed(x, mask) = Fraction(s[n].alt * Turn(z, s[1].az) + s[1].alt * Turn(s[n].az, z),
                                         Turn(z, s[1].az) + Turn(s[n].az, z))
        BY <1>6, <1>9, <1>d, <3>4, <3>5
      <4> QED BY <1>d, <1>e, <1>f, <1>g, <3>4, <4>1
    <3>7. PICK g : g = [s[n] EXCEPT !.az = f - Circle]
      OBVIOUS
    <3>8. g.az = f - Circle /\ g.alt = p
      BY <1>c, <1>f, <3>7 DEF Samples
    <3>9. BeforeFirst(s, z) = Between(g, s[1], z)
      BY <1>3, <1>d, <3>7 DEF BeforeFirst
    <3>10. Between(g, s[1], z) = Fraction(p * (t - z) + q * (z - (f - Circle)), (t - z) + (z - (f - Circle)))
      <4>1. f - Circle \in Int
        BY <1>h
      <4>2. s[1].az = t /\ s[1].alt = q
        BY <1>e, <1>g
      <4>3. PICK e \in Int : e = f - Circle
        BY <4>1
      <4>4. Between(g, s[1], z) = Fraction(p * (t - e) + (q - p) * (z - e), t - e)
        BY <3>8, <4>2, <4>3, Zenon DEF Between
      <4>5. Fraction(p * (t - e) + (q - p) * (z - e), t - e) = Fraction(p * (t - z) + q * (z - e), (t - z) + (z - e))
        BY <1>h, LineBetween
      <4> QED BY <4>3, <4>4, <4>5, Zenon
    <3>11. t - z \in Int /\ z - (f - Circle) \in Int
      BY <1>h
    <3>12. IsHeight(Surveyed(x, mask))
      BY <3>6, <3>11, Heights
    <3> QED BY <2>6, <2>8, <3>6, <3>9, <3>10, <3>12
  <2>9. CASE s[u].az # z /\ u # 1
    <3>1. PICK k \in 1..n : k = u - 1 /\ k < u
      BY <1>1, <2>9
    <3>2. PICK b \in Int : b = s[k].az /\ b < z
      BY <1>a, <2>5, <3>1
    <3>3. PICK a \in Int : a = s[u].az /\ a > z
      BY <1>a, <1>h, <2>4, <2>9
    <3>4. ASSUME NEW j \in 1..n PROVE s[j].az <= b \/ a <= s[j].az
      <4>1. j < k => s[j].az < s[k].az
        BY <1>3
      <4>2. u < j => s[u].az < s[j].az
        BY <1>3
      <4>3. j < k \/ j = k \/ j = u \/ u < j
        BY <1>1, <3>1
      <4>4. s[j].az \in Int
        BY <1>a
      <4> QED BY <3>2, <3>3, <4>1, <4>2, <4>3, <4>4
    <3>5. Turn(b, z) = z - b /\ Turn(z, a) = a - z /\ Turn(b, z) # 0
      BY <1>h, <3>2, <3>3 DEF Turn
    <3>6. ASSUME NEW j \in 1..n PROVE Turn(s[k].az, z) <= Turn(s[j].az, z) /\ Turn(z, s[u].az) <= Turn(z, s[j].az)
      <4>1. PICK m \in 0..(Circle - 1) : m = s[j].az
        BY <1>5
      <4>2. b \in 0..(Circle - 1) /\ a \in 0..(Circle - 1) /\ (m <= b \/ a <= m)
        BY <1>5, <3>2, <3>3, <3>4, <4>1
      <4>3. Turn(b, z) <= Turn(m, z) /\ Turn(z, a) <= Turn(z, m)
        BY ONLY <1>0, <3>2, <3>3, <4>2, z \in 0..(Circle - 1), m \in 0..(Circle - 1) DEF Turn
      <4> QED BY <3>2, <3>3, <4>1, <4>3
    <3>7. PICK c \in Int : c = s[k].alt
      BY <1>5
    <3>8. PICK d \in Int : d = s[u].alt
      BY <1>5
    <3>9. Surveyed(x, mask) = Fraction(c * (a - z) + d * (z - b), (a - z) + (z - b))
      <4>1. Surveyed(x, mask) = Fraction(s[k].alt * Turn(z, s[u].az) + s[u].alt * Turn(s[k].az, z),
                                         Turn(z, s[u].az) + Turn(s[k].az, z))
        BY <1>6, <3>2, <3>5, <3>6
      <4> QED BY <3>2, <3>3, <3>5, <3>7, <3>8, <4>1
    <3>10. Between(s[k], s[u], z) = Fraction(c * (a - z) + d * (z - b), (a - z) + (z - b))
      <4>1. s[k].az = b /\ s[k].alt = c /\ s[u].az = a /\ s[u].alt = d
        BY <3>2, <3>3, <3>7, <3>8
      <4>2. Between(s[k], s[u], z) = Fraction(c * (a - b) + (d - c) * (z - b), a - b)
        BY <4>1, Zenon DEF Between
      <4>3. Fraction(c * (a - b) + (d - c) * (z - b), a - b) = Fraction(c * (a - z) + d * (z - b), (a - z) + (z - b))
        BY <1>h, LineBetween
      <4> QED BY <4>2, <4>3, Zenon
    <3>11. a - z \in Int /\ z - b \in Int
      BY <1>h
    <3>12. IsHeight(Surveyed(x, mask))
      BY <3>9, <3>11, Heights
    <3> QED BY <2>6, <2>9, <3>1, <3>9, <3>10, <3>12
  <2> QED BY <2>7, <2>8, <2>9
<1> QED BY <1>10, <1>11

\* The horizon of the code is the line between the samples nearest on the
\* circle (horizonMinimumAltitude).
LEMMA HorizonIsSurveyed ==
  ASSUME NEW mask \in Masks, Distinct(mask), mask # << >>, NEW x \in -1..Circle, NEW h \in Int
  PROVE  BelowHorizon(h, x, mask) <=> ~Above(h, Surveyed(x, mask))
<1>1. Len(mask) \in Nat /\ Len(mask) # 0
  <2>1. mask \in Seq(Samples) /\ Len(mask) \in Nat
    BY MaskFacts
  <2> HIDE DEF Samples
  <2> QED BY <2>1
<1>2. CASE Len(mask) = 1
  BY <1>2, OneSample
<1>3. CASE Len(mask) > 1
  <2>1. HorizonMinimumAltitude(x, mask) = Surveyed(x, mask) /\ IsHeight(Surveyed(x, mask))
    BY <1>3, SeveralSamples
  <2>2. PICK r : r = Surveyed(x, mask)
    OBVIOUS
  <2>3. PICK m \in Int : m = r.n
    BY <2>1, <2>2 DEF IsHeight
  <2>4. PICK d \in Int : d = r.d
    BY <2>1, <2>2 DEF IsHeight
  <2>5. BelowHorizon(h, x, mask) <=> h * d < m
    BY <2>1, <2>2, <2>3, <2>4 DEF BelowHorizon
  <2>6. Above(h, Surveyed(x, mask)) <=> h * d >= m
    BY <2>2, <2>3, <2>4 DEF Above
  <2>7. PICK w \in Int : w = h * d
    OBVIOUS
  <2>8. w < m <=> ~(w >= m)
    OBVIOUS
  <2> QED BY <2>5, <2>6, <2>7, <2>8
<1> QED BY <1>1, <1>2, <1>3

PointingInv == question \in Questions

LEMMA QuestionsAsked == PointingSpec => []PointingInv
<1>0. /\ Circle \in Nat /\ Circle > 1 /\ MinSunExclusion \in Nat /\ MaxAltitude \in Nat /\ MaxSamples \in Nat
      /\ Circle \div 2 \in Nat /\ Circle \div 4 \in Nat
  BY PointingAssumption
<1>1. Clear \in Questions
  <2>1. << >> \in Masks
    BY <1>0 DEF Masks
  <2>2. [from |-> 0, to |-> 0] \in Sectors
    BY <1>0 DEF Sectors
  <2> HIDE DEF Masks, Sectors
  <2> QED BY <1>0, <2>1, <2>2 DEF Clear, Questions, Altitudes
<1>2. NoQuestion \in Questions
  BY <1>1 DEF NoQuestion, Questions
<1>3. PointingInit => PointingInv
  BY <1>2 DEF PointingInit, PointingInv
<1>4. PointingInv /\ [PointingNext]_question => PointingInv'
  <2> SUFFICES ASSUME question \in Questions, [PointingNext]_question PROVE question' \in Questions
    BY DEF PointingInv
  <2>1. CASE AskHorizon
    BY <1>0, <1>1, <2>1 DEF AskHorizon, Questions, Altitudes
  <2>2. CASE AskSector
    BY <1>0, <1>1, <2>2 DEF AskSector, Questions, Altitudes
  <2>3. CASE AskSun
    <3>1. PICK site \in BOOLEAN, override \in BOOLEAN, separation \in 0..Circle \div 2,
               exclusion \in 0..Circle \div 2 \cup {NotANumber}, sunAlt \in -(Circle \div 4)..1,
               lock \in {NotANumber, -1, 0, 1}, alt \in {NotANumber, 0}, maxAlt \in {0, Unmeasured} :
            question' = [Clear EXCEPT !.site = site, !.override = override, !.separation = separation,
                        !.exclusion = exclusion, !.sunAlt = sunAlt, !.lock = lock, !.alt = alt, !.maxAlt = maxAlt]
      BY <2>3 DEF AskSun
    <3>2. /\ separation \in Int /\ exclusion \in Nat \cup {NotANumber} /\ sunAlt \in Int /\ lock \in Int \cup {NotANumber}
          /\ alt \in Altitudes \cup {NotANumber} /\ maxAlt \in Altitudes \cup {Unmeasured}
      BY <1>0 DEF Altitudes
    <3>3. PICK M, A, E, L, B, H, X, S : /\ M = Altitudes \cup {Unmeasured} /\ A = Altitudes \cup {NotANumber}
                                  /\ E = Nat \cup {NotANumber} /\ L = Int \cup {NotANumber}
                                  /\ B = BOOLEAN /\ H = Masks /\ X = -1..Circle /\ S = Sectors
      OBVIOUS
    <3>4. Questions = [maxAlt : M, minAlt : Altitudes, alt : A, az : X, site : B, separation : Int, exclusion : E,
                       sunAlt : Int, lock : L, override : B, mask : H, sector : S]
      BY <3>3 DEF Questions
    <3>5. /\ site \in B /\ override \in B /\ separation \in Int /\ exclusion \in E /\ sunAlt \in Int /\ lock \in L
          /\ alt \in A /\ maxAlt \in M
      BY <3>2, <3>3
    <3> QED BY ONLY <1>1, <3>1, <3>4, <3>5
  <2>4. CASE UNCHANGED question
    BY <2>4
  <2> QED BY <2>1, <2>2, <2>3, <2>4 DEF PointingNext
<1> QED BY <1>3, <1>4, PTL DEF PointingSpec

\* The rules, one by one.
LEMMA RulesInOrder ==
  ASSUME NEW q \in Questions
  PROVE  EvaluatePointing(q) = "PERMITTED" <=>
           /\ q.maxAlt # Unmeasured
           /\ ~(q.alt = NotANumber \/ q.az = NotANumber)
           /\ ~(~q.site \/ q.separation < SunExclusion(q.exclusion))
           /\ ~(q.sunAlt > DaylightLock(q.lock) /\ ~q.override)
           /\ ~(q.alt < q.minAlt)
           /\ ~(q.alt > q.maxAlt)
           /\ ~BelowHorizon(q.alt, q.az, q.mask)
           /\ ~AzimuthInSector(q.az, q.sector)
BY DEF EvaluatePointing

\* The exclusion is the widest of those asked for.
LEMMA FarEnough ==
  ASSUME NEW e \in Nat \cup {NotANumber}, NEW d \in Int
  PROVE  ~(d < SunExclusion(e)) <=>
           \A far \in (IF e = NotANumber THEN {Circle \div 2} ELSE {e, MinSunExclusion}) : d >= far
<1>1. Circle \div 2 \in Int /\ MinSunExclusion \in Int
  BY PointingAssumption
<1>2. CASE e = NotANumber
  BY <1>1, <1>2 DEF SunExclusion
<1>3. CASE e # NotANumber
  BY <1>1, <1>3 DEF SunExclusion
<1> QED BY <1>2, <1>3

\* The lock is the lowest of those asked for.
LEMMA DarkEnough ==
  ASSUME NEW e \in Int \cup {NotANumber}, NEW d \in Int
  PROVE  ~(d > DaylightLock(e)) <=>
           \A dark \in (IF e = NotANumber THEN {-(Circle \div 4)} ELSE {e, 0}) : d <= dark
<1>1. -(Circle \div 4) \in Int
  BY PointingAssumption
<1>2. CASE e = NotANumber
  BY <1>1, <1>2 DEF DaylightLock
<1>3. CASE e # NotANumber
  BY <1>1, <1>3 DEF DaylightLock
<1> QED BY <1>2, <1>3

\* A pointing the cloud permits is a safe one, and a safe one is permitted:
\* PermittedIsSafe (evaluatePointing, horizonMinimumAltitude,
\* azimuthInSector).
THEOREM PermittedAlwaysSafe == PointingSpec => []PermittedIsSafe
<1>1. PointingInv => PermittedIsSafe
  <2> SUFFICES ASSUME question \in Questions PROVE PermittedIsSafe
    BY DEF PointingInv
  <2>1. PICK q \in Questions : q = question
    OBVIOUS
  <2> DEFINE exclusions == IF q.exclusion = NotANumber THEN {Circle \div 2} ELSE {q.exclusion, MinSunExclusion}
             nightfalls == IF q.lock = NotANumber THEN {-(Circle \div 4)} ELSE {q.lock, 0}
             Safe == /\ q.maxAlt # Unmeasured
                     /\ NotANumber \notin {q.alt, q.az}
                     /\ q.site
                     /\ \A far \in exclusions : q.separation >= far
                     /\ q.override \/ \A dark \in nightfalls : q.sunAlt <= dark
                     /\ q.minAlt <= q.alt /\ q.alt <= q.maxAlt
                     /\ q.mask # << >> => Above(q.alt, Surveyed(q.az, q.mask))
                     /\ ~ (Ahead(q.sector.from, q.az) < Ahead(q.sector.from, q.sector.to))
  <2>2. SUFFICES ASSUME Distinct(q.mask) PROVE EvaluatePointing(q) = "PERMITTED" <=> Safe
    BY <2>1 DEF PermittedIsSafe
  <2>3. /\ q.az \in -1..Circle /\ q.sector \in Sectors /\ q.mask \in Masks /\ q.site \in BOOLEAN /\ q.override \in BOOLEAN
        /\ q.separation \in Int /\ q.exclusion \in Nat \cup {NotANumber} /\ q.sunAlt \in Int
        /\ q.lock \in Int \cup {NotANumber} /\ q.minAlt \in Int
        /\ q.alt # NotANumber => q.alt \in Int
        /\ q.maxAlt # Unmeasured => q.maxAlt \in Int
    BY PointingAssumption DEF Questions, Altitudes
  <2>4. CASE q.maxAlt = Unmeasured \/ q.alt = NotANumber \/ q.az = NotANumber
    BY <2>4, RulesInOrder
  <2>5. CASE q.maxAlt # Unmeasured /\ q.alt # NotANumber /\ q.az # NotANumber
    <3>1. q.alt \in Int /\ q.maxAlt \in Int
      BY <2>3, <2>5
    <3>2. ~(q.separation < SunExclusion(q.exclusion)) <=> \A far \in exclusions : q.separation >= far
      <4>1. PICK d \in Int : d = q.separation
        BY <2>3
      <4>2. PICK e \in Nat \cup {NotANumber} : e = q.exclusion
        BY <2>3
      <4> QED BY <4>1, <4>2, FarEnough
    <3>3. ~(q.sunAlt > DaylightLock(q.lock)) <=> \A dark \in nightfalls : q.sunAlt <= dark
      <4>1. PICK d \in Int : d = q.sunAlt
        BY <2>3
      <4>2. PICK e \in Int \cup {NotANumber} : e = q.lock
        BY <2>3
      <4> QED BY <4>1, <4>2, DarkEnough
    <3>4. ~(q.alt < q.minAlt) <=> q.minAlt <= q.alt
      BY <2>3, <3>1
    <3>5. ~(q.alt > q.maxAlt) <=> q.alt <= q.maxAlt
      BY <3>1
    <3>6. ~BelowHorizon(q.alt, q.az, q.mask) <=> (q.mask # << >> => Above(q.alt, Surveyed(q.az, q.mask)))
      <4>1. CASE q.mask = << >>
        BY <4>1 DEF BelowHorizon
      <4>2. CASE q.mask # << >>
        BY <2>2, <2>3, <3>1, <4>2, HorizonIsSurveyed
      <4> QED BY <4>1, <4>2
    <3>7. AzimuthInSector(q.az, q.sector) <=> Ahead(q.sector.from, q.az) < Ahead(q.sector.from, q.sector.to)
      BY <2>3, SectorIsArc
    <3> HIDE DEF exclusions, nightfalls
    <3>8. EvaluatePointing(q) = "PERMITTED" <=>
           /\ q.maxAlt # Unmeasured
           /\ ~(q.alt = NotANumber \/ q.az = NotANumber)
           /\ ~(~q.site \/ q.separation < SunExclusion(q.exclusion))
           /\ ~(q.sunAlt > DaylightLock(q.lock) /\ ~q.override)
           /\ ~(q.alt < q.minAlt)
           /\ ~(q.alt > q.maxAlt)
           /\ ~BelowHorizon(q.alt, q.az, q.mask)
           /\ ~AzimuthInSector(q.az, q.sector)
      BY RulesInOrder
    <3> QED BY <2>5, <3>2, <3>3, <3>4, <3>5, <3>6, <3>7, <3>8, Zenon
  <2> QED BY <2>4, <2>5
<1> QED BY <1>1, QuestionsAsked, PTL
=============================================================================
