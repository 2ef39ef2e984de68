------------------------------ MODULE Accounts ------------------------------
(***************************************************************************)
(* One customer's account at the API: registration, sign-in by password    *)
(* and by Google, the three kinds of link sent by email, changes of        *)
(* password and address, and deletion (features/auth, lib/auth/session.ts).*)
(*                                                                         *)
(* A handler that reads, hashes a password or calls Google before it       *)
(* writes is two steps, with a request in `inFlight' between them.  A link *)
(* row holds the hash of a token; here a link is its number.               *)
(***************************************************************************)
EXTENDS Naturals, FiniteSets

CONSTANTS
  Addresses, FirstAddress,
  MaxLinks, MaxInFlight, MaxSessions

ASSUME AccountsAssumption ==
  FirstAddress \in Addresses /\ MaxLinks \in Nat /\ MaxInFlight \in Nat
    /\ MaxSessions \in Nat

VARIABLES
  user,       \* the User and Account rows
  link,       \* the row of each kind of link: one for each user
  lastLink,   \* links made so far
  acted,      \* how often each link had its effect
  sessions,   \* the Session rows
  inFlight,   \* requests between their read and their write
  othersHave, \* addresses other accounts have
  upcoming    \* the customer holds a booking

accountVars == <<user, link, lastLink, acted, sessions, inFlight, othersHave, upcoming>>

Kinds == {"verify", "reset", "change"}

NoUser ==
  [row |-> FALSE, email |-> FirstAddress, verified |-> FALSE, password |-> FALSE,
   google |-> FALSE, deleted |-> FALSE]

NoLink == [number |-> 0, used |-> FALSE, to |-> FirstAddress]

AccountInit ==
  /\ user = NoUser
  /\ link = [k \in Kinds |-> NoLink]
  /\ lastLink = 0 /\ acted = [n \in 1..MaxLinks |-> 0]
  /\ sessions = 0 /\ inFlight = {}
  /\ othersHave = {} /\ upcoming = FALSE

Request(op) == [op |-> op, id |-> 0, number |-> 0, to |-> FirstAddress, saw |-> FALSE]

\* Requests carry an id, so that two openings of one link are two requests.
Begin(request) ==
  \E i \in 1..MaxInFlight :
    /\ \A r \in inFlight : r.id # i
    /\ \A j \in 1..(i - 1) : \E r \in inFlight : r.id = j
    /\ inFlight' = inFlight \cup {[request EXCEPT !.id = i]}

\* The handler goes on to createSession.
ThenSession(r) == (inFlight \ {r}) \cup {[Request("session") EXCEPT !.id = r.id]}

\* getCurrentSession: a session counts while its user's address is verified.
SignedIn == sessions > 0 /\ user.verified

NewLink(k, to) ==
  /\ lastLink < MaxLinks
  /\ lastLink' = lastLink + 1
  /\ link' = [link EXCEPT ![k] = [number |-> lastLink + 1, used |-> FALSE, to |-> to]]

-----------------------------------------------------------------------------
(* Registration and sign-in.                                               *)

\* register looks the address up; a verified one is answered and left alone.
LookUpToRegister ==
  /\ ~user.verified /\ ~user.deleted /\ FirstAddress \notin othersHave
  /\ Begin([Request("register") EXCEPT !.saw = user.row])
  /\ UNCHANGED <<user, link, lastLink, acted, sessions, othersHave, upcoming>>

\* The row is created, or was there, and a fresh link replaces any earlier one.
Register(r) ==
  /\ r.op = "register"
  /\ inFlight' = inFlight \ {r}
  /\ \/ /\ ~r.saw /\ user.row   \* the unique address: somebody was faster
        /\ UNCHANGED <<user, link, lastLink>>
     \/ /\ r.saw \/ ~user.row
        /\ user' = IF user.row THEN user
                   ELSE [NoUser EXCEPT !.row = TRUE, !.password = TRUE]
        /\ NewLink("verify", user.email)
  /\ UNCHANGED <<acted, sessions, othersHave, upcoming>>

\* checkCredentials: the password is right and the address verified.
CheckCredentials ==
  /\ user.password /\ user.verified
  /\ Begin(Request("session"))
  /\ UNCHANGED <<user, link, lastLink, acted, sessions, othersHave, upcoming>>

\* createSession.
CreateSession(r) ==
  /\ r.op = "session"
  /\ inFlight' = inFlight \ {r}
  /\ sessions < MaxSessions /\ sessions' = sessions + 1
  /\ UNCHANGED <<user, link, lastLink, acted, othersHave, upcoming>>

SignOut ==
  /\ sessions > 0 /\ sessions' = sessions - 1
  /\ UNCHANGED <<user, link, lastLink, acted, inFlight, othersHave, upcoming>>

\* completeGoogleSignIn: Google vouches for the address; the row is looked up
\* by the subject and then by the address ...
LookUpGoogle ==
  /\ ~user.deleted /\ FirstAddress \notin othersHave
  /\ Begin([Request(IF user.google THEN "session" ELSE "google") EXCEPT !.saw = user.row])
  /\ UNCHANGED <<user, link, lastLink, acted, sessions, othersHave, upcoming>>

\* ... and linked by its id, or created; an address taken since fails.
LinkGoogle(r) ==
  /\ r.op = "google"
  /\ \/ /\ ~r.saw /\ user.row
        /\ inFlight' = inFlight \ {r}
        /\ UNCHANGED user
     \/ /\ r.saw \/ ~user.row
        /\ user' = [user EXCEPT !.row = TRUE, !.google = TRUE, !.verified = TRUE]
        /\ inFlight' = ThenSession(r)
  /\ UNCHANGED <<link, lastLink, acted, sessions, othersHave, upcoming>>

-----------------------------------------------------------------------------
(* Links.                                                                  *)

\* requestPasswordReset finds the account by its address, and replaces its link.
AskReset ==
  /\ user.row /\ ~user.deleted
  /\ Begin(Request("askReset"))
  /\ UNCHANGED <<user, link, lastLink, acted, sessions, othersHave, upcoming>>

RequestPasswordReset(r) ==
  /\ r.op = "askReset"
  /\ inFlight' = inFlight \ {r}
  /\ NewLink("reset", user.email)
  /\ UNCHANGED <<user, acted, sessions, othersHave, upcoming>>

\* requestEmailChange: the password is right, and only an address nobody has
\* is sent a link.
AskEmailChange(to) ==
  /\ SignedIn /\ user.password
  /\ to # user.email /\ to \notin othersHave
  /\ Begin([Request("askChange") EXCEPT !.to = to])
  /\ UNCHANGED <<user, link, lastLink, acted, sessions, othersHave, upcoming>>

RequestEmailChange(r) ==
  /\ r.op = "askChange"
  /\ inFlight' = inFlight \ {r}
  /\ NewLink("change", r.to)
  /\ UNCHANGED <<user, acted, sessions, othersHave, upcoming>>

\* A link that is opened is found by its token ...
OpenLink(k) ==
  /\ link[k].number > 0
  /\ Begin([Request(k) EXCEPT !.number = link[k].number, !.to = link[k].to])
  /\ UNCHANGED <<user, link, lastLink, acted, sessions, othersHave, upcoming>>

\* A plausible slip: the read that found the link is taken for its consumption.
ConsumesFound(r, k) ==
  /\ r.op = k
  /\ acted' = [acted EXCEPT ![r.number] = @ + 1]

\* ... and consumed by a conditional update, in the transaction of its effect.
Consumes(r, k) ==
  /\ r.op = k
  /\ link[k].number = r.number /\ ~link[k].used
  /\ acted' = [acted EXCEPT ![r.number] = @ + 1]

DeadLink(r) ==
  /\ r.op \in Kinds
  /\ link[r.op].number # r.number \/ link[r.op].used
  /\ inFlight' = inFlight \ {r}
  /\ UNCHANGED <<user, link, lastLink, acted, sessions, othersHave, upcoming>>

Used(k) == [link[k] EXCEPT !.used = TRUE]

VerifyEmail(r) ==
  /\ Consumes(r, "verify")
  /\ link' = [link EXCEPT !["verify"] = Used("verify")]
  /\ sessions' = 0
  /\ user' = [user EXCEPT !.verified = TRUE]
  /\ inFlight' = ThenSession(r)
  /\ UNCHANGED <<lastLink, othersHave, upcoming>>

\* A reset proves the mailbox as well, and ends a change of address.
ConfirmPasswordReset(r) ==
  /\ Consumes(r, "reset")
  /\ user.password   \* account.update fails when there is none
  /\ link' = [link EXCEPT !["reset"] = Used("reset"), !["change"] = NoLink,
                          !["verify"] = IF user.verified THEN @ ELSE NoLink]
  /\ sessions' = 0
  /\ user' = [user EXCEPT !.verified = TRUE]
  /\ inFlight' = ThenSession(r)
  /\ UNCHANGED <<lastLink, othersHave, upcoming>>

\* The transaction of a reset that finds no password to replace rolls back.
ResetFails(r) ==
  /\ r.op = "reset" /\ ~user.password
  /\ inFlight' = inFlight \ {r}
  /\ UNCHANGED <<user, link, lastLink, acted, sessions, othersHave, upcoming>>

ConfirmEmailChange(r) ==
  /\ Consumes(r, "change")
  /\ r.to \notin othersHave   \* else the unique index rolls it back
  /\ link' = [link EXCEPT !["change"] = Used("change"), !["reset"] = NoLink]
  /\ sessions' = 0
  /\ user' = [user EXCEPT !.email = r.to]
  /\ inFlight' = ThenSession(r)
  /\ UNCHANGED <<lastLink, othersHave, upcoming>>

ChangeFails(r) ==
  /\ r.op = "change" /\ r.to \in othersHave
  /\ inFlight' = inFlight \ {r}
  /\ UNCHANGED <<user, link, lastLink, acted, sessions, othersHave, upcoming>>

\* changePassword: the current password is right ...
AskPasswordChange ==
  /\ SignedIn /\ user.password
  /\ Begin(Request("password"))
  /\ UNCHANGED <<user, link, lastLink, acted, sessions, othersHave, upcoming>>

\* ... the sessions but its own are closed, and the links that would undo it;
\* its own may have been closed since.
ChangePassword(r) ==
  /\ r.op = "password"
  /\ inFlight' = inFlight \ {r}
  /\ \/ /\ user.password
        /\ sessions' \in {n \in {0, 1} : n <= sessions}
        /\ link' = [link EXCEPT !["reset"] = NoLink, !["change"] = NoLink]
     \/ /\ ~user.password   \* account.update fails
        /\ UNCHANGED <<sessions, link>>
  /\ UNCHANGED <<user, lastLink, acted, othersHave, upcoming>>

LinkExpires(k) ==
  /\ link[k].number > 0 /\ ~link[k].used
  /\ link' = [link EXCEPT ![k] = Used(k)]
  /\ UNCHANGED <<user, lastLink, acted, sessions, inFlight, othersHave, upcoming>>

OthersTake(a) ==
  /\ a # user.email /\ a \notin othersHave
  /\ othersHave' = othersHave \cup {a}
  /\ UNCHANGED <<user, link, lastLink, acted, sessions, inFlight, upcoming>>

-----------------------------------------------------------------------------
(* Deletion, and what it must wait for.                                    *)

\* reserveSlot was let in by a session; its transaction is READ COMMITTED.
BeginReservation ==
  /\ SignedIn /\ ~upcoming
  /\ Begin(Request("reserve"))
  /\ UNCHANGED <<user, link, lastLink, acted, sessions, othersHave, upcoming>>

CommitReservation(r) ==
  /\ r.op = "reserve"
  /\ inFlight' = inFlight \ {r}
  /\ upcoming' = TRUE
  /\ UNCHANGED <<user, link, lastLink, acted, sessions, othersHave>>

\* It is cancelled, or its slot ends.
BookingIsOver ==
  /\ upcoming /\ upcoming' = FALSE
  /\ UNCHANGED <<user, link, lastLink, acted, sessions, inFlight, othersHave>>

\* accountDeletionBlockers.
NoBlockers == ~upcoming

\* deleteAccount: the password is right, and the snapshot shows no blockers ...
ReadBlockers ==
  /\ SignedIn /\ user.password /\ NoBlockers
  /\ Begin(Request("delete"))
  /\ UNCHANGED <<user, link, lastLink, acted, sessions, othersHave, upcoming>>

\* ... and the SERIALIZABLE transaction commits: nothing else is SERIALIZABLE,
\* so that only a second deletion conflicts with it.
DeleteAccount(r) ==
  /\ r.op = "delete"
  /\ inFlight' = inFlight \ {r}
  /\ \/ /\ user.deleted
        /\ UNCHANGED <<user, link, sessions>>
     \/ /\ ~user.deleted
        /\ user' = [NoUser EXCEPT !.row = TRUE, !.deleted = TRUE]
        /\ link' = [k \in Kinds |-> NoLink]
        /\ sessions' = 0
  /\ UNCHANGED <<lastLink, acted, othersHave, upcoming>>

AccountNext ==
  \/ LookUpToRegister \/ CheckCredentials \/ SignOut \/ LookUpGoogle
  \/ AskReset \/ AskPasswordChange
  \/ \E a \in Addresses : AskEmailChange(a) \/ OthersTake(a)
  \/ \E k \in Kinds : OpenLink(k) \/ LinkExpires(k)
  \/ BeginReservation \/ BookingIsOver \/ ReadBlockers
  \/ \E r \in inFlight :
       \/ Register(r) \/ CreateSession(r) \/ LinkGoogle(r)
       \/ RequestPasswordReset(r) \/ RequestEmailChange(r) \/ ChangePassword(r)
       \/ VerifyEmail(r) \/ ConfirmPasswordReset(r) \/ ConfirmEmailChange(r)
       \/ DeadLink(r) \/ ResetFails(r) \/ ChangeFails(r)
       \/ CommitReservation(r) \/ DeleteAccount(r)

AccountSpec == AccountInit /\ [][AccountNext]_accountVars

-----------------------------------------------------------------------------
(* Properties.                                                             *)

\* The account, its links and its sessions have their shapes.
AccountTypeOK ==
  /\ user.email \in Addresses
  /\ user.verified => user.row
  /\ \A k \in Kinds : link[k].number <= lastLink
  /\ sessions \in 0..MaxSessions
  /\ \A r \in inFlight :
       r.op \in Kinds \cup {"register", "session", "google", "reserve", "delete",
                             "askReset", "askChange", "password"}

\* A link has its effect at most once, however often it is opened at once,
\* and a link that was replaced, or withdrawn by a change, a reset or a
\* deletion, has none.
LinkActsOnce == AccountTypeOK /\ \A n \in 1..MaxLinks : acted[n] <= 1
=============================================================================
