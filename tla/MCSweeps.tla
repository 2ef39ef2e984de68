------------------------------ MODULE MCSweeps ------------------------------
(***************************************************************************)
(* What the realtime service's timers do behind the customers' backs: the  *)
(* renewal of a subscription, the waitlist's offers, the delivery of       *)
(* emails.  The parts share no row, so a behaviour is of one of them,      *)
(* chosen at the start, and the others rest: their state spaces are added. *)
(***************************************************************************)
EXTENDS Subscriptions, Waitlist, EmailOutbox

VARIABLE part

\* A long place, and a short one in its second half.
MCPlaces == {<<2, 2>>, <<3, 1>>}

sweepVars == <<subVars, lineVars, mailVars, part>>

\* A part that rests has one initial state.
MCInit ==
  /\ part \in {"subscriptions", "line", "mail"}
  /\ SubInit /\ LineInit /\ MailInit
  /\ part # "line" => \A b \in booked : b.place = <<2, 2>>

MCNext ==
  \/ part = "subscriptions" /\ SubNext /\ UNCHANGED <<lineVars, mailVars, part>>
  \/ part = "line" /\ LineNext /\ UNCHANGED <<subVars, mailVars, part>>
  \/ part = "mail" /\ MailNext /\ UNCHANGED <<subVars, lineVars, part>>

\* SubFairness, LineFairness and MailFairness, of the part that runs.
MCFairness ==
  /\ WF_subVars(part = "subscriptions" /\ Decide)
  /\ WF_subVars(part = "subscriptions" /\ \E s \in settling :
       SettleFailure(s) \/ \E given \in BOOLEAN : SettleCapture(s, given))
  /\ \A p \in Passes : WF_lineVars(part = "line" /\ PassStep(p))
  /\ \A d \in Dispatches : WF_mailVars(part = "mail" /\ DispatchStep(d))
  /\ WF_mailVars(part = "mail" /\ MailTick)

MCSpec == MCInit /\ [][MCNext]_sweepVars /\ MCFairness
=============================================================================
