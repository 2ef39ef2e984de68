----------------------------- MODULE FrontDoor -----------------------------
(***************************************************************************)
(* The HTTP surface of the API (apps/api/src/app): what a request has to   *)
(* get past, and in which order, before the feature behind its route runs: *)
(* the guards of lib/auth/api-guard.ts, the allowances of                  *)
(* lib/security/rate-limit.ts, and the shape of its path and body.         *)
(*                                                                         *)
(* A route is what its handler is: for whom it is, what its call does to   *)
(* the system, and the checks it makes before the call.  An allowance that *)
(* the feature itself spends first is the last check of its route.  One    *)
(* client sends one request after another to the routes that share an      *)
(* allowance, and may vary everything about it that the checks read.  The  *)
(* window of an allowance is RateLimit's subject; here it does not end.    *)
(***************************************************************************)
EXTENDS Integers, Sequences

CONSTANT Allowance  \* bound: requests a scope allows, for every policy

ASSUME FrontDoorAssumption == Allowance \in Nat \ {0}

Check(what) == [do |-> what, scope |-> ""]

\* The guards, by what they are called.
Session == Check("requireApiSession")
Mutation == Check("requireApiMutation")
Operator == Check("requireOperator")
OperatorMutation == Check("requireOperatorMutation")
SameOrigin == Check("crossOriginRefusal")

Path == Check("path")    \* the contract's shape of the path
Body == Check("body")    \* and of the query, the header or the body
Proof == Check("proof")  \* the provider's signature, the state Google brings back

Meter(scope) == [do |-> "meter", scope |-> scope]
\* An allowance spent only by a body that carries a voucher code.
MeterCode(scope) == [do |-> "meterCode", scope |-> scope]
\* One a stop does not spend (overrideIsExemptFromMetering,
\* weatherHoldIsExemptFromMetering).
MeterUnlessStop(scope) == [do |-> "meterUnlessStop", scope |-> scope]

(***************************************************************************)
(* The routes.  A call reads, writes (it starts or widens something), does *)
(* once what cannot be repeated, stops the telescope, or does either.      *)
(***************************************************************************)
Route(for, call, effect, checks) == [for |-> for, call |-> call, effect |-> effect, checks |-> checks]
Admin(call, effect, checks) == Route("operators", call, effect, checks)
Customer(call, effect, checks) == Route("customers", call, effect, checks)
Public(call, effect, checks) == Route("anyone", call, effect, checks)

GET_admin_logs == Admin("listAuditEvents", "read", <<Operator, Body>>)
POST_admin_loyalty_adjustments == Admin("adjustLoyaltyPoints", "write", <<OperatorMutation, Meter("loyalty-adjustment"), Body>>)
GET_admin_missions == Admin("listAllMissions", "read", <<Operator, Body>>)
POST_admin_missions_id_cancel == Admin("cancelMissionAsOperator", "stop", <<OperatorMutation, Path, Body>>)
GET_admin_network_nodes == Admin("listNetworkNodes", "read", <<Operator, Body>>)
GET_admin_network_nodes_id == Admin("getNetworkNodeReview", "read", <<Operator, Path>>)
POST_admin_network_nodes_id_approve == Admin("approveNetworkNode", "write", <<OperatorMutation, Meter("admin-network-node-approve"), Body>>)
POST_admin_network_nodes_id_devicetoken == Admin("issueDeviceToken", "write", <<OperatorMutation, Path, Meter("admin-network-node-device-token-issue"), Body>>)
POST_admin_network_nodes_id_devicetoken_revoke == Admin("revokeDeviceToken", "stop", <<OperatorMutation, Path, Body>>)
POST_admin_network_nodes_id_devicetoken_rotate == Admin("rotateDeviceToken", "write", <<OperatorMutation, Path, Meter("admin-network-node-device-token-rotate"), Body>>)
POST_admin_network_nodes_id_suspend == Admin("suspendNetworkNode", "stop", <<OperatorMutation, Body>>)
GET_admin_observatories == Admin("listObservatoriesForOperator", "read", <<Operator>>)
POST_admin_observatories_id_mode == Admin("setObservatoryMode", "write", <<OperatorMutation, Path, Body, Meter("admin-observatory-mode")>>)
GET_admin_observatories_id_safetyenvelope == Admin("loadSafetyEnvelope", "read", <<Operator, Path>>)
PUT_admin_observatories_id_safetyenvelope == Admin("setSafetyEnvelope", "write", <<OperatorMutation, Path, Body, Meter("admin-safety-envelope")>>)
GET_admin_observatories_id_state == Admin("readOperatorObservatoryState", "read", <<Operator, Path>>)
POST_admin_observatories_id_testmission == Admin("scheduleTestMission", "write", <<OperatorMutation, Path, Body, Meter("admin-test-mission")>>)
POST_admin_observatories_id_weatherhold == Admin("setWeatherHold", "either", <<OperatorMutation, Path, Body, MeterUnlessStop("admin-weather-hold-clear")>>)
POST_admin_override == Admin("issueOperatorOverride", "either", <<OperatorMutation, Body, MeterUnlessStop("operator-override")>>)
PATCH_admin_targets_id == Admin("updateTargetAsOperator", "write", <<OperatorMutation, Path, Body, Meter("admin-target-update")>>)

GET_auth_google_callback == Public("completeGoogleSignIn", "read", <<Proof>>)
GET_auth_google_start == Public("startGoogleSignIn", "read", <<Meter("google")>>)
POST_auth_nativesignin == Public("signInNative", "write", <<Body, Meter("sign-in")>>)
POST_auth_passwordreset == Public("requestPasswordReset", "write", <<SameOrigin, Body, Meter("password-reset")>>)
POST_auth_passwordreset_confirm == Public("confirmPasswordReset", "once", <<SameOrigin, Body>>)
POST_auth_register == Public("register", "write", <<SameOrigin, Body, Meter("register")>>)
POST_auth_signin == Public("signIn", "write", <<SameOrigin, Body, Meter("sign-in")>>)
POST_auth_signout == Customer("deleteCurrentSession", "once", <<Mutation>>)
POST_auth_verifyemail == Public("confirmEmailChange", "once", <<SameOrigin, Body>>)

GET_bookings == Customer("listMyBookings", "read", <<Session>>)
POST_bookings == Customer("reserveSlot", "write", <<Mutation, Meter("booking"), Body, MeterCode("voucher-redemption"), Body>>)
GET_bookings_id == Customer("getMyBooking", "read", <<Session, Path>>)
POST_bookings_id_cancel == Customer("cancelMyBooking", "write", <<Mutation, Meter("booking-cancel"), Path, Body>>)
POST_bookings_id_refund == Customer("refundMyBooking", "write", <<Mutation, Meter("booking-refund"), Path>>)
POST_bookings_id_reschedule == Customer("rescheduleMyBooking", "write", <<Mutation, Meter("booking-reschedule"), Path, Body>>)

GET_captures == Customer("listCaptures", "read", <<Session>>)
GET_captures_id == Customer("getCapture", "read", <<Session>>)
PATCH_captures_id == Customer("setCaptureVisibility", "write", <<Mutation, Meter("capture-visibility"), Path, Body>>)
GET_captures_id_download == Customer("getCaptureDownload", "read", <<Session, Path, Body>>)

POST_carddraws_id_pick == Customer("pickCard", "once", <<Mutation, Path, Body>>)
GET_carddraws_current == Customer("readCurrentCardDraw", "read", <<Session, Body>>)
GET_carddraws_odds == Public("readCardDrawOdds", "read", <<>>)

GET_gallery_id == Public("getGalleryCapture", "read", <<Path>>)

GET_health == Public("health", "read", <<>>)

GET_loyalty == Customer("readLoyaltyAccount", "read", <<Session>>)
GET_loyalty_scheme == Public("readPublicLoyaltyScheme", "read", <<>>)

GET_me == Customer("toContractUser", "read", <<Session>>)
PATCH_me == Customer("updateProfile", "write", <<Mutation, Meter("profile"), Body>>)
DELETE_me == Customer("deleteAccount", "write", <<Mutation, Body, Meter("account-deletion")>>)
POST_me_email == Customer("requestEmailChange", "write", <<Mutation, Body, Meter("email-change")>>)
POST_me_password == Customer("changePassword", "write", <<Mutation, Body, Meter("password-change")>>)

GET_missions == Customer("listMyMissions", "read", <<Session>>)
GET_missions_id == Customer("getMyMission", "read", <<Session, Path>>)
PATCH_missions_id_broadcast == Customer("setMissionBroadcast", "write", <<Mutation, Path, Meter("mission-broadcast"), Body>>)
POST_missions_id_command == Customer("mintMissionCommand", "write", <<Mutation, Path, Meter("mission-command"), Body>>)
GET_missions_id_events == Customer("listMissionEvents", "read", <<Session, Path>>)
PATCH_missions_id_observation == Customer("setMissionObservation", "write", <<Mutation, Path, Meter("mission-observation"), Body>>)
POST_missions_id_observerpack == Customer("purchaseObserverPack", "write", <<Mutation, Path, Meter("observer-pack"), Body, MeterCode("voucher-redemption")>>)
GET_missions_id_observers == Customer("listMissionObservers", "read", <<Session, Path>>)
POST_missions_id_observers == Customer("takeObserverSeat", "write", <<Mutation, Path, Meter("observer-seat")>>)
DELETE_missions_id_observers == Customer("releaseObserverSeat", "write", <<Mutation, Path, Meter("observer-seat")>>)
POST_missions_id_start == Customer("startMissionSession", "write", <<Mutation, Path, Meter("mission-start")>>)
GET_missions_id_targets == Customer("listMissionTargets", "read", <<Session, Path>>)
GET_missions_id_watch == Customer("getMissionWatchView", "read", <<Session, Path>>)

GET_network_nodes == Customer("listMyNetworkNodes", "read", <<Session>>)
POST_network_nodes == Customer("registerNetworkNode", "write", <<Mutation, Meter("network-node-register"), Body>>)
POST_network_nodes_id_submit == Customer("submitNetworkNodeForReview", "write", <<Mutation, Meter("network-node-submit")>>)

GET_observatories == Public("listBookableObservatories", "read", <<>>)
GET_observatories_id_conditions == Public("readViewingConditions", "read", <<Path>>)
GET_observatories_id_horizon == Public("readObservatoryHorizon", "read", <<Path>>)
GET_observatories_id_state == Public("readPublicObservatoryStatus", "read", <<Path>>)
GET_observatories_id_uptime == Public("readObservatoryUptime", "read", <<Path>>)

GET_payments_id_checkout == Customer("openBogCheckout", "read", <<Session, Meter("payment-checkout"), Path>>)
GET_payments_id_sandboxcheckout == Customer("readSandboxCheckout", "read", <<Session, Path>>)
POST_payments_id_sandboxcheckout == Customer("confirmSandboxCheckout", "write", <<Mutation, Meter("sandbox-checkout"), Path, Body>>)
POST_payments_bog_callback == Public("receiveBogCallback", "write", <<Meter("payment-webhook")>>)
POST_payments_webhook == Public("settlePayment", "write", <<Meter("payment-webhook"), Body, Proof>>)

GET_prizes == Customer("listMyCardPrizes", "read", <<Session>>)

GET_slots == Public("listSlotsForDate", "read", <<Path>>)

GET_subscription == Customer("readMySubscription", "read", <<Session>>)
POST_subscription == Customer("subscribe", "write", <<Mutation, Meter("subscription"), Body>>)
POST_subscription_cancel == Customer("cancelMySubscription", "write", <<Mutation, Meter("subscription")>>)
POST_subscription_pause == Customer("pauseMySubscription", "write", <<Mutation, Meter("subscription")>>)
GET_subscription_plans == Public("readSubscriptionPlans", "read", <<>>)
POST_subscription_resume == Customer("resumeMySubscription", "write", <<Mutation, Meter("subscription")>>)

GET_targets == Public("listTargets", "read", <<>>)
GET_targets_id == Public("getTargetBySlug", "read", <<Path>>)
GET_targets_tonight == Public("listTonightTargets", "read", <<Path>>)
GET_targets_visibility == Public("listSlotTargets", "read", <<Body>>)

GET_tonight == Public("readTonight", "read", <<>>)

GET_votes == Public("readWeekVote", "read", <<Body>>)
POST_votes == Customer("castVote", "once", <<Mutation, Body>>)

GET_vouchers == Customer("listMyGiftVouchers", "read", <<Session>>)
POST_vouchers == Customer("purchaseGiftVoucher", "write", <<Mutation, Meter("voucher-purchase"), Body>>)

GET_waitlist == Customer("listMyWaitlistEntries", "read", <<Session>>)
POST_waitlist == Customer("joinWaitlist", "write", <<Mutation, Meter("waitlist-join"), Body>>)
DELETE_waitlist_id == Customer("leaveWaitlist", "write", <<Mutation, Meter("waitlist-leave"), Path>>)

Routes == {
  GET_admin_logs, POST_admin_loyalty_adjustments, GET_admin_missions, POST_admin_missions_id_cancel,
  GET_admin_network_nodes, GET_admin_network_nodes_id, POST_admin_network_nodes_id_approve,
  POST_admin_network_nodes_id_devicetoken, POST_admin_network_nodes_id_devicetoken_revoke,
  POST_admin_network_nodes_id_devicetoken_rotate, POST_admin_network_nodes_id_suspend,
  GET_admin_observatories, POST_admin_observatories_id_mode, GET_admin_observatories_id_safetyenvelope,
  PUT_admin_observatories_id_safetyenvelope, GET_admin_observatories_id_state,
  POST_admin_observatories_id_testmission, POST_admin_observatories_id_weatherhold, POST_admin_override,
  PATCH_admin_targets_id, GET_auth_google_callback, GET_auth_google_start, POST_auth_nativesignin,
  POST_auth_passwordreset, POST_auth_passwordreset_confirm, POST_auth_register, POST_auth_signin,
  POST_auth_signout, POST_auth_verifyemail, GET_bookings, POST_bookings, GET_bookings_id,
  POST_bookings_id_cancel, POST_bookings_id_refund, POST_bookings_id_reschedule, GET_captures,
  GET_captures_id, PATCH_captures_id, GET_captures_id_download, POST_carddraws_id_pick,
  GET_carddraws_current, GET_carddraws_odds, GET_gallery_id, GET_health, GET_loyalty, GET_loyalty_scheme,
  GET_me, PATCH_me, DELETE_me, POST_me_email, POST_me_password, GET_missions, GET_missions_id,
  PATCH_missions_id_broadcast, POST_missions_id_command, GET_missions_id_events,
  PATCH_missions_id_observation, POST_missions_id_observerpack, GET_missions_id_observers,
  POST_missions_id_observers, DELETE_missions_id_observers, POST_missions_id_start, GET_missions_id_targets,
  GET_missions_id_watch, GET_network_nodes, POST_network_nodes, POST_network_nodes_id_submit,
  GET_observatories, GET_observatories_id_conditions, GET_observatories_id_horizon,
  GET_observatories_id_state, GET_observatories_id_uptime, GET_payments_id_checkout,
  GET_payments_id_sandboxcheckout, POST_payments_id_sandboxcheckout, POST_payments_bog_callback,
  POST_payments_webhook, GET_prizes, GET_slots, GET_subscription, POST_subscription,
  POST_subscription_cancel, POST_subscription_pause, GET_subscription_plans, POST_subscription_resume,
  GET_targets, GET_targets_id, GET_targets_tonight, GET_targets_visibility, GET_tonight, GET_votes,
  POST_votes, GET_vouchers, POST_vouchers, GET_waitlist, POST_waitlist, DELETE_waitlist_id}

(***************************************************************************)
(* A request on its way                                                    *)
(***************************************************************************)
VARIABLES
  desk,      \* the routes this client's requests go to
  request,   \* what it sent last
  step,      \* how many checks it has passed
  answer,    \* none while it is on its way, then REFUSED, RATE_LIMITED or CALLED
  spent,     \* what each scope has let through to it
  served     \* how often each route's call was reached by a request that was no stop

doorVars == <<desk, request, step, answer, spent, served>>

Scopes(r) == {r.checks[i].scope : i \in DOMAIN r.checks} \ {""}
Family(r) == {q \in Routes : q = r \/ Scopes(q) \cap Scopes(r) # {}}

DoorInit ==
  /\ desk \in {Family(r) : r \in Routes}
  /\ request = [route |-> CHOOSE r \in desk : TRUE, cookie |-> FALSE, bearer |-> "none", site |-> FALSE,
                operator |-> FALSE, fine |-> FALSE, stop |-> FALSE, code |-> FALSE, proof |-> FALSE]
  /\ step = 0
  /\ answer = "REFUSED"
  /\ spent = [s \in UNION {Scopes(r) : r \in desk} |-> 0]
  /\ served = [r \in desk |-> 0]

Asks(r, what) == \E i \in DOMAIN r.checks : r.checks[i].do = what
Choice(b) == IF b THEN BOOLEAN ELSE {FALSE}

\* A browser's request carries a cookie and comes from this site or another; a
\* native client's carries an Authorization header, good or not.
Arrive(r) ==
  /\ answer # "none"
  /\ \A q \in desk : served[q] <= Allowance
  /\ \E cookie, site, operator, fine \in BOOLEAN, bearer \in {"none", "good", "bad"},
        stop \in Choice(r.effect = "either"), code \in Choice(Asks(r, "meterCode")), proof \in Choice(Asks(r, "proof")) :
       request' = [route |-> r, cookie |-> cookie, bearer |-> bearer, site |-> site, operator |-> operator,
                   fine |-> fine, stop |-> stop \/ r.effect = "stop", code |-> code, proof |-> proof]
  /\ step' = 0
  /\ answer' = "none"
  /\ UNCHANGED <<desk, spent, served>>

\* Mutant of Authenticated: a header that is no credential falls back to the cookie.
AuthenticatedSomehow(q) == q.cookie \/ q.bearer = "good"

\* getCurrentSession: a request with an Authorization header is judged by it
\* alone.
Authenticated(q) == IF q.bearer = "none" THEN q.cookie ELSE q.bearer = "good"

\* crossOriginRefusal: no Origin, or another, is refused.
FromTheSite(q) == q.site

\* requireApiMutation: no Origin is asked of a request with the header.
Mutates(q) == Authenticated(q) /\ (q.bearer # "none" \/ FromTheSite(q))

\* requireOperator, requireOperatorMutation
IsOperator(q) == q.operator

Clears(q, check) ==
  CASE check.do = "requireApiSession" -> Authenticated(q)
    [] check.do = "requireApiMutation" -> Mutates(q)
    [] check.do = "requireOperator" -> Authenticated(q) /\ IsOperator(q)
    [] check.do = "requireOperatorMutation" -> Mutates(q) /\ IsOperator(q)
    [] check.do = "crossOriginRefusal" -> FromTheSite(q)
    [] check.do = "proof" -> q.proof
    [] check.do \in {"path", "body"} -> q.fine
    [] OTHER -> TRUE

\* Whether this check spends an allowance of this request.
Meters(q, check) ==
  \/ check.do = "meter"
  \/ check.do = "meterCode" /\ q.code
  \/ check.do = "meterUnlessStop" /\ ~q.stop

\* The handler's next check.
MakeCheck ==
  LET check == request.route.checks[step + 1] IN
  /\ answer = "none"
  /\ step < Len(request.route.checks)
  /\ IF Meters(request, check)
     THEN IF spent[check.scope] < Allowance
          THEN /\ spent' = [spent EXCEPT ![check.scope] = @ + 1]
               /\ step' = step + 1
               /\ UNCHANGED answer
          ELSE /\ answer' = "RATE_LIMITED"
               /\ UNCHANGED <<spent, step>>
     ELSE IF Clears(request, check)
          THEN /\ step' = step + 1
               /\ UNCHANGED <<spent, answer>>
          ELSE /\ answer' = "REFUSED"
               /\ UNCHANGED <<spent, step>>
  /\ UNCHANGED <<desk, request, served>>

\* Every check passed: the feature runs.
Call ==
  /\ answer = "none"
  /\ step = Len(request.route.checks)
  /\ answer' = "CALLED"
  /\ served' = IF request.stop \/ request.route.effect = "read" \/ served[request.route] > Allowance
               THEN served ELSE [served EXCEPT ![request.route] = @ + 1]
  /\ UNCHANGED <<desk, request, step, spent>>

DoorNext == (\E r \in desk : Arrive(r)) \/ MakeCheck \/ Call

DoorSpec == DoorInit /\ [][DoorNext]_doorVars

(***************************************************************************)
(* Properties                                                              *)
(***************************************************************************)
\* Whether the request comes from somebody the route is for, and not from
\* another site by way of their browser.
Rightful(q) ==
  /\ q.route.for = "operators" => q.operator
  /\ q.route.for # "anyone" =>
       (q.bearer = "good" \/ (q.bearer = "none" /\ q.cookie /\ (q.site \/ q.route.effect = "read")))

\* An operator's stop is never refused: whatever allowances the account has
\* spent, a park, an abort, a hold, a cancellation, a suspension or a
\* revocation that is well formed reaches its call (the rule
\* metered-routes.test.ts states).
StopsGetThrough == answer \in {"REFUSED", "RATE_LIMITED"} /\ request.stop => ~Rightful(request) \/ ~request.fine

\* What changes anything is reached only by somebody it is for, never from
\* another site on their cookie, and what starts or widens something no more
\* often than its allowance, whichever of the routes that share it are used
\* and however the request authenticates.
ChangesAreRightful ==
  /\ answer = "CALLED" => Rightful(request)
  /\ \A r \in desk : r.effect \in {"write", "either"} => served[r] <= Allowance
=============================================================================
