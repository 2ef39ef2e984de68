------------------------------- MODULE ApiDoor ------------------------------
(***************************************************************************)
(* What the checks in front of the routes (FrontDoor), the allowances they *)
(* spend (RateLimit) and the control of an observatory behind them         *)
(* (ObservatoryControl) promise together.                                  *)
(***************************************************************************)
EXTENDS ObservatoryControl, RateLimit, FrontDoor

\* An operator's stop is neither refused on its way in, whatever allowances are
\* spent, nor missed by the telescope it is for: metered-routes.test.ts,
\* setWeatherHold, revokeDeviceToken.
StopsAreCarriedOut == ControlTypeOK /\ StopsGetThrough /\ StopsReachTheTelescope

\* Behind the front door is only what somebody it is for asked for, no more
\* often than the allowance, and an allowance is what it says on the clock:
\* requireApiMutation, meterRequest, consumeRateLimit.
DoorHolds == ChangesAreRightful /\ WithinTheLimit
=============================================================================
