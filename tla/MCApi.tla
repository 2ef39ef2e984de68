-------------------------------- MODULE MCApi -------------------------------
(***************************************************************************)
(* What the API does for one request at a time, many at once: seats of a   *)
(* session, card draws, the loyalty ledger, accounts, an operator's        *)
(* control of an observatory, the pointing rule, an allowance, and the     *)
(* checks in front of every route.  The parts share no row, so a behaviour *)
(* is of one of them, chosen at the start, and the others rest: their      *)
(* state spaces are added.                                                 *)
(***************************************************************************)
EXTENDS ObserverPacks, CardDraws, Loyalty, Accounts, Pointing, ApiDoor

CONSTANTS ann, bob, ka, kb

VARIABLE part

\* bob was referred by ann; each buys once.
MCMembers == {ann, bob}
MCReferrer == (bob :> ann) @@ (ann :> Noone)
MCBuyer == (ka :> ann) @@ (kb :> bob)

apiVars == <<packVars, drawVars, loyaltyVars, accountVars, controlVars, question, meterVars, doorVars, part>>

\* A part that rests has one initial state.
MCInit ==
  /\ part \in {"packs", "draws", "loyalty", "accounts", "control", "pointing", "meter", "door"}
  /\ PackInit /\ DrawInit /\ LoyaltyInit /\ AccountInit /\ ControlInit /\ PointingInit /\ MeterInit /\ DoorInit
  /\ part # "packs" => ends /\ provider = "SANDBOX"
  /\ part # "control" => approval = "APPROVED"
  /\ part # "door" => desk = Family(GET_health)

MCNext ==
  \/ /\ part = "packs" /\ PackNext
     /\ UNCHANGED <<drawVars, loyaltyVars, accountVars, controlVars, question, meterVars, doorVars, part>>
  \/ /\ part = "draws" /\ DrawNext
     /\ UNCHANGED <<packVars, loyaltyVars, accountVars, controlVars, question, meterVars, doorVars, part>>
  \/ /\ part = "loyalty" /\ LoyaltyNext
     /\ UNCHANGED <<packVars, drawVars, accountVars, controlVars, question, meterVars, doorVars, part>>
  \/ /\ part = "accounts" /\ AccountNext
     /\ UNCHANGED <<packVars, drawVars, loyaltyVars, controlVars, question, meterVars, doorVars, part>>
  \/ /\ part = "control" /\ ControlNext
     /\ UNCHANGED <<packVars, drawVars, loyaltyVars, accountVars, question, meterVars, doorVars, part>>
  \/ /\ part = "pointing" /\ PointingNext
     /\ UNCHANGED <<packVars, drawVars, loyaltyVars, accountVars, controlVars, meterVars, doorVars, part>>
  \/ /\ part = "meter" /\ MeterNext
     /\ UNCHANGED <<packVars, drawVars, loyaltyVars, accountVars, controlVars, question, doorVars, part>>
  \/ /\ part = "door" /\ DoorNext
     /\ UNCHANGED <<packVars, drawVars, loyaltyVars, accountVars, controlVars, question, meterVars, part>>

MCSpec == MCInit /\ [][MCNext]_apiVars
=============================================================================
