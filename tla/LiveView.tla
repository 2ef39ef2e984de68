------------------------------ MODULE LiveView ------------------------------
(***************************************************************************)
(* The live view of one mission: the agent sends a header and then the     *)
(* pixels of each frame (agent-link.ts), the service keeps the newest      *)
(* frame (stream/frames.ts), offers its address to the customers who are   *)
(* subscribed to the mission (mission/channel.ts, mission/broadcast.ts),   *)
(* and writes frames to every admitted response (stream/http.ts): to a     *)
(* viewer with a session or a seat and a signed address, and to a limited  *)
(* number of spectators while the mission is open to them.                 *)
(*                                                                         *)
(* Requests are cut at their database reads.  What a viewer is entitled to *)
(* changes in the API (MissionSessions, ObserverPacks).                    *)
(***************************************************************************)
EXTENDS Naturals, Sequences, FiniteSets

CONSTANTS
  Viewers, Spectators,
  Capacity,       \* SPECTATOR_CAPACITY
  Size,           \* a size for each frame
  MaxFrames,      \* frames told apart; the agent sends any number
  MaxGrants       \* times a viewer's entitlement, or tonight's list, changes

ASSUME ViewAssumption ==
  IsFiniteSet(Spectators) /\ Capacity \in Nat /\ MaxFrames \in Nat \ {0}

Frames == 1..MaxFrames
Watchers == Viewers \cup Spectators

VARIABLES
  over,        \* the mission has ended
  wire,        \* what the agent has sent and the service has not handled
  sent,        \* the frame the agent sent last
  pairing,     \* awaitingPixels: the header whose pixels are to come
  publishing,  \* frames whose mission is being looked up
  owned,       \* ... and the answer is remembered
  frame,       \* the newest frame, as a set
  fresh,       \* ... and it is not older than LIVE_FRAME_MAX_AGE_SECONDS
  entitled,    \* viewers with a current session or a seat
  tonight,     \* the mission is open to spectators
  changes,
  channel,     \* each viewer's mission channel
  offer,       \* the signed address a viewer holds
  view,        \* how far each watcher's request has come
  gate         \* SpectatorGate's count

frameVars == <<wire, sent, pairing, publishing, owned>>
storeVars == <<frame, fresh>>
grantVars == <<entitled, tonight, changes>>
channelVars == <<channel, offer>>
viewVars == <<view, gate>>
liveVars == <<over, frameVars, storeVars, grantVars, channelVars, viewVars>>

ViewInit ==
  /\ over = FALSE
  /\ wire = <<>> /\ sent = 0 /\ pairing = {} /\ publishing = {} /\ owned = FALSE
  /\ frame = {} /\ fresh = FALSE
  /\ entitled = Viewers /\ tonight = TRUE /\ changes = 0
  /\ channel = [v \in Viewers |-> "none"]
  /\ offer = [v \in Viewers |-> "none"]
  /\ view = [w \in Watchers |-> "none"] /\ gate = 0

-----------------------------------------------------------------------------
(* Frames.                                                                 *)

Item(kind, f) == [kind |-> kind, frame |-> f]

\* External, send_live_frame: header and pixels back to back.  A header the
\* contract refuses is followed by its pixels all the same.  The wire holds one
\* frame; look-ups of earlier ones may still be outstanding.
SendLiveFrame ==
  /\ wire = <<>> /\ ~over
  /\ sent' = (sent % MaxFrames) + 1
  /\ \E kind \in {"header", "refused"} :
       wire' = <<Item(kind, sent'), Item("pixels", sent')>>
  /\ UNCHANGED <<over, pairing, publishing, owned, storeVars, grantVars,
                 channelVars, viewVars>>

\* receive of an AGENT_LIVE_FRAME, and of a message the contract refuses.
ReceiveHeader ==
  /\ wire # <<>> /\ Head(wire).kind # "pixels"
  /\ wire' = Tail(wire)
  /\ pairing' = IF Head(wire).kind = "header" THEN {Head(wire).frame} ELSE {}
  /\ UNCHANGED <<over, sent, publishing, owned, storeVars, grantVars,
                 channelVars, viewVars>>

\* offerStream to a subscribed channel that holds no address to last.
OfferTo(chan, old) ==
  [v \in Viewers |-> IF chan[v] = "SUBSCRIBED" /\ old[v] # "valid"
                     THEN "valid" ELSE old[v]]

\* liveFrameArrived: kept, offered, and written to every open response.
LiveFrameArrived(p) ==
  /\ frame' = {p} /\ fresh' = TRUE
  /\ offer' = OfferTo(channel, offer)

\* receiveBinary: the header is taken before any wait.  A mission already
\* looked up on this link is known at once.
ReceiveBinary ==
  /\ wire # <<>> /\ Head(wire).kind = "pixels"
  /\ wire' = Tail(wire)
  /\ pairing' = {}
  /\ LET paired == {[header |-> h, pixels |-> Head(wire).frame] :
                      h \in {g \in pairing : Size[g] = Size[Head(wire).frame]}}
     IN IF owned
        THEN /\ IF paired = {} THEN UNCHANGED <<storeVars, offer>>
                ELSE \A p \in paired : LiveFrameArrived(p)
             /\ UNCHANGED publishing
        ELSE /\ publishing' = publishing \cup paired
             /\ UNCHANGED <<storeVars, offer>>
  /\ UNCHANGED <<over, sent, owned, grantVars, channel, viewVars>>

\* A plausible slip: the header is read after the look-up.
PublishPending(p) ==
  /\ publishing' = publishing \ {p}
  /\ owned' = TRUE
  /\ \E h \in IF pairing = {} THEN {p.header} ELSE pairing :
       LiveFrameArrived([p EXCEPT !.header = h])
  /\ UNCHANGED <<over, wire, sent, pairing, grantVars, channel, viewVars>>

\* The rest of receiveBinary, when observatoryOwnsMission has answered.
Publish(p) ==
  /\ publishing' = publishing \ {p}
  /\ owned' = TRUE
  /\ LiveFrameArrived(p)
  /\ UNCHANGED <<over, wire, sent, pairing, grantVars, channel, viewVars>>

Open == {w \in Watchers : view[w] = "open"}

\* release: the frame is forgotten and every response on it finished.
Release ==
  /\ frame' = {} /\ fresh' = FALSE
  /\ view' = [w \in Watchers |-> IF view[w] = "open" THEN "none" ELSE view[w]]
  /\ gate' = gate - Cardinality(Open \cap Spectators)

\* missionMoved with a terminal state.
MissionEnds ==
  /\ ~over
  /\ over' = TRUE
  /\ Release
  /\ UNCHANGED <<frameVars, grantVars, channelVars>>

\* The agent's link closes, releaseObservatory, and another is opened.
LinkCloses ==
  /\ wire' = <<>> /\ pairing' = {} /\ owned' = FALSE
  /\ frame # {}
  /\ Release
  /\ UNCHANGED <<over, sent, publishing, grantVars, channelVars>>

\* No newer frame comes for LIVE_FRAME_MAX_AGE_SECONDS.
FrameAges ==
  /\ fresh
  /\ fresh' = FALSE
  /\ UNCHANGED <<over, frameVars, frame, grantVars, channelVars, viewVars>>

\* releaseStale, on the heartbeat timer.
ReleaseStale ==
  /\ frame # {} /\ ~fresh
  /\ Release
  /\ UNCHANGED <<over, frameVars, grantVars, channelVars>>

-----------------------------------------------------------------------------
(* Customers.                                                              *)

\* The API gives or withdraws a seat, replaces a session, opens or closes the
\* mission to spectators.
ChangeGrants ==
  /\ changes < MaxGrants /\ changes' = changes + 1
  /\ \/ /\ \E v \in Viewers :
             entitled' = IF v \in entitled THEN entitled \ {v} ELSE entitled \cup {v}
        /\ UNCHANGED tonight
     \/ tonight' = ~tonight /\ UNCHANGED entitled
  /\ UNCHANGED <<over, frameVars, storeVars, channelVars, viewVars>>

\* watch: a signed-in customer opens a channel, which is served nothing yet.
OpenChannel(v) ==
  /\ channel[v] = "none"
  /\ channel' = [channel EXCEPT ![v] = "AWAITING"]
  /\ UNCHANGED <<over, frameVars, storeVars, grantVars, offer, viewVars>>

\* admitController, by the session it names, and admitObserver, by a seat.
Admitted(v) == v \in entitled

\* subscribe: refused and closed, or subscribed and offered the view there is.
Subscribe(v) ==
  /\ channel[v] = "AWAITING"
  /\ IF Admitted(v)
     THEN /\ channel' = [channel EXCEPT ![v] = "SUBSCRIBED"]
          /\ offer' = IF frame = {} THEN [offer EXCEPT ![v] = "none"]
                      ELSE [offer EXCEPT ![v] = "valid"]
     ELSE /\ channel' = [channel EXCEPT ![v] = "none"]
          /\ UNCHANGED offer
  /\ UNCHANGED <<over, frameVars, storeVars, grantVars, viewVars>>

\* The customer leaves, or is idle too long for expireSilent.
CloseChannel(v) ==
  /\ channel[v] # "none"
  /\ channel' = [channel EXCEPT ![v] = "none"]
  /\ UNCHANGED <<over, frameVars, storeVars, grantVars, offer, viewVars>>

\* A signed address lasts STREAM_TOKEN_TTL_SECONDS.
OfferLapses(v) ==
  /\ offer[v] = "valid"
  /\ offer' = [offer EXCEPT ![v] = "lapsed"]
  /\ UNCHANGED <<over, frameVars, storeVars, grantVars, channel, viewVars>>

Now(w, step) ==
  /\ view' = [view EXCEPT ![w] = step]
  /\ UNCHANGED <<over, frameVars, storeVars, grantVars, channelVars, gate>>

\* handleStreamRequest: a viewer by a signed address, a spectator by none.
Request(w) ==
  /\ view[w] = "none"
  /\ w \in Viewers => offer[w] = "valid"
  /\ Now(w, "asking")

\* mayWatchMission: the open session of the mission, or a seat on it.
MayWatch(v) == v \in entitled

\* isOnTonight.
OnTonight == tonight /\ ~over

\* A plausible slip: the signed address is proof enough.
AuthoriseByToken(v) ==
  /\ v \in Viewers /\ view[v] = "asking"
  /\ Now(v, "granted")

\* authorise: the store is asked whether the viewer may still watch.
Authorise(v) ==
  /\ v \in Viewers /\ view[v] = "asking"
  /\ Now(v, IF MayWatch(v) THEN "granted" ELSE "none")

\* spectateMission, as far as the store is asked.
AskTonight(x) ==
  /\ x \in Spectators /\ view[x] = "asking"
  /\ Now(x, IF OnTonight THEN "granted" ELSE "none")

\* A plausible slip: the count is checked and taken apart.
StreamUncounted(w) ==
  /\ view[w] = "granted"
  /\ IF frame # {} /\ (w \in Spectators => gate < Capacity)
     THEN /\ view' = [view EXCEPT ![w] = "open"]
          /\ UNCHANGED gate
     ELSE /\ view' = [view EXCEPT ![w] = "none"]
          /\ UNCHANGED gate
  /\ UNCHANGED <<over, frameVars, storeVars, grantVars, channelVars>>

\* stream, with tryAdmit for a spectator: the newest frame is found, the place
\* taken and the response opened in one turn.
Stream(w) ==
  /\ view[w] = "granted"
  /\ IF frame # {} /\ (w \in Spectators => gate < Capacity)
     THEN /\ view' = [view EXCEPT ![w] = "open"]
          /\ gate' = IF w \in Spectators THEN gate + 1 ELSE gate
     ELSE /\ view' = [view EXCEPT ![w] = "none"]
          /\ UNCHANGED gate
  /\ UNCHANGED <<over, frameVars, storeVars, grantVars, channelVars>>

\* finish: once for each response.  A client that goes away before its
\* response is opened is not heard of, and the response is opened all the same.
Finish(w) ==
  /\ view[w] = "open"
  /\ view' = [view EXCEPT ![w] = "none"]
  /\ gate' = IF w \in Spectators THEN gate - 1 ELSE gate
  /\ UNCHANGED <<over, frameVars, storeVars, grantVars, channelVars>>

\* The address a response was opened with lapses, SPECTATOR_MAX_MS is over,
\* or the client goes away.
Deadline(w) == Finish(w)

\* The recheck of a spectator's response.
Recheck(x) == x \in Spectators /\ ~OnTonight /\ Finish(x)

-----------------------------------------------------------------------------
ViewNext ==
  \/ SendLiveFrame \/ ReceiveHeader \/ ReceiveBinary
  \/ \E p \in publishing : Publish(p)
  \/ MissionEnds \/ LinkCloses \/ FrameAges \/ ReleaseStale
  \/ ChangeGrants
  \/ \E v \in Viewers :
       OpenChannel(v) \/ Subscribe(v) \/ CloseChannel(v) \/ OfferLapses(v)
  \/ \E w \in Watchers :
       \/ Request(w) \/ Authorise(w) \/ AskTonight(w) \/ Stream(w)
       \/ Deadline(w) \/ Recheck(w)

ViewSpec == ViewInit /\ [][ViewNext]_liveVars

\* The timer that ends a response runs; an agent or a client may do nothing.
ViewFairness == \A v \in Viewers : WF_liveVars(Deadline(v))

ViewFairSpec == ViewSpec /\ ViewFairness

-----------------------------------------------------------------------------
(* Properties.                                                             *)

\* Every variable has its shape; nobody holds an address before a frame came.
ViewTypeOK ==
  /\ \A i \in DOMAIN wire : wire[i].frame \in Frames
  /\ pairing \subseteq Frames /\ Cardinality(pairing) <= 1
  /\ Cardinality(frame) <= 1
  /\ entitled \subseteq Viewers
  /\ channel \in [Viewers -> {"none", "AWAITING", "SUBSCRIBED"}]
  /\ offer \in [Viewers -> {"none", "valid", "lapsed"}]
  /\ view \in [Watchers -> {"none", "asking", "granted", "open"}]
  /\ gate \in Nat
  /\ (\E v \in Viewers : offer[v] # "none") => sent > 0

\* A frame is never shown with another frame's pixels, whatever headers are
\* refused, links replaced and look-ups outstanding.
PixelsAreTheirOwn == \A p \in frame : p.header = p.pixels

\* A response is never left open on a mission without a frame, and the gate
\* counts the spectators it let in, no more than it may.
OpenMeansServed ==
  /\ Open # {} => frame # {}
  /\ gate = Cardinality(Open \cap Spectators)
  /\ gate <= Capacity

\* What a viewer is served is a true picture of the mission, and no more are
\* served than may be.
ViewIsTrue == ViewTypeOK /\ PixelsAreTheirOwn /\ OpenMeansServed

\* A viewer whose session or seat is gone for good stops being served, though
\* the channel stays subscribed and goes on being offered addresses.
WithdrawnStopsWatching ==
  \A v \in Viewers : <>[](v \notin entitled) => <>[](view[v] # "open")
=============================================================================
