-------------------------- MODULE Realtime_proofs --------------------------
(***************************************************************************)
(* Proofs about the two parts of the realtime service that MCRealtime      *)
(* checks: LiveView, for every set of viewers, every finite set of         *)
(* spectators, every capacity and every size of the frames, and            *)
(* MissionIngest, for every set of captures, states an agent reports and   *)
(* bound on reports and faults.                                            *)
(***************************************************************************)
EXTENDS MissionIngest, LiveView, FiniteSetTheorems, TLAPS

-----------------------------------------------------------------------------
(* The live view.                                                          *)

Pairs == [header : Frames, pixels : Frames]

\* A header and the pixels that belong to it.
Own(p) == p \in Pairs /\ p.header = p.pixels

\* The wire holds at most one frame, or what is left of it; a header waits for
\* its pixels only while they are next.
WireOK ==
  /\ \/ wire = <<>>
     \/ \E f \in Frames, kind \in {"header", "refused"} :
          wire = <<Item(kind, f), Item("pixels", f)>>
     \/ \E f \in Frames : wire = <<Item("pixels", f)>>
  /\ \/ pairing = {}
     \/ \E f \in Frames : wire = <<Item("pixels", f)>> /\ pairing = {f}

\* What waits for its mission, and what is shown, was paired rightly.
FramesOK ==
  /\ \A p \in publishing : Own(p)
  /\ frame = {} \/ \E p \in Pairs : Own(p) /\ frame = {p}

\* Nothing is there of a frame before one was sent.
SentOK ==
  /\ sent \in 0..MaxFrames
  /\ (wire # <<>> \/ publishing # {} \/ frame # {}
        \/ \E v \in Viewers : offer[v] # "none") => sent > 0

PeopleOK ==
  /\ entitled \subseteq Viewers
  /\ channel \in [Viewers -> {"none", "AWAITING", "SUBSCRIBED"}]
  /\ offer \in [Viewers -> {"none", "valid", "lapsed"}]
  /\ view \in [Watchers -> {"none", "asking", "granted", "open"}]

ViewInv == WireOK /\ FramesOK /\ SentOK /\ PeopleOK /\ OpenMeansServed

\* The spectators with an open response are finitely many.
LEMMA OpenFinite ==
  ASSUME NEW S \in SUBSET Spectators
  PROVE  IsFiniteSet(S) /\ Cardinality(S) \in Nat
<1>1. IsFiniteSet(S)
  BY FS_Subset, ViewAssumption
<1> QED BY <1>1, FS_CardinalityType

\* The inductive invariant is stronger than the property.
LEMMA ViewInvIsEnough == ViewInv => ViewIsTrue
<1> SUFFICES ASSUME ViewInv PROVE ViewIsTrue
  OBVIOUS
<1>1. \A i \in DOMAIN wire : wire[i].frame \in Frames
  BY DEF ViewInv, WireOK, Item
<1>2. pairing \subseteq Frames /\ Cardinality(pairing) <= 1
  <2>1. CASE pairing = {}
    BY <2>1, FS_EmptySet
  <2>2. CASE \E f \in Frames : pairing = {f}
    <3>1. PICK f \in Frames : pairing = {f}
      BY <2>2
    <3>2. Cardinality({f}) = 1
      BY FS_Singleton
    <3> QED BY <3>1, <3>2
  <2> QED BY <2>1, <2>2 DEF ViewInv, WireOK
<1>3. Cardinality(frame) <= 1
  <2>1. CASE frame = {}
    BY <2>1, FS_EmptySet
  <2>2. CASE \E p : frame = {p}
    <3>1. PICK p : frame = {p}
      BY <2>2
    <3>2. Cardinality({p}) = 1
      BY FS_Singleton
    <3> QED BY <3>1, <3>2
  <2> QED BY <2>1, <2>2 DEF ViewInv, FramesOK
<1>4. gate \in Nat
  BY OpenFinite DEF ViewInv, OpenMeansServed
<1>5. PixelsAreTheirOwn
  BY DEF ViewInv, FramesOK, Own, PixelsAreTheirOwn
<1>6. ViewTypeOK
  BY <1>1, <1>2, <1>3, <1>4 DEF ViewInv, PeopleOK, SentOK, ViewTypeOK
<1> QED BY <1>5, <1>6 DEF ViewIsTrue, ViewInv

\* The parts of the view's invariant hold before the first frame and the first request.
LEMMA ViewInitially == ViewInit => ViewInv
<1> SUFFICES ASSUME ViewInit PROVE ViewInv
  OBVIOUS
<1>1. Open = {} /\ Open \cap Spectators = {}
  BY DEF ViewInit, Open
<1>2. OpenMeansServed
  BY <1>1, FS_EmptySet, ViewAssumption DEF OpenMeansServed, ViewInit
<1>3. WireOK /\ FramesOK
  BY DEF ViewInit, WireOK, FramesOK
<1>4. SentOK /\ PeopleOK
  BY ViewAssumption DEF ViewInit, SentOK, PeopleOK
<1> QED BY <1>2, <1>3, <1>4 DEF ViewInv

\* The gate's count follows a response that is opened or finished.
LEMMA GateStep ==
  ASSUME PeopleOK, NEW w \in Watchers, NEW step \in {"none", "asking", "granted", "open"},
         view' = [view EXCEPT ![w] = step]
  PROVE  /\ step = "open" => Open' = Open \cup {w}
         /\ step # "open" => Open' = Open \ {w}
         /\ Open \cap Spectators \in SUBSET Spectators
BY DEF PeopleOK, Open

\* No more is said of the view than these variables say.
LEMMA ViewSame ==
  ASSUME ViewInv, UNCHANGED <<wire, pairing, publishing, sent, frame, view, gate>>,
         entitled' \subseteq Viewers,
         channel' \in [Viewers -> {"none", "AWAITING", "SUBSCRIBED"}],
         offer' \in [Viewers -> {"none", "valid", "lapsed"}],
         \/ frame # {}
         \/ \A v \in Viewers : offer'[v] # "none" => offer[v] # "none"
  PROVE  ViewInv'
<1>1. WireOK' /\ FramesOK'
  BY DEF ViewInv, WireOK, FramesOK
<1>2. SentOK'
  BY DEF ViewInv, SentOK
<1>3. PeopleOK'
  BY DEF ViewInv, PeopleOK
<1>4. OpenMeansServed'
  BY DEF ViewInv, OpenMeansServed, Open
<1> QED BY <1>1, <1>2, <1>3, <1>4 DEF ViewInv

\* A frame that arrives was paired rightly, and is shown.
LEMMA ArrivedOK ==
  ASSUME ViewInv, NEW p, Own(p), sent > 0, LiveFrameArrived(p),
         UNCHANGED <<sent, entitled, channel, view, gate>>
  PROVE  /\ frame' = {p} /\ p \in Pairs /\ Own(p)
         /\ sent' \in 0..MaxFrames /\ sent' > 0
         /\ PeopleOK' /\ OpenMeansServed'
<1>1. offer' \in [Viewers -> {"none", "valid", "lapsed"}]
  BY DEF ViewInv, PeopleOK, LiveFrameArrived, OfferTo
<1>2. PeopleOK'
  BY <1>1 DEF ViewInv, PeopleOK
<1>3. OpenMeansServed'
  BY DEF ViewInv, OpenMeansServed, Open, LiveFrameArrived
<1> QED BY <1>2, <1>3 DEF ViewInv, SentOK, LiveFrameArrived, Own

\* A frame that is released takes every response with it.
LEMMA ReleaseOK ==
  ASSUME ViewInv, Release, UNCHANGED <<entitled, channel, offer>>
  PROVE  frame' = {} /\ PeopleOK' /\ OpenMeansServed'
<1>1. frame' = {} /\ Open' = {}
  BY DEF Release, Open
<1>2. gate' = 0
  BY OpenFinite DEF Release, ViewInv, OpenMeansServed
<1>3. view' \in [Watchers -> {"none", "asking", "granted", "open"}]
  BY DEF Release, ViewInv, PeopleOK
<1>4. PeopleOK'
  BY <1>3 DEF ViewInv, PeopleOK
<1>5. (Open \cap Spectators)' = {}
  BY <1>1
<1>6. OpenMeansServed'
  BY <1>1, <1>2, <1>5, FS_EmptySet, ViewAssumption DEF OpenMeansServed
<1> QED BY <1>1, <1>4, <1>6

\* Each step of the view (frames, requests, gate, rechecks, deadlines) preserves its
\* invariant: one lemma for each part, above.
LEMMA ViewStep == ViewInv /\ [ViewNext]_liveVars => ViewInv'
<1> SUFFICES ASSUME ViewInv, [ViewNext]_liveVars PROVE ViewInv'
  OBVIOUS
<1> USE DEF frameVars, storeVars, grantVars, channelVars, viewVars
<1>1. CASE SendLiveFrame
  <2>0. sent \in 0..MaxFrames
    BY DEF ViewInv, SentOK
  <2>1. sent' \in Frames
    BY <1>1, <2>0, ViewAssumption DEF SendLiveFrame, Frames
  <2>2. pairing = {}
    BY <1>1 DEF ViewInv, WireOK, SendLiveFrame
  <2>3. WireOK'
    BY <1>1, <2>1, <2>2 DEF WireOK, SendLiveFrame
  <2>4. FramesOK' /\ PeopleOK'
    BY <1>1 DEF ViewInv, FramesOK, PeopleOK, SendLiveFrame
  <2>5. SentOK'
    BY <2>1 DEF SentOK, Frames
  <2>6. OpenMeansServed'
    BY <1>1 DEF ViewInv, OpenMeansServed, Open, SendLiveFrame
  <2> QED BY <2>3, <2>4, <2>5, <2>6 DEF ViewInv
<1>2. CASE ReceiveHeader
  <2>1. PICK f \in Frames, kind \in {"header", "refused"} :
          wire = <<Item(kind, f), Item("pixels", f)>>
    BY <1>2 DEF ViewInv, WireOK, ReceiveHeader, Item
  <2>2. wire' = <<Item("pixels", f)>> /\ pairing' \in {{}, {f}}
    BY <1>2, <2>1 DEF ReceiveHeader, Item
  <2>3. WireOK'
    BY <2>2 DEF WireOK
  <2>4. FramesOK' /\ PeopleOK'
    BY <1>2 DEF ViewInv, FramesOK, PeopleOK, ReceiveHeader
  <2>5. SentOK'
    BY <1>2 DEF ViewInv, SentOK, ReceiveHeader
  <2>6. OpenMeansServed'
    BY <1>2 DEF ViewInv, OpenMeansServed, Open, ReceiveHeader
  <2> QED BY <2>3, <2>4, <2>5, <2>6 DEF ViewInv
<1>3. CASE ReceiveBinary
  <2> DEFINE paired == {[header |-> h, pixels |-> Head(wire).frame] :
                      h \in {g \in pairing : Size[g] = Size[Head(wire).frame]}}
  <2>1. PICK f \in Frames : wire = <<Item("pixels", f)>> /\ pairing \subseteq {f}
    BY <1>3 DEF ViewInv, WireOK, ReceiveBinary, Item
  <2>2. Head(wire).frame = f
    BY <2>1 DEF Item
  <2>3. \A p \in paired : p = [header |-> f, pixels |-> f]
    BY <2>1, <2>2
  <2>4. \A p \in paired : Own(p)
    BY <2>3 DEF Own, Pairs
  <2>5. wire' = <<>> /\ pairing' = {} /\ sent > 0
    BY <1>3, <2>1 DEF ReceiveBinary, ViewInv, SentOK
  <2>6. WireOK'
    BY <2>5 DEF WireOK
  <2>7. CASE owned /\ paired # {}
    <3>1. PICK p : p \in paired
      BY <2>7
    <3>2. LiveFrameArrived(p) /\ UNCHANGED <<publishing, sent, entitled, channel, view, gate>>
      BY <1>3, <2>7, <3>1 DEF ReceiveBinary
    <3>3. Own(p)
      BY <3>1, <2>4
    <3>4. /\ frame' = {p} /\ p \in Pairs /\ sent' \in 0..MaxFrames /\ sent' > 0
          /\ PeopleOK' /\ OpenMeansServed'
      BY <3>2, <3>3, <2>5, ArrivedOK
    <3>5. FramesOK'
      BY <3>2, <3>3, <3>4 DEF FramesOK, ViewInv
    <3>6. SentOK'
      BY <3>4 DEF SentOK
    <3> QED BY <2>6, <3>4, <3>5, <3>6 DEF ViewInv
  <2>8. CASE ~(owned /\ paired # {})
    <3>1. UNCHANGED <<frame, offer, sent, entitled, channel, view, gate>>
          /\ publishing' \in {publishing, publishing \cup paired}
      BY <1>3, <2>8 DEF ReceiveBinary
    <3>2. FramesOK'
      BY <2>4, <3>1 DEF FramesOK, ViewInv
    <3>3. SentOK'
      BY <2>5, <3>1 DEF SentOK, ViewInv
    <3>4. PeopleOK' /\ OpenMeansServed'
      BY <3>1 DEF ViewInv, PeopleOK, OpenMeansServed, Open
    <3> QED BY <2>6, <3>2, <3>3, <3>4 DEF ViewInv
  <2> QED BY <2>7, <2>8
<1>4. ASSUME NEW p \in publishing, Publish(p) PROVE ViewInv'
  <2>1. Own(p) /\ sent > 0
    BY DEF ViewInv, FramesOK, SentOK
  <2>2. /\ frame' = {p} /\ p \in Pairs /\ sent' \in 0..MaxFrames /\ sent' > 0
        /\ PeopleOK' /\ OpenMeansServed'
    BY <1>4, <2>1, ArrivedOK DEF Publish
  <2>3. FramesOK'
    BY <1>4, <2>1, <2>2 DEF FramesOK, ViewInv, Publish
  <2>4. SentOK'
    BY <2>2 DEF SentOK
  <2>5. WireOK'
    BY <1>4 DEF WireOK, ViewInv, Publish
  <2> QED BY <2>2, <2>3, <2>4, <2>5 DEF ViewInv
<1>5. CASE MissionEnds \/ LinkCloses \/ ReleaseStale
  <2>1. /\ Release /\ UNCHANGED <<sent, publishing, entitled, channel, offer>>
        /\ \/ UNCHANGED <<wire, pairing>>
           \/ wire' = <<>> /\ pairing' = {}
    BY <1>5 DEF MissionEnds, LinkCloses, ReleaseStale
  <2>2. frame' = {} /\ PeopleOK' /\ OpenMeansServed'
    BY <2>1, ReleaseOK
  <2>3. WireOK' /\ FramesOK'
    BY <2>1, <2>2 DEF ViewInv, WireOK, FramesOK
  <2>4. SentOK'
    BY <2>1, <2>2 DEF ViewInv, SentOK
  <2> QED BY <2>2, <2>3, <2>4 DEF ViewInv
<1>6. CASE FrameAges
  BY <1>6, ViewSame DEF FrameAges, ViewInv, PeopleOK
<1>7. CASE ChangeGrants
  <2>1. entitled' \subseteq Viewers
    BY <1>7 DEF ChangeGrants, ViewInv, PeopleOK
  <2> QED BY <1>7, <2>1, ViewSame DEF ChangeGrants, ViewInv, PeopleOK
<1>8. ASSUME NEW v \in Viewers,
             OpenChannel(v) \/ Subscribe(v) \/ CloseChannel(v) \/ OfferLapses(v)
      PROVE  ViewInv'
  <2>1. UNCHANGED <<wire, pairing, publishing, sent, frame, view, gate, entitled>>
    BY <1>8 DEF OpenChannel, Subscribe, CloseChannel, OfferLapses
  <2>2. channel' \in [Viewers -> {"none", "AWAITING", "SUBSCRIBED"}]
    BY <1>8 DEF OpenChannel, Subscribe, CloseChannel, OfferLapses, ViewInv, PeopleOK
  <2>3. offer' \in [Viewers -> {"none", "valid", "lapsed"}]
    BY <1>8 DEF OpenChannel, Subscribe, CloseChannel, OfferLapses, ViewInv, PeopleOK
  <2>4. \/ frame # {}
        \/ \A u \in Viewers : offer'[u] # "none" => offer[u] # "none"
    BY <1>8 DEF OpenChannel, Subscribe, CloseChannel, OfferLapses, ViewInv, PeopleOK
  <2> QED BY <2>1, <2>2, <2>3, <2>4, ViewSame DEF ViewInv, PeopleOK
<1>9. ASSUME NEW w \in Watchers,
             \/ Request(w) \/ Authorise(w) \/ AskTonight(w) \/ Stream(w)
             \/ Deadline(w) \/ Recheck(w)
      PROVE  ViewInv'
  <2>1. UNCHANGED <<wire, pairing, publishing, sent, frame, entitled, channel, offer>>
    BY <1>9 DEF Request, Authorise, AskTonight, Stream, Deadline, Recheck, Finish, Now
  <2>2. PICK step \in {"none", "asking", "granted", "open"} :
          /\ view' = [view EXCEPT ![w] = step]
          /\ \/ view[w] # "open" /\ step # "open" /\ UNCHANGED gate
             \/ /\ view[w] # "open" /\ step = "open" /\ frame # {}
                /\ w \in Spectators => gate < Capacity
                /\ gate' = IF w \in Spectators THEN gate + 1 ELSE gate
             \/ /\ view[w] = "open" /\ step = "none"
                /\ gate' = IF w \in Spectators THEN gate - 1 ELSE gate
    <3>1. CASE Request(w)
      BY <3>1 DEF Request, Now
    <3>2. CASE Authorise(w)
      BY <3>2 DEF Authorise, Now
    <3>3. CASE AskTonight(w)
      BY <3>3 DEF AskTonight, Now
    <3>4. CASE Stream(w)
      BY <3>4 DEF Stream
    <3>5. CASE Deadline(w) \/ Recheck(w)
      BY <3>5 DEF Deadline, Recheck, Finish
    <3> QED BY <1>9, <3>1, <3>2, <3>3, <3>4, <3>5
  <2>3. PeopleOK
    BY DEF ViewInv
  <2>4. PeopleOK'
    BY <2>1, <2>2, <2>3 DEF PeopleOK
  <2>5. WireOK' /\ FramesOK' /\ SentOK'
    BY <2>1 DEF ViewInv, WireOK, FramesOK, SentOK
  <2> DEFINE S == Open \cap Spectators
  <2>6. /\ gate = Cardinality(S) /\ gate <= Capacity /\ gate \in Nat
        /\ IsFiniteSet(S) /\ Capacity \in Nat
        /\ Open # {} => frame # {}
    BY OpenFinite, ViewAssumption DEF ViewInv, OpenMeansServed
  <2>7. /\ step = "open" => Open' = Open \cup {w}
        /\ step # "open" => Open' = Open \ {w}
    BY <2>2, <2>3, GateStep
  <2>8. w \in Open <=> view[w] = "open"
    BY DEF Open
  <2>9. /\ Cardinality(S \cup {w}) = IF w \in S THEN Cardinality(S) ELSE Cardinality(S) + 1
        /\ Cardinality(S \ {w}) = IF w \in S THEN Cardinality(S) - 1 ELSE Cardinality(S)
    BY <2>6, FS_AddElement, FS_RemoveElement
  <2>10. OpenMeansServed'
    <3>1. CASE view[w] # "open" /\ step # "open" /\ UNCHANGED gate
      <4>1. Open' = Open
        BY <2>7, <2>8, <3>1
      <4> QED BY <4>1, <3>1, <2>1, <2>6 DEF OpenMeansServed
    <3>2. CASE /\ view[w] # "open" /\ step = "open" /\ frame # {}
               /\ w \in Spectators => gate < Capacity
               /\ gate' = IF w \in Spectators THEN gate + 1 ELSE gate
      <4>1. (Open \cap Spectators)' = IF w \in Spectators THEN S \cup {w} ELSE S
        BY <2>7, <3>2
      <4>2. w \notin S
        BY <2>8, <3>2
      <4>3. Cardinality((Open \cap Spectators)') =
              IF w \in Spectators THEN Cardinality(S) + 1 ELSE Cardinality(S)
        BY <4>1, <4>2, <2>9, Zenon
      <4>4. gate' = Cardinality((Open \cap Spectators)') /\ gate' <= Capacity
        BY <4>3, <2>6, <3>2
      <4> QED BY <4>4, <2>1, <3>2 DEF OpenMeansServed
    <3>3. CASE /\ view[w] = "open" /\ step = "none"
               /\ gate' = IF w \in Spectators THEN gate - 1 ELSE gate
      <4>1. (Open \cap Spectators)' = IF w \in Spectators THEN S \ {w} ELSE S
        BY <2>7, <3>3
      <4>2. w \in Spectators => w \in S
        BY <2>8, <3>3
      <4>3. Cardinality((Open \cap Spectators)') =
              IF w \in Spectators THEN Cardinality(S) - 1 ELSE Cardinality(S)
        BY <4>1, <4>2, <2>9, Zenon
      <4>5. gate' = Cardinality((Open \cap Spectators)') /\ gate' <= Capacity
        BY <4>3, <2>6, <3>3
      <4>4. frame' # {}
        BY <2>1, <2>6, <2>8, <3>3
      <4> QED BY <4>5, <4>4 DEF OpenMeansServed
    <3> QED BY <2>2, <3>1, <3>2, <3>3
  <2> QED BY <2>4, <2>5, <2>10 DEF ViewInv
<1>10. CASE UNCHANGED liveVars
  BY <1>10, ViewSame DEF liveVars, ViewInv, PeopleOK
<1> QED
  BY <1>1, <1>2, <1>3, <1>4, <1>5, <1>6, <1>7, <1>8, <1>9, <1>10 DEF ViewNext

\* Whatever headers are refused, links replaced and look-ups outstanding, what
\* a viewer is shown is a frame with its own pixels, nobody is served a mission
\* without a frame, and the gate counts the spectators it admitted: frames.ts,
\* http.ts and receiveBinary.
THEOREM ViewAlwaysTrue == ViewSpec => []ViewIsTrue
<1>1. ViewInit => ViewInv
  BY ViewInitially
<1>2. ViewInv /\ [ViewNext]_liveVars => ViewInv'
  BY ViewStep
<1>3. ViewInv => ViewIsTrue
  BY ViewInvIsEnough
<1> QED BY <1>1, <1>2, <1>3, PTL DEF ViewSpec

-----------------------------------------------------------------------------
(* The agent's reports.                                                    *)

Bodies == MissionStates \cup Captures
Messages == [id : Nat, body : Bodies]
Handlers == [id : Nat, body : Bodies, step : {"record", "apply"}]
Milestones == {"none", "minted", "refused", "shot", "ready", "recorded"}

Shapes ==
  /\ said \in Nat
  /\ queue \in Seq(Messages)
  /\ handlers \subseteq Handlers
  /\ flown \in MissionStates /\ state \in MissionStates
  /\ recorded \cup lost \subseteq 1..said
  /\ \A j \in DOMAIN queue : queue[j].id \in 1..said
  /\ \A h \in handlers : h.id \in 1..said
  /\ capture \in [Captures -> Milestones]
  /\ ending \subseteq 0..EndTelemetry
  /\ age \in 0..EndTelemetry /\ slotLeft \in 0..SlotLength

Flags ==
  /\ parked \in BOOLEAN /\ linked \in BOOLEAN /\ restarted \in BOOLEAN
  /\ completed \in BOOLEAN /\ observed \in BOOLEAN /\ slotTold \in BOOLEAN
  /\ sessionEnded \in BOOLEAN /\ summary \in BOOLEAN
  /\ cooling \in BOOLEAN /\ overtaken \in BOOLEAN

\* A capture is asked for before it is minted, and reported once it is ready.
CaptureOrder ==
  /\ asked \subseteq Captures
  /\ \A c \in asked : capture[c] = "none"
  /\ \A j \in DOMAIN queue : queue[j].body \in Captures =>
       capture[queue[j].body] \in {"ready", "recorded"}
  /\ \A h \in handlers : h.body \in Captures =>
       capture[h.body] \in {"ready", "recorded"}

\* The history counts what the rows say was announced.
Counted ==
  /\ announced \in [Captures -> Nat]
  /\ \A c \in Captures : announced[c] = IF capture[c] = "recorded" THEN 1 ELSE 0
  /\ endings = IF sessionEnded THEN 1 ELSE 0

\* A mission that has been observing, and is to be summed up, is known for it.
Remembered ==
  /\ state \in {"OBSERVING", "CAPTURING", "PROCESSING", "COMPLETE"} => observed
  /\ sessionEnded => Ended
  /\ sessionEnded /\ state = "COMPLETE" => summary

\* A transition into observation is into OBSERVING itself.
LEMMA TableObserves ==
  ASSUME NEW s \in MissionStates, NEW t \in MissionStates, IsLegalMissionTransition(s, t),
         t \in {"CAPTURING", "PROCESSING", "COMPLETE"}
  PROVE  s \in {"OBSERVING", "CAPTURING", "PROCESSING", "COMPLETE"}
<1>1. CASE t = "CAPTURING"
  <2>1. LegalPredecessors[t] = {"OBSERVING"}
    BY <1>1 DEF LegalPredecessors, MissionStates, LiveMissionStates
  <2> QED BY <1>1, <2>1 DEF IsLegalMissionTransition
<1>2. CASE t = "PROCESSING"
  <2>1. LegalPredecessors[t] = {"CAPTURING"}
    BY <1>2 DEF LegalPredecessors, MissionStates, LiveMissionStates
  <2> QED BY <1>2, <2>1 DEF IsLegalMissionTransition
<1>3. CASE t = "COMPLETE"
  <2>1. LegalPredecessors[t] = {"PROCESSING", "OBSERVING"}
    BY <1>3 DEF LegalPredecessors, MissionStates, TerminalMissionStates
  <2> QED BY <1>3, <2>1 DEF IsLegalMissionTransition
<1> QED BY <1>1, <1>2, <1>3

ToldInv == Shapes /\ Flags /\ CaptureOrder /\ Counted /\ Remembered

\* The rows' part of the inductive invariant is stronger than the property.
LEMMA ToldInvIsEnough == ToldInv => ToldOnce
<1> SUFFICES ASSUME ToldInv PROVE ToldOnce
  OBVIOUS
<1>1. {parked, linked, restarted, completed, observed, slotTold, sessionEnded, summary,
       cooling, overtaken} \subseteq BOOLEAN
  BY Zenon DEF ToldInv, Flags
<1>2. \A h \in handlers :
        h.id \in 1..said /\ h.step \in {"record", "apply"}
          /\ h.body \in MissionStates \cup Captures
  BY DEF ToldInv, Shapes, Handlers, Bodies
<1>3. TypeOK
  BY <1>1, <1>2 DEF ToldInv, Shapes, TypeOK, Milestones
<1>4. endings <= 1 /\ \A c \in Captures : announced[c] <= 1
  BY DEF ToldInv, Counted
<1> QED BY <1>3, <1>4 DEF ToldOnce, ToldInv, Remembered

\* A mission starts flying, and nothing has been reported of it.
LEMMA ToldInitially == Init => ToldInv
<1> SUFFICES ASSUME Init PROVE ToldInv
  OBVIOUS
<1>1. flown \in MissionStates /\ state \in MissionStates
  BY DEF Init, MissionStates, LiveMissionStates
<1>2. Shapes
  BY <1>1, IngestAssumption DEF Init, Shapes, Milestones, Nothing
<1>3. observed \in BOOLEAN
  BY Zenon DEF Init
<1>4. Flags
  BY <1>3, Zenon DEF Init, Flags
<1>5. CaptureOrder /\ Counted
  BY DEF Init, CaptureOrder, Counted
<1>6. sessionEnded = FALSE /\ (state = "VERIFYING" \/ (state = "OBSERVING" /\ observed))
  BY Zenon DEF Init
<1>7. Remembered
  BY <1>6 DEF Remembered
<1> QED BY <1>2, <1>4, <1>5, <1>7 DEF ToldInv

\* What a new message adds to the queue.
LEMMA Queued ==
  ASSUME ToldInv, NEW b \in Bodies, queue' = Append(queue, Message(b)), said' = said + 1
  PROVE  /\ said' \in Nat /\ queue' \in Seq(Messages)
         /\ Len(queue') = Len(queue) + 1
         /\ \A j \in DOMAIN queue' : queue'[j].id \in 1..said'
         /\ \A j \in DOMAIN queue' :
              \/ j \in DOMAIN queue /\ queue'[j] = queue[j]
              \/ j = Len(queue) + 1 /\ queue'[j] = Message(b)
         /\ \A j \in DOMAIN queue : j \in DOMAIN queue' /\ queue'[j] = queue[j]
         /\ Len(queue) + 1 \in DOMAIN queue' /\ queue'[Len(queue) + 1] = Message(b)
         /\ 1..said \subseteq 1..said'
<1>1. said \in Nat /\ queue \in Seq(Messages) /\ \A j \in DOMAIN queue : queue[j].id \in 1..said
  BY DEF ToldInv, Shapes
<1>2. Message(b) \in Messages /\ Message(b).id = said + 1
  BY <1>1 DEF Message, Messages
<1>3. /\ queue' \in Seq(Messages) /\ Len(queue') = Len(queue) + 1
      /\ DOMAIN queue' = 1..(Len(queue) + 1) /\ DOMAIN queue = 1..Len(queue)
      /\ \A j \in 1..Len(queue) : queue'[j] = queue[j]
      /\ queue'[Len(queue) + 1] = Message(b)
  BY <1>1, <1>2
<1>4. Len(queue) \in Nat
  BY <1>1
<1>5. \A j \in DOMAIN queue' :
              \/ j \in DOMAIN queue /\ queue'[j] = queue[j]
              \/ j = Len(queue) + 1 /\ queue'[j] = Message(b)
  BY <1>3, <1>4
<1>6. \A j \in DOMAIN queue' : queue'[j].id \in 1..said'
  BY <1>1, <1>2, <1>5
<1> QED BY <1>1, <1>3, <1>4, <1>5, <1>6

\* What the oldest message leaves behind.
LEMMA Unqueued ==
  ASSUME ToldInv, queue # <<>>
  PROVE  /\ Head(queue) \in Messages /\ Head(queue) = queue[1] /\ 1 \in DOMAIN queue
         /\ Tail(queue) \in Seq(Messages) /\ Len(Tail(queue)) = Len(queue) - 1
         /\ \A j \in DOMAIN Tail(queue) :
              j + 1 \in DOMAIN queue /\ Tail(queue)[j] = queue[j + 1] /\ j \in Nat
         /\ \A j \in DOMAIN queue : j = 1 \/ (j - 1 \in DOMAIN Tail(queue) /\ queue[j] = Tail(queue)[j - 1])
<1>1. queue \in Seq(Messages)
  BY DEF ToldInv, Shapes
<1> QED BY <1>1

\* Each step of the reports, of their handlers and of the sweep preserves what is
\* remembered of announcements.
LEMMA ToldStep == ToldInv /\ [Next]_vars => ToldInv'
<1> SUFFICES ASSUME ToldInv, [Next]_vars PROVE ToldInv'
  OBVIOUS
<1> USE DEF agentVars, linkVars, missionVars, endVars, captureVars, historyVars
<1>a. /\ Shapes /\ Flags /\ CaptureOrder /\ Counted /\ Remembered
      /\ EndTelemetry \in Nat \ {0} /\ SlotLength \in Nat
      /\ Captures \cap MissionStates = {}
  BY IngestAssumption DEF ToldInv
<1>1. ASSUME NEW c \in Captures, AskCapture(c) PROVE ToldInv'
  <2>1. Shapes' /\ Flags'
    BY <1>1, <1>a DEF AskCapture, Shapes, Flags
  <2>2. CaptureOrder'
    BY <1>1, <1>a DEF AskCapture, CaptureOrder
  <2>3. Counted' /\ Remembered'
    BY <1>1, <1>a DEF AskCapture, Counted, Remembered, Ended
  <2> QED BY <2>1, <2>2, <2>3 DEF ToldInv
<1>2. ASSUME NEW c \in Captures, MintCapture(c) PROVE ToldInv'
  <2>1. Shapes'
    BY <1>2, <1>a DEF MintCapture, Shapes, Milestones
  <2>2. Flags'
    BY <1>2, <1>a, Zenon DEF MintCapture, Flags
  <2>3. capture[c] = "none"
    BY <1>2, <1>a DEF MintCapture, CaptureOrder
  <2>4. CaptureOrder'
    BY <1>2, <1>a, <2>3 DEF MintCapture, CaptureOrder, Shapes
  <2>5. Counted'
    BY <1>2, <1>a, <2>3 DEF MintCapture, Counted, Shapes
  <2>6. Remembered'
    BY <1>2, <1>a DEF MintCapture, Remembered, Ended
  <2> QED BY <2>1, <2>2, <2>4, <2>5, <2>6 DEF ToldInv
<1>3. ASSUME NEW c \in Captures, AgentRefuses(c) PROVE ToldInv'
  <2>1. Shapes' /\ Flags'
    BY <1>3, <1>a DEF AgentRefuses, Shapes, Milestones, Flags
  <2>4. CaptureOrder'
    BY <1>3, <1>a DEF AgentRefuses, CaptureOrder, Shapes
  <2>5. Counted'
    BY <1>3, <1>a DEF AgentRefuses, Counted, Shapes
  <2>6. Remembered'
    BY <1>3, <1>a DEF AgentRefuses, Remembered, Ended
  <2> QED BY <2>1, <2>4, <2>5, <2>6 DEF ToldInv
<1>4. ASSUME NEW c \in Captures, AgentUploads(c) PROVE ToldInv'
  <2>1. c \in Bodies /\ queue' = Append(queue, Message(c)) /\ said' = said + 1
    BY <1>4 DEF AgentUploads, Bodies
  <2>2. capture' \in [Captures -> Milestones] /\ capture[c] \in {"shot", "ready", "recorded"}
        /\ capture' = [capture EXCEPT ![c] = IF capture[c] = "shot" THEN "ready" ELSE capture[c]]
    BY <1>4, <1>a DEF AgentUploads, Shapes, Milestones
  <2>3. Shapes'
    BY <1>4, <1>a, <2>1, <2>2, Queued DEF AgentUploads, Shapes
  <2>4. Flags' /\ Remembered'
    BY <1>4, <1>a DEF AgentUploads, Flags, Remembered, Ended
  <2>5. CaptureOrder'
    <3>1. \A j \in DOMAIN queue' : queue'[j].body \in Captures =>
            capture'[queue'[j].body] \in {"ready", "recorded"}
      BY <2>1, <2>2, <1>a, Queued DEF CaptureOrder, Message, Shapes
    <3>2. /\ \A h \in handlers' : h.body \in Captures =>
                capture'[h.body] \in {"ready", "recorded"}
          /\ asked' \subseteq Captures /\ \A d \in asked' : capture'[d] = "none"
      BY <1>4, <1>a, <2>2 DEF AgentUploads, CaptureOrder, Shapes
    <3> QED BY <3>1, <3>2 DEF CaptureOrder
  <2>6. Counted'
    BY <1>4, <1>a, <2>2 DEF AgentUploads, Counted, Shapes
  <2> QED BY <2>3, <2>4, <2>5, <2>6 DEF ToldInv
<1>5. CASE CancelMissionAsOperator
  <2>1. state' = "CANCELLED" /\ state' \in MissionStates /\ state' \in TerminalMissionStates
    BY <1>5 DEF CancelMissionAsOperator, MissionStates, TerminalMissionStates
  <2>2. Shapes'
    BY <1>5, <1>a, <2>1 DEF CancelMissionAsOperator, Shapes
  <2>3. Flags'
    BY <1>5, <1>a, Zenon DEF CancelMissionAsOperator, Flags
  <2>4. CaptureOrder' /\ Counted'
    BY <1>5, <1>a DEF CancelMissionAsOperator, CaptureOrder, Counted
  <2>5. Remembered'
    BY <1>5, <1>a, <2>1 DEF CancelMissionAsOperator, Remembered, Ended
  <2> QED BY <2>2, <2>3, <2>4, <2>5 DEF ToldInv
<1>6. ASSUME NEW s \in AgentStates, AgentReports(s) PROVE ToldInv'
  <2>1. /\ s \in MissionStates /\ s \in Bodies
        /\ queue' = Append(queue, Message(s)) /\ said' = said + 1
    BY <1>6, IngestAssumption DEF AgentReports, Bodies
  <2>2. \/ UNCHANGED capture
        \/ \E c \in Captures : capture[c] = "minted" /\ capture' = [capture EXCEPT ![c] = "shot"]
    BY <1>6 DEF AgentReports
  <2>3. capture' \in [Captures -> Milestones]
    BY <2>2, <1>a DEF Shapes, Milestones
  <2>4. \A c \in Captures : \/ capture'[c] = capture[c]
                            \/ capture[c] = "minted" /\ capture'[c] = "shot"
    BY <2>2, <1>a DEF Shapes
  <2>5. Shapes'
    BY <1>6, <1>a, <2>1, <2>3, Queued DEF AgentReports, Shapes
  <2>6. Flags' /\ Remembered'
    BY <1>6, <1>a DEF AgentReports, Flags, Remembered, Ended
  <2>7. CaptureOrder'
    <3>1. \A j \in DOMAIN queue' : queue'[j].body \in Captures =>
            capture'[queue'[j].body] \in {"ready", "recorded"}
      BY <2>1, <2>4, <1>a, Queued DEF CaptureOrder, Message
    <3>2. /\ \A h \in handlers' : h.body \in Captures =>
                capture'[h.body] \in {"ready", "recorded"}
          /\ asked' \subseteq Captures /\ \A d \in asked' : capture'[d] = "none"
      BY <1>6, <1>a, <2>4 DEF AgentReports, CaptureOrder
    <3> QED BY <3>1, <3>2 DEF CaptureOrder
  <2>8. Counted'
    BY <1>6, <1>a, <2>4 DEF AgentReports, Counted
  <2> QED BY <2>5, <2>6, <2>7, <2>8 DEF ToldInv
<1>7. CASE AgentParks
  <2>1. Flags'
    BY <1>7, <1>a, Zenon DEF AgentParks, Flags
  <2>2. Shapes' /\ CaptureOrder' /\ Counted' /\ Remembered'
    BY <1>7, <1>a DEF AgentParks, Shapes, CaptureOrder, Counted, Remembered, Ended
  <2> QED BY <2>1, <2>2 DEF ToldInv
<1>8. CASE Receive
  <2> DEFINE new == [id |-> Head(queue).id, body |-> Head(queue).body, step |-> "record"]
  <2>1. queue # <<>> /\ handlers' = handlers \cup {new}
        /\ (queue' = Tail(queue) \/ queue' = queue)
    BY <1>8 DEF Receive
  <2>2. /\ Head(queue) \in Messages /\ Head(queue) = queue[1] /\ 1 \in DOMAIN queue
        /\ Tail(queue) \in Seq(Messages)
        /\ \A j \in DOMAIN Tail(queue) : j + 1 \in DOMAIN queue /\ Tail(queue)[j] = queue[j + 1]
    BY <2>1, Unqueued
  <2>3. new \in Handlers /\ new.id \in 1..said /\ new.id = queue[1].id /\ new.body = queue[1].body
    BY <2>2, <1>a DEF Handlers, Messages, Shapes
  <2> HIDE DEF new
  <2>4. /\ queue' \in Seq(Messages)
        /\ \A j \in DOMAIN queue' : \E k \in DOMAIN queue : queue'[j] = queue[k]
    BY <2>1, <2>2, <1>a DEF Shapes
  <2>5. ending' \subseteq 0..EndTelemetry
    BY <1>8, <1>a DEF Receive, Shapes, Nothing
  <2>6. Shapes'
    BY <1>8, <1>a, <2>1, <2>3, <2>4, <2>5 DEF Receive, Shapes
  <2>7. Flags'
    BY <1>8, <1>a, Zenon DEF Receive, Flags
  <2>8. CaptureOrder'
    BY <1>8, <1>a, <2>1, <2>2, <2>3, <2>4 DEF Receive, CaptureOrder
  <2>9. Counted' /\ Remembered'
    BY <1>8, <1>a DEF Receive, Counted, Remembered, Ended
  <2> QED BY <2>6, <2>7, <2>8, <2>9 DEF ToldInv
<1>9. ASSUME NEW h \in handlers, RecordInboundMessage(h) PROVE ToldInv'
  <2>1. h \in Handlers /\ h.id \in 1..said
    BY <1>a DEF Shapes
  <2>2. At(h, "apply") \in Handlers /\ At(h, "apply").id = h.id /\ At(h, "apply").body = h.body
    BY <2>1 DEF At, Handlers
  <2>3. \A g \in handlers' : g \in handlers \/ g = At(h, "apply")
    BY <1>9 DEF RecordInboundMessage
  <2>4. Shapes'
    BY <1>9, <1>a, <2>1, <2>2, <2>3 DEF RecordInboundMessage, Shapes
  <2>5. Flags' /\ Counted' /\ Remembered'
    BY <1>9, <1>a DEF RecordInboundMessage, Flags, Counted, Remembered, Ended
  <2>6. CaptureOrder'
    BY <1>9, <1>a, <2>2, <2>3 DEF RecordInboundMessage, CaptureOrder
  <2> QED BY <2>4, <2>5, <2>6 DEF ToldInv
<1>10. ASSUME NEW h \in handlers, ApplyMissionEvent(h) PROVE ToldInv'
  <2>1. h.body \in MissionStates /\ handlers' \subseteq handlers
    BY <1>10 DEF ApplyMissionEvent
  <2>2. \/ state' = h.body /\ ~Ended /\ IsLegalMissionTransition(state, h.body) /\ age' = 0
        \/ UNCHANGED <<state, completed, age>>
    BY <1>10 DEF ApplyMissionEvent, IsLegalMissionTransition
  <2>3. ending' \subseteq 0..EndTelemetry
    BY <1>10, <1>a DEF ApplyMissionEvent, Shapes
  <2>4. Shapes'
    BY <1>10, <1>a, <2>1, <2>2, <2>3 DEF ApplyMissionEvent, Shapes
  <2>5. observed' \in BOOLEAN /\ completed' \in BOOLEAN /\ overtaken' \in BOOLEAN
    BY <1>10, <1>a, Zenon DEF ApplyMissionEvent, Flags
  <2>6. Flags'
    BY <1>10, <1>a, <2>5, Zenon DEF ApplyMissionEvent, Flags
  <2>7. CaptureOrder' /\ Counted'
    BY <1>10, <1>a, <2>1 DEF ApplyMissionEvent, CaptureOrder, Counted
  <2>8. observed' = (observed \/ h.body = "OBSERVING") /\ UNCHANGED <<sessionEnded, summary>>
    BY <1>10 DEF ApplyMissionEvent
  <2>9. Remembered'
    <3>1. CASE state' = h.body /\ ~Ended /\ IsLegalMissionTransition(state, h.body)
      <4>1. ~sessionEnded
        BY <3>1, <1>a DEF Remembered
      <4>2. h.body \in {"OBSERVING", "CAPTURING", "PROCESSING", "COMPLETE"} => observed'
        BY <3>1, <2>1, <2>8, <1>a, TableObserves DEF Remembered, Shapes
      <4> QED BY <3>1, <2>8, <4>1, <4>2 DEF Remembered
    <3>2. CASE UNCHANGED <<state, completed, age>>
      BY <3>2, <2>8, <1>a DEF Remembered, Ended
    <3> QED BY <2>2, <3>1, <3>2
  <2> QED BY <2>4, <2>6, <2>7, <2>9 DEF ToldInv
<1>11. ASSUME NEW h \in handlers, RecordCapture(h) PROVE ToldInv'
  <2>1. /\ h.body \in Captures /\ handlers' \subseteq handlers
        /\ capture' = [capture EXCEPT ![h.body] = "recorded"]
        /\ announced' = IF capture[h.body] = "recorded" THEN announced
                        ELSE [announced EXCEPT ![h.body] = announced[h.body] + 1]
    BY <1>11 DEF RecordCapture, ApplyCaptureReady
  <2>2. Shapes'
    BY <1>11, <1>a, <2>1 DEF RecordCapture, Shapes, Milestones
  <2>3. Flags' /\ Remembered'
    BY <1>11, <1>a DEF RecordCapture, Flags, Remembered, Ended
  <2>4. capture[h.body] \in {"ready", "recorded"} /\ h.body \notin asked
    BY <1>a, <2>1 DEF CaptureOrder
  <2>5. CaptureOrder'
    BY <1>11, <1>a, <2>1, <2>4 DEF RecordCapture, CaptureOrder, Shapes
  <2>6. Counted'
    BY <1>11, <1>a, <2>1 DEF RecordCapture, Counted, Shapes
  <2> QED BY <2>2, <2>3, <2>5, <2>6 DEF ToldInv
<1>12. ASSUME NEW h \in handlers, HandlerFails(h) PROVE ToldInv'
  <2>1. Shapes'
    BY <1>12, <1>a DEF HandlerFails, Shapes
  <2>2. Flags' /\ CaptureOrder' /\ Counted' /\ Remembered'
    BY <1>12, <1>a DEF HandlerFails, Flags, CaptureOrder, Counted, Remembered, Ended
  <2> QED BY <2>1, <2>2 DEF ToldInv
<1>13. CASE RealtimeDies
  <2>1. Shapes'
    BY <1>13, <1>a DEF RealtimeDies, Shapes, Nothing
  <2>2. Flags'
    BY <1>13, <1>a, Zenon DEF RealtimeDies, Flags
  <2>3. CaptureOrder' /\ Counted' /\ Remembered'
    BY <1>13, <1>a DEF RealtimeDies, CaptureOrder, Counted, Remembered, Ended
  <2> QED BY <2>1, <2>2, <2>3 DEF ToldInv
<1>14. CASE AgentRestarts
  <2>1. flown' \in MissionStates
    BY <1>14, <1>a DEF AgentRestarts, Shapes, MissionStates, TerminalMissionStates
  <2>2. Shapes'
    BY <1>14, <1>a, <2>1 DEF AgentRestarts, Shapes, Nothing
  <2>3. Flags'
    BY <1>14, <1>a, Zenon DEF AgentRestarts, Flags
  <2>4. CaptureOrder' /\ Counted' /\ Remembered'
    BY <1>14, <1>a DEF AgentRestarts, CaptureOrder, Counted, Remembered, Ended
  <2> QED BY <2>2, <2>3, <2>4 DEF ToldInv
<1>15. CASE MarkLinkUp
  <2>1. \/ Live /\ state' = "FAILED" /\ age' = 0
        \/ UNCHANGED <<state, age>>
    BY <1>15 DEF MarkLinkUp
  <2>2. Shapes'
    BY <1>15, <1>a, <2>1 DEF MarkLinkUp, Shapes, MissionStates, TerminalMissionStates
  <2>3. Flags'
    BY <1>15, <1>a, Zenon DEF MarkLinkUp, Flags
  <2>4. CaptureOrder' /\ Counted'
    BY <1>15, <1>a DEF MarkLinkUp, CaptureOrder, Counted
  <2>5. Remembered'
    BY <1>15, <1>a, <2>1 DEF MarkLinkUp, Remembered, Ended, TerminalMissionStates
  <2> QED BY <2>2, <2>3, <2>4, <2>5 DEF ToldInv
<1>16. ASSUME EndMissionSession, UNCHANGED <<observed, state>>
       PROVE  /\ sessionEnded' \in BOOLEAN /\ summary' \in BOOLEAN
              /\ endings' = IF sessionEnded' THEN 1 ELSE 0
              /\ Remembered'
  <2>1. CASE Ended /\ ~sessionEnded
    BY <1>16, <2>1, <1>a DEF EndMissionSession, Remembered, Counted, Flags, Ended
  <2>2. CASE ~(Ended /\ ~sessionEnded)
    BY <1>16, <2>2, <1>a DEF EndMissionSession, Remembered, Counted, Flags, Ended
  <2> QED BY <2>1, <2>2
<1>17. CASE ParkReported
  <2>1. \/ EndMissionSession /\ UNCHANGED <<observed, state>>
        \/ UNCHANGED <<sessionEnded, summary, endings, observed, state>>
    BY <1>17 DEF ParkReported
  <2>2. /\ sessionEnded' \in BOOLEAN /\ summary' \in BOOLEAN
        /\ endings' = IF sessionEnded' THEN 1 ELSE 0
        /\ Remembered'
    BY <2>1, <1>16, <1>a DEF Remembered, Counted, Flags, Ended
  <2>3. Shapes' /\ CaptureOrder'
    BY <1>17, <1>a DEF ParkReported, Shapes, CaptureOrder, Nothing
  <2>4. Flags'
    BY <1>17, <1>a, <2>2 DEF ParkReported, Flags
  <2>5. Counted'
    BY <1>17, <1>a, <2>2 DEF ParkReported, Counted
  <2> QED BY <2>2, <2>3, <2>4, <2>5 DEF ToldInv
<1>18. CASE ClaimEndedSlots
  <2>1. \/ /\ flown' = "COMPLETE" /\ queue' = Append(queue, Message("COMPLETE"))
           /\ said' = said + 1
        \/ UNCHANGED <<flown, queue, said>>
    BY <1>18 DEF ClaimEndedSlots
  <2>2. "COMPLETE" \in MissionStates /\ "COMPLETE" \in Bodies /\ "COMPLETE" \notin Captures
    BY <1>a DEF MissionStates, TerminalMissionStates, Bodies
  <2>3. age' \in 0..EndTelemetry
    BY <1>18, <1>a DEF ClaimEndedSlots, Shapes
  <2>4. Shapes'
    <3>1. CASE UNCHANGED <<flown, queue, said>>
      BY <3>1, <1>18, <1>a, <2>3 DEF ClaimEndedSlots, Shapes
    <3>2. CASE flown' = "COMPLETE" /\ queue' = Append(queue, Message("COMPLETE")) /\ said' = said + 1
      BY <3>2, <1>18, <1>a, <2>2, <2>3, Queued DEF ClaimEndedSlots, Shapes
    <3> QED BY <2>1, <3>1, <3>2
  <2>5. Flags'
    BY <1>18, <1>a, Zenon DEF ClaimEndedSlots, Flags
  <2>6. CaptureOrder'
    <3>1. CASE UNCHANGED <<flown, queue, said>>
      BY <3>1, <1>18, <1>a DEF ClaimEndedSlots, CaptureOrder
    <3>2. CASE flown' = "COMPLETE" /\ queue' = Append(queue, Message("COMPLETE")) /\ said' = said + 1
      BY <3>2, <1>18, <1>a, <2>2, Queued DEF ClaimEndedSlots, CaptureOrder, Message
    <3> QED BY <2>1, <3>1, <3>2
  <2>7. Counted' /\ Remembered'
    BY <1>18, <1>a DEF ClaimEndedSlots, Counted, Remembered, Ended
  <2> QED BY <2>4, <2>5, <2>6, <2>7 DEF ToldInv
<1>19. CASE SweepSessionEnds
  <2>1. EndMissionSession /\ UNCHANGED <<observed, state>>
    BY <1>19 DEF SweepSessionEnds
  <2>2. /\ sessionEnded' \in BOOLEAN /\ summary' \in BOOLEAN
        /\ endings' = IF sessionEnded' THEN 1 ELSE 0
        /\ Remembered'
    BY <2>1, <1>16
  <2>3. Shapes' /\ CaptureOrder'
    BY <1>19, <1>a DEF SweepSessionEnds, Shapes, CaptureOrder
  <2>4. Flags'
    BY <1>19, <1>a, <2>2 DEF SweepSessionEnds, Flags
  <2>5. Counted'
    BY <1>19, <1>a, <2>2 DEF SweepSessionEnds, Counted
  <2> QED BY <2>2, <2>3, <2>4, <2>5 DEF ToldInv
<1>20. CASE Tick
  <2>1. slotLeft' \in 0..SlotLength
    BY <1>20, <1>a DEF Tick, Shapes
  <2>2. \A a \in 0..EndTelemetry : Older(a) \in 0..EndTelemetry
    BY <1>a DEF Older
  <2>3. Shapes'
    BY <1>20, <1>a, <2>1, <2>2 DEF Tick, Shapes
  <2>4. Flags'
    BY <1>20, <1>a, Zenon DEF Tick, Flags
  <2>5. CaptureOrder' /\ Counted' /\ Remembered'
    BY <1>20, <1>a DEF Tick, CaptureOrder, Counted, Remembered, Ended
  <2> QED BY <2>3, <2>4, <2>5 DEF ToldInv
<1>21. CASE UNCHANGED vars
  <2>1. Shapes' /\ Flags'
    BY <1>21, <1>a DEF vars, Shapes, Flags
  <2>2. CaptureOrder' /\ Counted' /\ Remembered'
    BY <1>21, <1>a DEF vars, CaptureOrder, Counted, Remembered, Ended
  <2> QED BY <2>1, <2>2 DEF ToldInv
<1> QED
  BY <1>1, <1>2, <1>3, <1>4, <1>5, <1>6, <1>7, <1>8, <1>9, <1>10, <1>11, <1>12,
     <1>13, <1>14, <1>15, <1>17, <1>18, <1>19, <1>20, <1>21 DEF Next, Apply

\* The customer is told once of the end of the session and of each capture,
\* whoever gets there first, and a session that completed is summed up:
\* endMissionSession, recordCapture and applyMissionEvent.
THEOREM ToldOnlyOnce == Spec => []ToldOnce
<1>1. Init => ToldInv
  BY ToldInitially
<1>2. ToldInv /\ [Next]_vars => ToldInv'
  BY ToldStep
<1>3. ToldInv => ToldOnce
  BY ToldInvIsEnough
<1> QED BY <1>1, <1>2, <1>3, PTL DEF Spec

\* Messages are handed over oldest first and numbered in the order they were
\* made, a number stands for one message, and only one that is recorded is applied.
Fifo ==
  /\ \A j \in 1..Len(queue) : queue[j].id = said - Len(queue) + j
  /\ \A h \in handlers, j \in 1..Len(queue) : h.id <= queue[j].id
  /\ \A h \in handlers : h.step = "apply" => h.id \in recorded
  /\ \A g, h \in handlers : g.id = h.id => g.body = h.body
  /\ \A h \in handlers, j \in 1..Len(queue) : queue[j].id = h.id => queue[j].body = h.body

\* The report of state s numbered i has yet to be applied.
Pending(i, s) ==
  \/ \E h \in handlers : h.id = i /\ h.body = s /\ (h.step = "apply" \/ i \notin recorded)
  \/ \E j \in 1..Len(queue) : queue[j].id = i /\ queue[j].body = s /\ i \notin recorded

\* st[i] is the state the reports numbered up to i lead the cloud's mission to.
\* Where the agent came back from a restart its own state is another.
Leads(st) ==
  /\ st[0] = state
  /\ \/ st[said] = flown
     \/ restarted /\ flown \notin LiveMissionStates /\ st[said] \in LiveMissionStates
  /\ \A i \in 0..said : st[i] \in LiveMissionStates \/ st[i] = st[said]
  /\ \A i \in 1..said, s \in MissionStates :
       Pending(i, s) => st[i] = s /\ IsLegalMissionTransition(st[i - 1], s)
  /\ \A i, j \in 0..said :
       i <= j /\ (\A k \in (i + 1)..j, s \in MissionStates : ~Pending(k, s))
         => st[i] = st[j]

\* While no message was lost or overtaken and the mission goes on, the reports
\* that are pending lead from the cloud's state to the agent's.
InStep ==
  ~overtaken /\ lost = {} /\ ~Ended => \E st \in [0..said -> MissionStates] : Leads(st)

OrderInv == ToldInv /\ Fifo /\ InStep

\* With nothing pending the two states are the same.
LEMMA OrderInvIsEnough == OrderInv => InOrderMeansInStep
<1> SUFFICES ASSUME OrderInv, ~overtaken, lost = {}, queue = <<>>, handlers = {},
                    ~restarted, ~Ended
             PROVE  state = flown
  BY DEF InOrderMeansInStep
<1>1. PICK st \in [0..said -> MissionStates] : Leads(st)
  BY DEF OrderInv, InStep
<1>2. said \in Nat
  BY DEF OrderInv, ToldInv, Shapes
<1>3. \A i, s : ~Pending(i, s)
  BY DEF Pending
<1>4. st[0] = st[said]
  BY <1>1, <1>2, <1>3 DEF Leads
<1> QED BY <1>1, <1>4 DEF Leads

\* At the beginning nothing is pending, and the path of states is the mission's own state.
LEMMA OrderInitially == Init => OrderInv
<1> SUFFICES ASSUME Init PROVE OrderInv
  OBVIOUS
<1>1. ToldInv
  BY ToldInitially
<1>2. Fifo
  BY DEF Init, Fifo
<1>3. InStep
  <2> DEFINE st == [i \in 0..said |-> state]
  <2>1. st \in [0..said -> MissionStates] /\ said = 0 /\ state = flown
    BY <1>1 DEF Init, ToldInv, Shapes
  <2>2. \A i, s : ~Pending(i, s)
    BY DEF Pending, Init
  <2>3. Leads(st)
    BY <2>1, <2>2 DEF Leads
  <2> QED BY <2>1, <2>3 DEF InStep
<1> QED BY <1>1, <1>2, <1>3 DEF OrderInv

\* A step that leaves the same reports pending and moves neither state keeps
\* the reports leading from one to the other.
LEMMA SamePending ==
  ASSUME InStep, said \in Nat, UNCHANGED <<said, state, flown, restarted>>,
         overtaken' = overtaken, lost' = lost,
         \A i \in 1..said, s \in MissionStates : Pending(i, s)' <=> Pending(i, s)
  PROVE  InStep'
<1> SUFFICES ASSUME ~overtaken, lost = {}, ~Ended
             PROVE  \E st \in [0..said -> MissionStates] : Leads(st)'
  BY DEF InStep, Ended
<1>1. PICK st \in [0..said -> MissionStates] : Leads(st)
  BY DEF InStep
<1>2. \A i \in 1..said, s \in MissionStates :
        Pending(i, s)' => st[i] = s /\ IsLegalMissionTransition(st[i - 1], s)
  BY <1>1 DEF Leads
<1>3. ASSUME NEW i \in 0..said, NEW j \in 0..said, i <= j,
             \A k \in (i + 1)..j, s \in MissionStates : ~Pending(k, s)'
      PROVE  st[i] = st[j]
  <2>1. \A k \in (i + 1)..j : k \in 1..said
    OBVIOUS
  <2>2. \A k \in (i + 1)..j, s \in MissionStates : ~Pending(k, s)
    BY <1>3, <2>1
  <2> QED BY <1>1, <1>3, <2>2 DEF Leads
<1>4. Leads(st)'
  BY <1>1, <1>2, <1>3 DEF Leads
<1> QED BY <1>4

\* The same of a step that touches none of them.
LEMMA OrderSame ==
  ASSUME Fifo, InStep, said \in Nat, UNCHANGED <<queue, said, handlers, recorded, state, flown,
                                   restarted, overtaken, lost>>
  PROVE  Fifo' /\ InStep'
<1>1. Fifo'
  BY DEF Fifo
<1>2. \A i, s : Pending(i, s)' <=> Pending(i, s)
  BY DEF Pending
<1> QED BY <1>1, <1>2, SamePending

\* A new message is pending, under a number of its own.
LEMMA NewMessage ==
  ASSUME ToldInv, Fifo, NEW b \in Bodies,
         queue' = Append(queue, Message(b)), said' = said + 1, UNCHANGED <<handlers, recorded>>
  PROVE  /\ Fifo'
         /\ \A i \in 1..said : \A t : Pending(i, t)' <=> Pending(i, t)
         /\ \A i, t : i = said + 1 => (Pending(i, t)' <=> t = b)
<1>1. /\ said \in Nat /\ Len(queue) \in Nat /\ DOMAIN queue = 1..Len(queue)
      /\ recorded \subseteq 1..said
      /\ \A h \in handlers : h.id \in 1..said
      /\ \A j \in 1..Len(queue) : queue[j].id \in 1..said
  BY DEF ToldInv, Shapes
<1>2. /\ Len(queue') = Len(queue) + 1 /\ DOMAIN queue' = 1..Len(queue')
      /\ \A j \in 1..Len(queue) : queue'[j] = queue[j]
      /\ queue'[Len(queue) + 1].id = said + 1 /\ queue'[Len(queue) + 1].body = b
  <2>1. queue' \in Seq(Messages)
    BY Queued
  <2> QED BY <1>1, <2>1, Queued DEF Message
<1>3. \A j \in 1..Len(queue') : j \in 1..Len(queue) \/ j = Len(queue) + 1
  BY <1>1, <1>2
<1>4. Fifo'
  <2>1. \A j \in 1..Len(queue') : queue'[j].id = said' - Len(queue') + j
    BY <1>1, <1>2, <1>3 DEF Fifo
  <2>2. \A h \in handlers, j \in 1..Len(queue') : h.id <= queue'[j].id
    BY <1>1, <1>2, <1>3 DEF Fifo
  <2>3. \A h \in handlers, j \in 1..Len(queue') :
          queue'[j].id = h.id => queue'[j].body = h.body
    BY <1>1, <1>2, <1>3 DEF Fifo
  <2> QED BY <2>1, <2>2, <2>3 DEF Fifo
<1>5. ASSUME NEW i \in 1..said, NEW t PROVE Pending(i, t)' <=> Pending(i, t)
  <2>1. i # said + 1
    BY <1>1
  <2>2. 1..Len(queue) \subseteq 1..Len(queue')
    BY <1>1, <1>2
  <2>3. (\E j \in 1..Len(queue') : queue'[j].id = i /\ queue'[j].body = t)
          <=> (\E j \in 1..Len(queue) : queue[j].id = i /\ queue[j].body = t)
    BY <1>2, <1>3, <2>1, <2>2
  <2> QED BY <2>3 DEF Pending
<1>6. ASSUME NEW i, NEW t, i = said + 1 PROVE Pending(i, t)' <=> t = b
  <2>1. said + 1 \notin recorded /\ \A h \in handlers : h.id # said + 1
    BY <1>1
  <2>2. \A j \in 1..Len(queue) : queue[j].id # said + 1
    BY <1>1
  <2>3. Len(queue) + 1 \in 1..Len(queue')
    BY <1>1, <1>2
  <2>4. (\E j \in 1..Len(queue') : queue'[j].id = said + 1 /\ queue'[j].body = t) <=> t = b
    BY <1>2, <1>3, <2>2, <2>3
  <2> QED BY <1>6, <2>1, <2>4 DEF Pending
<1> QED BY <1>4, <1>5, <1>6

\* A report the agent makes is a step on from its state.
LEMMA NewReport ==
  ASSUME ToldInv, Fifo, InStep, NEW s \in MissionStates,
         flown \in LiveMissionStates, IsLegalMissionTransition(flown, s), flown' = s,
         queue' = Append(queue, Message(s)), said' = said + 1,
         UNCHANGED <<handlers, recorded, state, restarted, overtaken, lost>>
  PROVE  Fifo' /\ InStep'
<1>1. /\ Fifo'
      /\ \A i \in 1..said : \A t : Pending(i, t)' <=> Pending(i, t)
      /\ \A i, t : i = said + 1 => (Pending(i, t)' <=> t = s)
  <2>1. s \in Bodies
    BY DEF Bodies
  <2> QED BY <2>1, NewMessage
<1>2. said \in Nat
  BY DEF ToldInv, Shapes
<1>3. SUFFICES ASSUME ~overtaken, lost = {}, ~Ended
               PROVE  \E st \in [0..(said + 1) -> MissionStates] : Leads(st)'
  BY <1>1 DEF InStep, Ended
<1>4. PICK st \in [0..said -> MissionStates] : Leads(st)
  BY <1>3 DEF InStep
<1>5. PICK new \in [0..(said + 1) -> MissionStates] :
        (\A i \in 0..said : new[i] = st[i]) /\ new[said + 1] = s
  <2> WITNESS [i \in 0..(said + 1) |-> IF i \in 0..said THEN st[i] ELSE s]
                \in [0..(said + 1) -> MissionStates]
  <2> QED BY <1>2
<1>6. (\A i \in 0..said : new[i] = st[i]) /\ new[said + 1] = s
  BY <1>5
<1>7. st[said] = flown /\ \A i \in 0..said : st[i] \in LiveMissionStates
  BY <1>4 DEF Leads
<1>8. \A i \in 0..(said + 1) : i \in 0..said \/ i = said + 1
  BY <1>2
<1>9. new[0] = state' /\ new[said + 1] = flown'
  BY <1>2, <1>4, <1>6 DEF Leads
<1>10. \A i \in 0..(said + 1) : new[i] \in LiveMissionStates \/ new[i] = new[said + 1]
  BY <1>6, <1>7, <1>8
<1>11. ASSUME NEW i \in 1..(said + 1), NEW t \in MissionStates, Pending(i, t)'
       PROVE  new[i] = t /\ IsLegalMissionTransition(new[i - 1], t)
  <2>1. CASE i = said + 1
    <3>1. t = s /\ i - 1 = said
      BY <1>1, <1>2, <1>11, <2>1
    <3>2. new[said] = flown
      BY <1>2, <1>6, <1>7
    <3> QED BY <2>1, <3>1, <3>2, <1>6
  <2>2. CASE i # said + 1
    <3>1. i \in 1..said /\ i \in 0..said /\ i - 1 \in 0..said
      BY <1>2, <2>2
    <3>2. Pending(i, t)
      BY <1>1, <1>11, <3>1
    <3>3. st[i] = t /\ IsLegalMissionTransition(st[i - 1], t)
      BY <1>4, <3>1, <3>2 DEF Leads
    <3> QED BY <1>6, <3>1, <3>3
  <2> QED BY <2>1, <2>2
<1>12. ASSUME NEW i \in 0..(said + 1), NEW j \in 0..(said + 1), i <= j,
              \A k \in (i + 1)..j, t \in MissionStates : ~Pending(k, t)'
       PROVE  new[i] = new[j]
  <2>1. CASE j = said + 1
    <3>1. i = said + 1
      BY <1>1, <1>2, <1>12, <2>1
    <3> QED BY <2>1, <3>1
  <2>2. CASE j # said + 1
    <3>1. i \in 0..said /\ j \in 0..said /\ \A k \in (i + 1)..j : k \in 1..said
      BY <1>2, <1>12, <2>2
    <3>2. \A k \in (i + 1)..j, t \in MissionStates : ~Pending(k, t)
      BY <1>1, <1>12, <3>1
    <3>3. st[i] = st[j]
      BY <1>4, <1>12, <3>1, <3>2 DEF Leads
    <3> QED BY <1>6, <3>1, <3>3
  <2> QED BY <2>1, <2>2
<1>13. Leads(new)'
  BY <1>9, <1>10, <1>11, <1>12 DEF Leads
<1> QED BY <1>5, <1>13

\* A capture's report moves nothing.
LEMMA NewUpload ==
  ASSUME ToldInv, Fifo, InStep, NEW c \in Captures,
         queue' = Append(queue, Message(c)), said' = said + 1,
         UNCHANGED <<flown, handlers, recorded, state, restarted, overtaken, lost>>
  PROVE  Fifo' /\ InStep'
<1>1. /\ Fifo'
      /\ \A i \in 1..said : \A t : Pending(i, t)' <=> Pending(i, t)
      /\ \A i, t : i = said + 1 => (Pending(i, t)' <=> t = c)
  <2>1. c \in Bodies
    BY DEF Bodies
  <2> QED BY <2>1, NewMessage
<1>2. said \in Nat /\ c \notin MissionStates
  BY IngestAssumption DEF ToldInv, Shapes
<1>3. SUFFICES ASSUME ~overtaken, lost = {}, ~Ended
               PROVE  \E st \in [0..(said + 1) -> MissionStates] : Leads(st)'
  BY <1>1 DEF InStep, Ended
<1>4. PICK st \in [0..said -> MissionStates] : Leads(st)
  BY <1>3 DEF InStep
<1>5. PICK new \in [0..(said + 1) -> MissionStates] :
        (\A i \in 0..said : new[i] = st[i]) /\ new[said + 1] = st[said]
  <2> WITNESS [i \in 0..(said + 1) |-> IF i \in 0..said THEN st[i] ELSE st[said]]
                \in [0..(said + 1) -> MissionStates]
  <2> QED BY <1>2
<1>6. (\A i \in 0..said : new[i] = st[i]) /\ new[said + 1] = st[said]
  BY <1>5
<1>8. \A i \in 0..(said + 1) : i \in 0..said \/ i = said + 1
  BY <1>2
<1>9. /\ new[0] = state'
      /\ \/ new[said + 1] = flown'
         \/ restarted' /\ flown' \notin LiveMissionStates /\ new[said + 1] \in LiveMissionStates
  BY <1>2, <1>4, <1>6 DEF Leads
<1>10. \A i \in 0..(said + 1) : new[i] \in LiveMissionStates \/ new[i] = new[said + 1]
  BY <1>4, <1>6, <1>8 DEF Leads
<1>11. ASSUME NEW i \in 1..(said + 1), NEW t \in MissionStates, Pending(i, t)'
       PROVE  new[i] = t /\ IsLegalMissionTransition(new[i - 1], t)
  <2>1. i # said + 1
    BY <1>1, <1>2, <1>11
  <2>2. i \in 1..said /\ i \in 0..said /\ i - 1 \in 0..said
    BY <1>2, <2>1
  <2>3. Pending(i, t)
    BY <1>1, <1>11, <2>2
  <2>4. st[i] = t /\ IsLegalMissionTransition(st[i - 1], t)
    BY <1>4, <2>2, <2>3 DEF Leads
  <2> QED BY <1>6, <2>2, <2>4
<1>12. ASSUME NEW i \in 0..(said + 1), NEW j \in 0..(said + 1), i <= j,
              \A k \in (i + 1)..j, t \in MissionStates : ~Pending(k, t)'
       PROVE  new[i] = new[j]
  <2>1. ASSUME NEW m \in 0..said, NEW n \in 0..said, m <= n, i <= m, n <= j,
               m = i
        PROVE  st[m] = st[n]
    <3>1. \A k \in (m + 1)..n : k \in 1..said /\ k \in (i + 1)..j
      BY <1>2, <2>1
    <3>2. \A k \in (m + 1)..n, t \in MissionStates : ~Pending(k, t)
      BY <1>1, <1>12, <3>1
    <3> QED BY <1>4, <2>1, <3>2 DEF Leads
  <2>2. CASE j \in 0..said
    <3>1. i \in 0..said
      BY <1>2, <1>12, <2>2
    <3> QED BY <1>6, <1>12, <2>1, <2>2, <3>1
  <2>3. CASE j = said + 1 /\ i \in 0..said
    <3>1. st[i] = st[said]
      BY <1>2, <2>1, <2>3
    <3> QED BY <1>6, <2>3, <3>1
  <2>4. CASE j = said + 1 /\ i = said + 1
    BY <2>4
  <2> QED BY <1>8, <2>2, <2>3, <2>4
<1>13. Leads(new)'
  BY <1>9, <1>10, <1>11, <1>12 DEF Leads
<1> QED BY <1>5, <1>13

\* Handing a message over leaves it pending.
LEMMA ReceiveOrder ==
  ASSUME ToldInv, Fifo, InStep, Receive
  PROVE  Fifo' /\ InStep'
<1> USE DEF agentVars, linkVars, missionVars, endVars, captureVars, historyVars
<1> DEFINE new == [id |-> Head(queue).id, body |-> Head(queue).body, step |-> "record"]
<1>1. /\ said \in Nat /\ queue \in Seq(Messages) /\ queue # <<>>
      /\ handlers' = handlers \cup {new}
      /\ queue' = Tail(queue) \/ queue' = queue
      /\ UNCHANGED <<flown, said, restarted, recorded, state, overtaken, lost>>
  BY DEF ToldInv, Shapes, Receive
<1>2. new.id = queue[1].id /\ new.body = queue[1].body /\ new.step = "record"
  BY <1>1
<1> HIDE DEF new
<1>3. Len(queue) \in Nat /\ Len(queue) >= 1
  BY <1>1
<1>4. /\ 1 \in 1..Len(queue)
      /\ \A j \in 1..Len(queue) : queue[j].id = said - Len(queue) + j
  BY <1>3 DEF Fifo
<1>5. queue' = Tail(queue) =>
        /\ Len(queue') = Len(queue) - 1
        /\ \A j \in 1..Len(queue') : j + 1 \in 1..Len(queue) /\ queue'[j] = queue[j + 1]
        /\ \A j \in 2..Len(queue) : j - 1 \in 1..Len(queue') /\ queue[j] = queue'[j - 1]
  BY <1>1, <1>3
<1>6. \A j \in 1..Len(queue') : \E k \in 1..Len(queue) : queue'[j] = queue[k]
  BY <1>1, <1>5
<1>7. \A j \in 1..Len(queue) : j = 1 \/ \E k \in 1..Len(queue') : queue[j] = queue'[k]
  <2>1. CASE queue' = queue
    BY <2>1
  <2>2. CASE queue' = Tail(queue)
    <3>1. \A j \in 1..Len(queue) : j = 1 \/ j \in 2..Len(queue)
      BY <1>3
    <3> QED BY <1>5, <2>2, <3>1
  <2> QED BY <1>1, <2>1, <2>2
<1>8. \A j \in 1..Len(queue) : queue[1].id <= queue[j].id
  BY <1>1, <1>3, <1>4
<1>9. \A j \in 1..Len(queue) : queue[j].id = queue[1].id => queue[j].body = queue[1].body
  <2>1. \A j \in 1..Len(queue) : queue[j].id = queue[1].id => j = 1
    BY <1>1, <1>3, <1>4
  <2> QED BY <2>1
<1>10. Fifo'
  <2>1. \A j \in 1..Len(queue') : queue'[j].id = said' - Len(queue') + j
    <3>1. CASE queue' = queue
      BY <3>1, <1>1, <1>4
    <3>2. CASE queue' = Tail(queue)
      BY <3>2, <1>1, <1>3, <1>4, <1>5
    <3> QED BY <1>1, <3>1, <3>2
  <2>2. \A h \in handlers', j \in 1..Len(queue') : h.id <= queue'[j].id
    BY <1>1, <1>2, <1>6, <1>8 DEF Fifo
  <2>3. \A h \in handlers' : h.step = "apply" => h.id \in recorded'
    BY <1>1, <1>2 DEF Fifo
  <2>4. \A g, h \in handlers' : g.id = h.id => g.body = h.body
    BY <1>1, <1>2, <1>4 DEF Fifo
  <2>5. \A h \in handlers', j \in 1..Len(queue') : queue'[j].id = h.id => queue'[j].body = h.body
    <3> SUFFICES ASSUME NEW h \in handlers', NEW j \in 1..Len(queue'), queue'[j].id = h.id
                 PROVE  queue'[j].body = h.body
      OBVIOUS
    <3>1. PICK k \in 1..Len(queue) : queue'[j] = queue[k]
      BY <1>6
    <3>2. CASE h \in handlers
      BY <3>1, <3>2 DEF Fifo
    <3>3. CASE h = new
      BY <3>1, <3>3, <1>2, <1>9
    <3> QED BY <1>1, <3>2, <3>3
  <2> QED BY <2>1, <2>2, <2>3, <2>4, <2>5 DEF Fifo
<1>11. ASSUME NEW i, NEW s PROVE Pending(i, s)' <=> Pending(i, s)
  <2>1. ASSUME Pending(i, s) PROVE Pending(i, s)'
    <3>1. CASE \E h \in handlers : h.id = i /\ h.body = s /\ (h.step = "apply" \/ i \notin recorded)
      BY <3>1, <1>1 DEF Pending
    <3>2. CASE \E j \in 1..Len(queue) : queue[j].id = i /\ queue[j].body = s /\ i \notin recorded
      BY <3>2, <1>1, <1>2, <1>7 DEF Pending
    <3> QED BY <2>1, <3>1, <3>2 DEF Pending
  <2>2. ASSUME Pending(i, s)' PROVE Pending(i, s)
    <3>1. CASE \E h \in handlers' : h.id = i /\ h.body = s /\ (h.step = "apply" \/ i \notin recorded)
      BY <3>1, <1>1, <1>2, <1>4 DEF Pending
    <3>2. CASE \E j \in 1..Len(queue') : queue'[j].id = i /\ queue'[j].body = s /\ i \notin recorded
      BY <3>2, <1>6 DEF Pending
    <3> QED BY <2>2, <1>1, <3>1, <3>2 DEF Pending
  <2> QED BY <2>1, <2>2
<1> QED BY <1>1, <1>10, <1>11, SamePending

\* So does recording it, once or again.
LEMMA RecordOrder ==
  ASSUME ToldInv, Fifo, InStep, NEW h \in handlers, RecordInboundMessage(h)
  PROVE  Fifo' /\ InStep'
<1> USE DEF agentVars, linkVars, missionVars, endVars, captureVars, historyVars
<1> DEFINE new == At(h, "apply")
<1>1. /\ said \in Nat /\ h \in Handlers /\ h.step = "record"
      /\ recorded' = recorded \cup {h.id}
      /\ UNCHANGED <<flown, queue, said, restarted, state, overtaken, lost>>
      /\ h.id \in recorded => handlers' = handlers \ {h}
      /\ h.id \notin recorded => handlers' = (handlers \ {h}) \cup {new}
  BY DEF ToldInv, Shapes, RecordInboundMessage
<1>2. new.id = h.id /\ new.body = h.body /\ new.step = "apply"
  BY <1>1 DEF At, Handlers
<1> HIDE DEF new
<1>3. \A g \in handlers' : \E f \in handlers : g.id = f.id /\ g.body = f.body
  BY <1>1, <1>2
<1>4. Fifo'
  <2>1. \A g \in handlers' : g.step = "apply" => g.id \in recorded'
    BY <1>1, <1>2 DEF Fifo
  <2>2. \A g, f \in handlers' : g.id = f.id => g.body = f.body
    BY <1>3 DEF Fifo
  <2>3. \A g \in handlers', j \in 1..Len(queue) :
          g.id <= queue[j].id /\ (queue[j].id = g.id => queue[j].body = g.body)
    BY <1>3 DEF Fifo
  <2> QED BY <1>1, <2>1, <2>2, <2>3 DEF Fifo
<1>5. ASSUME NEW i, NEW s PROVE Pending(i, s)' <=> Pending(i, s)
  <2>1. CASE i = h.id /\ h.id \notin recorded
    <3>1. Pending(i, s)' <=> s = h.body
      <4>1. \A g \in handlers' : g.id = h.id => g.body = h.body
        BY <1>3 DEF Fifo
      <4>2. new \in handlers' /\ i \in recorded'
        BY <1>1, <2>1
      <4> QED BY <4>1, <4>2, <1>2, <2>1 DEF Pending
    <3>2. Pending(i, s) <=> s = h.body
      BY <2>1 DEF Pending, Fifo
    <3> QED BY <3>1, <3>2
  <2>2. CASE i = h.id /\ h.id \in recorded
    BY <1>1, <2>2 DEF Pending
  <2>3. CASE i # h.id
    <3>1. i \in recorded' <=> i \in recorded
      BY <1>1, <2>3
    <3>2. \A g : g.id = i => (g \in handlers' <=> g \in handlers)
      BY <1>1, <1>2, <2>3
    <3> QED BY <3>1, <3>2, <1>1 DEF Pending
  <2> QED BY <2>1, <2>2, <2>3
<1> QED BY <1>1, <1>4, <1>5, SamePending

\* A handler that is done with leaves the others as they were.
LEMMA FewerHandlers ==
  ASSUME Fifo, handlers' \subseteq handlers, UNCHANGED <<queue, said, recorded>>
  PROVE  Fifo'
BY DEF Fifo

\* Applying a report takes the cloud's mission one step along.
LEMMA ApplyOrder ==
  ASSUME ToldInv, Fifo, InStep, NEW h \in handlers, ApplyMissionEvent(h)
  PROVE  InStep'
<1> USE DEF agentVars, linkVars, missionVars, endVars, captureVars, historyVars
<1>1. SUFFICES ASSUME ~overtaken', lost' = {}, ~Ended'
               PROVE  \E st \in [0..said -> MissionStates] : Leads(st)'
  BY DEF ApplyMissionEvent, InStep
<1>2. /\ said \in Nat /\ handlers \subseteq Handlers /\ h \in Handlers /\ h.id \in 1..said
      /\ h.step = "apply" /\ h.body \in MissionStates
      /\ UNCHANGED <<flown, queue, said, restarted, recorded, lost>>
      /\ handlers' = handlers \ {h}
      /\ ~overtaken /\ ~Overtakes(h)
  BY <1>1 DEF ToldInv, Shapes, ApplyMissionEvent
<1>3. lost = {} /\ ~Ended
  <2>1. CASE Ended
    BY <2>1, <1>1 DEF ApplyMissionEvent, Ended
  <2> QED BY <2>1, <1>1, <1>2
<1>4. PICK st \in [0..said -> MissionStates] : Leads(st)
  BY <1>2, <1>3 DEF InStep
<1>5. Pending(h.id, h.body) /\ h.id \in recorded
  BY <1>2 DEF Pending, Fifo
<1>6. st[h.id] = h.body /\ IsLegalMissionTransition(st[h.id - 1], h.body)
  BY <1>2, <1>4, <1>5 DEF Leads
<1>7. \A i \in 1..said : \A s : Pending(i, s) => i >= h.id
  <2> SUFFICES ASSUME NEW i \in 1..said, NEW s, Pending(i, s) PROVE i >= h.id
    OBVIOUS
  <2>1. CASE \E g \in handlers : g.id = i
    BY <1>2, <2>1 DEF Overtakes
  <2>2. CASE \E j \in 1..Len(queue) : queue[j].id = i
    BY <1>2, <2>2 DEF Fifo
  <2> QED BY <2>1, <2>2 DEF Pending
<1>8. st[h.id - 1] = state
  <2>1. h.id - 1 \in 0..said /\ 0 \in 0..said /\ 0 <= h.id - 1
    BY <1>2
  <2>2. \A k \in (0 + 1)..(h.id - 1), s \in MissionStates : ~Pending(k, s)
    BY <1>2, <1>7
  <2>3. st[0] = st[h.id - 1]
    BY <1>4, <2>1, <2>2 DEF Leads
  <2> QED BY <1>4, <2>3 DEF Leads
<1>9. state' = h.body
  BY <1>3, <1>6, <1>8 DEF ApplyMissionEvent, IsLegalMissionTransition
<1>10. \A i \in 1..said : \A s : Pending(i, s)' <=> Pending(i, s) /\ i # h.id
  <2> SUFFICES ASSUME NEW i \in 1..said, NEW s PROVE Pending(i, s)' <=> Pending(i, s) /\ i # h.id
    OBVIOUS
  <2>1. CASE i = h.id
    <3>1. \A g \in handlers' : g.id = h.id => g.step # "apply"
      BY <1>2 DEF Fifo, Handlers
    <3>2. ~Pending(i, s)'
      BY <1>2, <1>5, <2>1, <3>1 DEF Pending
    <3> QED BY <2>1, <3>2
  <2>2. CASE i # h.id
    BY <1>2, <2>2 DEF Pending
  <2> QED BY <2>1, <2>2
<1>11. PICK new \in [0..said -> MissionStates] :
         \A i \in 0..said : new[i] = IF i <= h.id THEN h.body ELSE st[i]
  <2> DEFINE f == [i \in 0..said |-> IF i <= h.id THEN h.body ELSE st[i]]
  <2>1. f \in [0..said -> MissionStates]
    BY <1>2
  <2> QED BY <2>1
<1>12. h.id \in 0..said /\ \A i \in 0..said : h.id <= i => new[i] = st[i]
  BY <1>2, <1>6, <1>11
<1>13. new[0] = state'
  BY <1>2, <1>9, <1>11
<1>14. new[said] = st[said]
  BY <1>2, <1>12
<1>15. \/ new[said] = flown'
       \/ restarted' /\ flown' \notin LiveMissionStates /\ new[said] \in LiveMissionStates
  BY <1>2, <1>4, <1>14 DEF Leads
<1>16. \A i \in 0..said : new[i] \in LiveMissionStates \/ new[i] = new[said]
  BY <1>4, <1>6, <1>11, <1>12, <1>14 DEF Leads
<1>17. ASSUME NEW i \in 1..said, NEW s \in MissionStates, Pending(i, s)'
       PROVE  new[i] = s /\ IsLegalMissionTransition(new[i - 1], s)
  <2>1. Pending(i, s) /\ i > h.id
    BY <1>2, <1>7, <1>10, <1>17
  <2>2. new[i] = st[i] /\ new[i - 1] = st[i - 1]
    BY <1>2, <1>12, <2>1
  <2> QED BY <1>4, <2>1, <2>2 DEF Leads
<1>18. ASSUME NEW i \in 0..said, NEW j \in 0..said, i <= j,
              \A k \in (i + 1)..j, s \in MissionStates : ~Pending(k, s)'
       PROVE  new[i] = new[j]
  <2>1. CASE j <= h.id
    BY <1>2, <1>11, <1>18, <2>1
  <2>2. CASE ~(j <= h.id) /\ i <= h.id
    <3>1. \A k \in (h.id + 1)..j : k \in (i + 1)..j /\ k \in 1..said /\ k # h.id
      BY <1>2, <1>18, <2>2
    <3>2. \A k \in (h.id + 1)..j, s \in MissionStates : ~Pending(k, s)
      BY <1>10, <1>18, <3>1
    <3>a. h.id <= j /\ h.id \in 0..said
      BY <1>2, <1>12, <2>2
    <3>3. st[h.id] = st[j]
      BY <1>4, <3>a, <3>2 DEF Leads
    <3> QED BY <1>6, <1>11, <2>2, <3>3
  <2>3. CASE ~(i <= h.id)
    <3>1. \A k \in (i + 1)..j : k \in 1..said /\ k # h.id
      BY <1>2, <1>18, <2>3
    <3>2. \A k \in (i + 1)..j, s \in MissionStates : ~Pending(k, s)
      BY <1>10, <1>18, <3>1
    <3>3. st[i] = st[j]
      BY <1>4, <1>18, <3>2 DEF Leads
    <3>4. ~(j <= h.id)
      BY <1>2, <1>18, <2>3
    <3> QED BY <1>11, <2>3, <3>3, <3>4
  <2> QED BY <2>1, <2>2, <2>3
<1>19. Leads(new)'
  BY <1>2, <1>13, <1>15, <1>16, <1>17, <1>18 DEF Leads
<1> QED BY <1>19

\* Each step preserves the path along which the pending reports lead from the cloud's
\* state to the agent's, unless a report was lost or overtaken.
LEMMA OrderStep == OrderInv /\ [Next]_vars => OrderInv'
<1> SUFFICES ASSUME OrderInv, [Next]_vars PROVE OrderInv'
  OBVIOUS
<1> USE DEF agentVars, linkVars, missionVars, endVars, captureVars, historyVars
<1>a. ToldInv /\ Fifo /\ InStep /\ said \in Nat
  BY DEF OrderInv, ToldInv, Shapes
<1>b. ToldInv'
  BY <1>a, ToldStep
<1> SUFFICES Fifo' /\ InStep'
  BY <1>b DEF OrderInv
<1>1. ASSUME NEW c \in Captures, AskCapture(c) \/ MintCapture(c) \/ AgentRefuses(c)
      PROVE  Fifo' /\ InStep'
  BY <1>1, <1>a, OrderSame DEF AskCapture, MintCapture, AgentRefuses
<1>2. ASSUME NEW c \in Captures, AgentUploads(c) PROVE Fifo' /\ InStep'
  BY <1>2, <1>a, NewUpload DEF AgentUploads
<1>3. CASE CancelMissionAsOperator
  <2>1. Fifo'
    BY <1>3, <1>a, FewerHandlers DEF CancelMissionAsOperator
  <2>2. Ended'
    BY <1>3 DEF CancelMissionAsOperator, Ended, TerminalMissionStates
  <2> QED BY <2>1, <2>2 DEF InStep
<1>4. ASSUME NEW s \in AgentStates, AgentReports(s) PROVE Fifo' /\ InStep'
  <2>1. s \in MissionStates
    BY IngestAssumption
  <2> QED BY <1>4, <1>a, <2>1, NewReport DEF AgentReports
<1>5. CASE Receive
  BY <1>5, <1>a, ReceiveOrder
<1>6. ASSUME NEW h \in handlers, RecordInboundMessage(h) PROVE Fifo' /\ InStep'
  BY <1>6, <1>a, RecordOrder
<1>7. ASSUME NEW h \in handlers, ApplyMissionEvent(h) PROVE Fifo' /\ InStep'
  <2>1. Fifo'
    BY <1>7, <1>a, FewerHandlers DEF ApplyMissionEvent
  <2> QED BY <1>7, <1>a, <2>1, ApplyOrder
<1>8. ASSUME NEW h \in handlers, RecordCapture(h) PROVE Fifo' /\ InStep'
  <2>1. Fifo'
    BY <1>8, <1>a, FewerHandlers DEF RecordCapture
  <2>2. h.body \notin MissionStates
    BY <1>8, IngestAssumption DEF RecordCapture
  <2>3. \A i \in 1..said, s \in MissionStates : Pending(i, s)' <=> Pending(i, s)
    BY <1>8, <2>2 DEF RecordCapture, Pending
  <2> QED BY <1>8, <1>a, <2>1, <2>3, SamePending DEF RecordCapture
<1>9. ASSUME NEW h \in handlers, HandlerFails(h) PROVE Fifo' /\ InStep'
  <2>1. Fifo'
    BY <1>9, <1>a, FewerHandlers DEF HandlerFails
  <2>2. lost' # {}
    BY <1>9 DEF HandlerFails
  <2> QED BY <2>1, <2>2 DEF InStep
<1>10. CASE RealtimeDies
  <2>1. Fifo'
    BY <1>10, <1>a, FewerHandlers DEF RealtimeDies
  <2>2. lost' # {}
    BY <1>10 DEF RealtimeDies
  <2> QED BY <2>1, <2>2 DEF InStep
<1>11. CASE AgentRestarts
  <2>1. Fifo'
    BY <1>11, <1>a DEF AgentRestarts, Fifo
  <2>2. queue \in Seq(Messages)
    BY <1>a DEF ToldInv, Shapes
  <2>3. CASE queue # <<>>
    <3>1. 1 \in DOMAIN queue
      BY <2>2, <2>3
    <3>2. lost' # {}
      BY <1>11, <3>1 DEF AgentRestarts
    <3> QED BY <2>1, <3>2 DEF InStep
  <2>4. CASE queue = <<>>
    <3>1. SUFFICES ASSUME ~overtaken, lost = {}, ~Ended
                   PROVE  \E st \in [0..said -> MissionStates] : Leads(st)'
      BY <1>11, <2>1, <2>4 DEF AgentRestarts, InStep, Ended
    <3>2. PICK st \in [0..said -> MissionStates] : Leads(st)
      BY <1>a, <3>1 DEF InStep
    <3>3. \A i, s : Pending(i, s)' <=> Pending(i, s)
      BY <1>11, <2>4 DEF AgentRestarts, Pending
    <3>4. UNCHANGED <<said, state>> /\ restarted'
      BY <1>11 DEF AgentRestarts
    <3>5. \/ st[said] = flown'
          \/ flown' \notin LiveMissionStates /\ st[said] \in LiveMissionStates
      BY <1>11, <3>2 DEF AgentRestarts, Leads, LiveMissionStates
    <3>6. Leads(st)'
      BY <3>2, <3>3, <3>4, <3>5 DEF Leads
    <3> QED BY <3>6
  <2> QED BY <2>3, <2>4
<1>12. CASE MarkLinkUp
  <2>1. Fifo'
    BY <1>12, <1>a, FewerHandlers DEF MarkLinkUp
  <2>2. CASE restarted /\ Live
    <3>1. Ended'
      BY <1>12, <2>2 DEF MarkLinkUp, Ended, TerminalMissionStates
    <3> QED BY <2>1, <3>1 DEF InStep
  <2>3. CASE ~(restarted /\ Live)
    <3>1. SUFFICES ASSUME ~overtaken, lost = {}, ~Ended
                   PROVE  \E st \in [0..said -> MissionStates] : Leads(st)'
      BY <1>12, <2>1, <2>3 DEF MarkLinkUp, InStep, Ended
    <3>2. PICK st \in [0..said -> MissionStates] : Leads(st)
      BY <1>a, <3>1 DEF InStep
    <3>3. \A i, s : Pending(i, s)' <=> Pending(i, s)
      BY <1>12 DEF MarkLinkUp, Pending
    <3>4. UNCHANGED <<said, state, flown>>
      BY <1>12, <2>3 DEF MarkLinkUp
    <3>5. st[said] = flown
      <4>1. st[0] = state /\ (st[0] \in LiveMissionStates \/ st[0] = st[said])
        BY <1>a, <3>2 DEF Leads
      <4> QED BY <2>3, <3>2, <4>1 DEF Leads, Live
    <3>6. Leads(st)'
      BY <3>2, <3>3, <3>4, <3>5 DEF Leads
    <3> QED BY <3>4, <3>6
  <2> QED BY <2>2, <2>3
<1>13. CASE ClaimEndedSlots
  <2>1. CASE linked /\ flown = "OBSERVING"
    <3>1. "COMPLETE" \in MissionStates /\ flown \in LiveMissionStates
      BY <2>1 DEF MissionStates, TerminalMissionStates, LiveMissionStates
    <3>2. LegalPredecessors["COMPLETE"] = {"PROCESSING", "OBSERVING"}
      BY <3>1 DEF LegalPredecessors
    <3>3. IsLegalMissionTransition(flown, "COMPLETE")
      BY <2>1, <3>2 DEF IsLegalMissionTransition
    <3> QED BY <1>13, <1>a, <2>1, <3>1, <3>3, NewReport DEF ClaimEndedSlots
  <2>2. CASE ~(linked /\ flown = "OBSERVING")
    BY <1>13, <1>a, <2>2, OrderSame DEF ClaimEndedSlots
  <2> QED BY <2>1, <2>2
<1>14. CASE AgentParks \/ ParkReported \/ SweepSessionEnds \/ Tick
  BY <1>14, <1>a, OrderSame DEF AgentParks, ParkReported, SweepSessionEnds, Tick
<1>15. CASE UNCHANGED vars
  BY <1>15, <1>a, OrderSame DEF vars
<1> QED
  BY <1>1, <1>2, <1>3, <1>4, <1>5, <1>6, <1>7, <1>8, <1>9, <1>10, <1>11, <1>12,
     <1>13, <1>14, <1>15 DEF Next, Apply

\* Handlers that wait for nobody, replays and restarts included: as long as no
\* report is lost or overtaken, the cloud's mission ends up where the agent's
\* is, unless the cloud ended it by itself: receive of agent-link.ts,
\* applyMissionEvent and markLinkUp of prisma-store.ts.
THEOREM InOrderInStep == Spec => []InOrderMeansInStep
<1>1. Init => OrderInv
  BY OrderInitially
<1>2. OrderInv /\ [Next]_vars => OrderInv'
  BY OrderStep
<1>3. OrderInv => InOrderMeansInStep
  BY OrderInvIsEnough
<1> QED BY <1>1, <1>2, <1>3, PTL DEF Spec
=============================================================================
