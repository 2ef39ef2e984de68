------------------------------ MODULE Pointing ------------------------------
(***************************************************************************)
(* The cloud's judgement of a pointing (apps/api/src/lib/safety/           *)
(* envelope.ts): the surveyed horizon between its samples, the forbidden   *)
(* sectors across north, and the rules in their order.  Degrees are        *)
(* integers on a circle of Circle steps; where the Sun is (its altitude    *)
(* and its separation from the pointing) comes from the ephemeris and is   *)
(* an input.  The module is a function of its inputs: a state is one       *)
(* question put to it.                                                     *)
(***************************************************************************)
EXTENDS Integers, Sequences, FiniteSets

CONSTANTS
  Circle,          \* steps of a full turn (360 degrees)
  MinSunExclusion, \* MIN_SUN_EXCLUSION_DEGREES
  MaxAltitude,     \* bound: altitudes, in steps
  MaxSamples,      \* bound: samples of a horizon mask
  NotANumber,      \* a reading or a setting that is not finite
  Unmeasured       \* no altitude limit

ASSUME PointingAssumption ==
  /\ {Circle, MinSunExclusion, MaxAltitude, MaxSamples} \subseteq Nat
  /\ Circle > 1
  /\ {NotANumber, Unmeasured} \cap Int = {}

VARIABLE question

Altitudes == 0..MaxAltitude
Samples == [az : 0..Circle - 1, alt : Altitudes]
Masks == UNION {[1..n -> Samples] : n \in 0..MaxSamples}
Sectors == [from : 0..Circle, to : 0..Circle]

\* normaliseAzimuth.
NormaliseAzimuth(az) == az % Circle

\* Mutant of AzimuthInSector: a sector across north holds nothing.
AzimuthInPlainSector(az, sector) == sector.from <= NormaliseAzimuth(az) /\ NormaliseAzimuth(az) < sector.to

\* azimuthInSector: from the start up to the end, across north when the end
\* is before the start; an empty sector holds nothing.
AzimuthInSector(az, sector) ==
  LET azimuth == NormaliseAzimuth(az)
      start == NormaliseAzimuth(sector.from)
      end == NormaliseAzimuth(sector.to)
  IN  \/ start < end /\ start <= azimuth /\ azimuth < end
      \/ start > end /\ (azimuth >= start \/ azimuth < end)

\* The samples in order of azimuth; the sort is stable.
Before(mask, i, j) == mask[i].az < mask[j].az \/ (mask[i].az = mask[j].az /\ i < j)
Place(mask, i) == Cardinality({j \in DOMAIN mask : Before(mask, j, i)}) + 1
Sorted(mask) == [n \in DOMAIN mask |-> mask[CHOOSE i \in DOMAIN mask : Place(mask, i) = n]]

\* A fraction, so that interpolation stays exact.
Fraction(n, d) == [n |-> n, d |-> d]
Whole(n) == Fraction(n, 1)

\* The line from one sample to the next, at an azimuth between them.
Between(from, to, azimuth) ==
  Fraction(from.alt * (to.az - from.az) + (to.alt - from.alt) * (azimuth - from.az), to.az - from.az)

\* Before the first sample, interpolate from the last one across north.
BeforeFirst(samples, azimuth) ==
  LET last == samples[Len(samples)]
  IN  Between([last EXCEPT !.az = last.az - Circle], samples[1], azimuth)

\* Past the last sample, interpolate to the first across north.
PastLast(samples, azimuth) ==
  Between(samples[Len(samples)], [samples[1] EXCEPT !.az = samples[1].az + Circle], azimuth)

\* horizonMinimumAltitude: the first sample at or past the azimuth decides.
HorizonMinimumAltitude(az, mask) ==
  LET azimuth == NormaliseAzimuth(az)
      samples == Sorted(mask)
      reached == {i \in DOMAIN samples : samples[i].az >= azimuth}
      first == CHOOSE i \in reached : \A j \in reached : i <= j
  IN  CASE Len(mask) = 1 -> Whole(mask[1].alt)
        [] Len(mask) > 1 /\ reached = {} -> PastLast(samples, azimuth)
        [] Len(mask) > 1 /\ reached # {} /\ samples[first].az = azimuth -> Whole(samples[first].alt)
        [] Len(mask) > 1 /\ reached # {} /\ samples[first].az > azimuth ->
             IF first = 1 THEN BeforeFirst(samples, azimuth)
             ELSE Between(samples[first - 1], samples[first], azimuth)

BelowHorizon(alt, az, mask) ==
  /\ mask # << >>
  /\ LET surveyed == HorizonMinimumAltitude(az, mask) IN alt * surveyed.d < surveyed.n

\* sunExclusionDegrees: never below the floor, half a turn when unreadable.
SunExclusion(configured) ==
  IF configured = NotANumber THEN Circle \div 2
  ELSE IF configured > MinSunExclusion THEN configured ELSE MinSunExclusion

\* daylightLockAltitudeDegrees: never above the horizon, never when unreadable.
DaylightLock(configured) ==
  IF configured = NotANumber THEN -(Circle \div 4)
  ELSE IF configured < 0 THEN configured ELSE 0

\* evaluatePointing: the first rule that refuses, in the code's order.
EvaluatePointing(q) ==
  CASE q.maxAlt = Unmeasured -> "SAFETY_ENVELOPE_UNMEASURED"
    [] q.maxAlt # Unmeasured /\ (q.alt = NotANumber \/ q.az = NotANumber) -> "DEVICE_UNAVAILABLE"
    [] OTHER ->
       IF ~q.site \/ q.separation < SunExclusion(q.exclusion) THEN "SAFETY_SUN_EXCLUSION"
       ELSE IF q.sunAlt > DaylightLock(q.lock) /\ ~q.override THEN "SAFETY_DAYLIGHT_LOCK"
       ELSE IF q.alt < q.minAlt THEN "SAFETY_BELOW_MIN_ALTITUDE"
       ELSE IF q.alt > q.maxAlt THEN "SAFETY_ABOVE_MAX_ALTITUDE"
       ELSE IF BelowHorizon(q.alt, q.az, q.mask) THEN "SAFETY_HORIZON_MASK"
       ELSE IF AzimuthInSector(q.az, q.sector) THEN "SAFETY_FORBIDDEN_AZIMUTH"
       ELSE "PERMITTED"

(***************************************************************************)
(* The questions                                                           *)
(***************************************************************************)
Clear == [maxAlt |-> MaxAltitude, minAlt |-> 0, alt |-> MaxAltitude, az |-> 0, site |-> TRUE,
          separation |-> Circle, exclusion |-> MinSunExclusion, sunAlt |-> -1, lock |-> 0,
          override |-> FALSE, mask |-> << >>, sector |-> [from |-> 0, to |-> 0]]

NoQuestion == [Clear EXCEPT !.maxAlt = Unmeasured]

PointingInit == question = NoQuestion

\* A pointing somewhere under a surveyed horizon.
AskHorizon ==
  /\ question = NoQuestion
  /\ \E mask \in Masks, az \in -1..Circle, alt \in Altitudes :
       question' = [Clear EXCEPT !.mask = mask, !.az = az, !.alt = alt]

\* A pointing by a forbidden sector, with altitude limits.
AskSector ==
  /\ question = NoQuestion
  /\ \E sector \in Sectors, az \in -1..Circle, minAlt \in Altitudes, alt \in Altitudes, maxAlt \in Altitudes :
       question' = [Clear EXCEPT !.sector = sector, !.az = az, !.minAlt = minAlt, !.alt = alt, !.maxAlt = maxAlt]

\* A pointing near the Sun, by day and by night, attended or not.
AskSun ==
  /\ question = NoQuestion
  /\ \E site \in BOOLEAN, override \in BOOLEAN, separation \in 0..Circle \div 2,
        exclusion \in 0..Circle \div 2 \cup {NotANumber}, sunAlt \in -(Circle \div 4)..1,
        lock \in {NotANumber, -1, 0, 1}, alt \in {NotANumber, 0}, maxAlt \in {0, Unmeasured} :
       question' = [Clear EXCEPT !.site = site, !.override = override, !.separation = separation,
                   !.exclusion = exclusion, !.sunAlt = sunAlt, !.lock = lock, !.alt = alt, !.maxAlt = maxAlt]

PointingNext == AskHorizon \/ AskSector \/ AskSun

PointingSpec == PointingInit /\ [][PointingNext]_question

(***************************************************************************)
(* What the rules mean, said without sorting or cases                      *)
(***************************************************************************)
Ahead(from, to) == (to - from) % Circle

\* The horizon at an azimuth: the samples nearest behind and ahead of it on
\* the circle, joined by a line. Samples are at distinct azimuths.
Surveyed(az, mask) ==
  LET behind == CHOOSE i \in DOMAIN mask : \A j \in DOMAIN mask : Ahead(mask[i].az, az) <= Ahead(mask[j].az, az)
      ahead == CHOOSE i \in DOMAIN mask : \A j \in DOMAIN mask : Ahead(az, mask[i].az) <= Ahead(az, mask[j].az)
      b == Ahead(mask[behind].az, az)
      a == Ahead(az, mask[ahead].az)
  IN  IF b = 0 THEN Whole(mask[behind].alt)
      ELSE Fraction(mask[behind].alt * a + mask[ahead].alt * b, a + b)

Distinct(mask) == \A i, j \in DOMAIN mask : mask[i].az = mask[j].az => i = j

Above(alt, horizon) == alt * horizon.d >= horizon.n

\* A pointing is permitted exactly when the limit is measured, the reading
\* and the site are known, the Sun is far enough whoever asks, it is dark or
\* an operator attends, the altitude is within the limits and above the
\* horizon on the whole circle, and the bearing is in no forbidden arc
\* (evaluatePointing, horizonMinimumAltitude, azimuthInSector).
PermittedIsSafe ==
  LET q == question
      exclusions == IF q.exclusion = NotANumber THEN {Circle \div 2} ELSE {q.exclusion, MinSunExclusion}
      nightfalls == IF q.lock = NotANumber THEN {-(Circle \div 4)} ELSE {q.lock, 0}
  IN  Distinct(q.mask) =>
        (EvaluatePointing(q) = "PERMITTED" <=>
           /\ q.maxAlt # Unmeasured
           /\ NotANumber \notin {q.alt, q.az}
           /\ q.site
           /\ \A far \in exclusions : q.separation >= far
           /\ q.override \/ \A dark \in nightfalls : q.sunAlt <= dark
           /\ q.minAlt <= q.alt /\ q.alt <= q.maxAlt
           /\ q.mask # << >> => Above(q.alt, Surveyed(q.az, q.mask))
           /\ ~ (Ahead(q.sector.from, q.az) < Ahead(q.sector.from, q.sector.to)))
=============================================================================
