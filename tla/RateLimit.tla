----------------------------- MODULE RateLimit -----------------------------
(***************************************************************************)
(* The one limiter of both services (packages/db/rate-limit.ts): a bucket  *)
(* per scope and identity, changed by a single statement that rolls the    *)
(* window, counts the attempt and blocks.  One policy and one bucket.      *)
(***************************************************************************)
EXTENDS Naturals, FiniteSets

CONSTANTS Limit, Window, Block, MaxMeterClock

\* Every policy blocks for as long as its window (rate-limit.ts, its default
\* and all that are given): a block does not end much before a window would.
ASSUME MeterAssumption ==
  /\ {Limit, Window, Block} \subseteq Nat \ {0} /\ MaxMeterClock \in Nat
  /\ Window <= Block + 1

VARIABLES
  bucket,     \* the RateLimitBucket row; until = 0 is no block
  admitted,   \* the attempts let through, each with its instant
  meterClock

meterVars == <<bucket, admitted, meterClock>>

MeterInit ==
  /\ bucket = [count |-> 0, started |-> 0, until |-> 0]
  /\ admitted = {} /\ meterClock = 1

\* The row after an attempt: a block stands and is not extended; a lapsed block
\* and a window that ran out both start afresh; otherwise the attempt counts.
Counted(b, now) ==
  IF b.until > now THEN b
  ELSE IF b.count = 0 \/ b.until # 0 \/ b.started + Window <= now
       THEN [count |-> 1, started |-> now, until |-> 0]
  ELSE [b EXCEPT !.count = @ + 1,
                 !.until = IF b.count + 1 > Limit THEN now + Block ELSE 0]

\* consumeLimit, meterRequest: an attempt goes on when the row it leaves has no
\* block.
Proceeds(b, now) == b.until <= now

ConsumeRateLimit ==
  /\ bucket' = Counted(bucket, meterClock)
  /\ admitted' = IF Proceeds(bucket', meterClock)
                 THEN admitted \cup {<<meterClock, Cardinality(admitted)>>}
                 ELSE admitted
  /\ UNCHANGED meterClock

MeterTick ==
  /\ meterClock < MaxMeterClock
  /\ meterClock' = meterClock + 1
  /\ UNCHANGED <<bucket, admitted>>

MeterNext == ConsumeRateLimit \/ MeterTick

MeterSpec == MeterInit /\ [][MeterNext]_meterVars

-----------------------------------------------------------------------------
(* Properties.                                                             *)

Within(from, to) == {a \in admitted : from <= a[1] /\ a[1] < to}

\* Two windows in a row never let through more than twice the limit, wherever
\* they begin and whether a window or a block was what ran out; a caller who
\* is blocked has had no more than the limit since the window began.
WithinTheLimit ==
  /\ \A t \in 0..MaxMeterClock : Cardinality(Within(t, t + Window)) <= 2 * Limit
  /\ bucket.until > meterClock =>
       Cardinality(Within(bucket.started, meterClock + 1)) <= Limit
=============================================================================
