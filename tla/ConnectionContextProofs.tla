----------------------- MODULE ConnectionContextProofs -----------------------
(***************************************************************************)
(* SilenceInv is inductive, for any setting of the failure detection       *)
(* parameters and any length of the monitor's rounds; what a verdict means *)
(* in time and in failed checks follows from it.                           *)
(***************************************************************************)
EXTENDS ConnectionContext, TLAPS

\* interval * max(0, count) is a natural number, whatever the configured count.
LEMMA MaxInvalidDurationType == ASSUME Parameters PROVE MaxInvalidDuration \in Nat
<1>1. Max0(Count) \in Nat
  BY DEF Parameters, Max0
<1> QED
  BY <1>1 DEF Parameters, MaxInvalidDuration

\* The comparison of the measured duration with its limit has two outcomes.
LEMMA Order == ASSUME NEW a \in Int, NEW b \in Int
               PROVE (a >= b \/ a < b) /\ ~(a >= b /\ a < b)
OBVIOUS

\* A product with one factor more.
LEMMA OneMore == ASSUME NEW n \in Int, NEW d \in Int
                 PROVE (n + 1) * d = n * d + d
OBVIOUS

\* Of two durations made of intervals the shorter one has fewer of them.
LEMMA FewerIntervals == ASSUME NEW a \in Int, NEW b \in Int, NEW d \in Nat \ {0}, a * d < d * b
                        PROVE a < b
<1>1. ASSUME a >= b PROVE FALSE
  <2>1. PICK k \in Nat : a = b + k
    <3>1. a - b \in Nat /\ a = b + (a - b)
      BY <1>1
    <3> QED
      BY <3>1
  <2>2. a * d = b * d + k * d /\ k * d >= 0 /\ b * d = d * b
    BY <2>1
  <2> QED
    BY <2>2
<1> QED
  BY <1>1

\* A context that has just been registered has no silence behind it.
LEMMA InitSilence == ASSUME Parameters, Init PROVE SilenceInv
<1> USE DEF Parameters
<1>1. ~node_unhealthy /\ node_unhealthy \in BOOLEAN /\ ~hurried /\ hurried \in BOOLEAN
  BY DEF Init
<1>2. /\ now \in Nat /\ start \in Nat \ {0} /\ elapsed \in Nat
      /\ failure_count \in Nat /\ failure_count = 0 /\ silent_since \in Nat
      /\ start <= silent_since /\ silent_since <= now /\ silent_since = now
  BY DEF Init
<1>3. invalid_since = 0 /\ invalid_since \in Nat /\ ~(invalid_since > 0)
  BY DEF Init
<1> QED
  BY <1>1, <1>2, <1>3 DEF SilenceInv, TypeOK

\* A failed check; begin and end are as MONITOR::run computes them.
LEMMA InvalidSilence ==
  ASSUME Parameters, NEW i \in Nat, NEW begin \in Nat, NEW end \in Nat, SilenceInv, ~node_unhealthy,
         now <= begin, now + i - elapsed <= begin, begin <= end,
         now' = end, start' = start, elapsed' = end - begin, SetInvalid(i, begin, end)
  PROVE  SilenceInv'
<1> USE MaxInvalidDurationType DEF Parameters
<1>1. /\ now \in Nat /\ start \in Nat \ {0} /\ silent_since \in Nat /\ invalid_since \in Nat
      /\ elapsed \in Nat
      /\ failure_count \in Nat /\ start <= silent_since /\ silent_since <= now
      /\ invalid_since = 0 => silent_since = now /\ failure_count = 0
      /\ invalid_since > 0 =>
           /\ silent_since <= invalid_since
           /\ invalid_since <= now - elapsed
           /\ failure_count > 0
  BY DEF SilenceInv, TypeOK
<1>2. /\ end - start > DetectionTime /\ failure_count' = failure_count + 1
      /\ invalid_since' = IF invalid_since > 0 THEN invalid_since ELSE begin
      /\ silent_since' = silent_since
  BY DEF SetInvalid
<1>3. /\ invalid_since' \in Nat /\ invalid_since' > 0
      /\ silent_since <= invalid_since' /\ invalid_since' <= begin
  BY <1>1, <1>2
<1>4. /\ now' \in Nat /\ start' \in Nat \ {0} /\ elapsed' \in Nat
      /\ failure_count' \in Nat /\ invalid_since' \in Nat /\ silent_since' \in Nat
      /\ start' <= silent_since' /\ silent_since' <= now'
      /\ invalid_since' # 0 /\ now' - start' > DetectionTime
      /\ silent_since' <= invalid_since'
      /\ invalid_since' <= now' - elapsed' /\ now' - elapsed' = begin
      /\ failure_count' > 0
  BY <1>1, <1>2, <1>3
<1>5. end - invalid_since' \in Int /\ MaxInvalidDuration \in Int
  BY <1>3
<1>h. hurried' \in BOOLEAN /\ hurried \in BOOLEAN
  BY DEF SetInvalid, SilenceInv, TypeOK
\* with the context's own interval, this check began an interval after the last one
<1>n. ASSUME ~hurried' PROVE (failure_count' - 1) * Interval <= now' - elapsed' - invalid_since'
  <2>1. ~hurried /\ ~(invalid_since > 0 /\ i < Interval)
    BY <1>n, <1>h DEF SetInvalid
  <2>2. CASE invalid_since = 0
    <3>1. failure_count' - 1 = 0 /\ invalid_since' = begin
      BY <1>1, <1>2, <2>2
    <3>2. 0 * Interval = 0
      OBVIOUS
    <3> QED
      BY <3>1, <3>2, <1>4
  <2>3. CASE invalid_since > 0
    <3>1. (failure_count - 1) * Interval <= now - elapsed - invalid_since
      BY <2>1, <2>3 DEF SilenceInv
    <3>2. i >= Interval /\ invalid_since' = invalid_since
      BY <2>1, <2>3, <1>2, <1>1
    <3>3. ((failure_count - 1) + 1) * Interval = (failure_count - 1) * Interval + Interval
      BY <1>1, OneMore
    <3>4. failure_count' - 1 = (failure_count - 1) + 1
      BY <1>1, <1>2
    <3>5. (failure_count - 1) * Interval \in Int
      BY <1>1
    <3>6. (failure_count - 1) * Interval + Interval <= begin - invalid_since
      BY <3>1, <3>2, <3>5, <1>1
    <3> QED
      BY <3>2, <3>3, <3>4, <3>6, <1>4
  <2> QED
    BY <2>2, <2>3, <1>1
<1>6. CASE end - invalid_since' >= MaxInvalidDuration
  <2>1. node_unhealthy' = TRUE
    BY <1>6 DEF SetInvalid
  <2>2. now' - invalid_since' >= MaxInvalidDuration
    BY <1>6
  <2> QED
    BY <1>4, <1>h, <1>n, <2>1, <2>2 DEF SilenceInv, TypeOK
<1>7. CASE end - invalid_since' < MaxInvalidDuration
  <2>1. ~node_unhealthy' /\ node_unhealthy' \in BOOLEAN
    <3>1. ~(end - invalid_since' >= MaxInvalidDuration)
      BY <1>7, <1>5, Order
    <3> QED
      BY <3>1 DEF SetInvalid, SilenceInv, TypeOK
  <2>2. now' - invalid_since' < MaxInvalidDuration
    BY <1>7
  <2> QED
    BY <1>4, <1>h, <1>n, <2>1, <2>2 DEF SilenceInv, TypeOK
<1> QED
  BY <1>6, <1>7, <1>5, Order

\* A check within FAILURE_DETECTION_TIME counts for nothing.
LEMMA GraceSilence ==
  ASSUME Parameters, NEW end \in Nat, SilenceInv, ~node_unhealthy, now <= end,
         now' = end, start' = start, elapsed' \in Nat, Grace(end)
  PROVE  SilenceInv'
<1> USE DEF Parameters
\* a failed check ends after the grace period, and so does every later one
<1>1. invalid_since = 0
  BY DEF Grace, SilenceInv, TypeOK
<1>2. ~node_unhealthy' /\ node_unhealthy' \in BOOLEAN /\ ~hurried' /\ hurried' \in BOOLEAN
  BY <1>1 DEF Grace, SilenceInv, TypeOK
<1>3. /\ now' \in Nat /\ start' \in Nat \ {0} /\ elapsed' \in Nat
      /\ failure_count' \in Nat /\ invalid_since' \in Nat /\ silent_since' \in Nat
      /\ start' <= silent_since' /\ silent_since' = now'
      /\ invalid_since' = 0 /\ failure_count' = 0
  BY <1>1 DEF Grace, SilenceInv, TypeOK
<1> QED
  BY <1>2, <1>3 DEF SilenceInv, TypeOK

\* A successful check ends the silence and resets the measurement.
LEMMA ValidSilence ==
  ASSUME Parameters, NEW end \in Nat, SilenceInv, now <= end,
         now' = end, start' = start, elapsed' \in Nat, SetValid(end)
  PROVE  SilenceInv'
<1> USE DEF Parameters
<1>1. ~node_unhealthy' /\ node_unhealthy' \in BOOLEAN /\ ~hurried' /\ hurried' \in BOOLEAN
  BY DEF SetValid
<1>2. /\ now' \in Nat /\ start' \in Nat \ {0} /\ elapsed' \in Nat
      /\ failure_count' \in Nat /\ silent_since' \in Nat
      /\ start' <= silent_since' /\ silent_since' = now'
      /\ invalid_since' = 0 /\ failure_count' = 0
  BY DEF SetValid, SilenceInv, TypeOK
<1> QED
  BY <1>1, <1>2 DEF SilenceInv, TypeOK

\* A round of MONITOR::run preserves the invariant, whichever way its check ends.
LEMMA CheckSilence ==
  ASSUME Parameters, SilenceInv, NEW i \in Nat, NEW begin \in Nat, NEW end \in Nat, begin <= end,
         Check(i, begin, end)
  PROVE  SilenceInv'
<1>1. now \in Nat /\ elapsed \in Nat
  BY DEF SilenceInv, TypeOK
<1>2. now <= begin /\ now + i - elapsed <= begin /\ now <= end /\ end - begin \in Nat
  BY <1>1 DEF Check, Max0
<1>3. /\ ~node_unhealthy /\ now' = end /\ elapsed' = end - begin /\ start' = start
      /\ Grace(end) \/ SetValid(end) \/ SetInvalid(i, begin, end)
  BY DEF Check
<1>4. elapsed' \in Nat
  BY <1>2, <1>3
<1> QED
  BY <1>2, <1>3, <1>4, GraceSilence, ValidSilence, InvalidSilence

\* SilenceInv is inductive.
LEMMA StepSilence == ASSUME Parameters PROVE SilenceInv /\ [Next]_vars => SilenceInv'
<1>1. ASSUME SilenceInv, Next PROVE SilenceInv'
  <2>1. now \in Nat
    BY <1>1 DEF SilenceInv, TypeOK
  <2>2. PICK i \in 1 .. MaxTime, begin \in now .. MaxTime : \E end \in begin .. MaxTime :
          Check(i, begin, end)
    BY <1>1 DEF Next
  <2>3. PICK end \in begin .. MaxTime : Check(i, begin, end)
    BY <2>2
  <2>4. i \in Nat /\ begin \in Nat /\ end \in Nat /\ begin <= end
    BY <2>1 DEF Parameters
  <2> QED
    BY <1>1, <2>3, <2>4, CheckSilence
<1>2. ASSUME SilenceInv, UNCHANGED vars PROVE SilenceInv'
  BY <1>2 DEF vars, SilenceInv, TypeOK
<1> QED
  BY <1>1, <1>2

\* The duration set_connection_valid measures is that of the silence, less the
\* time before the first failed check, and covers the rounds between failed checks.
THEOREM Silence == ASSUME Parameters PROVE Spec => []SilenceInv
BY InitSilence, StepSilence, PTL DEF Spec

\* A connection is aborted only when every check has failed for
\* FAILURE_DETECTION_INTERVAL * FAILURE_DETECTION_COUNT (set_connection_valid).
THEOREM AbortedOnlyAfterSilence == ASSUME Parameters PROVE Spec => []DeadOnlyAfterSilence
<1>1. SilenceInv => DeadOnlyAfterSilence
  BY MaxInvalidDurationType DEF Parameters, SilenceInv, TypeOK, DeadOnlyAfterSilence
<1> QED
  BY <1>1, Silence, PTL

\* Whatever the rounds of MONITOR::run last, FAILURE_DETECTION_COUNT + 1 failed
\* checks in a row find the node dead, unless the monitor was checking more often than
\* the context asked for.
THEOREM CountIsEnough == ASSUME Parameters PROVE Spec => []CountSuffices
<1>1. ASSUME SilenceInv, ~node_unhealthy, ~hurried PROVE failure_count <= Max0(Count)
  <2>1. Max0(Count) \in Nat /\ failure_count \in Nat /\ invalid_since \in Nat
        /\ now \in Nat /\ elapsed \in Nat
    BY <1>1 DEF Parameters, SilenceInv, TypeOK, Max0
  <2>2. CASE invalid_since = 0
    BY <1>1, <2>1, <2>2 DEF SilenceInv
  <2>3. CASE invalid_since > 0
    <3>1. /\ (failure_count - 1) * Interval <= now - elapsed - invalid_since
          /\ now - invalid_since < MaxInvalidDuration
      BY <1>1, <2>3 DEF SilenceInv
    <3>2. (failure_count - 1) * Interval \in Int
      BY <2>1 DEF Parameters
    <3>3. (failure_count - 1) * Interval < MaxInvalidDuration
      BY <2>1, <3>1, <3>2, MaxInvalidDurationType
    <3>4. failure_count - 1 < Max0(Count)
      BY <2>1, <3>3, FewerIntervals DEF Parameters, MaxInvalidDuration
    <3> QED
      BY <2>1, <3>4
  <2> QED
    BY <2>1, <2>2, <2>3
<1>2. SilenceInv => CountSuffices
  BY <1>1 DEF CountSuffices
<1> QED
  BY <1>2, Silence, PTL
=============================================================================
