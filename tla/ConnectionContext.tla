-------------------------- MODULE ConnectionContext --------------------------
(***************************************************************************)
(* The verdict of one MONITOR_CONNECTION_CONTEXT: how the results of a     *)
(* monitor's checks become "the node is dead".  Time is discrete, of any   *)
(* grain, and nothing bounds a round of the monitor: a check may have to   *)
(* connect first, and the interval it sleeps for may be one that another   *)
(* context of the same monitor asked for, shorter or longer than this      *)
(* context's own, or the "no context" value that a concurrent              *)
(* stop_monitoring left in connection_check_interval.                      *)
(***************************************************************************)
EXTENDS Integers

CONSTANTS
    DetectionTime,  \* FAILURE_DETECTION_TIME
    Interval,       \* FAILURE_DETECTION_INTERVAL
    Count,          \* FAILURE_DETECTION_COUNT
    MaxTime         \* bound: when the monitored call ends

\* What the options are converted to; a negative count is possible.
Parameters ==
    /\ DetectionTime \in Nat /\ Interval \in Nat \ {0}
    /\ Count \in Int /\ MaxTime \in Nat

VARIABLES
    now,            \* steady clock at the end of the last check
    start,          \* start_monitor_time
    elapsed,        \* how long the last check took
    failure_count,
    invalid_since,  \* invalid_node_start_time, 0 for the undefined time point
    node_unhealthy,
    silent_since,   \* history: end of the last check that was not taken as failed
    hurried         \* history: since the first failed check the monitor used an
                    \* interval that is shorter than this context's

vars == <<now, start, elapsed, failure_count, invalid_since, node_unhealthy,
          silent_since, hurried>>

Max0(x) == IF x > 0 THEN x ELSE 0

\* FAILURE_DETECTION_INTERVAL * max(0, FAILURE_DETECTION_COUNT)
MaxInvalidDuration == Interval * Max0(Count)

\* update_connection_status returns early within FAILURE_DETECTION_TIME.
Grace(end) ==
    /\ end - start <= DetectionTime
    /\ silent_since' = end
    /\ UNCHANGED <<failure_count, invalid_since, node_unhealthy, hurried>>

\* set_connection_valid(true, ...)
SetValid(end) ==
    /\ end - start > DetectionTime
    /\ failure_count' = 0
    /\ invalid_since' = 0
    /\ node_unhealthy' = FALSE
    /\ silent_since' = end
    /\ hurried' = FALSE

\* set_connection_valid(false, ...): the node is dead once it has been invalid,
\* from the beginning of the first failed check to the end of this one, for
\* MaxInvalidDuration.  The check that finds it dead aborts the connection.
SetInvalid(i, begin, end) ==
    /\ end - start > DetectionTime
    /\ failure_count' = failure_count + 1
    /\ invalid_since' = IF invalid_since > 0 THEN invalid_since ELSE begin
    /\ node_unhealthy' = IF end - invalid_since' >= MaxInvalidDuration THEN TRUE
                         ELSE node_unhealthy
    /\ hurried' = (hurried \/ (invalid_since > 0 /\ i < Interval))
    /\ UNCHANGED silent_since

\* One round of MONITOR::run: it sleeps at least for its check interval i less
\* what the previous check took, and checks from begin to end.
Check(i, begin, end) ==
    /\ ~node_unhealthy
    /\ begin >= now + Max0(i - elapsed)
    /\ now' = end
    /\ elapsed' = end - begin
    /\ Grace(end) \/ SetValid(end) \/ SetInvalid(i, begin, end)
    /\ UNCHANGED start

\* The monitor is not created for this context: a check may end at any time
\* after it is registered, the sleep before it being that of other contexts.
Init ==
    /\ start \in 1 .. Interval
    /\ now = start
    /\ elapsed = 0
    /\ failure_count = 0
    /\ invalid_since = 0
    /\ node_unhealthy = FALSE
    /\ silent_since = start
    /\ hurried = FALSE

Next == \E i \in 1 .. MaxTime, begin \in now .. MaxTime : \E end \in begin .. MaxTime :
          Check(i, begin, end)

Spec == Init /\ [][Next]_vars

-----------------------------------------------------------------------------
\* The clock and the counters of a context.
TypeOK ==
    /\ now \in Nat /\ start \in Nat \ {0} /\ elapsed \in Nat
    /\ failure_count \in Nat /\ invalid_since \in Nat
    /\ node_unhealthy \in BOOLEAN /\ silent_since \in Nat /\ hurried \in BOOLEAN

\* A connection is aborted only when every check has failed for at least
\* FAILURE_DETECTION_INTERVAL * FAILURE_DETECTION_COUNT: one check that succeeds
\* starts the measurement afresh.  This is a duration, not the number of failed
\* checks that the documentation speaks of (DeadAtCount).
DeadOnlyAfterSilence == node_unhealthy => now - silent_since >= MaxInvalidDuration

\* The duration stands for the documented number of failed checks up to one:
\* whatever the checks take and the sleeps last, the check that fails after
\* FAILURE_DETECTION_COUNT others in a row finds the node dead, unless the monitor
\* was checking more often than this context asked for.
CountSuffices == ~node_unhealthy /\ ~hurried => failure_count <= Max0(Count)

\* What HostMonitoring.md says of the parameters: with a probe every
\* FAILURE_DETECTION_INTERVAL, the node is deemed unhealthy once the counter of
\* failed probes reaches FAILURE_DETECTION_COUNT.
DeadAtCount == ~hurried /\ failure_count >= Count => node_unhealthy

\* What they rest on: the duration measured is that of the silence, less the time
\* before the first failed check, and every failed check but the first began an
\* interval or more after the one before it.
SilenceInv ==
    /\ TypeOK
    /\ start <= silent_since /\ silent_since <= now
    /\ invalid_since = 0 =>
         silent_since = now /\ ~node_unhealthy /\ failure_count = 0 /\ ~hurried
    /\ invalid_since > 0 =>
         /\ now - start > DetectionTime
         /\ silent_since <= invalid_since
         /\ invalid_since <= now - elapsed
         /\ failure_count > 0
         /\ ~hurried => (failure_count - 1) * Interval <= now - elapsed - invalid_since
         /\ ~node_unhealthy => now - invalid_since < MaxInvalidDuration
         /\ node_unhealthy => now - invalid_since >= MaxInvalidDuration
=============================================================================
