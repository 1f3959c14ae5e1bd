---------------------------- MODULE TokenBucket ----------------------------
(***************************************************************************)
(* The token bucket that rates requests per peer and per message kind      *)
(* (crates/util/throttling).  Every call runs under the bucket's mutex, so *)
(* the only thing that moves during a call is the monotonic clock: throttle *)
(* reads it once and try_acquire_cost reads it again.                      *)
(*                                                                         *)
(* Time is counted in ticks, SecTicks to the second, so that the whole     *)
(* seconds refresh works in and the sub-second instants it compares can    *)
(* both be told apart.  The cpu and the message tokens are the two members *)
(* of Kind.                                                                *)
(***************************************************************************)
EXTENDS Integers

CONSTANTS
    SecTicks,      \* ticks in one second
    MaxTokens,     \* max_tokens of each kind
    InitTokens,    \* cur_tokens each kind starts with
    Rate,          \* recharge_rate of each kind, tokens per second
    MaxThrottled,  \* max_throttled_counter
    Costs,         \* the costs a caller may ask for: functions on Kind
    MaxSkew,       \* bound: ticks that may pass between the two clock reads
    MaxTime        \* bound: the last tick explored

Kind == {"cpu", "msg"}   \* the two ThrottleTokens of a bucket

ASSUME BucketAssumption ==
    /\ SecTicks \in Nat \ {0}
    /\ MaxTokens \in [Kind -> Nat]
    /\ InitTokens \in [Kind -> Nat]
    /\ \A k \in Kind : InitTokens[k] <= MaxTokens[k]
    /\ Rate \in [Kind -> Nat \ {0}]
    /\ MaxThrottled \in Nat
    /\ Costs \subseteq [Kind -> Nat]
    /\ MaxSkew \in Nat
    /\ MaxTime \in Nat

VARIABLES
    now,         \* the clock
    tokens,      \* cur_tokens of each kind
    lastUpdate,  \* last_update
    until,       \* throttled_until, or NoInstant
    counter,     \* throttled_counter
    result,      \* what the last call returned
    granted,     \* history: tokens handed out so far, per kind
    refused      \* history: the cost whose refusal set until

vars == <<now, tokens, lastUpdate, until, counter, result, granted, refused>>

NoInstant == -1

Success == [kind |-> "Success", wait |-> 0]
Throttled(w) == [kind |-> "Throttled", wait |-> w]
AlreadyThrottled == [kind |-> "AlreadyThrottled", wait |-> 0]

Min2(a, b) == IF a <= b THEN a ELSE b
Max2(a, b) == IF a >= b THEN a ELSE b

\* Whole seconds from the last update to t: as_secs() truncates.
ElapsedSecs(t) == (t - lastUpdate) \div SecTicks

\* (mutant: last_update not moved)
RefreshedUpdateForgotten(t) == lastUpdate

\* The tokens of a kind once refresh(t) has run, and the last_update it leaves.
Refreshed(k, t) == Min2(MaxTokens[k], tokens[k] + Rate[k] * ElapsedSecs(t))
RefreshedUpdate(t) == lastUpdate + SecTicks * ElapsedSecs(t)

\* (mutant: rounded down)
RechargeSecsFloor(k, cost, t) ==
    LET missing == cost[k] - Refreshed(k, t)
    IN  IF missing > 0 THEN missing \div Rate[k] ELSE 0

\* Seconds until the missing tokens of a kind are recharged, rounded up.
RechargeSecs(k, cost, t) ==
    LET missing == cost[k] - Refreshed(k, t)
    IN  IF missing > 0 THEN (missing + Rate[k] - 1) \div Rate[k] ELSE 0

Enough(cost, t) == \A k \in Kind : cost[k] <= Refreshed(k, t)

\* (mutant: the wait ends with the first kind that is recharged)
WaitTimeFirstKind(cost, t) ==
    LET secs == Min2(RechargeSecs("cpu", cost, t), RechargeSecs("msg", cost, t))
    IN  RefreshedUpdate(t) + SecTicks * secs - t

\* The wait try_acquire_cost reports: from t to the end of the recharge.
WaitTime(cost, t) ==
    LET secs == Max2(RechargeSecs("cpu", cost, t), RechargeSecs("msg", cost, t))
    IN  RefreshedUpdate(t) + SecTicks * secs - t

Init ==
    /\ now = 0
    /\ tokens = InitTokens
    /\ lastUpdate = 0
    /\ until = NoInstant
    /\ counter = 0
    /\ result = Success
    /\ granted = [k \in Kind |-> 0]
    /\ refused = [k \in Kind |-> 0]

\* Time passes between calls.
Tick ==
    /\ now < MaxTime
    /\ now' = now + 1
    /\ UNCHANGED <<tokens, lastUpdate, until, counter, result, granted, refused>>

InThrottledPeriod == until # NoInstant /\ now < until

\* throttle during a throttled period: tolerated a few times, then refused
\* for good; the tokens are not looked at.
ThrottleWhileThrottled ==
    /\ InThrottledPeriod
    /\ IF counter < MaxThrottled
       THEN counter' = counter + 1 /\ result' = Throttled(until - now)
       ELSE counter' = counter /\ result' = AlreadyThrottled
    /\ UNCHANGED <<now, tokens, lastUpdate, until, granted, refused>>

\* throttle outside a throttled period.  The period, if there was one, is
\* forgotten; t is the second clock read, inside try_acquire_cost.
ThrottleAcquire(cost, t) ==
    /\ ~InThrottledPeriod
    /\ now' = t
    /\ lastUpdate' = RefreshedUpdate(t)
    /\ counter' = (IF until # NoInstant THEN 0 ELSE counter)
    /\ IF Enough(cost, t)
       THEN /\ tokens' = [k \in Kind |-> Refreshed(k, t) - cost[k]]
            /\ granted' = [k \in Kind |-> granted[k] + cost[k]]
            /\ until' = NoInstant
            /\ result' = Success
            /\ refused' = refused
       ELSE /\ tokens' = [k \in Kind |-> Refreshed(k, t)]
            /\ until' = now + WaitTime(cost, t)
            /\ result' = Throttled(WaitTime(cost, t))
            /\ refused' = cost
            /\ granted' = granted

Next ==
    \/ Tick
    \/ ThrottleWhileThrottled
    \/ \E cost \in Costs, skew \in 0..MaxSkew :
          now + skew <= MaxTime /\ ThrottleAcquire(cost, now + skew)

Spec == Init /\ [][Next]_vars
----------------------------------------------------------------------------
\* Every variable has its type, and no kind ever holds more than its maximum.
TypeOK ==
    /\ now \in Nat
    /\ tokens \in [Kind -> Nat]
    /\ \A k \in Kind : tokens[k] <= MaxTokens[k]
    /\ lastUpdate \in 0..now
    /\ until \in Nat \cup {NoInstant}
    /\ counter \in 0..MaxThrottled
    /\ result \in [kind : {"Success", "Throttled", "AlreadyThrottled"}, wait : Int]
    /\ granted \in [Kind -> Nat]
    /\ refused \in [Kind -> Nat]

\* The rate the bucket enforces: everything handed out plus what is left never
\* exceeds the initial tokens and the recharge of the whole seconds that have
\* passed, so over any run a caller gets at most InitTokens + Rate * seconds.
RateBound ==
    \A k \in Kind :
        granted[k] + tokens[k] <= InitTokens[k] + Rate[k] * (lastUpdate \div SecTicks)

\* The comment in try_acquire_cost: last_update + recharge_secs - now cannot
\* underflow, because refresh leaves less than a second and at least one second
\* is to be waited.  Every wait that is reported is positive.
WaitNeverUnderflows == result.kind = "Throttled" => result.wait > 0

\* The promise of a throttled period: nobody takes tokens during it, so a
\* request that asks again for what was refused (and fits the bucket at all)
\* succeeds once the period is over; the two clock reads of a call may make the
\* period end early by what passed between them, never by more.
RetryAfterWaitSucceeds ==
    (until # NoInstant /\ \A k \in Kind : refused[k] <= MaxTokens[k])
        => Enough(refused, until + MaxSkew)
============================================================================
