------------------------- MODULE TokenBucketProofs -------------------------
(***************************************************************************)
(* Proofs about TokenBucket, for every bucket size, rate, cost and clock.  *)
(***************************************************************************)
EXTENDS TokenBucket, TLAPS

\* Division as refresh uses it: adding e whole seconds to an instant adds e to
\* its number of whole seconds, and truncation loses less than one second.
LEMMA DivFacts ==
    ASSUME NEW s \in Nat \ {0}, NEW d \in Nat
    PROVE  /\ d \div s \in Nat
           /\ s * (d \div s) <= d
           /\ d < s * (d \div s) + s
  BY SMTT(30)

LEMMA DivShift ==
    ASSUME NEW s \in Nat \ {0}, NEW a \in Nat, NEW e \in Nat
    PROVE  (a + s * e) \div s = (a \div s) + e
  BY SMTT(30)

\* One refresh of one kind: the tokens stay within the maximum, and grow by at
\* most the recharge of the seconds that last_update moves over.
LEMMA RefreshBound ==
    ASSUME BucketAssumption, TypeOK, NEW k \in Kind, NEW t \in Nat, now <= t
    PROVE  /\ ElapsedSecs(t) \in Nat
           /\ Refreshed(k, t) \in Nat
           /\ Refreshed(k, t) <= MaxTokens[k]
           /\ Refreshed(k, t) <= tokens[k] + Rate[k] * ElapsedSecs(t)
           /\ RefreshedUpdate(t) \in Nat
           /\ RefreshedUpdate(t) <= t
           /\ t < RefreshedUpdate(t) + SecTicks
           /\ RefreshedUpdate(t) \div SecTicks
                 = (lastUpdate \div SecTicks) + ElapsedSecs(t)
  <1>1. /\ SecTicks \in Nat \ {0} /\ t - lastUpdate \in Nat /\ lastUpdate \in Nat
        /\ MaxTokens[k] \in Nat /\ tokens[k] \in Nat /\ Rate[k] \in Nat
        /\ tokens[k] <= MaxTokens[k]
    BY DEF BucketAssumption, TypeOK
  <1>2. /\ ElapsedSecs(t) \in Nat
        /\ SecTicks * ElapsedSecs(t) <= t - lastUpdate
        /\ t - lastUpdate < SecTicks * ElapsedSecs(t) + SecTicks
    BY <1>1, DivFacts DEF ElapsedSecs
  <1>3. Rate[k] * ElapsedSecs(t) \in Nat
    BY <1>1, <1>2
  <1>4. SecTicks * ElapsedSecs(t) \in Nat
    BY <1>1, <1>2
  <1>5. RefreshedUpdate(t) \div SecTicks = (lastUpdate \div SecTicks) + ElapsedSecs(t)
    BY <1>1, <1>2, DivShift DEF RefreshedUpdate
  <1> QED
    BY <1>1, <1>2, <1>3, <1>4, <1>5 DEF Refreshed, RefreshedUpdate, Min2

\* When some kind is short, the reported wait is positive: at least one whole
\* second is added to a last_update that is less than a second old.
LEMMA WaitPositive ==
    ASSUME BucketAssumption, TypeOK, NEW cost \in Costs, NEW t \in Nat,
           now <= t, ~Enough(cost, t)
    PROVE  WaitTime(cost, t) \in Nat \ {0}
  <1>1. cost \in [Kind -> Nat]
    BY DEF BucketAssumption
  <1>2. ASSUME NEW k \in Kind
        PROVE  /\ RechargeSecs(k, cost, t) \in Nat
               /\ cost[k] > Refreshed(k, t) => RechargeSecs(k, cost, t) >= 1
    <2>1. /\ Refreshed(k, t) \in Nat /\ cost[k] \in Nat /\ Rate[k] \in Nat \ {0}
      BY <1>1, RefreshBound DEF BucketAssumption
    <2> DEFINE missing == cost[k] - Refreshed(k, t)
               n == missing + Rate[k] - 1
               secs == n \div Rate[k]
    <2>2. CASE missing > 0
      <3>1. n \in Nat /\ n >= Rate[k]
        BY <2>1, <2>2
      <3>2. secs \in Nat /\ n < Rate[k] * secs + Rate[k]
        BY <2>1, <3>1, DivFacts
      <3>3. secs # 0
        BY <2>1, <3>1, <3>2
      <3> QED
        BY <2>1, <2>2, <3>2, <3>3 DEF RechargeSecs
    <2>3. CASE ~(missing > 0)
      BY <2>1, <2>3 DEF RechargeSecs
    <2> QED
      BY <2>2, <2>3
  <1> DEFINE secs == Max2(RechargeSecs("cpu", cost, t), RechargeSecs("msg", cost, t))
  <1>3. secs \in Nat \ {0}
    <2>1. PICK k \in Kind : ~(cost[k] <= Refreshed(k, t))
      BY DEF Enough
    <2>2. cost[k] > Refreshed(k, t)
      BY <1>1, <2>1, RefreshBound
    <2>3. RechargeSecs(k, cost, t) >= 1
      BY <1>2, <2>2
    <2>4. /\ RechargeSecs("cpu", cost, t) \in Nat
          /\ RechargeSecs("msg", cost, t) \in Nat
      BY <1>2 DEF Kind
    <2>5. k = "cpu" \/ k = "msg"
      BY DEF Kind
    <2> QED
      BY <2>3, <2>4, <2>5 DEF Max2
  <1>4. SecTicks * secs \in Nat /\ SecTicks * secs >= SecTicks
    BY <1>3 DEF BucketAssumption
  <1>5. /\ RefreshedUpdate(t) \in Nat /\ t < RefreshedUpdate(t) + SecTicks
        /\ SecTicks \in Nat
    BY RefreshBound DEF Kind, BucketAssumption
  <1>6. WaitTime(cost, t) = RefreshedUpdate(t) + SecTicks * secs - t
    BY DEF WaitTime
  <1> HIDE DEF secs
  <1> QED
    BY <1>3, <1>4, <1>5, <1>6

\* The three invariants are inductive together: the rate bound needs the types,
\* and the types need the waits to be positive (until is an instant).
BucketInv == TypeOK /\ RateBound /\ WaitNeverUnderflows

LEMMA BucketInit == BucketAssumption /\ Init => BucketInv
  <1> SUFFICES ASSUME BucketAssumption, Init PROVE BucketInv
    OBVIOUS
  <1>1. TypeOK
    BY DEF BucketAssumption, Init, TypeOK, Success, NoInstant
  <1>2. ASSUME NEW k \in Kind
        PROVE  granted[k] + tokens[k] <= InitTokens[k] + Rate[k] * (lastUpdate \div SecTicks)
    <2>1. lastUpdate \div SecTicks = 0
      BY DivShift DEF Init, BucketAssumption
    <2> QED
      BY <2>1 DEF Init, BucketAssumption
  <1> QED
    BY <1>1, <1>2 DEF BucketInv, RateBound, WaitNeverUnderflows, Init, Success

LEMMA AcquirePreserves ==
    ASSUME BucketAssumption, BucketInv, NEW cost \in Costs, NEW t \in Nat,
           now <= t, ThrottleAcquire(cost, t)
    PROVE  BucketInv'
  <1>1. TypeOK /\ cost \in [Kind -> Nat]
    BY DEF BucketInv, BucketAssumption
  <1>2. RefreshedUpdate(t) \in 0..t
    BY <1>1, RefreshBound DEF Kind
  <1>3. \A k \in Kind : Refreshed(k, t) \in Nat /\ Refreshed(k, t) <= MaxTokens[k]
    BY <1>1, RefreshBound
  <1>4. ASSUME NEW k \in Kind
        PROVE  granted[k] + Refreshed(k, t)
                 <= InitTokens[k] + Rate[k] * (RefreshedUpdate(t) \div SecTicks)
    <2> DEFINE before == lastUpdate \div SecTicks
               secs == ElapsedSecs(t)
    <2>1. /\ granted[k] \in Nat /\ tokens[k] \in Nat /\ InitTokens[k] \in Nat
          /\ Rate[k] \in Nat /\ Refreshed(k, t) \in Nat
      BY <1>1, <1>3 DEF TypeOK, BucketAssumption
    <2>2. before \in Nat /\ secs \in Nat
      <3>1. lastUpdate \in Nat /\ SecTicks \in Nat \ {0}
        BY <1>1 DEF TypeOK, BucketAssumption
      <3>2. before \in Nat
        BY <3>1, DivFacts
      <3>3. secs \in Nat
        BY <1>1, RefreshBound
      <3> QED
        BY <3>2, <3>3
    <2>3. RefreshedUpdate(t) \div SecTicks = before + secs
      BY <1>1, RefreshBound
    <2>4. Refreshed(k, t) <= tokens[k] + Rate[k] * secs
      BY <1>1, RefreshBound
    <2>5. granted[k] + tokens[k] <= InitTokens[k] + Rate[k] * before
      BY DEF BucketInv, RateBound
    <2>6. Rate[k] * (before + secs) = Rate[k] * before + Rate[k] * secs
      BY <2>1, <2>2
    <2>7. Rate[k] * before \in Nat /\ Rate[k] * secs \in Nat
      BY <2>1, <2>2
    <2> HIDE DEF before, secs
    <2> QED
      BY <2>1, <2>3, <2>4, <2>5, <2>6, <2>7
  <1>5. CASE Enough(cost, t)
    <2>1. \A k \in Kind : cost[k] \in Nat /\ cost[k] <= Refreshed(k, t)
      BY <1>1, <1>5 DEF Enough
    <2>2. /\ tokens' = [k \in Kind |-> Refreshed(k, t) - cost[k]]
          /\ granted' = [k \in Kind |-> granted[k] + cost[k]]
          /\ lastUpdate' = RefreshedUpdate(t) /\ now' = t
          /\ until' = NoInstant /\ result' = Success /\ refused' = refused
          /\ counter' \in {0, counter}
      BY <1>5 DEF ThrottleAcquire
    <2>3. TypeOK'
      BY <1>1, <1>2, <1>3, <2>1, <2>2
      DEF TypeOK, Success, NoInstant, BucketAssumption
    <2>4. RateBound'
      <3> SUFFICES ASSUME NEW k \in Kind
                   PROVE  granted'[k] + tokens'[k]
                            <= InitTokens[k] + Rate[k] * (lastUpdate' \div SecTicks)
        BY DEF RateBound
      <3>1. granted'[k] + tokens'[k] = granted[k] + Refreshed(k, t)
        BY <1>1, <1>3, <2>1, <2>2 DEF TypeOK
      <3> QED
        BY <1>4, <2>2, <3>1
    <2> QED
      BY <2>2, <2>3, <2>4 DEF BucketInv, WaitNeverUnderflows, Success
  <1>6. CASE ~Enough(cost, t)
    <2>1. WaitTime(cost, t) \in Nat \ {0}
      BY <1>1, <1>6, WaitPositive
    <2>2. /\ tokens' = [k \in Kind |-> Refreshed(k, t)]
          /\ granted' = granted
          /\ lastUpdate' = RefreshedUpdate(t) /\ now' = t
          /\ until' = now + WaitTime(cost, t) /\ result' = Throttled(WaitTime(cost, t))
          /\ refused' = cost /\ counter' \in {0, counter}
      BY <1>6 DEF ThrottleAcquire
    <2>3. TypeOK'
      BY <1>1, <1>2, <1>3, <2>1, <2>2
      DEF TypeOK, Throttled, NoInstant, BucketAssumption
    <2>4. RateBound'
      BY <1>4, <2>2 DEF RateBound
    <2> QED
      BY <2>1, <2>2, <2>3, <2>4 DEF BucketInv, WaitNeverUnderflows, Throttled
  <1> QED
    BY <1>5, <1>6

LEMMA BucketStep == BucketAssumption /\ BucketInv /\ [Next]_vars => BucketInv'
  <1> SUFFICES ASSUME BucketAssumption, BucketInv, [Next]_vars PROVE BucketInv'
    OBVIOUS
  <1>1. CASE Tick
    BY <1>1 DEF Tick, BucketInv, TypeOK, RateBound, WaitNeverUnderflows
  <1>2. CASE ThrottleWhileThrottled
    <2>1. UNCHANGED <<now, tokens, lastUpdate, until, granted, refused>>
      BY <1>2 DEF ThrottleWhileThrottled
    <2>2. /\ now \in Nat /\ until \in Nat /\ now < until
      BY <1>2 DEF ThrottleWhileThrottled, InThrottledPeriod, BucketInv, TypeOK
    <2>3. /\ counter' \in 0..MaxThrottled
          /\ \/ result' = Throttled(until - now)
             \/ result' = AlreadyThrottled
      BY <1>2 DEF ThrottleWhileThrottled, BucketInv, TypeOK, BucketAssumption
    <2>4. result' \in [kind : {"Success", "Throttled", "AlreadyThrottled"}, wait : Int]
      BY <2>2, <2>3 DEF Throttled, AlreadyThrottled
    <2>5. WaitNeverUnderflows'
      BY <2>2, <2>3 DEF WaitNeverUnderflows, Throttled, AlreadyThrottled
    <2> QED
      BY <2>1, <2>3, <2>4, <2>5 DEF BucketInv, TypeOK, RateBound
  <1>3. ASSUME NEW cost \in Costs, NEW skew \in 0..MaxSkew,
               ThrottleAcquire(cost, now + skew)
        PROVE  BucketInv'
    <2>1. now \in Nat /\ now + skew \in Nat /\ now <= now + skew
      BY DEF BucketInv, TypeOK, BucketAssumption
    <2> QED
      BY <1>3, <2>1, AcquirePreserves
  <1>4. CASE UNCHANGED vars
    BY <1>4 DEF vars, BucketInv, TypeOK, RateBound, WaitNeverUnderflows
  <1> QED
    BY <1>1, <1>2, <1>3, <1>4 DEF Next

\* The types hold in every state, and no kind of token is ever above its
\* maximum, whatever the costs and the clock.
THEOREM BucketTypeCorrect == Spec => []TypeOK
  <1>1. Init => BucketInv
    BY BucketInit, BucketAssumption
  <1>2. BucketInv /\ [Next]_vars => BucketInv'
    BY BucketStep, BucketAssumption
  <1>3. BucketInv => TypeOK
    BY DEF BucketInv
  <1> QED
    BY <1>1, <1>2, <1>3, PTL DEF Spec

\* For every bucket: what throttle has granted, plus what it still holds, is
\* within the initial tokens and the recharge of the elapsed seconds.
THEOREM BucketRateBound == Spec => []RateBound
  <1>1. Init => BucketInv
    BY BucketInit, BucketAssumption
  <1>2. BucketInv /\ [Next]_vars => BucketInv'
    BY BucketStep, BucketAssumption
  <1>3. BucketInv => RateBound
    BY DEF BucketInv
  <1> QED
    BY <1>1, <1>2, <1>3, PTL DEF Spec

\* For every bucket: the subtraction in try_acquire_cost never underflows.
THEOREM BucketWaitPositive == Spec => []WaitNeverUnderflows
  <1>1. Init => BucketInv
    BY BucketInit, BucketAssumption
  <1>2. BucketInv /\ [Next]_vars => BucketInv'
    BY BucketStep, BucketAssumption
  <1>3. BucketInv => WaitNeverUnderflows
    BY DEF BucketInv
  <1> QED
    BY <1>1, <1>2, <1>3, PTL DEF Spec

----------------------------------------------------------------------------
\* The seconds of a kind's recharge bring the tokens that are missing.
LEMMA RechargeCovers ==
    ASSUME BucketAssumption, TypeOK, NEW cost \in Costs, NEW t \in Nat, now <= t,
           NEW k \in Kind
    PROVE  /\ RechargeSecs(k, cost, t) \in Nat
           /\ cost[k] <= Refreshed(k, t) + Rate[k] * RechargeSecs(k, cost, t)
  <1> DEFINE r == Refreshed(k, t)
             n == cost[k] - r + Rate[k] - 1
  <1>1. cost[k] \in Nat /\ Rate[k] \in Nat \ {0} /\ r \in Nat
    BY RefreshBound DEF BucketAssumption
  <1> HIDE DEF r
  <1>2. CASE cost[k] - r > 0
    <2>1. n \in Nat
      BY <1>1, <1>2
    <2>2. RechargeSecs(k, cost, t) = n \div Rate[k]
      BY <1>2 DEF RechargeSecs, r
    <2> HIDE DEF n
    <2>3. n \div Rate[k] \in Nat /\ n < Rate[k] * (n \div Rate[k]) + Rate[k]
      BY <1>1, <2>1, DivFacts
    <2>4. Rate[k] * (n \div Rate[k]) \in Nat
      BY <1>1, <2>3
    <2>5. cost[k] <= r + Rate[k] * (n \div Rate[k])
      BY <1>1, <2>3, <2>4 DEF n
    <2> QED
      BY <2>2, <2>3, <2>5 DEF r
  <1>3. CASE ~(cost[k] - r > 0)
    <2>1. RechargeSecs(k, cost, t) = 0
      BY <1>3 DEF RechargeSecs, r
    <2> QED
      BY <1>1, <1>3, <2>1 DEF r
  <1> QED
    BY <1>2, <1>3

\* A refusal sets until so far ahead that what was refused is there then.
LEMMA RefusalPromises ==
    ASSUME BucketAssumption, TypeOK, NEW cost \in Costs, NEW skew \in 0..MaxSkew,
           ThrottleAcquire(cost, now + skew), ~Enough(cost, now + skew)
    PROVE  RetryAfterWaitSucceeds'
  <1> DEFINE t == now + skew
             cpu == RechargeSecs("cpu", cost, t)
             msg == RechargeSecs("msg", cost, t)
             secs == Max2(cpu, msg)
             over == MaxSkew - skew
  <1>1. /\ now \in Nat /\ skew \in Nat /\ MaxSkew \in Nat /\ over \in Nat /\ t \in Nat
        /\ now <= t /\ SecTicks \in Nat \ {0}
    BY DEF BucketAssumption, TypeOK
  <1>2. /\ tokens' = [k \in Kind |-> Refreshed(k, t)]
        /\ lastUpdate' = RefreshedUpdate(t) /\ refused' = cost
        /\ until' = now + WaitTime(cost, t)
    BY DEF ThrottleAcquire
  <1>3. WaitTime(cost, t) = RefreshedUpdate(t) + SecTicks * secs - t
    BY DEF WaitTime
  <1>4. /\ cpu \in Nat /\ msg \in Nat
        /\ \A k \in Kind : /\ RechargeSecs(k, cost, t) \in Nat
                           /\ cost[k] <= Refreshed(k, t) + Rate[k] * RechargeSecs(k, cost, t)
    BY <1>1, RechargeCovers DEF Kind
  <1>5. RefreshedUpdate(t) \in Nat /\ \A k \in Kind : Refreshed(k, t) \in Nat
    BY <1>1, RefreshBound DEF Kind
  <1> HIDE DEF t, over
  <1>6. secs \in Nat /\ \A k \in Kind : RechargeSecs(k, cost, t) <= secs
    BY <1>4 DEF Max2, Kind
  <1> HIDE DEF cpu, msg, secs
  <1>7. SecTicks * secs \in Nat
    BY <1>1, <1>6
  <1>8. (until' + MaxSkew) - lastUpdate' = over + SecTicks * secs
    BY <1>1, <1>2, <1>3, <1>5, <1>7 DEF t, over
  <1>9. over \div SecTicks \in Nat
    BY <1>1, DivFacts
  <1> DEFINE e == (over \div SecTicks) + secs
  <1>10. ElapsedSecs(until + MaxSkew)' = e
    <2>1. ElapsedSecs(until + MaxSkew)' = ((until' + MaxSkew) - lastUpdate') \div SecTicks
      BY DEF ElapsedSecs
    <2>2. (over + SecTicks * secs) \div SecTicks = e
      BY <1>1, <1>6, DivShift, Zenon
    <2> QED
      BY <1>8, <2>1, <2>2, Zenon
  <1>11. e \in Nat /\ secs <= e
    BY <1>6, <1>9
  <1> HIDE DEF e
  <1>12. ASSUME NEW k \in Kind, cost[k] <= MaxTokens[k]
         PROVE  cost[k] <= Refreshed(k, until + MaxSkew)'
    <2> DEFINE s == RechargeSecs(k, cost, t)
               r == Refreshed(k, t)
    <2>1. /\ Rate[k] \in Nat /\ MaxTokens[k] \in Nat /\ cost[k] \in Nat
          /\ s \in Nat /\ r \in Nat /\ s <= e /\ cost[k] <= r + Rate[k] * s
      BY <1>4, <1>5, <1>6, <1>11 DEF BucketAssumption
    <2>2. tokens'[k] = r
      BY <1>2
    <2> HIDE DEF s, r
    <2>3. Rate[k] * s <= Rate[k] * e /\ Rate[k] * s \in Nat /\ Rate[k] * e \in Nat
      BY <1>11, <2>1
    <2>4. Refreshed(k, until + MaxSkew)' = Min2(MaxTokens[k], r + Rate[k] * e)
      BY <1>10, <2>2 DEF Refreshed
    <2> QED
      BY <1>12, <2>1, <2>3, <2>4 DEF Min2
  <1> QED
    BY <1>2, <1>12 DEF RetryAfterWaitSucceeds, Enough

\* What was refused is granted once the throttled period is over, whatever the
\* costs, the rates and the clock: asking again after the wait that
\* try_acquire_cost reported does not fail a second time.
THEOREM BucketRetry == Spec => []RetryAfterWaitSucceeds
  <1>1. Init => BucketInv /\ RetryAfterWaitSucceeds
    BY BucketInit, BucketAssumption DEF Init, RetryAfterWaitSucceeds
  <1>2. BucketInv /\ RetryAfterWaitSucceeds /\ [Next]_vars
            => BucketInv' /\ RetryAfterWaitSucceeds'
    <2> SUFFICES ASSUME BucketInv, RetryAfterWaitSucceeds, [Next]_vars
                 PROVE  BucketInv' /\ RetryAfterWaitSucceeds'
      OBVIOUS
    <2>1. BucketInv'
      BY BucketStep, BucketAssumption
    <2>2. CASE UNCHANGED <<tokens, lastUpdate, until, refused>>
      BY <2>1, <2>2 DEF RetryAfterWaitSucceeds, Enough, Refreshed, ElapsedSecs
    <2>3. CASE Tick \/ ThrottleWhileThrottled \/ UNCHANGED vars
      BY <2>2, <2>3 DEF Tick, ThrottleWhileThrottled, vars
    <2>4. ASSUME NEW cost \in Costs, NEW skew \in 0..MaxSkew,
                 ThrottleAcquire(cost, now + skew)
          PROVE  RetryAfterWaitSucceeds'
      <3>1. CASE Enough(cost, now + skew)
        BY <2>4, <3>1 DEF ThrottleAcquire, RetryAfterWaitSucceeds
      <3>2. CASE ~Enough(cost, now + skew)
        BY <2>4, <3>2, RefusalPromises, BucketAssumption DEF BucketInv
      <3> QED
        BY <3>1, <3>2
    <2> QED
      BY <2>1, <2>2, <2>3, <2>4 DEF Next
  <1> QED
    BY <1>1, <1>2, PTL DEF Spec
============================================================================
