-------------------------- MODULE RateLimiterProofs --------------------------
(***************************************************************************)
(* Proofs about RateLimiter for any callers, addresses, limits and times,  *)
(* callers that enter with times out of order included.                    *)
(***************************************************************************)
EXTENDS RateLimiter, TLAPS

(* The size of a bucket, in units. *)
Full == MaxTokens * Second

(* A bucket's size is a number. *)
LEMMA FullIsNat == Full \in Nat
BY ConstantsAssumption DEF Full

(* What the refill computes: at most a full bucket. *)
LEMMA RefilledIs ==
    ASSUME TypeOK, NEW i \in Ips, NEW t \in Times
    PROVE  Refilled(i, t) \in Int /\ Refilled(i, t) <= Full
<1>1. tokens[i] \in Int /\ lastRefill[i] \in Int /\ t \in Int /\ RefillRate \in Int
  BY ConstantsAssumption DEF TypeOK, Times
<1>2. (t - lastRefill[i]) * RefillRate \in Int
  BY <1>1
<1> DEFINE units == tokens[i] + (t - lastRefill[i]) * RefillRate
<1>3. units \in Int
  BY <1>1, <1>2
<1> HIDE DEF units
<1>4. Capped(units) \in Int /\ Capped(units) <= Full
  BY <1>3, FullIsNat DEF Capped, Full
<1>5. Refilled(i, t) = IF i \in known THEN Capped(units) ELSE Full
  BY DEF Refilled, units, Full
<1> QED
  BY <1>4, <1>5, FullIsNat

(* A history with one more request is a history. *)
LEMMA CountedType ==
    ASSUME NEW f \in [Times -> Nat], NEW n \in Times
    PROVE  Counted(f, n) \in [Times -> Nat]
BY DEF Counted

(* The limiter starts with no buckets and a count of zero. *)
LEMMA TypeInit == Init => TypeOK
<1> SUFFICES ASSUME Init
             PROVE  TypeOK
  OBVIOUS
<1>1. 0 \in Times /\ 0 \in 0 .. GlobalLimit
  BY ConstantsAssumption DEF Times
<1>2. \A i \in Ips : tokens[i] <= MaxTokens * Second
  BY FullIsNat DEF Init, Full
<1> QED
  BY <1>1, <1>2 DEF Init, TypeOK

(* The count of a window stays within the limit. *)
LEMMA GlobalStep ==
    ASSUME TypeOK, NEW c \in Callers, IsAllowedGlobal(c)
    PROVE  TypeOK'
<1> DEFINE reset == now[c] - globalWindowStart >= Second
           count == IF reset THEN 0 ELSE globalCount
           allowed == count < GlobalLimit
<1>1. /\ globalWindowStart' = IF reset THEN now[c] ELSE globalWindowStart
      /\ globalCount' = IF allowed THEN count + 1 ELSE count
      /\ pc' = [pc EXCEPT ![c] = IF allowed THEN "passed" ELSE "idle"]
      /\ passed' = IF allowed THEN Counted(passed, now[c]) ELSE passed
      /\ UNCHANGED <<clock, known, tokens, lastRefill, ip, now, admitted>>
  BY DEF IsAllowedGlobal, WindowStart, bucketVars
<1>2. count \in 0 .. GlobalLimit
  BY ConstantsAssumption DEF TypeOK
<1> HIDE DEF count, reset
<1>3. globalCount' \in 0 .. GlobalLimit
  BY <1>1, <1>2, ConstantsAssumption
<1>4. globalWindowStart' \in Times
  BY <1>1 DEF TypeOK
<1>5. passed' \in [Times -> Nat]
  BY <1>1, CountedType DEF TypeOK
<1>6. pc' \in [Callers -> {"idle", "global", "passed", "private"}]
  BY <1>1, Zenon DEF TypeOK
<1> QED
  BY <1>1, <1>3, <1>4, <1>5, <1>6 DEF TypeOK

(* A bucket gives a token only if it has one and never holds more than its size. *)
LEMMA PrivateStep ==
    ASSUME TypeOK, NEW c \in Callers, IsAllowedPrivate(c)
    PROVE  TypeOK'
<1> DEFINE i == ip[c]
           have == Refilled(i, now[c])
           allowed == have >= Second
<1>1. i \in Ips /\ now[c] \in Times
  BY DEF TypeOK
<1>2. have \in Int /\ have <= Full
  BY <1>1, RefilledIs
<1>3. /\ known' = known \union {i}
      /\ tokens' = [tokens EXCEPT ![i] = IF allowed THEN have - Second ELSE have]
      /\ lastRefill' = [lastRefill EXCEPT ![i] = now[c]]
      /\ pc' = [pc EXCEPT ![c] = "idle"]
      /\ admitted' = IF allowed
                     THEN [admitted EXCEPT ![i] = Counted(admitted[i], now[c])]
                     ELSE admitted
      /\ UNCHANGED <<clock, globalCount, globalWindowStart, ip, now, passed>>
  BY DEF IsAllowedPrivate, RefillTime, globalVars
<1> HIDE DEF i, have
<1> DEFINE left == IF allowed THEN have - Second ELSE have
<1>4. left \in Int /\ left <= Full
  BY <1>2, FullIsNat, ConstantsAssumption
<1> HIDE DEF left
<1>5. /\ tokens' \in [Ips -> Int] /\ \A j \in Ips : tokens'[j] <= MaxTokens * Second
  BY <1>1, <1>3, <1>4 DEF TypeOK, Full, left
<1>6. admitted' \in [Ips -> [Times -> Nat]]
  BY <1>1, <1>3, CountedType DEF TypeOK
<1>7. known' \in SUBSET Ips /\ lastRefill' \in [Ips -> Times]
  BY <1>1, <1>3 DEF TypeOK
<1>8. pc' \in [Callers -> {"idle", "global", "passed", "private"}]
  BY <1>3, Zenon DEF TypeOK
<1> QED
  BY <1>3, <1>5, <1>6, <1>7, <1>8 DEF TypeOK

(* Every step keeps the types. *)
LEMMA TypeStep ==
    ASSUME TypeOK, [Next]_vars
    PROVE  TypeOK'
<1>1. CASE UNCHANGED vars
  BY <1>1 DEF vars, TypeOK
<1>2. CASE Tick
  BY <1>2, ConstantsAssumption DEF Tick, TypeOK, Times, globalVars, bucketVars, callVars
<1>3. ASSUME NEW c \in Callers, NEW i \in Ips, Request(c, i)
      PROVE  TypeOK'
  BY <1>3 DEF Request, TypeOK, globalVars, bucketVars
<1>4. ASSUME NEW c \in Callers, ReadClock(c)
      PROVE  TypeOK'
  BY <1>4 DEF ReadClock, TypeOK, globalVars, bucketVars
<1> QED
  BY <1>1, <1>2, <1>3, <1>4, GlobalStep, PrivateStep DEF Next

(* The count stays within the limit and no bucket holds more than its size,  *)
(* whatever times the callers of the two checks have read.                   *)
THEOREM TypeCorrect == Spec => []TypeOK
<1>1. TypeOK /\ [Next]_vars => TypeOK'
  BY TypeStep
<1> QED
  BY <1>1, TypeInit, PTL DEF Spec

-----------------------------------------------------------------------------

(* What multiplication needs said: it is linear and monotone. *)
LEMMA Products ==
    ASSUME NEW a \in Int, NEW b \in Int, NEW k \in Nat
    PROVE  /\ a * k \in Int
           /\ (a + b) * k = a * k + b * k
           /\ (a - b) * k = a * k - b * k
           /\ a <= b => a * k <= b * k
           /\ (a + 1) * k = a * k + k
OBVIOUS

(* A history counts the requests read by a time, so it never falls. *)
Monotone(f) == \A s, e \in Times : s <= e => f[s] <= f[e]

(* One more request, read at n, is one more in the stretches that contain n. *)
LEMMA CountedTotal ==
    ASSUME NEW f \in [Times -> Nat], NEW n \in Times,
           NEW s \in Times, NEW e \in Times, s <= e
    PROVE  Total(Counted(f, n), s, e) =
              Total(f, s, e) + (IF s <= n /\ n <= e THEN 1 ELSE 0)
BY ConstantsAssumption DEF Total, Counted, Times

(* Counting a request leaves a history monotone. *)
LEMMA CountedMonotone ==
    ASSUME NEW f \in [Times -> Nat], NEW n \in Times, Monotone(f)
    PROVE  Monotone(Counted(f, n))
BY ConstantsAssumption DEF Monotone, Counted, Times

(* A stretch of a history holds a number of requests. *)
LEMMA TotalIsNat ==
    ASSUME NEW f \in [Times -> Nat], Monotone(f),
           NEW s \in Times, NEW e \in Times, s <= e
    PROVE  Total(f, s, e) \in Nat
<1>1. CASE s = 0
  BY <1>1 DEF Total
<1>2. CASE s # 0
  <2>1. s - 1 \in Times /\ s - 1 <= e
    BY <1>2, ConstantsAssumption DEF Times
  <2>2. f[s - 1] <= f[e] /\ f[s - 1] \in Nat /\ f[e] \in Nat
    BY <2>1 DEF Monotone
  <2> QED
    BY <1>2, <2>2 DEF Total
<1> QED
  BY <1>1, <1>2

(* A stretch is the sum of the two it is cut into. *)
LEMMA TotalSplit ==
    ASSUME NEW f \in [Times -> Nat],
           NEW s \in Times, NEW w \in Times, NEW e \in Times, s < w, w <= e
    PROVE  Total(f, s, e) = Total(f, s, w - 1) + Total(f, w, e)
BY ConstantsAssumption DEF Total, Times

-----------------------------------------------------------------------------

(* A bucket's potential: what it would have held at time 0. A refill keeps   *)
(* it, the cap and an admission lower it.                                    *)
Potential(i) == tokens[i] - lastRefill[i] * RefillRate

(* What a stretch from s on has taken from a bucket has lowered its          *)
(* potential below that of the bucket that was full at s.                    *)
Spent ==
    \A i \in Ips :
      /\ Monotone(admitted[i])
      /\ \A s, e \in Times : s <= e /\ Total(admitted[i], s, e) > 0 =>
           /\ i \in known
           /\ Total(admitted[i], s, e) * Second + Potential(i) <= Full - s * RefillRate

BucketInv == TypeOK /\ Spent /\ BucketLaw

(* No history, nothing spent. *)
LEMMA BucketInit == Init => BucketInv
<1> SUFFICES ASSUME Init
             PROVE  Spent /\ BucketLaw
  BY TypeInit DEF BucketInv
<1>1. \A i \in Ips : \A s, e \in Times : s <= e => Total(admitted[i], s, e) = 0
  BY ConstantsAssumption DEF Init, Total, Times
<1>2. \A i \in Ips : Monotone(admitted[i])
  BY DEF Init, Monotone
<1>3. ASSUME NEW s \in Times, NEW e \in s .. MaxTime
      PROVE  e \in Times /\ s <= e /\ 0 * Second <= Full + (e - s) * RefillRate
  <2>1. e \in Times /\ s <= e /\ e \in Int /\ s \in Int /\ 0 <= e - s /\ e - s \in Int
    BY ConstantsAssumption DEF Times
  <2>2. 0 * RefillRate <= (e - s) * RefillRate /\ (e - s) * RefillRate \in Int
    BY <2>1, Products, ConstantsAssumption
  <2> QED
    BY <2>1, <2>2, FullIsNat, ConstantsAssumption
<1> QED
  BY <1>1, <1>2, <1>3 DEF Spent, BucketLaw, Full

(* The step that spends: a request that finds a token takes it. *)
LEMMA BucketStep ==
    ASSUME BucketInv, NEW c \in Callers, IsAllowedPrivate(c)
    PROVE  Spent' /\ BucketLaw'
<1> DEFINE i == ip[c]
           n == now[c]
           have == Refilled(i, n)
           allowed == have >= Second
           left == IF allowed THEN have - Second ELSE have
<1>0. TypeOK /\ TypeOK'
  BY PrivateStep DEF BucketInv
<1>1. i \in Ips /\ n \in Times /\ n \in Int /\ RefillRate \in Nat /\ Second \in Nat
  BY <1>0, ConstantsAssumption DEF TypeOK, Times
<1>2. have \in Int /\ have <= Full
  BY <1>0, <1>1, RefilledIs
<1>3. /\ known' = known \union {i}
      /\ tokens' = [tokens EXCEPT ![i] = left]
      /\ lastRefill' = [lastRefill EXCEPT ![i] = n]
      /\ admitted' = IF allowed THEN [admitted EXCEPT ![i] = Counted(admitted[i], n)]
                     ELSE admitted
      /\ ip' = ip
  BY DEF IsAllowedPrivate, RefillTime
<1>4. /\ tokens[i] \in Int /\ lastRefill[i] \in Int /\ lastRefill[i] * RefillRate \in Int
      /\ n * RefillRate \in Int
      /\ (n - lastRefill[i]) * RefillRate = n * RefillRate - lastRefill[i] * RefillRate
  <2>1. tokens[i] \in Int /\ lastRefill[i] \in Int
    BY <1>0, <1>1 DEF TypeOK, Times
  <2> QED
    BY <1>1, <2>1, Products
(* The cap only lowers the potential. *)
<1>5. i \in known => have - n * RefillRate <= Potential(i)
  <2> SUFFICES ASSUME i \in known
               PROVE  have - n * RefillRate <= Potential(i)
    OBVIOUS
  <2> DEFINE units == tokens[i] + (n - lastRefill[i]) * RefillRate
  <2>1. have = Capped(units)
    BY DEF Refilled
  <2>2. units \in Int /\ units - n * RefillRate = Potential(i)
    BY <1>4 DEF Potential
  <2> HIDE DEF units, have
  <2>3. Capped(units) <= units
    BY <2>2, FullIsNat DEF Capped, Full
  <2> QED
    BY <2>1, <2>2, <2>3, <1>2, <1>4
<1>6. left \in Int /\ (allowed => left = have - Second /\ left >= 0) /\ (~allowed => left = have)
  BY <1>1, <1>2
<1>7. tokens'[i] = left /\ lastRefill'[i] = n /\ Potential(i)' = left - n * RefillRate
  BY <1>0, <1>1, <1>3 DEF Potential, TypeOK
<1>8. ASSUME NEW j \in Ips, j # i
      PROVE  /\ Potential(j)' = Potential(j) /\ admitted'[j] = admitted[j]
             /\ j \in known => j \in known'
  BY <1>0, <1>1, <1>3, <1>8 DEF Potential, TypeOK
<1>9. admitted'[i] = IF allowed THEN Counted(admitted[i], n) ELSE admitted[i]
  BY <1>0, <1>1, <1>3 DEF TypeOK
<1>10. admitted[i] \in [Times -> Nat] /\ Monotone(admitted[i]) /\ Potential(i) \in Int
  BY <1>0, <1>1, <1>4 DEF BucketInv, Spent, TypeOK, Potential
<1>11. Monotone(admitted'[i])
  BY <1>1, <1>9, <1>10, CountedMonotone
<1> HIDE DEF have, left, n
(* The two claims for the stretch from s to e of the address i. *)
<1>12. ASSUME NEW s \in Times, NEW e \in Times, s <= e
       PROVE  LET T == Total(admitted'[i], s, e)
              IN  /\ T > 0 => T * Second + Potential(i)' <= Full - s * RefillRate
                  /\ T * Second <= Full + (e - s) * RefillRate
  <2> DEFINE T0 == Total(admitted[i], s, e)
             T == Total(admitted'[i], s, e)
             h == n * RefillRate
  <2>1. T0 \in Nat
    BY <1>10, <1>12, TotalIsNat
  <2>2. /\ s \in Int /\ e \in Int /\ s * RefillRate \in Int /\ e * RefillRate \in Int
        /\ (e - s) * RefillRate = e * RefillRate - s * RefillRate
        /\ s <= n => s * RefillRate <= n * RefillRate
        /\ n <= e => n * RefillRate <= e * RefillRate
    BY <1>1, Products DEF Times
  <2>3. T0 > 0 => i \in known /\ T0 * Second + Potential(i) <= Full - s * RefillRate
    BY <1>1, <1>12 DEF BucketInv, Spent
  <2>4. T0 * Second <= Full + (e - s) * RefillRate
    <3>1. e \in s .. MaxTime
      BY <1>12, ConstantsAssumption DEF Times
    <3> QED
      BY <1>1, <3>1 DEF BucketInv, BucketLaw, Full
  <2>5. /\ T0 * Second \in Int /\ (T0 + 1) * Second = T0 * Second + Second
        /\ T0 = 0 => T0 * Second = 0
    BY <2>1, <1>1, Products
  <2> HIDE DEF T0, T
  <2>6. CASE ~(allowed /\ s <= n /\ n <= e)
    <3>1. T = T0
      BY <2>6, <1>1, <1>9, <1>10, <1>12, <2>1, CountedTotal DEF T, T0
    <3>2. i \in known => Potential(i)' <= Potential(i)
      BY <1>1, <1>2, <1>4, <1>5, <1>6, <1>7, <1>10
    <3> QED
      BY <3>1, <3>2, <2>1, <2>2, <2>3, <2>4, <2>5, <1>4, <1>6, <1>7, <1>10, FullIsNat DEF T
  <2>7. CASE allowed /\ s <= n /\ n <= e
    <3>1. T = T0 + 1
      BY <2>7, <1>1, <1>9, <1>10, <1>12, CountedTotal DEF T, T0
    <3>2. T * Second = T0 * Second + Second
      BY <3>1, <2>5
    <3>3. Potential(i)' = have - Second - n * RefillRate
      BY <2>7, <1>6, <1>7
    <3>4. T * Second + Potential(i)' <= Full - s * RefillRate
      <4>1. CASE T0 = 0
        BY <4>1, <3>2, <3>3, <2>2, <2>5, <2>7, <1>1, <1>2, <1>4, FullIsNat
      <4>2. CASE T0 > 0
        BY <4>2, <3>2, <3>3, <2>2, <2>3, <2>5, <2>7, <1>1, <1>2, <1>4, <1>5, <1>10, FullIsNat
      <4> QED
        BY <4>1, <4>2, <2>1
    <3>5. Potential(i)' >= -(n * RefillRate) /\ Potential(i)' \in Int /\ T * Second \in Int
      BY <2>7, <1>1, <1>4, <1>6, <1>7, <2>5, <3>2
    <3> QED
      BY <3>4, <3>5, <2>2, <2>7, <1>4, FullIsNat DEF T
  <2> QED
    BY <2>6, <2>7
<1>13. Spent'
  <2> SUFFICES ASSUME NEW j \in Ips
               PROVE  /\ Monotone(admitted'[j])
                      /\ \A s, e \in Times : s <= e /\ Total(admitted'[j], s, e) > 0 =>
                           /\ j \in known'
                           /\ Total(admitted'[j], s, e) * Second + Potential(j)'
                                 <= Full - s * RefillRate
    BY DEF Spent, Full, Monotone, Total, Times
  <2>1. CASE j = i
    <3>1. j \in known' /\ Potential(j)' = Potential(i)'
      BY <2>1, <1>3 DEF Potential
    <3> QED
      BY <2>1, <3>1, <1>11, <1>12
  <2>2. CASE j # i
    BY <2>2, <1>8 DEF BucketInv, Spent
  <2> QED
    BY <2>1, <2>2
<1>14. BucketLaw'
  <2> SUFFICES ASSUME NEW j \in Ips, NEW s \in Times, NEW e \in s .. MaxTime
               PROVE  Total(admitted'[j], s, e) * Second
                         <= MaxTokens * Second + (e - s) * RefillRate
    BY DEF BucketLaw, Total, Times
  <2>1. e \in Times /\ s <= e
    BY ConstantsAssumption DEF Times
  <2>2. CASE j = i
    BY <2>1, <2>2, <1>12 DEF Full
  <2>3. CASE j # i
    BY <2>3, <1>8 DEF BucketInv, BucketLaw
  <2> QED
    BY <2>2, <2>3
<1> QED
  BY <1>13, <1>14

(* The other steps leave the buckets and their histories alone. *)
LEMMA BucketsKept ==
    ASSUME BucketInv, UNCHANGED <<known, tokens, lastRefill, admitted>>
    PROVE  Spent' /\ BucketLaw'
BY DEF BucketInv, Spent, BucketLaw, Potential, Monotone, Total, Times, Full

(* In any stretch of time an address is admitted at most a full bucket and   *)
(* what was refilled meanwhile: for any number of threads, however the times *)
(* they read before they took the mutex are ordered.                         *)
THEOREM BucketsHold == Spec => []BucketLaw
<1>1. BucketInv /\ [Next]_vars => BucketInv'
  <2> SUFFICES ASSUME BucketInv, [Next]_vars
               PROVE  BucketInv'
    OBVIOUS
  <2>1. TypeOK'
    BY TypeStep DEF BucketInv
  <2>2. CASE \E c \in Callers : IsAllowedPrivate(c)
    BY <2>1, <2>2, BucketStep DEF BucketInv
  <2>3. CASE UNCHANGED <<known, tokens, lastRefill, admitted>>
    BY <2>1, <2>3, BucketsKept DEF BucketInv
  <2> QED
    BY <2>2, <2>3 DEF Next, vars, Tick, Request, IsAllowedGlobal, ReadClock, bucketVars
<1>2. BucketInv => BucketLaw
  BY DEF BucketInv
<1> QED
  BY <1>1, <1>2, BucketInit, PTL DEF Spec

-----------------------------------------------------------------------------

(* The server has one thread that calls the limiter, the one that accepts. *)
OneCaller == \A c, d \in Callers : c = d

(* What the request in hand and the window have read of the clock. *)
ClockRead ==
    /\ globalWindowStart <= clock
    /\ \A c \in Callers : pc[c] = "global" => globalWindowStart <= now[c] /\ now[c] <= clock

(* The current window holds what passed since it started, nothing passed     *)
(* after its end, and the second before its start met one window only.       *)
WindowHistory ==
    /\ \A s, e \in Times : s <= e /\ globalWindowStart <= s =>
          /\ Total(passed, s, e) <= globalCount
          /\ globalWindowStart + Second <= s => Total(passed, s, e) = 0
    /\ \A s \in Times : s < globalWindowStart /\ globalWindowStart < s + Second =>
          Total(passed, s, globalWindowStart - 1) <= GlobalLimit

WindowInv == TypeOK /\ ClockRead /\ WindowHistory /\ TwoWindowsPerSecond

(* The step of the global check, the only one that moves the window. *)
LEMMA WindowStep ==
    ASSUME OneCaller, WindowInv, NEW c \in Callers, IsAllowedGlobal(c)
    PROVE  WindowInv'
<1> DEFINE n == now[c]
           W == globalWindowStart
           reset == n - W >= Second
           count == IF reset THEN 0 ELSE globalCount
           allowed == count < GlobalLimit
<1>0. TypeOK /\ TypeOK'
  BY GlobalStep DEF WindowInv
<1>1. /\ globalWindowStart' = IF reset THEN n ELSE W
      /\ globalCount' = IF allowed THEN count + 1 ELSE count
      /\ pc' = [pc EXCEPT ![c] = IF allowed THEN "passed" ELSE "idle"]
      /\ passed' = IF allowed THEN Counted(passed, n) ELSE passed
      /\ clock' = clock /\ now' = now
      /\ pc[c] = "global"
  BY DEF IsAllowedGlobal, WindowStart
<1>2. /\ n \in Nat /\ n \in Times /\ W \in Nat /\ W \in Times /\ globalCount \in 0 .. GlobalLimit
      /\ Second \in Nat /\ Second > 0 /\ GlobalLimit \in Nat /\ MaxTime \in Nat
      /\ passed \in [Times -> Nat] /\ W <= n /\ clock \in Nat
  <2>1. W <= n
    BY <1>1 DEF WindowInv, ClockRead
  <2>2. n \in Times /\ W \in Times /\ clock \in Times /\ passed \in [Times -> Nat]
    BY <1>0 DEF TypeOK
  <2>3. globalCount \in 0 .. GlobalLimit
    BY <1>0 DEF TypeOK
  <2> HIDE DEF n, W
  <2>4. n \in Nat /\ W \in Nat /\ clock \in Nat
    BY <2>2, ConstantsAssumption DEF Times
  <2> QED
    BY <2>1, <2>2, <2>3, <2>4, ConstantsAssumption
<1> DEFINE V == globalWindowStart'
<1>3. V \in Times /\ V \in Nat /\ W <= V /\ V <= n /\ n < V + Second
  BY <1>1, <1>2
<1>4. count \in 0 .. GlobalLimit /\ globalCount' \in count .. GlobalLimit
      /\ (allowed => globalCount' = count + 1)
  BY <1>1, <1>2
<1>5. ASSUME NEW s \in Times, NEW e \in Times, s <= e
      PROVE  /\ Total(passed, s, e) \in Int
             /\ Total(passed', s, e) =
                  Total(passed, s, e) + (IF allowed /\ s <= n /\ n <= e THEN 1 ELSE 0)
  <2>1. Total(passed, s, e) \in Int
    BY <1>2, <1>5, ConstantsAssumption DEF Total, Times
  <2> QED
    BY <2>1, <1>1, <1>2, <1>5, CountedTotal
<1>6. ClockRead'
  <2>1. V <= clock
    BY <1>1, <1>2, <1>3 DEF WindowInv, ClockRead
  <2>2. \A d \in Callers : pc'[d] # "global"
    BY <1>0, <1>1 DEF OneCaller, TypeOK
  <2> QED
    BY <1>1, <2>1, <2>2 DEF ClockRead
<1> HIDE DEF reset, count, allowed, n, W, V
(* Stretches of the window in force. *)
<1>7. ASSUME NEW s \in Times, NEW e \in Times, s <= e, V <= s
      PROVE  /\ Total(passed', s, e) <= globalCount'
             /\ V + Second <= s => Total(passed', s, e) = 0
  <2> DEFINE T == Total(passed, s, e)
  <2>1. /\ W <= s => T <= globalCount
        /\ W + Second <= s => T = 0
    BY <1>2, <1>7 DEF WindowInv, WindowHistory, W
  <2>2. s \in Int /\ e \in Int
    BY DEF Times
  <2>3. T <= count
    BY <1>1, <1>2, <1>3, <1>7, <2>1, <2>2 DEF count, reset, V, W
  <2>4. V + Second <= s => T = 0
    BY <1>2, <1>3, <1>7, <2>1, <2>2
  <2> HIDE DEF T
  <2> QED
    BY <1>2, <1>3, <1>4, <1>5, <1>7, <2>2, <2>3, <2>4 DEF T
(* Stretches of the second before the window in force. *)
<1>8. ASSUME NEW s \in Times, s < V, V < s + Second
      PROVE  Total(passed', s, V - 1) <= GlobalLimit
  <2>1. s \in Int /\ V - 1 \in Times /\ s <= V - 1
    BY <1>2, <1>3, <1>8 DEF Times
  <2>2. Total(passed', s, V - 1) = Total(passed, s, V - 1) /\ Total(passed, s, V - 1) \in Int
    BY <1>2, <1>3, <1>5, <2>1
  <2>3. CASE reset
    <3>1. W <= s
      BY <2>3, <2>1, <1>1, <1>2, <1>3, <1>8 DEF reset, V
    <3>2. Total(passed, s, V - 1) <= globalCount
      BY <3>1, <2>1 DEF WindowInv, WindowHistory, W
    <3> QED
      BY <3>2, <2>2, <1>2
  <2>4. CASE ~reset
    BY <2>4, <2>2, <1>1, <1>8 DEF WindowInv, WindowHistory, W, V
  <2> QED
    BY <2>3, <2>4
<1>9. WindowHistory'
  BY <1>7, <1>8 DEF WindowHistory, V, Total, Times
(* A second lies within one window, before this one, or meets two. *)
<1>10. ASSUME NEW s \in 0 .. MaxTime - Second + 1
       PROVE  Total(passed', s, s + Second - 1) <= 2 * GlobalLimit
  <2> DEFINE e == s + Second - 1
  <2>1. s \in Times /\ e \in Times /\ s <= e /\ s \in Int /\ e \in Int
    BY <1>2 DEF Times
  <2>2. CASE V <= s
    BY <2>1, <2>2, <1>2, <1>4, <1>5, <1>7
  <2>3. CASE s < V /\ V <= e
    <3>1. V - 1 \in Times /\ s <= V - 1
      BY <2>1, <2>3, <1>2, <1>3 DEF Times
    <3>2. passed' \in [Times -> Nat]
      BY <1>0 DEF TypeOK
    <3>3. Total(passed', s, e) = Total(passed', s, V - 1) + Total(passed', V, e)
      BY <3>2, <2>1, <2>3, <1>3, TotalSplit
    <3>4. Total(passed', s, V - 1) <= GlobalLimit
      BY <2>1, <2>3, <1>2, <1>3, <1>8
    <3>5. Total(passed', V, e) <= GlobalLimit
      BY <2>1, <2>3, <1>2, <1>3, <1>4, <1>5, <1>7
    <3>6. Total(passed', s, V - 1) \in Int /\ Total(passed', V, e) \in Int
      BY <3>1, <2>1, <2>3, <1>3, <1>5
    <3> QED
      BY <3>3, <3>4, <3>5, <3>6, <1>2
  <2>4. CASE e < V
    <3>1. Total(passed', s, e) = Total(passed, s, e)
      BY <2>1, <2>4, <1>2, <1>3, <1>5
    <3> QED
      BY <3>1 DEF WindowInv, TwoWindowsPerSecond
  <2> QED
    BY <2>1, <2>2, <2>3, <2>4, <1>3
<1>11. TwoWindowsPerSecond'
  BY <1>10 DEF TwoWindowsPerSecond, Total
<1> QED
  BY <1>0, <1>6, <1>9, <1>11 DEF WindowInv

(* The steps that do not pass a request leave the window's history alone. *)
LEMMA WindowKept ==
    ASSUME WindowInv, TypeOK', ClockRead', UNCHANGED <<globalCount, globalWindowStart, passed>>
    PROVE  WindowInv'
BY DEF WindowInv, WindowHistory, TwoWindowsPerSecond, Total, Times

(* Nothing has passed at the start. *)
LEMMA WindowInit == Init => WindowInv
<1> SUFFICES ASSUME Init
             PROVE  ClockRead /\ WindowHistory /\ TwoWindowsPerSecond
  BY TypeInit DEF WindowInv
<1>1. \A s, e \in Times : s <= e => Total(passed, s, e) = 0
  BY ConstantsAssumption DEF Init, Total, Times
<1>2. ClockRead /\ WindowHistory
  BY <1>1, ConstantsAssumption DEF Init, ClockRead, WindowHistory, Times
<1>3. TwoWindowsPerSecond
  BY <1>1, ConstantsAssumption DEF TwoWindowsPerSecond, Times
<1> QED
  BY <1>2, <1>3

(* With the accept thread as the limiter's only caller, any second meets at  *)
(* most two windows of the global check and lets at most twice the cap pass. *)
THEOREM WindowsHold ==
    ASSUME OneCaller
    PROVE  Spec => []TwoWindowsPerSecond
<1>1. ASSUME WindowInv, [Next]_vars
      PROVE  WindowInv'
  <2>1. TypeOK /\ TypeOK'
    BY <1>1, TypeStep DEF WindowInv
  <2>2. CASE UNCHANGED vars
    BY <1>1, <2>1, <2>2, WindowKept DEF vars, WindowInv, ClockRead
  <2>3. CASE Tick
    <3>1. clock \in Int /\ clock' = clock + 1 /\ UNCHANGED <<globalWindowStart, pc, now>>
      BY <2>1, <2>3 DEF Tick, globalVars, callVars, TypeOK, Times
    <3>2. globalWindowStart \in Int /\ \A c \in Callers : now[c] \in Int
      BY <2>1 DEF TypeOK, Times
    <3>3. ClockRead'
      BY <1>1, <3>1, <3>2 DEF WindowInv, ClockRead
    <3> QED
      BY <1>1, <2>1, <2>3, <3>3, WindowKept DEF Tick, globalVars
  <2>4. ASSUME NEW c \in Callers, NEW i \in Ips, Request(c, i)
        PROVE  WindowInv'
    <3>1. ClockRead'
      BY <1>1, <2>1, <2>4 DEF Request, WindowInv, ClockRead, TypeOK, Times, globalVars
    <3> QED
      BY <1>1, <2>1, <2>4, <3>1, WindowKept DEF Request, globalVars
  <2>5. ASSUME NEW c \in Callers, ReadClock(c)
        PROVE  WindowInv'
    <3>1. ClockRead'
      BY <1>1, <2>1, <2>5 DEF ReadClock, WindowInv, ClockRead, TypeOK, Times, globalVars
    <3> QED
      BY <1>1, <2>1, <2>5, <3>1, WindowKept DEF ReadClock, globalVars
  <2>6. ASSUME NEW c \in Callers, IsAllowedPrivate(c)
        PROVE  WindowInv'
    <3>1. ClockRead'
      BY <1>1, <2>1, <2>6 DEF IsAllowedPrivate, WindowInv, ClockRead, TypeOK, Times, globalVars
    <3> QED
      BY <1>1, <2>1, <2>6, <3>1, WindowKept DEF IsAllowedPrivate, globalVars
  <2> QED
    BY <1>1, <2>2, <2>3, <2>4, <2>5, <2>6, WindowStep DEF Next
<1>2. WindowInv /\ [Next]_vars => WindowInv'
  BY <1>1
<1>3. WindowInv => TwoWindowsPerSecond
  BY DEF WindowInv
<1> QED
  BY <1>2, <1>3, WindowInit, PTL DEF Spec

=============================================================================
