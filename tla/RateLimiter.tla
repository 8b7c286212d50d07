----------------------------- MODULE RateLimiter -----------------------------
(***************************************************************************)
(* RateLimiter: a request must pass the global window (isAllowedGlobal)    *)
(* and then its address's token bucket (isAllowedPrivate). Each reads the  *)
(* clock BEFORE it takes its mutex, so callers may enter with times out of *)
(* order. Time is counted in ticks, Second of them to the second; a token  *)
(* is Second units, so that RefillRate tokens per second are RefillRate    *)
(* units per tick and the refill is exact.                                 *)
(***************************************************************************)
EXTENDS Integers

CONSTANTS
    Callers,    \* threads that call isAllowed
    Ips,        \* client addresses
    MaxTokens,  \* size of a bucket, in tokens
    RefillRate, \* tokens per second
    GlobalLimit,\* maxRequestsGlobal
    Second,     \* ticks per second
    MaxTime     \* bound: the last tick

ASSUME ConstantsAssumption ==
    /\ MaxTokens \in Nat /\ RefillRate \in Nat /\ GlobalLimit \in Nat
    /\ Second \in Nat \ {0}
    /\ MaxTime \in Nat

Times == 0 .. MaxTime

(* The history f of requests with one more, read at time n. *)
Counted(f, n) == [t \in Times |-> IF n <= t THEN f[t] + 1 ELSE f[t]]

VARIABLES
    clock,              \* steady_clock
    globalCount,
    globalWindowStart,
    known,              \* the addresses that have an entry in ipRecords
    tokens,             \* ipRecords[i].tokens, in units
    lastRefill,         \* ipRecords[i].lastRefill
    pc,                 \* pc[c]: "idle", "global", "passed", "private"
    ip,                 \* ip[c]: the address of caller c's request
    now,                \* now[c]: the time caller c has read
    (* History variables: they never guard an action. *)
    passed,             \* passed[t]: requests read by t that passed the global check
    admitted            \* admitted[i][t]: requests of i read by t that were allowed

globalVars == <<globalCount, globalWindowStart>>
bucketVars == <<known, tokens, lastRefill>>
callVars == <<pc, ip, now>>
vars == <<clock, globalCount, globalWindowStart, known, tokens, lastRefill, pc, ip, now,
          passed, admitted>>

Init ==
    /\ clock = 0
    /\ globalCount = 0
    /\ globalWindowStart = 0
    /\ known = {}
    /\ tokens = [i \in Ips |-> 0]
    /\ lastRefill = [i \in Ips |-> 0]
    /\ pc = [c \in Callers |-> "idle"]
    /\ ip \in [Callers -> Ips]
    /\ now = [c \in Callers |-> 0]
    /\ passed = [t \in Times |-> 0]
    /\ admitted = [i \in Ips |-> [t \in Times |-> 0]]

Tick ==
    /\ clock < MaxTime
    /\ clock' = clock + 1
    /\ UNCHANGED <<globalVars, bucketVars, callVars, passed, admitted>>

(* isAllowed(i) is called; isAllowedGlobal reads the clock. *)
Request(c, i) ==
    /\ pc[c] = "idle"
    /\ pc' = [pc EXCEPT ![c] = "global"]
    /\ ip' = [ip EXCEPT ![c] = i]
    /\ now' = [now EXCEPT ![c] = clock]
    /\ UNCHANGED <<clock, globalVars, bucketVars, passed, admitted>>

(* Mutant: the window is reset but its start is not moved. *)
WindowStartKept(c, reset) == globalWindowStart

(* A new window starts with the request that found the old one over. *)
WindowStart(c, reset) == IF reset THEN now[c] ELSE globalWindowStart

(* The rest of isAllowedGlobal, under globalMutex. *)
IsAllowedGlobal(c) ==
    LET reset == now[c] - globalWindowStart >= Second
        count == IF reset THEN 0 ELSE globalCount
        allowed == count < GlobalLimit
    IN  /\ pc[c] = "global"
        /\ globalWindowStart' = WindowStart(c, reset)
        /\ globalCount' = IF allowed THEN count + 1 ELSE count
        /\ pc' = [pc EXCEPT ![c] = IF allowed THEN "passed" ELSE "idle"]
        /\ passed' = IF allowed THEN Counted(passed, now[c]) ELSE passed
        /\ UNCHANGED <<clock, bucketVars, ip, now, admitted>>

(* isAllowedPrivate reads the clock. *)
ReadClock(c) ==
    /\ pc[c] = "passed"
    /\ pc' = [pc EXCEPT ![c] = "private"]
    /\ now' = [now EXCEPT ![c] = clock]
    /\ UNCHANGED <<clock, globalVars, bucketVars, ip, passed, admitted>>

(* Mutant: the bucket is not capped. *)
CappedNot(units) == units

(* A bucket holds no more than its size. *)
Capped(units) == IF units > MaxTokens * Second THEN MaxTokens * Second ELSE units

(* What the bucket of i holds at time t, in units; a new bucket is full. *)
Refilled(i, t) ==
    IF i \in known THEN Capped(tokens[i] + (t - lastRefill[i]) * RefillRate)
    ELSE MaxTokens * Second

(* Mutant: a refused request does not move lastRefill. *)
RefillTimeIfAllowed(c, allowed) == IF allowed THEN now[c] ELSE lastRefill[ip[c]]

(* lastRefill moves with every request, refused ones included. *)
RefillTime(c, allowed) == now[c]

(* The rest of isAllowedPrivate, under mapMutex. *)
IsAllowedPrivate(c) ==
    LET i == ip[c]
        have == Refilled(i, now[c])
        allowed == have >= Second
    IN  /\ pc[c] = "private"
        /\ known' = known \union {i}
        /\ tokens' = [tokens EXCEPT ![i] = IF allowed THEN have - Second ELSE have]
        /\ lastRefill' = [lastRefill EXCEPT ![i] = RefillTime(c, allowed)]
        /\ pc' = [pc EXCEPT ![c] = "idle"]
        /\ admitted' = IF allowed THEN [admitted EXCEPT ![i] = Counted(@, now[c])] ELSE admitted
        /\ UNCHANGED <<clock, globalVars, ip, now, passed>>

Next ==
    \/ Tick
    \/ \E c \in Callers : \/ \E i \in Ips : Request(c, i)
                          \/ IsAllowedGlobal(c)
                          \/ ReadClock(c)
                          \/ IsAllowedPrivate(c)

Spec == Init /\ [][Next]_vars

-----------------------------------------------------------------------------

(* The requests of history f that were read between the times s and e. *)
Total(f, s, e) == IF s = 0 THEN f[e] ELSE f[e] - f[s - 1]

(* The count stays within the limit and no bucket holds more than its size. *)
TypeOK ==
    /\ clock \in Times
    /\ globalCount \in 0 .. GlobalLimit
    /\ globalWindowStart \in Times
    /\ known \in SUBSET Ips
    /\ tokens \in [Ips -> Int]
    /\ \A i \in Ips : tokens[i] <= MaxTokens * Second
    /\ lastRefill \in [Ips -> Times]
    /\ pc \in [Callers -> {"idle", "global", "passed", "private"}]
    /\ ip \in [Callers -> Ips]
    /\ now \in [Callers -> Times]
    /\ passed \in [Times -> Nat]
    /\ admitted \in [Ips -> [Times -> Nat]]

(* The token bucket's promise (README: buckets of 10, refilled at 5 per      *)
(* second): in any stretch of time an address is admitted at most a full     *)
(* bucket and what was refilled meanwhile, however its requests, those that  *)
(* are refused and still move lastRefill included, are spread over it.       *)
BucketLaw ==
    \A i \in Ips : \A s \in Times : \A e \in s .. MaxTime :
        Total(admitted[i], s, e) * Second <= MaxTokens * Second + (e - s) * RefillRate

(* README: "A global cap limits total requests per second". The fixed window *)
(* starts anew at the first request after it ends, so any second meets at    *)
(* most two windows and lets at most twice the cap through.                  *)
TwoWindowsPerSecond ==
    \A s \in 0 .. MaxTime - Second + 1 :
        Total(passed, s, s + Second - 1) <= 2 * GlobalLimit

=============================================================================
