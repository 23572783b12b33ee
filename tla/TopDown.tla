------------------------------- MODULE TopDown -------------------------------
(***************************************************************************)
(* topdown-grpc: one token bucket a method of sloMap, whose rate a         *)
(* learning agent sets over HTTP, and the measurements the agent reads to  *)
(* choose it.  Calls, the agent and the collector that wakes every second  *)
(* share InterfaceMetrics: all of them hold the mutex, except for the      *)
(* collector's second step.                                                *)
(*                                                                         *)
(* Source: src/topdown-grpc-main/topdown.go, utils.go, learning_agent.go.  *)
(* The clock is a tick of 1/Hz second; since stops at Full, from which any *)
(* rate of at least one fills the bucket.  HTTP requests that do not parse *)
(* and SloViolationCounter, which nothing reads, are left out.             *)
(***************************************************************************)
EXTENDS Integers, Sequences, FiniteSets, Functions

CONSTANTS
  Methods,      \* the keys of sloMap
  Unlimited,    \* the other methods
  NoMethod,
  Calls,        \* slots for calls in flight
  MaxTokens, InitialRate,
  MaxRate,      \* no rate is higher
  RateLimits,   \* the limits the agent posts, in tenths of a call per second
  Hz,           \* ticks per second
  Slo,          \* sloMap
  Latencies,
  MaxHistory    \* no call returns when this many latencies are stored (bound)

ASSUME TopDownAssumption ==
  /\ NoMethod \notin Methods \union Unlimited /\ Methods \intersect Unlimited = {}
  /\ MaxTokens \in Nat \ {0} /\ Hz \in Nat \ {0} /\ MaxRate \in Nat
  /\ InitialRate \in 0..MaxRate
  /\ RateLimits \subseteq Nat /\ \A l \in RateLimits : l \div 10 <= MaxRate
  /\ Slo \in [Methods -> Nat] /\ Latencies \subseteq Nat /\ 0 \in Latencies
  /\ MaxHistory \in Nat

VARIABLES
  tokens, rate, since,            \* Tokens, RefillRate, ticks from LastRefill to now
  goodput, history,               \* GoodputCounter, LatencyHistory
  current, tail,                  \* CurrentGoodput, LastTailLatency95th
  pc, method,                     \* per call
  toCollect, saving               \* the collector: methods left, the one between its steps

bucketVars == <<tokens, rate, since>>
countVars == <<goodput, history>>
reportVars == <<current, tail>>
callVars == <<pc, method>>
collectVars == <<toCollect, saving>>
vars == <<bucketVars, countVars, reportVars, callVars, collectVars>>

Full == MaxTokens * Hz
Lesser(a, b) == IF a < b THEN a ELSE b

Init ==
  /\ tokens = [m \in Methods |-> MaxTokens]
  /\ rate = [m \in Methods |-> InitialRate]
  /\ since = [m \in Methods |-> 0]
  /\ goodput = [m \in Methods |-> 0] /\ history = [m \in Methods |-> <<>>]
  /\ current = [m \in Methods |-> 0] /\ tail = [m \in Methods |-> 0]
  /\ pc = [c \in Calls |-> "idle"] /\ method = [c \in Calls |-> NoMethod]
  /\ toCollect = {} /\ saving = NoMethod

Tick ==
  /\ since' = [m \in Methods |-> Lesser(since[m] + 1, Full)]
  /\ UNCHANGED <<tokens, rate, countVars, reportVars, callVars, collectVars>>
-----------------------------------------------------------------------------
(* Allow and UnaryInterceptor.                                             *)

Refill(m) == (since[m] * rate[m]) \div Hz

\* Mutant: the bucket overflows.
RefilledUncapped(m) == tokens[m] + Refill(m)

Refilled(m) == Lesser(tokens[m] + Refill(m), MaxTokens)

\* Mutant: LastRefill stays where it was.
SinceKept(m) == since[m]

\* Mutant: LastRefill moves with every call, and takes the fraction of a token with it.
SinceMoved(m) == 0

\* LastRefill moves only when a token was added.
SinceRefill(m) == IF Refill(m) > 0 THEN 0 ELSE since[m]

Begin(c, m, state) ==
  /\ pc[c] = "idle"
  /\ pc' = [pc EXCEPT ![c] = state]
  /\ method' = [method EXCEPT ![c] = m]

Admit(c, m) ==
  /\ Refilled(m) > 0
  /\ Begin(c, m, "handling")
  /\ tokens' = [tokens EXCEPT ![m] = Refilled(m) - 1]
  /\ since' = [since EXCEPT ![m] = SinceRefill(m)]
  /\ UNCHANGED <<rate, countVars, reportVars, collectVars>>

Refuse(c, m) ==
  /\ Refilled(m) = 0
  /\ Begin(c, m, "refused")
  /\ since' = [since EXCEPT ![m] = SinceRefill(m)]
  /\ UNCHANGED <<tokens, rate, countVars, reportVars, collectVars>>

AdmitUnlimited(c, m) ==
  /\ Begin(c, m, "handling")
  /\ UNCHANGED <<bucketVars, countVars, reportVars, collectVars>>

End(c) ==
  /\ pc' = [pc EXCEPT ![c] = "idle"]
  /\ method' = [method EXCEPT ![c] = NoMethod]

ReturnRefused(c) ==
  /\ pc[c] = "refused"
  /\ End(c)
  /\ UNCHANGED <<bucketVars, countVars, reportVars, collectVars>>

\* The handler is back, with a response or an error alike: postProcess.
PostProcess(c, latency) ==
  LET m == method[c] IN
  /\ pc[c] = "handling" /\ m \in Methods
  /\ Len(history[m]) < MaxHistory
  /\ End(c)
  /\ goodput' = IF latency <= Slo[m] THEN [goodput EXCEPT ![m] = @ + 1] ELSE goodput
  /\ history' = [history EXCEPT ![m] = Append(@, latency)]
  /\ UNCHANGED <<bucketVars, reportVars, collectVars>>

ReturnUnlimited(c) ==
  /\ pc[c] = "handling" /\ method[c] \in Unlimited
  /\ End(c)
  /\ UNCHANGED <<bucketVars, countVars, reportVars, collectVars>>
-----------------------------------------------------------------------------
(* StartMetricsCollection.                                                 *)

StartCollection ==
  /\ toCollect = {}
  /\ toCollect' = Methods
  /\ UNCHANGED <<bucketVars, countVars, reportVars, callVars, saving>>

\* The element of s that sorting would put after i others.
Ranked(s, i) ==
  CHOOSE l \in Range(s) :
    /\ Cardinality({j \in DOMAIN s : s[j] < l}) <= i
    /\ Cardinality({j \in DOMAIN s : s[j] <= l}) > i

\* An interval without calls keeps the tail latency of an earlier one.
CalculateTailLatency95th(m) ==
  /\ m \in toCollect /\ saving = NoMethod
  /\ saving' = m
  /\ tail' = IF history[m] = <<>> THEN tail
             ELSE [tail EXCEPT ![m] = Ranked(history[m], (95 * Len(history[m])) \div 100)]
  /\ history' = [history EXCEPT ![m] = <<>>]
  /\ UNCHANGED <<bucketVars, goodput, current, callVars, toCollect>>

\* Mutant: the counter is read and not cleared.
SaveAndKeep(m) ==
  /\ saving = m
  /\ saving' = NoMethod /\ toCollect' = toCollect \ {m}
  /\ current' = [current EXCEPT ![m] = goodput[m]]
  /\ UNCHANGED <<bucketVars, countVars, tail, callVars>>

\* Without the mutex.
SaveMetrics(m) ==
  /\ saving = m
  /\ saving' = NoMethod /\ toCollect' = toCollect \ {m}
  /\ current' = [current EXCEPT ![m] = goodput[m]]
  /\ goodput' = [goodput EXCEPT ![m] = 0]
  /\ UNCHANGED <<bucketVars, history, tail, callVars>>
-----------------------------------------------------------------------------
(* The learning agent; GetMetrics only reads.                              *)

\* int64(rateLimit): a limit below one is a rate of zero.
SetRateLimit(m, rateLimit) ==
  /\ rate' = [rate EXCEPT ![m] = rateLimit \div 10]
  /\ UNCHANGED <<tokens, since, countVars, reportVars, callVars, collectVars>>
-----------------------------------------------------------------------------
Call(c) ==
  \/ \E m \in Methods : Admit(c, m) \/ Refuse(c, m)
  \/ \E m \in Unlimited : AdmitUnlimited(c, m)
  \/ \E l \in Latencies : PostProcess(c, l)
  \/ ReturnUnlimited(c)
  \/ ReturnRefused(c)

Collect == \E m \in Methods : CalculateTailLatency95th(m) \/ SaveMetrics(m)

Next ==
  \/ Tick
  \/ \E c \in Calls : Call(c)
  \/ StartCollection
  \/ Collect
  \/ \E m \in Methods, l \in RateLimits : SetRateLimit(m, l)

Spec == Init /\ [][Next]_vars

\* Time passes, and a refused call returns at once.
FairSpec == Spec /\ WF_vars(Tick) /\ \A c \in Calls : WF_vars(ReturnRefused(c))
-----------------------------------------------------------------------------
TypeOK ==
  /\ tokens \in [Methods -> 0..MaxTokens] /\ rate \in [Methods -> 0..MaxRate]
  /\ since \in [Methods -> 0..Full]
  /\ goodput \in [Methods -> Nat] /\ history \in [Methods -> Seq(Latencies)]
  /\ current \in [Methods -> Nat] /\ tail \in [Methods -> Latencies]
  /\ pc \in [Calls -> {"idle", "handling", "refused"}]
  /\ method \in [Calls -> Methods \union Unlimited \union {NoMethod}]
  /\ \A c \in Calls : pc[c] = "idle" <=> method[c] = NoMethod
  /\ toCollect \subseteq Methods /\ saving \in toCollect \union {NoMethod}

WithinSlo(m) == Cardinality({j \in DOMAIN history[m] : history[m][j] <= Slo[m]})

\* The goodput and the tail latency of a report are of the same calls, but for those that
\* returned between the collector's two steps: these count for the goodput of the report being
\* made and for the tail latency of the next, and no call counts twice.
MeasuredAlike ==
  \A m \in Methods :
    IF saving = m THEN WithinSlo(m) <= goodput[m] ELSE goodput[m] <= WithinSlo(m)

\* Whatever rates the agent sets, and whenever it sets them, no stretch of time lets in more
\* calls of a method than MaxRate allows it and two full buckets: a bucket that was emptied
\* at a low rate is credited the time since at the rate in force when it is next asked.
Bucket == INSTANCE TokenBucket WITH
  Capacity <- 2 * Full,
  Rate <- MaxRate,
  Cost <- Hz,
  level <- [m \in Methods |-> Hz * tokens[m] + Lesser(MaxRate * since[m], Full)],
  inside <- [m \in Methods |-> {c \in Calls : pc[c] = "handling" /\ method[c] = m}]
BucketSpec == Bucket!Spec

\* A method that the agent leaves at a rate of one or more, and that keeps refusing calls,
\* keeps admitting some: asking often does not cost the bucket its fraction of a token.
NotStarved ==
  \A m \in Methods :
    <>[](rate[m] >= 1) /\ []<>(\E c \in Calls : pc[c] = "refused" /\ method[c] = m)
      => []<>(\E c \in Calls : pc[c] = "handling" /\ method[c] = m)
=============================================================================
