---------------------------- MODULE TopDownProofs ----------------------------
(***************************************************************************)
(* Proofs about TopDown, for any methods, calls, rates and clock.          *)
(***************************************************************************)
EXTENDS TopDown, FiniteSetTheorems, TLAPS

-----------------------------------------------------------------------------
(* The bucket implements TokenBucket: products and quotients first.        *)

LEMMA ProductType == ASSUME NEW a \in Nat, NEW b \in Nat PROVE a * b \in Nat
  OBVIOUS

LEMMA ProductGrows ==
  ASSUME NEW a \in Nat, NEW b \in Nat, NEW c \in Nat, a <= b
  PROVE  c * a <= c * b /\ a * c <= b * c /\ a * c = c * a
  <1>1. PICK d \in Nat : b = a + d
    <2>1. b - a \in Nat /\ b = a + (b - a)
      OBVIOUS
    <2> QED
      BY <2>1
  <1>2. c * b = c * a + c * d /\ c * d \in Nat /\ c * a \in Nat
    BY <1>1, ProductType
  <1>3. a * c = c * a /\ b * c = c * b
    OBVIOUS
  <1> QED
    BY <1>2, <1>3

LEMMA Quotient ==
  ASSUME NEW p \in Nat, NEW h \in Nat \ {0}
  PROVE  p \div h \in Nat /\ h * (p \div h) <= p
  OBVIOUS

BucketInv ==
  /\ tokens \in [Methods -> 0..MaxTokens] /\ rate \in [Methods -> 0..MaxRate]
  /\ since \in [Methods -> 0..Full]
  /\ pc \in [Calls -> {"idle", "handling", "refused"}]
  /\ method \in [Calls -> Methods \union Unlimited \union {NoMethod}]

\* The level of TokenBucket as TopDown has it, of a method and of numbers.
Credit(s) == Lesser(MaxRate * s, Full)
Level(k, s) == Hz * k + Credit(s)

Inside(m) == {c \in Calls : pc[c] = "handling" /\ method[c] = m}

LEMMA Constants ==
  /\ MaxTokens \in Nat \ {0} /\ Hz \in Nat \ {0} /\ MaxRate \in Nat
  /\ Full \in Nat /\ Full = Hz * MaxTokens /\ Hz <= Full
  <1>1. MaxTokens \in Nat \ {0} /\ Hz \in Nat \ {0} /\ MaxRate \in Nat
    BY TopDownAssumption
  <1>2. Full \in Nat /\ Full = Hz * MaxTokens
    BY <1>1, ProductType DEF Full
  <1>3. Hz * 1 <= Hz * MaxTokens /\ Hz * 1 = Hz
    BY <1>1, ProductGrows
  <1> QED
    BY <1>1, <1>2, <1>3

LEMMA CreditType ==
  ASSUME NEW s \in Nat
  PROVE  Credit(s) \in 0..Full /\ MaxRate * s \in Nat
  BY Constants, ProductType DEF Credit, Lesser

LEMMA LevelType ==
  ASSUME NEW k \in 0..MaxTokens, NEW s \in 0..Full
  PROVE  Level(k, s) \in 0..(2 * Full) /\ Hz * k \in 0..Full
  <1>1. Hz * k \in 0..Full
    BY Constants, ProductType, ProductGrows
  <1>2. Credit(s) \in 0..Full
    BY Constants, CreditType
  <1> QED
    BY <1>1, <1>2, Constants DEF Level

\* A tick credits at most MaxRate.
LEMMA TickLevel ==
  ASSUME NEW k \in 0..MaxTokens, NEW s \in 0..Full
  PROVE  Level(k, Lesser(s + 1, Full)) <= Level(k, s) + MaxRate
  <1>1. CASE s + 1 <= Full
    <2>1. MaxRate * (s + 1) = MaxRate * s + MaxRate /\ MaxRate * s \in Nat
      BY Constants, ProductType
    <2>2. Lesser(s + 1, Full) = s + 1
      BY <1>1, Constants DEF Lesser
    <2>3. Credit(s + 1) <= Credit(s) + MaxRate
      BY <2>1, Constants DEF Credit, Lesser
    <2>4. Credit(s) \in Int /\ Credit(s + 1) \in Int /\ Hz * k \in Int
      BY Constants, CreditType, LevelType
    <2> QED
      BY <2>2, <2>3, <2>4, Constants DEF Level
  <1>2. CASE s = Full
    <2>1. Lesser(s + 1, Full) = s
      BY <1>2, Constants DEF Lesser
    <2>2. Level(k, s) \in Nat
      BY Constants, LevelType
    <2> QED
      BY <2>1, <2>2, Constants
  <1> QED
    BY <1>1, <1>2, Constants

\* A call that is let in pays for itself, at whatever rate the bucket is refilled now.
LEMMA EnterLevel ==
  ASSUME NEW k \in 0..MaxTokens, NEW s \in 0..Full, NEW r \in 0..MaxRate,
         NEW q \in Nat, q = (s * r) \div Hz,
         NEW n \in 0..MaxTokens, n = Lesser(k + q, MaxTokens), n > 0
  PROVE  Level(n - 1, IF q > 0 THEN 0 ELSE s) <= Level(k, s) - Hz
  <1> USE Constants
  <1>1. n - 1 \in 0..MaxTokens /\ Hz * n = Hz * (n - 1) + Hz
    OBVIOUS
  <1>2. Hz * k \in 0..Full /\ Hz * (n - 1) \in 0..Full /\ Hz * n \in 0..Full
    BY <1>1, LevelType
  <1>3. Credit(s) \in 0..Full /\ Credit(0) = 0
    BY CreditType DEF Credit, Lesser
  <1>4. CASE q = 0
    <2>1. n = k
      BY <1>4 DEF Lesser
    <2> QED
      BY <1>1, <1>2, <1>3, <1>4, <2>1 DEF Level
  <1>5. CASE q > 0
    <2>1. Hz * q <= s * r /\ s * r \in Nat
      BY ProductType, Quotient
    <2>2. s * r <= MaxRate * s /\ MaxRate * s \in Nat
      BY ProductType, ProductGrows
    <2>3. Hz * q \in Nat /\ Hz * q <= MaxRate * s
      BY <2>1, <2>2, ProductType
    <2>4. Hz * n <= Hz * k + Hz * q
      <3>1. n <= k + q /\ k + q \in Nat
        BY DEF Lesser
      <3>2. Hz * (k + q) = Hz * k + Hz * q
        OBVIOUS
      <3> QED
        BY <3>1, <3>2, ProductGrows
    <2>5. Hz * n <= Hz * k + Credit(s)
      BY <1>2, <2>2, <2>3, <2>4 DEF Credit, Lesser
    <2> QED
      BY <1>1, <1>2, <1>3, <1>5, <2>5 DEF Level
  <1> QED
    BY <1>4, <1>5

LEMMA RefillType ==
  ASSUME BucketInv, NEW m \in Methods
  PROVE  /\ tokens[m] \in 0..MaxTokens /\ rate[m] \in 0..MaxRate /\ since[m] \in 0..Full
         /\ Refill(m) \in Nat /\ Refill(m) = (since[m] * rate[m]) \div Hz
         /\ Refilled(m) \in 0..MaxTokens /\ Refilled(m) = Lesser(tokens[m] + Refill(m), MaxTokens)
  <1>1. /\ tokens[m] \in 0..MaxTokens /\ rate[m] \in 0..MaxRate /\ since[m] \in 0..Full
    BY DEF BucketInv
  <1>2. since[m] * rate[m] \in Nat
    BY <1>1, Constants, ProductType
  <1>3. Refill(m) \in Nat /\ Refill(m) = (since[m] * rate[m]) \div Hz
    BY <1>2, Constants, Quotient DEF Refill
  <1>4. /\ Refilled(m) \in 0..MaxTokens
        /\ Refilled(m) = Lesser(tokens[m] + Refill(m), MaxTokens)
    BY <1>1, <1>3, Constants DEF Refilled, Lesser
  <1> QED
    BY <1>1, <1>3, <1>4

LEMMA BucketInit == Init => BucketInv
  BY Constants, TopDownAssumption DEF Init, BucketInv

LEMMA BucketInductive ==
  ASSUME BucketInv, [Next]_vars
  PROVE  BucketInv'
  <1>1. CASE UNCHANGED vars
    BY <1>1 DEF vars, bucketVars, callVars, BucketInv
  <1>2. CASE Tick
    <2>1. \A m \in Methods : Lesser(since[m] + 1, Full) \in 0..Full
      BY Constants DEF Lesser, BucketInv
    <2> QED
      BY <1>2, <2>1 DEF Tick, callVars, BucketInv
  <1>3. ASSUME NEW c \in Calls, NEW m \in Methods, Admit(c, m) PROVE BucketInv'
    <2>1. Refilled(m) - 1 \in 0..MaxTokens
      BY <1>3, RefillType, Constants DEF Admit
    <2>2. SinceRefill(m) \in 0..Full
      BY RefillType, Constants DEF SinceRefill
    <2> QED
      BY <1>3, <2>1, <2>2 DEF Admit, Begin, BucketInv
  <1>4. ASSUME NEW c \in Calls, NEW m \in Methods, Refuse(c, m) PROVE BucketInv'
    <2>1. SinceRefill(m) \in 0..Full
      BY RefillType, Constants DEF SinceRefill
    <2> QED
      BY <1>4, <2>1 DEF Refuse, Begin, BucketInv
  <1>5. ASSUME NEW c \in Calls, NEW m \in Unlimited, AdmitUnlimited(c, m) PROVE BucketInv'
    BY <1>5 DEF AdmitUnlimited, Begin, bucketVars, BucketInv
  <1>9. ASSUME NEW c \in Calls, NEW l \in Latencies, PostProcess(c, l) PROVE BucketInv'
    BY <1>9 DEF PostProcess, End, bucketVars, BucketInv
  <1>10. ASSUME NEW c \in Calls, ReturnUnlimited(c) \/ ReturnRefused(c) PROVE BucketInv'
    BY <1>10 DEF ReturnUnlimited, ReturnRefused, End, bucketVars, BucketInv
  <1>6. CASE StartCollection \/ Collect
    BY <1>6 DEF StartCollection, Collect, CalculateTailLatency95th, SaveMetrics, bucketVars,
       callVars, BucketInv
  <1>7. ASSUME NEW m \in Methods, NEW l \in RateLimits, SetRateLimit(m, l) PROVE BucketInv'
    <2>1. l \div 10 \in 0..MaxRate
      BY TopDownAssumption
    <2> QED
      BY <1>7, <2>1 DEF SetRateLimit, callVars, BucketInv
  <1>8. ASSUME NEW c \in Calls, Call(c) PROVE BucketInv'
    BY <1>3, <1>4, <1>5, <1>8, <1>9, <1>10 DEF Call
  <1> QED
    BY <1>1, <1>2, <1>6, <1>7, <1>8 DEF Next

-----------------------------------------------------------------------------
levels == [m \in Methods |-> Hz * tokens[m] + Lesser(MaxRate * since[m], Full)]
insides == [m \in Methods |-> {c \in Calls : pc[c] = "handling" /\ method[c] = m}]

LEMMA LevelsRange ==
  ASSUME NEW t \in [Methods -> 0..MaxTokens], NEW s \in [Methods -> 0..Full]
  PROVE  [m \in Methods |-> Level(t[m], s[m])] \in [Methods -> 0..(2 * Full)]
  BY LevelType

LEMMA LevelsType ==
  ASSUME BucketInv
  PROVE  /\ levels = [m \in Methods |-> Level(tokens[m], since[m])]
         /\ levels \in [Methods -> 0..(2 * Full)]
  <1>1. levels = [m \in Methods |-> Level(tokens[m], since[m])]
    BY DEF levels, Level, Credit
  <1>2. \A m \in Methods : Level(tokens[m], since[m]) \in 0..(2 * Full)
    BY RefillType, LevelType
  <1> QED
    BY <1>1, <1>2

LEMMA TickRefines ==
  ASSUME BucketInv, BucketInv', Tick
  PROVE  /\ levels' \in [Methods -> 0..(2 * Full)]
         /\ \A m \in Methods : levels'[m] <= levels[m] + MaxRate
         /\ insides' = insides
  <1>1. levels' = [m \in Methods |-> Level(tokens'[m], since'[m])]
    BY DEF levels, Level, Credit
  <1>2. levels' \in [Methods -> 0..(2 * Full)]
    BY <1>1, LevelsRange DEF BucketInv
  <1>3. \A m \in Methods : tokens'[m] = tokens[m] /\ since'[m] = Lesser(since[m] + 1, Full)
    BY DEF Tick
  <1>4. \A m \in Methods : levels'[m] <= levels[m] + MaxRate
    BY <1>1, <1>3, LevelsType, RefillType, TickLevel
  <1>5. insides' = insides
    BY DEF Tick, insides, callVars
  <1> QED
    BY <1>2, <1>4, <1>5

LEMMA AdmitRefines ==
  ASSUME BucketInv, BucketInv', NEW c \in Calls, NEW m \in Methods, Admit(c, m)
  PROVE  /\ levels[m] >= Hz
         /\ \E l \in 0..(levels[m] - Hz) : levels' = [levels EXCEPT ![m] = l]
         /\ insides' = [insides EXCEPT ![m] = @ \union {c}]
  <1> DEFINE l == Level(Refilled(m) - 1, SinceRefill(m))
  <1>1. /\ tokens' = [tokens EXCEPT ![m] = Refilled(m) - 1]
        /\ since' = [since EXCEPT ![m] = SinceRefill(m)]
        /\ Refilled(m) > 0
        /\ pc[c] = "idle" /\ pc' = [pc EXCEPT ![c] = "handling"]
        /\ method' = [method EXCEPT ![c] = m]
    BY DEF Admit, Begin
  <1>2. levels[m] = Level(tokens[m], since[m]) /\ levels[m] \in Nat
    BY LevelsType
  <1>3. SinceRefill(m) = IF Refill(m) > 0 THEN 0 ELSE since[m]
    BY DEF SinceRefill
  <1>4. l <= levels[m] - Hz
    BY <1>1, <1>2, <1>3, RefillType, EnterLevel
  <1>5. /\ levels = [g \in Methods |-> Level(tokens[g], since[g])]
        /\ levels' = [g \in Methods |-> Level(tokens'[g], since'[g])]
    BY DEF levels, Level, Credit
  <1>a. levels' \in [Methods -> 0..(2 * Full)]
    BY <1>5, LevelsRange DEF BucketInv
  <1>6. \A g \in Methods : levels'[g] = IF g = m THEN l ELSE levels[g]
    BY <1>1, <1>5 DEF BucketInv
  <1> HIDE DEF l
  <1>7. l \in Nat
    BY <1>a, <1>6
  <1>8. levels' = [levels EXCEPT ![m] = l]
    BY <1>5, <1>6
  <1>9. l \in 0..(levels[m] - Hz) /\ levels[m] >= Hz
    BY <1>2, <1>4, <1>7, Constants
  <1>10. insides' = [insides EXCEPT ![m] = @ \union {c}]
    <2>1. \A g \in Methods :
            {d \in Calls : pc'[d] = "handling" /\ method'[d] = g}
              = IF g = m THEN insides[m] \union {c} ELSE insides[g]
      BY <1>1 DEF insides, BucketInv
    <2> QED
      BY <2>1 DEF insides
  <1> QED
    BY <1>8, <1>9, <1>10

LEMMA RefuseRefines ==
  ASSUME BucketInv, NEW c \in Calls, NEW m \in Methods, Refuse(c, m)
  PROVE  levels' = levels /\ insides' = insides
  <1>1. /\ Refilled(m) = 0 /\ since' = [since EXCEPT ![m] = SinceRefill(m)]
        /\ tokens' = tokens
        /\ pc[c] = "idle" /\ pc' = [pc EXCEPT ![c] = "refused"]
        /\ method' = [method EXCEPT ![c] = m]
    BY DEF Refuse, Begin
  <1>2. Refill(m) = 0
    BY <1>1, RefillType, Constants DEF Lesser
  <1>3. since' = since
    BY <1>1, <1>2 DEF SinceRefill, BucketInv
  <1>4. \A g \in Methods :
          {d \in Calls : pc'[d] = "handling" /\ method'[d] = g} = insides[g]
    BY <1>1 DEF insides, BucketInv
  <1> QED
    BY <1>1, <1>3, <1>4 DEF levels, insides

\* A call that ends leaves, if it was let in by a bucket.
LEMMA LeaveRefines ==
  ASSUME BucketInv, NEW c \in Calls,
         (\E l \in Latencies : PostProcess(c, l)) \/ ReturnUnlimited(c) \/ ReturnRefused(c)
  PROVE  /\ levels' = levels
         /\ \/ insides' = insides
            \/ \E m \in Methods : c \in insides[m] /\ insides' = [insides EXCEPT ![m] = @ \ {c}]
  <1>1. /\ levels' = levels
        /\ pc' = [pc EXCEPT ![c] = "idle"] /\ method' = [method EXCEPT ![c] = NoMethod]
    BY DEF PostProcess, ReturnUnlimited, ReturnRefused, End, bucketVars, levels
  <1>2. NoMethod \notin Methods /\ Methods \intersect Unlimited = {}
    BY TopDownAssumption
  <1>3. CASE pc[c] = "handling" /\ method[c] \in Methods
    <2>1. PICK m \in Methods : m = method[c]
      BY <1>3
    <2>2. c \in insides[m]
      BY <1>3, <2>1 DEF insides
    <2>3. \A g \in Methods :
            {d \in Calls : pc'[d] = "handling" /\ method'[d] = g}
              = IF g = m THEN insides[m] \ {c} ELSE insides[g]
      BY <1>1, <1>3, <2>1 DEF insides, BucketInv
    <2>4. insides' = [insides EXCEPT ![m] = @ \ {c}]
      BY <2>3 DEF insides
    <2> QED
      BY <1>1, <2>2, <2>4
  <1>4. CASE pc[c] # "handling" \/ method[c] \notin Methods
    <2>1. \A g \in Methods :
            {d \in Calls : pc'[d] = "handling" /\ method'[d] = g} = insides[g]
      BY <1>1, <1>2, <1>4 DEF insides, BucketInv
    <2>2. insides' = insides
      BY <2>1 DEF insides
    <2> QED
      BY <1>1, <2>2
  <1> QED
    BY <1>3, <1>4

LEMMA UnlimitedRefines ==
  ASSUME BucketInv, NEW c \in Calls, NEW m \in Unlimited, AdmitUnlimited(c, m)
  PROVE  levels' = levels /\ insides' = insides
  <1>1. /\ UNCHANGED <<tokens, since>>
        /\ pc[c] = "idle" /\ pc' = [pc EXCEPT ![c] = "handling"]
        /\ method' = [method EXCEPT ![c] = m]
    BY DEF AdmitUnlimited, Begin, bucketVars
  <1>2. m \notin Methods
    BY TopDownAssumption
  <1>3. \A g \in Methods :
          {d \in Calls : pc'[d] = "handling" /\ method'[d] = g} = insides[g]
    BY <1>1, <1>2 DEF insides, BucketInv
  <1> QED
    BY <1>1, <1>3 DEF levels, insides

LEMMA StepRefines ==
  ASSUME BucketInv, BucketInv', [Next]_vars
  PROVE  [Bucket!Next]_<<levels, insides>>
  <1> USE DEF Bucket!Next
  <1>1. CASE UNCHANGED vars
    BY <1>1 DEF vars, bucketVars, callVars, levels, insides
  <1>2. CASE Tick
    <2>1. Bucket!Tick
      BY <1>2, TickRefines DEF Bucket!Tick, levels, insides
    <2> QED
      BY <2>1
  <1>3. ASSUME NEW c \in Calls, NEW m \in Methods, Admit(c, m)
        PROVE  [Bucket!Next]_<<levels, insides>>
    <2>1. Bucket!Enter(m, c)
      BY <1>3, AdmitRefines DEF Bucket!Enter, levels, insides
    <2> QED
      BY <2>1
  <1>4. ASSUME NEW c \in Calls, NEW m \in Methods, Refuse(c, m)
        PROVE  [Bucket!Next]_<<levels, insides>>
    BY <1>4, RefuseRefines
  <1>5. ASSUME NEW c \in Calls, NEW m \in Unlimited, AdmitUnlimited(c, m)
        PROVE  [Bucket!Next]_<<levels, insides>>
    BY <1>5, UnlimitedRefines
  <1>6. ASSUME NEW c \in Calls,
               (\E l \in Latencies : PostProcess(c, l)) \/ ReturnUnlimited(c) \/ ReturnRefused(c)
        PROVE  [Bucket!Next]_<<levels, insides>>
    <2>1. CASE insides' = insides
      BY <1>6, <2>1, LeaveRefines
    <2>2. CASE \E m \in Methods :
                 c \in insides[m] /\ insides' = [insides EXCEPT ![m] = @ \ {c}]
      <3>1. \E m \in Methods : Bucket!Leave(m, c)
        BY <1>6, <2>2, LeaveRefines DEF Bucket!Leave, levels, insides
      <3> QED
        BY <3>1
    <2> QED
      BY <1>6, <2>1, <2>2, LeaveRefines
  <1>7. CASE StartCollection \/ Collect
    BY <1>7 DEF StartCollection, Collect, CalculateTailLatency95th, SaveMetrics, bucketVars,
       callVars, levels, insides
  <1>8. CASE \E m \in Methods, l \in RateLimits : SetRateLimit(m, l)
    BY <1>8 DEF SetRateLimit, callVars, levels, insides
  <1> QED
    BY <1>1, <1>2, <1>3, <1>4, <1>5, <1>6, <1>7, <1>8 DEF Next, Call

\* The bucket of a method keeps the promise of TokenBucket with MaxRate and twice its size,
\* whatever rates the agent sets and whenever it sets them.
THEOREM ImplementsBucket == Spec => BucketSpec
  <1>1. Init => BucketInv
    BY BucketInit
  <1>2. Init => Bucket!Init
    <2> SUFFICES ASSUME Init PROVE Bucket!Init
      OBVIOUS
    <2>1. levels \in [Methods -> 0..(2 * Full)]
      BY <1>1, LevelsType
    <2>2. insides = [m \in Methods |-> {}]
      BY DEF Init, insides
    <2> QED
      BY <2>1, <2>2 DEF Bucket!Init, levels, insides
  <1>3. BucketInv /\ [Next]_vars => BucketInv'
    BY BucketInductive
  <1>4. BucketInv /\ BucketInv' /\ [Next]_vars => [Bucket!Next]_<<levels, insides>>
    BY StepRefines
  <1> QED
    BY <1>1, <1>2, <1>3, <1>4, PTL DEF Spec, BucketSpec, Bucket!Spec, levels, insides
-----------------------------------------------------------------------------
(* MeasuredAlike.                                                          *)

CountInv ==
  /\ goodput \in [Methods -> Nat] /\ history \in [Methods -> Seq(Latencies)]
  /\ saving \in Methods \union {NoMethod}
  /\ MeasuredAlike

Within(s, k) == {j \in DOMAIN s : s[j] <= k}

LEMMA WithinFinite ==
  ASSUME NEW s \in Seq(Latencies), NEW k \in Nat
  PROVE  IsFiniteSet(Within(s, k)) /\ Cardinality(Within(s, k)) \in Nat
  <1>1. Within(s, k) \subseteq 1..Len(s) /\ Len(s) \in Nat
    BY DEF Within
  <1>2. IsFiniteSet(1..Len(s))
    BY <1>1, FS_Interval
  <1> QED
    BY <1>1, <1>2, FS_Subset, FS_CardinalityType

\* A latency that is stored counts if it is within the objective.
LEMMA WithinAppend ==
  ASSUME NEW s \in Seq(Latencies), NEW k \in Nat, NEW l \in Latencies
  PROVE  Cardinality(Within(Append(s, l), k))
           = Cardinality(Within(s, k)) + (IF l <= k THEN 1 ELSE 0)
  <1>1. /\ DOMAIN s = 1..Len(s) /\ Len(s) \in Nat
        /\ DOMAIN Append(s, l) = 1..(Len(s) + 1)
        /\ Append(s, l)[Len(s) + 1] = l
        /\ \A j \in 1..Len(s) : Append(s, l)[j] = s[j]
    OBVIOUS
  <1>2. Within(Append(s, l), k)
          = IF l <= k THEN Within(s, k) \union {Len(s) + 1} ELSE Within(s, k)
    BY <1>1 DEF Within
  <1>3. Len(s) + 1 \notin Within(s, k)
    BY <1>1 DEF Within
  <1>4. /\ IsFiniteSet(Within(s, k)) /\ Cardinality(Within(s, k)) \in Nat
        /\ k \in Nat /\ l \in Nat
    BY WithinFinite, TopDownAssumption
  <1>5. Cardinality(Within(s, k) \union {Len(s) + 1}) = Cardinality(Within(s, k)) + 1
    BY <1>3, <1>4, FS_AddElement
  <1> QED
    BY <1>2, <1>4, <1>5

LEMMA NoneWithin == ASSUME NEW k PROVE Cardinality(Within(<<>>, k)) = 0
  <1>1. Within(<<>>, k) = {}
    BY DEF Within
  <1> QED
    BY <1>1, FS_EmptySet

LEMMA CountInductive ==
  ASSUME CountInv, [Next]_vars
  PROVE  CountInv'
  <1> DEFINE Alike(m) == LET n == Cardinality(Within(history[m], Slo[m])) IN
                         IF saving = m THEN n <= goodput[m] ELSE goodput[m] <= n
  <1>1. \A m \in Methods : /\ Slo[m] \in Nat /\ NoMethod # m
                           /\ goodput[m] \in Nat /\ history[m] \in Seq(Latencies)
    BY TopDownAssumption DEF CountInv
  <1>2. \A m \in Methods : Alike(m)
    BY DEF CountInv, MeasuredAlike, WithinSlo, Within
  <1>3. ASSUME /\ goodput' \in [Methods -> Nat] /\ history' \in [Methods -> Seq(Latencies)]
               /\ saving' \in Methods \union {NoMethod},
               \A m \in Methods : Alike(m)'
        PROVE  CountInv'
    BY <1>3 DEF CountInv, MeasuredAlike, WithinSlo, Within
  <1>4. CASE UNCHANGED <<countVars, saving>>
    BY <1>4 DEF CountInv, MeasuredAlike, WithinSlo, countVars
  <1>5. ASSUME NEW c \in Calls, NEW l \in Latencies, PostProcess(c, l) PROVE CountInv'
    <2>1. PICK m \in Methods : m = method[c]
      BY <1>5 DEF PostProcess
    <2>2. /\ goodput' = IF l <= Slo[m] THEN [goodput EXCEPT ![m] = @ + 1] ELSE goodput
          /\ history' = [history EXCEPT ![m] = Append(@, l)]
          /\ saving' = saving
      BY <1>5, <2>1 DEF PostProcess, collectVars
    <2>3. Append(history[m], l) \in Seq(Latencies) /\ history[m] \in Seq(Latencies)
      BY <1>1
    <2>4. /\ goodput' \in [Methods -> Nat] /\ history' \in [Methods -> Seq(Latencies)]
          /\ saving' \in Methods \union {NoMethod}
      BY <2>2, <2>3 DEF CountInv
    <2>5. /\ goodput'[m] = goodput[m] + (IF l <= Slo[m] THEN 1 ELSE 0)
          /\ history'[m] = Append(history[m], l)
          /\ \A g \in Methods \ {m} : goodput'[g] = goodput[g] /\ history'[g] = history[g]
      BY <1>1, <2>2 DEF CountInv
    <2>6. /\ Cardinality(Within(history'[m], Slo[m]))
               = Cardinality(Within(history[m], Slo[m])) + (IF l <= Slo[m] THEN 1 ELSE 0)
          /\ Cardinality(Within(history[m], Slo[m])) \in Nat
      <3>1. PICK s \in Seq(Latencies), k \in Nat : s = history[m] /\ k = Slo[m]
        BY <1>1
      <3>2. /\ Cardinality(Within(Append(s, l), k))
                 = Cardinality(Within(s, k)) + (IF l <= k THEN 1 ELSE 0)
            /\ Cardinality(Within(s, k)) \in Nat
        BY WithinAppend, WithinFinite
      <3> QED
        BY <2>5, <3>1, <3>2
    <2>7. Alike(m)'
      BY <1>1, <1>2, <2>2, <2>5, <2>6
    <2>8. \A g \in Methods : Alike(g)'
      BY <1>2, <2>2, <2>5, <2>7
    <2> QED
      BY <1>3, <2>4, <2>8
  <1>6. ASSUME NEW m \in Methods, CalculateTailLatency95th(m) PROVE CountInv'
    <2>1. /\ saving = NoMethod /\ saving' = m /\ goodput' = goodput
          /\ history' = [history EXCEPT ![m] = <<>>]
      BY <1>6 DEF CalculateTailLatency95th
    <2>2. /\ goodput' \in [Methods -> Nat] /\ history' \in [Methods -> Seq(Latencies)]
          /\ saving' \in Methods \union {NoMethod}
      BY <2>1 DEF CountInv
    <2>3. history'[m] = <<>> /\ \A g \in Methods \ {m} : history'[g] = history[g]
      BY <2>1 DEF CountInv
    <2>4. Alike(m)'
      BY <1>1, <2>1, <2>3, NoneWithin
    <2>5. \A g \in Methods : Alike(g)'
      BY <1>1, <1>2, <2>1, <2>3, <2>4
    <2> QED
      BY <1>3, <2>2, <2>5
  <1>7. ASSUME NEW m \in Methods, SaveMetrics(m) PROVE CountInv'
    <2>1. /\ saving = m /\ saving' = NoMethod /\ history' = history
          /\ goodput' = [goodput EXCEPT ![m] = 0]
      BY <1>7 DEF SaveMetrics
    <2>2. /\ goodput' \in [Methods -> Nat] /\ history' \in [Methods -> Seq(Latencies)]
          /\ saving' \in Methods \union {NoMethod}
      BY <2>1 DEF CountInv
    <2>3. goodput'[m] = 0 /\ \A g \in Methods \ {m} : goodput'[g] = goodput[g]
      BY <2>1 DEF CountInv
    <2>4. Alike(m)'
      BY <1>1, <2>1, <2>3, WithinFinite
    <2>5. \A g \in Methods : Alike(g)'
      BY <1>1, <1>2, <2>1, <2>3, <2>4
    <2> QED
      BY <1>3, <2>2, <2>5
  <1> QED
    BY <1>4, <1>5, <1>6, <1>7
    DEF Next, Call, Tick, Admit, Refuse, AdmitUnlimited, ReturnUnlimited, ReturnRefused,
        StartCollection, Collect, SetRateLimit, vars, collectVars

LEMMA CountInit == Init => CountInv
  <1> SUFFICES ASSUME Init PROVE CountInv
    OBVIOUS
  <1>1. \A m \in Methods : WithinSlo(m) = Cardinality({})
    BY DEF Init, WithinSlo
  <1>2. /\ goodput \in [Methods -> Nat] /\ history \in [Methods -> Seq(Latencies)]
        /\ saving \in Methods \union {NoMethod}
    BY DEF Init
  <1>3. MeasuredAlike
    BY <1>1, FS_EmptySet, TopDownAssumption DEF Init, MeasuredAlike
  <1> QED
    BY <1>2, <1>3 DEF CountInv

\* No call returned is counted twice, or in the goodput of one report and the latency of an
\* earlier one, although the collector holds the mutex for the first of its two steps only.
THEOREM ReportsMeasuredAlike == Spec => []MeasuredAlike
  <1>1. Init => CountInv
    BY CountInit
  <1>2. CountInv /\ [Next]_vars => CountInv'
    BY CountInductive
  <1>3. CountInv => MeasuredAlike
    BY DEF CountInv
  <1> QED
    BY <1>1, <1>2, <1>3, PTL DEF Spec

-----------------------------------------------------------------------------
(* TypeOK: the tail latency is one of those stored, for the position that   *)
(* is looked up is one of the sorted history.                              *)

LEMMA LeastNat ==
  ASSUME NEW T, T \subseteq Nat, T # {}
  PROVE  \E x \in T : \A y \in T : x <= y
  <1>1. IsWellFoundedOn(OpToRel(<, Nat), Nat)
    BY NatLessThanWellFounded
  <1>2. PICK x \in T : \A y \in T : ~ (<<y, x>> \in OpToRel(<, Nat))
    BY <1>1, WFMin, Zenon
  <1>3. \A y \in T : ~(y < x)
    BY <1>2 DEF OpToRel
  <1> QED
    BY <1>3

\* A finite set of positions has one whose value no other exceeds.
LEMMA GreatestAt ==
  ASSUME NEW J, IsFiniteSet(J), J # {}, NEW f, \A j \in J : f[j] \in Nat
  PROVE  \E j \in J : \A k \in J : f[k] <= f[j]
  <1> DEFINE Over(j) == {k \in J : f[j] < f[k]}
             T == {Cardinality(Over(j)) : j \in J}
  <1>1. \A j : IsFiniteSet(Over(j)) /\ Cardinality(Over(j)) \in Nat
    BY FS_Subset, FS_CardinalityType
  <1>2. T \subseteq Nat /\ T # {}
    BY <1>1
  <1>3. PICK n \in T : \A y \in T : n <= y
    BY <1>2, LeastNat
  <1>4. PICK j \in J : n = Cardinality(Over(j))
    BY <1>3
  <1>5. ASSUME NEW k \in J, f[j] < f[k] PROVE FALSE
    <2>1. Over(k) \subseteq Over(j) /\ k \in Over(j) /\ k \notin Over(k)
      BY <1>5
    <2>2. Cardinality(Over(k)) < Cardinality(Over(j))
      <3>1. Over(k) # Over(j) /\ Over(k) \in SUBSET Over(j)
        BY <2>1
      <3> HIDE DEF Over
      <3>2. /\ Cardinality(Over(k)) <= Cardinality(Over(j))
            /\ Cardinality(Over(j)) = Cardinality(Over(k)) => Over(j) = Over(k)
        BY <1>1, <3>1, FS_Subset
      <3> QED
        BY <1>1, <3>1, <3>2
    <2>3. n <= Cardinality(Over(k))
      BY <1>3
    <2> HIDE DEF Over
    <2> QED
      BY <1>1, <1>4, <2>2, <2>3
  <1> QED
    BY <1>5

\* Whatever the history, Ranked finds a latency for each of its positions.
LEMMA RankedType ==
  ASSUME NEW S, S \subseteq Nat, NEW s \in Seq(S), NEW i \in Nat, i < Len(s)
  PROVE  Ranked(s, i) \in S
  <1> DEFINE D == DOMAIN s
             Below(l) == {j \in D : s[j] < l}
             UpTo(l) == {j \in D : s[j] <= l}
             A == {l \in Range(s) : Cardinality(UpTo(l)) > i}
  <1>1. /\ D = 1..Len(s) /\ Len(s) \in Nat /\ D # {}
        /\ IsFiniteSet(D) /\ Cardinality(D) = Len(s)
        /\ \A j \in D : s[j] \in S /\ s[j] \in Nat /\ s[j] \in Range(s)
    <2>1. D = 1..Len(s) /\ Len(s) \in Nat
      OBVIOUS
    <2>2. IsFiniteSet(D) /\ Cardinality(D) = Len(s)
      <3> HIDE DEF D
      <3> QED
        BY <2>1, FS_Interval
    <2>3. \A j \in D : s[j] \in S /\ s[j] \in Nat
      <3>1. \A j \in 1..Len(s) : s[j] \in S
        OBVIOUS
      <3> QED
        BY <2>1, <3>1
    <2>4. \A j \in D : s[j] \in Range(s)
      BY DEF Range
    <2>5. D # {}
      BY <2>1
    <2> HIDE DEF D
    <2> QED
      BY <2>1, <2>2, <2>3, <2>4, <2>5
  <1>2. Range(s) \subseteq S
    BY <1>1 DEF Range
  <1> HIDE DEF D
  <1>3. \A l : /\ IsFiniteSet(Below(l)) /\ Cardinality(Below(l)) \in Nat
               /\ IsFiniteSet(UpTo(l)) /\ Cardinality(UpTo(l)) \in Nat
    BY <1>1, FS_Subset, FS_CardinalityType
  <1>4. A # {}
    <2>1. PICK j \in D : \A k \in D : s[k] <= s[j]
      BY <1>1, GreatestAt
    <2>2. UpTo(s[j]) = D
      BY <2>1
    <2> QED
      BY <1>1, <2>2
  <1>5. PICK l \in A : \A k \in A : l <= k
    BY <1>2, <1>4, LeastNat
  <1>6. ASSUME Cardinality(Below(l)) > i PROVE FALSE
    <2>1. Below(l) # {}
      <3>1. Cardinality(Below(l)) # 0
        BY <1>6
      <3> QED
        BY <3>1, FS_EmptySet
    <2>2. PICK j \in Below(l) : \A k \in Below(l) : s[k] <= s[j]
      <3>1. \A k \in Below(l) : s[k] \in Nat
        BY <1>1
      <3> HIDE DEF Below
      <3> QED
        BY <1>3, <2>1, <3>1, GreatestAt
    <2>3. j \in D /\ s[j] < l /\ l \in Nat
      BY <1>2, <1>5
    <2>4. UpTo(s[j]) = Below(l)
      <3>1. \A k \in D : s[k] <= s[j] => s[k] < l
        BY <1>1, <2>3
      <3>2. \A k \in Below(l) : s[k] <= s[j]
        BY <2>2
      <3> QED
        BY <3>1, <3>2
    <2>5. s[j] \in A
      BY <1>1, <1>6, <2>3, <2>4
    <2>6. l <= s[j]
      BY <1>5, <2>5
    <2> QED
      BY <1>1, <2>3, <2>6
  <1>7. Cardinality(Below(l)) <= i /\ Cardinality(UpTo(l)) > i /\ l \in Range(s)
    <2>1. Cardinality(Below(l)) \in Nat /\ ~(Cardinality(Below(l)) > i)
      BY <1>3, <1>6
    <2>2. Cardinality(UpTo(l)) > i /\ l \in Range(s)
      BY <1>5
    <2> HIDE DEF Below, UpTo
    <2> QED
      BY <2>1, <2>2
  <1>8. /\ Cardinality({j \in DOMAIN s : s[j] < l}) <= i
        /\ Cardinality({j \in DOMAIN s : s[j] <= l}) > i
    BY <1>7 DEF D
  <1>9. Ranked(s, i) \in Range(s)
    BY <1>7, <1>8 DEF Ranked
  <1> QED
    BY <1>2, <1>9

\* The 95th percentile of a history that is not empty.
LEMMA TailType ==
  ASSUME NEW s \in Seq(Latencies), s # <<>>
  PROVE  Ranked(s, (95 * Len(s)) \div 100) \in Latencies
  <1>1. Len(s) \in Nat \ {0}
    OBVIOUS
  <1>2. (95 * Len(s)) \div 100 \in Nat /\ (95 * Len(s)) \div 100 < Len(s)
    <2> DEFINE n == Len(s)
    <2> HIDE DEF n
    <2>1. n \in Nat \ {0}
      BY <1>1 DEF n
    <2>2. (95 * n) \div 100 \in Nat /\ (95 * n) \div 100 < n
      BY <2>1
    <2> QED
      BY <2>2 DEF n
  <1>3. Latencies \subseteq Nat
    BY TopDownAssumption
  <1> QED
    BY <1>2, <1>3, RankedType

ReportInv ==
  /\ current \in [Methods -> Nat] /\ tail \in [Methods -> Latencies]
  /\ \A c \in Calls : pc[c] = "idle" <=> method[c] = NoMethod
  /\ toCollect \subseteq Methods /\ saving \in toCollect \union {NoMethod}

LEMMA ReportInductive ==
  ASSUME BucketInv, CountInv, ReportInv, [Next]_vars
  PROVE  ReportInv'
  <1>1. /\ NoMethod \notin Methods /\ NoMethod \notin Unlimited
        /\ \A m \in Methods : goodput[m] \in Nat /\ history[m] \in Seq(Latencies)
    BY TopDownAssumption DEF CountInv
  <1>a. ASSUME NEW c \in Calls, NEW m \in Methods \union Unlimited,
               NEW state \in {"handling", "refused"}, Begin(c, m, state),
               UNCHANGED <<reportVars, collectVars>>
        PROVE  ReportInv'
    <2>1. UNCHANGED <<current, tail, toCollect, saving>>
      BY <1>a DEF reportVars, collectVars
    <2>2. \A d \in Calls : pc'[d] = "idle" <=> method'[d] = NoMethod
      BY <1>1, <1>a DEF Begin, BucketInv, ReportInv
    <2> QED
      BY <2>1, <2>2 DEF ReportInv
  <1>2. ASSUME NEW c \in Calls, NEW m \in Methods, Admit(c, m) \/ Refuse(c, m) PROVE ReportInv'
    BY <1>2, <1>a DEF Admit, Refuse
  <1>3. ASSUME NEW c \in Calls, NEW m \in Unlimited, AdmitUnlimited(c, m) PROVE ReportInv'
    BY <1>3, <1>a DEF AdmitUnlimited
  <1>4. ASSUME NEW c \in Calls,
               (\E l \in Latencies : PostProcess(c, l)) \/ ReturnUnlimited(c) \/ ReturnRefused(c)
        PROVE  ReportInv'
    <2>1. End(c) /\ UNCHANGED <<current, tail, toCollect, saving>>
      BY <1>4 DEF PostProcess, ReturnUnlimited, ReturnRefused, reportVars, collectVars
    <2> QED
      BY <2>1 DEF End, BucketInv, ReportInv
  <1>5. CASE StartCollection
    BY <1>5 DEF StartCollection, ReportInv, reportVars, callVars
  <1>6. ASSUME NEW m \in Methods, CalculateTailLatency95th(m) PROVE ReportInv'
    <2>1. tail' \in [Methods -> Latencies]
      <3>1. CASE history[m] = <<>>
        BY <1>6, <3>1 DEF CalculateTailLatency95th, ReportInv
      <3>2. CASE history[m] # <<>>
        <4> DEFINE l == Ranked(history[m], (95 * Len(history[m])) \div 100)
        <4>1. l \in Latencies
          <5>1. history[m] \in Seq(Latencies)
            BY <1>1
          <5> QED
            BY <3>2, <5>1, TailType
        <4>2. tail' = [tail EXCEPT ![m] = l]
          BY <1>6, <3>2 DEF CalculateTailLatency95th
        <4> HIDE DEF l
        <4> QED
          BY <4>1, <4>2 DEF ReportInv
      <3> QED
        BY <3>1, <3>2
    <2>2. /\ UNCHANGED <<current, pc, method, toCollect>>
          /\ saving' = m /\ m \in toCollect
      BY <1>6 DEF CalculateTailLatency95th, callVars
    <2> QED
      BY <2>1, <2>2 DEF ReportInv
  <1>7. ASSUME NEW m \in Methods, SaveMetrics(m) PROVE ReportInv'
    <2>1. /\ saving' = NoMethod /\ toCollect' = toCollect \ {m}
          /\ current' = [current EXCEPT ![m] = goodput[m]]
          /\ UNCHANGED <<tail, pc, method>>
      BY <1>7 DEF SaveMetrics, callVars
    <2> QED
      BY <1>1, <2>1 DEF ReportInv
  <1>8. CASE Tick \/ (\E m \in Methods, l \in RateLimits : SetRateLimit(m, l)) \/ UNCHANGED vars
    BY <1>8 DEF Tick, SetRateLimit, vars, reportVars, callVars, collectVars, ReportInv
  <1> QED
    BY <1>2, <1>3, <1>4, <1>5, <1>6, <1>7, <1>8 DEF Next, Call, Collect

LEMMA ReportInit == Init => ReportInv
  BY TopDownAssumption DEF Init, ReportInv

\* The types of TopDown; among them, a report's tail latency is one that was measured
\* (topdown.go CalculateTailLatency95th indexes the sorted history within its bounds), and the
\* tokens and the time a bucket is credited for stay within their limits.
THEOREM TopDownTypeCorrect == Spec => []TypeOK
  <1>1. Init => BucketInv /\ CountInv /\ ReportInv
    BY ReportInit, BucketInit, CountInit
  <1>2. BucketInv /\ CountInv /\ ReportInv /\ [Next]_vars => (BucketInv /\ CountInv /\ ReportInv)'
    BY BucketInductive, CountInductive, ReportInductive
  <1>3. BucketInv /\ CountInv /\ ReportInv => TypeOK
    BY DEF BucketInv, CountInv, ReportInv, TypeOK
  <1> QED
    BY <1>1, <1>2, <1>3, PTL DEF Spec
=============================================================================
