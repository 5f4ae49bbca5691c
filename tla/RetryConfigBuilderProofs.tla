------------------------ MODULE RetryConfigBuilderProofs ------------------------
(***************************************************************************)
(* Proofs about RetryConfigBuilder and the wire form of a policy, for any  *)
(* durations, attempts, backoffs and documents: reading and writing are    *)
(* inverse to each other, and build uses the latest value of every field.  *)
(***************************************************************************)
EXTENDS RetryConfigBuilder, SequenceTheorems, TLAPS

\* What a configuration is built from.
Built == Unless({BuiltPolicy},
                [policy |-> BuiltPolicy, fallback |-> fallback, callbacks |-> callbacks])

\* The inductive invariant: the builder holds the latest values, and what was
\* built, read and written back goes with it.
BInv ==
    /\ TypeOK
    /\ wanted = EnsuredBuilder
    /\ config # None => config = Built
    /\ wire # None => PolicyData(loaded) = wire
    /\ restored # None => config \in Configs /\ restored = config.policy

-----------------------------------------------------------------------------
(***************************************************************************)
(* Durations.                                                              *)
(***************************************************************************)

\* A duration splits into seconds and a rest below one second.
LEMMA Split ==
    ASSUME NEW d \in Nat
    PROVE  /\ d \div NanosPerSec \in Nat /\ d % NanosPerSec \in 0 .. NanosPerSec - 1
           /\ d = (d \div NanosPerSec) * NanosPerSec + (d % NanosPerSec)
BY NanosAssumption

\* There is only one way to split it.
LEMMA SplitOnce ==
    ASSUME NEW q \in Nat, NEW s \in Nat, NEW N \in Nat \ {0},
           NEW r \in 0 .. N - 1, NEW n \in 0 .. N - 1,
           q * N + r = s * N + n
    PROVE  q = s /\ r = n
<1>1. ~(q >= s + 1)
  <2> SUFFICES ASSUME q >= s + 1 PROVE FALSE
    OBVIOUS
  <2>1. q * N >= (s + 1) * N
    OBVIOUS
  <2>2. (s + 1) * N = s * N + N
    OBVIOUS
  <2> QED
    BY <2>1, <2>2
<1>2. ~(s >= q + 1)
  <2> SUFFICES ASSUME s >= q + 1 PROVE FALSE
    OBVIOUS
  <2>1. s * N >= (q + 1) * N
    OBVIOUS
  <2>2. (q + 1) * N = q * N + N
    OBVIOUS
  <2> QED
    BY <2>1, <2>2
<1>3. q = s
  BY <1>1, <1>2
<1> QED
  BY <1>3

\* A written duration is read back.
LEMMA DurationRead ==
    ASSUME NEW d \in Durations
    PROVE  DurationData(d) \in DurationForms /\ ToDuration(DurationData(d)) = d
<1>1. d \in Nat /\ d <= MaxDuration
  BY DurationAssumption DEF Durations
<1>2. PICK q \in Nat, r \in 0 .. NanosPerSec - 1 :
         /\ q = d \div NanosPerSec /\ r = d % NanosPerSec /\ d = q * NanosPerSec + r
  BY <1>1, Split
<1>3. DurationData(d) = [seconds |-> q, nanoseconds |-> r]
  BY <1>2 DEF DurationData
<1>4. r \in Nat /\ ~(r >= NanosPerSec)
  BY NanosAssumption
<1>5. ~(d > MaxDuration)
  BY <1>1, DurationAssumption
<1> QED
  BY <1>2, <1>3, <1>4, <1>5 DEF ToDuration, DurationForms

\* An accepted duration is what is written for it.
LEMMA DurationWritten ==
    ASSUME NEW x \in DurationForms, ToDuration(x) # Error
    PROVE  ToDuration(x) \in Durations /\ DurationData(ToDuration(x)) = x
<1> DEFINE d == x.seconds * NanosPerSec + x.nanoseconds
<1>1. /\ x = [seconds |-> x.seconds, nanoseconds |-> x.nanoseconds]
      /\ x.seconds \in Nat /\ x.nanoseconds \in Nat /\ NanosPerSec \in Nat \ {0}
  BY NanosAssumption DEF DurationForms
<1>2. ToDuration(x) = d /\ ~(x.nanoseconds >= NanosPerSec) /\ ~(d > MaxDuration)
  BY DEF ToDuration
<1>3. x.nanoseconds \in 0 .. NanosPerSec - 1
  BY <1>1, <1>2
<1>4. x.seconds * NanosPerSec \in Nat
  BY <1>1
<1>5. d \in Nat
  BY <1>1, <1>4
<1>6. d \in Durations
  BY <1>2, <1>5, DurationAssumption DEF Durations
<1>7. PICK q \in Nat, r \in 0 .. NanosPerSec - 1 :
         q = d \div NanosPerSec /\ r = d % NanosPerSec /\ d = q * NanosPerSec + r
  BY <1>5, Split
<1>8. q = x.seconds /\ r = x.nanoseconds
  BY <1>1, <1>3, <1>7, SplitOnce
<1>9. DurationData(d) = [seconds |-> q, nanoseconds |-> r]
  BY <1>7 DEF DurationData
<1> QED
  BY <1>1, <1>2, <1>6, <1>8, <1>9

\* A written optional duration is read back.
LEMMA OptionRead ==
    ASSUME NEW o \in Durations \union {None}
    PROVE  OptionData(o) \in OptionForms /\ ToOption(OptionData(o)) = o
<1>1. None \notin DurationForms
  BY DataAssumption
<1> QED
  BY <1>1, DurationRead DEF OptionData, ToOption, OptionForms

\* An accepted optional duration is what is written for it.
LEMMA OptionWritten ==
    ASSUME NEW x \in OptionForms, ToOption(x) # Error
    PROVE  ToOption(x) \in Durations \union {None} /\ OptionData(ToOption(x)) = x
<1>1. None \notin Durations
  BY NoDelayAssumption, DurationAssumption DEF Durations
<1> QED
  BY <1>1, DurationWritten DEF OptionData, ToOption, OptionForms

-----------------------------------------------------------------------------
(***************************************************************************)
(* Strategies and jitters.                                                 *)
(***************************************************************************)

\* The fields that are present in a strategy on the wire.
LEMMA Present ==
    ASSUME NEW x \in StrategyForms, NEW F \in SUBSET {"minimum", "maximum", "multiplier"},
           x.minimum # None <=> "minimum" \in F,
           x.maximum # None <=> "maximum" \in F,
           x.multiplier # None <=> "multiplier" \in F
    PROVE  {f \in {"minimum", "maximum", "multiplier"} : x[f] # None} = F
OBVIOUS

\* And back: what they are if there are no others.
LEMMA PresentOnly ==
    ASSUME NEW x \in StrategyForms,
           {f \in {"minimum", "maximum", "multiplier"} : x[f] # None} =
              StrategyFields(x.type)
    PROVE  /\ x.minimum # None <=> "minimum" \in StrategyFields(x.type)
           /\ x.maximum # None <=> "maximum" \in StrategyFields(x.type)
           /\ x.multiplier # None <=> "multiplier" \in StrategyFields(x.type)
OBVIOUS

\* A strategy has a range of delays, and what is written for it.
LEMMA StrategyFacts ==
    ASSUME NEW s \in Strategies
    PROVE  /\ s.kind \in {"Immediate", "Fixed", "Uniform", "Exponential"}
           /\ s.min \in Durations /\ s.max \in Durations /\ s.multiplier \in Int
           /\ s.kind = "Immediate" => s = Strategy("Immediate", 0, 0, 0)
           /\ s.kind = "Fixed" => s = Strategy("Fixed", s.min, s.min, 0)
           /\ s.kind = "Uniform" => s = Strategy("Uniform", s.min, s.max, 0)
           /\ s.kind = "Exponential" =>
                 s = Strategy("Exponential", s.min, s.max, s.multiplier)
<1>1. 0 \in Durations
  BY DurationAssumption DEF Durations
<1>2. CASE s \in [kind : {"Immediate"}, min : {0}, max : {0}, multiplier : {0}]
  BY <1>1, <1>2 DEF Strategy
<1>3. CASE s \in [kind : {"Fixed"}, min : Durations, max : Durations, multiplier : {0}]
           /\ s.min = s.max
  BY <1>3 DEF Strategy
<1>4. CASE s \in [kind : {"Uniform"}, min : Durations, max : Durations, multiplier : {0}]
  BY <1>4 DEF Strategy
<1>5. CASE s \in [kind : {"Exponential"}, min : Durations, max : Durations,
                  multiplier : Int]
  BY <1>5 DEF Strategy
<1> QED
  BY <1>2, <1>3, <1>4, <1>5 DEF Strategies

\* A written strategy is read back.
LEMMA StrategyRead ==
    ASSUME NEW s \in Strategies
    PROVE  StrategyData(s) \in StrategyForms /\ ToStrategy(StrategyData(s)) = s
<1> DEFINE x == StrategyData(s)
           F == StrategyFields(s.kind)
           low == ToOption(x.minimum)
           high == ToOption(x.maximum)
<1>1. /\ s.kind \in {"Immediate", "Fixed", "Uniform", "Exponential"}
      /\ s.min \in Durations /\ s.max \in Durations /\ s.multiplier \in Int
  BY StrategyFacts
<1>2. /\ DurationData(s.min) \in DurationForms /\ ToDuration(DurationData(s.min)) = s.min
      /\ DurationData(s.max) \in DurationForms /\ ToDuration(DurationData(s.max)) = s.max
  BY <1>1, DurationRead
<1>3. /\ None \notin DurationForms /\ None \notin Int /\ Error \notin Int /\ Error # None
      /\ Durations \subseteq Int
  BY DataAssumption, NoDelayAssumption, NanosAssumption, DurationAssumption DEF Durations
<1>4. /\ x.type = s.kind
      /\ x.minimum = IF "minimum" \in F THEN DurationData(s.min) ELSE None
      /\ x.maximum = IF "maximum" \in F THEN DurationData(s.max) ELSE None
      /\ x.multiplier = IF "multiplier" \in F THEN s.multiplier ELSE None
  BY DEF StrategyData
<1>5. x \in StrategyForms
  <2>1. x = [type |-> x.type, minimum |-> x.minimum, maximum |-> x.maximum,
             multiplier |-> x.multiplier]
    BY DEF StrategyData
  <2>2. /\ x.minimum \in OptionForms /\ x.maximum \in OptionForms
        /\ x.multiplier \in Int \union {None}
    BY <1>1, <1>2, <1>4 DEF OptionForms
  <2> HIDE DEF x
  <2> QED
    BY <1>1, <1>4, <2>1, <2>2 DEF StrategyForms
<1> HIDE DEF x
<1>6. F \in SUBSET {"minimum", "maximum", "multiplier"}
  BY <1>1 DEF StrategyFields
<1>7. {f \in {"minimum", "maximum", "multiplier"} : x[f] # None} = StrategyFields(x.type)
  <2> HIDE DEF F
  <2>1. /\ x.minimum # None <=> "minimum" \in F
        /\ x.maximum # None <=> "maximum" \in F
        /\ x.multiplier # None <=> "multiplier" \in F
    BY <1>1, <1>2, <1>3, <1>4
  <2>2. {f \in {"minimum", "maximum", "multiplier"} : x[f] # None} = F
    BY <1>5, <1>6, <2>1, Present
  <2> QED
    BY <1>4, <2>2 DEF F
<1>8. /\ low = IF "minimum" \in F THEN s.min ELSE None
      /\ high = IF "maximum" \in F THEN s.max ELSE None
  BY <1>2, <1>3, <1>4 DEF ToOption
<1>9. Error \notin {low, high}
  BY <1>1, <1>3, <1>8
<1> HIDE DEF low, high
<1>10. ToStrategy(x) =
          CASE x.type = "Immediate"   -> Strategy("Immediate", 0, 0, 0)
            [] x.type = "Fixed"       -> Strategy("Fixed", low, low, 0)
            [] x.type = "Uniform"     -> Strategy("Uniform", low, high, 0)
            [] x.type = "Exponential" ->
                  Strategy("Exponential", low, high, x.multiplier)
  BY <1>7, <1>9 DEF ToStrategy, Unless, low, high
<1>11. CASE s.kind = "Immediate"
  BY <1>4, <1>5, <1>10, <1>11, StrategyFacts DEF x
<1>12. CASE s.kind = "Fixed"
  BY <1>4, <1>5, <1>8, <1>10, <1>12, StrategyFacts DEF x, StrategyFields
<1>13. CASE s.kind = "Uniform"
  BY <1>4, <1>5, <1>8, <1>10, <1>13, StrategyFacts DEF x, StrategyFields
<1>14. CASE s.kind = "Exponential"
  BY <1>4, <1>5, <1>8, <1>10, <1>14, StrategyFacts DEF x, StrategyFields
<1> QED
  BY <1>1, <1>11, <1>12, <1>13, <1>14

\* An accepted strategy is what is written for it.
LEMMA StrategyWritten ==
    ASSUME NEW x \in StrategyForms, ToStrategy(x) # Error
    PROVE  ToStrategy(x) \in Strategies /\ StrategyData(ToStrategy(x)) = x
<1> DEFINE low == ToOption(x.minimum)
           high == ToOption(x.maximum)
<1>1. /\ x.type \in {"Immediate", "Fixed", "Uniform", "Exponential"}
      /\ x.minimum \in OptionForms /\ x.maximum \in OptionForms
      /\ x.multiplier \in Int \union {None}
      /\ x = [type |-> x.type, minimum |-> x.minimum, maximum |-> x.maximum,
              multiplier |-> x.multiplier]
  BY DEF StrategyForms
<1>2. {f \in {"minimum", "maximum", "multiplier"} : x[f] # None} = StrategyFields(x.type)
  BY DEF ToStrategy
<1>3. /\ x.minimum # None <=> "minimum" \in StrategyFields(x.type)
      /\ x.maximum # None <=> "maximum" \in StrategyFields(x.type)
      /\ x.multiplier # None <=> "multiplier" \in StrategyFields(x.type)
  BY <1>2, PresentOnly
<1>4. Error \notin {low, high}
  BY <1>2 DEF ToStrategy, Unless
<1>5. ToStrategy(x) =
         CASE x.type = "Immediate"   -> Strategy("Immediate", 0, 0, 0)
           [] x.type = "Fixed"       -> Strategy("Fixed", low, low, 0)
           [] x.type = "Uniform"     -> Strategy("Uniform", low, high, 0)
           [] x.type = "Exponential" ->
                 Strategy("Exponential", low, high, x.multiplier)
  BY <1>2, <1>4 DEF ToStrategy, Unless
<1>6. /\ x.minimum # None => low \in Durations /\ DurationData(low) = x.minimum
      /\ x.maximum # None => high \in Durations /\ DurationData(high) = x.maximum
  BY <1>1, <1>4, DurationWritten DEF ToOption, OptionForms
<1> HIDE DEF low, high
<1>7. CASE x.type = "Immediate"
  <2>1. x.minimum = None /\ x.maximum = None /\ x.multiplier = None
    BY <1>3, <1>7 DEF StrategyFields
  <2>2. ToStrategy(x) = Strategy("Immediate", 0, 0, 0)
    BY <1>5, <1>7
  <2>3. StrategyData(Strategy("Immediate", 0, 0, 0)) = x
    BY <1>1, <1>7, <2>1 DEF StrategyData, StrategyFields, Strategy
  <2> QED
    BY <2>2, <2>3 DEF Strategies, Strategy
<1>8. CASE x.type = "Fixed"
  <2>1. x.minimum # None /\ x.maximum = None /\ x.multiplier = None
    BY <1>3, <1>8 DEF StrategyFields
  <2>2. ToStrategy(x) = Strategy("Fixed", low, low, 0)
    BY <1>5, <1>8
  <2>3. StrategyData(Strategy("Fixed", low, low, 0)) = x
    BY <1>1, <1>6, <1>8, <2>1 DEF StrategyData, StrategyFields, Strategy
  <2> QED
    BY <1>6, <2>1, <2>2, <2>3 DEF Strategies, Strategy
<1>9. CASE x.type = "Uniform"
  <2>1. x.minimum # None /\ x.maximum # None /\ x.multiplier = None
    BY <1>3, <1>9 DEF StrategyFields
  <2>2. ToStrategy(x) = Strategy("Uniform", low, high, 0)
    BY <1>5, <1>9
  <2>3. StrategyData(Strategy("Uniform", low, high, 0)) = x
    BY <1>1, <1>6, <1>9, <2>1 DEF StrategyData, StrategyFields, Strategy
  <2> QED
    BY <1>6, <2>1, <2>2, <2>3 DEF Strategies, Strategy
<1>10. CASE x.type = "Exponential"
  <2>1. x.minimum # None /\ x.maximum # None /\ x.multiplier \in Int
    BY <1>1, <1>3, <1>10 DEF StrategyFields
  <2>2. ToStrategy(x) = Strategy("Exponential", low, high, x.multiplier)
    BY <1>5, <1>10
  <2>3. StrategyData(Strategy("Exponential", low, high, x.multiplier)) = x
    BY <1>1, <1>6, <1>10, <2>1 DEF StrategyData, StrategyFields, Strategy
  <2> QED
    BY <1>6, <2>1, <2>2, <2>3 DEF Strategies, Strategy
<1> QED
  BY <1>1, <1>7, <1>8, <1>9, <1>10

\* A written jitter is read back.
LEMMA JitterRead ==
    ASSUME NEW j \in Jitters
    PROVE  JitterData(j) \in JitterForms /\ ToJitter(JitterData(j)) = j
<1>1. None \notin Int
  BY NoDelayAssumption
<1>2. CASE j \in [kind : {"None", "Full"}, ratio : {0}]
  BY <1>2 DEF JitterData, ToJitter, JitterForms, Jitter
<1>3. CASE j \in [kind : {"Bounded"}, ratio : Int]
  BY <1>1, <1>3 DEF JitterData, ToJitter, JitterForms, Jitter
<1> QED
  BY <1>2, <1>3 DEF Jitters

\* An accepted jitter is what is written for it.
LEMMA JitterWritten ==
    ASSUME NEW x \in JitterForms, ToJitter(x) # Error
    PROVE  ToJitter(x) \in Jitters /\ JitterData(ToJitter(x)) = x
<1>1. /\ x.tag \in {"None", "Full", "Bounded"} /\ x.ratio \in Int \union {None}
      /\ x = [tag |-> x.tag, ratio |-> x.ratio]
  BY DEF JitterForms
<1>2. x.tag = "Bounded" <=> x.ratio # None
  BY DEF ToJitter
<1>3. ToJitter(x) = Jitter(x.tag, IF x.tag = "Bounded" THEN x.ratio ELSE 0)
  BY <1>2 DEF ToJitter
<1>4. CASE x.tag = "Bounded"
  BY <1>1, <1>2, <1>3, <1>4 DEF Jitter, Jitters, JitterData
<1>5. CASE x.tag # "Bounded"
  BY <1>1, <1>2, <1>3, <1>5 DEF Jitter, Jitters, JitterData
<1> QED
  BY <1>4, <1>5

-----------------------------------------------------------------------------
(***************************************************************************)
(* Whole policies.                                                         *)
(***************************************************************************)

\* A written backoff policy is read back.
LEMMA BackoffRead ==
    ASSUME NEW p \in BackoffPolicies
    PROVE  /\ BackoffPolicyData(p) \in BackoffForms
           /\ ToBackoffPolicy(BackoffPolicyData(p)) = p
<1>1. /\ p.strategy \in Strategies /\ p.jitter \in Jitters /\ p.retry_after \in RetryAfter
      /\ p.delay_limit \in Durations \union {None} /\ Validate(p)
      /\ p = [strategy |-> p.strategy, jitter |-> p.jitter,
              retry_after |-> p.retry_after, delay_limit |-> p.delay_limit]
  BY DEF BackoffPolicies
<1>2. /\ StrategyData(p.strategy) \in StrategyForms
      /\ ToStrategy(StrategyData(p.strategy)) = p.strategy
      /\ JitterData(p.jitter) \in JitterForms /\ ToJitter(JitterData(p.jitter)) = p.jitter
      /\ OptionData(p.delay_limit) \in OptionForms
      /\ ToOption(OptionData(p.delay_limit)) = p.delay_limit
  BY <1>1, StrategyRead, JitterRead, OptionRead
<1>3. Error \notin {p.strategy, p.jitter, p.delay_limit}
  <2>1. Error \notin Strategies /\ Error \notin Jitters
    BY DataAssumption
  <2>2. Error \notin Durations \union {None}
    BY NanosAssumption, DurationAssumption DEF Durations
  <2> QED
    BY <1>1, <2>1, <2>2
<1>4. BackoffPolicyData(p) \in BackoffForms
  BY <1>1, <1>2 DEF BackoffPolicyData, BackoffForms
<1>5. ToBackoffPolicy(BackoffPolicyData(p)) = p
  BY <1>1, <1>2, <1>3 DEF BackoffPolicyData, ToBackoffPolicy
<1> QED
  BY <1>4, <1>5

\* An accepted backoff policy is valid and what is written for it.
LEMMA BackoffWritten ==
    ASSUME NEW x \in BackoffForms, ToBackoffPolicy(x) # Error
    PROVE  /\ ToBackoffPolicy(x) \in BackoffPolicies
           /\ BackoffPolicyData(ToBackoffPolicy(x)) = x
<1> DEFINE p == [strategy |-> ToStrategy(x.strategy), jitter |-> ToJitter(x.jitter),
                 retry_after |-> x.retry_after, delay_limit |-> ToOption(x.delay_limit)]
<1>1. /\ x.strategy \in StrategyForms /\ x.jitter \in JitterForms
      /\ x.retry_after \in RetryAfter /\ x.delay_limit \in OptionForms
      /\ x = [strategy |-> x.strategy, jitter |-> x.jitter,
              retry_after |-> x.retry_after, delay_limit |-> x.delay_limit]
  BY DEF BackoffForms
<1>2. /\ Error \notin {ToStrategy(x.strategy), ToJitter(x.jitter), ToOption(x.delay_limit)}
      /\ Validate(p) /\ ToBackoffPolicy(x) = p
  BY DEF ToBackoffPolicy
<1>3. /\ p.strategy \in Strategies /\ StrategyData(p.strategy) = x.strategy
      /\ p.jitter \in Jitters /\ JitterData(p.jitter) = x.jitter
      /\ p.delay_limit \in Durations \union {None} /\ OptionData(p.delay_limit) = x.delay_limit
  BY <1>1, <1>2, StrategyWritten, JitterWritten, OptionWritten
<1>4. p \in BackoffPolicies
  BY <1>1, <1>2, <1>3 DEF BackoffPolicies
<1>5. BackoffPolicyData(p) = x
  BY <1>1, <1>3 DEF BackoffPolicyData
<1> QED
  BY <1>2, <1>4, <1>5

\* What serialization writes for a policy is accepted and gives the same
\* policy, for every policy there is.
THEOREM PolicyRead ==
    ASSUME NEW p \in RetryPolicies
    PROVE  PolicyData(p) \in PolicyForms /\ ToRetryPolicy(PolicyData(p)) = p
<1>1. /\ p.max_attempts \in Nat /\ p.max_attempts # 0 /\ p.backoff \in BackoffPolicies
      /\ p.operation_time_budget \in Durations \union {None}
      /\ p.total_time_budget \in Durations \union {None}
      /\ p = RetryPolicy(p.max_attempts, p.operation_time_budget, p.total_time_budget,
                         p.backoff)
  BY DEF RetryPolicies, PolicyFields, RetryPolicy
<1>2. /\ OptionData(p.operation_time_budget) \in OptionForms
      /\ ToOption(OptionData(p.operation_time_budget)) = p.operation_time_budget
      /\ OptionData(p.total_time_budget) \in OptionForms
      /\ ToOption(OptionData(p.total_time_budget)) = p.total_time_budget
      /\ BackoffPolicyData(p.backoff) \in BackoffForms
      /\ ToBackoffPolicy(BackoffPolicyData(p.backoff)) = p.backoff
  BY <1>1, OptionRead, BackoffRead
<1>3. Error \notin {p.max_attempts, p.operation_time_budget, p.total_time_budget, p.backoff}
  <2>1. Error \notin BackoffPolicies
    BY DataAssumption
  <2>2. Error \notin Durations \union {None} /\ Error \notin Nat
    BY NanosAssumption, DurationAssumption DEF Durations
  <2> QED
    BY <1>1, <2>1, <2>2
<1>4. PolicyData(p) \in PolicyForms
  BY <1>1, <1>2 DEF PolicyData, PolicyForms, RetryPolicy
<1>5. ToRetryPolicy(PolicyData(p)) =
         RetryPolicy(p.max_attempts, p.operation_time_budget, p.total_time_budget, p.backoff)
  BY <1>1, <1>2, <1>3 DEF PolicyData, ToRetryPolicy, RetryPolicy, NonZeroAttempts, Unless
<1> QED
  BY <1>1, <1>4, <1>5

\* An accepted document is what serialization writes for the valid policy it
\* becomes, for every document.
THEOREM PolicyWritten ==
    ASSUME NEW x \in PolicyForms, ToRetryPolicy(x) # Error
    PROVE  ToRetryPolicy(x) \in RetryPolicies /\ PolicyData(ToRetryPolicy(x)) = x
<1> DEFINE o == ToOption(x.operation_time_budget)
           t == ToOption(x.total_time_budget)
           b == ToBackoffPolicy(x.backoff)
           n == NonZeroAttempts(x.max_attempts)
<1>1. /\ x.max_attempts \in Nat /\ x.operation_time_budget \in OptionForms
      /\ x.total_time_budget \in OptionForms /\ x.backoff \in BackoffForms
      /\ x = RetryPolicy(x.max_attempts, x.operation_time_budget, x.total_time_budget,
                         x.backoff)
  BY DEF PolicyForms, RetryPolicy
<1>2. Error \notin {n, o, t, b} /\ ToRetryPolicy(x) = RetryPolicy(n, o, t, b)
  BY DEF ToRetryPolicy, Unless
<1>3. /\ n = x.max_attempts /\ n # 0
      /\ o \in Durations \union {None} /\ OptionData(o) = x.operation_time_budget
      /\ t \in Durations \union {None} /\ OptionData(t) = x.total_time_budget
      /\ b \in BackoffPolicies /\ BackoffPolicyData(b) = x.backoff
  <2>1. n = x.max_attempts /\ n # 0
    BY <1>2 DEF NonZeroAttempts
  <2> QED
    BY <1>1, <1>2, <2>1, OptionWritten, BackoffWritten
<1> HIDE DEF n, o, t, b
<1>4. RetryPolicy(n, o, t, b) \in RetryPolicies
  BY <1>1, <1>3 DEF RetryPolicies, PolicyFields, RetryPolicy
<1>5. PolicyData(RetryPolicy(n, o, t, b)) = x
  <2>1. PolicyData(RetryPolicy(n, o, t, b)) =
           RetryPolicy(n, OptionData(o), OptionData(t), BackoffPolicyData(b))
    BY DEF PolicyData, RetryPolicy
  <2> QED
    BY <1>1, <1>3, <2>1
<1> QED
  BY <1>2, <1>4, <1>5

-----------------------------------------------------------------------------
(***************************************************************************)
(* The builder.                                                            *)
(***************************************************************************)

\* The values the setters take are the fields of a policy, and the policies
\* given as a whole are valid.
LEMMA InputsTyped ==
    /\ Policies \subseteq RetryPolicies
    /\ \A p \in PolicyFields, f \in Fields : \A v \in Values(f) :
          [p EXCEPT ![f] = v] \in PolicyFields
<1>1. /\ Attempts \subseteq Nat /\ Budgets \subseteq Durations \union {None}
      /\ Backoffs \subseteq BackoffPolicies
  BY BuilderAssumption
<1>2. Policies \subseteq RetryPolicies
  BY <1>1 DEF Policies, RetryPolicy, RetryPolicies, PolicyFields
<1>3. ASSUME NEW p \in PolicyFields, NEW f \in Fields, NEW v \in Values(f)
      PROVE  [p EXCEPT ![f] = v] \in PolicyFields
  <2>1. CASE f = "max_attempts"
    BY <1>1, <1>3, <2>1 DEF Values, PolicyFields
  <2>2. CASE f = "backoff"
    BY <1>1, <1>3, <2>2 DEF Values, PolicyFields
  <2>3. CASE f = "operation_time_budget"
    BY <1>1, <1>3, <2>3 DEF Values, PolicyFields
  <2>4. CASE f = "total_time_budget"
    BY <1>1, <1>3, <2>4 DEF Values, PolicyFields
  <2> QED
    BY <2>1, <2>2, <2>3, <2>4 DEF Fields
<1> QED
  BY <1>2, <1>3

\* None and Error are told apart from policies and configurations.
LEMMA NoValues ==
    /\ None \notin RetryPolicies /\ Error \notin RetryPolicies
    /\ None \notin Configs /\ Error \notin Configs
    /\ None \notin PolicyForms /\ Error # None
BY DataAssumption, ConfigAssumption, NanosAssumption

\* What build returns: an error if the builder was left with zero attempts, and
\* otherwise the policy the builder stands for.
LEMMA BuildResult ==
    ASSUME TypeOK
    PROVE  /\ Built \in Configs \union {Error}
           /\ EnsuredBuilder.max_attempts = 0 => Built = Error
           /\ EnsuredBuilder.max_attempts # 0 =>
                 Built \in Configs /\ Built.policy = EnsuredBuilder
<1> DEFINE c == [policy |-> EnsuredBuilder, fallback |-> fallback, callbacks |-> callbacks]
<1>1. EnsuredBuilder \in PolicyFields
  BY DEF TypeOK, EnsuredBuilder, FromPolicy, RetryPolicies
<1>2. CASE EnsuredBuilder.max_attempts = 0
  <2>1. built_policy = None /\ policy_builder.max_attempts = 0
    BY <1>2 DEF TypeOK, EnsuredBuilder, FromPolicy, RetryPolicies
  <2>2. BuiltPolicy = Error
    BY <2>1 DEF BuiltPolicy, NonZeroAttempts, Unless
  <2> QED
    BY <1>2, <2>2 DEF Built, Unless
<1>3. CASE EnsuredBuilder.max_attempts # 0
  <2>1. EnsuredBuilder \in RetryPolicies
    BY <1>1, <1>3 DEF RetryPolicies
  <2>2. BuiltPolicy = EnsuredBuilder
    <3>1. CASE built_policy # None
      BY <3>1 DEF BuiltPolicy, EnsuredBuilder, FromPolicy
    <3>2. CASE built_policy = None
      <4>1. EnsuredBuilder = policy_builder /\ policy_builder.max_attempts \in Nat
        BY <1>1, <3>2 DEF EnsuredBuilder, PolicyFields
      <4>2. NonZeroAttempts(policy_builder.max_attempts) # Error
        BY <1>3, <4>1, NanosAssumption DEF NonZeroAttempts
      <4> QED
        BY <3>2, <4>1, <4>2 DEF BuiltPolicy, Unless
    <3> QED
      BY <3>1, <3>2
  <2>3. Built = c
    BY <2>1, <2>2, NoValues DEF Built, Unless
  <2>4. c \in Configs
    BY <2>1 DEF TypeOK, Configs
  <2> QED
    BY <1>3, <2>3, <2>4
<1> QED
  BY <1>2, <1>3

\* A fluent call is made before build and counted.
LEMMA CallFacts ==
    ASSUME TypeOK, Call
    PROVE  config = None /\ calls' \in 0 .. MaxCalls /\ calls \in 0 .. MaxCalls
BY BuilderAssumption DEF TypeOK, Call

\* Every step keeps the invariant.
LEMMA BuilderStep ==
    ASSUME BInv, [Next]_vars
    PROVE  BInv'
<1> USE DEF BInv
<1>1. /\ TypeOK /\ wanted = EnsuredBuilder /\ EnsuredBuilder \in PolicyFields
      /\ None \notin RetryPolicies
  BY NoValues DEF TypeOK, EnsuredBuilder, FromPolicy, RetryPolicies
<1>2. config = None => restored = None
  BY NoValues
<1>3. ASSUME NEW p \in RetryPolicies, Call, built_policy' = p, wanted' = p,
             UNCHANGED <<policy_builder, fallback, callbacks, config, restored>>,
             wire' \in WireForms \union {None}, loaded' \in RetryPolicies \union {None},
             wire' # None => PolicyData(loaded') = wire'
      PROVE  BInv'
  <2>1. config' = None /\ calls' \in 0 .. MaxCalls /\ restored' = None
    BY <1>1, <1>2, <1>3, CallFacts
  <2>2. TypeOK'
    BY <1>1, <1>3, <2>1 DEF TypeOK
  <2>3. EnsuredBuilder' = p
    BY <1>1, <1>3 DEF EnsuredBuilder, FromPolicy
  <2> QED
    BY <1>3, <2>1, <2>2, <2>3
<1>4. ASSUME NEW p \in Policies, Policy(p) PROVE BInv'
  <2>1. p \in RetryPolicies
    BY InputsTyped
  <2>2. /\ Call /\ built_policy' = p /\ wanted' = p
        /\ UNCHANGED <<policy_builder, fallback, callbacks, config, restored, wire, loaded>>
    BY <1>4 DEF Policy
  <2>3. /\ wire' \in WireForms \union {None} /\ loaded' \in RetryPolicies \union {None}
        /\ wire' # None => PolicyData(loaded') = wire'
    BY <1>1, <2>2 DEF TypeOK
  <2> QED
    BY <1>3, <2>1, <2>2, <2>3
<1>5. ASSUME NEW x \in WireForms, LoadPolicy(x) PROVE BInv'
  <2>1. PICK p : p = ToRetryPolicy(x)
    OBVIOUS
  <2>2. /\ Call /\ p # Error /\ wire' = x /\ loaded' = p /\ built_policy' = p /\ wanted' = p
        /\ UNCHANGED <<policy_builder, fallback, callbacks, config, restored>>
    BY <1>5, <2>1 DEF LoadPolicy
  <2>3. p \in RetryPolicies /\ PolicyData(p) = x
    BY <2>1, <2>2, BuilderAssumption, PolicyWritten
  <2> QED
    BY <1>3, <2>2, <2>3
<1>6. ASSUME NEW f \in Fields, NEW v \in Values(f), Set(f, v) PROVE BInv'
  <2>1. /\ Call /\ policy_builder' = [EnsuredBuilder EXCEPT ![f] = v]
        /\ built_policy' = None /\ wanted' = [wanted EXCEPT ![f] = v]
        /\ UNCHANGED <<fallback, callbacks, config, wire, loaded, restored>>
    BY <1>6 DEF Set
  <2>2. config' = None /\ calls' \in 0 .. MaxCalls /\ restored' = None
    BY <1>1, <1>2, <2>1, CallFacts
  <2>3. policy_builder' \in PolicyFields
    BY <1>1, <2>1, InputsTyped
  <2>4. TypeOK'
    BY <1>1, <2>1, <2>2, <2>3 DEF TypeOK
  <2>5. wanted' = EnsuredBuilder'
    BY <1>1, <2>1 DEF EnsuredBuilder
  <2> QED
    BY <2>1, <2>2, <2>4, <2>5
<1>7. ASSUME Call, fallback' \in {"Abort", "Retry"},
             callbacks' \in [CallbackKinds -> Seq(0 .. MaxCalls)],
             UNCHANGED <<policy_builder, built_policy, config, wire, loaded, restored, wanted>>
      PROVE  BInv'
  <2>1. config' = None /\ calls' \in 0 .. MaxCalls /\ restored' = None
    BY <1>1, <1>2, <1>7, CallFacts
  <2>2. TypeOK'
    BY <1>1, <1>7, <2>1 DEF TypeOK
  <2>3. EnsuredBuilder' = EnsuredBuilder
    BY <1>7 DEF EnsuredBuilder
  <2> QED
    BY <1>1, <1>7, <2>1, <2>2, <2>3
<1>8. ASSUME NEW f \in {"Abort", "Retry"}, Fallback(f) PROVE BInv'
  BY <1>1, <1>7, <1>8 DEF Fallback, TypeOK
<1>9. ASSUME NEW kind \in CallbackKinds, Register(kind) PROVE BInv'
  <2>1. Call /\ callbacks' = [callbacks EXCEPT ![kind] = Append(callbacks[kind], calls)]
    BY <1>9 DEF Register
  <2>2. callbacks \in [CallbackKinds -> Seq(0 .. MaxCalls)] /\ calls \in 0 .. MaxCalls
    BY <1>1 DEF TypeOK
  <2>3. Append(callbacks[kind], calls) \in Seq(0 .. MaxCalls)
    BY <2>2, AppendProperties
  <2>4. callbacks' \in [CallbackKinds -> Seq(0 .. MaxCalls)]
    BY <2>1, <2>2, <2>3
  <2> QED
    BY <1>1, <1>7, <1>9, <2>1, <2>4 DEF Register, TypeOK
<1>10. CASE Build
  <2>1. /\ config = None /\ config' = Built
        /\ UNCHANGED <<policy_builder, built_policy, fallback, callbacks, wire, loaded,
                       restored, wanted, calls>>
    BY <1>10 DEF Build, Built
  <2>2. Built' = Built /\ EnsuredBuilder' = EnsuredBuilder
    BY <2>1 DEF Built, BuiltPolicy, EnsuredBuilder
  <2>3. TypeOK'
    BY <1>1, <2>1, BuildResult DEF TypeOK
  <2> QED
    BY <1>1, <1>2, <2>1, <2>2, <2>3
<1>11. CASE RoundTrip
  <2>1. /\ config \notin {None, Error}
        /\ restored' = ToRetryPolicy(PolicyData(config.policy))
        /\ UNCHANGED <<policy_builder, built_policy, fallback, callbacks, config, wire,
                       loaded, wanted, calls>>
    BY <1>11 DEF RoundTrip
  <2>2. config \in Configs /\ config.policy \in RetryPolicies
    BY <1>1, <2>1 DEF TypeOK, Configs
  <2>3. restored' = config.policy
    BY <2>1, <2>2, PolicyRead
  <2>4. TypeOK'
    BY <1>1, <2>1, <2>2, <2>3 DEF TypeOK
  <2>5. Built' = Built /\ EnsuredBuilder' = EnsuredBuilder
    BY <2>1 DEF Built, BuiltPolicy, EnsuredBuilder
  <2> QED
    BY <1>1, <2>1, <2>2, <2>3, <2>4, <2>5
<1>12. CASE UNCHANGED vars
  BY <1>1, <1>12 DEF vars, TypeOK, Built, BuiltPolicy, EnsuredBuilder
<1> QED
  BY <1>4, <1>5, <1>6, <1>8, <1>9, <1>10, <1>11, <1>12 DEF Next

-----------------------------------------------------------------------------
(***************************************************************************)
(* Theorems.                                                               *)
(***************************************************************************)

\* The builder always stands for the latest value of every field, and what was
\* built, read and written back goes with it, for any number of calls.
THEOREM BuilderInvariance == Spec => []BInv
<1>1. Init => BInv
  <2> SUFFICES ASSUME Init PROVE BInv
    OBVIOUS
  <2>1. Defaults \in PolicyFields
    <3>1. 0 \in Durations /\ None \in Durations \union {None}
      BY DurationAssumption DEF Durations
    <3>2. Strategy("Immediate", 0, 0, 0) \in Strategies /\ Jitter("None", 0) \in Jitters
      BY DEF Strategy, Strategies, Jitter, Jitters
    <3>3. WithStrategy(Strategy("Immediate", 0, 0, 0)) \in BackoffPolicies
      <4>1. Validate(WithStrategy(Strategy("Immediate", 0, 0, 0)))
        BY DEF Validate, WithStrategy, Strategy, Jitter
      <4> QED
        BY <3>1, <3>2, <4>1 DEF BackoffPolicies, WithStrategy, RetryAfter
    <3> QED
      BY <3>1, <3>3 DEF Defaults, RetryPolicy, PolicyFields
  <2>2. TypeOK
    BY <2>1, BuilderAssumption DEF Init, TypeOK
  <2> QED
    BY <2>2 DEF Init, BInv, EnsuredBuilder
<1>2. BInv /\ [Next]_vars => BInv'
  BY BuilderStep
<1> QED
  BY <1>1, <1>2, PTL DEF Spec

\* Whatever is built, or read from the wire, is a valid policy.
THEOREM BuilderTypeCorrect == Spec => []TypeOK
<1>1. BInv => TypeOK
  BY DEF BInv
<1> QED
  BY <1>1, BuilderInvariance, PTL

\* A built configuration has for every field the value of the latest call that
\* gave one, and build fails exactly if that leaves zero attempts.
THEOREM LastWriterTheorem == Spec => []LastWriterWins
<1>1. BInv => LastWriterWins
  BY BuildResult, NoValues DEF BInv, LastWriterWins
<1> QED
  BY <1>1, BuilderInvariance, PTL

\* The wire form says what the policy says, in both directions.
THEOREM WireTheorem == Spec => []WireExact
<1>1. BInv => WireExact
  BY DEF BInv, WireExact
<1> QED
  BY <1>1, BuilderInvariance, PTL
=============================================================================
