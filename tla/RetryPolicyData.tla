---------------------------- MODULE RetryPolicyData ----------------------------
(***************************************************************************)
(* The wire form of a RetryPolicy: what serialization writes, and what     *)
(* deserialization accepts and makes of it.  None stands for an absent     *)
(* field or an empty option, Error for a rejected value.                   *)
(***************************************************************************)
EXTENDS BackoffPolicy

CONSTANTS
    NanosPerSec,  \* ticks in the seconds field of a duration on the wire
    Error

ASSUME NanosAssumption == NanosPerSec \in Nat \ {0} /\ Error \notin Int \union {None}

\* A RetryPolicy: its admission limits beside its backoff.
RetryPolicy(attempts, operation, total, backoff) ==
    [max_attempts          |-> attempts,
     operation_time_budget |-> operation,
     total_time_budget     |-> total,
     backoff               |-> backoff]

\* The fields a RetryPolicyBuilder holds, and the policies it may build.
PolicyFields == [max_attempts          : Nat,
                 operation_time_budget : Durations \union {None},
                 total_time_budget     : Durations \union {None},
                 backoff               : BackoffPolicies]

RetryPolicies == {p \in PolicyFields : p.max_attempts # 0}

\* What the fields of a document may hold.
DurationForms == [seconds : Nat, nanoseconds : Nat]

OptionForms == DurationForms \union {None}

StrategyForms == [type       : {"Immediate", "Fixed", "Uniform", "Exponential"},
                  minimum    : OptionForms,
                  maximum    : OptionForms,
                  multiplier : Int \union {None}]

JitterForms == [tag : {"None", "Full", "Bounded"}, ratio : Int \union {None}]

BackoffForms == [strategy    : StrategyForms,
                 jitter      : JitterForms,
                 retry_after : RetryAfter,
                 delay_limit : OptionForms]

PolicyForms == [max_attempts          : Nat,
                operation_time_budget : OptionForms,
                total_time_budget     : OptionForms,
                backoff               : BackoffForms]

\* None and Error are no values.
ASSUME DataAssumption ==
    \A x \in {None, Error} :
       x \notin DurationForms \union PolicyForms \union Strategies \union Jitters
                \union BackoffPolicies \union RetryPolicies

\* The value, unless one of the parts it is made of was rejected.
Unless(parts, value) == IF Error \in parts THEN Error ELSE value

-----------------------------------------------------------------------------
(***************************************************************************)
(* Durations.                                                              *)
(***************************************************************************)
DurationData(d) == [seconds |-> d \div NanosPerSec, nanoseconds |-> d % NanosPerSec]

LaxDuration(x) ==
    LET d == x.seconds * NanosPerSec + x.nanoseconds
    IN IF x.nanoseconds > NanosPerSec \/ d > MaxDuration THEN Error ELSE d
ToDuration(x) ==
    LET d == x.seconds * NanosPerSec + x.nanoseconds
    IN IF x.nanoseconds >= NanosPerSec \/ d > MaxDuration THEN Error ELSE d

OptionData(o) == IF o = None THEN None ELSE DurationData(o)
ToOption(x) == IF x = None THEN None ELSE ToDuration(x)

-----------------------------------------------------------------------------
(***************************************************************************)
(* Backoff.  Every strategy has fields of its own, none of them optional;  *)
(* a ratio belongs to bounded jitter and to no other.                      *)
(***************************************************************************)
StrategyFields(type) == CASE type = "Immediate"   -> {}
                          [] type = "Fixed"       -> {"minimum"}
                          [] type = "Uniform"     -> {"minimum", "maximum"}
                          [] type = "Exponential" -> {"minimum", "maximum", "multiplier"}

\* The delay of a fixed strategy is its minimum here, as in Strategy.
StrategyData(s) ==
    LET field(f, value) == IF f \in StrategyFields(s.kind) THEN value ELSE None
    IN [type       |-> s.kind,
        minimum    |-> field("minimum", DurationData(s.min)),
        maximum    |-> field("maximum", DurationData(s.max)),
        multiplier |-> field("multiplier", s.multiplier)]

ToStrategy(x) ==
    LET low  == ToOption(x.minimum)
        high == ToOption(x.maximum)
    IN IF {f \in {"minimum", "maximum", "multiplier"} : x[f] # None}
             # StrategyFields(x.type)
       THEN Error
       ELSE Unless({low, high},
                   CASE x.type = "Immediate"   -> Strategy("Immediate", 0, 0, 0)
                     [] x.type = "Fixed"       -> Strategy("Fixed", low, low, 0)
                     [] x.type = "Uniform"     -> Strategy("Uniform", low, high, 0)
                     [] x.type = "Exponential" ->
                           Strategy("Exponential", low, high, x.multiplier))

JitterData(j) == [tag   |-> j.kind,
                  ratio |-> IF j.kind = "Bounded" THEN j.ratio ELSE None]

ToJitter(x) == IF (x.tag = "Bounded") # (x.ratio # None)
               THEN Error
               ELSE Jitter(x.tag, IF x.tag = "Bounded" THEN x.ratio ELSE 0)

BackoffPolicyData(p) == [strategy    |-> StrategyData(p.strategy),
                         jitter      |-> JitterData(p.jitter),
                         retry_after |-> p.retry_after,
                         delay_limit |-> OptionData(p.delay_limit)]

\* The parts are converted first, then validate looks at the whole.
ToBackoffPolicy(x) ==
    LET s == ToStrategy(x.strategy)
        j == ToJitter(x.jitter)
        l == ToOption(x.delay_limit)
        p == [strategy |-> s, jitter |-> j, retry_after |-> x.retry_after,
              delay_limit |-> l]
    IN IF Error \in {s, j, l} THEN Error ELSE IF Validate(p) THEN p ELSE Error

-----------------------------------------------------------------------------
(***************************************************************************)
(* The whole policy.                                                       *)
(***************************************************************************)
PolicyData(p) ==
    RetryPolicy(p.max_attempts, OptionData(p.operation_time_budget),
                OptionData(p.total_time_budget), BackoffPolicyData(p.backoff))

\* The admission limits, whose attempts are NonZeroU32.
NonZeroAttempts(n) == IF n = 0 THEN Error ELSE n

ToRetryPolicy(x) ==
    LET n == NonZeroAttempts(x.max_attempts)
        o == ToOption(x.operation_time_budget)
        t == ToOption(x.total_time_budget)
        b == ToBackoffPolicy(x.backoff)
    IN Unless({n, o, t, b}, RetryPolicy(n, o, t, b))
=============================================================================
