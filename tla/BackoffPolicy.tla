----------------------------- MODULE BackoffPolicy -----------------------------
(***************************************************************************)
(* BackoffPolicy: the delay before each retry, as operators.               *)
(*                                                                         *)
(* Durations are whole ticks (nanoseconds in the code) up to MaxDuration.  *)
(* The code computes growth and jitter in f64; here a floating-point       *)
(* number is a count of quanta, 1/One of a second or of a factor, rounded  *)
(* to Bits significant bits after every operation, with an infinity above  *)
(* FloatMax.  One second is one tick: the factor between the two units     *)
(* plays no part in rounding or overflow.                                  *)
(***************************************************************************)
EXTENDS Integers

CONSTANTS
    MaxDuration,  \* Duration::MAX
    One,          \* quanta in 1.0, a power of two
    Bits,         \* significant bits of a floating-point number
    FloatMax,     \* the largest finite floating-point number, in quanta
    None

ASSUME DurationAssumption == MaxDuration \in Nat \ {0}

\* x to the power of n.
Pow(x, n) == LET power[k \in Nat] == IF k = 0 THEN 1 ELSE x * power[k - 1]
             IN power[n]

\* 1.0 has all of its bits, and the largest duration is far from overflow.
ASSUME FloatAssumption ==
    /\ Bits \in Nat /\ Bits >= 3
    /\ One \in Nat /\ \E a \in Bits - 1 .. One : One = Pow(2, a)
    /\ FloatMax \in Nat /\ 2 * MaxDuration * One <= FloatMax

Durations == 0 .. MaxDuration

ASSUME NoDelayAssumption == None \notin Int

-----------------------------------------------------------------------------
(***************************************************************************)
(* Floating point.                                                         *)
(***************************************************************************)
Inf == -1
NaN == -2
Negative == -3    \* any number below zero, which only a sample can be

IsFinite(x) == x >= 0

\* n / d to the nearest integer, ties to even.
Nearest(n, d) ==
    LET q == n \div d
        r == 2 * (n % d)
    IN IF r > d \/ (r = d /\ q % 2 = 1) THEN q + 1 ELSE q

\* The least exponent that leaves Bits bits of q.
Exponent(q) == CHOOSE e \in 0 .. q : /\ q < Pow(2, Bits + e)
                                     /\ e > 0 => q >= Pow(2, Bits + e - 1)

\* n / d quanta as a floating-point number.
Rounded(n, d) == LET unit == Pow(2, Exponent(n \div d))
                 IN Nearest(n, d * unit) * unit

Float(n, d) == LET x == Rounded(n, d) IN IF x > FloatMax THEN Inf ELSE x

\* What a floating-point variable can hold.
Numbers == {Inf, NaN, Negative} \union {x \in Nat : Rounded(x, 1) = x}

Times(x, y) == IF NaN \in {x, y} \/ {x, y} = {0, Inf} THEN NaN
               ELSE IF Inf \in {x, y} THEN Inf ELSE Float(x * y, One)

\* f64::powf is taken to be correctly rounded.
Powf(x, n) == Float(Pow(x, n), Pow(One, n - 1))

AsSecsF64(d) == Float(d * One, 1)

\* Duration::try_from_secs_f64, None where it fails.
TryFromSecsF64(x) == LET d == Nearest(x, One)
                     IN IF x >= 0 /\ d <= MaxDuration THEN d ELSE None

MinOf(a, b) == IF a <= b THEN a ELSE b
MaxOf(a, b) == IF a <= b THEN b ELSE a

-----------------------------------------------------------------------------
(***************************************************************************)
(* The policy: a strategy, a jitter, what a hint means, and a cap.         *)
(***************************************************************************)
Strategy(k, lo, hi, x) == [kind |-> k, min |-> lo, max |-> hi, multiplier |-> x]

Jitter(k, r) == [kind |-> k, ratio |-> r]

RetryAfter == {"PreferHint", "AtLeastBackoff", "IgnoreHint"}

WithStrategy(s) == [strategy |-> s, jitter |-> Jitter("None", 0),
                    retry_after |-> "AtLeastBackoff", delay_limit |-> None]

Validate(p) ==
    /\ p.strategy.kind \in {"Uniform", "Exponential"} =>
          p.strategy.min <= p.strategy.max
    /\ p.strategy.kind = "Exponential" =>
          IsFinite(p.strategy.multiplier) /\ p.strategy.multiplier >= One
    /\ p.jitter.kind = "Bounded" => p.jitter.ratio \in 0 .. One

\* The policies there are: a strategy has the fields of its kind, and validate
\* accepts the whole.
Strategies ==
    [kind : {"Immediate"}, min : {0}, max : {0}, multiplier : {0}]
    \union {s \in [kind : {"Fixed"}, min : Durations, max : Durations, multiplier : {0}] :
              s.min = s.max}
    \union [kind : {"Uniform"}, min : Durations, max : Durations, multiplier : {0}]
    \union [kind : {"Exponential"}, min : Durations, max : Durations, multiplier : Int]

Jitters == [kind : {"None", "Full"}, ratio : {0}] \union [kind : {"Bounded"}, ratio : Int]

BackoffPolicies ==
    {p \in [strategy : Strategies, jitter : Jitters, retry_after : RetryAfter,
            delay_limit : Durations \union {None}] : Validate(p)}

\* maximum_delay; the lower end of a strategy is its first or least delay.
MaximumDelay(p) == p.strategy.max

\* A number of seconds back into a duration, at most max.
WrappedDelay(seconds, max) ==
    LET delay == TryFromSecsF64(seconds)
    IN IF ~IsFinite(seconds) \/ delay = None THEN 0 ELSE MinOf(delay, max)
UncappedDelay(seconds, max) ==
    LET delay == TryFromSecsF64(seconds)
    IN IF ~IsFinite(seconds) \/ delay = None THEN max ELSE delay
CappedDelay(seconds, max) ==
    LET delay == TryFromSecsF64(seconds)
    IN IF ~IsFinite(seconds) \/ delay = None THEN max ELSE MinOf(delay, max)

ExponentialDelay(initial, multiplier, max, index) ==
    IF index <= 1 \/ initial = 0 \/ multiplier = One
    THEN MinOf(initial, max)
    ELSE CappedDelay(Times(AsSecsF64(initial), Powf(multiplier, index - 1)), max)

ScaleDuration(d, factor) ==
    LET seconds == Times(AsSecsF64(d), factor)
        delay   == TryFromSecsF64(seconds)
    IN IF ~IsFinite(seconds) \/ seconds >= AsSecsF64(MaxDuration) \/ delay = None
       THEN MaxDuration ELSE delay

\* A sample is clamped to 0.0 .. 1.0; NaN stays NaN.
Clamp(x) == CASE x = NaN             -> NaN
              [] x = Negative        -> 0
              [] x = Inf \/ x > One  -> One
              [] OTHER               -> x

UnclampedInterpolate(min, max, sample) ==
    MinOf(min + ScaleDuration(max - min, Clamp(sample)), MaxDuration)
Interpolate(min, max, sample) ==
    LET ratio == Clamp(sample) IN
    IF min >= max \/ ratio = 0 THEN min
    ELSE IF ratio = One THEN max
    ELSE MinOf(MinOf(min + ScaleDuration(max - min, ratio), MaxDuration), max)

BaseDelay(p, index, sample) ==
    CASE p.strategy.kind = "Uniform" ->
            Interpolate(p.strategy.min, p.strategy.max, sample)
      [] p.strategy.kind = "Exponential" ->
            ExponentialDelay(p.strategy.min, p.strategy.multiplier,
                             p.strategy.max, index)
      [] OTHER -> p.strategy.min

ApplyJitter(p, base, sample) ==
    CASE p.jitter.kind = "None" \/ (p.jitter.kind = "Bounded" /\ p.jitter.ratio = 0) ->
            base
      [] p.jitter.kind = "Full" -> Interpolate(0, base, sample)
      [] OTHER -> Interpolate(ScaleDuration(base, Float(One - p.jitter.ratio, 1)),
                              ScaleDuration(base, Float(One + p.jitter.ratio, 1)),
                              sample)

\* resolve_uncapped: the delay and its source.
HintSource(p, request) ==
    IF request.hint = None \/ p.retry_after = "IgnoreHint" THEN "Policy"
    ELSE IF p.retry_after = "PreferHint" THEN "Hint" ELSE "Merged"

ResolveUncapped(p, base, request, sample, hintSample) ==
    LET policy == ApplyJitter(p, base, sample)
        hinted == IF request.jitter_hint THEN ApplyJitter(p, request.hint, hintSample)
                                         ELSE request.hint
    IN CASE HintSource(p, request) = "Policy" -> policy
         [] HintSource(p, request) = "Hint"   -> hinted
         [] OTHER                             -> MaxOf(policy, hinted)

Capped(p, delay) == IF p.delay_limit = None THEN delay
                                            ELSE MinOf(delay, p.delay_limit)

\* The cap before the hint instead of after it.
CapFirstResolve(p, base, request, index, sample, hintSample) ==
    [retry_index |-> index, base_delay |-> base,
     effective_delay |-> ResolveUncapped(p, Capped(p, base), request, sample, hintSample),
     source |-> HintSource(p, request)]
Resolve(p, base, request, index, sample, hintSample) ==
    [retry_index |-> index, base_delay |-> base,
     effective_delay |->
        Capped(p, ResolveUncapped(p, base, request, sample, hintSample)),
     source |-> HintSource(p, request)]
=============================================================================
