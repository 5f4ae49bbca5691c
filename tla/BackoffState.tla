------------------------------ MODULE BackoffState ------------------------------
(***************************************************************************)
(* BackoffState: a BackoffPolicy is built and configured by its fluent     *)
(* methods and then asked for one delay per retry, with resets in between. *)
(***************************************************************************)
EXTENDS BackoffPolicy

CONSTANTS
    MaxIndex,     \* u32::MAX for retry_index
    MaxSteps,     \* bound on the delays asked for between two resets
    Delays,       \* durations given to the constructors
    Multipliers,  \* multipliers given to exponential
    Ratios,       \* ratios given to with_bounded_jitter
    Hints,        \* delays hinted by the caller
    Limits,       \* caps given to limit_delay
    Samples       \* what the random source returns

ASSUME InputAssumption ==
    /\ Delays \union Hints \union Limits \subseteq Durations
    /\ Multipliers \union Ratios \union Samples \subseteq Numbers

ASSUME IndexAssumption == MaxIndex \in Nat \ {0} /\ MaxSteps \in Nat

\* What immediate, fixed, uniform and exponential return.
Constructed ==
    {WithStrategy(s) : s \in
        {Strategy("Immediate", 0, 0, 0)}
        \union {Strategy("Fixed", d, d, 0) : d \in Delays}
        \union {Strategy("Uniform", lo, hi, 0) : lo, hi \in Delays}
        \union {Strategy("Exponential", lo, hi, x) :
                   lo, hi \in Delays, x \in Multipliers}}

Requests == {[hint |-> None, jitter_hint |-> FALSE]}
            \union [hint : Hints, jitter_hint : BOOLEAN]

Steps == [retry_index : 1 .. MaxIndex, base_delay : Durations,
          effective_delay : Durations, source : {"Policy", "Hint", "Merged"}]

ASSUME NoneAssumption == None \notin Requests \union Steps

VARIABLES
    policy,       \* BackoffState.policy, or the policy being configured
    started,      \* whether start was called
    retry_index,  \* BackoffState.retry_index
    request,      \* of the latest next
    step,         \* the BackoffStep the latest next returned
    selected      \* calls of next since the start or the latest reset (history)

vars == <<policy, started, retry_index, request, step, selected>>

Init ==
    /\ policy \in {p \in Constructed : Validate(p)}
    /\ started = FALSE
    /\ retry_index = 0
    /\ request = None
    /\ step = None
    /\ selected = 0

SetJitter ==
    \E j \in {Jitter("None", 0), Jitter("Full", 0)}
             \union {Jitter("Bounded", r) : r \in Ratios} :
       /\ policy' = [policy EXCEPT !.jitter = j]
       /\ Validate(policy')

SetRetryAfter ==
    \E r \in RetryAfter : policy' = [policy EXCEPT !.retry_after = r]

LimitDelay == \E d \in Limits : policy' = [policy EXCEPT !.delay_limit = d]

Configure ==
    /\ ~started
    /\ SetJitter \/ SetRetryAfter \/ LimitDelay
    /\ UNCHANGED <<started, retry_index, request, step, selected>>

Start ==
    /\ ~started
    /\ started' = TRUE
    /\ UNCHANGED <<policy, retry_index, request, step, selected>>

\* A sample is asked of the random source where it is used.  The source may
\* return anything, although its contract asks for 0.0 .. 1.0.
DrawnIf(needed) == IF needed THEN Samples ELSE {0}

WrappingSuccessor(i) == (i + 1) % (MaxIndex + 1)
IndexSuccessor(i) == MinOf(i + 1, MaxIndex)

NextDelay(r) ==
    LET index   == IndexSuccessor(retry_index)
        jittery == policy.jitter.kind # "None"
    IN
    /\ started
    /\ selected < MaxSteps
    /\ \E u \in DrawnIf(policy.strategy.kind = "Uniform"),
          s \in DrawnIf(jittery), h \in DrawnIf(jittery /\ r.jitter_hint) :
          step' = Resolve(policy, BaseDelay(policy, index, u), r, index, s, h)
    /\ retry_index' = index
    /\ request' = r
    /\ selected' = selected + 1
    /\ UNCHANGED <<policy, started>>

Reset ==
    /\ started
    /\ retry_index' = 0
    /\ selected' = 0
    /\ UNCHANGED <<policy, started, request, step>>

Next == Configure \/ Start \/ Reset \/ \E r \in Requests : NextDelay(r)

Spec == Init /\ [][Next]_vars

-----------------------------------------------------------------------------
(***************************************************************************)
(* Properties.                                                             *)
(***************************************************************************)

\* Type invariant: every delay of a step is a representable duration, and the
\* policy in use passed validate.
TypeOK ==
    /\ policy \in BackoffPolicies
    /\ started \in BOOLEAN
    /\ retry_index \in 0 .. MaxIndex
    /\ selected \in 0 .. MaxSteps
    /\ request \in Requests \union {None}
    /\ step \in Steps \union {None}

\* The base delay of a step stays between the strategy's first or least delay
\* and maximum_delay, when powers overflow and for every sample.
BaseBounded ==
    step # None => step.base_delay \in policy.strategy.min .. MaximumDelay(policy)

Absolute(x) == IF x < 0 THEN -x ELSE x

\* Floating point costs accuracy, not correctness: the base delay of the n-th
\* next since the start or a reset is min(max, initial * multiplier^(n-1)) up to
\* the three roundings of exponential_delay and half a tick, and n, counted here
\* apart from the state's own index, saturates where a u32 would wrap.
GrowthAccurate ==
    (selected > 0 /\ policy.strategy.kind = "Exponential") =>
       LET k     == MinOf(selected, MaxIndex) - 1
           unit  == Pow(One, k)
           ideal == MinOf(policy.strategy.min * Pow(policy.strategy.multiplier, k),
                          policy.strategy.max * unit)
       IN 2 * Absolute(step.base_delay * unit - ideal) * Pow(2, Bits)
             <= 8 * ideal + Pow(2, Bits) * unit

\* The delay the policy alone asks for, when there is neither hint nor cap, is
\* within the jitter's reach of the base delay: never above it under full
\* jitter, within ratio * base under bounded jitter, up to a tick and the four
\* roundings of scale_duration, and exactly it without jitter, whatever the
\* random source returns.
JitterBounded ==
    (step # None /\ step.source = "Policy" /\ policy.delay_limit = None) =>
       LET d == step.effective_delay
           b == step.base_delay
           r == policy.jitter.ratio
       IN CASE policy.jitter.kind = "None" -> d = b
            [] policy.jitter.kind = "Full" -> d <= b
            [] OTHER -> Absolute(d - b) * One * Pow(2, Bits)
                           <= r * b * Pow(2, Bits) + 6 * (One + r) * b
                              + Pow(2, Bits) * One

\* The cap is applied last and to everything: no effective delay exceeds it,
\* and it alone may shorten an unjittered hint that the policy prefers or takes
\* as a minimum.
HintHonoured ==
    step # None =>
       /\ policy.delay_limit # None => step.effective_delay <= policy.delay_limit
       /\ (step.source = "Hint" /\ ~request.jitter_hint) =>
             step.effective_delay = Capped(policy, request.hint)
       /\ (step.source = "Merged" /\ ~request.jitter_hint) =>
             step.effective_delay >= Capped(policy, request.hint)
       /\ (step.source = "Merged" /\ policy.jitter.kind = "None") =>
             step.effective_delay >= Capped(policy, step.base_delay)

\* Delays grow: without a reset in between, exponential base delays never
\* shrink from one retry to the next, at saturation neither.
NeverShrinks ==
    [][(/\ policy.strategy.kind = "Exponential"
        /\ selected > 0 /\ selected' > selected) =>
       step'.base_delay >= step.base_delay]_vars
=============================================================================
