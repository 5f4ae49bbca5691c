-------------------------- MODULE MCRetryConfigBuilder --------------------------
(***************************************************************************)
(* Instance of RetryConfigBuilder for TLC: five ticks to a second, and     *)
(* wire forms around each rule a document must obey.                       *)
(***************************************************************************)
EXTENDS RetryConfigBuilder

MCBackoffs ==
    {WithStrategy(Strategy("Immediate", 0, 0, 0)),
     [WithStrategy(Strategy("Exponential", 2, 9, 6)) EXCEPT
         !.jitter = Jitter("Bounded", 4), !.delay_limit = 7,
         !.retry_after = "PreferHint"]}

Wire(s, n) == [seconds |-> s, nanoseconds |-> n]

WireDurations == {None, Wire(0, 0), Wire(1, 4), Wire(0, 5), Wire(3, 1)}

WireStrategies ==
    {[type |-> t, minimum |-> lo, maximum |-> hi, multiplier |-> x] :
        t \in {"Immediate", "Fixed", "Uniform", "Exponential"},
        lo, hi \in {None, Wire(0, 2), Wire(1, 1)}, x \in {None, 3, 6}}

WireBackoffs ==
    {[strategy |-> s, jitter |-> [tag |-> t, ratio |-> r],
      retry_after |-> "AtLeastBackoff", delay_limit |-> None] :
        s \in WireStrategies, t \in {"None", "Full", "Bounded"}, r \in {None, 1, 5}}

PlainBackoff == BackoffPolicyData(WithStrategy(Strategy("Fixed", 3, 3, 0)))

MCWireForms ==
    {RetryPolicy(n, o, t, PlainBackoff) :
        n \in {0, 2}, o, t \in WireDurations}
    \union {RetryPolicy(2, None, None, b) : b \in WireBackoffs}
    \union {RetryPolicy(2, None, None, [PlainBackoff EXCEPT !.delay_limit = d]) :
               d \in WireDurations}

MCBudgets == {None, 0, 8}
=============================================================================
