--------------------------- MODULE RetryConfigBuilder ---------------------------
(***************************************************************************)
(* RetryConfigBuilder over RetryPolicyBuilder: any sequence of fluent      *)
(* calls, in which a whole policy (built elsewhere or read from the wire)  *)
(* and single fields overwrite each other, then build, and the built       *)
(* policy written out and read back.                                       *)
(***************************************************************************)
EXTENDS RetryPolicyData, Sequences

CONSTANTS
    Attempts,        \* arguments of max_attempts, zero among them
    Budgets,         \* arguments of the time budgets
    Backoffs,        \* backoff policies
    WireForms,       \* policies on the wire, well formed or not
    MaxCalls         \* bound on the fluent calls before build

ASSUME BuilderAssumption ==
    /\ Attempts \subseteq Nat
    /\ Budgets \subseteq Durations \union {None}
    /\ Backoffs \subseteq BackoffPolicies
    /\ WireForms \subseteq PolicyForms
    /\ MaxCalls \in Nat

Policies == {RetryPolicy(n, o, t, b) :
                n \in Attempts \ {0}, o, t \in Budgets, b \in Backoffs}

\* The fields a RetryPolicyBuilder holds, and the values their setters take.
Values(field) == CASE field = "max_attempts" -> Attempts
                   [] field = "backoff"      -> Backoffs
                   [] OTHER                  -> Budgets

Fields == {"max_attempts", "operation_time_budget", "total_time_budget", "backoff"}

CallbackKinds == {"rules", "observers"}

\* RetryConfig: a policy, a fallback and the callbacks in registration order.
Configs == [policy    : RetryPolicies,
            fallback  : {"Abort", "Retry"},
            callbacks : [CallbackKinds -> Seq(0 .. MaxCalls)]]

ASSUME ConfigAssumption == None \notin Configs /\ Error \notin Configs

VARIABLES
    policy_builder,  \* RetryConfigBuilder.policy_builder
    built_policy,    \* RetryConfigBuilder.built_policy
    fallback,        \* RetryConfigBuilder.fallback
    callbacks,       \* RetryConfigBuilder.rules and observers, by registering call
    config,          \* what build returned
    wire,            \* the latest wire form that was accepted
    loaded,          \* and the policy it became
    restored,        \* the built policy after a round trip
    wanted,          \* the latest value given for each field (history)
    calls            \* fluent calls so far (history)

vars == <<policy_builder, built_policy, fallback, callbacks, config, wire, loaded,
          restored, wanted, calls>>

\* RetryPolicyBuilder::new
Defaults == RetryPolicy(3, None, None, WithStrategy(Strategy("Immediate", 0, 0, 0)))

Init ==
    /\ policy_builder = Defaults
    /\ built_policy = None
    /\ fallback = "Abort"
    /\ callbacks = [kind \in CallbackKinds |-> << >>]
    /\ config = None
    /\ wire = None
    /\ loaded = None
    /\ restored = None
    /\ wanted = Defaults
    /\ calls = 0

Call == config = None /\ calls < MaxCalls /\ calls' = calls + 1

\* policy replaces everything configured before it.
Policy(p) ==
    /\ Call
    /\ built_policy' = p
    /\ wanted' = p
    /\ UNCHANGED <<policy_builder, fallback, callbacks, config, wire, loaded, restored>>

\* A policy is read from the wire and given to the builder.
LoadPolicy(x) ==
    /\ Call
    /\ LET p == ToRetryPolicy(x) IN
       /\ p # Error
       /\ wire' = x
       /\ loaded' = p
       /\ built_policy' = p
       /\ wanted' = p
    /\ UNCHANGED <<policy_builder, fallback, callbacks, config, restored>>

\* ensure_policy_builder: a setter after policy goes on from that policy.
FromPolicyWithoutTotal(p) == [p EXCEPT !.total_time_budget = None]
FromPolicy(p) == p

EnsuredBuilder == IF built_policy = None THEN policy_builder
                                         ELSE FromPolicy(built_policy)

Set(field, value) ==
    /\ Call
    /\ policy_builder' = [EnsuredBuilder EXCEPT ![field] = value]
    /\ built_policy' = None
    /\ wanted' = [wanted EXCEPT ![field] = value]
    /\ UNCHANGED <<fallback, callbacks, config, wire, loaded, restored>>

Fallback(f) ==
    /\ Call
    /\ fallback' = f
    /\ UNCHANGED <<policy_builder, built_policy, callbacks, config, wire, loaded,
                   restored, wanted>>

\* rule and shared_rule, observer and shared_observer.
Register(kind) ==
    /\ Call
    /\ callbacks' = [callbacks EXCEPT ![kind] = Append(@, calls)]
    /\ UNCHANGED <<policy_builder, built_policy, fallback, config, wire, loaded,
                   restored, wanted>>

BuiltPolicy ==
    IF built_policy # None
    THEN built_policy
    ELSE Unless({NonZeroAttempts(policy_builder.max_attempts)}, policy_builder)

Build ==
    /\ config = None
    /\ config' = Unless({BuiltPolicy},
                        [policy |-> BuiltPolicy, fallback |-> fallback,
                         callbacks |-> callbacks])
    /\ UNCHANGED <<policy_builder, built_policy, fallback, callbacks, wire, loaded,
                   restored, wanted, calls>>

\* The built policy is serialized and deserialized again.
RoundTrip ==
    /\ config \notin {None, Error}
    /\ restored = None
    /\ restored' = ToRetryPolicy(PolicyData(config.policy))
    /\ UNCHANGED <<policy_builder, built_policy, fallback, callbacks, config, wire,
                   loaded, wanted, calls>>

Next ==
    \/ \E p \in Policies : Policy(p)
    \/ \E x \in WireForms : LoadPolicy(x)
    \/ \E f \in Fields : \E v \in Values(f) : Set(f, v)
    \/ \E f \in {"Abort", "Retry"} : Fallback(f)
    \/ \E kind \in CallbackKinds : Register(kind)
    \/ Build \/ RoundTrip

Spec == Init /\ [][Next]_vars

-----------------------------------------------------------------------------
(***************************************************************************)
(* Properties.                                                             *)
(***************************************************************************)

\* Type invariant: whatever is built, or read from the wire, is a valid policy.
TypeOK ==
    /\ fallback \in {"Abort", "Retry"}
    /\ calls \in 0 .. MaxCalls
    /\ callbacks \in [CallbackKinds -> Seq(0 .. MaxCalls)]
    /\ policy_builder \in PolicyFields
    /\ built_policy \in RetryPolicies \union {None}
    /\ config \in Configs \union {None, Error}
    /\ wire \in WireForms \union {None}
    /\ loaded \in RetryPolicies \union {None}
    /\ restored \in RetryPolicies \union {None}

\* The last writer wins, field by field: a built configuration has for every
\* field the value of the latest call that gave one, where policy gives them
\* all, and build fails exactly if that leaves zero attempts, however setters
\* and policies were mixed before.
LastWriterWins ==
    config # None =>
       IF wanted.max_attempts = 0 THEN config = Error
       ELSE config # Error /\ config.policy = wanted

\* The wire form says what the policy says, in both directions: what
\* serialization writes for a built policy is accepted again and gives the same
\* policy, and an accepted document is what serialization writes for the policy
\* it became.  So no field of a document is ignored, and no two accepted records
\* of fields mean the same policy, where null and absent are one.  How a format
\* spells a record (as an array, say) or a number (-0.0) is not in it.
WireExact ==
    /\ restored # None => restored = config.policy
    /\ wire # None => PolicyData(loaded) = wire
=============================================================================
