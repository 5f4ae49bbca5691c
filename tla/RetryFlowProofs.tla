---------------------------- MODULE RetryFlowProofs ----------------------------
(***************************************************************************)
(* Proofs that the invariants of RetryFlow hold for every set of retry     *)
(* definitions, every clock and every size of Duration and u32.            *)
(***************************************************************************)
EXTENDS RetryFlow, RetryBudgetStateProofs

-----------------------------------------------------------------------------
(***************************************************************************)
(* The gates: what each may answer and what it lets pass.                  *)
(***************************************************************************)
Reasons == Optional(Reason)

\* Every reason the gates give is a Reason, hence not None.
LEMMA ReasonTypes ==
    /\ Succeeded \in Reason
    /\ Aborted \in Reason
    /\ ClockFailed \in Reason
    /\ \A limit \in Limits : Exhausted(limit) \in Reason
    /\ \A scope \in Scopes : TimedOut(scope) \in Reason
    /\ \A where \in CancellationPhases : Cancelled(where) \in Reason
    /\ \A callback \in CallbackPhases : CallbackFailed(callback) \in Reason
    /\ \A failure \in InfrastructureFailures : Infrastructure(failure) \in Reason
BY DEF Succeeded, Aborted, ClockFailed, Exhausted, TimedOut, Cancelled,
       CallbackFailed, Infrastructure, Reason, InfrastructureFailures

\* An exhausted limit is a RetryLimitKind or None.
LEMMA RetryLimitType ==
    \A b, limits, delay : RetryLimit(b, limits, delay) \in Optional(Limits)
BY DEF RetryLimit, Optional, Limits

\* Each single gate gives a reason or None.
LEMMA GateTypes ==
    /\ \A s : ClockGate(s) \in Reasons
    /\ \A b : FlowGate(b) \in Reasons
    /\ \A where \in CancellationPhases : CancelGate(where) \in Reasons
    /\ \A b, delay : LimitGate(b, delay) \in Reasons
    /\ plan \in Optional(Plan) => \A s : PlanGate(s) \in Reasons
    /\ \A failure, decision : DecisionGate(failure, decision) \in Reasons
    /\ \A x, y \in Reasons : x ?? y \in Reasons
<1>1. \A s : ClockGate(s) \in Reasons
  BY ReasonTypes DEF ClockGate, Reasons, Optional
<1>2. \A b : FlowGate(b) \in Reasons
  BY ReasonTypes DEF FlowGate, Reasons, Optional, Scopes
<1>3. \A where \in CancellationPhases : CancelGate(where) \in Reasons
  BY ReasonTypes DEF CancelGate, Reasons, Optional
<1>4. \A b, delay : LimitGate(b, delay) \in Reasons
  BY ReasonTypes, RetryLimitType DEF LimitGate, Reasons, Optional
<1>5. plan \in Optional(Plan) => \A s : PlanGate(s) \in Reasons
  BY ReasonTypes DEF PlanGate, Reasons, Optional, Plan
<1>6. \A failure, decision : DecisionGate(failure, decision) \in Reasons
  BY ReasonTypes DEF DecisionGate, Reasons, Optional, Scopes
<1>7. \A x, y \in Reasons : x ?? y \in Reasons
  BY DEF ??
<1> QED
  BY <1>1, <1>2, <1>3, <1>4, <1>5, <1>6, <1>7

\* A sequence of gates lets pass what each of them lets pass.
LEMMA FirstReason ==
    ASSUME NEW x, NEW y, x ?? y = None
    PROVE  x = None /\ y = None
BY DEF ??

\* A reading that passes the clock gate is a coherent instant.
LEMMA ClockGatePassed ==
    ASSUME NEW s, ClockGate(s) = None
    PROVE  Coherent(budget, s)
BY ReasonTypes, NoReasonAssumption DEF ClockGate

\* The cancellation gate passes only with an uncancelled token.
LEMMA CancelGatePassed ==
    ASSUME NEW where \in CancellationPhases, CancelGate(where) = None
    PROVE  ~cancelled
BY ReasonTypes, NoReasonAssumption DEF CancelGate

\* The flow gate passes only before the flow timeout.
LEMMA FlowGatePassed ==
    ASSUME NEW b, FlowGate(b) = None
    PROVE  ~FlowTimedOut(b)
BY ReasonTypes, NoReasonAssumption DEF FlowGate, Scopes

\* The limit gate passes only while every limit has room, so that
\* another attempt can be counted.
LEMMA LimitGatePassed ==
    ASSUME NEW b \in Budget, config \in Configs, NEW delay,
           LimitGate(b, delay) = None
    PROVE  /\ RetryLimit(b, config, delay) = None
           /\ b.attempts < config.max_attempts
<1>1. RetryLimit(b, config, delay) = None
  BY RetryLimitType, ReasonTypes, NoReasonAssumption DEF LimitGate, Optional
<1>2. ~(b.attempts >= config.max_attempts)
  BY <1>1, NoneAssumption DEF RetryLimit, Limits
<1>3. b.attempts \in Int /\ config.max_attempts \in Int
  BY ConfigsAssumption, MaxAssumption DEF Budget, Config, U32
<1> QED
  BY <1>1, <1>2, <1>3

\* The gates of each step stop the flow with a reason or let it pass.
LEMMA StepGateTypes ==
    ASSUME TypeOK, NEW s
    PROVE  /\ AdmissionGates(s) \in Reasons
           /\ \A where \in CancellationPhases : CallbackGates(s, where) \in Reasons
           /\ AdmissionCallbackGates(s) \in Reasons
           /\ PreparedCommitGates(s) \in Reasons
           /\ ScheduleGates(s) \in Reasons
           /\ BackoffGates(s) \in Reasons
           /\ \A decision : CallbackGates(s, "Backoff")
                               ?? DecisionGate(last_failure, decision) \in Reasons
<1>1. /\ ClockGate(s) \in Reasons
      /\ FlowGate(Accounted(budget, s)) \in Reasons
      /\ CancelGate("BeforeAttempt") \in Reasons
      /\ LimitGate(Accounted(budget, s), 0) \in Reasons
      /\ LimitGate(Accounted(budget, s), overlay.next_delay) \in Reasons
      /\ PlanGate(s) \in Reasons
  BY GateTypes DEF TypeOK, CancellationPhases
<1>2. \A where \in CancellationPhases : CallbackGates(s, where) \in Reasons
  BY <1>1, GateTypes DEF CallbackGates
<1>3. /\ CallbackGates(s, "BeforeAttempt") \in Reasons
      /\ CallbackGates(s, "Backoff") \in Reasons
  BY <1>2 DEF CancellationPhases
<1>4. AdmissionGates(s) \in Reasons /\ AdmissionCallbackGates(s) \in Reasons
  BY <1>1, <1>3, GateTypes DEF AdmissionGates, AdmissionCallbackGates
<1>5. PreparedCommitGates(s) \in Reasons
  BY <1>1, GateTypes DEF PreparedCommitGates
<1>6. ScheduleGates(s) \in Reasons /\ BackoffGates(s) \in Reasons
  BY <1>1, <1>3, GateTypes DEF ScheduleGates, BackoffGates
<1>7. \A decision : CallbackGates(s, "Backoff")
                       ?? DecisionGate(last_failure, decision) \in Reasons
  BY <1>3, GateTypes
<1> QED
  BY <1>2, <1>4, <1>5, <1>6, <1>7

\* A step that no gate stops has read a valid clock; an admission step has also
\* found an attempt left, a running deadline and no cancellation.
LEMMA StepGatesPassed ==
    ASSUME TypeOK, ElapsedCoherent(budget), NEW s \in Sample
    PROVE  /\ AdmissionGates(s) = None =>
                /\ Coherent(budget, s)
                /\ ~FlowTimedOut(Accounted(budget, s))
                /\ ~cancelled
                /\ RetryLimit(Accounted(budget, s), config, 0) = None
                /\ budget.attempts < config.max_attempts
           /\ PreparedCommitGates(s) = None =>
                /\ AdmissionGates(s) = None
                /\ PlanGate(s) = None
           /\ AdmissionCallbackGates(s) = None =>
                /\ Coherent(budget, s)
                /\ budget.attempts < config.max_attempts
                /\ ~FlowTimedOut(Accounted(budget, s))
<1>1. /\ Accounted(budget, s) \in Budget
      /\ Accounted(budget, s).attempts = budget.attempts
  BY AccountedCoherent DEF TypeOK
<1>2. ASSUME AdmissionGates(s) = None
      PROVE  /\ ClockGate(s) = None
             /\ FlowGate(Accounted(budget, s)) = None
             /\ CancelGate("BeforeAttempt") = None
             /\ LimitGate(Accounted(budget, s), 0) = None
  BY <1>2, FirstReason DEF AdmissionGates
<1>3. ASSUME AdmissionCallbackGates(s) = None
      PROVE  /\ ClockGate(s) = None
             /\ FlowGate(Accounted(budget, s)) = None
             /\ LimitGate(Accounted(budget, s), 0) = None
  BY <1>3, FirstReason DEF AdmissionCallbackGates, CallbackGates
<1>4. ASSUME PreparedCommitGates(s) = None
      PROVE  AdmissionGates(s) = None /\ PlanGate(s) = None
  BY <1>4 DEF PreparedCommitGates, AdmissionGates, ??
<1>5. "BeforeAttempt" \in CancellationPhases
  BY DEF CancellationPhases
<1>6. config \in Configs
  BY DEF TypeOK
<1>7. ASSUME AdmissionGates(s) = None
      PROVE  /\ Coherent(budget, s)
             /\ ~FlowTimedOut(Accounted(budget, s))
             /\ ~cancelled
             /\ RetryLimit(Accounted(budget, s), config, 0) = None
             /\ budget.attempts < config.max_attempts
  BY <1>1, <1>2, <1>5, <1>6, <1>7, ClockGatePassed, FlowGatePassed,
     CancelGatePassed, LimitGatePassed
<1>8. ASSUME AdmissionCallbackGates(s) = None
      PROVE  /\ Coherent(budget, s)
             /\ budget.attempts < config.max_attempts
             /\ ~FlowTimedOut(Accounted(budget, s))
  BY <1>1, <1>3, <1>6, <1>8, ClockGatePassed, FlowGatePassed, LimitGatePassed
<1> QED
  BY <1>4, <1>7, <1>8

-----------------------------------------------------------------------------
(***************************************************************************)
(* The inductive invariant.  TypeOK alone is not inductive: the elapsed    *)
(* times stay representable because of AccountingCoherent, the ordinals    *)
(* because an attempt is open exactly in phase Active, and a failure's     *)
(* ordinal is positive because it is that of an admitted attempt.          *)
(***************************************************************************)
IInv == TypeOK /\ AccountingCoherent /\ OverlayCoherent /\ FailureRetained

\* A context built from typed accounting and a typed overlay is typed.
LEMMA ContextTyped ==
    ASSUME NEW b \in Budget, ElapsedCoherent(b), NEW o \in Overlay
    PROVE  Context(b, o) \in ContextType
<1>1. TotalElapsed(b) \in Duration
  BY MaxAssumption DEF ElapsedCoherent, TotalElapsed, Budget, Instant, Duration
<1> QED
  BY <1>1 DEF Context, ContextType, Budget

\* Clearing the current attempt keeps the overlay typed.
LEMMA ClearedTyped ==
    ASSUME NEW o \in Overlay
    PROVE  /\ Cleared(o) \in Overlay
           /\ Cleared(o).current_attempt = None
           /\ Cleared(o).hard_attempt_timeout = None
           /\ Cleared(o).next_delay = o.next_delay
           /\ Cleared(o).retry_after_hint = o.retry_after_hint
BY DEF Cleared, Overlay, Optional

\* A flow that stops keeps the invariant, whatever its reason.
LEMMA TerminateStep ==
    ASSUME IInv,
           NEW reason \in Reason, NEW failure \in Optional(Failure),
           NEW b \in Budget, ElapsedCoherent(b),
           b.attempts <= config.max_attempts,
           NEW o \in Overlay,
           Terminate(reason, failure, b, o)
    PROVE  IInv'
<1>1. [reason |-> reason, last_failure |-> failure, context |-> Context(b, o)]
        \in Result
  BY ContextTyped DEF Result
<1>2. TypeOK'
  BY <1>1 DEF IInv, TypeOK, Terminate, Phases, Optional
<1>3. AccountingCoherent'
  BY DEF Terminate, AccountingCoherent, Terminal, ElapsedCoherent,
         HasActiveAttempt, TotalElapsed
<1>4. OverlayCoherent' /\ FailureRetained'
  BY DEF Terminate, OverlayCoherent, FailureRetained, Terminal, Admission, Handling
<1> QED
  BY <1>2, <1>3, <1>4 DEF IInv

\* Stopping the flow through Stop keeps the invariant.
LEMMA StopStep ==
    ASSUME IInv, NEW reason \in Reason, NEW s \in Sample, Stop(reason, s)
    PROVE  IInv'
BY TerminateStep, AccountedCoherent, ClearedTyped
   DEF Stop, IInv, TypeOK, AccountingCoherent

\* A step that moves on with the reading accounted and no attempt opened or
\* closed keeps the accounting and the types.
LEMMA ProceedStep ==
    ASSUME IInv, NEW s \in Sample, NEW next \in Phases, NEW o \in Overlay,
           phase \in Phases \ (Terminal \union {"Abandoned", "Active"}),
           next # "Active",
           Proceed(next, Accounted(budget, s), o)
    PROVE  /\ AccountingCoherent'
           /\ config' \in Configs /\ cancelled' \in BOOLEAN /\ phase' \in Phases
           /\ budget' \in Budget /\ overlay' \in Overlay
           /\ result' \in Optional(Result)
           /\ budget'.attempts = budget.attempts
<1>1. /\ Accounted(budget, s) \in Budget
      /\ ElapsedCoherent(Accounted(budget, s))
      /\ Accounted(budget, s).attempts = budget.attempts
      /\ ~HasActiveAttempt(Accounted(budget, s))
  BY AccountedCoherent DEF IInv, TypeOK, AccountingCoherent
<1>2. budget' = Accounted(budget, s) /\ phase' = next /\ config' = config
  BY DEF Proceed
<1>3. ElapsedCoherent(budget)' /\ ~HasActiveAttempt(budget)'
  BY <1>1, <1>2 DEF ElapsedCoherent, HasActiveAttempt, TotalElapsed
<1>4. AccountingCoherent'
  BY <1>1, <1>2, <1>3 DEF IInv, AccountingCoherent
<1> QED
  BY <1>1, <1>2, <1>4 DEF IInv, TypeOK, Proceed

\* before_attempt up to its observers keeps the invariant.
LEMMA BeforeAttemptStep ==
    ASSUME IInv, NEW s \in Sample, BeforeAttempt(s)
    PROVE  IInv'
<1>1. CASE AdmissionGates(s) # None
  <2>1. AdmissionGates(s) \in Reason
    BY <1>1, StepGateTypes DEF Reasons, Optional, IInv
  <2> QED
    BY <1>1, <2>1, StopStep DEF BeforeAttempt
<1>2. CASE AdmissionGates(s) = None
  <2> DEFINE b == Accounted(budget, s)
  <2>1. b.attempts = budget.attempts /\ budget.attempts < config.max_attempts
    BY <1>2, StepGatesPassed, AccountedCoherent
    DEF IInv, TypeOK, AccountingCoherent
  <2>2. budget.attempts \in U32 /\ budget.attempts + 1 \in U32
          /\ Successor(budget.attempts) = budget.attempts + 1
    BY <2>1, ConfigsAssumption, MaxAssumption
    DEF IInv, TypeOK, Config, Budget, U32, Successor
  <2>3. /\ AttemptOverlay(b) \in Overlay
        /\ AttemptOverlay(b).current_attempt = budget.attempts + 1
        /\ AttemptOverlay(b).hard_attempt_timeout = None
        /\ AttemptOverlay(b).next_delay = None
        /\ AttemptOverlay(b).retry_after_hint = None
    BY <2>1, <2>2 DEF AttemptOverlay, NoOverlay, Overlay, Optional
  <2>4. /\ Proceed("BeforeAttempt", b, AttemptOverlay(b))
        /\ UNCHANGED <<retry_index, last_failure, plan, due>>
        /\ phase = "Ready"
    BY <1>2 DEF BeforeAttempt
  <2>5. /\ "BeforeAttempt" \in Phases /\ "BeforeAttempt" # "Active"
        /\ phase \in Phases \ (Terminal \union {"Abandoned", "Active"})
    BY <2>4 DEF Phases, Terminal, CallbackPhases
  <2>6. /\ AccountingCoherent'
        /\ config' \in Configs /\ cancelled' \in BOOLEAN /\ phase' \in Phases
        /\ budget' \in Budget /\ overlay' \in Overlay
        /\ result' \in Optional(Result)
        /\ budget'.attempts = budget.attempts
    BY <2>3, <2>4, <2>5, ProceedStep
  <2>7. phase' = "BeforeAttempt" /\ overlay' = AttemptOverlay(b)
    BY <2>4 DEF Proceed
  <2>8. TypeOK'
    BY <2>4, <2>6 DEF IInv, TypeOK
  <2>9. OverlayCoherent'
    BY <2>3, <2>4, <2>6, <2>7 DEF IInv, OverlayCoherent, Admission, Handling
  <2>10. FailureRetained'
    BY <2>4, <2>6, <2>7 DEF IInv, FailureRetained, Terminal, Handling, FailedAttempt
  <2> QED
    BY <2>6, <2>8, <2>9, <2>10 DEF IInv
<1> QED
  BY <1>1, <1>2

\* before_attempt after its observers keeps the invariant.
LEMMA BeforeAttemptReturnedStep ==
    ASSUME IInv, NEW s \in Sample, BeforeAttemptReturned(s)
    PROVE  IInv'
<1>1. CASE AdmissionCallbackGates(s) # None
  <2>1. AdmissionCallbackGates(s) \in Reason
    BY <1>1, StepGateTypes DEF Reasons, Optional, IInv
  <2> QED
    BY <1>1, <2>1, StopStep DEF BeforeAttemptReturned
<1>2. CASE AdmissionCallbackGates(s) = None
  <2>1. /\ phase = "BeforeAttempt"
        /\ Proceed("Admitting", Accounted(budget, s), overlay)
        /\ UNCHANGED <<retry_index, last_failure, plan, due>>
    BY <1>2 DEF BeforeAttemptReturned
  <2>2. /\ "Admitting" \in Phases /\ "Admitting" # "Active"
        /\ phase \in Phases \ (Terminal \union {"Abandoned", "Active"})
    BY <2>1 DEF Phases, Terminal, CallbackPhases
  <2>3. /\ TypeOK' /\ AccountingCoherent'
        /\ budget'.attempts = budget.attempts
        /\ phase' = "Admitting" /\ overlay' = overlay
    BY <2>1, <2>2, ProceedStep DEF IInv, TypeOK, Proceed
  <2>4. OverlayCoherent'
    BY <2>1, <2>3 DEF IInv, OverlayCoherent, Admission, Handling
  <2>5. FailureRetained'
    BY <2>1, <2>3 DEF IInv, FailureRetained, Terminal, Handling, FailedAttempt
  <2> QED
    BY <2>3, <2>4, <2>5 DEF IInv
<1> QED
  BY <1>1, <1>2

\* record_failure after the attempt-failed observers keeps the invariant.
LEMMA AttemptFailedReturnedStep ==
    ASSUME IInv, NEW s \in Sample, AttemptFailedReturned(s)
    PROVE  IInv'
<1>1. CASE CallbackGates(s, "Backoff") # None
  <2>1. CallbackGates(s, "Backoff") \in Reason
    BY <1>1, StepGateTypes DEF Reasons, Optional, IInv, CancellationPhases
  <2> QED
    BY <1>1, <2>1, StopStep DEF AttemptFailedReturned
<1>2. CASE CallbackGates(s, "Backoff") = None
  <2>1. /\ phase = "AttemptFailed"
        /\ Proceed("RuleDecision", Accounted(budget, s), overlay)
        /\ UNCHANGED <<retry_index, last_failure, plan, due>>
    BY <1>2 DEF AttemptFailedReturned
  <2>2. /\ "RuleDecision" \in Phases /\ "RuleDecision" # "Active"
        /\ phase \in Phases \ (Terminal \union {"Abandoned", "Active"})
    BY <2>1 DEF Phases, Terminal, CallbackPhases
  <2>3. /\ TypeOK' /\ AccountingCoherent'
        /\ budget'.attempts = budget.attempts
        /\ phase' = "RuleDecision" /\ overlay' = overlay
    BY <2>1, <2>2, ProceedStep DEF IInv, TypeOK, Proceed
  <2>4. OverlayCoherent'
    BY <2>1, <2>3 DEF IInv, OverlayCoherent, Admission, Handling
  <2>5. FailureRetained'
    BY <2>1, <2>3 DEF IInv, FailureRetained, Terminal, Handling, FailedAttempt
  <2> QED
    BY <2>3, <2>4, <2>5 DEF IInv
<1> QED
  BY <1>1, <1>2

\* Checking the proposed delay keeps the invariant.
LEMMA ScheduleRetryStep ==
    ASSUME IInv, NEW s \in Sample, ScheduleRetry(s)
    PROVE  IInv'
<1>1. CASE ScheduleGates(s) # None
  <2>1. ScheduleGates(s) \in Reason
    BY <1>1, StepGateTypes DEF Reasons, Optional, IInv
  <2> QED
    BY <1>1, <2>1, StopStep DEF ScheduleRetry
<1>2. CASE ScheduleGates(s) = None
  <2>1. /\ phase = "Scheduling"
        /\ Proceed("RetryScheduled", Accounted(budget, s), overlay)
        /\ UNCHANGED <<retry_index, last_failure, plan, due>>
    BY <1>2 DEF ScheduleRetry
  <2>2. /\ "RetryScheduled" \in Phases /\ "RetryScheduled" # "Active"
        /\ phase \in Phases \ (Terminal \union {"Abandoned", "Active"})
    BY <2>1 DEF Phases, Terminal, CallbackPhases
  <2>3. /\ TypeOK' /\ AccountingCoherent'
        /\ budget'.attempts = budget.attempts
        /\ phase' = "RetryScheduled" /\ overlay' = overlay
    BY <2>1, <2>2, ProceedStep DEF IInv, TypeOK, Proceed
  <2>4. OverlayCoherent'
    BY <2>1, <2>3 DEF IInv, OverlayCoherent, Admission, Handling
  <2>5. FailureRetained'
    BY <2>1, <2>3 DEF IInv, FailureRetained, Terminal, Handling, FailedAttempt
  <2> QED
    BY <2>3, <2>4, <2>5 DEF IInv
<1> QED
  BY <1>1, <1>2

\* A panicking control callback keeps the invariant.
LEMMA CallbackPanickedStep ==
    ASSUME IInv, NEW s \in Sample, CallbackPanicked(s)
    PROVE  IInv'
<1>1. CallbackFailed(phase) \in Reason
  BY ReasonTypes DEF CallbackPanicked
<1> QED
  BY <1>1, TerminateStep, AccountedCoherent
  DEF CallbackPanicked, IInv, TypeOK, AccountingCoherent

\* Opening the attempt: the announced ordinal becomes the committed one.
LEMMA BeginStep ==
    ASSUME IInv, NEW s \in Sample, AdmissionGates(s) = None, Begin(s),
           phase \in {"Admitting", "Registering"}
    PROVE  IInv'
<1>1. Coherent(budget, s) /\ budget.attempts < config.max_attempts
  BY StepGatesPassed DEF IInv, AccountingCoherent
<1>2. ~HasActiveAttempt(budget)
  BY DEF IInv, AccountingCoherent, Terminal
<1>3. config.max_attempts \in U32
  BY ConfigsAssumption DEF IInv, TypeOK, Config
<1> DEFINE b == BeginAttempt(Accounted(budget, s), config, s)
<1>4. /\ b \in Budget /\ ElapsedCoherent(b) /\ HasActiveAttempt(b)
      /\ b.attempts = budget.attempts + 1
  BY <1>1, <1>2, <1>3, BeginCoherent DEF IInv, TypeOK, AccountingCoherent
<1>5. /\ phase' = "Active" /\ budget' = b /\ overlay' = overlay
      /\ config' = config /\ cancelled' = cancelled /\ result' = result
      /\ UNCHANGED <<retry_index, last_failure, plan, due>>
  BY DEF Begin, Proceed
<1>6. TypeOK'
  BY <1>4, <1>5 DEF IInv, TypeOK, Phases
<1>7. budget.attempts \in Int /\ config.max_attempts \in Int
  BY <1>3, MaxAssumption DEF IInv, TypeOK, Budget, U32
<1>8. AccountingCoherent'
  <2>1. ElapsedCoherent(budget)' /\ HasActiveAttempt(budget)'
    BY <1>4, <1>5 DEF ElapsedCoherent, HasActiveAttempt, TotalElapsed
  <2>2. (budget.attempts <= config.max_attempts)'
    BY <1>1, <1>4, <1>5, <1>7
  <2> QED
    BY <1>5, <2>1, <2>2 DEF AccountingCoherent
<1>9. OverlayCoherent'
  BY <1>4, <1>5 DEF IInv, OverlayCoherent, Admission, Handling
<1>10. FailureRetained'
  BY <1>4, <1>5, <1>7
  DEF IInv, FailureRetained, Terminal, Handling, FailedAttempt
<1> QED
  BY <1>6, <1>8, <1>9, <1>10 DEF IInv

\* commit_attempt keeps the invariant.
LEMMA CommitAttemptStep ==
    ASSUME IInv, NEW s \in Sample, CommitAttempt(s)
    PROVE  IInv'
<1>1. CASE AdmissionGates(s) # None
  <2>1. AdmissionGates(s) \in Reason
    BY <1>1, StepGateTypes DEF Reasons, Optional, IInv
  <2> QED
    BY <1>1, <2>1, StopStep DEF CommitAttempt
<1>2. CASE AdmissionGates(s) = None
  BY <1>2, BeginStep DEF CommitAttempt
<1> QED
  BY <1>1, <1>2

\* commit_prepared_attempt keeps the invariant.
LEMMA CommitPreparedAttemptStep ==
    ASSUME IInv, NEW s \in Sample, CommitPreparedAttempt(s)
    PROVE  IInv'
<1>1. CASE PreparedCommitGates(s) # None
  <2>1. PreparedCommitGates(s) \in Reason
    BY <1>1, StepGateTypes DEF Reasons, Optional, IInv
  <2> QED
    BY <1>1, <2>1, StopStep DEF CommitPreparedAttempt
<1>2. CASE PreparedCommitGates(s) = None
  <2>1. AdmissionGates(s) = None
    BY <1>2, StepGatesPassed DEF IInv, AccountingCoherent
  <2> QED
    BY <1>2, <2>1, BeginStep DEF CommitPreparedAttempt
<1> QED
  BY <1>1, <1>2

\* A selected timeout is a duration, and its deadline an instant if it has one.
LEMMA TimeoutTypes ==
    ASSUME TypeOK, ElapsedCoherent(budget),
           EffectiveTimeout(budget) # None
    PROVE  LET timeout == EffectiveTimeout(budget) IN
           /\ timeout.duration \in Duration
           /\ timeout.scope \in Scopes
           /\ TimeoutDeadline(budget, timeout) \in Optional(Instant)
<1>1. config \in Config
  BY ConfigsAssumption DEF TypeOK
<1>2. TotalElapsed(budget) \in Duration /\ budget.sampled_at \in Instant
        /\ budget.started_at \in Instant
  BY MaxAssumption
  DEF TypeOK, ElapsedCoherent, TotalElapsed, Budget, Instant, Duration
<1>3. config.flow_timeout # None =>
         config.flow_timeout \in Duration /\ FlowRemaining(budget) \in Duration
  BY <1>1, <1>2, MaxAssumption
  DEF Config, Optional, FlowRemaining, SaturatingSub, Duration
<1>4. config.attempt_timeout # None => config.attempt_timeout \in Duration
  BY <1>1 DEF Config, Optional
<1>5. FlowRemaining(budget) # None => config.flow_timeout # None
  BY DEF FlowRemaining
<1> DEFINE timeout == EffectiveTimeout(budget)
<1>6. \/ /\ timeout = [duration |-> config.attempt_timeout, scope |-> "Attempt"]
         /\ config.attempt_timeout # None
      \/ /\ timeout = [duration |-> FlowRemaining(budget), scope |-> "Flow"]
         /\ FlowRemaining(budget) # None
  BY DEF EffectiveTimeout
<1>7. \A x \in Instant, y \in Duration : CheckedAdd(x, y) \in Optional(Instant)
  BY MaxAssumption DEF CheckedAdd, Optional, Instant, Duration
<1>8. CASE /\ timeout = [duration |-> config.attempt_timeout, scope |-> "Attempt"]
           /\ config.attempt_timeout # None
  BY <1>2, <1>4, <1>7, <1>8 DEF TimeoutDeadline, Scopes
<1>9. CASE /\ timeout = [duration |-> FlowRemaining(budget), scope |-> "Flow"]
           /\ FlowRemaining(budget) # None
  BY <1>2, <1>3, <1>5, <1>7, <1>9 DEF TimeoutDeadline, FlowDeadline, Scopes
<1> QED
  BY <1>6, <1>8, <1>9

\* prepare_attempt keeps the invariant.
LEMMA PrepareAttemptStep ==
    ASSUME IInv, PrepareAttempt
    PROVE  IInv'
<1> DEFINE timeout == EffectiveTimeout(budget)
<1>1. CASE timeout # None /\ TimeoutDeadline(budget, timeout) = None
  BY <1>1, TerminateStep, ClearedTyped, ReasonTypes
  DEF PrepareAttempt, IInv, TypeOK, AccountingCoherent
<1>2. ASSUME NEW o \in Overlay,
             Proceed("Registering", budget, o),
             plan' \in Optional(Plan),
             UNCHANGED <<retry_index, last_failure, due>>,
             o.current_attempt = overlay.current_attempt,
             o.next_delay = overlay.next_delay,
             o.retry_after_hint = overlay.retry_after_hint,
             o.hard_attempt_timeout = IF plan' = None THEN None
                                                      ELSE plan'.duration,
             phase = "Admitting"
      PROVE  IInv'
  <2>1. TypeOK'
    BY <1>2 DEF IInv, TypeOK, Proceed, Phases
  <2>2. AccountingCoherent'
    BY <1>2 DEF IInv, AccountingCoherent, Proceed, Terminal, ElapsedCoherent,
                HasActiveAttempt, TotalElapsed
  <2>3. OverlayCoherent'
    BY <1>2 DEF IInv, OverlayCoherent, Proceed, Admission, Handling
  <2>4. FailureRetained'
    BY <1>2 DEF IInv, FailureRetained, Proceed, Terminal, Handling, FailedAttempt
  <2> QED
    BY <2>1, <2>2, <2>3, <2>4 DEF IInv
<1>3. CASE timeout = None
  <2>1. overlay.hard_attempt_timeout = None /\ phase = "Admitting"
    BY DEF IInv, OverlayCoherent, PrepareAttempt
  <2> QED
    BY <1>2, <1>3, <2>1 DEF PrepareAttempt, IInv, TypeOK, Optional
<1>4. CASE timeout # None /\ TimeoutDeadline(budget, timeout) # None
  <2> DEFINE o == [overlay EXCEPT !.hard_attempt_timeout = timeout.duration]
             p == [deadline |-> TimeoutDeadline(budget, timeout),
                   duration |-> timeout.duration,
                   scope    |-> timeout.scope]
  <2>1. /\ timeout.duration \in Duration /\ timeout.scope \in Scopes
        /\ TimeoutDeadline(budget, timeout) \in Instant
    BY <1>4, TimeoutTypes DEF IInv, AccountingCoherent, Optional
  <2>2. p \in Plan /\ p # None
    BY <2>1, NoReasonAssumption DEF Plan
  <2>3. /\ o \in Overlay
        /\ o.current_attempt = overlay.current_attempt
        /\ o.next_delay = overlay.next_delay
        /\ o.retry_after_hint = overlay.retry_after_hint
        /\ o.hard_attempt_timeout = p.duration
    BY <2>1 DEF IInv, TypeOK, Overlay, Optional
  <2>4. /\ Proceed("Registering", budget, o) /\ plan' = p
        /\ UNCHANGED <<retry_index, last_failure, due>>
        /\ phase = "Admitting"
    BY <1>4 DEF PrepareAttempt
  <2> QED
    BY <1>2, <2>2, <2>3, <2>4 DEF Optional
<1> QED
  BY <1>1, <1>3, <1>4

\* Infrastructure failures close whatever attempt is open.
LEMMA ClosedCoherent ==
    ASSUME IInv, NEW s \in Sample
    PROVE  /\ Closed(s) \in Budget
           /\ ElapsedCoherent(Closed(s))
           /\ Closed(s).attempts = budget.attempts
<1>1. CASE ~Coherent(budget, s)
  BY <1>1 DEF Closed, IInv, TypeOK, AccountingCoherent
<1>2. CASE Coherent(budget, s) /\ HasActiveAttempt(budget)
  BY <1>2, FinishCoherent DEF Closed, IInv, TypeOK, AccountingCoherent
<1>3. CASE Coherent(budget, s) /\ ~HasActiveAttempt(budget)
  BY <1>3, AccountedCoherent DEF Closed, Accounted, IInv, TypeOK, AccountingCoherent
<1> QED
  BY <1>1, <1>2, <1>3

\* Ending the flow with an infrastructure failure keeps the invariant.
LEMMA InfrastructureStep ==
    ASSUME IInv, NEW s \in Sample, NEW failure \in InfrastructureFailures,
           InactiveInfrastructure(failure, s) \/ ActiveInfrastructure(failure, s)
    PROVE  IInv'
<1>1. ClockGate(s) ?? Infrastructure(failure) \in Reason
  BY GateTypes, ReasonTypes, NoReasonAssumption DEF ??, Reasons, Optional
<1>2. Closed(s).attempts <= config.max_attempts
  BY ClosedCoherent DEF IInv, AccountingCoherent
<1> QED
  BY <1>1, <1>2, ClosedCoherent, ClearedTyped, TerminateStep
  DEF InactiveInfrastructure, ActiveInfrastructure, IInv, TypeOK

\* The steps that lose the timer, the threads or the worker.
LEMMA InfrastructureSteps ==
    ASSUME IInv, NEW s \in Sample,
           \/ RegistrationFailed(s)
           \/ AttemptTimerFailed(s)
           \/ WorkerLost(s)
           \/ BackoffTimerFailed(s)
    PROVE  IInv'
BY InfrastructureStep
   DEF RegistrationFailed, AttemptTimerFailed, WorkerLost, BackoffTimerFailed,
       InfrastructureFailures

\* Ending the attempt in phase Active.
LEMMA ActiveFinish ==
    ASSUME IInv, phase = "Active", NEW s \in Sample, Coherent(budget, s)
    PROVE  /\ FinishAttempt(budget, s) \in Budget
           /\ ElapsedCoherent(FinishAttempt(budget, s))
           /\ FinishAttempt(budget, s).attempts = budget.attempts
           /\ ~HasActiveAttempt(FinishAttempt(budget, s))
           /\ budget.attempts <= config.max_attempts
           /\ budget.attempts \in U32 \ {0}
<1>1. HasActiveAttempt(budget)
  BY DEF IInv, AccountingCoherent, Terminal
<1>2. budget.attempts \in U32 \ {0}
  BY <1>1, MaxAssumption
  DEF IInv, TypeOK, AccountingCoherent, ElapsedCoherent, Budget, U32
<1> QED
  BY <1>1, <1>2, FinishCoherent DEF IInv, TypeOK, AccountingCoherent

\* finish_success keeps the invariant.
LEMMA AttemptSucceededStep ==
    ASSUME IInv, NEW s \in Sample, AttemptSucceeded(s)
    PROVE  IInv'
<1>1. CASE ~Coherent(budget, s)
  BY <1>1, StopStep, ReasonTypes DEF AttemptSucceeded
<1>2. CASE Coherent(budget, s)
  <2>1. None \in Optional(Failure)
    BY DEF Optional
  <2> QED
    BY <1>2, <2>1, ActiveFinish, TerminateStep, ReasonTypes, ClearedTyped
    DEF AttemptSucceeded, IInv, TypeOK
<1> QED
  BY <1>1, <1>2

\* record_attempt_cancellation keeps the invariant.
LEMMA AttemptCancelledStep ==
    ASSUME IInv, NEW s \in Sample, AttemptCancelled(s)
    PROVE  IInv'
<1>1. CASE ~Coherent(budget, s)
  BY <1>1, StopStep, ReasonTypes DEF AttemptCancelled
<1>2. CASE Coherent(budget, s)
  <2>1. Cancelled("Attempt") \in Reason
    BY ReasonTypes DEF CancellationPhases
  <2> QED
    BY <1>2, <2>1, ActiveFinish, TerminateStep DEF AttemptCancelled, IInv, TypeOK
<1> QED
  BY <1>1, <1>2

\* A recorded failure is retained under the ordinal of its attempt.
LEMMA RecordFailureStep ==
    ASSUME IInv, phase = "Active", NEW s \in Sample, NEW kind \in FailureKinds,
           RecordFailure(kind, s)
    PROVE  IInv'
<1>1. budget.attempts \in U32 \ {0}
  <2>1. HasActiveAttempt(budget)
    BY DEF IInv, AccountingCoherent, Terminal
  <2> QED
    BY <2>1, MaxAssumption
    DEF IInv, TypeOK, AccountingCoherent, ElapsedCoherent, Budget, U32
<1>2. NewFailure(kind) \in Failure /\ NewFailure(kind).attempt = budget.attempts
  BY <1>1 DEF NewFailure, Failure
<1>3. NewFailure(kind) # None
  BY <1>2, NoReasonAssumption
<1>4. CASE ~Coherent(budget, s)
  BY <1>2, <1>4, TerminateStep, ReasonTypes, ClearedTyped
  DEF RecordFailure, IInv, TypeOK, AccountingCoherent, Optional
<1>5. CASE Coherent(budget, s)
  <2> DEFINE b == FinishAttempt(budget, s)
  <2>1. /\ b \in Budget /\ ElapsedCoherent(b)
        /\ b.attempts = budget.attempts /\ ~HasActiveAttempt(b)
        /\ budget.attempts <= config.max_attempts
    BY <1>5, ActiveFinish
  <2>2. /\ phase' = "AttemptFailed" /\ budget' = b /\ overlay' = overlay
        /\ last_failure' = NewFailure(kind)
        /\ UNCHANGED <<config, cancelled, result, retry_index, plan, due>>
    BY <1>5 DEF RecordFailure, Proceed
  <2>3. TypeOK'
    BY <1>2, <2>1, <2>2 DEF IInv, TypeOK, Phases, CallbackPhases, Optional
  <2>4. AccountingCoherent'
    BY <2>1, <2>2 DEF AccountingCoherent, ElapsedCoherent, HasActiveAttempt,
                      TotalElapsed
  <2>5. OverlayCoherent'
    BY <2>1, <2>2 DEF IInv, OverlayCoherent, Admission, Handling
  <2>6. FailureRetained'
    BY <1>2, <1>3, <2>1, <2>2
    DEF IInv, FailureRetained, Terminal, Handling, FailedAttempt
  <2> QED
    BY <2>3, <2>4, <2>5, <2>6 DEF IInv
<1> QED
  BY <1>4, <1>5

\* Each way an attempt can fail keeps the invariant.
LEMMA AttemptFailureSteps ==
    ASSUME IInv, NEW s \in Sample,
           \/ AttemptReturnedError(s)
           \/ AttemptPanicked(s)
           \/ AttemptTimedOut(s)
    PROVE  IInv'
BY RecordFailureStep
   DEF AttemptReturnedError, AttemptPanicked, AttemptTimedOut, FailureKinds

\* The backoff sequence advances with the attempt it follows.
LEMMA RuleDecidedStep ==
    ASSUME IInv, NEW s \in Sample, NEW decision \in Decisions,
           NEW hint \in Optional(Delays), NEW delay \in Delays,
           RuleDecided(s, decision, hint, delay)
    PROVE  IInv'
<1> DEFINE stop == CallbackGates(s, "Backoff") ?? DecisionGate(last_failure, decision)
<1>1. CASE stop # None
  <2>1. stop \in Reason
    BY <1>1, StepGateTypes DEF Reasons, Optional, IInv
  <2> QED
    BY <1>1, <2>1, StopStep DEF RuleDecided
<1>2. CASE stop = None
  <2> DEFINE o == [overlay EXCEPT !.retry_after_hint = hint, !.next_delay = delay]
  <2>1. hint \in Optional(Duration) /\ delay \in Duration /\ delay # None
    BY DelaysAssumption, NoneAssumption DEF Optional, Duration
  <2>2. /\ o \in Overlay
        /\ o.current_attempt = overlay.current_attempt
        /\ o.hard_attempt_timeout = overlay.hard_attempt_timeout
        /\ o.next_delay = delay
    BY <2>1 DEF IInv, TypeOK, Overlay, Optional
  <2>3. /\ phase = "RuleDecision"
        /\ Proceed("Scheduling", Accounted(budget, s), o)
        /\ retry_index' = Successor(retry_index)
        /\ UNCHANGED <<last_failure, plan, due>>
    BY <1>2 DEF RuleDecided
  <2>4. /\ "Scheduling" \in Phases /\ "Scheduling" # "Active"
        /\ phase \in Phases \ (Terminal \union {"Abandoned", "Active"})
    BY <2>3 DEF Phases, Terminal, CallbackPhases
  <2>5. /\ AccountingCoherent'
        /\ config' \in Configs /\ cancelled' \in BOOLEAN /\ phase' \in Phases
        /\ budget' \in Budget /\ overlay' \in Overlay
        /\ result' \in Optional(Result)
        /\ budget'.attempts = budget.attempts
    BY <2>2, <2>3, <2>4, ProceedStep
  <2>6. phase' = "Scheduling" /\ overlay' = o
    BY <2>3 DEF Proceed
  <2>7. retry_index' \in U32 /\ retry_index' = budget.attempts
    <3>1. /\ retry_index = budget.attempts - 1
          /\ budget.attempts \in U32 /\ retry_index \in U32
      BY <2>3 DEF IInv, TypeOK, FailureRetained, Terminal, Budget
    <3> QED
      BY <2>3, <3>1, MaxAssumption DEF Successor, U32
  <2>8. TypeOK'
    BY <2>3, <2>5, <2>7 DEF IInv, TypeOK
  <2>9. OverlayCoherent'
    BY <2>1, <2>2, <2>3, <2>5, <2>6 DEF IInv, OverlayCoherent, Admission, Handling
  <2>10. FailureRetained'
    BY <2>3, <2>5, <2>6, <2>7
    DEF IInv, FailureRetained, Terminal, Handling, FailedAttempt
  <2> QED
    BY <2>5, <2>8, <2>9, <2>10 DEF IInv
<1> QED
  BY <1>1, <1>2

\* A backoff deadline is an instant or None.
LEMMA BackoffDeadlineType ==
    ASSUME NEW b \in Budget, config \in Configs, NEW delay \in Duration
    PROVE  BackoffDeadline(b, delay) \in Optional(Instant)
<1>1. \A x \in Instant, y \in Duration : CheckedAdd(x, y) \in Optional(Instant)
  BY MaxAssumption DEF CheckedAdd, Optional, Instant, Duration
<1>2. b.sampled_at \in Instant /\ b.started_at \in Instant
  BY DEF Budget
<1>3. config.flow_timeout # None => FlowDeadline(b) \in Optional(Instant)
  BY <1>1, <1>2, ConfigsAssumption DEF FlowDeadline, Config, Optional
<1> QED
  BY <1>1, <1>2, <1>3 DEF BackoffDeadline

\* Fixing the backoff deadline keeps the invariant.
LEMMA RetryScheduledReturnedStep ==
    ASSUME IInv, NEW s \in Sample, RetryScheduledReturned(s)
    PROVE  IInv'
<1> DEFINE deadline == BackoffDeadline(Accounted(budget, s), overlay.next_delay)
<1>1. CASE BackoffGates(s) # None
  <2>1. BackoffGates(s) \in Reason
    BY <1>1, StepGateTypes DEF Reasons, Optional, IInv
  <2> QED
    BY <1>1, <2>1, StopStep DEF RetryScheduledReturned
<1>2. CASE BackoffGates(s) = None /\ deadline = None
  BY <1>2, StopStep, ReasonTypes DEF RetryScheduledReturned
<1>3. CASE BackoffGates(s) = None /\ deadline # None
  <2>1. /\ phase = "RetryScheduled"
        /\ Proceed("Backoff", Accounted(budget, s), Cleared(overlay))
        /\ due' = deadline /\ plan' = None
        /\ UNCHANGED <<retry_index, last_failure>>
    BY <1>3 DEF RetryScheduledReturned
  <2>2. /\ "Backoff" \in Phases /\ "Backoff" # "Active"
        /\ phase \in Phases \ (Terminal \union {"Abandoned", "Active"})
    BY <2>1 DEF Phases, Terminal, CallbackPhases
  <2>3. overlay.next_delay \in Duration /\ overlay.next_delay # None
    BY <2>1 DEF IInv, TypeOK, OverlayCoherent, Overlay, Optional
  <2>4. deadline \in Optional(Instant)
    BY <2>3, BackoffDeadlineType, AccountedCoherent
    DEF IInv, TypeOK, AccountingCoherent
  <2>5. /\ Cleared(overlay) \in Overlay
        /\ Cleared(overlay).current_attempt = None
        /\ Cleared(overlay).hard_attempt_timeout = None
        /\ Cleared(overlay).next_delay = overlay.next_delay
    BY ClearedTyped DEF IInv, TypeOK
  <2>6. /\ AccountingCoherent'
        /\ config' \in Configs /\ cancelled' \in BOOLEAN /\ phase' \in Phases
        /\ budget' \in Budget /\ overlay' \in Overlay
        /\ result' \in Optional(Result)
        /\ budget'.attempts = budget.attempts
    BY <2>1, <2>2, <2>5, ProceedStep
  <2>7. phase' = "Backoff" /\ overlay' = Cleared(overlay)
    BY <2>1 DEF Proceed
  <2>8. TypeOK'
    BY <2>1, <2>4, <2>6 DEF IInv, TypeOK, Optional
  <2>9. OverlayCoherent'
    BY <2>1, <2>3, <2>5, <2>7 DEF OverlayCoherent, Admission, Handling
  <2>10. FailureRetained'
    BY <2>1, <2>6, <2>7
    DEF IInv, FailureRetained, Terminal, Handling, FailedAttempt
  <2> QED
    BY <2>6, <2>8, <2>9, <2>10 DEF IInv
<1> QED
  BY <1>1, <1>2, <1>3

\* check_backoff_ready keeps the invariant.
LEMMA CheckBackoffReadyStep ==
    ASSUME IInv, NEW s \in Sample, CheckBackoffReady(s)
    PROVE  IInv'
<1>1. CASE CallbackGates(s, "Backoff") # None
  <2>1. CallbackGates(s, "Backoff") \in Reason
    BY <1>1, StepGateTypes DEF Reasons, Optional, IInv, CancellationPhases
  <2> QED
    BY <1>1, <2>1, StopStep DEF CheckBackoffReady
<1>2. CASE CallbackGates(s, "Backoff") = None
  <2> DEFINE next == IF DeadlineReached(s) THEN "Ready" ELSE "Backoff"
  <2>1. /\ phase = "Backoff"
        /\ Proceed(next, Accounted(budget, s), overlay)
        /\ UNCHANGED <<retry_index, last_failure, plan, due>>
    BY <1>2 DEF CheckBackoffReady
  <2>2. /\ next \in Phases /\ next # "Active"
        /\ phase \in Phases \ (Terminal \union {"Abandoned", "Active"})
    BY <2>1 DEF Phases, Terminal, CallbackPhases
  <2>3. /\ TypeOK' /\ AccountingCoherent'
        /\ budget'.attempts = budget.attempts
        /\ phase' \in {"Ready", "Backoff"} /\ overlay' = overlay
    BY <2>1, <2>2, ProceedStep DEF IInv, TypeOK, Proceed
  <2>4. OverlayCoherent'
    BY <2>1, <2>3 DEF IInv, OverlayCoherent, Admission, Handling
  <2>5. FailureRetained'
    BY <2>1, <2>3 DEF IInv, FailureRetained, Terminal, Handling, FailedAttempt
  <2> QED
    BY <2>3, <2>4, <2>5 DEF IInv
<1> QED
  BY <1>1, <1>2

\* The end of a backoff wait keeps the invariant.
LEMMA BackoffElapsedStep ==
    ASSUME IInv, BackoffElapsed
    PROVE  IInv'
<1>1. TypeOK'
  BY DEF BackoffElapsed, Proceed, IInv, TypeOK, Phases
<1>2. AccountingCoherent'
  BY DEF BackoffElapsed, Proceed, IInv, AccountingCoherent, Terminal,
         ElapsedCoherent, HasActiveAttempt, TotalElapsed
<1>3. OverlayCoherent'
  BY DEF BackoffElapsed, Proceed, IInv, OverlayCoherent, Admission, Handling
<1>4. FailureRetained'
  BY DEF BackoffElapsed, Proceed, IInv, FailureRetained, Terminal, Handling,
         FailedAttempt
<1> QED
  BY <1>1, <1>2, <1>3, <1>4 DEF IInv

\* record_backoff_cancellation keeps the invariant.
LEMMA BackoffCancelledStep ==
    ASSUME IInv, NEW s \in Sample, BackoffCancelled(s)
    PROVE  IInv'
<1>1. CASE ~Coherent(budget, s)
  BY <1>1, StopStep, ReasonTypes DEF BackoffCancelled
<1>2. CASE Coherent(budget, s)
  <2>1. Cancelled("Backoff") \in Reason
    BY ReasonTypes DEF CancellationPhases
  <2>2. Refresh(budget, s) = Accounted(budget, s)
    BY <1>2 DEF Accounted
  <2> QED
    BY <1>2, <2>1, <2>2, TerminateStep, AccountedCoherent
    DEF BackoffCancelled, IInv, TypeOK, AccountingCoherent
<1> QED
  BY <1>1, <1>2

\* Completion, cancellation and abandonment touch nothing the flow owns.
LEMMA EnvironmentStep ==
    ASSUME IInv, Complete \/ Cancel \/ Abandon \/ UNCHANGED vars
    PROVE  IInv'
<1>1. /\ UNCHANGED <<config, budget, retry_index, overlay, last_failure, plan,
                     due, result>>
      /\ phase' \in Phases /\ cancelled' \in BOOLEAN
      /\ phase' = phase \/ phase' \in {"Completed", "Abandoned"}
  BY DEF Complete, Cancel, Abandon, vars, IInv, TypeOK, Phases
<1>2. TypeOK'
  BY <1>1 DEF IInv, TypeOK
<1>3. AccountingCoherent'
  BY <1>1 DEF IInv, AccountingCoherent, Terminal, ElapsedCoherent,
              HasActiveAttempt, TotalElapsed
<1>4. OverlayCoherent'
  BY <1>1 DEF IInv, OverlayCoherent, Admission, Handling
<1>5. FailureRetained'
  BY <1>1 DEF IInv, FailureRetained, Terminal, Handling, FailedAttempt
<1> QED
  BY <1>2, <1>3, <1>4, <1>5 DEF IInv

\* A new flow satisfies the invariant.
LEMMA InitIInv ==
    ASSUME Init
    PROVE  IInv
<1> PICK start \in Starts : budget = NewBudget(start)
  BY DEF Init
<1>1. start \in Instant /\ 0 \in Duration /\ 0 \in U32
  BY StartsAssumption, MaxAssumption DEF Duration, U32
<1>2. budget \in Budget
  BY <1>1 DEF NewBudget, Budget, Optional
<1>3. TypeOK
  BY <1>1, <1>2 DEF Init, TypeOK, NoOverlay, Overlay, Optional, Phases
<1>4. AccountingCoherent
  BY <1>1, <1>3, ConfigsAssumption, MaxAssumption
  DEF Init, TypeOK, AccountingCoherent, ElapsedCoherent, NewBudget,
      HasActiveAttempt, TotalElapsed, Instant, Config, U32
<1>5. OverlayCoherent /\ FailureRetained
  BY DEF Init, OverlayCoherent, FailureRetained, NoOverlay, NewBudget,
         FailedAttempt, Admission, Handling
<1> QED
  BY <1>3, <1>4, <1>5 DEF IInv

\* Every step of the flow keeps the invariant.
LEMMA NextIInv ==
    ASSUME IInv, [Next]_vars
    PROVE  IInv'
<1>1. ASSUME NEW s \in Sample, Step(s)
      PROVE  IInv'
  BY <1>1, BeforeAttemptStep, BeforeAttemptReturnedStep, CallbackPanickedStep,
     CommitAttemptStep, CommitPreparedAttemptStep, InfrastructureSteps,
     AttemptSucceededStep, AttemptFailureSteps, AttemptCancelledStep,
     AttemptFailedReturnedStep, RuleDecidedStep, ScheduleRetryStep,
     RetryScheduledReturnedStep, CheckBackoffReadyStep, BackoffCancelledStep
  DEF Step
<1> QED
  BY <1>1, PrepareAttemptStep, BackoffElapsedStep, EnvironmentStep DEF Next, Done

\* The invariants hold in every state of every flow.
THEOREM Invariance == Spec => []IInv
<1>1. Init => IInv
  BY InitIInv
<1>2. IInv /\ [Next]_vars => IInv'
  BY NextIInv
<1> QED
  BY <1>1, <1>2, PTL DEF Spec

\* Types are kept: in particular elapsed times stay representable and every
\* deadline handed to a timer is an instant of the clock's domain.
THEOREM TypeCorrect == Spec => []TypeOK
<1>1. IInv => TypeOK
  BY DEF IInv
<1> QED
  BY <1>1, Invariance, PTL

\* The accounting stays coherent under every clock, attempts never exceed
\* max_attempts, and no assertion or expect of RetryBudgetState fires.
THEOREM AccountingTheorem == Spec => []AccountingCoherent
<1>1. IInv => AccountingCoherent
  BY DEF IInv
<1> QED
  BY <1>1, Invariance, PTL

\* Every callback is told the right attempt, timeout and delay.
THEOREM OverlayTheorem == Spec => []OverlayCoherent
<1>1. IInv => OverlayCoherent
  BY DEF IInv
<1> QED
  BY <1>1, Invariance, PTL

\* The failure of the latest failed attempt is never lost or replaced, and the
\* backoff sequence advances once per retry.
THEOREM FailureTheorem == Spec => []FailureRetained
<1>1. IInv => FailureRetained
  BY DEF IInv
<1> QED
  BY <1>1, Invariance, PTL

-----------------------------------------------------------------------------
(***************************************************************************)
(* Action properties.  A step changes the accounting in one of three ways. *)
(***************************************************************************)
Sampled(s)  == budget' = Accounted(budget, s)
Finished(s) == /\ Coherent(budget, s)
               /\ HasActiveAttempt(budget)
               /\ budget' = FinishAttempt(budget, s)
Admitted(s) == /\ AdmissionGates(s) = None
               /\ PlanGate(s) = None
               /\ budget' = BeginAttempt(Accounted(budget, s), config, s)

\* What a clock-reading step may do to the accounting: refresh it, open an
\* attempt or close one.
LEMMA AccountingSteps ==
    ASSUME IInv, NEW s \in Sample, Step(s)
    PROVE  Sampled(s) \/ Finished(s) \/ Admitted(s)
<1>1. ASSUME NEW reason, Stop(reason, s)
      PROVE  Sampled(s)
  BY <1>1 DEF Stop, Terminate, Sampled
<1>2. ASSUME NEW failure,
             InactiveInfrastructure(failure, s) \/ ActiveInfrastructure(failure, s)
      PROVE  Sampled(s) \/ Finished(s)
  BY <1>2 DEF InactiveInfrastructure, ActiveInfrastructure, Terminate, Closed,
              Sampled, Finished, Accounted
<1>3. ASSUME phase = "Active"
      PROVE  HasActiveAttempt(budget)
  BY <1>3 DEF IInv, AccountingCoherent, Terminal
<1>4. ASSUME NEW kind, phase = "Active", RecordFailure(kind, s)
      PROVE  Sampled(s) \/ Finished(s)
  BY <1>3, <1>4 DEF RecordFailure, Proceed, Terminate, Sampled, Finished, Accounted
<1>5. ASSUME BeforeAttempt(s) \/ BeforeAttemptReturned(s) \/ CallbackPanicked(s)
      PROVE  Sampled(s)
  BY <1>1, <1>5 DEF BeforeAttempt, BeforeAttemptReturned, CallbackPanicked,
                    Proceed, Terminate, Sampled
<1>6. ASSUME CommitAttempt(s)
      PROVE  Sampled(s) \/ Admitted(s)
  <2>1. PlanGate(s) = None
    BY <1>6 DEF CommitAttempt, IInv, OverlayCoherent, PlanGate
  <2> QED
    BY <1>1, <1>6, <2>1 DEF CommitAttempt, Begin, Proceed, Admitted
<1>7. ASSUME CommitPreparedAttempt(s)
      PROVE  Sampled(s) \/ Admitted(s)
  BY <1>1, <1>7, StepGatesPassed
  DEF CommitPreparedAttempt, Begin, Proceed, Admitted, IInv, AccountingCoherent
<1>8. ASSUME \/ RegistrationFailed(s) \/ AttemptTimerFailed(s)
             \/ WorkerLost(s) \/ BackoffTimerFailed(s)
      PROVE  Sampled(s) \/ Finished(s)
  BY <1>2, <1>8
  DEF RegistrationFailed, AttemptTimerFailed, WorkerLost, BackoffTimerFailed
<1>9. ASSUME AttemptSucceeded(s) \/ AttemptCancelled(s)
      PROVE  Sampled(s) \/ Finished(s)
  BY <1>1, <1>3, <1>9 DEF AttemptSucceeded, AttemptCancelled, Terminate, Finished
<1>10. ASSUME AttemptReturnedError(s) \/ AttemptPanicked(s) \/ AttemptTimedOut(s)
       PROVE  Sampled(s) \/ Finished(s)
  BY <1>4, <1>10 DEF AttemptReturnedError, AttemptPanicked, AttemptTimedOut
<1>11. ASSUME NEW decision, NEW hint, NEW delay, RuleDecided(s, decision, hint, delay)
       PROVE  Sampled(s)
  BY <1>1, <1>11 DEF RuleDecided, Proceed, Sampled
<1>12. ASSUME \/ AttemptFailedReturned(s) \/ ScheduleRetry(s)
              \/ RetryScheduledReturned(s) \/ CheckBackoffReady(s)
       PROVE  Sampled(s)
  BY <1>1, <1>12 DEF AttemptFailedReturned, ScheduleRetry, RetryScheduledReturned,
                     CheckBackoffReady, Proceed, Sampled
<1>13. ASSUME BackoffCancelled(s)
       PROVE  Sampled(s)
  BY <1>1, <1>13 DEF BackoffCancelled, Terminate, Sampled, Accounted
<1> QED
  BY <1>5, <1>6, <1>7, <1>8, <1>9, <1>10, <1>11, <1>12, <1>13 DEF Step

\* The steps without a clock reading leave the accounting alone.
LEMMA QuietSteps ==
    ASSUME PrepareAttempt \/ BackoffElapsed \/ Complete \/ Cancel \/ Abandon \/ Done
    PROVE  budget' = budget
BY DEF PrepareAttempt, BackoffElapsed, Complete, Cancel, Abandon, Done, Proceed,
       Terminate, vars

\* An attempt starts only at a reading at which the token is not cancelled and
\* every limit and deadline still holds.
THEOREM AdmissionTheorem == Spec => AdmissionSafe
<1> DEFINE Safe == budget'.attempts # budget.attempts =>
              /\ budget'.attempts = budget.attempts + 1
              /\ ~cancelled
              /\ ~FlowTimedOut(budget')
              /\ plan # None => budget'.sampled_at < plan.deadline
              /\ RetryLimit(Refresh(budget, budget'.sampled_at), config, 0) = None
<1>1. ASSUME IInv, NEW s \in Sample, Step(s)
      PROVE  Safe
  <2>1. CASE Sampled(s)
    BY <1>1, <2>1, AccountedCoherent DEF Sampled, IInv, TypeOK, AccountingCoherent
  <2>2. CASE Finished(s)
    BY <1>1, <2>2, FinishCoherent DEF Finished, IInv, TypeOK, AccountingCoherent
  <2>3. CASE Admitted(s)
    <3>1. /\ Coherent(budget, s) /\ ~cancelled
          /\ ~FlowTimedOut(Accounted(budget, s))
          /\ RetryLimit(Accounted(budget, s), config, 0) = None
          /\ budget.attempts < config.max_attempts
      BY <1>1, <2>3, StepGatesPassed DEF Admitted, IInv, AccountingCoherent
    <3>2. /\ Accounted(budget, s) = Refresh(budget, s)
          /\ Refresh(budget, s).sampled_at = s
          /\ Refresh(budget, s).started_at = budget.started_at
          /\ Refresh(budget, s).attempts = budget.attempts
      BY <1>1, <3>1 DEF Accounted, Refresh, IInv, TypeOK, Budget
    <3>3. /\ budget'.sampled_at = s
          /\ budget'.started_at = budget.started_at
          /\ budget'.attempts = budget.attempts + 1
      BY <1>1, <2>3, <3>1, <3>2
      DEF Admitted, BeginAttempt, Refresh, IInv, TypeOK, Budget
    <3>4. ~FlowTimedOut(budget')
      BY <3>1, <3>2, <3>3 DEF FlowTimedOut, TotalElapsed
    <3>5. plan # None => s < plan.deadline
      <4>1. SUFFICES ASSUME plan # None PROVE s < plan.deadline
        OBVIOUS
      <4>2. plan \in Plan
        BY <1>1, <4>1 DEF IInv, TypeOK, Optional
      <4>3. ~(s >= plan.deadline)
        BY <2>3, <4>1, <4>2, ReasonTypes, NoReasonAssumption
        DEF Admitted, PlanGate, Plan
      <4>4. s \in Int /\ plan.deadline \in Int
        BY <3>1, <4>2, MaxAssumption DEF Coherent, Sample, Instant, Plan
      <4> QED
        BY <4>3, <4>4
    <3> QED
      BY <3>1, <3>2, <3>3, <3>4, <3>5
  <2> QED
    BY <1>1, <2>1, <2>2, <2>3, AccountingSteps
<1>2. IInv /\ [Next]_vars => [Safe]_vars
  BY <1>1, QuietSteps DEF Next
<1> QED
  BY <1>2, Invariance, PTL DEF Spec, AdmissionSafe

\* Elapsed times never go back, and each attempt is charged once, by the step
\* that closes it, with exactly the time since it began.
THEOREM ElapsedTheorem == Spec => ElapsedMonotonic
<1> DEFINE Monotonic ==
              /\ budget'.sampled_at >= budget.sampled_at
              /\ budget'.operation_elapsed # budget.operation_elapsed =>
                    /\ HasActiveAttempt(budget) /\ ~HasActiveAttempt(budget')
                    /\ budget'.operation_elapsed - budget.operation_elapsed
                          = budget'.sampled_at - budget.attempt_started_at
<1>1. IInv => /\ budget \in Budget /\ ElapsedCoherent(budget)
              /\ budget.sampled_at \in Int
  BY MaxAssumption DEF IInv, TypeOK, AccountingCoherent, Budget, Instant
<1>2. ASSUME IInv, NEW s \in Sample, Step(s)
      PROVE  Monotonic
  <2>1. CASE Sampled(s)
    BY <1>1, <1>2, <2>1 DEF Sampled, Accounted, Refresh, Coherent, Sample, Budget
  <2>2. CASE Finished(s)
    <3>1. /\ budget'.operation_elapsed =
                budget.operation_elapsed + (s - budget.attempt_started_at)
          /\ ~HasActiveAttempt(budget')
      BY <1>1, <1>2, <2>2, FinishCoherent DEF Finished
    <3>2. budget'.sampled_at = s /\ s >= budget.sampled_at
      BY <1>1, <1>2, <2>2 DEF Finished, FinishAttempt, Coherent, Budget
    <3>3. /\ budget.operation_elapsed \in Int /\ s \in Int
          /\ budget.attempt_started_at \in Int
      BY <1>1, <1>2, <2>2, MaxAssumption
      DEF Finished, Coherent, Sample, HasActiveAttempt, Budget, Optional, Instant,
          Duration
    <3> QED
      BY <2>2, <3>1, <3>2, <3>3 DEF Finished
  <2>3. CASE Admitted(s)
    <3>1. Coherent(budget, s)
      BY <1>1, <1>2, <2>3, StepGatesPassed DEF Admitted, IInv
    <3>2. /\ budget'.sampled_at = s
          /\ budget'.operation_elapsed = budget.operation_elapsed
      BY <1>1, <1>2, <2>3, <3>1 DEF Admitted, BeginAttempt, Accounted, Refresh, Budget
    <3> QED
      BY <3>1, <3>2 DEF Coherent
  <2> QED
    BY <1>2, <2>1, <2>2, <2>3, AccountingSteps
<1>3. IInv /\ [Next]_vars => [Monotonic]_vars
  BY <1>1, <1>2, QuietSteps DEF Next
<1> QED
  BY <1>3, Invariance, PTL DEF Spec, ElapsedMonotonic

-----------------------------------------------------------------------------
(***************************************************************************)
(* Deadlines.  The plan and the backoff deadline are capped when they are  *)
(* made; what they are measured against (the definition and the start of   *)
(* the flow) never changes.                                                *)
(***************************************************************************)

\* How a step reaches the phases in which deadlines are made or used.
LEMMA Arrivals ==
    ASSUME NEW s \in Sample, Step(s)
    PROVE  /\ phase' = "Ready" => CheckBackoffReady(s)
           /\ phase' = "BeforeAttempt" => BeforeAttempt(s)
           /\ phase' = "Admitting" => BeforeAttemptReturned(s)
           /\ phase' # "Registering"
           /\ phase' = "Active" => CommitAttempt(s) \/ CommitPreparedAttempt(s)
           /\ phase' = "AttemptFailed" =>
                 AttemptReturnedError(s) \/ AttemptPanicked(s) \/ AttemptTimedOut(s)
           /\ phase' = "RuleDecision" => AttemptFailedReturned(s)
           /\ phase' = "Backoff" => RetryScheduledReturned(s) \/ CheckBackoffReady(s)
<1>1. ASSUME NEW reason, Stop(reason, s) PROVE phase' = "Finished"
  BY <1>1 DEF Stop, Terminate
<1>2. ASSUME NEW failure,
             InactiveInfrastructure(failure, s) \/ ActiveInfrastructure(failure, s)
      PROVE  phase' = "Finished"
  BY <1>2 DEF InactiveInfrastructure, ActiveInfrastructure, Terminate
<1>3. ASSUME NEW kind, RecordFailure(kind, s)
      PROVE  phase' \in {"Finished", "AttemptFailed"}
  BY <1>3 DEF RecordFailure, Proceed, Terminate
<1>4. ASSUME \/ RegistrationFailed(s) \/ AttemptTimerFailed(s)
             \/ WorkerLost(s) \/ BackoffTimerFailed(s)
      PROVE  phase' = "Finished"
  BY <1>2, <1>4
  DEF RegistrationFailed, AttemptTimerFailed, WorkerLost, BackoffTimerFailed
<1>5. ASSUME \/ CallbackPanicked(s) \/ AttemptSucceeded(s)
             \/ AttemptCancelled(s) \/ BackoffCancelled(s)
      PROVE  phase' = "Finished"
  BY <1>1, <1>5 DEF CallbackPanicked, AttemptSucceeded, AttemptCancelled,
                    BackoffCancelled, Terminate
<1>6. ASSUME AttemptReturnedError(s) \/ AttemptPanicked(s) \/ AttemptTimedOut(s)
      PROVE  phase' \in {"Finished", "AttemptFailed"}
  BY <1>3, <1>6 DEF AttemptReturnedError, AttemptPanicked, AttemptTimedOut
<1>7. /\ BeforeAttempt(s) => phase' \in {"Finished", "BeforeAttempt"}
      /\ BeforeAttemptReturned(s) => phase' \in {"Finished", "Admitting"}
      /\ CommitAttempt(s) => phase' \in {"Finished", "Active"}
      /\ CommitPreparedAttempt(s) => phase' \in {"Finished", "Active"}
  BY <1>1 DEF BeforeAttempt, BeforeAttemptReturned, CommitAttempt,
              CommitPreparedAttempt, Begin, Proceed
<1>8. /\ AttemptFailedReturned(s) => phase' \in {"Finished", "RuleDecision"}
      /\ ScheduleRetry(s) => phase' \in {"Finished", "RetryScheduled"}
      /\ RetryScheduledReturned(s) => phase' \in {"Finished", "Backoff"}
      /\ CheckBackoffReady(s) => phase' \in {"Finished", "Ready", "Backoff"}
  BY <1>1 DEF AttemptFailedReturned, ScheduleRetry, RetryScheduledReturned,
              CheckBackoffReady, Proceed
<1>9. ASSUME NEW decision, NEW hint, NEW delay, RuleDecided(s, decision, hint, delay)
      PROVE  phase' \in {"Finished", "Scheduling"}
  BY <1>1, <1>9 DEF RuleDecided, Proceed
<1> QED
  BY <1>4, <1>5, <1>6, <1>7, <1>8, <1>9 DEF Step

\* What a clock-reading step leaves alone: the definition, the token and, but
\* for the step that starts a wait, the plan and the deadline.
LEMMA StepMoves ==
    ASSUME NEW s \in Sample, Step(s)
    PROVE  /\ UNCHANGED <<config, cancelled>>
           /\ \/ UNCHANGED <<plan, due>>
              \/ plan' = None /\ phase = "RetryScheduled" /\ phase' = "Backoff"
<1>1. ASSUME NEW reason, Stop(reason, s)
      PROVE  UNCHANGED <<config, cancelled, plan, due>>
  BY <1>1 DEF Stop, Terminate
<1>2. ASSUME NEW failure,
             InactiveInfrastructure(failure, s) \/ ActiveInfrastructure(failure, s)
      PROVE  UNCHANGED <<config, cancelled, plan, due>>
  BY <1>2 DEF InactiveInfrastructure, ActiveInfrastructure, Terminate
<1>3. ASSUME NEW kind, RecordFailure(kind, s)
      PROVE  UNCHANGED <<config, cancelled, plan, due>>
  BY <1>3 DEF RecordFailure, Proceed, Terminate
<1>4. ASSUME \/ RegistrationFailed(s) \/ AttemptTimerFailed(s)
             \/ WorkerLost(s) \/ BackoffTimerFailed(s)
             \/ AttemptReturnedError(s) \/ AttemptPanicked(s) \/ AttemptTimedOut(s)
      PROVE  UNCHANGED <<config, cancelled, plan, due>>
  BY <1>2, <1>3, <1>4
  DEF RegistrationFailed, AttemptTimerFailed, WorkerLost, BackoffTimerFailed,
      AttemptReturnedError, AttemptPanicked, AttemptTimedOut
<1>5. ASSUME \/ CallbackPanicked(s) \/ AttemptSucceeded(s)
             \/ AttemptCancelled(s) \/ BackoffCancelled(s)
      PROVE  UNCHANGED <<config, cancelled, plan, due>>
  BY <1>1, <1>5 DEF CallbackPanicked, AttemptSucceeded, AttemptCancelled,
                    BackoffCancelled, Terminate
<1>6. ASSUME \/ BeforeAttempt(s) \/ BeforeAttemptReturned(s)
             \/ CommitAttempt(s) \/ CommitPreparedAttempt(s)
             \/ AttemptFailedReturned(s) \/ ScheduleRetry(s) \/ CheckBackoffReady(s)
      PROVE  UNCHANGED <<config, cancelled, plan, due>>
  BY <1>1, <1>6 DEF BeforeAttempt, BeforeAttemptReturned, CommitAttempt,
       CommitPreparedAttempt, AttemptFailedReturned, ScheduleRetry,
       CheckBackoffReady, Begin, Proceed
<1>7. ASSUME NEW decision, NEW hint, NEW delay, RuleDecided(s, decision, hint, delay)
      PROVE  UNCHANGED <<config, cancelled, plan, due>>
  BY <1>1, <1>7 DEF RuleDecided, Proceed
<1>8. ASSUME RetryScheduledReturned(s)
      PROVE  /\ UNCHANGED <<config, cancelled>>
             /\ \/ UNCHANGED <<plan, due>>
                \/ plan' = None /\ phase = "RetryScheduled" /\ phase' = "Backoff"
  BY <1>1, <1>8 DEF RetryScheduledReturned, Proceed
<1> QED
  BY <1>4, <1>5, <1>6, <1>7, <1>8 DEF Step

\* What no step changes, and which steps change the plan and the deadline.
LEMMA Moves ==
    ASSUME IInv, [Next]_vars
    PROVE  /\ config' = config
           /\ cancelled => cancelled'
           /\ budget'.started_at = budget.started_at
           /\ budget'.sampled_at >= budget.sampled_at
           /\ budget'.attempts >= budget.attempts
           /\ plan' = plan \/ plan' = None \/ PrepareAttempt
           /\ due' = due \/ (phase = "RetryScheduled" /\ phase' = "Backoff")
<1>1. /\ budget \in Budget /\ ElapsedCoherent(budget)
      /\ budget.sampled_at \in Int /\ budget.attempts \in Int
  BY MaxAssumption DEF IInv, TypeOK, AccountingCoherent, Budget, Instant, U32
<1>2. ASSUME NEW s \in Sample, Step(s)
      PROVE  /\ budget'.started_at = budget.started_at
             /\ budget'.sampled_at >= budget.sampled_at
             /\ budget'.attempts >= budget.attempts
  <2>1. CASE Sampled(s)
    BY <1>1, <2>1 DEF Sampled, Accounted, Refresh, Coherent, Sample, Budget
  <2>2. CASE Finished(s)
    BY <1>1, <2>2 DEF Finished, FinishAttempt, Coherent, Budget
  <2>3. CASE Admitted(s)
    <3>1. Coherent(budget, s)
      BY <1>1, <1>2, <2>3, StepGatesPassed DEF Admitted, IInv
    <3> QED
      BY <1>1, <2>3, <3>1
      DEF Admitted, BeginAttempt, Accounted, Refresh, Coherent, Budget
  <2> QED
    BY <1>2, <2>1, <2>2, <2>3, AccountingSteps
<1>4. ASSUME PrepareAttempt PROVE UNCHANGED <<config, cancelled, due>>
  BY <1>4 DEF PrepareAttempt, Proceed, Terminate
<1>5. ASSUME BackoffElapsed \/ Complete \/ Cancel \/ Abandon \/ Done \/ UNCHANGED vars
      PROVE  UNCHANGED <<config, plan, due, budget>> /\ (cancelled => cancelled')
  BY <1>5 DEF BackoffElapsed, Complete, Cancel, Abandon, Done, Proceed, vars
<1>6. CASE \E s \in Sample : Step(s)
  BY <1>2, <1>6, StepMoves
<1>7. CASE PrepareAttempt
  BY <1>1, <1>4, <1>7, QuietSteps
<1>8. CASE BackoffElapsed \/ Complete \/ Cancel \/ Abandon \/ Done \/ UNCHANGED vars
  BY <1>1, <1>5, <1>8
<1> QED
  BY <1>6, <1>7, <1>8 DEF Next

\* A plan ends no later than the flow.  It carries the scope and the duration of
\* the timeout it was made from.
PlanCapped ==
    plan # None =>
       /\ config.flow_timeout # None =>
             plan.deadline - budget.started_at <= config.flow_timeout
       /\ plan.scope = "Flow" => /\ config.flow_timeout # None
                                 /\ plan.deadline = FlowDeadline(budget)
       /\ plan.scope = "Attempt" => plan.duration = config.attempt_timeout

\* A plan is made before the flow has timed out: prepare_attempt follows the
\* gates of before_attempt without a reading in between.
AdmittingInTime == phase = "Admitting" => ~FlowTimedOut(budget)

\* A wait ends no later than the flow and within the total time budget.
DueCapped ==
    phase = "Backoff" =>
       /\ due # None
       /\ config.flow_timeout # None =>
             due - budget.started_at <= config.flow_timeout
       /\ config.total_time_budget # None =>
             due - budget.started_at < config.total_time_budget

\* There is nothing to wait for before the first attempt.
DueFollows == budget.attempts = 0 => due = None

\* A recorded timeout has happened.
FailureTimed ==
    phase \in {"AttemptFailed", "RuleDecision"} =>
       /\ last_failure.kind = "FlowTimedOut" => FlowTimedOut(budget)
       /\ last_failure.kind = "AttemptTimedOut" =>
             /\ plan # None
             /\ plan.scope = "Attempt"
             /\ budget.sampled_at >= plan.deadline

DeadlineInv == /\ PlanCapped /\ AdmittingInTime /\ DueCapped /\ DueFollows
               /\ FailureTimed /\ SessionNeverEarly

ResultPhase == result # None <=> phase \in Terminal

\* Neither the deadline of the flow nor its timeout depends on anything a step
\* changes, but for the latest reading.
LEMMA FlowDeadlineFixed ==
    ASSUME config' = config, budget'.started_at = budget.started_at
    PROVE  FlowDeadline(budget)' = FlowDeadline(budget)
BY DEF FlowDeadline, CheckedAdd

\* An accounted reading neither moves the start nor comes before the last one.
LEMMA AccountedTimes ==
    ASSUME NEW b \in Budget, NEW s \in Sample
    PROVE  /\ Accounted(b, s).started_at = b.started_at
           /\ Accounted(b, s).sampled_at >= b.sampled_at
           /\ Accounted(b, s).operation_elapsed = b.operation_elapsed
           /\ Coherent(b, s) => Accounted(b, s).sampled_at = s
BY MaxAssumption DEF Accounted, Refresh, Coherent, Budget, Instant

\* prepare_attempt makes capped plans.
LEMMA PreparedPlanCapped ==
    ASSUME IInv, AdmittingInTime, PrepareAttempt, plan' # None
    PROVE  PlanCapped' \/ plan' = plan
<1> DEFINE timeout == EffectiveTimeout(budget)
<1>1. CASE timeout = None \/ TimeoutDeadline(budget, timeout) = None
  BY <1>1 DEF PrepareAttempt, Terminate
<1>2. CASE timeout # None /\ TimeoutDeadline(budget, timeout) # None
  <2>1. /\ phase = "Admitting" /\ config' = config /\ budget' = budget
        /\ plan' = [deadline |-> TimeoutDeadline(budget, timeout),
                    duration |-> timeout.duration,
                    scope    |-> timeout.scope]
    BY <1>2 DEF PrepareAttempt, Proceed
  <2>2. /\ config.flow_timeout \in Optional(Duration)
        /\ config.attempt_timeout \in Optional(Duration)
        /\ budget.started_at \in Int /\ budget.sampled_at \in Int
    BY ConfigsAssumption, MaxAssumption DEF IInv, TypeOK, Config, Budget, Instant
  <2>3. FlowDeadline(budget)' = FlowDeadline(budget)
    BY <2>1, FlowDeadlineFixed
  <2>4. CASE /\ config.attempt_timeout # None
             /\ \/ FlowRemaining(budget) = None
                \/ config.attempt_timeout <= FlowRemaining(budget)
    <3>1. timeout = [duration |-> config.attempt_timeout, scope |-> "Attempt"]
      BY <2>4 DEF EffectiveTimeout
    <3>2. TimeoutDeadline(budget, timeout)
             = budget.sampled_at + config.attempt_timeout
      BY <1>2, <3>1 DEF TimeoutDeadline, CheckedAdd
    <3>3. ASSUME config.flow_timeout # None
          PROVE  budget.sampled_at + config.attempt_timeout - budget.started_at
                    <= config.flow_timeout
      <4>1. /\ config.flow_timeout \in Int /\ config.attempt_timeout \in Int
            /\ FlowRemaining(budget)
                  = SaturatingSub(config.flow_timeout, TotalElapsed(budget))
        BY <2>2, <2>4, <3>3, MaxAssumption DEF Optional, Duration, FlowRemaining
      <4>2. FlowRemaining(budget) # None
        BY <2>2, <4>1, NoneAssumption DEF SaturatingSub, TotalElapsed
      <4>3. ~(TotalElapsed(budget) >= config.flow_timeout)
        BY <2>1, <3>3 DEF AdmittingInTime, FlowTimedOut
      <4> QED
        BY <2>2, <2>4, <4>1, <4>2, <4>3 DEF SaturatingSub, TotalElapsed
    <3>4. /\ plan'.scope = "Attempt" /\ plan'.duration = config.attempt_timeout
          /\ plan'.deadline = budget.sampled_at + config.attempt_timeout
      BY <2>1, <3>1, <3>2
    <3> QED
      <4>1. config'.flow_timeout # None =>
               plan'.deadline - budget'.started_at <= config'.flow_timeout
        <5>1. config.flow_timeout # None => config.flow_timeout \in Int
          BY <2>2, MaxAssumption DEF Optional, Duration
        <5>2. config.attempt_timeout \in Int
          BY <2>2, <2>4, MaxAssumption DEF Optional, Duration
        <5> QED
          BY <2>1, <2>2, <3>3, <3>4, <5>1, <5>2
      <4>2. plan'.scope # "Flow" /\ plan'.duration = config'.attempt_timeout
        BY <2>1, <3>4
      <4> QED
        BY <4>1, <4>2 DEF PlanCapped
  <2>5. CASE ~(/\ config.attempt_timeout # None
               /\ \/ FlowRemaining(budget) = None
                  \/ config.attempt_timeout <= FlowRemaining(budget))
    <3>1. timeout = [duration |-> FlowRemaining(budget), scope |-> "Flow"]
             /\ FlowRemaining(budget) # None
      BY <1>2, <2>5 DEF EffectiveTimeout
    <3>2. config.flow_timeout # None /\ config.flow_timeout \in Int
      BY <2>2, <3>1, MaxAssumption DEF FlowRemaining, Optional, Duration
    <3>3. TimeoutDeadline(budget, timeout) = FlowDeadline(budget)
             /\ FlowDeadline(budget) = budget.started_at + config.flow_timeout
      BY <1>2, <3>1 DEF TimeoutDeadline, FlowDeadline, CheckedAdd
    <3> QED
      BY <2>1, <2>2, <2>3, <3>1, <3>2, <3>3 DEF PlanCapped
  <2> QED
    BY <2>4, <2>5
<1> QED
  BY <1>1, <1>2

\* Plans stay capped.
LEMMA PlanCappedStep ==
    ASSUME IInv, PlanCapped, AdmittingInTime, [Next]_vars
    PROVE  PlanCapped'
<1>1. /\ config' = config /\ budget'.started_at = budget.started_at
      /\ plan' = plan \/ plan' = None \/ PrepareAttempt
  BY Moves
<1>2. FlowDeadline(budget)' = FlowDeadline(budget)
  BY <1>1, FlowDeadlineFixed
<1>3. CASE plan' = plan
  BY <1>1, <1>2, <1>3 DEF PlanCapped
<1>4. CASE plan' = None
  BY <1>4 DEF PlanCapped
<1>5. CASE PrepareAttempt /\ plan' # None
  BY <1>3, <1>5, PreparedPlanCapped
<1> QED
  BY <1>1, <1>3, <1>4, <1>5

\* Steps other than those that read the clock reach these phases rarely.
LEMMA QuietArrivals ==
    ASSUME PrepareAttempt \/ BackoffElapsed \/ Complete \/ Cancel \/ Abandon \/ Done
           \/ UNCHANGED vars
    PROVE  /\ \/ UNCHANGED <<phase, last_failure, plan, due>>
              \/ PrepareAttempt /\ phase' \in {"Registering", "Finished"}
              \/ BackoffElapsed /\ phase' = "Ready"
              \/ phase' \in {"Completed", "Abandoned"}
           /\ budget' = budget
           /\ config' = config
BY DEF PrepareAttempt, BackoffElapsed, Complete, Cancel, Abandon, Done, Proceed,
       Terminate, vars

\* The admission gates keep a flow that has timed out from preparing.
LEMMA AdmittingInTimeStep ==
    ASSUME IInv, AdmittingInTime, [Next]_vars
    PROVE  AdmittingInTime'
<1> SUFFICES ASSUME phase' = "Admitting" PROVE ~FlowTimedOut(budget)'
  BY DEF AdmittingInTime
<1>1. CASE \E s \in Sample : Step(s)
  <2> PICK s \in Sample : Step(s)
    BY <1>1
  <2>1. BeforeAttemptReturned(s)
    BY Arrivals
  <2>2. /\ AdmissionCallbackGates(s) = None
        /\ budget' = Accounted(budget, s) /\ config' = config
    BY <2>1 DEF BeforeAttemptReturned, Proceed, Stop, Terminate
  <2>3. ~FlowTimedOut(Accounted(budget, s))
    BY <2>2, StepGatesPassed DEF IInv, AccountingCoherent
  <2> QED
    BY <2>2, <2>3 DEF FlowTimedOut, TotalElapsed
<1>2. CASE ~\E s \in Sample : Step(s)
  BY <1>2, QuietArrivals DEF Next, AdmittingInTime, FlowTimedOut, TotalElapsed
<1> QED
  BY <1>1, <1>2

\* A deadline that passes the gates of the backoff fits the flow and the
\* budget.
LEMMA BackoffDeadlineCapped ==
    ASSUME IInv, NEW s \in Sample, phase = "RetryScheduled",
           BackoffGates(s) = None,
           BackoffDeadline(Accounted(budget, s), overlay.next_delay) # None
    PROVE  LET deadline == BackoffDeadline(Accounted(budget, s), overlay.next_delay)
           IN /\ config.flow_timeout # None =>
                    deadline - budget.started_at <= config.flow_timeout
              /\ config.total_time_budget # None =>
                    deadline - budget.started_at < config.total_time_budget
<1> DEFINE b == Accounted(budget, s)
           delay == overlay.next_delay
           deadline == BackoffDeadline(b, delay)
<1>1. /\ b \in Budget /\ ElapsedCoherent(b)
      /\ b.started_at = budget.started_at
  BY AccountedCoherent, AccountedTimes DEF IInv, TypeOK, AccountingCoherent
<1>2. delay \in Duration
  BY DEF IInv, TypeOK, OverlayCoherent, Overlay, Optional
<1>3. /\ b.started_at \in Int /\ b.sampled_at \in Int /\ delay \in Int /\ delay >= 0
      /\ TotalElapsed(b) \in Int /\ TotalElapsed(b) = b.sampled_at - b.started_at
  BY <1>1, <1>2, MaxAssumption DEF Budget, Instant, Duration, TotalElapsed
<1>4. /\ config.flow_timeout \in Optional(Duration)
      /\ config.total_time_budget \in Optional(Duration)
  BY ConfigsAssumption DEF IInv, TypeOK, Config
<1>5. ~FlowTimedOut(b) /\ RetryLimit(b, config, delay) = None
  <2>1. FlowGate(b) = None /\ LimitGate(b, delay) = None
    BY FirstReason DEF BackoffGates
  <2> QED
    BY <1>1, <2>1, FlowGatePassed, LimitGatePassed DEF IInv, TypeOK
<1>6. deadline <= b.sampled_at + delay /\ deadline \in Int
  <2>1. CASE config.flow_timeout = None
    BY <1>3, <2>1 DEF BackoffDeadline, CheckedAdd
  <2>2. CASE config.flow_timeout # None
    <3>1. FlowDeadline(b) # None /\ FlowDeadline(b) = b.started_at + config.flow_timeout
      BY <2>2 DEF BackoffDeadline, FlowDeadline, CheckedAdd
    <3>2. FlowDeadline(b) \in Int
      BY <1>3, <1>4, <2>2, <3>1, MaxAssumption DEF Optional, Duration
    <3> QED
      BY <1>3, <2>2, <3>1, <3>2 DEF BackoffDeadline, CheckedAdd, SaturatingSub
  <2> QED
    BY <2>1, <2>2
<1>7. ASSUME config.flow_timeout # None
      PROVE  deadline - b.started_at <= config.flow_timeout
  <2>1. FlowDeadline(b) # None /\ FlowDeadline(b) = b.started_at + config.flow_timeout
    BY <1>7 DEF BackoffDeadline, FlowDeadline, CheckedAdd
  <2>2. config.flow_timeout \in Int /\ FlowDeadline(b) \in Int
    BY <1>3, <1>4, <1>7, <2>1, MaxAssumption DEF Optional, Duration
  <2> QED
    BY <1>3, <1>7, <2>1, <2>2 DEF BackoffDeadline, CheckedAdd, SaturatingSub
<1>8. ASSUME config.total_time_budget # None
      PROVE  deadline - b.started_at < config.total_time_budget
  <2>1. ~(SaturatingAdd(TotalElapsed(b), delay) >= config.total_time_budget)
    BY <1>5, <1>8, NoneAssumption DEF RetryLimit, Limits
  <2>2. config.total_time_budget \in Int /\ config.total_time_budget <= MaxDuration
    BY <1>4, <1>8, MaxAssumption DEF Optional, Duration
  <2> QED
    BY <1>3, <1>6, <2>1, <2>2, MaxAssumption DEF SaturatingAdd
<1> QED
  BY <1>1, <1>7, <1>8

\* Waits stay capped.
LEMMA DueCappedStep ==
    ASSUME IInv, DueCapped, [Next]_vars
    PROVE  DueCapped'
<1> SUFFICES ASSUME phase' = "Backoff"
             PROVE  (/\ due # None
                     /\ config.flow_timeout # None =>
                           due - budget.started_at <= config.flow_timeout
                     /\ config.total_time_budget # None =>
                           due - budget.started_at < config.total_time_budget)'
  BY DEF DueCapped
<1>1. config' = config /\ budget'.started_at = budget.started_at
  BY Moves
<1>2. CASE phase = "Backoff" /\ due' = due
  BY <1>1, <1>2 DEF DueCapped
<1>3. CASE \E s \in Sample : Step(s)
  <2> PICK s \in Sample : Step(s)
    BY <1>3
  <2>1. CASE CheckBackoffReady(s)
    BY <1>2, <2>1 DEF CheckBackoffReady, Stop, Terminate
  <2>2. CASE RetryScheduledReturned(s)
    <3>1. /\ phase = "RetryScheduled" /\ BackoffGates(s) = None
          /\ BackoffDeadline(Accounted(budget, s), overlay.next_delay) # None
          /\ due' = BackoffDeadline(Accounted(budget, s), overlay.next_delay)
      BY <2>2 DEF RetryScheduledReturned, Stop, Terminate
    <3> QED
      BY <1>1, <3>1, BackoffDeadlineCapped
  <2> QED
    BY <2>1, <2>2, Arrivals
<1>4. CASE ~\E s \in Sample : Step(s)
  BY <1>2, <1>4, QuietArrivals DEF Next
<1> QED
  BY <1>3, <1>4

\* A deadline is set only after an attempt.
LEMMA DueFollowsStep ==
    ASSUME IInv, DueFollows, [Next]_vars
    PROVE  DueFollows'
<1>1. /\ budget'.attempts >= budget.attempts
      /\ due' = due \/ (phase = "RetryScheduled" /\ phase' = "Backoff")
  BY Moves
<1>2. budget.attempts \in Nat /\ IInv'
  BY NextIInv, MaxAssumption DEF IInv, TypeOK, Budget, U32
<1>3. CASE due' = due
  BY <1>1, <1>2, <1>3 DEF DueFollows
<1>4. CASE phase = "RetryScheduled"
  <2>1. last_failure \in Failure /\ last_failure.attempt = budget.attempts
    BY <1>4 DEF IInv, TypeOK, FailureRetained, FailedAttempt, Handling, Terminal,
                Optional
  <2> QED
    BY <1>1, <1>2, <2>1, MaxAssumption DEF Failure, U32, DueFollows
<1> QED
  BY <1>1, <1>3, <1>4

\* What a recorded failure says of the deadlines of its attempt.
LEMMA RecordedFailureTimed ==
    ASSUME IInv, PlanCapped, NEW s \in Sample, NEW kind \in FailureKinds,
           phase = "Active", RecordFailure(kind, s), phase' = "AttemptFailed",
           kind = "AttemptTimedOut" =>
              plan # None /\ plan.scope = "Attempt" /\ s >= plan.deadline,
           kind = "FlowTimedOut" =>
              plan # None /\ plan.scope = "Flow" /\ s >= plan.deadline
    PROVE  FailureTimed'
<1>1. /\ Coherent(budget, s) /\ budget' = FinishAttempt(budget, s)
      /\ last_failure' = NewFailure(kind) /\ plan' = plan /\ config' = config
  BY DEF RecordFailure, Terminate, Proceed
<1>2. last_failure'.kind = kind
  BY <1>1 DEF NewFailure
<1>3. budget'.sampled_at = s /\ budget'.started_at = budget.started_at
  BY <1>1 DEF FinishAttempt, IInv, TypeOK, Budget
<1>4. ASSUME kind = "FlowTimedOut" PROVE FlowTimedOut(budget)'
  <2>1. /\ plan \in Plan /\ plan.deadline = FlowDeadline(budget)
        /\ config.flow_timeout # None /\ s >= plan.deadline
    BY <1>4 DEF PlanCapped, IInv, TypeOK, Optional
  <2>2. plan.deadline # None /\ plan.deadline = budget.started_at + config.flow_timeout
    BY <2>1, NoneAssumption DEF FlowDeadline, CheckedAdd, Plan, Instant
  <2>3. /\ config.flow_timeout \in Int /\ budget.started_at \in Int /\ s \in Int
    BY <1>1, <2>1, ConfigsAssumption, MaxAssumption
    DEF IInv, TypeOK, Config, Optional, Duration, Budget, Instant, Coherent, Sample
  <2> QED
    BY <1>1, <1>3, <2>1, <2>2, <2>3 DEF FlowTimedOut, TotalElapsed
<1> QED
  BY <1>1, <1>2, <1>3, <1>4 DEF FailureTimed

\* A recorded timeout stays a timeout that has happened: later readings are not
\* earlier.
LEMMA FailureTimedStep ==
    ASSUME IInv, PlanCapped, FailureTimed, [Next]_vars
    PROVE  FailureTimed'
<1>1. CASE \E s \in Sample : Step(s)
  <2> PICK s \in Sample : Step(s)
    BY <1>1
  <2>1. CASE phase' = "AttemptFailed"
    <3>1. CASE AttemptReturnedError(s) \/ AttemptPanicked(s)
      BY <2>1, <3>1, RecordedFailureTimed
      DEF AttemptReturnedError, AttemptPanicked, FailureKinds
    <3>2. CASE AttemptTimedOut(s)
      <4> DEFINE kind == IF plan.scope = "Attempt" THEN "AttemptTimedOut"
                                                   ELSE "FlowTimedOut"
      <4>1. phase = "Active" /\ RecordFailure(kind, s) /\ plan # None
              /\ (Coherent(budget, s) => s >= plan.deadline)
        BY <3>2 DEF AttemptTimedOut, TimeoutTaken
      <4>2. Coherent(budget, s)
        BY <2>1, <4>1 DEF RecordFailure, Terminate
      <4>3. plan.scope \in Scopes
        BY <4>1 DEF IInv, TypeOK, Optional, Plan
      <4>4. kind \in FailureKinds
        BY DEF FailureKinds
      <4> QED
        BY <2>1, <4>1, <4>2, <4>3, <4>4, RecordedFailureTimed DEF Scopes
    <3> QED
      BY <2>1, <3>1, <3>2, Arrivals
  <2>2. CASE phase' = "RuleDecision"
    <3>1. AttemptFailedReturned(s)
      BY <2>2, Arrivals
    <3>2. /\ phase = "AttemptFailed" /\ UNCHANGED <<last_failure, plan, config>>
          /\ budget' = Accounted(budget, s)
      BY <2>2, <3>1 DEF AttemptFailedReturned, Proceed, Stop, Terminate
    <3>3. /\ budget'.started_at = budget.started_at
          /\ budget'.sampled_at >= budget.sampled_at
      BY Moves
    <3>4. /\ budget.started_at \in Int /\ budget.sampled_at \in Int
          /\ budget'.sampled_at \in Int
          /\ config.flow_timeout # None => config.flow_timeout \in Int
          /\ plan # None => plan.deadline \in Int
      BY NextIInv, ConfigsAssumption, MaxAssumption
      DEF IInv, TypeOK, Budget, Instant, Config, Optional, Duration, Plan
    <3>5. FlowTimedOut(budget) => FlowTimedOut(budget)'
      BY <3>2, <3>3, <3>4 DEF FlowTimedOut, TotalElapsed
    <3> QED
      BY <3>2, <3>3, <3>4, <3>5 DEF FailureTimed
  <2> QED
    BY <2>1, <2>2 DEF FailureTimed
<1>2. CASE ~\E s \in Sample : Step(s)
  <2>1. SUFFICES ASSUME phase' \in {"AttemptFailed", "RuleDecision"}
                 PROVE  FailureTimed'
    BY DEF FailureTimed
  <2>2. UNCHANGED <<phase, last_failure, plan, budget, config>>
    BY <1>2, <2>1, QuietArrivals DEF Next
  <2> QED
    BY <2>1, <2>2 DEF FailureTimed, FlowTimedOut, TotalElapsed
<1> QED
  BY <1>1, <1>2

\* A session's attempts wait for the deadline: only the readiness check leaves
\* the wait, and later readings are not earlier.
LEMMA SessionNeverEarlyStep ==
    ASSUME IInv, DueFollows, SessionNeverEarly, [Next]_vars
    PROVE  SessionNeverEarly'
<1> SUFFICES ASSUME config'.facade = "RetrySession",
                    phase' \in Admission \union {"Ready", "Active"},
                    budget'.attempts > 0, due' # None
             PROVE  budget'.sampled_at >= due'
  BY DEF SessionNeverEarly
<1>1. /\ config' = config /\ budget'.sampled_at >= budget.sampled_at
      /\ due' = due
  BY Moves DEF Admission
<1>2. /\ budget.sampled_at \in Int /\ budget'.sampled_at \in Int /\ due \in Int
      /\ budget.attempts \in Nat
  BY <1>1, NextIInv, MaxAssumption DEF IInv, TypeOK, Budget, Instant, Optional, U32
<1>3. budget.attempts > 0
  BY <1>1, <1>2 DEF DueFollows
<1>4. CASE phase \in Admission \union {"Ready", "Active"}
  BY <1>1, <1>2, <1>3, <1>4 DEF SessionNeverEarly
<1>5. CASE \E s \in Sample : CheckBackoffReady(s)
  <2> PICK s \in Sample : CheckBackoffReady(s)
    BY <1>5
  <2>1. /\ CallbackGates(s, "Backoff") = None /\ DeadlineReached(s)
        /\ budget' = Accounted(budget, s)
    BY DEF CheckBackoffReady, Proceed, Stop, Terminate, Admission
  <2>2. Coherent(budget, s)
    BY <2>1, FirstReason, ClockGatePassed DEF CallbackGates
  <2>3. budget'.sampled_at = s
    BY <2>1, <2>2, AccountedTimes DEF IInv, TypeOK
  <2> QED
    BY <1>1, <2>1, <2>3 DEF DeadlineReached
<1>6. CASE /\ \E s \in Sample : Step(s)
           /\ ~\E s \in Sample : CheckBackoffReady(s)
  <2> PICK s \in Sample : Step(s)
    BY <1>6
  <2>1. \/ BeforeAttempt(s) \/ BeforeAttemptReturned(s)
        \/ CommitAttempt(s) \/ CommitPreparedAttempt(s)
    BY <1>6, Arrivals DEF Admission
  <2> QED
    BY <1>4, <2>1 DEF BeforeAttempt, BeforeAttemptReturned, CommitAttempt,
                      CommitPreparedAttempt, Admission
<1>7. CASE ~\E s \in Sample : Step(s)
  <2>1. ~BackoffElapsed
    BY <1>1 DEF BackoffElapsed
  <2>2. PrepareAttempt => phase \in Admission
    BY DEF PrepareAttempt, Admission
  <2> QED
    BY <1>4, <1>7, <2>1, <2>2, QuietArrivals DEF Next, Admission
<1> QED
  BY <1>4, <1>5, <1>6, <1>7

\* A flow starts without a plan or a deadline.
LEMMA InitDeadlineInv ==
    ASSUME Init
    PROVE  DeadlineInv
BY DEF Init, DeadlineInv, PlanCapped, AdmittingInTime, DueCapped, DueFollows,
       FailureTimed, SessionNeverEarly

\* The deadlines stay what the code made them.
LEMMA NextDeadlineInv ==
    ASSUME IInv, DeadlineInv, [Next]_vars
    PROVE  DeadlineInv'
BY PlanCappedStep, AdmittingInTimeStep, DueCappedStep, DueFollowsStep,
   FailureTimedStep, SessionNeverEarlyStep
DEF DeadlineInv

\* The deadline invariant holds in every state of every flow.
THEOREM DeadlineInvariance == Spec => []DeadlineInv
<1>1. Init => DeadlineInv
  BY InitDeadlineInv
<1>2. IInv /\ DeadlineInv /\ [Next]_vars => DeadlineInv'
  BY NextDeadlineInv
<1> QED
  BY <1>1, <1>2, Invariance, PTL DEF Spec

\* No timer is registered for a moment after the flow's hard deadline, and no
\* retry is scheduled that the total time budget has no room for.
THEOREM DeadlinesTheorem == Spec => []DeadlinesCapped
<1>1. DeadlineInv => DeadlinesCapped
  BY DEF DeadlineInv, PlanCapped, DueCapped, DeadlinesCapped
<1> QED
  BY <1>1, DeadlineInvariance, PTL

\* A session admits no attempt before the deadline it returned.
THEOREM SessionTheorem == Spec => []SessionNeverEarly
<1>1. DeadlineInv => SessionNeverEarly
  BY DEF DeadlineInv
<1> QED
  BY <1>1, DeadlineInvariance, PTL

-----------------------------------------------------------------------------
(***************************************************************************)
(* Terminal results.  A result is made by Terminate in one step, from      *)
(* gates that read the definition, the accounting, the plan and the token, *)
(* and is never touched again; Ending says what that step must have seen.  *)
(***************************************************************************)

\* The reason is borne out by the accounting b and the overlay o.
Sound(reason, b, o) ==
    /\ reason = TimedOut("Flow") =>
          /\ config.flow_timeout # None
          /\ TotalElapsed(b) >= config.flow_timeout
    /\ reason = TimedOut("Attempt") =>
          /\ plan # None
          /\ plan.duration = config.attempt_timeout
          /\ b.sampled_at >= plan.deadline
    /\ reason = Exhausted("Attempts") => b.attempts = config.max_attempts
    /\ reason = Exhausted("OperationElapsed") =>
          /\ b.attempts < config.max_attempts
          /\ b.operation_elapsed >= config.operation_time_budget
    /\ reason = Exhausted("TotalElapsed") =>
          SaturatingAdd(TotalElapsed(b),
                        IF o.next_delay = None THEN 0 ELSE o.next_delay)
             >= config.total_time_budget
    /\ reason.kind = "Cancelled" =>
          /\ cancelled
          /\ reason.detail = "Backoff" => b.attempts > 0

\* The failure handed over is that of the last attempt that failed.
Delivers(reason, failure, b) ==
    reason # Succeeded =>
       CASE reason = Cancelled("Attempt") -> FailedAttempt(failure) = b.attempts - 1
         [] reason.kind = "Infrastructure" ->
               FailedAttempt(failure) \in {b.attempts - 1, b.attempts}
         [] OTHER -> FailedAttempt(failure) = b.attempts

\* A running attempt is named only where one was running or announced.
Names(reason, b, o) ==
    o.current_attempt # None =>
       \/ /\ reason = Cancelled("Attempt") \/ reason.kind = "Infrastructure"
          /\ config.facade \in Timed
          /\ o.current_attempt = b.attempts
       \/ /\ reason = CallbackFailed("BeforeAttempt")
          /\ o.current_attempt = b.attempts + 1
       \/ /\ reason.kind = "CallbackFailed" /\ reason.detail # "BeforeAttempt"
          /\ o.current_attempt = b.attempts

Good(reason, failure, b, o) ==
    /\ reason \in Reason /\ failure \in Optional(Failure)
    /\ reason.kind = "Success" => phase = "Active"
    /\ b.attempts = budget.attempts
    /\ Sound(reason, b, o)
    /\ Delivers(reason, failure, b)
    /\ Names(reason, b, o)

Ending ==
    /\ phase \notin Terminal \union {"Abandoned"}
    /\ \E reason, failure, b, o :
          Terminate(reason, failure, b, o) /\ Good(reason, failure, b, o)

\* What a gate must answer to end a flow at reading s through Stop.
Justified(reason, s) ==
    reason # None =>
       /\ reason \in Reason
       /\ reason.kind # "Success" /\ reason # Cancelled("Attempt")
       /\ Sound(reason, Accounted(budget, s), Cleared(overlay))

\* The first of two justified reasons is justified; the second gate may rely on
\* the first one having passed.
LEMMA JustifiedFirst ==
    ASSUME NEW x, NEW y, NEW s, Justified(x, s), x = None => Justified(y, s)
    PROVE  Justified(x ?? y, s)
BY DEF Justified, ??

\* Reasons of different kinds or details are different reasons.
LEMMA ReasonFields ==
    /\ \A limit : /\ Exhausted(limit).kind = "Exhausted"
                  /\ Exhausted(limit).detail = limit
    /\ \A scope : TimedOut(scope).kind = "TimedOut" /\ TimedOut(scope).detail = scope
    /\ \A where : Cancelled(where).kind = "Cancelled" /\ Cancelled(where).detail = where
    /\ \A callback : /\ CallbackFailed(callback).kind = "CallbackFailed"
                     /\ CallbackFailed(callback).detail = callback
    /\ \A failure : Infrastructure(failure).kind = "Infrastructure"
    /\ Aborted.kind = "Aborted" /\ Succeeded.kind = "Success"
    /\ ClockFailed.kind = "Infrastructure"
BY DEF Exhausted, TimedOut, Cancelled, CallbackFailed, Infrastructure, Aborted,
       Succeeded, ClockFailed

\* A reason that claims nothing about limits, deadlines or the token is sound.
LEMMA SoundOther ==
    ASSUME NEW reason, NEW b, NEW o,
           reason.kind \notin {"TimedOut", "Exhausted", "Cancelled"}
    PROVE  Sound(reason, b, o)
BY ReasonFields DEF Sound

\* The clock gate is justified.
LEMMA ClockJustified ==
    ASSUME NEW s
    PROVE  Justified(ClockGate(s), s)
<1>1. /\ ClockFailed \in Reason /\ ClockFailed.kind = "Infrastructure"
      /\ ClockFailed # Cancelled("Attempt")
  BY ReasonTypes, ReasonFields
<1> QED
  BY <1>1, SoundOther DEF Justified, ClockGate

\* The flow gate is justified.
LEMMA FlowJustified ==
    ASSUME NEW s
    PROVE  Justified(FlowGate(Accounted(budget, s)), s)
<1> DEFINE b == Accounted(budget, s)
<1>1. CASE ~FlowTimedOut(b)
  BY <1>1 DEF FlowGate, Justified
<1>2. CASE FlowTimedOut(b)
  <2>1. FlowGate(b) = TimedOut("Flow") /\ TimedOut("Flow") \in Reason
    BY <1>2, ReasonTypes DEF FlowGate, Scopes
  <2>2. Sound(TimedOut("Flow"), b, Cleared(overlay))
    BY <1>2, ReasonFields DEF Sound, FlowTimedOut
  <2>3. TimedOut("Flow").kind # "Success" /\ TimedOut("Flow") # Cancelled("Attempt")
    BY ReasonFields
  <2> QED
    BY <2>1, <2>2, <2>3 DEF Justified
<1> QED
  BY <1>1, <1>2

\* The cancellation gate is justified; it names the backoff only after an
\* attempt.
LEMMA CancelJustified ==
    ASSUME IInv, NEW s \in Sample, NEW where \in {"BeforeAttempt", "Backoff"},
           where = "Backoff" => budget.attempts > 0
    PROVE  Justified(CancelGate(where), s)
<1>1. CASE ~cancelled
  BY <1>1 DEF CancelGate, Justified
<1>2. CASE cancelled
  <2>1. CancelGate(where) = Cancelled(where) /\ Cancelled(where) \in Reason
    BY <1>2, ReasonTypes DEF CancelGate, CancellationPhases
  <2>2. Accounted(budget, s).attempts = budget.attempts
    BY AccountedCoherent DEF IInv, TypeOK, AccountingCoherent
  <2>3. Sound(Cancelled(where), Accounted(budget, s), Cleared(overlay))
    BY <1>2, <2>2, ReasonFields DEF Sound
  <2>4. Cancelled(where).kind # "Success" /\ Cancelled(where) # Cancelled("Attempt")
    BY ReasonFields
  <2> QED
    BY <2>1, <2>3, <2>4 DEF Justified
<1> QED
  BY <1>1, <1>2

\* The limit gate is justified when it counts no more than the delay that the
\* context shows.
LEMMA LimitJustified ==
    ASSUME IInv, NEW s \in Sample, NEW delay,
           delay = 0 \/ (overlay.next_delay # None /\ delay = overlay.next_delay)
    PROVE  Justified(LimitGate(Accounted(budget, s), delay), s)
<1> DEFINE b == Accounted(budget, s)
           limit == RetryLimit(b, config, delay)
           shown == IF overlay.next_delay = None THEN 0 ELSE overlay.next_delay
<1>1. /\ b \in Budget /\ ElapsedCoherent(b) /\ b.attempts = budget.attempts
      /\ b.attempts <= config.max_attempts
  BY AccountedCoherent DEF IInv, TypeOK, AccountingCoherent
<1>2. /\ b.attempts \in Int /\ config.max_attempts \in Int
      /\ TotalElapsed(b) \in Int /\ TotalElapsed(b) <= MaxDuration
  BY <1>1, ConfigsAssumption, MaxAssumption
  DEF IInv, TypeOK, Budget, Config, U32, Instant, TotalElapsed
<1>3. overlay.next_delay \in Optional(Duration)
        /\ Cleared(overlay).next_delay = overlay.next_delay
  BY ClearedTyped DEF IInv, TypeOK, Overlay
<1>4. /\ delay \in Int /\ shown \in Int /\ delay <= shown
  BY <1>3, MaxAssumption DEF Optional, Duration
<1>5. CASE limit = None
  BY <1>5 DEF LimitGate, Justified
<1>6. CASE limit # None
  <2>1. limit \in Limits /\ LimitGate(b, delay) = Exhausted(limit)
    BY <1>6, RetryLimitType DEF LimitGate, Optional
  <2>2. /\ Exhausted(limit) \in Reason /\ Exhausted(limit).kind # "Success"
        /\ Exhausted(limit) # Cancelled("Attempt")
    BY <2>1, ReasonTypes, ReasonFields
  <2>3. limit = "Attempts" => b.attempts = config.max_attempts
    BY <1>1, <1>2, NoneAssumption DEF RetryLimit, Limits
  <2>4. limit = "OperationElapsed" =>
           /\ b.attempts < config.max_attempts
           /\ b.operation_elapsed >= config.operation_time_budget
    BY <1>1, <1>2, NoneAssumption DEF RetryLimit, Limits
  <2>5. limit = "TotalElapsed" =>
           SaturatingAdd(TotalElapsed(b), shown) >= config.total_time_budget
    <3>1. SUFFICES ASSUME limit = "TotalElapsed"
                   PROVE  SaturatingAdd(TotalElapsed(b), shown)
                             >= config.total_time_budget
      OBVIOUS
    <3>2. /\ config.total_time_budget # None
          /\ SaturatingAdd(TotalElapsed(b), delay) >= config.total_time_budget
      BY <3>1, NoneAssumption DEF RetryLimit, Limits
    <3>3. config.total_time_budget \in Int
      BY <3>2, ConfigsAssumption, MaxAssumption
      DEF IInv, TypeOK, Config, Optional, Duration
    <3> QED
      BY <1>2, <1>4, <3>2, <3>3, MaxAssumption DEF SaturatingAdd
  <2>6. Sound(Exhausted(limit), b, Cleared(overlay))
    BY <1>3, <2>3, <2>4, <2>5, ReasonFields DEF Sound
  <2> QED
    BY <2>1, <2>2, <2>6 DEF Justified
<1> QED
  BY <1>5, <1>6

\* The plan gate is justified at a coherent reading.
LEMMA PlanJustified ==
    ASSUME IInv, PlanCapped, NEW s \in Sample, Coherent(budget, s)
    PROVE  Justified(PlanGate(s), s)
<1> DEFINE b == Accounted(budget, s)
<1>1. CASE ~(plan # None /\ s >= plan.deadline)
  BY <1>1 DEF PlanGate, Justified
<1>2. CASE plan # None /\ s >= plan.deadline
  <2>1. /\ plan \in Plan /\ PlanGate(s) = TimedOut(plan.scope)
    BY <1>2 DEF PlanGate, IInv, TypeOK, Optional
  <2>2. /\ plan.scope \in Scopes /\ TimedOut(plan.scope) \in Reason
        /\ TimedOut(plan.scope).kind # "Success"
        /\ TimedOut(plan.scope) # Cancelled("Attempt")
    BY <2>1, ReasonTypes, ReasonFields DEF Plan
  <2>3. b.sampled_at = s /\ b.started_at = budget.started_at
    BY AccountedTimes DEF IInv, TypeOK
  <2>4. ASSUME plan.scope = "Flow"
        PROVE  config.flow_timeout # None /\ TotalElapsed(b) >= config.flow_timeout
    <3>1. config.flow_timeout # None /\ plan.deadline = FlowDeadline(budget)
      BY <1>2, <2>4 DEF PlanCapped
    <3>2. plan.deadline = budget.started_at + config.flow_timeout
      BY <2>1, <3>1, NoneAssumption DEF FlowDeadline, CheckedAdd, Plan, Instant
    <3>3. /\ config.flow_timeout \in Int /\ budget.started_at \in Int /\ s \in Int
      BY <3>1, ConfigsAssumption, MaxAssumption
      DEF IInv, TypeOK, Config, Optional, Duration, Budget, Instant, Coherent, Sample
    <3> QED
      BY <1>2, <2>3, <3>1, <3>2, <3>3 DEF TotalElapsed
  <2>5. plan.scope = "Attempt" => plan.duration = config.attempt_timeout
    BY <1>2 DEF PlanCapped
  <2>6. Sound(TimedOut(plan.scope), b, Cleared(overlay))
    BY <1>2, <2>3, <2>4, <2>5, ReasonFields DEF Sound
  <2> QED
    BY <2>1, <2>2, <2>6 DEF Justified
<1> QED
  BY <1>1, <1>2

\* The classification of a failure is justified: a recorded timeout has
\* happened.
LEMMA DecisionJustified ==
    ASSUME IInv, PlanCapped, FailureTimed, phase = "RuleDecision",
           NEW s \in Sample, NEW decision
    PROVE  Justified(DecisionGate(last_failure, decision), s)
<1> DEFINE b == Accounted(budget, s)
           gate == DecisionGate(last_failure, decision)
<1>1. /\ b.started_at = budget.started_at /\ b.sampled_at >= budget.sampled_at
      /\ b.sampled_at \in Int /\ budget.sampled_at \in Int /\ budget.started_at \in Int
  BY AccountedTimes, AccountedCoherent, MaxAssumption
  DEF IInv, TypeOK, AccountingCoherent, Budget, Instant
<1>2. CASE gate = None
  BY <1>2 DEF Justified
<1>3. CASE gate = Aborted
  BY <1>3, ReasonTypes, ReasonFields, SoundOther DEF Justified
<1>4. CASE gate = TimedOut("Attempt") /\ last_failure.kind = "AttemptTimedOut"
  <2>1. /\ plan # None /\ plan.scope = "Attempt"
        /\ budget.sampled_at >= plan.deadline
        /\ plan.duration = config.attempt_timeout
    BY <1>4 DEF FailureTimed, PlanCapped
  <2>2. plan.deadline \in Int
    BY <2>1, MaxAssumption DEF IInv, TypeOK, Optional, Plan, Instant
  <2>3. b.sampled_at >= plan.deadline
    BY <1>1, <2>1, <2>2
  <2>4. Sound(TimedOut("Attempt"), b, Cleared(overlay))
    BY <2>1, <2>3, ReasonFields DEF Sound
  <2> QED
    BY <1>4, <2>4, ReasonTypes, ReasonFields DEF Justified, Scopes
<1>5. CASE gate = TimedOut("Flow") /\ last_failure.kind = "FlowTimedOut"
  <2>1. config.flow_timeout # None /\ TotalElapsed(budget) >= config.flow_timeout
    BY <1>5 DEF FailureTimed, FlowTimedOut
  <2>2. config.flow_timeout \in Int
    BY <2>1, ConfigsAssumption, MaxAssumption
    DEF IInv, TypeOK, Config, Optional, Duration
  <2>3. TotalElapsed(b) >= config.flow_timeout
    BY <1>1, <2>1, <2>2 DEF TotalElapsed
  <2>4. Sound(TimedOut("Flow"), b, Cleared(overlay))
    BY <2>1, <2>3, ReasonFields DEF Sound
  <2> QED
    BY <1>5, <2>4, ReasonTypes, ReasonFields DEF Justified, Scopes
<1> QED
  BY <1>2, <1>3, <1>4, <1>5 DEF DecisionGate

\* The retained failure and the announced ordinal of a flow that has not ended.
LEMMA Ordinals ==
    ASSUME IInv, phase \notin Terminal \union {"Abandoned"}
    PROVE  /\ phase # "Active" => FailedAttempt(last_failure) = budget.attempts
           /\ phase = "Active" => FailedAttempt(last_failure) = budget.attempts - 1
           /\ budget.attempts \in Nat
           /\ phase \in Handling \union {"Backoff", "Active"} => budget.attempts > 0
<1>1. budget.attempts \in Nat
  BY MaxAssumption DEF IInv, TypeOK, Budget, U32
<1>2. phase = "Active" => budget.attempts > 0
  BY DEF IInv, AccountingCoherent, ElapsedCoherent
<1>3. phase \in Handling \union {"Backoff"} => budget.attempts > 0
  <2> SUFFICES ASSUME phase \in Handling \union {"Backoff"}
               PROVE  budget.attempts > 0
    OBVIOUS
  <2>1. last_failure \in Failure /\ last_failure.attempt = budget.attempts
    BY DEF IInv, TypeOK, FailureRetained, FailedAttempt, Handling, Optional
  <2> QED
    BY <2>1, MaxAssumption DEF Failure, U32
<1> QED
  BY <1>1, <1>2, <1>3 DEF IInv, FailureRetained

\* A flow stopped by a justified gate ends well.
LEMMA StopEnding ==
    ASSUME IInv, NEW s \in Sample, NEW reason, reason # None,
           Justified(reason, s), Stop(reason, s),
           phase \notin Terminal \union {"Abandoned"},
           phase = "Active" => reason.kind = "Infrastructure"
    PROVE  Ending
<1> DEFINE b == Accounted(budget, s)
           o == Cleared(overlay)
<1>1. /\ reason \in Reason /\ reason.kind # "Success"
      /\ reason # Cancelled("Attempt") /\ Sound(reason, b, o)
  BY DEF Justified
<1>2. b.attempts = budget.attempts /\ o.current_attempt = None
  BY AccountedCoherent, ClearedTyped DEF IInv, TypeOK, AccountingCoherent
<1>3. Delivers(reason, last_failure, b)
  BY <1>1, <1>2, Ordinals DEF Delivers
<1>4. Good(reason, last_failure, b, o)
  BY <1>1, <1>2, <1>3 DEF Good, Names, IInv, TypeOK
<1> QED
  BY <1>4 DEF Ending, Stop

\* A clock failure stops the flow well in any phase.
LEMMA ClockEnding ==
    ASSUME IInv, NEW s \in Sample, Stop(ClockFailed, s),
           phase \notin Terminal \union {"Abandoned"}
    PROVE  Ending
<1>1. Justified(ClockFailed, s) /\ ClockFailed # None
  BY ReasonTypes, ReasonFields, NoReasonAssumption, SoundOther DEF Justified
<1> QED
  BY <1>1, StopEnding, ReasonFields

\* A flow that loses its timer, its threads or its worker ends well.
LEMMA InfrastructureEnding ==
    ASSUME IInv, NEW s \in Sample, NEW failure \in InfrastructureFailures,
           phase \notin Terminal \union {"Abandoned"},
           \/ InactiveInfrastructure(failure, s)
           \/ /\ ActiveInfrastructure(failure, s)
              /\ phase = "Active" /\ config.facade \in Timed
    PROVE  Ending
<1> DEFINE reason == ClockGate(s) ?? Infrastructure(failure)
           b == Closed(s)
<1>1. reason \in Reason /\ reason.kind = "Infrastructure"
  BY ReasonTypes, ReasonFields, NoReasonAssumption DEF ClockGate, ??
<1>2. b.attempts = budget.attempts
  BY ClosedCoherent
<1>3. Delivers(reason, last_failure, b)
  BY <1>1, <1>2, Ordinals, ReasonFields DEF Delivers
<1>4. \A o : Sound(reason, b, o)
  BY <1>1, SoundOther
<1>5. Names(reason, b, Cleared(overlay))
  BY ClearedTyped DEF Names, IInv, TypeOK
<1>6. (phase = "Active" /\ config.facade \in Timed) => Names(reason, b, overlay)
  BY <1>1, <1>2 DEF Names, IInv, OverlayCoherent
<1>7. /\ Good(reason, last_failure, b, Cleared(overlay))
      /\ phase = "Active" /\ config.facade \in Timed
            => Good(reason, last_failure, b, overlay)
  BY <1>1, <1>2, <1>3, <1>4, <1>5, <1>6 DEF Good, IInv, TypeOK
<1>8. CASE InactiveInfrastructure(failure, s)
  BY <1>7, <1>8 DEF Ending, InactiveInfrastructure
<1>9. CASE /\ ActiveInfrastructure(failure, s)
           /\ phase = "Active" /\ config.facade \in Timed
  BY <1>7, <1>9 DEF Ending, ActiveInfrastructure
<1> QED
  BY <1>8, <1>9

\* A flow whose callback panics ends well: the context keeps the attempt that
\* the callback was told about.
LEMMA CallbackEnding ==
    ASSUME IInv, NEW s \in Sample, CallbackPanicked(s)
    PROVE  Ending
<1> DEFINE reason == CallbackFailed(phase)
           b == Accounted(budget, s)
<1>1. /\ phase \in CallbackPhases
      /\ Terminate(reason, last_failure, b, overlay)
      /\ phase \notin Terminal \union {"Abandoned"} /\ phase # "Active"
  BY DEF CallbackPanicked, CallbackPhases, Terminal
<1>2. /\ reason \in Reason /\ reason.kind = "CallbackFailed"
      /\ reason.detail = phase
  BY <1>1, ReasonTypes, ReasonFields
<1>3. b.attempts = budget.attempts
  BY AccountedCoherent DEF IInv, TypeOK, AccountingCoherent
<1>4. Delivers(reason, last_failure, b)
  BY <1>1, <1>2, <1>3, Ordinals, ReasonFields DEF Delivers
<1>5. Names(reason, b, overlay)
  BY <1>1, <1>2, <1>3
  DEF Names, IInv, OverlayCoherent, CallbackPhases, Admission, Handling
<1>6. Good(reason, last_failure, b, overlay)
  BY <1>2, <1>3, <1>4, <1>5, SoundOther DEF Good, IInv, TypeOK
<1> QED
  BY <1>1, <1>6 DEF Ending

\* A flow ended by its running attempt ends well.
LEMMA AttemptEnding ==
    ASSUME IInv, NEW s \in Sample,
           \/ AttemptSucceeded(s)
           \/ AttemptCancelled(s)
    PROVE  Ending
<1>1. phase = "Active" /\ phase \notin Terminal \union {"Abandoned"}
  BY DEF AttemptSucceeded, AttemptCancelled, Terminal
<1>2. CASE ~Coherent(budget, s)
  BY <1>1, <1>2, ClockEnding DEF AttemptSucceeded, AttemptCancelled
<1>3. CASE Coherent(budget, s) /\ AttemptSucceeded(s)
  <2> DEFINE b == FinishAttempt(budget, s)
  <2>1. b.attempts = budget.attempts
    BY <1>1, <1>3, ActiveFinish
  <2>2. Succeeded \in Reason /\ Sound(Succeeded, b, Cleared(overlay))
    BY ReasonTypes, ReasonFields, SoundOther
  <2>3. Cleared(overlay).current_attempt = None
    BY ClearedTyped DEF IInv, TypeOK
  <2>4. Good(Succeeded, None, b, Cleared(overlay))
    BY <1>1, <2>1, <2>2, <2>3 DEF Good, Delivers, Names, Optional
  <2>5. Terminate(Succeeded, None, b, Cleared(overlay))
    BY <1>3 DEF AttemptSucceeded
  <2> QED
    BY <1>1, <2>4, <2>5 DEF Ending
<1>4. CASE Coherent(budget, s) /\ AttemptCancelled(s)
  <2> DEFINE b == FinishAttempt(budget, s)
  <2>1. b.attempts = budget.attempts
    BY <1>1, <1>4, ActiveFinish
  <2>2. /\ config.facade \in Timed /\ cancelled
        /\ Terminate(Cancelled("Attempt"), last_failure, b, overlay)
    BY <1>4 DEF AttemptCancelled
  <2>3. Cancelled("Attempt") \in Reason
    BY ReasonTypes DEF CancellationPhases
  <2>4. Sound(Cancelled("Attempt"), b, overlay)
    BY <2>2, ReasonFields DEF Sound
  <2>5. Delivers(Cancelled("Attempt"), last_failure, b)
    BY <1>1, <2>1, Ordinals DEF Delivers
  <2>6. Names(Cancelled("Attempt"), b, overlay)
    BY <1>1, <2>1, <2>2 DEF Names, IInv, OverlayCoherent
  <2>7. Good(Cancelled("Attempt"), last_failure, b, overlay)
    BY <2>1, <2>3, <2>4, <2>5, <2>6, ReasonFields DEF Good, IInv, TypeOK
  <2> QED
    BY <1>1, <2>2, <2>7 DEF Ending
<1> QED
  BY <1>2, <1>3, <1>4

\* A failure that cannot be recorded for want of a clock ends the flow with it.
LEMMA RecordEnding ==
    ASSUME IInv, NEW s \in Sample, NEW kind \in FailureKinds,
           phase = "Active", RecordFailure(kind, s)
    PROVE  Ending \/ (result' = result /\ phase' = "AttemptFailed")
<1>1. CASE Coherent(budget, s)
  BY <1>1 DEF RecordFailure, Proceed
<1>2. CASE ~Coherent(budget, s)
  <2>1. Terminate(ClockFailed, NewFailure(kind), budget, Cleared(overlay))
    BY <1>2 DEF RecordFailure
  <2>2. budget.attempts \in U32 \ {0}
    BY Ordinals, MaxAssumption DEF IInv, TypeOK, Budget, U32, Terminal
  <2>3. /\ FailedAttempt(NewFailure(kind)) = budget.attempts
        /\ NewFailure(kind) \in Optional(Failure)
    <3>1. NewFailure(kind) \in Failure
      BY <2>2 DEF NewFailure, Failure
    <3> QED
      BY <3>1, NoReasonAssumption DEF FailedAttempt, NewFailure, Optional
  <2>4. ClockFailed \in Reason /\ ClockFailed.kind = "Infrastructure"
    BY ReasonTypes, ReasonFields
  <2>5. Delivers(ClockFailed, NewFailure(kind), budget)
    BY <2>3, <2>4, ReasonFields DEF Delivers
  <2>6. Cleared(overlay).current_attempt = None
    BY ClearedTyped DEF IInv, TypeOK
  <2>7. Good(ClockFailed, NewFailure(kind), budget, Cleared(overlay))
    BY <2>3, <2>4, <2>5, <2>6, SoundOther DEF Good, Names
  <2> QED
    BY <2>1, <2>7 DEF Ending, Terminal
<1> QED
  BY <1>1, <1>2

\* A wait that is cancelled ends the flow well.
LEMMA BackoffEnding ==
    ASSUME IInv, NEW s \in Sample, BackoffCancelled(s)
    PROVE  Ending
<1>1. /\ phase = "Backoff" /\ cancelled /\ phase \notin Terminal \union {"Abandoned"}
  BY DEF BackoffCancelled, Terminal
<1>2. CASE ~Coherent(budget, s)
  BY <1>1, <1>2, ClockEnding DEF BackoffCancelled
<1>3. CASE Coherent(budget, s)
  <2> DEFINE b == Refresh(budget, s)
  <2>1. Terminate(Cancelled("Backoff"), last_failure, b, overlay)
    BY <1>3 DEF BackoffCancelled
  <2>2. b.attempts = budget.attempts /\ budget.attempts > 0
    BY <1>1, Ordinals DEF Refresh, IInv, TypeOK, Budget
  <2>3. Cancelled("Backoff") \in Reason
    BY ReasonTypes DEF CancellationPhases
  <2>4. Sound(Cancelled("Backoff"), b, overlay)
    BY <1>1, <2>2, ReasonFields DEF Sound
  <2>5. Delivers(Cancelled("Backoff"), last_failure, b)
    BY <1>1, <2>2, Ordinals, ReasonFields DEF Delivers
  <2>6. overlay.current_attempt = None
    BY <1>1 DEF IInv, OverlayCoherent
  <2>7. Good(Cancelled("Backoff"), last_failure, b, overlay)
    BY <2>2, <2>3, <2>4, <2>5, <2>6, ReasonFields DEF Good, Names, IInv, TypeOK
  <2> QED
    BY <1>1, <2>1, <2>7 DEF Ending
<1> QED
  BY <1>2, <1>3

\* A timeout that cannot be turned into a deadline ends the flow well.
LEMMA PrepareEnding ==
    ASSUME IInv, PrepareAttempt
    PROVE  Ending \/ (result' = result /\ phase' = "Registering")
<1>1. CASE phase' = "Registering"
  BY <1>1 DEF PrepareAttempt, Proceed, Terminate
<1>2. CASE phase' # "Registering"
  <2>1. /\ phase = "Admitting"
        /\ Terminate(ClockFailed, last_failure, budget, Cleared(overlay))
    BY <1>2 DEF PrepareAttempt, Proceed
  <2>2. ClockFailed \in Reason /\ ClockFailed.kind = "Infrastructure"
    BY ReasonTypes, ReasonFields
  <2>3. Delivers(ClockFailed, last_failure, budget)
    BY <2>1, <2>2, Ordinals, ReasonFields DEF Delivers, Terminal
  <2>4. Cleared(overlay).current_attempt = None
    BY ClearedTyped DEF IInv, TypeOK
  <2>5. Good(ClockFailed, last_failure, budget, Cleared(overlay))
    BY <2>2, <2>3, <2>4, SoundOther DEF Good, Names, IInv, TypeOK
  <2> QED
    BY <2>1, <2>5 DEF Ending, Terminal
<1> QED
  BY <1>1, <1>2

\* The gates of every step are justified.
LEMMA GatesJustified ==
    ASSUME IInv, DeadlineInv, NEW s \in Sample
    PROVE  /\ Justified(AdmissionGates(s), s)
           /\ Justified(AdmissionCallbackGates(s), s)
           /\ Justified(PreparedCommitGates(s), s)
           /\ overlay.next_delay # None => Justified(ScheduleGates(s), s)
           /\ budget.attempts > 0 => Justified(CallbackGates(s, "Backoff"), s)
           /\ budget.attempts > 0 /\ overlay.next_delay # None =>
                 Justified(BackoffGates(s), s)
           /\ budget.attempts > 0 /\ phase = "RuleDecision" =>
                 \A decision : Justified(CallbackGates(s, "Backoff")
                                  ?? DecisionGate(last_failure, decision), s)
<1> DEFINE b == Accounted(budget, s)
<1>1. /\ Justified(ClockGate(s), s) /\ Justified(FlowGate(b), s)
      /\ Justified(CancelGate("BeforeAttempt"), s)
      /\ Justified(LimitGate(b, 0), s)
  BY ClockJustified, FlowJustified, CancelJustified, LimitJustified
<1>2. /\ budget.attempts > 0 => Justified(CancelGate("Backoff"), s)
      /\ overlay.next_delay # None => Justified(LimitGate(b, overlay.next_delay), s)
  BY CancelJustified, LimitJustified
<1>3. ClockGate(s) = None => Justified(PlanGate(s), s)
  BY ClockGatePassed, PlanJustified DEF DeadlineInv
<1>4. Justified(AdmissionGates(s), s)
  BY <1>1, JustifiedFirst DEF AdmissionGates
<1>5. Justified(AdmissionCallbackGates(s), s)
  BY <1>1, JustifiedFirst DEF AdmissionCallbackGates, CallbackGates
<1>6. Justified(PreparedCommitGates(s), s)
  <2>1. Justified(ClockGate(s) ?? PlanGate(s), s)
    BY <1>1, <1>3, JustifiedFirst
  <2> QED
    BY <1>1, <2>1, JustifiedFirst DEF PreparedCommitGates
<1>7. overlay.next_delay # None => Justified(ScheduleGates(s), s)
  BY <1>1, <1>2, JustifiedFirst DEF ScheduleGates
<1>8. budget.attempts > 0 => Justified(CallbackGates(s, "Backoff"), s)
  BY <1>1, <1>2, JustifiedFirst DEF CallbackGates
<1>9. budget.attempts > 0 /\ overlay.next_delay # None => Justified(BackoffGates(s), s)
  BY <1>1, <1>2, <1>8, JustifiedFirst DEF BackoffGates
<1>10. ASSUME budget.attempts > 0, phase = "RuleDecision", NEW decision
       PROVE  Justified(CallbackGates(s, "Backoff")
                           ?? DecisionGate(last_failure, decision), s)
  BY <1>8, <1>10, JustifiedFirst, DecisionJustified DEF DeadlineInv
<1> QED
  BY <1>4, <1>5, <1>6, <1>7, <1>8, <1>9, <1>10

\* A step of the controller leaves the result alone or ends the flow well.
LEMMA StepEndings ==
    ASSUME IInv, DeadlineInv, NEW s \in Sample, Step(s)
    PROVE  /\ phase \notin Terminal \union {"Abandoned"}
           /\ Ending \/ (result' = result /\ phase' \notin Terminal \union {"Abandoned"})
<1> DEFINE Goal == Ending \/ (result' = result /\ phase' \notin Terminal \union {"Abandoned"})
<1>1. phase \notin Terminal \union {"Abandoned"}
  BY DEF Step, BeforeAttempt, BeforeAttemptReturned, CallbackPanicked, CommitAttempt,
         RegistrationFailed, CommitPreparedAttempt, AttemptSucceeded,
         AttemptReturnedError, AttemptPanicked, AttemptTimedOut, AttemptCancelled,
         AttemptTimerFailed, WorkerLost, AttemptFailedReturned, RuleDecided,
         ScheduleRetry, RetryScheduledReturned, CheckBackoffReady, BackoffCancelled,
         BackoffTimerFailed, Terminal, CallbackPhases
<1>2. ASSUME NEW next \in Phases \ (Terminal \union {"Abandoned"}), NEW b, NEW o,
             Proceed(next, b, o)
      PROVE  Goal
  BY <1>2 DEF Proceed
<1>3. ASSUME NEW reason, reason # None, Justified(reason, s), Stop(reason, s),
             phase # "Active"
      PROVE  Goal
  BY <1>1, <1>3, StopEnding
<1>4. phase \in Handling \union {"Backoff"} => budget.attempts > 0
  BY <1>1, Ordinals
<1>5. phase \in {"Scheduling", "RetryScheduled"} => overlay.next_delay # None
  BY DEF IInv, OverlayCoherent
<1>6. {"BeforeAttempt", "Admitting", "Active", "AttemptFailed", "RuleDecision",
       "Scheduling", "RetryScheduled", "Backoff", "Ready"}
         \subseteq Phases \ (Terminal \union {"Abandoned"})
  BY DEF Phases, Terminal, CallbackPhases
<1>7. ASSUME BeforeAttempt(s) \/ BeforeAttemptReturned(s)
      PROVE  Goal
  BY <1>2, <1>3, <1>6, <1>7, GatesJustified DEF BeforeAttempt, BeforeAttemptReturned
<1>8. ASSUME CommitAttempt(s) \/ CommitPreparedAttempt(s)
      PROVE  Goal
  BY <1>2, <1>3, <1>6, <1>8, GatesJustified
  DEF CommitAttempt, CommitPreparedAttempt, Begin
<1>9. ASSUME AttemptFailedReturned(s)
      PROVE  Goal
  BY <1>2, <1>3, <1>4, <1>6, <1>9, GatesJustified DEF AttemptFailedReturned, Handling
<1>10. ASSUME NEW decision, NEW hint, NEW delay, RuleDecided(s, decision, hint, delay)
       PROVE  Goal
  BY <1>2, <1>3, <1>4, <1>6, <1>10, GatesJustified DEF RuleDecided, Handling
<1>11. ASSUME ScheduleRetry(s)
       PROVE  Goal
  BY <1>2, <1>3, <1>5, <1>6, <1>11, GatesJustified DEF ScheduleRetry
<1>12. ASSUME RetryScheduledReturned(s)
       PROVE  Goal
  BY <1>1, <1>2, <1>3, <1>4, <1>5, <1>6, <1>12, GatesJustified, ClockEnding
  DEF RetryScheduledReturned, Handling
<1>13. ASSUME CheckBackoffReady(s)
       PROVE  Goal
  BY <1>2, <1>3, <1>4, <1>6, <1>13, GatesJustified DEF CheckBackoffReady
<1>14. ASSUME \/ RegistrationFailed(s) \/ AttemptTimerFailed(s)
              \/ WorkerLost(s) \/ BackoffTimerFailed(s)
       PROVE  Goal
  BY <1>1, <1>14, InfrastructureEnding
  DEF RegistrationFailed, AttemptTimerFailed, WorkerLost, BackoffTimerFailed,
      InfrastructureFailures, Timed
<1>15. ASSUME AttemptReturnedError(s) \/ AttemptPanicked(s) \/ AttemptTimedOut(s)
       PROVE  Goal
  BY <1>15, RecordEnding
  DEF AttemptReturnedError, AttemptPanicked, AttemptTimedOut, FailureKinds, Terminal
<1> QED
  BY <1>1, <1>7, <1>8, <1>9, <1>10, <1>11, <1>12, <1>13, <1>14, <1>15,
     CallbackEnding, AttemptEnding, BackoffEnding
  DEF Step

\* Every step leaves the result alone or ends the flow well; once there is a
\* result nothing that explains it changes.
LEMMA Endings ==
    ASSUME IInv, DeadlineInv, [Next]_vars
    PROVE  \/ Ending
           \/ /\ result' = result
              /\ phase' \in Terminal <=> phase \in Terminal
              /\ phase \in Terminal => UNCHANGED <<config, budget, plan>>
<1>1. CASE \E s \in Sample : Step(s)
  BY <1>1, StepEndings
<1>2. CASE PrepareAttempt
  BY <1>2, PrepareEnding DEF Terminal, PrepareAttempt
<1>3. CASE BackoffElapsed \/ Complete \/ Cancel \/ Abandon \/ Done \/ UNCHANGED vars
  BY <1>3 DEF BackoffElapsed, Complete, Cancel, Abandon, Done, Proceed, vars, Terminal
<1> QED
  BY <1>1, <1>2, <1>3 DEF Next

ResultInv == ResultPhase /\ ReasonExplained /\ ResultCoherent

\* The result made by the step that ends a flow is explained by its context and
\* carries the right failure and attempt.
LEMMA EndingResult ==
    ASSUME IInv', Ending
    PROVE  ResultInv'
<1> PICK reason, failure, b, o :
           Terminate(reason, failure, b, o) /\ Good(reason, failure, b, o)
  BY DEF Ending
<1>1. /\ phase' = "Finished" /\ budget' = b /\ plan' = plan /\ config' = config
      /\ cancelled' = cancelled
      /\ result' = [reason |-> reason, last_failure |-> failure,
                    context |-> Context(b, o)]
  BY DEF Terminate
<1>2. /\ result'.reason = reason /\ result'.last_failure = failure
      /\ result'.context = Context(b, o)
      /\ result'.context.attempts = b.attempts
      /\ result'.context.operation_elapsed = b.operation_elapsed
      /\ result'.context.total_elapsed = TotalElapsed(b)
      /\ result'.context.overlay = o
  BY <1>1 DEF Context
<1>3. result' # None
  <2>1. b \in Budget /\ ElapsedCoherent(b) /\ o \in Overlay
    BY <1>1 DEF IInv, TypeOK, AccountingCoherent, ElapsedCoherent, HasActiveAttempt,
                TotalElapsed, Terminate
  <2>2. result' \in Result
    BY <1>1, <2>1, ContextTyped DEF Good, Result
  <2> QED
    BY <2>2, NoReasonAssumption
<1>4. ResultPhase'
  BY <1>1, <1>3 DEF ResultPhase, Terminal
<1>5. ReasonExplained'
  <2>1. Sound(reason, b, o)
    BY DEF Good
  <2> QED
    BY <1>1, <1>2, <2>1 DEF ReasonExplained, Sound
<1>6. FailureDelivered'
  <2>1. Delivers(reason, failure, b)
    BY DEF Good
  <2> QED
    BY <1>2, <2>1 DEF FailureDelivered, Delivers
<1>7. TerminalAttempt'
  <2>1. Names(reason, b, o)
    BY DEF Good
  <2> QED
    BY <1>1, <1>2, <2>1 DEF TerminalAttempt, Names
<1> QED
  BY <1>4, <1>5, <1>6, <1>7 DEF ResultInv, ResultCoherent

\* Results are explained and coherent when they are made and stay so.
LEMMA NextResultInv ==
    ASSUME IInv, DeadlineInv, ResultInv, [Next]_vars
    PROVE  ResultInv'
<1>1. CASE Ending
  BY <1>1, EndingResult, NextIInv
<1>2. CASE /\ result' = result
           /\ phase' \in Terminal <=> phase \in Terminal
           /\ phase \in Terminal => UNCHANGED <<config, budget, plan>>
  <2>1. ResultPhase'
    BY <1>2 DEF ResultInv, ResultPhase
  <2>2. CASE result = None
    BY <1>2, <2>1, <2>2
    DEF ResultInv, ReasonExplained, ResultCoherent, FailureDelivered, TerminalAttempt
  <2>3. CASE result # None
    <3>1. /\ UNCHANGED <<config, budget, plan, result>>
          /\ cancelled => cancelled'
      BY <1>2, <2>3, Moves DEF ResultInv, ResultPhase
    <3>2. ReasonExplained'
      BY <3>1 DEF ResultInv, ReasonExplained
    <3>3. ResultCoherent'
      BY <3>1 DEF ResultInv, ResultCoherent, FailureDelivered, TerminalAttempt
    <3> QED
      BY <2>1, <3>2, <3>3 DEF ResultInv
  <2> QED
    BY <2>2, <2>3
<1> QED
  BY <1>1, <1>2, Endings

\* The invariant about results holds in every state of every flow.
THEOREM ResultInvariance == Spec => []ResultInv
<1>1. Init => ResultInv
  BY DEF Init, ResultInv, ResultPhase, ReasonExplained, ResultCoherent,
         FailureDelivered, TerminalAttempt, Terminal
<1>2. IInv /\ DeadlineInv /\ ResultInv /\ [Next]_vars => ResultInv'
  BY NextResultInv
<1> QED
  BY <1>1, <1>2, Invariance, DeadlineInvariance, PTL DEF Spec

\* The reason of every result is borne out by the context delivered with it.
THEOREM ReasonTheorem == Spec => []ReasonExplained
<1>1. ResultInv => ReasonExplained
  BY DEF ResultInv
<1> QED
  BY <1>1, ResultInvariance, PTL

\* Every result carries the failure of the last failed attempt and names an
\* attempt only where one was running or announced.
THEOREM ResultTheorem == Spec => []ResultCoherent
<1>1. ResultInv => ResultCoherent
  BY DEF ResultInv
<1> QED
  BY <1>1, ResultInvariance, PTL

-----------------------------------------------------------------------------
(***************************************************************************)
(* The flow implements RetryContract.  Steps that read the clock map to    *)
(* Admit, Fail, Decide or a stutter, by what they do to the accounting.    *)
(***************************************************************************)

\* The caller's view of the phases, now and after the step.
LEMMA StatusOf ==
    /\ phase = "Active" => Status = "running"
    /\ phase = "Finished" => Status = "decided"
    /\ phase = "Completed" => Status = "announced"
    /\ phase = "Abandoned" => Status = "gone"
    /\ phase \notin {"Active", "Finished", "Completed", "Abandoned"} =>
          Status = "idle"
    /\ phase' = "Active" => Status' = "running"
    /\ phase' = "Finished" => Status' = "decided"
    /\ phase' = "Completed" => Status' = "announced"
    /\ phase' = "Abandoned" => Status' = "gone"
    /\ phase' \notin {"Active", "Finished", "Completed", "Abandoned"} =>
          Status' = "idle"
BY DEF Status

\* A step that goes on opens an attempt, closes one, or shows the caller
\* nothing.
LEMMA StepShapes ==
    ASSUME IInv, DeadlineInv, NEW s \in Sample, Step(s), ~Ending
    PROVE  /\ UNCHANGED <<config, cancelled, result>>
           /\ \/ Status' = Status /\ budget'.attempts = budget.attempts
              \/ /\ Status = "running" /\ Status' = "idle"
                 /\ budget'.attempts = budget.attempts
              \/ /\ Status = "idle" /\ Status' = "running"
                 /\ ~cancelled /\ budget.attempts < config.max_attempts
                 /\ budget'.attempts = budget.attempts + 1
<1>1. /\ phase \notin Terminal \union {"Abandoned"}
      /\ result' = result /\ phase' \notin Terminal \union {"Abandoned"}
  BY StepEndings
<1>2. UNCHANGED <<config, cancelled>>
  BY StepMoves
<1>3. /\ budget \in Budget /\ ElapsedCoherent(budget)
      /\ HasActiveAttempt(budget) <=> phase = "Active"
      /\ HasActiveAttempt(budget') <=> phase' = "Active"
  BY <1>1, NextIInv DEF Next, IInv, TypeOK, AccountingCoherent, HasActiveAttempt
<1>4. CASE Sampled(s)
  <2>1. /\ budget'.attempts = budget.attempts
        /\ HasActiveAttempt(budget') <=> HasActiveAttempt(budget)
    BY <1>3, <1>4, AccountedCoherent DEF Sampled
  <2>2. Status' = Status
    BY <1>1, <1>3, <2>1, StatusOf DEF Terminal
  <2> QED
    BY <1>1, <1>2, <2>1, <2>2
<1>5. CASE Finished(s)
  <2>1. /\ budget'.attempts = budget.attempts
        /\ HasActiveAttempt(budget) /\ ~HasActiveAttempt(budget')
    BY <1>3, <1>5, FinishCoherent DEF Finished
  <2> QED
    BY <1>1, <1>2, <1>3, <2>1, StatusOf DEF Terminal
<1>6. CASE Admitted(s)
  <2>1. /\ Coherent(budget, s) /\ ~cancelled
        /\ budget.attempts < config.max_attempts
    BY <1>3, <1>6, StepGatesPassed DEF Admitted, IInv
  <2>2. /\ HasActiveAttempt(budget') /\ budget'.attempts = budget.attempts + 1
    <3>1. s # None
      BY NoneAssumption, MaxAssumption DEF Sample, Instant
    <3> QED
      BY <1>3, <1>6, <2>1, <3>1
      DEF Admitted, BeginAttempt, Accounted, Refresh, HasActiveAttempt, Budget
  <2>3. phase \in {"Admitting", "Registering"}
    BY <1>3, <2>2, Arrivals DEF CommitAttempt, CommitPreparedAttempt
  <2> QED
    BY <1>1, <1>2, <1>3, <2>1, <2>2, <2>3, StatusOf
<1> QED
  BY <1>4, <1>5, <1>6, AccountingSteps

\* Every step of a flow is a step of the contract or shows the caller nothing.
LEMMA ContractStep ==
    ASSUME IInv, DeadlineInv, [Next]_vars
    PROVE  [Contract!Next]_(Contract!vars)
<1>1. CASE Ending
  <2> PICK reason, failure, b, o :
             Terminate(reason, failure, b, o) /\ Good(reason, failure, b, o)
    BY <1>1 DEF Ending
  <2>1. /\ UNCHANGED <<config, cancelled>> /\ budget'.attempts = budget.attempts
        /\ phase' = "Finished" /\ result'.reason.kind = reason.kind
    BY DEF Terminate, Good
  <2>2. /\ reason.kind \in {"Success", "Aborted", "Exhausted", "TimedOut",
                            "Cancelled", "CallbackFailed", "Infrastructure"}
        /\ reason.kind = "Success" => phase = "Active"
        /\ reason.kind = "Cancelled" => cancelled
    BY DEF Good, Reason, Sound
  <2>3. Status \in {"idle", "running"} /\ Status' = "decided"
          /\ (phase = "Active" => Status = "running")
    BY <1>1, <2>1, StatusOf DEF Ending, Terminal
  <2>4. result' # None
    BY <1>1, <2>1, NextIInv, EndingResult DEF ResultInv, ResultPhase, Terminal
  <2>5. Contract!Decide(reason.kind)
    BY <2>1, <2>2, <2>3, <2>4 DEF Contract!Decide
  <2> QED
    BY <2>2, <2>5 DEF Contract!Next
<1>2. CASE ~Ending /\ \E s \in Sample : Step(s)
  <2> PICK s \in Sample : Step(s)
    BY <1>2
  <2> QED
    BY <1>2, StepShapes
    DEF Contract!Next, Contract!Admit, Contract!Fail, Contract!vars
<1>3. CASE ~Ending /\ PrepareAttempt
  <2>1. /\ UNCHANGED <<config, cancelled, budget>> /\ result' = result
        /\ phase = "Admitting" /\ phase' = "Registering"
    BY <1>3, PrepareEnding, QuietSteps DEF PrepareAttempt, Proceed, Terminate
  <2> QED
    BY <2>1, StatusOf DEF Contract!vars
<1>4. CASE BackoffElapsed
  BY <1>4, StatusOf DEF BackoffElapsed, Proceed, Contract!vars
<1>5. CASE Complete
  BY <1>5, StatusOf DEF Complete, Contract!Next, Contract!Announce
<1>6. CASE Cancel
  BY <1>6 DEF Cancel, Contract!Next, Contract!Cancel, Status
<1>7. CASE Abandon
  BY <1>7, StatusOf DEF Abandon, Contract!Next, Contract!Abandon
<1>8. CASE Done \/ UNCHANGED vars
  BY <1>8 DEF Done, vars, Contract!vars, Status
<1> QED
  BY <1>1, <1>2, <1>3, <1>4, <1>5, <1>6, <1>7, <1>8 DEF Next

\* A flow starts as the contract does.
LEMMA ContractInit ==
    ASSUME Init
    PROVE  Contract!Init
<1>1. config.max_attempts \in Nat \ {0}
  BY ConfigsAssumption, MaxAssumption DEF Init, Config, U32
<1>2. budget.attempts = 0
  BY DEF Init, NewBudget
<1> QED
  BY <1>1, <1>2, StatusOf DEF Init, Contract!Init

\* The controller implements the contract of RetryContract, for every
\* definition, clock and schedule.
THEOREM ContractTheorem == Spec => ImplementsContract
<1>1. Init => Contract!Init
  BY ContractInit
<1>2. IInv /\ DeadlineInv /\ [Next]_vars => [Contract!Next]_(Contract!vars)
  BY ContractStep
<1> QED
  BY <1>1, <1>2, Invariance, DeadlineInvariance, PTL
  DEF Spec, ImplementsContract, Contract!Spec

=============================================================================
