------------------------------- MODULE RetryFlow -------------------------------
(***************************************************************************)
(* One retry flow: RetryFlowController and RetryFlowState                  *)
(* (src/executor/internal/flow) driven by the loop of one of the four      *)
(* facades Retry, RetrySession, AsyncRetry and WorkerRetry.                *)
(*                                                                         *)
(* A controller method runs alone except where it hands control to code it *)
(* does not own: a control observer, a retry rule, the operation, a timer. *)
(* An action is the code between two such points, and reads the clock at   *)
(* most once.  Its reading s is any element of Sample, since the clock is  *)
(* injected.  The cancellation token is shared: it may be cancelled        *)
(* between any two actions.  Where a method reads the token twice after    *)
(* one reading of the clock, the first reading decides as the pair does.   *)
(***************************************************************************)
EXTENDS RetryBudgetState

CONSTANTS
    Configs,   \* the retry definitions a flow may be started with
    Starts,    \* the clock readings a flow may start at
    Delays     \* the delays that backoff steps and retry-after hints take

Facades == {"Retry", "RetrySession", "AsyncRetry", "WorkerRetry"}
Timed   == {"AsyncRetry", "WorkerRetry"}

Config == [facade                : Facades,
           max_attempts          : U32 \ {0},
           operation_time_budget : Optional(Duration),
           total_time_budget     : Optional(Duration),
           fallback              : {"Retry", "Abort"},
           attempt_timeout       : Optional(Duration),
           flow_timeout          : Optional(Duration)]

\* Retry and RetrySession construct their controller without hard timeouts.
ASSUME ConfigsAssumption ==
    /\ Configs \subseteq Config
    /\ \A c \in Configs : c.facade \notin Timed =>
                             c.attempt_timeout = None /\ c.flow_timeout = None

ASSUME StartsAssumption == Starts \subseteq Instant

ASSUME DelaysAssumption == Delays \subseteq Duration

VARIABLES
    config,        \* the definition of this flow, never changed
    cancelled,     \* the flag behind the RetryCancellationToken
    phase,         \* where control is
    budget,        \* RetryFlowState.budget
    retry_index,   \* RetryFlowState.backoff: the number of selected steps
    overlay,       \* the attempt and scheduling data added to each context
    last_failure,  \* the retained failure, with the attempt that produced it
    plan,          \* PreparedAttemptPlan of the current attempt
    due,           \* deadline of the latest PreparedBackoffPlan
    result         \* the terminal result handed to RetryConfig::complete

vars == <<config, cancelled, phase, budget, retry_index, overlay,
          last_failure, plan, due, result>>

CallbackPhases == {"BeforeAttempt", "AttemptFailed", "RuleDecision",
                   "RetryScheduled"}

Phases == CallbackPhases \union
          {"Ready", "Admitting", "Registering", "Active", "Scheduling",
           "Backoff", "Finished", "Completed", "Abandoned"}

FailureKinds == {"Error", "AttemptTimedOut", "FlowTimedOut", "Panicked"}
Failure == [kind : FailureKinds, attempt : U32 \ {0}]

Scopes == {"Attempt", "Flow"}
Plan == [deadline : Instant, duration : Duration, scope : Scopes]

Overlay == [current_attempt      : Optional(U32),
            hard_attempt_timeout : Optional(Duration),
            next_delay           : Optional(Duration),
            retry_after_hint     : Optional(Duration)]

NoOverlay == [current_attempt      |-> None,
              hard_attempt_timeout |-> None,
              next_delay           |-> None,
              retry_after_hint     |-> None]

-----------------------------------------------------------------------------
(***************************************************************************)
(* Terminal reasons and contexts.                                          *)
(***************************************************************************)
CancellationPhases == {"BeforeAttempt", "Attempt", "Backoff"}

InfrastructureFailures == {"Clock", "Timer", "WorkerSpawn",
                           "WorkerChannelClosed", "WorkerStillRunning"}

Reason == [kind : {"Success", "Aborted", "Exhausted", "TimedOut", "Cancelled",
                   "CallbackFailed", "Infrastructure"},
           detail : {""} \union Limits \union Scopes \union CallbackPhases
                    \union CancellationPhases \union InfrastructureFailures]

ContextType == [attempts             : U32,
                operation_elapsed    : Duration,
                total_elapsed        : Duration,
                last_attempt_elapsed : Duration,
                overlay              : Overlay]

Result == [reason       : Reason,
           last_failure : Optional(Failure),
           context      : ContextType]

ASSUME NoReasonAssumption == /\ None \notin Reason
                             /\ None \notin Failure
                             /\ None \notin Plan
                             /\ None \notin Result

Succeeded                == [kind |-> "Success", detail |-> ""]
Aborted                  == [kind |-> "Aborted", detail |-> ""]
Exhausted(limit)         == [kind |-> "Exhausted", detail |-> limit]
TimedOut(scope)          == [kind |-> "TimedOut", detail |-> scope]
Cancelled(where)         == [kind |-> "Cancelled", detail |-> where]
CallbackFailed(callback) == [kind |-> "CallbackFailed", detail |-> callback]
Infrastructure(failure)  == [kind |-> "Infrastructure", detail |-> failure]
ClockFailed              == Infrastructure("Clock")

\* RetryContext: the committed accounting under the controller's overlay.
Context(b, o) == [attempts             |-> b.attempts,
                  operation_elapsed    |-> b.operation_elapsed,
                  total_elapsed        |-> TotalElapsed(b),
                  last_attempt_elapsed |-> b.last_attempt_elapsed,
                  overlay              |-> o]

\* clear_current_attempt: scheduling data stay, attempt data go.
LeakyCleared(o) == o
Cleared(o) == [o EXCEPT !.current_attempt = None,
                        !.hard_attempt_timeout = None]

-----------------------------------------------------------------------------
(***************************************************************************)
(* Deadlines.                                                              *)
(***************************************************************************)
FlowTimedOut(b) == /\ config.flow_timeout # None
                   /\ TotalElapsed(b) >= config.flow_timeout

FlowDeadline(b) == CheckedAdd(b.started_at, config.flow_timeout)

FlowRemaining(b) == IF config.flow_timeout = None
                    THEN None
                    ELSE SaturatingSub(config.flow_timeout, TotalElapsed(b))

\* EffectiveTimeout::select: the shorter limit, and Attempt on a tie.
AttemptFirstTimeout(b) ==
    IF config.attempt_timeout # None
    THEN [duration |-> config.attempt_timeout, scope |-> "Attempt"]
    ELSE IF FlowRemaining(b) # None
    THEN [duration |-> FlowRemaining(b), scope |-> "Flow"]
    ELSE None
EffectiveTimeout(b) ==
    IF /\ config.attempt_timeout # None
       /\ \/ FlowRemaining(b) = None
          \/ config.attempt_timeout <= FlowRemaining(b)
    THEN [duration |-> config.attempt_timeout, scope |-> "Attempt"]
    ELSE IF FlowRemaining(b) # None
    THEN [duration |-> FlowRemaining(b), scope |-> "Flow"]
    ELSE None

\* The absolute deadline of a selected timeout, None when it overflows.  The
\* admission sample is the one before_attempt committed last.
TimeoutDeadline(b, timeout) == IF timeout.scope = "Attempt"
                               THEN CheckedAdd(b.sampled_at, timeout.duration)
                               ELSE FlowDeadline(b)

\* backoff_deadline: capped at the flow deadline, None when it overflows.
UncheckedBackoffDeadline(b, delay) == b.sampled_at + delay
BackoffDeadline(b, delay) ==
    IF config.flow_timeout = None
    THEN CheckedAdd(b.sampled_at, delay)
    ELSE IF FlowDeadline(b) = None
    THEN None
    ELSE IF delay >= SaturatingSub(FlowDeadline(b), b.sampled_at)
    THEN FlowDeadline(b)
    ELSE CheckedAdd(b.sampled_at, delay)

-----------------------------------------------------------------------------
(***************************************************************************)
(* Gates.  Each is the reason it stops the flow with, or None; gates are   *)
(* tried in the order they are written, so a ?? b is the first reason.     *)
(***************************************************************************)
a ?? b == IF a # None THEN a ELSE b

ClockGate(s) == IF Coherent(budget, s) THEN None ELSE ClockFailed

FlowGate(b) == IF FlowTimedOut(b) THEN TimedOut("Flow") ELSE None

IgnoredCancelGate(where) == None
CancelGate(where) == IF cancelled THEN Cancelled(where) ELSE None

LimitGate(b, delay) == LET limit == RetryLimit(b, config, delay) IN
                       IF limit # None THEN Exhausted(limit) ELSE None

PlanGate(s) == IF plan # None /\ s >= plan.deadline
               THEN TimedOut(plan.scope)
               ELSE None

\* Admission without callbacks: before_attempt's first half, commit_attempt.
AdmissionGates(s) == LET b == Accounted(budget, s) IN
    ClockGate(s) ?? FlowGate(b) ?? CancelGate("BeforeAttempt") ?? LimitGate(b, 0)

\* After a control callback cancellation comes before the flow timeout.
CallbackGates(s, where) == ClockGate(s) ?? CancelGate(where)

AdmissionCallbackGates(s) == LET b == Accounted(budget, s) IN
    CallbackGates(s, "BeforeAttempt") ?? FlowGate(b) ?? LimitGate(b, 0)

\* commit_prepared_attempt: timer registration may have used up the deadline.
UnplannedCommitGates(s) == AdmissionGates(s)
PreparedCommitGates(s) == LET b == Accounted(budget, s) IN
    ClockGate(s) ?? PlanGate(s) ?? FlowGate(b) ?? CancelGate("BeforeAttempt")
                 ?? LimitGate(b, 0)

ScheduleGates(s) == LET b == Accounted(budget, s) IN
    ClockGate(s) ?? FlowGate(b) ?? LimitGate(b, overlay.next_delay)

BackoffGates(s) == LET b == Accounted(budget, s) IN
    CallbackGates(s, "Backoff") ?? FlowGate(b) ?? LimitGate(b, overlay.next_delay)

\* The classification of a failure by the rules' decision and the fallback.
DecisionGate(failure, decision) ==
    IF decision = "UseDefault" /\ failure.kind = "AttemptTimedOut"
    THEN TimedOut("Attempt")
    ELSE IF decision = "UseDefault" /\ failure.kind = "FlowTimedOut"
    THEN TimedOut("Flow")
    ELSE IF \/ decision = "Abort"
            \/ /\ decision = "UseDefault"
               /\ failure.kind = "Panicked" \/ config.fallback = "Abort"
    THEN Aborted
    ELSE None

-----------------------------------------------------------------------------
(***************************************************************************)
(* How a step ends: control moves on, or the flow stops with a result.     *)
(***************************************************************************)
Proceed(next, b, o) ==
    /\ phase' = next
    /\ budget' = b
    /\ overlay' = o
    /\ UNCHANGED <<config, cancelled, result>>

Terminate(reason, failure, b, o) ==
    /\ phase' = "Finished"
    /\ budget' = b
    /\ overlay' = o
    /\ last_failure' = None
    /\ result' = [reason       |-> reason,
                  last_failure |-> failure,
                  context      |-> Context(b, o)]
    /\ UNCHANGED <<config, cancelled, retry_index, plan, due>>

\* exhausted, timed_out, cancelled, aborted, inactive_clock_failure: the reading
\* is accounted if it is valid, and no attempt is reported as running.
StaleStop(reason, s) ==
    Terminate(reason, last_failure, budget, Cleared(overlay))
Stop(reason, s) ==
    Terminate(reason, last_failure, Accounted(budget, s), Cleared(overlay))

\* finish_for_infrastructure, finish_attempt: close the running attempt.
Closed(s) == IF ~Coherent(budget, s)
             THEN budget
             ELSE IF HasActiveAttempt(budget)
             THEN FinishAttempt(budget, s)
             ELSE Refresh(budget, s)

\* record_inactive_infrastructure_failure and its active twin, which keeps the
\* attempt in the context.  A clock failure comes first in both.
InactiveInfrastructure(failure, s) ==
    Terminate(ClockGate(s) ?? Infrastructure(failure), last_failure,
              Closed(s), Cleared(overlay))

ActiveInfrastructure(failure, s) ==
    Terminate(ClockGate(s) ?? Infrastructure(failure), last_failure,
              Closed(s), overlay)

-----------------------------------------------------------------------------
(***************************************************************************)
(* Admission of the next attempt.                                          *)
(***************************************************************************)

\* before_attempt up to its observers.
AttemptOverlay(b) == [NoOverlay EXCEPT !.current_attempt = Successor(b.attempts)]

BeforeAttempt(s) ==
    /\ phase = "Ready"
    /\ IF AdmissionGates(s) = None
       THEN LET b == Accounted(budget, s) IN
            /\ Proceed("BeforeAttempt", b, AttemptOverlay(b))
            /\ UNCHANGED <<retry_index, last_failure, plan, due>>
       ELSE Stop(AdmissionGates(s), s)

\* The before-attempt observers return.
BeforeAttemptReturned(s) ==
    /\ phase = "BeforeAttempt"
    /\ IF AdmissionCallbackGates(s) = None
       THEN /\ Proceed("Admitting", Accounted(budget, s), overlay)
            /\ UNCHANGED <<retry_index, last_failure, plan, due>>
       ELSE Stop(AdmissionCallbackGates(s), s)

\* A control callback panics.  The panic stays the reason even if the clock
\* reading after it is invalid, and the context keeps the attempt.
CallbackPanicked(s) ==
    /\ phase \in CallbackPhases
    /\ Terminate(CallbackFailed(phase), last_failure,
                 Accounted(budget, s), overlay)

\* state.begin_attempt with the sample that passed the gates.
Begin(s) ==
    /\ Proceed("Active", BeginAttempt(Accounted(budget, s), config, s), overlay)
    /\ UNCHANGED <<retry_index, last_failure, plan, due>>

CommitAttempt(s) ==
    /\ phase = "Admitting"
    /\ config.facade \notin Timed
    /\ IF AdmissionGates(s) = None THEN Begin(s) ELSE Stop(AdmissionGates(s), s)

\* prepare_attempt fixes the absolute deadline before the timer is registered.
PrepareAttempt ==
    /\ phase = "Admitting"
    /\ config.facade \in Timed
    /\ LET timeout == EffectiveTimeout(budget) IN
       IF timeout = None
       THEN /\ Proceed("Registering", budget, overlay)
            /\ plan' = None
            /\ UNCHANGED <<retry_index, last_failure, due>>
       ELSE IF TimeoutDeadline(budget, timeout) = None
       THEN Terminate(ClockFailed, last_failure, budget, Cleared(overlay))
       ELSE /\ Proceed("Registering", budget,
                       [overlay EXCEPT !.hard_attempt_timeout = timeout.duration])
            /\ plan' = [deadline |-> TimeoutDeadline(budget, timeout),
                        duration |-> timeout.duration,
                        scope    |-> timeout.scope]
            /\ UNCHANGED <<retry_index, last_failure, due>>

\* The timer refuses the deadline, or WorkerRetry cannot spawn its threads.
RegistrationFailed(s) ==
    /\ phase = "Registering"
    /\ \/ /\ plan # None
          /\ InactiveInfrastructure("Timer", s)
       \/ /\ config.facade = "WorkerRetry"
          /\ InactiveInfrastructure("WorkerSpawn", s)

CommitPreparedAttempt(s) ==
    /\ phase = "Registering"
    /\ IF PreparedCommitGates(s) = None
       THEN Begin(s)
       ELSE Stop(PreparedCommitGates(s), s)

-----------------------------------------------------------------------------
(***************************************************************************)
(* The end of an attempt.  WorkerRetry looks at the token before it takes  *)
(* a result, AsyncRetry before it takes a timeout.                         *)
(***************************************************************************)
ResultTaken  == config.facade = "WorkerRetry" => ~cancelled
TimeoutTaken == config.facade \in Timed /\ plan # None /\ ~cancelled

\* finish_success
AttemptSucceeded(s) ==
    /\ phase = "Active"
    /\ ResultTaken
    /\ IF Coherent(budget, s)
       THEN Terminate(Succeeded, None, FinishAttempt(budget, s), Cleared(overlay))
       ELSE Stop(ClockFailed, s)

\* The failure of the running attempt, which record_failure retains.
FirstFailure(kind) ==
    last_failure ?? [kind |-> kind, attempt |-> budget.attempts]
NewFailure(kind) == [kind |-> kind, attempt |-> budget.attempts]

\* record_failure up to the attempt-failed observers.
RecordFailure(kind, s) ==
    IF Coherent(budget, s)
    THEN /\ Proceed("AttemptFailed", FinishAttempt(budget, s), overlay)
         /\ last_failure' = NewFailure(kind)
         /\ UNCHANGED <<retry_index, plan, due>>
    ELSE Terminate(ClockFailed, NewFailure(kind), budget, Cleared(overlay))

AttemptReturnedError(s) ==
    /\ phase = "Active"
    /\ ResultTaken
    /\ RecordFailure("Error", s)

\* Only a worker has a panic boundary.
AttemptPanicked(s) ==
    /\ phase = "Active"
    /\ config.facade = "WorkerRetry"
    /\ ResultTaken
    /\ RecordFailure("Panicked", s)

\* The registered timer fires.  Timers are external: one that fires has reached
\* its deadline on the flow's own clock.
AttemptTimedOut(s) ==
    /\ phase = "Active"
    /\ TimeoutTaken
    /\ Coherent(budget, s) => s >= plan.deadline
    /\ RecordFailure(IF plan.scope = "Attempt" THEN "AttemptTimedOut"
                                               ELSE "FlowTimedOut", s)

\* record_attempt_cancellation: the context keeps the interrupted attempt.
AttemptCancelled(s) ==
    /\ phase = "Active"
    /\ config.facade \in Timed
    /\ cancelled
    /\ IF Coherent(budget, s)
       THEN Terminate(Cancelled("Attempt"), last_failure,
                      FinishAttempt(budget, s), overlay)
       ELSE Stop(ClockFailed, s)

\* The timer of a running attempt fails.  WorkerRetry has then seen its worker
\* exit and reports no running attempt.
AttemptTimerFailed(s) ==
    /\ phase = "Active"
    /\ TimeoutTaken
    /\ \/ /\ config.facade = "AsyncRetry"
          /\ ActiveInfrastructure("Timer", s)
       \/ /\ config.facade = "WorkerRetry"
          /\ InactiveInfrastructure("Timer", s)

\* The worker channel closes, or the worker outlives its cancellation grace
\* after a cancellation, a timeout or a timer failure.
WorkerLost(s) ==
    /\ phase = "Active"
    /\ config.facade = "WorkerRetry"
    /\ \/ ActiveInfrastructure("WorkerChannelClosed", s)
       \/ /\ cancelled \/ plan # None
          /\ ActiveInfrastructure("WorkerStillRunning", s)

-----------------------------------------------------------------------------
(***************************************************************************)
(* Classification of the failure and selection of the next delay.          *)
(***************************************************************************)
AttemptFailedReturned(s) ==
    /\ phase = "AttemptFailed"
    /\ IF CallbackGates(s, "Backoff") = None
       THEN /\ Proceed("RuleDecision", Accounted(budget, s), overlay)
            /\ UNCHANGED <<retry_index, last_failure, plan, due>>
       ELSE Stop(CallbackGates(s, "Backoff"), s)

\* The rules return the decision; hint is the delay a hint decision carries and
\* delay is the one BackoffState::next resolves for it.
RuleDecided(s, decision, hint, delay) ==
    /\ phase = "RuleDecision"
    /\ hint # None <=> decision = "RetryWithHint"
    /\ LET stop == CallbackGates(s, "Backoff")
                       ?? DecisionGate(last_failure, decision) IN
       IF stop = None
       THEN /\ Proceed("Scheduling", Accounted(budget, s),
                       [overlay EXCEPT !.retry_after_hint = hint,
                                       !.next_delay = delay])
            /\ retry_index' = Successor(retry_index)
            /\ UNCHANGED <<last_failure, plan, due>>
       ELSE Stop(stop, s)

\* The delay is checked against the limits before it is announced.
ScheduleRetry(s) ==
    /\ phase = "Scheduling"
    /\ IF ScheduleGates(s) = None
       THEN /\ Proceed("RetryScheduled", Accounted(budget, s), overlay)
            /\ UNCHANGED <<retry_index, last_failure, plan, due>>
       ELSE Stop(ScheduleGates(s), s)

\* The retry-scheduled observers return: the gates are tried again and the
\* deadline is fixed from this reading.
RetryScheduledReturned(s) ==
    /\ phase = "RetryScheduled"
    /\ LET b == Accounted(budget, s)
           deadline == BackoffDeadline(b, overlay.next_delay)
       IN IF BackoffGates(s) # None
          THEN Stop(BackoffGates(s), s)
          ELSE IF deadline = None
          THEN Stop(ClockFailed, s)
          ELSE /\ Proceed("Backoff", b, Cleared(overlay))
               /\ due' = deadline
               /\ plan' = None
               /\ UNCHANGED <<retry_index, last_failure>>

-----------------------------------------------------------------------------
(***************************************************************************)
(* The wait between two attempts.  A session waits outside the library and *)
(* asks again; the other facades wait on a timer, cancellation first.      *)
(***************************************************************************)
EarlyReady(s) == TRUE
DeadlineReached(s) == s >= due

CheckBackoffReady(s) ==
    /\ phase = "Backoff"
    /\ config.facade = "RetrySession"
    /\ IF CallbackGates(s, "Backoff") = None
       THEN /\ Proceed(IF DeadlineReached(s) THEN "Ready" ELSE "Backoff",
                       Accounted(budget, s), overlay)
            /\ UNCHANGED <<retry_index, last_failure, plan, due>>
       ELSE Stop(CallbackGates(s, "Backoff"), s)

\* An immediate retry, or a timer that fires.
BackoffElapsed ==
    /\ phase = "Backoff"
    /\ config.facade # "RetrySession"
    /\ ~cancelled
    /\ Proceed("Ready", budget, overlay)
    /\ UNCHANGED <<retry_index, last_failure, plan, due>>

BackoffCancelled(s) ==
    /\ phase = "Backoff"
    /\ config.facade # "RetrySession"
    /\ cancelled
    /\ IF Coherent(budget, s)
       THEN Terminate(Cancelled("Backoff"), last_failure,
                      Refresh(budget, s), overlay)
       ELSE Stop(ClockFailed, s)

\* An immediate retry registers no timer.
BackoffTimerFailed(s) ==
    /\ phase = "Backoff"
    /\ config.facade # "RetrySession"
    /\ overlay.next_delay > 0
    /\ ~cancelled
    /\ InactiveInfrastructure("Timer", s)

-----------------------------------------------------------------------------
(***************************************************************************)
(* The end of the flow and its environment.                                *)
(***************************************************************************)

\* RetryConfig::complete: completion observers see the frozen result; their
\* panics become diagnostics beside it.
Complete ==
    /\ phase = "Finished"
    /\ phase' = "Completed"
    /\ UNCHANGED <<config, cancelled, budget, retry_index, overlay,
                   last_failure, plan, due, result>>

Cancel ==
    /\ ~cancelled
    /\ cancelled' = TRUE
    /\ UNCHANGED <<config, phase, budget, retry_index, overlay, last_failure,
                   plan, due, result>>

\* A same-thread operation unwinds through run, an AsyncRetry future is dropped
\* while it waits, a session is dropped between two calls: no completion.
Abandon ==
    /\ \/ phase = "Active" /\ config.facade # "WorkerRetry"
       \/ phase = "Backoff" /\ config.facade \in {"AsyncRetry", "RetrySession"}
       \/ phase = "Ready" /\ config.facade = "RetrySession" /\ budget.attempts = 0
    /\ phase' = "Abandoned"
    /\ UNCHANGED <<config, cancelled, budget, retry_index, overlay,
                   last_failure, plan, due, result>>

Done == phase \in {"Completed", "Abandoned"} /\ UNCHANGED vars

Init ==
    /\ config \in Configs
    /\ cancelled \in BOOLEAN
    /\ phase = "Ready"
    /\ \E start \in Starts : budget = NewBudget(start)
    /\ retry_index = 0
    /\ overlay = NoOverlay
    /\ last_failure = None
    /\ plan = None
    /\ due = None
    /\ result = None

Decisions == {"UseDefault", "Retry", "RetryWithHint", "Abort"}

Step(s) ==
    \/ BeforeAttempt(s)
    \/ BeforeAttemptReturned(s)
    \/ CallbackPanicked(s)
    \/ CommitAttempt(s)
    \/ RegistrationFailed(s)
    \/ CommitPreparedAttempt(s)
    \/ AttemptSucceeded(s)
    \/ AttemptReturnedError(s)
    \/ AttemptPanicked(s)
    \/ AttemptTimedOut(s)
    \/ AttemptCancelled(s)
    \/ AttemptTimerFailed(s)
    \/ WorkerLost(s)
    \/ AttemptFailedReturned(s)
    \/ \E decision \in Decisions, hint \in Optional(Delays), delay \in Delays :
          RuleDecided(s, decision, hint, delay)
    \/ ScheduleRetry(s)
    \/ RetryScheduledReturned(s)
    \/ CheckBackoffReady(s)
    \/ BackoffCancelled(s)
    \/ BackoffTimerFailed(s)

Next ==
    \/ \E s \in Sample : Step(s)
    \/ PrepareAttempt
    \/ BackoffElapsed
    \/ Complete
    \/ Cancel
    \/ Abandon
    \/ Done

\* Code the flow hands control to comes back: callbacks and operations return,
\* a timer that is waited for fires, a session's owner keeps asking as its
\* clock passes the deadline.
Progress ==
    \/ \E s \in Sample : Step(s) /\ (phase = "Backoff" => phase' # "Backoff")
    \/ PrepareAttempt
    \/ BackoffElapsed
    \/ Complete

Spec == Init /\ [][Next]_vars

FairSpec == Spec /\ WF_vars(Progress)

-----------------------------------------------------------------------------
(***************************************************************************)
(* Properties.                                                             *)
(***************************************************************************)
\* Type invariant of the flow.  That budget is a Budget includes that total
\* and operation time stay representable durations (duration_since and
\* saturating_add in retry_budget_state.rs).
TypeOK ==
    /\ config \in Configs
    /\ cancelled \in BOOLEAN
    /\ phase \in Phases
    /\ budget \in Budget
    /\ retry_index \in U32
    /\ overlay \in Overlay
    /\ last_failure \in Optional(Failure)
    /\ plan \in Optional(Plan)
    /\ due \in Optional(Instant)
    /\ result \in Optional(Result)

Admission == {"BeforeAttempt", "Admitting", "Registering"}
Handling  == {"AttemptFailed", "RuleDecision", "Scheduling", "RetryScheduled"}
Terminal  == {"Finished", "Completed"}

\* The accounting every context is built from stays coherent whatever the
\* clock returns, the attempt count respects max_attempts, and an attempt is
\* open in the accounting exactly while the operation runs, so that neither
\* the assertions of begin_attempt nor the expect of finish_attempt can fire.
AccountingCoherent ==
    /\ ElapsedCoherent(budget)
    /\ budget.attempts <= config.max_attempts
    /\ phase \notin Terminal \union {"Abandoned"} =>
          (HasActiveAttempt(budget) <=> phase = "Active")

\* What observers, rules and terminal results are told about the attempt
\* matches the accounting in every phase: the announced ordinal is the next
\* one before admission and the committed one afterwards, the hard timeout is
\* that of the registered plan, and no plan, delay or hint of an earlier
\* attempt survives into the next one.
OverlayCoherent ==
    /\ phase \in Admission => overlay.current_attempt = budget.attempts + 1
    /\ phase \in Handling \union {"Active"} =>
          overlay.current_attempt = budget.attempts
    /\ phase \in {"Ready", "Backoff"} => overlay.current_attempt = None
    /\ phase \in {"Registering", "Active"} \union Handling =>
          overlay.hard_attempt_timeout = IF plan = None THEN None
                                                        ELSE plan.duration
    /\ phase \in {"Ready", "Backoff", "BeforeAttempt", "Admitting"} =>
          overlay.hard_attempt_timeout = None /\ plan = None
    /\ phase \in Admission \union {"Active", "AttemptFailed", "RuleDecision"} =>
          overlay.next_delay = None /\ overlay.retry_after_hint = None
    /\ phase \in {"Scheduling", "RetryScheduled", "Backoff"} =>
          overlay.next_delay # None

\* The attempt a failure belongs to, 0 for none.
FailedAttempt(failure) == IF failure = None THEN 0 ELSE failure.attempt

\* The retained failure is always the one of the latest failed attempt, it is
\* there whenever the code expects it, and the backoff sequence has advanced
\* once per retry: neither falls behind nor runs ahead of the attempt count
\* through any path of the flow.
FailureRetained ==
    phase \notin Terminal \union {"Abandoned"} =>
       /\ FailedAttempt(last_failure) =
             IF phase = "Active" THEN budget.attempts - 1 ELSE budget.attempts
       /\ phase \in Handling \union {"Backoff"} => last_failure # None
       /\ retry_index =
             IF phase \in {"Active", "AttemptFailed", "RuleDecision"}
             THEN budget.attempts - 1
             ELSE budget.attempts

\* Every unsuccessful result hands over the latest failure.  It is the failure
\* of the last admitted attempt, or of the one before when the last one was
\* cancelled or lost while it was running.
FailureDelivered ==
    (result # None /\ result.reason # Succeeded) =>
       LET attempts == result.context.attempts
           failed   == FailedAttempt(result.last_failure)
       IN CASE result.reason = Cancelled("Attempt")        -> failed = attempts - 1
            [] result.reason.kind = "Infrastructure" -> failed \in {attempts - 1, attempts}
            [] OTHER                                 -> failed = attempts

\* A terminal context names a running attempt only if one was running or a
\* callback about it failed, and then it names the right one.
TerminalAttempt ==
    (result # None /\ result.context.overlay.current_attempt # None) =>
       LET attempts == result.context.attempts
           current  == result.context.overlay.current_attempt
       IN \/ /\ \/ result.reason = Cancelled("Attempt")
                \/ result.reason.kind = "Infrastructure"
             /\ config.facade \in Timed
             /\ current = attempts
          \/ /\ result.reason = CallbackFailed("BeforeAttempt")
             /\ current = attempts + 1
          \/ /\ result.reason.kind = "CallbackFailed"
             /\ result.reason.detail # "BeforeAttempt"
             /\ current = attempts

\* A result carries the right failure and the right attempt, on whichever path
\* the flow ended.
ResultCoherent == FailureDelivered /\ TerminalAttempt

\* The reason of a result is borne out by the context delivered with it, even
\* though limits, deadlines and the token were read in earlier steps: a flow
\* timeout shows the flow's time used up, an attempt timeout its deadline
\* passed, an exhausted limit that limit (counting the proposed delay), and a
\* cancellation a cancelled token and the phase it fell in.
ReasonExplained ==
    result # None =>
       LET context == result.context
           delay   == IF context.overlay.next_delay = None
                      THEN 0 ELSE context.overlay.next_delay
       IN CASE result.reason = TimedOut("Flow") ->
                 /\ config.flow_timeout # None
                 /\ context.total_elapsed >= config.flow_timeout
            [] result.reason = TimedOut("Attempt") ->
                 /\ plan # None
                 /\ plan.duration = config.attempt_timeout
                 /\ budget.sampled_at >= plan.deadline
            [] result.reason = Exhausted("Attempts") ->
                 context.attempts = config.max_attempts
            [] result.reason = Exhausted("OperationElapsed") ->
                 /\ context.attempts < config.max_attempts
                 /\ context.operation_elapsed >= config.operation_time_budget
            [] result.reason = Exhausted("TotalElapsed") ->
                 SaturatingAdd(context.total_elapsed, delay)
                     >= config.total_time_budget
            [] result.reason.kind = "Cancelled" ->
                 /\ cancelled
                 /\ result.reason.detail = "Backoff" => context.attempts > 0
            [] OTHER -> TRUE

\* Deadlines handed to timers never reach past the hard flow deadline, and a
\* scheduled retry leaves room in the total time budget.
DeadlinesCapped ==
    /\ (phase \in {"Registering", "Active"} /\ plan # None) =>
          /\ config.flow_timeout # None =>
                plan.deadline - budget.started_at <= config.flow_timeout
          /\ plan.scope = "Flow" => plan.deadline = FlowDeadline(budget)
    /\ phase = "Backoff" =>
          /\ config.flow_timeout # None =>
                due - budget.started_at <= config.flow_timeout
          /\ config.total_time_budget # None =>
                due - budget.started_at < config.total_time_budget

\* A session never admits an attempt before the deadline it returned, however
\* often and early it is asked.
SessionNeverEarly ==
    ( /\ config.facade = "RetrySession"
      /\ phase \in Admission \union {"Ready", "Active"}
      /\ budget.attempts > 0
      /\ due # None ) => budget.sampled_at >= due

\* An attempt is admitted only by a reading at which the token is not
\* cancelled and every limit and deadline still holds, although callbacks,
\* timer registration and thread creation ran since they were first checked.
AdmissionSafe ==
    [][ budget'.attempts # budget.attempts =>
          /\ budget'.attempts = budget.attempts + 1
          /\ ~cancelled
          /\ ~FlowTimedOut(budget')
          /\ plan # None => budget'.sampled_at < plan.deadline
          /\ RetryLimit(Refresh(budget, budget'.sampled_at), config, 0) = None ]_vars

\* Elapsed times never go back, and an attempt is charged to the operation
\* time once, by the step that closes it and for no more than the time since
\* it began.
ElapsedMonotonic ==
    [][ /\ budget'.sampled_at >= budget.sampled_at
        /\ budget'.operation_elapsed # budget.operation_elapsed =>
              /\ HasActiveAttempt(budget) /\ ~HasActiveAttempt(budget')
              /\ budget'.operation_elapsed - budget.operation_elapsed
                    = budget'.sampled_at - budget.attempt_started_at ]_vars

\* Every flow ends: it completes with a result unless its owner abandons it.
\* The attempt limit is what bounds the loop.
Terminates == <>(phase \in {"Completed", "Abandoned"})

\* How the caller sees a phase of the controller.
Status == CASE phase = "Active"    -> "running"
            [] phase = "Finished"  -> "decided"
            [] phase = "Completed" -> "announced"
            [] phase = "Abandoned" -> "gone"
            [] OTHER               -> "idle"

Contract == INSTANCE RetryContract
                WITH Outcomes <- {"Success", "Aborted", "Exhausted", "TimedOut",
                                  "Cancelled", "CallbackFailed", "Infrastructure"},
                     limit    <- config.max_attempts,
                     attempts <- budget.attempts,
                     status   <- Status,
                     outcome  <- IF result = None THEN None ELSE result.reason.kind

\* The flow implements the contract of RetryContract: the controller's gates,
\* clock failures and callbacks add ways to end, never another attempt, another
\* outcome or an attempt after cancellation.
ImplementsContract == Contract!Spec
=============================================================================
