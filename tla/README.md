# qubit-retry: TLA+ specifications, checks and proofs

`qubit-retry` (the repository in `src/`) runs an operation until it succeeds, a
rule gives up, a limit is reached, a deadline passes or somebody cancels. This
directory holds TLA+ models of the parts of it that are hard to test, the TLC
configurations that check them and proofs checked by TLAPS. Paths below are
relative to `src/src/`.

## 1. The system

| Part | State it keeps | Operations | Interacts with |
|---|---|---|---|
| Accounting, `budget/internal/retry_budget_state.rs` | start, latest valid sample, attempts, operation time, the running attempt | `refresh`, `begin_attempt`, `finish_attempt`, `retry_limit` | called by the flow state and by `RetryBudget` |
| Flow controller, `executor/internal/flow` | accounting, backoff index, retained failure, per-attempt metadata | `before_attempt`, `prepare_attempt`, `commit_*`, `record_*`, `finish_success`, `check_backoff_ready` | calls observers and rules, reads the injected clock and the token at every boundary |
| Facades, `executor/retry.rs`, `retry_session.rs`, `async_retry.rs`, `worker_retry.rs` | a controller; a session also its phase and deadline | the retry loop | operation, timers, token |
| Flow token, `executor/internal/cancellation`, `retry_cancelled.rs` | an atomic flag, a mutex-protected registry of wakers | `cancel`, `poll`, `drop` | any thread |
| Worker executor, `executor/internal/worker` | an event channel, a start gate, a join handle, a value slot | spawn, admit, release, wait, stop, reap | three threads per attempt, timer and token wake the runner through the channel |
| Blocking backoff, `executor/internal/blocking` | a channel, two futures | `wait_for_backoff` | timer and token |
| Rules and observers, `rule/`, `observer/` | ordered lists of callbacks | `try_decide`, `try_*`, `notify_*` | called by the controller; may panic, take time or cancel the token |
| Backoff, `backoff/` | retry index, random source | `BackoffState::next`, `BackoffPolicy::resolve` | called by the flow state |
| Public budget, `budget/retry_budget.rs` | accounting, an owner identity | `begin_attempt`, `finish_attempt`, `check_retry_after` | linear tokens held by the caller |
| Completion, `executor/retry_config.rs` | none | `complete` | completion observers |
| Builders and wire forms, `executor/retry_config_builder.rs`, `policy/`, `*/internal/*_data.rs` | a policy being built | fluent setters, `policy`, `build`, serialization | documents read from outside |
| Values, random sources, `TokioRetry` | none of their own | construction, samples, delegation | |

What is hard about it:

* every boundary between library and user code lets the clock move (in any
  direction: it is injected), the token change and a panic unwind, so a check
  made before the boundary is stale after it;
* the token is a flag beside a mutex, read and written in different orders by
  `cancel` and `poll`;
* an attempt of `WorkerRetry` is three threads that speak over one channel, and
  the runner may give up on a thread it cannot kill;
* three different waits watch a token, a timer and an operation at once and park
  on one waker, which an executor may change between two polls;
* limits saturate, deadlines overflow, identifiers wrap, delays are computed in
  floating point.

What makes it correct: an attempt is admitted only while every limit, deadline
and the token allow it; the accounting is coherent whatever the clock does; the
result names the right reason, failure and attempt; a cancellation is never
lost; user code of two attempts never overlaps; everything that waits is woken; every
observer learns of every event in order and of the end exactly once; a delay
stays within what its policy says; a policy is what was configured last.
`PROJECT.json` lists these hazards line by line with the properties for each.

## 2. Modules

| Module | Models |
|---|---|
| `RetryBudgetState` | the accounting as a record, one operator per method; arithmetic of `u32`, `Duration` and `MonotonicInstant` |
| `RetryFlow` (extends it) | controller and flow state under the loop of any of the four facades |
| `RetryFlowProofs` | theorems about `RetryFlow` |
| `RetryBudget` (extends `RetryBudgetState`) | public budgets and the linear tokens their callers hold |
| `RetryBudgetProofs` | theorems about `RetryBudget` |
| `RetryBudgetStateProofs` | lemmas about the accounting operators, used by both |
| `CancellationLatch` | abstract: a one-shot latch, and what it promises the tasks that wait for it |
| `RetryCancellation` | the token, its registry, its futures and concurrent cancellers; instance of `CancellationLatch` |
| `RetryContract` | abstract: attempts up to a limit and not after cancellation, one outcome, one announcement; implemented by `RetryFlow` |
| `FlowWait` (extends `RetryCancellation`) | `wait_for_backoff`, `sleep` and `execute_attempt`, composed with the token they watch |
| `FlowWaitProofs` | theorems about the token and its registry, and about the waits on it |
| `BackoffPolicy` | growth, jitter, hint and cap as operators over a small floating point |
| `BackoffState` (extends it) | the fluent methods of a policy and the sequence of delays it yields |
| `BackoffStateProofs` | theorems about rounding, powers and the delays of a policy |
| `RetryCallbacks` | the lists of rules and observers of a flow, one callback at a time, and completion |
| `RetryCallbacksProofs` | theorems about `RetryCallbacks` |
| `RetryPolicyData` (extends `BackoffPolicy`) | the wire form of a policy, both ways |
| `RetryConfigBuilder` (extends it) | the two builders under any sequence of calls |
| `RetryConfigBuilderProofs` | theorems about the wire form and the builders |
| `WorkerAttempt` | runner, worker and reaper threads of a `WorkerRetry` flow |
| `WorkerAttemptProofs` | theorems about `WorkerAttempt` |
| `MC*` and `.cfg` | instances for TLC |

### RetryFlow

`phase` is where control is: `Ready`, a callback phase (`BeforeAttempt`,
`AttemptFailed`, `RuleDecision`, `RetryScheduled`), `Admitting`, `Registering`
(the timer is being registered, the worker spawned), `Active`, `Scheduling`,
`Backoff`, `Finished`, `Completed`, `Abandoned`. `budget` is the accounting,
`overlay` the four fields that the controller adds to each context, `plan` the
prepared timeout, `due` the backoff deadline, `last_failure` the retained
failure tagged with the attempt that produced it, `result` the frozen terminal
result.

An action is the code between two points where control leaves the library. It
reads the clock at most once, and the reading is any instant or `Foreign` (one
of another clock domain). The gates (`ClockGate`, `FlowGate`, `CancelGate`,
`LimitGate`, `PlanGate`) are the early returns in the order of the code; `??`
takes the first one that fires. Where a method reads the token twice after one
sample (`refresh_after_control_callback`, then the gate), the model reads it
once: a cancellation between the two reads yields the same reason at the same
sample as one before both. The token may be cancelled between any two actions.

Abstractions: an error is the attempt that produced it; the delay that
`BackoffState::next` resolves is any element of `Delays`; a decision with a
jittered hint is `RetryWithHint`; a list of rules or observers is one callback
that returns or panics (`RetryCallbacks` has the lists); diagnostics of
completion observers are left out.
Panics of an injected clock, timer or random source are not intercepted by the
library and are not modelled. The closed worker channel is allowed here as an
outcome; `WorkerAttempt` shows that it does not occur.

`ImplementsContract` maps the phases to the five states of `RetryContract`
(`Active` is `running`, everything before an outcome `idle`), and says that
none of the gates, clock failures and callback panics of the controller adds an
attempt, an outcome, or an admission after cancellation.

### RetryBudget

A caller has places for budgets (`owner`, `limits`, `budget`) and for tokens
(`attempt`), and may start, drop, admit, finish and ask for a delay in any
order, presenting any token to any budget. The identity of a budget is the
address of its `Arc<()>`: `New` takes one that no budget and no token refers to,
so an address comes back only when its last token is gone. The clock of a
budget returns any sample at each call. A call that fails without changing
anything (an overlapping `begin_attempt`, a rejected sample) is a stuttering
step; `finish_attempt` consumes its token also when it fails. `running` and
`promise` are history: which token belongs to the running attempt, and until
when `check_retry_after` said a budget may wait.

### RetryCancellation

`cancel` is split into its swap of the flag, its drain under the mutex and one
step per waker; `poll` into its first look at the flag and its registration. The
registration is one step: it holds the mutex throughout, and its single read of
the flag is the only point where a concurrent swap matters. The identifiers are
`0 .. IdCount - 1` in place of `u64`, so that they wrap. Dropped futures can be
created again. `WakersMayPanic` allows a waker to unwind through `cancel`, which
is documented to drop the wakers that follow.

`CancellationLatch` is the promise without flag, registry and batches. Futures
resolve, and their tasks are notified, only after the latch is set; a future
comes to wait only before. And (`Reached`) no future that is being polled or
waits stays so after that: it resolves, is notified or is dropped, unless a waker
unwound through `cancel`. Under the mapping a future is notified if it was woken
through the waker of its latest poll, so a registry that keeps an older waker, a
drain that misses an entry or a `cancel` that stops halfway breaks the
refinement, and the wakers that a panic drops are an exception that the latch
states.

### WorkerAttempt

`pc` is the runner's position: `SpawnWorker`, `SpawnReaper`, `Register` (the
cancellation waker), `Prepare` (the controller's commit), `Release` (the
rendezvous at the gate), then the loop `Check`, `PollTimer`, `Receive`, or
`Grace` once the worker has been told to stop, then `Outcome` and `Ended`.
`worker[a]` is `gate`, `running`, `returned` (the operation is over, its result
not sent), `leaving` (sent, destructors run) and `exited`. The queue holds
`Completed`, `Joined`, `JoinedUnwound` and `Wake`; wakers hold a weak sender,
hence `Disconnected`. Both timeout scopes are one trigger. What the controller
makes of an outcome is `RetryFlow`'s; here it is a choice between ending and
another attempt, which needs an uncancelled token.

The code's paths for a closed start gate or event channel are unreachable:
the gate's receiver lives as long as the worker waits on it, and
`ChannelStaysOpen` covers the event channel.

### FlowWait

A flow has at most one wait at a time. `wait` holds its arguments (`blocking`,
`sleep` or `attempt`; with a token or not; immediate or not; with a deadline or
not), `at` the place in the function: `check` (the first look at the token),
`arm` (`timer.at`), `refused`, `yield`, `yielded`, the polls `operation`,
`token` and `timer` in the order of the code, `parked`, `leave` (futures are
dropped). The token's part of a round is `Poll` and `Register` of
`RetryCancellation`, in two steps, so that a canceller may come between the two
looks at the flag. `inbox` counts messages in the channel of
`BlockingBackoffWake`; for a task it is the flag its executor keeps. A blocking
wait has one waker throughout and wakes only by `recv`; a task may be polled
without a wakeup, and with another waker than before. The timer and the
operation are outside of the crate: a pending source keeps the waker of its
latest poll, becomes ready (a timer also fails) at any time, and invokes that
waker in a later step. `begun` is history: what was ready when the last round
of polls began.

Each wait also stands for the senders of the channel: the waker lives in the
futures until `leave`, so that `recv` cannot fail. Wakers do not panic here
(`RetryCancellation` has the one that does).

### BackoffPolicy and BackoffState

Durations are ticks up to `MaxDuration`. A floating-point number is a count of
quanta with `Bits` significant bits, rounded to nearest after every operation
as f64 is, infinite above `FloatMax`; `NaN` and negative samples are values of
their own. `Rounded` is the rounding, `Float` adds the overflow, and `Numbers` is what
a floating-point variable can hold, hence what multipliers, ratios and samples
are taken from. The format is a parameter: `FloatAssumption` asks for 3 bits or
more, for 1.0 to be a power of two with all of its bits, and for twice the
largest duration not to overflow, which f64 with 53 bits and an exponent up to
1023 meets by far. What the code computes in f64, the model computes in that format, in
the same order and with the same guards, so rounding, overflow, `0 * inf` and
`NaN` occur at delays of a few ticks. Two simplifications: one second is one
tick (the factor between the units plays no part in rounding or overflow), and
`powf` is correctly rounded (f64's is within an ulp on the platforms in use). A
random source is a choice from `Samples` wherever the code draws one.

`BackoffState` constructs a policy, lets its fluent methods run in any order,
and asks for delays, with and without hints, with resets in between.

### RetryCallbacks

`phase` is the phase whose list is being called and `index` the callback that is
next. Control phases stop at the first callback that unwinds; completion phases
go on and collect diagnostics. A payload is a `&str`, a `String`, something
else, or something else whose destructor unwinds again. The flow between the
phases is reduced to its order: it goes on, or stops for a reason of its own
(the gates of `RetryFlow`). `seen`, `answers` and `unwound` are history.

### RetryPolicyData and RetryConfigBuilder

A document is a record with `None` for an absent or null field; the conversions
to and from it are operators, `Error` where the code returns one. Fields a
strategy does not have are refused, as `deny_unknown_fields` does; the delay of a
fixed strategy is called `minimum`. `RetryPolicies` is the set of policies the
constructors accept and `PolicyForms` that of documents a deserializer can
deliver, whatever their values. The builder's actions are its methods:
`Set(field, value)` stands for the three setters of a budget and the ones of
attempts and backoff, `LoadPolicy` reads a document and hands the result to
`policy`, `RoundTrip` writes a built policy out and reads it back. `wanted` is
history: the latest value given for each field.

## 3. Runs

| Run | Configuration | Checks |
|---|---|---|
| `flow` | `MCRetryFlow.cfg`: instants and durations 0..4, nine definitions over the four facades, starts 0 and 2, delays 0 and 2; 195,458 states | `TypeOK`, `AccountingCoherent`, `OverlayCoherent`, `FailureRetained`, `ResultCoherent`, `ReasonExplained`, `DeadlinesCapped`, `SessionNeverEarly`, `AdmissionSafe`, `ElapsedMonotonic`, `ImplementsContract` |
| `flow_live` | `MCRetryFlowLive.cfg`: instants 0..2, three definitions, one without any time limit; 17,064 states | `Terminates` |
| `budget` | `MCRetryBudget.cfg`: 2 budgets, 2 tokens, 3 addresses, instants 0..3, 2 policies, delays 0 and 1, symmetry; 106,498 states | `TokenExact`, `LostCloses`, `DelayKept` |
| `cancellation` | `MCRetryCancellation.cfg`: 2 futures with 2 wakers to change between, 2 identifiers, 2 cancellers, wakers may panic, under fairness; 42,536 states | `RegistryExact`, `ImplementsLatch` |
| `worker` | `MCWorkerAttempt.cfg`: 2 attempts, all three kinds of grace; 237,948 states | `ExclusiveWorker`, `GateHolds`, `ValueFresh`, `ChannelStaysOpen` |
| `worker_live` | `MCWorkerAttemptLive.cfg`: bounded graces; 176,112 states | `CancellationEnds`, `TimerEnds`, `ResultEnds` |
| `worker_coop` | `MCWorkerAttemptCoop.cfg`: an operation that watches its token, finite and unbounded grace; 166,392 states | `CooperativeEnds` |
| `flow_wait` | `MCFlowWait.cfg`: one flow with two waits in sequence, 2 wakers, 2 cancellers, under fairness; 198,468 states | `NoMissedWakeup`, `OutcomeOrder`, `NothingLeftRegistered`, `WaitEnds` |
| `backoff` | `MCBackoffState.cfg`: durations to 15 ticks, 3-bit floats, every pair of 8 delays, 8 multipliers, index to 5, 6 delays; 33,522 states | `BaseBounded`, `GrowthAccurate`, `NeverShrinks` |
| `backoff_jitter` | `MCBackoffStateJitter.cfg`: one delay, every jitter, 5-bit floats, durations to 63 ticks, 5 ratios, 6 samples, hints and a cap; 6,476 states | `JitterBounded`, `HintHonoured` |
| `callbacks` | `MCRetryCallbacks.cfg`: 3 observers, 2 rules, 2 attempts, 4 payloads; 73,768 states | `EventsInOrder`, `CompletionOnce`, `DiagnosticsExact`, `FirstRuleDecides` |
| `builder` | `MCRetryConfigBuilder.cfg`: 3 calls, 36 policies, more than 1,000 documents; 185,453 states | `LastWriterWins`, `WireExact` |

All pass; no disagreement between the code and its documentation was found. Each
property comes with a mutant in `PROJECT.json`: a changed definition (a dropped
gate, a missing reset, a registration without the second look at the flag) under
which TLC finds the property violated. The mutated forms stand beside the
definitions they replace.

`RegistryExact` includes `DrainedForGood`, and `ResultCoherent` is
`FailureDelivered` with `TerminalAttempt`. Every module states its type
invariant; beside `flow`, the runs spend their time on the other properties,
because all type invariants are proved. `NoLostWakeup` of
`RetryCancellation` is proved as well; `flow_wait` checks the same promise where
a wait relies on it.

Why the bounds are enough to be interesting:

* *flow*: the configurations contain every limit, attempt timeouts below, equal
  to and above what is left of the flow timeout, budgets of the same size as the
  timeouts, and no limits at all; with `MaxDuration = 4` and a start at 2, sums
  of start, elapsed time and delay reach and pass the largest `Duration`; two or
  three attempts show what one attempt leaves to the next. `MaxU32 = 3` is
  above every `max_attempts` except the one equal to it.
* *budget*: a token of one budget meets the other one with the same ordinal,
  outlives its own budget and meets its successor; the third address lets a
  budget be replaced while an old token keeps its address. The policies use up
  attempts, operation time and total time.
* *cancellation*: as many identifiers as futures is the tightest registry: the
  counter wraps onto live entries, and one future keeps its entry while the other
  is dropped and made again. With two entries in a batch, one is invoked or
  unwinds before the other. Two cancellers show the one that loses the swap.
  `CHECK_DEADLOCK FALSE`: all futures may be resolved or dropped and nobody has
  to poll again.
* *worker*: the second attempt is there for what the first leaves behind (a
  value, a worker, a waker).
* *flow_wait*: two waits show what the first leaves in the registry and in the
  channel for the second; two wakers let an executor change the waker; two
  cancellers, one that drains and one that comes too late. That several flows
  share a registry is `cancellation`'s matter.
* *backoff*: half of the durations have no exact representation, the powers of
  the larger multipliers pass `FloatMax`, the index saturates at 5 with a sixth
  delay after it. Multipliers and ratios contain the invalid ones, samples the
  ones outside of 0.0 .. 1.0 and NaN.
* *callbacks*: a middle observer has one before and one after it; the second
  attempt repeats every phase.
* *builder*: three calls are a setter, a policy and a setter. The documents vary
  one rule at a time: durations at and beyond a second's nanoseconds and the
  largest duration, every combination of a strategy's fields, ratios with every
  tag. `CHECK_DEADLOCK FALSE` here and in `callbacks`: a built configuration and
  a returned flow are the end.

### Fairness

* `RetryFlow!FairSpec`: weak fairness of `Progress`: callbacks and operations
  return, a timer that is waited for fires, and the owner of a session asks
  again once its clock has passed the deadline. That is what the code relies on:
  it has no bound on a callback's time, and neither `Retry` nor `RetrySession`
  can interrupt an operation. Cancelling and abandoning are never required.
* `WorkerAttempt!FairSpec`: the threads that run library code keep running, and
  a canceller goes on to its wakers. Nothing is assumed of the operation, the
  token or the timer. `CooperativeSpec` adds that an operation returns once its
  attempt token is cancelled.
* `RetryCancellation!FairSpec`: a thread inside `cancel`, and one inside a poll,
  goes on: a waker that is invoked returns or unwinds, and the registry's mutex is
  never held while user code runs. No task has to poll and nobody has to cancel.
* `FlowWait!WaitFairSpec`: a thread inside a wait keeps running, an executor
  polls a task that was woken, a timer fires and invokes its waker, a canceller
  goes on. Nothing is assumed of the operation and no task is polled without a
  wakeup.

## 4. Proofs

TLAPS checks the following for every value of the constants, under the named
`ASSUME`s of the modules: the sizes of `Duration` and `u32` are naturals, model
values differ from data, configurations and policies are well formed, a second
has at least one nanosecond, and there are at least as many identifiers as
futures (2^64 in the code), and floating-point numbers have the format described
under `BackoffPolicy`. Every safety property that a run checks is proved (of
`ImplementsLatch`, the safety part).

`RetryFlowProofs`. The inductive invariant `IInv` is `TypeOK`,
`AccountingCoherent`, `OverlayCoherent` and `FailureRetained` together: the
overlay's ordinal is stated in terms of the attempt count, the retained failure
in terms of both, and the phase tells in which of them an attempt is open, so
none is inductive alone. The lemmas of `RetryBudgetStateProofs` say what each
accounting operator keeps (`AccountedCoherent`, `BeginCoherent`,
`FinishCoherent`), others what a step to
the next phase and what a terminal step need, and one lemma per action of the
flow applies them. Results: `Invariance`, `TypeCorrect`, `AccountingTheorem`,
`OverlayTheorem`, `FailureTheorem`, and the action properties
`AdmissionTheorem` and `ElapsedTheorem`, which rest on the fact that a step
samples, opens or closes the accounting and does nothing else to it.

`DeadlineInv`, proved on top of it, says of every deadline where it came from:
the prepared timeout (`PlanCapped`) and the backoff deadline (`DueCapped`) are
capped by the flow deadline when they are made, and stay so because the start
they count from never moves; `AdmittingInTime`, `DueFollows` and `FailureTimed`
carry the sample of one action to the action that relies on it. Results:
`DeadlineInvariance`, `DeadlinesTheorem`, `SessionTheorem`.

`ResultInv` needs no strengthening of its own beyond "there is a result exactly
in the terminal phases", but an argument over all paths to the end: `Good` states
what a reason, a failure, an accounting and an overlay must have for the result
made of them to be right, one lemma per gate shows that a gate which fires hands
over something `Good`, and one per action that it ends through a gate or through
a terminal step of its own. Results: `ResultInvariance`, `ReasonTheorem`,
`ResultTheorem`. `ContractTheorem` is the refinement of `RetryContract`: every
step maps to one of its steps or to a stutter, with the admission facts above
for the step that starts an attempt.

`RetryBudgetProofs`. A token names an attempt by an address and an ordinal, so
`TokenExact` is inductive only with `OwnersDistinct` (live budgets have
different addresses) and `OrdinalsIssued` (no token of a budget carries an
ordinal that the budget has yet to hand out); `Vacant` and `PromiseIdle` tie the
history to the budget it belongs to. `DelayFits` is the arithmetic of
`DelayKept`: what the saturating sum of elapsed time and delay leaves below a
limit, any later sample up to the end of the delay leaves below it too. Results:
`Invariance`, `TypeCorrect`, `AccountingTheorem`, `TokenTheorem`,
`DelayTheorem` and the action property `LostTheorem`: all that the run `budget`
checks and the accounting below it, for any number of budgets, tokens and
addresses.

`FlowWaitProofs`, the token. `IInv` is `TypeOK` with `CancellersInv` (who holds a
batch), `DrainInv` (entries left after the swap are still to be drained) and
`RegistryInv` (identifiers and entries match one to one). That a free identifier
exists is a pigeonhole argument (`SomeFree`), that the loop of `register` finds
it is the least-distance choice of `RegistrationId`. Results: `Invariance`,
`TypeCorrect`, `RegistryTheorem`, `DrainedTheorem`, `WakeupTheorem` (which
assumes that wakers do not panic: one that does loses the wakeups after it, as
documented) and `LatchTheorem`: the token takes only steps of `CancellationLatch`.
The latch's promise to the waiting, `Reached`, is liveness and stays with TLC.

`FlowWaitProofs`, the waits. `NoMissedWakeup` speaks of a parked flow, but whether a wakeup
is owed is settled while it polls, in several steps that other threads come
between. `WaitIInv` therefore adds to the token's invariant, for each flow:
`Places` (which future and which sources exist where), `Rounds` (what the
current round of polls has established, and that what was ready when it began
still is) and `Wakeups` (the waker of this round is with the source, or its
wakeup is in the inbox). Steps of the token are those of `RetryCancellation`, so
its lemmas apply unchanged; what is new is that a flow's own facts survive the
steps of every other flow and thread. Results, for any number of flows, wakers,
cancellers and waits: `WaitInvariance`, `MissedWakeupTheorem`,
`OutcomeTheorem`, `UnregisteredTheorem`.

`WorkerAttemptProofs`. Three threads know each other's progress only through the
queue, so `WInv` says what each event in it and each local of the runner proves:
`ThreadsInv` (how far the threads of every attempt can be; the worker of every
earlier one has exited), `RunnerInv` (the current attempt at each `pc`),
`ChannelInv` (an event of a thread is queued only after the thread did what it
reports, and a reaper that is gone has left its event) and `ValueInv` (the slot
holds the value of the current attempt or none). The lemmas about sending and
receiving reduce the queue to the set of events in it. Results, for any number
of attempts: `WorkerInvariance`, `WorkerTypeCorrect`, `ExclusiveTheorem`,
`GateTheorem`, `ValueTheorem`, `ChannelTheorem`.

`RetryCallbacksProofs`. `EventsInOrder` compares what any two observers saw, which
is not inductive: nothing in it says that two observers that saw equally much saw
the same. `SeenInv` is: one log explains all of them, each having seen the log,
then the current event if its turn has come, then the end if it was told.
`PhaseInv`, `RulesInv` and `DiagnosticsInv` relate the phase to the reason, the
answers of the rules and the collected diagnostics. Results, for any number of
observers, rules and attempts: `CallbacksInvariance`, `CallbacksTypeCorrect`,
`OrderTheorem`, `CompletionTheorem`, `DiagnosticsTheorem`, `FirstRuleTheorem`.

`RetryConfigBuilderProofs`. `PolicyRead` and `PolicyWritten` are about the
operators alone: writing any valid policy gives a document that reads back as
that policy, and any document that is accepted, of all that can be formed, is
what is written for the policy it becomes, which is valid. Both are put together
from the same two facts about each part (duration, option, strategy, jitter,
backoff); for durations they rest on the uniqueness of seconds and nanoseconds
(`SplitOnce`). `BInv` says that the two builders together stand for the latest
value of every field (`wanted = EnsuredBuilder`), and what was built, read and
written goes with it. Results: `BuilderInvariance`, `BuilderTypeCorrect`,
`LastWriterTheorem`, `WireTheorem`.

`BackoffStateProofs`. The argument is in four layers.

* *Induction.* The library's induction rules take a predicate, which the provers
  cannot instantiate, but `WFMin` takes a set. `LeastNat` and `Induction` state
  the same on sets, and every inductive lemma names the set of numbers it holds
  of. That the recursion of `Pow` defines a function is shown by listing the
  powers up to each n (`PowersListed`), agreeing lists (`PowersAgree`) and
  joining them (`PowerDefined`); `PowLaws`, `PowAdd`, `PowMonotone` follow.
* *Rounding.* `ExponentFacts` shows that the exponent exists, and is unique by
  `ExponentLeast` and `ExponentMost`. Then rounding is monotone, also across a
  change of exponent (`RoundedMonotone`), keeps what is representable
  (`RoundedExact`, `RoundedTwice`), and errs by at most one part in 2^Bits, or by
  half a quantum where a product is too small for that (`RoundedError`).
* *Delays.* `exponential_delay` is the nearest tick to a rounded product, at most
  the maximum, on every path through overflow (`ExponentialValue`). That it is
  not below the first delay is the delicate point: `as_secs_f64` may round down.
  `ProductAbove` shows that a multiplier above 1.0 makes up for it, because the
  next number after 1.0 is further from it than the seconds can have lost.
  `ThreeRoundings` composes the errors, `Capping` shows that the maximum costs no
  accuracy, and `SaturationAccurate` treats a scaled delay that is taken for the
  largest duration because it reached the rounded value of that.
* *State.* `Inv` adds to `TypeOK` that the latest step is one that the policy
  resolves for the request from some samples, which holds on because a policy no
  longer changes once it is in use, that it carries the state's index as long as
  there was no reset, and that this index is the number of delays since then, or
  its maximum.

Results, for any format, durations, policies, hints, caps, samples and number of
retries: `Invariance`, `TypeCorrect`, `BaseStaysBounded`, `HintStaysHonoured`,
`DelaysNeverShrink`, `GrowthStaysAccurate`, `JitterStaysBounded`.

The proofs changed the models in two respects. A `CASE` has no order: where two
guards overlap its value is unspecified, although TLC takes the first. Five
definitions that relied on the order (`RecheckResult` and the outcome of the
timer's poll in `FlowWait`; `Times`, `Interpolate` and `HintSource` in
`BackoffPolicy`) say it with `IF` now, as the code does.

The second change is `BackoffPolicy`'s floating point. `Pow` is a recursive
function in place of `^`, of which the provers know nothing; the lower factor of
bounded jitter is rounded like the upper one, as `1.0 - ratio` is in the code;
and the slack of `JitterBounded`, which was fitted to the formats of the run, is
now the one that four roundings and the saturation of `scale_duration` cost in
any format.

Only model-checked is liveness (`Terminates`, `CancellationEnds`, `TimerEnds`,
`ResultEnds`, `CooperativeEnds`, `WaitEnds`, `Reached` of the latch): fairness and
`ENABLED` are outside of TLAPS's reach.

## 5. Not modelled, and the plan

Not modelled:

* accessors, formatting and metadata copies of contexts, errors and results,
  and `RetryBudget::snapshot`: they change nothing;
* how the default random source produces its samples, and the formats serde
  reads and writes: outside of the crate;
* the `TokioRetry` wrapper, which hands everything to `AsyncRetry`;
* fluent setters of the facades, and a `RetrySession` whose owner replaces its
  token half-way with `with_cancellation_token`; calls of a session out of
  protocol assert before they change anything;
* panics of an injected clock, timer or random source, which the library does
  not intercept.

All of the plan is modelled and checked, and of what is checked only the
liveness properties have no proof.
