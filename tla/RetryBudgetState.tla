--------------------------- MODULE RetryBudgetState ---------------------------
(***************************************************************************)
(* Attempt and elapsed-time accounting shared by every retry facade and by *)
(* the public RetryBudget (src/budget/internal/retry_budget_state.rs).     *)
(* The accounting is one record; each method is an operator on it.         *)
(*                                                                         *)
(* A Duration is a number of clock ticks up to MaxDuration, and an instant *)
(* is a Duration since the origin of its clock domain.  The clock is       *)
(* injected by the caller: one reading is any instant, also one before the *)
(* latest committed reading, or Foreign, an instant of another domain.     *)
(***************************************************************************)
EXTENDS Integers

CONSTANTS
    None,         \* Rust's Option::None
    Foreign,      \* a clock reading that belongs to another clock domain
    MaxDuration,  \* the largest representable Duration
    MaxU32        \* the largest u32

ASSUME MaxAssumption == MaxDuration \in Nat /\ MaxU32 \in Nat \ {0}

\* RetryLimitKind
Limits == {"Attempts", "OperationElapsed", "TotalElapsed"}

ASSUME NoneAssumption == None \notin Int \union Limits \union {Foreign}

ASSUME ForeignAssumption == Foreign \notin Int

Duration == 0 .. MaxDuration
Instant  == 0 .. MaxDuration
U32      == 0 .. MaxU32
Sample   == Instant \union {Foreign}
Optional(S) == S \union {None}

-----------------------------------------------------------------------------
(***************************************************************************)
(* Arithmetic of u32, Duration and MonotonicInstant.                       *)
(***************************************************************************)
Successor(n) == IF n < MaxU32 THEN n + 1 ELSE n

SaturatingAdd(a, b) == IF a + b > MaxDuration THEN MaxDuration ELSE a + b

SaturatingSub(a, b) == IF a < b THEN 0 ELSE a - b

\* checked_add fails, with None here, when the sum is not representable.
CheckedAdd(a, b) == IF a + b > MaxDuration THEN None ELSE a + b

-----------------------------------------------------------------------------
Budget == [started_at           : Instant,
           sampled_at           : Instant,
           attempts             : U32,
           operation_elapsed    : Duration,
           last_attempt_elapsed : Duration,
           attempt_started_at   : Optional(Instant)]

NewBudget(started_at) == [started_at           |-> started_at,
                          sampled_at           |-> started_at,
                          attempts             |-> 0,
                          operation_elapsed    |-> 0,
                          last_attempt_elapsed |-> 0,
                          attempt_started_at   |-> None]

HasActiveAttempt(b) == b.attempt_started_at # None

TotalElapsed(b) == b.sampled_at - b.started_at

\* snapshot_at validates a reading: same domain, and no earlier than the last
\* committed one.
DomainOnlyCoherent(b, now) == now # Foreign
Coherent(b, now) == now # Foreign /\ now >= b.sampled_at

Refresh(b, now) == [b EXCEPT !.sampled_at = now]

\* The accounting after an attempt to commit a reading: an invalid one changes
\* nothing.
Accounted(b, now) == IF Coherent(b, now) THEN Refresh(b, now) ELSE b

\* The first exhausted continuation limit, in the order attempts, operation
\* time, total time; the proposed delay counts against the total time only.
TimeOnlyRetryLimit(b, limits, delay) ==
    IF /\ limits.total_time_budget # None
       /\ SaturatingAdd(TotalElapsed(b), delay) >= limits.total_time_budget
    THEN "TotalElapsed"
    ELSE None
DelayBlindRetryLimit(b, limits, delay) == TimeOnlyRetryLimit(b, limits, 0)
RetryLimit(b, limits, delay) ==
    IF b.attempts >= limits.max_attempts
    THEN "Attempts"
    ELSE IF /\ limits.operation_time_budget # None
            /\ b.operation_elapsed >= limits.operation_time_budget
    THEN "OperationElapsed"
    ELSE IF /\ limits.total_time_budget # None
            /\ SaturatingAdd(TotalElapsed(b), delay) >= limits.total_time_budget
    THEN "TotalElapsed"
    ELSE None

\* ResourceBudget::consume_available(1) never goes past the limit.
BeginAttempt(b, limits, now) ==
    [b EXCEPT !.attempts = IF @ < limits.max_attempts THEN @ + 1 ELSE @,
              !.sampled_at = now,
              !.attempt_started_at = now]

\* Only called with an active attempt and a coherent reading; an incoherent one
\* leaves the record, the active attempt included, as it is.
FinishAttempt(b, now) ==
    LET elapsed == now - b.attempt_started_at IN
    [b EXCEPT !.sampled_at = now,
              !.last_attempt_elapsed = elapsed,
              !.operation_elapsed = SaturatingAdd(@, elapsed),
              !.attempt_started_at = None]

-----------------------------------------------------------------------------
\* Samples are ordered, and finished attempts account for no more time than
\* the flow ran before the running attempt, or has run if none is running.
ElapsedCoherent(b) ==
    /\ b.started_at <= b.sampled_at
    /\ b.last_attempt_elapsed <= b.operation_elapsed
    /\ HasActiveAttempt(b) =>
          /\ b.attempts > 0
          /\ b.attempt_started_at <= b.sampled_at
          /\ b.started_at + b.operation_elapsed <= b.attempt_started_at
    /\ b.operation_elapsed <= TotalElapsed(b)
=============================================================================
