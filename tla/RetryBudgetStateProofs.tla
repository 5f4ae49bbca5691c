------------------------ MODULE RetryBudgetStateProofs ------------------------
(***************************************************************************)
(* What the accounting operators preserve, for every clock and every size  *)
(* of Duration and u32.                                                    *)
(***************************************************************************)
EXTENDS RetryBudgetState, TLAPS

\* Committing a reading, valid or not, keeps the accounting coherent and
\* leaves the attempts alone.
LEMMA AccountedCoherent ==
    ASSUME NEW b \in Budget, ElapsedCoherent(b), NEW s \in Sample
    PROVE  /\ Accounted(b, s) \in Budget
           /\ ElapsedCoherent(Accounted(b, s))
           /\ Accounted(b, s).attempts = b.attempts
           /\ HasActiveAttempt(Accounted(b, s)) <=> HasActiveAttempt(b)
<1>1. CASE Coherent(b, s)
  <2>1. s \in Instant /\ s >= b.sampled_at
    BY <1>1 DEF Coherent, Sample
  <2> DEFINE c == [b EXCEPT !.sampled_at = s]
  <2>2. c \in Budget
    BY <2>1 DEF Budget
  <2>3. ElapsedCoherent(c) /\ c.attempts = b.attempts
          /\ (HasActiveAttempt(c) <=> HasActiveAttempt(b))
    BY <2>1, NoneAssumption, MaxAssumption
    DEF ElapsedCoherent, Budget, HasActiveAttempt, TotalElapsed, Instant, Duration,
        Optional, U32
  <2> QED
    BY <1>1, <2>2, <2>3 DEF Accounted, Refresh
<1>2. CASE ~Coherent(b, s)
  BY <1>2 DEF Accounted
<1> QED
  BY <1>1, <1>2

\* Admission opens the next attempt at the sample that passed the gates.
LEMMA BeginCoherent ==
    ASSUME NEW b \in Budget, ElapsedCoherent(b), ~HasActiveAttempt(b),
           NEW limits, limits.max_attempts \in U32,
           b.attempts < limits.max_attempts,
           NEW s \in Sample, Coherent(b, s)
    PROVE  LET c == BeginAttempt(Accounted(b, s), limits, s) IN
           /\ c \in Budget
           /\ ElapsedCoherent(c)
           /\ c.attempts = b.attempts + 1
           /\ HasActiveAttempt(c)
<1>1. s \in Instant /\ s >= b.sampled_at /\ s # None
  BY NoneAssumption DEF Coherent, Sample, Instant
<1> DEFINE c == [b EXCEPT !.attempts = b.attempts + 1,
                          !.sampled_at = s,
                          !.attempt_started_at = s]
<1>2. BeginAttempt(Accounted(b, s), limits, s) = c
  BY DEF BeginAttempt, Accounted, Refresh, Budget
<1>5. b.attempts + 1 \in U32
  BY MaxAssumption DEF Budget, U32
<1>3. c \in Budget
  BY <1>1, <1>5 DEF Budget, Optional
<1>4. ElapsedCoherent(c) /\ c.attempts = b.attempts + 1 /\ HasActiveAttempt(c)
  BY <1>1, MaxAssumption
  DEF ElapsedCoherent, Budget, HasActiveAttempt, TotalElapsed, Instant, Duration,
      Optional, U32
<1> QED
  BY <1>2, <1>3, <1>4

\* Closing the running attempt charges it to the operation time; saturation
\* never loses any of it.
LEMMA FinishCoherent ==
    ASSUME NEW b \in Budget, ElapsedCoherent(b), HasActiveAttempt(b),
           NEW s \in Sample, Coherent(b, s)
    PROVE  LET c == FinishAttempt(b, s) IN
           /\ c \in Budget
           /\ ElapsedCoherent(c)
           /\ c.attempts = b.attempts
           /\ ~HasActiveAttempt(c)
           /\ c.operation_elapsed =
                 b.operation_elapsed + (s - b.attempt_started_at)
<1>1. s \in Instant /\ s >= b.sampled_at
  BY DEF Coherent, Sample
<1>2. b.attempt_started_at \in Instant
  BY DEF Budget, HasActiveAttempt, Optional
<1> DEFINE elapsed == s - b.attempt_started_at
           total   == b.operation_elapsed + elapsed
<1>3. elapsed \in Duration /\ total \in Duration /\ elapsed <= total
        /\ total <= s - b.started_at
        /\ SaturatingAdd(b.operation_elapsed, elapsed) = total
  BY <1>1, <1>2, MaxAssumption
  DEF ElapsedCoherent, Budget, Instant, Duration, SaturatingAdd, TotalElapsed
<1> DEFINE c == [b EXCEPT !.sampled_at = s,
                          !.last_attempt_elapsed = elapsed,
                          !.operation_elapsed = total,
                          !.attempt_started_at = None]
<1>4. FinishAttempt(b, s) = c
  BY <1>3 DEF FinishAttempt, Budget
<1>5. c \in Budget
  BY <1>1, <1>3 DEF Budget, Optional
<1>6. /\ c.started_at = b.started_at /\ c.sampled_at = s
      /\ c.attempts = b.attempts /\ c.attempt_started_at = None
      /\ c.operation_elapsed = total /\ c.last_attempt_elapsed = elapsed
  BY DEF Budget
<1>7. ElapsedCoherent(c) /\ ~HasActiveAttempt(c)
  BY <1>1, <1>3, <1>6, MaxAssumption
  DEF ElapsedCoherent, Budget, HasActiveAttempt, TotalElapsed, Instant, Duration
<1> QED
  BY <1>4, <1>5, <1>6, <1>7
==============================================================================
