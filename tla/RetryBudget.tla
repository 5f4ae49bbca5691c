------------------------------ MODULE RetryBudget ------------------------------
(***************************************************************************)
(* The public RetryBudget (src/budget/retry_budget.rs): a caller drives    *)
(* the accounting itself and holds a linear RetryAttempt for each admitted *)
(* operation.                                                              *)
(*                                                                         *)
(* The caller has variables for budgets and for tokens; it may drop either *)
(* at any time, start a new budget in the place of an old one and present  *)
(* any token to any budget.  A budget is identified by the address of its  *)
(* owner allocation, which its tokens keep alive.  All methods take        *)
(* &mut self, so calls on one budget do not overlap.  snapshot changes     *)
(* nothing and is left out.                                                *)
(***************************************************************************)
EXTENDS RetryBudgetState

CONSTANTS
    Budgets,     \* the caller's variables for budgets
    Attempts,    \* the caller's variables for tokens
    Owners,      \* addresses Arc::new may return
    Policies,    \* the admission limits budgets are started with
    Delays,      \* the delays the caller proposes
    Lost         \* the token of the running attempt is gone

AdmissionLimits == [max_attempts          : U32 \ {0},
                    operation_time_budget : Optional(Duration),
                    total_time_budget     : Optional(Duration)]

ASSUME PoliciesAssumption == Policies \subseteq AdmissionLimits

ASSUME DelaysAssumption == Delays \subseteq Duration

Token == [owner : Owners, number : U32]

ASSUME NamesAssumption ==
    /\ None \notin Owners \union Attempts \union Token \union {Lost}
    /\ Lost \notin Attempts

VARIABLES
    owner,    \* owner of each budget, None where there is no budget
    limits,   \* admission limits of each budget
    budget,   \* accounting of each budget
    attempt,  \* the token in each of the caller's variables, or None
    running,  \* history: which token the running attempt of a budget returned
    promise   \* history: the instant up to which check_retry_after has allowed
              \* a budget to wait before its next attempt, or None

vars == <<owner, limits, budget, attempt, running, promise>>

Init ==
    /\ owner = [b \in Budgets |-> None]
    /\ limits \in [Budgets -> Policies]
    /\ budget = [b \in Budgets |-> NewBudget(0)]
    /\ attempt = [t \in Attempts |-> None]
    /\ running = [b \in Budgets |-> None]
    /\ promise = [b \in Budgets |-> None]

-----------------------------------------------------------------------------
\* An allocation is at an address that no live budget and no token refers to.
ReusedOwner(o) == \A b \in Budgets : owner[b] # o
FreshOwner(o) ==
    /\ \A b \in Budgets : owner[b] # o
    /\ \A t \in Attempts : attempt[t] # None => attempt[t].owner # o

\* A sample of another domain is rejected and there is no budget.
New(b, policy, s) ==
    /\ owner[b] = None
    /\ s # Foreign
    /\ \E o \in Owners :
          /\ FreshOwner(o)
          /\ owner' = [owner EXCEPT ![b] = o]
    /\ limits' = [limits EXCEPT ![b] = policy]
    /\ budget' = [budget EXCEPT ![b] = NewBudget(s)]
    /\ UNCHANGED <<attempt, running, promise>>

DropBudget(b) ==
    /\ owner[b] # None
    /\ owner' = [owner EXCEPT ![b] = None]
    /\ budget' = [budget EXCEPT ![b] = NewBudget(0)]
    /\ running' = [running EXCEPT ![b] = None]
    /\ promise' = [promise EXCEPT ![b] = None]
    /\ UNCHANGED <<limits, attempt>>

\* Overlap is rejected before the clock is read; an exhausted limit is reported
\* after the sample has been committed.
OverlappingIdle(b) == TRUE
Idle(b) == ~HasActiveAttempt(budget[b])

Begin(b, t, s) ==
    /\ owner[b] # None
    /\ attempt[t] = None
    /\ Idle(b)
    /\ Coherent(budget[b], s)
    /\ LET refreshed == Refresh(budget[b], s) IN
       IF RetryLimit(refreshed, limits[b], 0) = None
       THEN LET begun == BeginAttempt(refreshed, limits[b], s) IN
            /\ budget' = [budget EXCEPT ![b] = begun]
            /\ attempt' = [attempt EXCEPT ![t] = [owner  |-> owner[b],
                                                  number |-> begun.attempts]]
            /\ running' = [running EXCEPT ![b] = t]
            /\ promise' = [promise EXCEPT ![b] = None]
       ELSE /\ budget' = [budget EXCEPT ![b] = refreshed]
            /\ UNCHANGED <<attempt, running, promise>>
    /\ UNCHANGED <<owner, limits>>

\* The token is consumed in any case.  A token that does not name the running
\* attempt and a rejected sample leave the accounting as it was.
Names(b, t) == /\ owner[b] = attempt[t].owner
               /\ HasActiveAttempt(budget[b])
               /\ attempt[t].number = budget[b].attempts

\* Whoever loses the token of its running attempt stays without it.
Forgotten(t) == [c \in Budgets |-> IF running[c] = t THEN Lost ELSE running[c]]

Finish(b, t, s) ==
    /\ owner[b] # None
    /\ attempt[t] # None
    /\ attempt' = [attempt EXCEPT ![t] = None]
    /\ IF Names(b, t) /\ Coherent(budget[b], s)
       THEN /\ budget' = [budget EXCEPT ![b] = FinishAttempt(@, s)]
            /\ running' = [Forgotten(t) EXCEPT ![b] = None]
       ELSE /\ running' = Forgotten(t)
            /\ UNCHANGED budget
    /\ UNCHANGED <<owner, limits, promise>>

DropAttempt(t) ==
    /\ attempt[t] # None
    /\ attempt' = [attempt EXCEPT ![t] = None]
    /\ running' = Forgotten(t)
    /\ UNCHANGED <<owner, limits, budget, promise>>

CheckRetryAfter(b, delay, s) ==
    /\ owner[b] # None
    /\ Idle(b)
    /\ Coherent(budget[b], s)
    /\ budget' = [budget EXCEPT ![b] = Refresh(@, s)]
    /\ promise' = [promise EXCEPT ![b] =
                     IF RetryLimit(Refresh(budget[b], s), limits[b], delay) = None
                     THEN s + delay ELSE @]
    /\ UNCHANGED <<owner, limits, attempt, running>>

Next ==
    \/ \E b \in Budgets, s \in Sample :
          \/ \E policy \in Policies : New(b, policy, s)
          \/ \E t \in Attempts : Begin(b, t, s) \/ Finish(b, t, s)
          \/ \E delay \in Delays : CheckRetryAfter(b, delay, s)
    \/ \E b \in Budgets : DropBudget(b)
    \/ \E t \in Attempts : DropAttempt(t)

Spec == Init /\ [][Next]_vars

-----------------------------------------------------------------------------
(***************************************************************************)
(* Properties.                                                             *)
(***************************************************************************)

\* Type invariant.
TypeOK ==
    /\ owner \in [Budgets -> Optional(Owners)]
    /\ limits \in [Budgets -> Policies]
    /\ budget \in [Budgets -> Budget]
    /\ attempt \in [Attempts -> Optional(Token)]
    /\ running \in [Budgets -> Attempts \union {None, Lost}]
    /\ promise \in [Budgets -> Nat \union {None}]

\* The accounting of every budget stays coherent and within max_attempts,
\* whatever its clock returns and whichever tokens are presented to it.
AccountingCoherent ==
    \A b \in Budgets : owner[b] # None =>
       /\ ElapsedCoherent(budget[b])
       /\ budget[b].attempts <= limits[b].max_attempts

\* finish_attempt accepts exactly the token that begin_attempt returned for the
\* running attempt: a token of another budget, of an earlier attempt, or of a
\* budget that is gone never passes for it, although ordinals repeat and
\* addresses are reused.
TokenExact ==
    \A b \in Budgets : owner[b] # None =>
       /\ HasActiveAttempt(budget[b]) <=> running[b] # None
       /\ \A t \in Attempts :
             (attempt[t] # None /\ Names(b, t)) <=> running[b] = t

\* A budget that has lost the token of its running attempt, dropped by the
\* caller or consumed by a finish the clock rejected, admits nothing more.
LostCloses ==
    [][ \A b \in Budgets : (owner'[b] # None /\ running[b] = Lost) =>
          running'[b] = Lost /\ budget'[b] = budget[b] ]_vars

\* A delay that check_retry_after accepted can be waited for: at every instant
\* up to its end, however often the budget was asked about other delays, the
\* next attempt is within its limits.
DelayKept ==
    \A b \in Budgets : (owner[b] # None /\ promise[b] # None) =>
       \A s \in Instant : (budget[b].sampled_at <= s /\ s <= promise[b]) =>
          RetryLimit(Refresh(budget[b], s), limits[b], 0) = None
=============================================================================
