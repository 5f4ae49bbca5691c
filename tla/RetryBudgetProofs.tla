--------------------------- MODULE RetryBudgetProofs ---------------------------
(***************************************************************************)
(* Proofs that the properties of RetryBudget hold for any number of        *)
(* budgets, tokens and addresses, every policy and every clock.            *)
(***************************************************************************)
EXTENDS RetryBudget, RetryBudgetStateProofs

(***************************************************************************)
(* The inductive invariant.  What a token names is decided by an address   *)
(* and an ordinal, so the proof needs that live addresses differ and that  *)
(* no token carries an ordinal its budget has not handed out yet.          *)
(***************************************************************************)
AllCoherent ==
    \A b \in Budgets : /\ ElapsedCoherent(budget[b])
                       /\ budget[b].attempts <= limits[b].max_attempts

OwnersDistinct ==
    \A b, c \in Budgets : (owner[b] # None /\ owner[b] = owner[c]) => b = c

OrdinalsIssued ==
    \A b \in Budgets, t \in Attempts :
       (owner[b] # None /\ attempt[t] # None /\ attempt[t].owner = owner[b])
          => attempt[t].number <= budget[b].attempts

\* A place without a budget holds nothing of the one that was there.
Vacant ==
    \A b \in Budgets : owner[b] = None =>
       running[b] = None /\ promise[b] = None /\ budget[b].attempts = 0

\* A promise is made between attempts and ends with the next admission.
PromiseIdle ==
    \A b \in Budgets : promise[b] # None => ~HasActiveAttempt(budget[b])

IInv == /\ TypeOK
        /\ AllCoherent
        /\ OwnersDistinct
        /\ OrdinalsIssued
        /\ Vacant
        /\ TokenExact
        /\ PromiseIdle
        /\ DelayKept

-----------------------------------------------------------------------------
(***************************************************************************)
(* Records of the accounting.                                              *)
(***************************************************************************)

\* A fresh budget is coherent, has no attempts and runs none.
LEMMA FreshBudget ==
    ASSUME NEW s \in Instant
    PROVE  /\ NewBudget(s) \in Budget
           /\ ElapsedCoherent(NewBudget(s))
           /\ NewBudget(s).attempts = 0
           /\ ~HasActiveAttempt(NewBudget(s))
  BY NoneAssumption, MaxAssumption
  DEF NewBudget, Budget, Instant, Duration, U32, Optional, ElapsedCoherent,
      HasActiveAttempt, TotalElapsed

\* A committed reading changes nothing but the sample, and keeps the accounting
\* coherent.
LEMMA RefreshCoherent ==
    ASSUME NEW b \in Budget, ElapsedCoherent(b), NEW s \in Sample, Coherent(b, s)
    PROVE  /\ Refresh(b, s) \in Budget
           /\ ElapsedCoherent(Refresh(b, s))
           /\ Refresh(b, s).attempts = b.attempts
           /\ HasActiveAttempt(Refresh(b, s)) <=> HasActiveAttempt(b)
           /\ Refresh(b, s).sampled_at = s
           /\ s \in Instant
           /\ b.sampled_at <= s
           /\ \A r \in Instant : Refresh(Refresh(b, s), r) = Refresh(b, r)
<1>1. Accounted(b, s) = Refresh(b, s)
  BY DEF Accounted
<1>2. s \in Instant /\ b.sampled_at <= s
  BY DEF Coherent, Sample, Budget, Instant
<1>3. Refresh(b, s).sampled_at = s
  BY DEF Refresh, Budget
<1>4. \A r \in Instant : Refresh(Refresh(b, s), r) = Refresh(b, r)
  BY DEF Refresh, Budget
<1> QED
  BY <1>1, <1>2, <1>3, <1>4, AccountedCoherent

\* What an accepted delay promises: the limits allow an attempt at every later
\* instant up to its end.
LEMMA DelayFits ==
    ASSUME NEW b \in Budget, ElapsedCoherent(b),
           NEW policy \in AdmissionLimits, NEW delay \in Duration,
           NEW s \in Instant, b.sampled_at <= s,
           RetryLimit(Refresh(b, s), policy, delay) = None,
           NEW r \in Instant, r <= s + delay
    PROVE  RetryLimit(Refresh(b, r), policy, 0) = None
<1> DEFINE early == Refresh(b, s)
           late  == Refresh(b, r)
<1>1. /\ early.attempts = b.attempts /\ late.attempts = b.attempts
      /\ early.operation_elapsed = b.operation_elapsed
      /\ late.operation_elapsed = b.operation_elapsed
      /\ TotalElapsed(early) = s - b.started_at
      /\ TotalElapsed(late) = r - b.started_at
  BY DEF Refresh, Budget, TotalElapsed
<1>2. /\ "Attempts" # None /\ "OperationElapsed" # None /\ "TotalElapsed" # None
  BY NoneAssumption DEF Limits
<1>3. /\ ~(b.attempts >= policy.max_attempts)
      /\ ~(/\ policy.operation_time_budget # None
           /\ b.operation_elapsed >= policy.operation_time_budget)
      /\ ~(/\ policy.total_time_budget # None
           /\ SaturatingAdd(s - b.started_at, delay) >= policy.total_time_budget)
  BY <1>1, <1>2 DEF RetryLimit
<1>4. b.started_at \in Instant
  BY DEF Budget
<1>5. SaturatingAdd(r - b.started_at, 0) <= SaturatingAdd(s - b.started_at, delay)
  BY <1>4, MaxAssumption DEF SaturatingAdd, Instant, Duration
<1>6. /\ SaturatingAdd(r - b.started_at, 0) \in Int
      /\ SaturatingAdd(s - b.started_at, delay) \in Int
  BY <1>4, MaxAssumption DEF SaturatingAdd, Instant, Duration
<1>7. ~(/\ policy.total_time_budget # None
        /\ SaturatingAdd(r - b.started_at, 0) >= policy.total_time_budget)
  <2>1. policy.total_time_budget \in Duration \union {None}
    BY DEF AdmissionLimits, Optional
  <2> QED
    BY <1>3, <1>5, <1>6, <2>1, MaxAssumption DEF Duration
<1> QED
  BY <1>1, <1>3, <1>7 DEF RetryLimit

-----------------------------------------------------------------------------
(***************************************************************************)
(* Every operation preserves the invariant.                                *)
(***************************************************************************)

\* The initial state, without budgets or tokens.
LEMMA Initially == Init => IInv
<1> SUFFICES ASSUME Init PROVE IInv
  OBVIOUS
<1>1. 0 \in Instant
  BY MaxAssumption DEF Instant
<1>2. \A b \in Budgets : limits[b] \in AdmissionLimits
  BY PoliciesAssumption DEF Init
<1>3. TypeOK
  BY <1>1, FreshBudget DEF Init, TypeOK, Optional
<1>4. AllCoherent
  BY <1>1, <1>2, FreshBudget, MaxAssumption DEF Init, AllCoherent, AdmissionLimits, U32
<1> QED
  BY <1>3, <1>4, <1>1, FreshBudget
  DEF Init, IInv, OwnersDistinct, OrdinalsIssued, Vacant, TokenExact, PromiseIdle,
      DelayKept

\* A budget is started at an address that nothing refers to.
LEMMA NewStep ==
    ASSUME IInv, NEW b \in Budgets, NEW policy \in Policies, NEW s \in Sample,
           New(b, policy, s)
    PROVE  IInv'
<1> USE DEF IInv
<1>1. PICK o \in Owners : FreshOwner(o) /\ owner' = [owner EXCEPT ![b] = o]
  BY DEF New
<1>2. s \in Instant /\ owner[b] = None
  BY DEF New, Sample
<1>3. policy \in AdmissionLimits
  BY PoliciesAssumption
<1>4. /\ running[b] = None /\ promise[b] = None
  BY <1>2 DEF Vacant
<1>5. o # None
  BY NamesAssumption
<1>6. /\ budget' = [budget EXCEPT ![b] = NewBudget(s)]
      /\ limits' = [limits EXCEPT ![b] = policy]
      /\ attempt' = attempt /\ running' = running /\ promise' = promise
  BY DEF New
<1>7. TypeOK'
  BY <1>1, <1>2, <1>6, FreshBudget DEF TypeOK, Optional
<1>8. AllCoherent'
  BY <1>2, <1>3, <1>6, FreshBudget, MaxAssumption
  DEF TypeOK, AllCoherent, AdmissionLimits, U32
<1>9. OwnersDistinct'
  BY <1>1, <1>5 DEF TypeOK, OwnersDistinct, FreshOwner
<1>10. OrdinalsIssued'
  BY <1>1, <1>5, <1>6 DEF TypeOK, OrdinalsIssued, FreshOwner
<1>11. Vacant'
  BY <1>1, <1>5, <1>6 DEF TypeOK, Vacant
<1>12. TokenExact'
  <2> SUFFICES ASSUME NEW c \in Budgets, owner'[c] # None
               PROVE  /\ HasActiveAttempt(budget'[c]) <=> running'[c] # None
                      /\ \A t \in Attempts :
                            (attempt'[t] # None /\ Names(c, t)') <=> running'[c] = t
    BY DEF TokenExact
  <2>1. CASE c = b
    BY <2>1, <1>2, <1>4, <1>6, FreshBudget, NamesAssumption DEF TypeOK, Names
  <2>2. CASE c # b
    BY <2>2, <1>1, <1>6 DEF TypeOK, Names, TokenExact
  <2> QED
    BY <2>1, <2>2
<1>13. PromiseIdle'
  BY <1>4, <1>6 DEF TypeOK, PromiseIdle
<1>14. DelayKept'
  BY <1>1, <1>4, <1>6 DEF TypeOK, DelayKept
<1> QED
  BY <1>7, <1>8, <1>9, <1>10, <1>11, <1>12, <1>13, <1>14
\* A budget goes away with what it ran and promised; its tokens stay behind.
LEMMA DropBudgetStep ==
    ASSUME IInv, NEW b \in Budgets, DropBudget(b)
    PROVE  IInv'
<1> USE DEF IInv
<1>1. 0 \in Instant
  BY MaxAssumption DEF Instant
<1>2. /\ owner' = [owner EXCEPT ![b] = None]
      /\ budget' = [budget EXCEPT ![b] = NewBudget(0)]
      /\ running' = [running EXCEPT ![b] = None]
      /\ promise' = [promise EXCEPT ![b] = None]
      /\ limits' = limits /\ attempt' = attempt
  BY DEF DropBudget
<1>3. limits[b].max_attempts \in Nat
  BY PoliciesAssumption, MaxAssumption DEF TypeOK, AdmissionLimits, U32
<1>4. TypeOK'
  BY <1>1, <1>2, FreshBudget DEF TypeOK, Optional
<1>5. AllCoherent'
  BY <1>1, <1>2, <1>3, FreshBudget DEF TypeOK, AllCoherent
<1>6. OwnersDistinct' /\ OrdinalsIssued'
  BY <1>2 DEF TypeOK, OwnersDistinct, OrdinalsIssued
<1>7. Vacant'
  BY <1>1, <1>2, FreshBudget DEF TypeOK, Vacant
<1>8. TokenExact'
  BY <1>2 DEF TypeOK, TokenExact, Names
<1>9. PromiseIdle' /\ DelayKept'
  BY <1>2 DEF TypeOK, PromiseIdle, DelayKept
<1> QED
  BY <1>4, <1>5, <1>6, <1>7, <1>8, <1>9

\* A committed reading that admits nothing: no token changes hands, and what
\* was promised still holds of the later samples.
LEMMA RefreshStep ==
    ASSUME IInv, NEW b \in Budgets, owner[b] # None,
           NEW s \in Sample, Coherent(budget[b], s),
           budget' = [budget EXCEPT ![b] = Refresh(@, s)],
           UNCHANGED <<owner, limits, attempt, running>>
    PROVE  /\ AllCoherent' /\ OwnersDistinct' /\ OrdinalsIssued' /\ TokenExact'
           /\ budget' \in [Budgets -> Budget]
           /\ \A c \in Budgets :
                 /\ HasActiveAttempt(budget'[c]) <=> HasActiveAttempt(budget[c])
                 /\ budget'[c].attempts = budget[c].attempts
                 /\ (owner[c] # None /\ promise[c] # None) =>
                       \A r \in Instant :
                          (budget'[c].sampled_at <= r /\ r <= promise[c]) =>
                             RetryLimit(Refresh(budget'[c], r), limits[c], 0) = None
<1> USE DEF IInv
<1> DEFINE after == Refresh(budget[b], s)
<1>1. budget[b] \in Budget /\ ElapsedCoherent(budget[b])
  BY DEF TypeOK, AllCoherent
<1>2. /\ after \in Budget /\ ElapsedCoherent(after)
      /\ after.attempts = budget[b].attempts
      /\ HasActiveAttempt(after) <=> HasActiveAttempt(budget[b])
      /\ after.sampled_at = s /\ s \in Instant /\ budget[b].sampled_at <= s
      /\ \A r \in Instant : Refresh(after, r) = Refresh(budget[b], r)
  BY <1>1, RefreshCoherent
<1>3. \A c \in Budgets : budget'[c] = IF c = b THEN after ELSE budget[c]
  BY DEF TypeOK
<1>4. budget' \in [Budgets -> Budget]
  BY <1>2 DEF TypeOK
<1> HIDE DEF after
<1>5. \A c \in Budgets :
         /\ HasActiveAttempt(budget'[c]) <=> HasActiveAttempt(budget[c])
         /\ budget'[c].attempts = budget[c].attempts
  BY <1>2, <1>3
<1>6. AllCoherent'
  BY <1>2, <1>3 DEF AllCoherent
<1>7. OwnersDistinct' /\ OrdinalsIssued'
  BY <1>5 DEF OwnersDistinct, OrdinalsIssued
<1>8. TokenExact'
  BY <1>5 DEF TokenExact, Names
<1>9. ASSUME NEW c \in Budgets, owner[c] # None, promise[c] # None,
             NEW r \in Instant, budget'[c].sampled_at <= r, r <= promise[c]
      PROVE  RetryLimit(Refresh(budget'[c], r), limits[c], 0) = None
  <2>1. CASE c # b
    BY <2>1, <1>3, <1>9 DEF DelayKept
  <2>2. CASE c = b
    <3>1. budget[b].sampled_at <= r
      BY <2>2, <1>1, <1>2, <1>3, <1>9, MaxAssumption DEF Budget, Instant
    <3> QED
      BY <2>2, <3>1, <1>2, <1>3, <1>9 DEF DelayKept
  <2> QED
    BY <2>1, <2>2
<1> QED
  BY <1>4, <1>5, <1>6, <1>7, <1>8, <1>9

\* An accepted delay is promised up to its end; a refused one leaves the
\* earlier promise.
LEMMA CheckRetryAfterStep ==
    ASSUME IInv, NEW b \in Budgets, NEW delay \in Delays, NEW s \in Sample,
           CheckRetryAfter(b, delay, s)
    PROVE  IInv'
<1> USE DEF IInv
<1> DEFINE after == Refresh(budget[b], s)
           accepted == RetryLimit(after, limits[b], delay) = None
<1>1. /\ owner[b] # None /\ Coherent(budget[b], s)
      /\ ~HasActiveAttempt(budget[b])
      /\ budget' = [budget EXCEPT ![b] = Refresh(@, s)]
      /\ promise' = [promise EXCEPT ![b] = IF accepted THEN s + delay ELSE @]
      /\ UNCHANGED <<owner, limits, attempt, running>>
  BY DEF CheckRetryAfter, Idle
<1>2. /\ AllCoherent' /\ OwnersDistinct' /\ OrdinalsIssued' /\ TokenExact'
      /\ budget' \in [Budgets -> Budget]
      /\ \A c \in Budgets :
            /\ HasActiveAttempt(budget'[c]) <=> HasActiveAttempt(budget[c])
            /\ budget'[c].attempts = budget[c].attempts
            /\ (owner[c] # None /\ promise[c] # None) =>
                  \A r \in Instant :
                     (budget'[c].sampled_at <= r /\ r <= promise[c]) =>
                        RetryLimit(Refresh(budget'[c], r), limits[c], 0) = None
  BY <1>1, RefreshStep
<1>3. /\ budget[b] \in Budget /\ ElapsedCoherent(budget[b])
      /\ limits[b] \in AdmissionLimits /\ delay \in Duration
  BY PoliciesAssumption, DelaysAssumption DEF TypeOK, AllCoherent
<1>4. /\ s \in Instant /\ budget[b].sampled_at <= s
      /\ \A r \in Instant : Refresh(after, r) = Refresh(budget[b], r)
  BY <1>1, <1>3, RefreshCoherent
<1>5. s + delay \in Nat
  BY <1>3, <1>4, MaxAssumption DEF Instant, Duration
<1>6. TypeOK'
  BY <1>1, <1>2, <1>5 DEF TypeOK
<1>7. Vacant' /\ PromiseIdle'
  BY <1>1, <1>2 DEF TypeOK, Vacant, PromiseIdle
<1>8. DelayKept'
  <2> SUFFICES ASSUME NEW c \in Budgets, owner[c] # None, promise'[c] # None,
                      NEW r \in Instant,
                      budget'[c].sampled_at <= r, r <= promise'[c]
               PROVE  RetryLimit(Refresh(budget'[c], r), limits[c], 0) = None
    BY <1>1 DEF DelayKept
  <2>1. CASE c = b /\ accepted
    <3>1. promise'[b] = s + delay /\ budget'[b] = after
      BY <2>1, <1>1 DEF TypeOK
    <3>2. RetryLimit(Refresh(budget[b], r), limits[b], 0) = None
      BY <2>1, <3>1, <1>3, <1>4, DelayFits
    <3> QED
      BY <2>1, <3>1, <3>2, <1>4
  <2>2. CASE ~(c = b /\ accepted)
    <3>1. promise'[c] = promise[c]
      BY <2>2, <1>1 DEF TypeOK
    <3> QED
      BY <3>1, <1>2
  <2> QED
    BY <2>1, <2>2
<1> QED
  BY <1>2, <1>6, <1>7, <1>8
\* The token of an admitted attempt carries an ordinal no other token of this
\* budget has; a refused admission only commits the reading.
LEMMA BeginStep ==
    ASSUME IInv, NEW b \in Budgets, NEW t \in Attempts, NEW s \in Sample,
           Begin(b, t, s)
    PROVE  IInv'
<1> USE DEF IInv
<1> DEFINE refreshed == Refresh(budget[b], s)
           begun     == BeginAttempt(refreshed, limits[b], s)
           token     == [owner |-> owner[b], number |-> begun.attempts]
<1>1. /\ owner[b] # None /\ attempt[t] = None
      /\ ~HasActiveAttempt(budget[b])
      /\ Coherent(budget[b], s)
      /\ owner' = owner /\ limits' = limits
  BY DEF Begin, Idle
<1>2. /\ budget[b] \in Budget /\ ElapsedCoherent(budget[b])
      /\ limits[b].max_attempts \in U32
  BY PoliciesAssumption DEF TypeOK, AllCoherent, AdmissionLimits
<1>3. CASE RetryLimit(refreshed, limits[b], 0) # None
  <2>1. /\ budget' = [budget EXCEPT ![b] = Refresh(@, s)]
        /\ UNCHANGED <<owner, limits, attempt, running, promise>>
    BY <1>1, <1>3 DEF Begin
  <2>2. /\ AllCoherent' /\ OwnersDistinct' /\ OrdinalsIssued' /\ TokenExact'
        /\ budget' \in [Budgets -> Budget]
        /\ \A c \in Budgets :
              /\ HasActiveAttempt(budget'[c]) <=> HasActiveAttempt(budget[c])
              /\ budget'[c].attempts = budget[c].attempts
              /\ (owner[c] # None /\ promise[c] # None) =>
                    \A r \in Instant :
                       (budget'[c].sampled_at <= r /\ r <= promise[c]) =>
                          RetryLimit(Refresh(budget'[c], r), limits[c], 0) = None
    BY <1>1, <2>1, RefreshStep
  <2>3. TypeOK' /\ Vacant' /\ PromiseIdle'
    BY <2>1, <2>2 DEF TypeOK, Vacant, PromiseIdle
  <2>4. DelayKept'
    BY <2>1, <2>2 DEF DelayKept
  <2> QED
    BY <2>2, <2>3, <2>4
<1>4. CASE RetryLimit(refreshed, limits[b], 0) = None
  <2>1. /\ budget' = [budget EXCEPT ![b] = begun]
        /\ attempt' = [attempt EXCEPT ![t] = token]
        /\ running' = [running EXCEPT ![b] = t]
        /\ promise' = [promise EXCEPT ![b] = None]
    BY <1>4 DEF Begin
  <2>2. budget[b].attempts < limits[b].max_attempts
    <3>1. refreshed.attempts = budget[b].attempts
      BY <1>1, <1>2, RefreshCoherent
    <3>2. "Attempts" # None
      BY NoneAssumption DEF Limits
    <3>3. ~(budget[b].attempts >= limits[b].max_attempts)
      BY <1>4, <3>1, <3>2 DEF RetryLimit
    <3> QED
      BY <3>3, <1>2, MaxAssumption DEF Budget, U32
  <2>3. Accounted(budget[b], s) = refreshed
    BY <1>1 DEF Accounted
  <2>4. /\ begun \in Budget /\ ElapsedCoherent(begun)
        /\ begun.attempts = budget[b].attempts + 1
        /\ HasActiveAttempt(begun)
    BY <1>1, <1>2, <2>2, <2>3, BeginCoherent
  <2>5. budget[b].attempts \in Nat /\ limits[b].max_attempts \in Nat
    BY <1>2, MaxAssumption DEF Budget, U32
  <2>6. token \in Token /\ token # None
    <3>1. owner[b] \in Owners /\ begun.attempts \in U32
      BY <1>1, <2>4 DEF TypeOK, Optional, Budget
    <3>2. token \in Token
      BY <3>1 DEF Token
    <3> QED
      BY <3>2, NamesAssumption
  <2>7. t # None /\ t # Lost
    BY NamesAssumption
  <2>8. token.owner = owner[b] /\ token.number = budget[b].attempts + 1
    BY <2>4
  <2> HIDE DEF begun, refreshed, token
  <2>9. TypeOK'
    BY <1>1, <2>1, <2>4, <2>6 DEF TypeOK, Optional
  <2>10. AllCoherent'
    BY <1>1, <2>1, <2>2, <2>4, <2>5 DEF TypeOK, AllCoherent
  <2>11. OwnersDistinct' /\ Vacant' /\ PromiseIdle'
    BY <1>1, <2>1 DEF TypeOK, OwnersDistinct, Vacant, PromiseIdle
  <2>12. OrdinalsIssued'
    <3> SUFFICES ASSUME NEW c \in Budgets, NEW u \in Attempts,
                        owner[c] # None, attempt'[u] # None,
                        attempt'[u].owner = owner[c]
                 PROVE  attempt'[u].number <= budget'[c].attempts
      BY <1>1 DEF OrdinalsIssued
    <3>1. CASE u = t
      <4>1. attempt'[u] = token
        BY <2>1, <3>1 DEF TypeOK
      <4>2. c = b
        BY <1>1, <2>8, <4>1 DEF OwnersDistinct
      <4> QED
        BY <2>1, <2>4, <2>5, <2>8, <4>1, <4>2 DEF TypeOK
    <3>2. CASE u # t
      <4>1. attempt'[u] = attempt[u] /\ attempt[u].number <= budget[c].attempts
        BY <2>1, <3>2 DEF TypeOK, OrdinalsIssued
      <4>2. attempt[u].number \in Nat
        BY <4>1, MaxAssumption DEF TypeOK, Optional, Token, U32
      <4>3. budget'[c] = IF c = b THEN begun ELSE budget[c]
        BY <2>1 DEF TypeOK
      <4> QED
        BY <2>4, <2>5, <4>1, <4>2, <4>3
    <3> QED
      BY <3>1, <3>2
  <2>13. TokenExact'
    <3> SUFFICES ASSUME NEW c \in Budgets, owner[c] # None
                 PROVE  /\ HasActiveAttempt(budget'[c]) <=> running'[c] # None
                        /\ \A u \in Attempts :
                              (attempt'[u] # None /\ Names(c, u)') <=> running'[c] = u
      BY <1>1 DEF TokenExact
    <3>1. CASE c = b
      <4>1. budget'[b] = begun /\ running'[b] = t /\ attempt'[t] = token
        BY <2>1 DEF TypeOK
      <4>2. Names(b, t)'
        BY <1>1, <2>4, <2>8, <4>1 DEF Names
      <4>3. ASSUME NEW u \in Attempts, u # t, attempt'[u] # None, Names(b, u)'
            PROVE  FALSE
        <5>1. /\ attempt'[u] = attempt[u]
              /\ attempt[u].owner = owner[b]
              /\ attempt[u].number = budget[b].attempts + 1
          BY <1>1, <2>1, <2>4, <4>1, <4>3 DEF TypeOK, Names
        <5> QED
          BY <1>1, <2>5, <4>3, <5>1 DEF OrdinalsIssued
      <4> QED
        BY <3>1, <2>4, <2>6, <2>7, <4>1, <4>2, <4>3
    <3>2. CASE c # b
      <4>1. budget'[c] = budget[c] /\ running'[c] = running[c]
        BY <2>1, <3>2 DEF TypeOK
      <4>2. ASSUME NEW u \in Attempts, u # t
            PROVE  (attempt'[u] # None /\ Names(c, u)') <=> running'[c] = u
        BY <1>1, <2>1, <4>1, <4>2 DEF TypeOK, TokenExact, Names
      <4>3. ~Names(c, t)'
        BY <1>1, <2>1, <2>8, <3>2 DEF TypeOK, Names, OwnersDistinct
      <4>4. running[c] # t
        BY <1>1 DEF TokenExact
      <4> QED
        BY <4>1, <4>2, <4>3, <4>4 DEF TokenExact
    <3> QED
      BY <3>1, <3>2
  <2>14. DelayKept'
    BY <1>1, <2>1 DEF TypeOK, DelayKept
  <2> QED
    BY <2>9, <2>10, <2>11, <2>12, <2>13, <2>14
<1> QED
  BY <1>3, <1>4

\* A token that is gone without finishing its attempt.
LEMMA ForgottenStep ==
    ASSUME IInv, NEW t \in Attempts, attempt[t] # None,
           attempt' = [attempt EXCEPT ![t] = None],
           running' = Forgotten(t),
           UNCHANGED <<owner, limits, budget, promise>>
    PROVE  IInv'
<1> USE DEF IInv
<1>1. t # None /\ t # Lost /\ Lost # None
  BY NamesAssumption
<1>2. \A c \in Budgets : running'[c] = IF running[c] = t THEN Lost ELSE running[c]
  BY DEF Forgotten
<1>3. \A u \in Attempts : attempt'[u] = IF u = t THEN None ELSE attempt[u]
  BY DEF TypeOK
<1>4. TypeOK'
  BY DEF TypeOK, Optional, Forgotten
<1>5. OrdinalsIssued' /\ Vacant'
  BY <1>1, <1>2, <1>3 DEF OrdinalsIssued, Vacant
<1>6. TokenExact'
  <2> SUFFICES ASSUME NEW c \in Budgets, owner[c] # None
               PROVE  /\ HasActiveAttempt(budget[c]) <=> running'[c] # None
                      /\ \A u \in Attempts :
                            (attempt'[u] # None /\ Names(c, u)') <=> running'[c] = u
    BY DEF TokenExact
  <2>1. HasActiveAttempt(budget[c]) <=> running'[c] # None
    BY <1>1, <1>2 DEF TokenExact
  <2>2. ASSUME NEW u \in Attempts, u # t
        PROVE  (attempt'[u] # None /\ Names(c, u)') <=> running'[c] = u
    <3>1. attempt'[u] = attempt[u] /\ (Names(c, u)' <=> Names(c, u))
      BY <1>3, <2>2 DEF Names
    <3>2. (attempt[u] # None /\ Names(c, u)) <=> running[c] = u
      BY DEF TokenExact
    <3>3. u # Lost
      BY NamesAssumption
    <3> QED
      BY <1>2, <2>2, <3>1, <3>2, <3>3
  <2> QED
    BY <1>1, <1>2, <1>3, <2>1, <2>2
<1>7. AllCoherent' /\ OwnersDistinct' /\ PromiseIdle' /\ DelayKept'
  BY DEF AllCoherent, OwnersDistinct, PromiseIdle, DelayKept
<1> QED
  BY <1>4, <1>5, <1>6, <1>7

\* finish_attempt closes the running attempt, or only loses the token.
LEMMA FinishStep ==
    ASSUME IInv, NEW b \in Budgets, NEW t \in Attempts, NEW s \in Sample,
           Finish(b, t, s)
    PROVE  IInv'
<1> USE DEF IInv
<1>1. /\ owner[b] # None /\ attempt[t] # None
      /\ attempt' = [attempt EXCEPT ![t] = None]
      /\ owner' = owner /\ limits' = limits /\ promise' = promise
  BY DEF Finish
<1>2. CASE ~(Names(b, t) /\ Coherent(budget[b], s))
  <2>1. running' = Forgotten(t) /\ budget' = budget
    BY <1>2 DEF Finish
  <2> QED
    BY <1>1, <2>1, ForgottenStep
<1>3. CASE Names(b, t) /\ Coherent(budget[b], s)
  <2> DEFINE done == FinishAttempt(budget[b], s)
  <2>1. /\ budget' = [budget EXCEPT ![b] = done]
        /\ running' = [Forgotten(t) EXCEPT ![b] = None]
    BY <1>3 DEF Finish
  <2>2. running[b] = t /\ HasActiveAttempt(budget[b])
    BY <1>1, <1>3 DEF TokenExact, Names
  <2>3. /\ done \in Budget /\ ElapsedCoherent(done)
        /\ done.attempts = budget[b].attempts
        /\ ~HasActiveAttempt(done)
    BY <1>3, <2>2, FinishCoherent DEF TypeOK, AllCoherent
  <2>4. \A c \in Budgets : c # b => running[c] # t
    BY <1>1, <1>3, <2>2 DEF TokenExact, Names, OwnersDistinct, Vacant
  <2>5. \A c \in Budgets : budget'[c] = IF c = b THEN done ELSE budget[c]
    BY <2>1 DEF TypeOK
  <2>6. \A c \in Budgets : running'[c] = IF c = b THEN None ELSE running[c]
    BY <2>1, <2>4 DEF Forgotten
  <2>7. \A u \in Attempts : attempt'[u] = IF u = t THEN None ELSE attempt[u]
    BY <1>1 DEF TypeOK
  <2>8. TypeOK'
    BY <1>1, <2>1, <2>3 DEF TypeOK, Optional, Forgotten
  <2> HIDE DEF done
  <2>9. AllCoherent'
    BY <1>1, <2>3, <2>5 DEF AllCoherent
  <2>10. OwnersDistinct' /\ OrdinalsIssued'
    BY <1>1, <2>3, <2>5, <2>7 DEF OwnersDistinct, OrdinalsIssued
  <2>11. Vacant' /\ PromiseIdle'
    BY <1>1, <2>3, <2>5, <2>6 DEF Vacant, PromiseIdle
  <2>12. TokenExact'
    <3> SUFFICES ASSUME NEW c \in Budgets, owner[c] # None
                 PROVE  /\ HasActiveAttempt(budget'[c]) <=> running'[c] # None
                        /\ \A u \in Attempts :
                              (attempt'[u] # None /\ Names(c, u)') <=> running'[c] = u
      BY <1>1 DEF TokenExact
    <3>1. CASE c = b
      BY <3>1, <2>3, <2>5, <2>6, NamesAssumption DEF Names
    <3>2. CASE c # b
      <4>1. budget'[c] = budget[c] /\ running'[c] = running[c] /\ running[c] # t
        BY <3>2, <2>4, <2>5, <2>6
      <4>2. ASSUME NEW u \in Attempts
            PROVE  (attempt'[u] # None /\ Names(c, u)') <=> running'[c] = u
        BY <1>1, <2>7, <4>1 DEF TokenExact, Names
      <4> QED
        BY <4>1, <4>2 DEF TokenExact
    <3> QED
      BY <3>1, <3>2
  <2>13. DelayKept'
    BY <1>1, <2>2, <2>5 DEF PromiseIdle, DelayKept
  <2> QED
    BY <2>8, <2>9, <2>10, <2>11, <2>12, <2>13
<1> QED
  BY <1>2, <1>3
-----------------------------------------------------------------------------
(***************************************************************************)
(* The theorems.                                                           *)
(***************************************************************************)

\* One step of the caller, or none, keeps the invariant.
LEMMA Stepwise == IInv /\ [Next]_vars => IInv'
<1> SUFFICES ASSUME IInv, [Next]_vars PROVE IInv'
  OBVIOUS
<1>1. CASE UNCHANGED vars
  BY <1>1 DEF vars, IInv, TypeOK, AllCoherent, OwnersDistinct, OrdinalsIssued,
              Vacant, TokenExact, Names, PromiseIdle, DelayKept
<1>2. ASSUME NEW b \in Budgets, NEW s \in Sample, NEW policy \in Policies,
             New(b, policy, s)
      PROVE  IInv'
  BY <1>2, NewStep
<1>3. ASSUME NEW b \in Budgets, NEW s \in Sample, NEW t \in Attempts,
             Begin(b, t, s) \/ Finish(b, t, s)
      PROVE  IInv'
  BY <1>3, BeginStep, FinishStep
<1>4. ASSUME NEW b \in Budgets, NEW s \in Sample, NEW delay \in Delays,
             CheckRetryAfter(b, delay, s)
      PROVE  IInv'
  BY <1>4, CheckRetryAfterStep
<1>5. ASSUME NEW b \in Budgets, DropBudget(b)
      PROVE  IInv'
  BY <1>5, DropBudgetStep
<1>6. ASSUME NEW t \in Attempts, DropAttempt(t)
      PROVE  IInv'
  BY <1>6, ForgottenStep DEF DropAttempt
<1> QED
  BY <1>1, <1>2, <1>3, <1>4, <1>5, <1>6 DEF Next

\* The strengthened invariant of budgets and tokens holds throughout.
THEOREM Invariance == Spec => []IInv
  BY Initially, Stepwise, PTL DEF Spec

\* Type correctness: no sum of the accounting leaves its range.
THEOREM TypeCorrect == Spec => []TypeOK
<1>1. IInv => TypeOK
  BY DEF IInv
<1> QED
  BY <1>1, Invariance, PTL

\* The accounting of every budget stays coherent and within max_attempts.
THEOREM AccountingTheorem == Spec => []AccountingCoherent
<1>1. IInv => AccountingCoherent
  BY DEF IInv, AllCoherent, AccountingCoherent
<1> QED
  BY <1>1, Invariance, PTL

\* finish_attempt accepts exactly the token of the running attempt.
THEOREM TokenTheorem == Spec => []TokenExact
<1>1. IInv => TokenExact
  BY DEF IInv
<1> QED
  BY <1>1, Invariance, PTL

\* A delay that check_retry_after accepted can be waited for.
THEOREM DelayTheorem == Spec => []DelayKept
<1>1. IInv => DelayKept
  BY DEF IInv
<1> QED
  BY <1>1, Invariance, PTL

\* A budget that has lost its running token admits nothing more: it has an
\* active attempt, which begin_attempt and check_retry_after refuse and no
\* token can finish.
THEOREM LostTheorem == Spec => LostCloses
<1>1. ASSUME IInv, [Next]_vars
      PROVE  [\A b \in Budgets : (owner'[b] # None /\ running[b] = Lost) =>
                running'[b] = Lost /\ budget'[b] = budget[b]]_vars
  <2> USE DEF IInv
  <2>1. SUFFICES ASSUME Next, NEW b \in Budgets, owner'[b] # None, running[b] = Lost
                 PROVE  running'[b] = Lost /\ budget'[b] = budget[b]
    BY <1>1
  <2>2. /\ Lost # None /\ owner[b] # None
        /\ HasActiveAttempt(budget[b])
        /\ \A t \in Attempts : running[b] # t
    BY <1>1, <2>1, NamesAssumption DEF Vacant, TokenExact
  <2>3. ASSUME NEW c \in Budgets, NEW s \in Sample, NEW policy \in Policies,
               New(c, policy, s)
        PROVE  running'[b] = Lost /\ budget'[b] = budget[b]
    BY <1>1, <2>1, <2>2, <2>3 DEF New, TypeOK
  <2>4. ASSUME NEW c \in Budgets, NEW s \in Sample, NEW t \in Attempts, Begin(c, t, s)
        PROVE  running'[b] = Lost /\ budget'[b] = budget[b]
    <3>1. c # b
      BY <2>2, <2>4 DEF Begin, Idle
    <3> QED
      BY <1>1, <2>1, <2>4, <3>1 DEF Begin, TypeOK
  <2>5. ASSUME NEW c \in Budgets, NEW s \in Sample, NEW t \in Attempts, Finish(c, t, s)
        PROVE  running'[b] = Lost /\ budget'[b] = budget[b]
    <3>1. ~(c = b /\ Names(c, t))
      BY <1>1, <2>2, <2>5 DEF Finish, TokenExact
    <3> QED
      BY <1>1, <2>1, <2>2, <2>5, <3>1 DEF Finish, Forgotten, TypeOK
  <2>6. ASSUME NEW c \in Budgets, NEW s \in Sample, NEW delay \in Delays,
               CheckRetryAfter(c, delay, s)
        PROVE  running'[b] = Lost /\ budget'[b] = budget[b]
    BY <1>1, <2>1, <2>2, <2>6 DEF CheckRetryAfter, Idle, TypeOK
  <2>7. ASSUME NEW c \in Budgets, DropBudget(c)
        PROVE  running'[b] = Lost /\ budget'[b] = budget[b]
    BY <1>1, <2>1, <2>7 DEF DropBudget, TypeOK
  <2>8. ASSUME NEW t \in Attempts, DropAttempt(t)
        PROVE  running'[b] = Lost /\ budget'[b] = budget[b]
    BY <1>1, <2>1, <2>2, <2>8 DEF DropAttempt, Forgotten, TypeOK
  <2> QED
    BY <2>1, <2>3, <2>4, <2>5, <2>6, <2>7, <2>8 DEF Next
<1> QED
  BY <1>1, Invariance, PTL DEF Spec, LostCloses
=============================================================================
