----------------------------- MODULE FlowWaitProofs -----------------------------
(***************************************************************************)
(* Proofs about RetryCancellation and FlowWait for any number of futures,  *)
(* flows, wakers, cancelling threads, identifiers and waits.               *)
(*                                                                         *)
(* Of the token: the registry is exact, no wakeup is lost as long as       *)
(* wakers do not unwind, and the token takes only steps of the latch of    *)
(* CancellationLatch.  Of the waits: no flow sleeps through its wakeup,    *)
(* cancellation that came before the last round of polls decides the wait, *)
(* and no wait leaves a waker behind.                                      *)
(***************************************************************************)
EXTENDS FlowWait, FiniteSetTheorems, TLAPS

-----------------------------------------------------------------------------
(***************************************************************************)
(* The token and its registry.                                             *)
(***************************************************************************)

\* A thread past its swap has set the flag, only the thread that invokes
\* wakers has a batch, by then the registry is empty, and no task is woken
\* before the flag is set.
CancellersInv ==
    /\ \A c \in Cancellers :
          /\ pc[c] # "idle" => cancelled
          /\ batch[c] # {} => pc[c] = "wake"
          /\ pc[c] = "wake" => \A i \in Ids : wakers[i] = None
    /\ woken # {} => cancelled

\* Entries left after the swap are still to be drained.
DrainInv ==
    (cancelled /\ \E i \in Ids : wakers[i] # None) =>
       \E c \in Cancellers : pc[c] = "drain"

\* Identifiers and entries: an entry is under its future's identifier, no two
\* futures share one, an uncancelled token keeps the entry of every identifier
\* it gave out, and a pending future's entry holds its latest waker.
RegistryInv ==
    /\ \A i \in Ids : wakers[i] # None => id[wakers[i][1]] = i
    /\ \A f, g \in Futures : (id[f] # None /\ id[f] = id[g]) => f = g
    /\ \A f \in Futures :
          /\ id[f] # None => state[f] \in {"pending", "polling", "ready"}
          /\ (id[f] # None /\ ~cancelled) => /\ wakers[id[f]] # None
                                             /\ wakers[id[f]][1] = f
          /\ state[f] \in {"pending", "polling"} => waker[f] # None
          /\ (state[f] = "pending" /\ ~cancelled) =>
                id[f] # None /\ wakers[id[f]] = <<f, waker[f]>>

\* The inductive invariant.
IInv == TypeOK /\ CancellersInv /\ DrainInv /\ RegistryInv

-----------------------------------------------------------------------------
(***************************************************************************)
(* Identifiers.                                                            *)
(***************************************************************************)

\* A nonempty set of naturals has a least element.
LEMMA Least ==
    ASSUME NEW T, T \subseteq Nat, T # {}
    PROVE  \E x \in T : \A y \in T : x <= y
<1>1. PICK x \in T : \A y \in T : ~(<<y, x>> \in OpToRel(<, Nat))
  BY NatLessThanWellFounded, WFMin
<1>2. \A y \in T : x <= y
  <2> TAKE y \in T
  <2>1. ~(<<y, x>> \in OpToRel(<, Nat))
    BY <1>1
  <2>2. x \in Nat /\ y \in Nat
    OBVIOUS
  <2>3. ~(y < x)
    BY <2>1, <2>2 DEF OpToRel
  <2> QED
    BY <2>2, <2>3
<1> QED
  BY <1>2

\* There are as many identifiers as futures, so one is free for a future that
\* has none (the loop in WakerRegistry::register ends).
LEMMA SomeFree ==
    ASSUME IInv, NEW f \in Futures, id[f] = None
    PROVE  Free # {}
<1> SUFFICES ASSUME Free = {} PROVE FALSE
  OBVIOUS
<1> DEFINE owner == [i \in Ids |-> wakers[i][1]]
<1>1. \A i \in Ids : /\ wakers[i] # None
                     /\ wakers[i][1] \in Futures
                     /\ id[wakers[i][1]] = i
  BY DEF Free, IInv, TypeOK, Entry, RegistryInv
<1>2. \A i \in Ids : wakers[i][1] # f
  BY <1>1, NoneAssumption
<1>3. owner \in [Ids -> Futures \ {f}]
  BY <1>1, <1>2
<1>4. IsFiniteSet(Ids) /\ Cardinality(Ids) = IdCount
  <2>1. 0 \in Int /\ IdCount - 1 \in Int /\ ~(0 > IdCount - 1)
    BY IdsAssumption
  <2> QED
    BY <2>1, FS_Interval, IdsAssumption DEF Ids
<1>5. /\ IsFiniteSet(Futures \ {f})
      /\ Cardinality(Futures \ {f}) = Cardinality(Futures) - 1
      /\ Cardinality(Futures) \in Nat
  BY IdsAssumption, FS_RemoveElement, FS_CardinalityType
<1>6. Cardinality(Futures \ {f}) < Cardinality(Ids)
  BY <1>4, <1>5, IdsAssumption
<1>7. \A x, y \in Ids : owner[x] = owner[y] => x = y
  BY <1>1
<1> DEFINE others == Futures \ {f}
<1> HIDE DEF owner, others
<1>8. owner \in [Ids -> others] /\ IsFiniteSet(Ids) /\ IsFiniteSet(others)
        /\ Cardinality(others) < Cardinality(Ids)
  BY <1>3, <1>4, <1>5, <1>6 DEF others
<1>9. \E x, y \in Ids : x # y /\ owner[x] = owner[y]
  BY ONLY <1>8, FS_PigeonHole, Zenon
<1> QED
  BY <1>7, <1>9

\* The identifier register uses is the future's own or one nobody holds.
LEMMA RegistrationIdFresh ==
    ASSUME IInv, NEW f \in Futures
    PROVE  /\ RegistrationId(f) \in Ids
           /\ id[f] = None => wakers[RegistrationId(f)] = None
           /\ id[f] # None => RegistrationId(f) = id[f]
<1>1. CASE id[f] # None
  BY <1>1 DEF RegistrationId, IInv, TypeOK
<1>2. CASE id[f] = None
  <2> DEFINE T == {Distance(i) : i \in Free}
  <2>1. T \subseteq Nat
    BY IdsAssumption DEF Distance, Free, Ids, IInv, TypeOK
  <2>2. T # {}
    BY <1>2, SomeFree
  <2>3. PICK d \in T : \A e \in T : d <= e
    BY <2>1, <2>2, Least
  <2>4. \E i \in Free : \A j \in Free : Distance(i) <= Distance(j)
    BY <2>3
  <2>5. RegistrationId(f) \in Free
    BY <1>2, <2>4 DEF RegistrationId
  <2> QED
    BY <1>2, <2>5 DEF Free
<1> QED
  BY <1>1, <1>2

\* next_id wraps around inside the range of identifiers.
LEMMA NextIdTyped == \A i \in Ids : NextId(i) \in Ids
BY IdsAssumption DEF NextId, Ids

-----------------------------------------------------------------------------
(***************************************************************************)
(* The invariant is inductive.                                             *)
(***************************************************************************)

\* A new token satisfies the invariant.
LEMMA InitIInv == Init => IInv
<1> SUFFICES ASSUME Init PROVE IInv
  OBVIOUS
<1>1. 0 \in Ids
  BY IdsAssumption DEF Ids
<1>2. TypeOK
  BY <1>1 DEF Init, TypeOK
<1>3. CancellersInv /\ DrainInv
  BY DEF Init, CancellersInv, DrainInv
<1>4. RegistryInv
  BY DEF Init, RegistryInv
<1> QED
  BY <1>2, <1>3, <1>4 DEF IInv

\* The steps of a cancelling thread keep the invariant.
LEMMA CancellingStep ==
    ASSUME IInv, NEW c \in Cancellers, Cancelling(c)
    PROVE  IInv'
<1>1. CASE Swap(c)
  BY <1>1 DEF Swap, IInv, TypeOK, CancellersInv, DrainInv, RegistryInv
<1>2. CASE Drain(c)
  <2>1. TypeOK'
    BY <1>2, NoneAssumption DEF Drain, IInv, TypeOK
  <2>2. CancellersInv' /\ DrainInv'
    BY <1>2 DEF Drain, IInv, TypeOK, CancellersInv, DrainInv
  <2>3. RegistryInv'
    BY <1>2 DEF Drain, IInv, TypeOK, CancellersInv, RegistryInv
  <2> QED
    BY <2>1, <2>2, <2>3 DEF IInv
<1>3. CASE Wake(c)
  <2>1. PICK entry \in batch[c] :
           /\ batch' = [batch EXCEPT ![c] = @ \ {entry}]
           /\ woken' = IF waker[entry[1]] = entry[2]
                       THEN woken \union {entry[1]} ELSE woken
    BY <1>3 DEF Wake
  <2>2. entry[1] \in Futures
    BY DEF IInv, TypeOK, Entry
  <2>3. TypeOK'
    BY <1>3, <2>1, <2>2 DEF Wake, IInv, TypeOK
  <2>4. CancellersInv' /\ DrainInv' /\ RegistryInv'
    BY <1>3, <2>1 DEF Wake, IInv, TypeOK, CancellersInv, DrainInv, RegistryInv
  <2> QED
    BY <2>3, <2>4 DEF IInv
<1>4. CASE WakePanics(c) \/ Return(c)
  BY <1>4 DEF WakePanics, Return, IInv, TypeOK, CancellersInv, DrainInv, RegistryInv
<1> QED
  BY <1>1, <1>2, <1>3, <1>4 DEF Cancelling

\* Registration keeps the invariant: without a request the entry is added
\* under a fresh identifier or the future's own, after one it is taken back.
LEMMA RegisterStep ==
    ASSUME IInv, NEW f \in Futures, Register(f)
    PROVE  IInv'
<1> DEFINE i == RegistrationId(f)
<1>1. /\ i \in Ids
      /\ id[f] = None => wakers[i] = None
      /\ id[f] # None => i = id[f]
  BY RegistrationIdFresh
<1>2. NextId(i) \in Ids
  BY <1>1, NextIdTyped
<1>3. /\ state[f] = "polling"
      /\ next_id' = IF id[f] = None THEN NextId(i) ELSE next_id
      /\ wakers' = [wakers EXCEPT ![i] = IF cancelled THEN None ELSE <<f, waker[f]>>]
      /\ id' = [id EXCEPT ![f] = IF cancelled THEN None ELSE i]
      /\ state' = [state EXCEPT ![f] = IF cancelled THEN "ready" ELSE "pending"]
      /\ UNCHANGED <<cancelled, waker, woken, pc, batch>>
  BY DEF Register
<1>4. waker[f] \in Wakers /\ <<f, waker[f]>> \in Entry /\ <<f, waker[f]>> # None
  BY <1>3, NoneAssumption DEF IInv, TypeOK, RegistryInv, Entry
<1> HIDE DEF i
<1>5. TypeOK'
  BY <1>1, <1>2, <1>3, <1>4 DEF IInv, TypeOK
<1>6. CancellersInv' /\ DrainInv'
  BY <1>1, <1>3 DEF IInv, TypeOK, CancellersInv, DrainInv
<1>7. RegistryInv'
  <2>1. CASE cancelled
    BY <1>1, <1>3, <2>1, NoneAssumption DEF IInv, TypeOK, RegistryInv, Entry
  <2>2. CASE ~cancelled
    BY <1>1, <1>3, <1>4, <2>2, NoneAssumption DEF IInv, TypeOK, RegistryInv, Entry
  <2> QED
    BY <2>1, <2>2
<1> QED
  BY <1>5, <1>6, <1>7 DEF IInv

\* The other steps of a future keep the invariant.
LEMMA FutureStep ==
    ASSUME IInv, NEW f \in Futures,
           Create(f) \/ Drop(f) \/ \E w \in Wakers : Poll(f, w)
    PROVE  IInv'
<1>1. CASE Create(f)
  BY <1>1 DEF Create, IInv, TypeOK, CancellersInv, DrainInv, RegistryInv
<1>2. ASSUME NEW w \in Wakers, Poll(f, w)
      PROVE  IInv'
  BY <1>2, NoneAssumption
  DEF Poll, IInv, TypeOK, CancellersInv, DrainInv, RegistryInv
<1>3. CASE Drop(f)
  <2>1. TypeOK'
    BY <1>3 DEF Drop, Unregistered, IInv, TypeOK
  <2>2. CancellersInv' /\ DrainInv'
    BY <1>3 DEF Drop, Unregistered, IInv, TypeOK, CancellersInv, DrainInv
  <2>3. RegistryInv'
    BY <1>3, NoneAssumption DEF Drop, Unregistered, IInv, TypeOK, RegistryInv, Entry
  <2> QED
    BY <2>1, <2>2, <2>3 DEF IInv
<1> QED
  BY <1>1, <1>2, <1>3

\* Every step keeps the invariant.
LEMMA NextIInv == IInv /\ [Next]_vars => IInv'
<1> SUFFICES ASSUME IInv, [Next]_vars PROVE IInv'
  OBVIOUS
<1>1. CASE Next
  BY <1>1, CancellingStep, RegisterStep, FutureStep DEF Next, Waiting
<1>2. CASE UNCHANGED vars
  BY <1>2 DEF vars, IInv, TypeOK, CancellersInv, DrainInv, RegistryInv
<1> QED
  BY <1>1, <1>2

\* The inductive invariant holds in every reachable state.
THEOREM Invariance == Spec => []IInv
BY InitIInv, NextIInv, PTL DEF Spec

\* Identifiers, entries and batches keep their types for every size of the
\* identifier range.
THEOREM TypeCorrect == Spec => []TypeOK
<1>1. IInv => TypeOK
  BY DEF IInv
<1> QED
  BY <1>1, Invariance, PTL

\* The registry holds exactly the waiting futures, whatever the order in which
\* they register, are dropped and wrap around the identifiers.
THEOREM RegistryTheorem == Spec => []RegistryExact
<1>1. IInv => RegistryExact
  <2> SUFFICES ASSUME IInv PROVE RegistryExact
    OBVIOUS
  <2>1. ASSUME NEW i \in Ids, wakers[i] # None
        PROVE  /\ wakers[i][1] \in Futures
               /\ id[wakers[i][1]] = i
               /\ i # None
    BY <2>1, NoneAssumption DEF IInv, TypeOK, RegistryInv, Entry
  <2>2. DrainedForGood
    BY DEF IInv, DrainInv, DrainedForGood
  <2> QED
    BY <2>1, <2>2 DEF IInv, RegistryInv, RegistryExact
<1> QED
  BY <1>1, Invariance, PTL

\* Once the waiters have been drained nobody registers again.
THEOREM DrainedTheorem == Spec => []DrainedForGood
<1>1. IInv => DrainedForGood
  BY DEF IInv, DrainInv, DrainedForGood
<1> QED
  BY <1>1, Invariance, PTL

-----------------------------------------------------------------------------
(***************************************************************************)
(* No wakeup is lost.                                                      *)
(***************************************************************************)

\* A pending future's entry is not the mark of a free identifier.
LEMMA PendingEntry ==
    ASSUME IInv, NEW f \in Futures, state[f] = "pending"
    PROVE  <<f, waker[f]>> # None
<1>1. waker[f] \in Wakers
  BY DEF IInv, TypeOK, RegistryInv
<1>2. <<f, waker[f]>> \in Entry
  BY <1>1 DEF Entry
<1> QED
  BY <1>2, NoneAssumption

\* The steps other than a waker that unwinds.
CalmNext ==
    \/ \E c \in Cancellers : Swap(c) \/ Drain(c) \/ Wake(c) \/ Return(c)
    \/ \E f \in Futures : Waiting(f)

\* If no waker unwinds, every step keeps a cancelled future's wakeup in the
\* registry, in the batch or delivered.
LEMMA WakeupStep ==
    ASSUME IInv, IInv', NoLostWakeup, [CalmNext]_vars
    PROVE  NoLostWakeup'
<1>1. ASSUME NEW c \in Cancellers, Swap(c)
      PROVE  NoLostWakeup'
  <2>1. CASE cancelled
    BY <1>1, <2>1 DEF Swap, IInv, TypeOK, NoLostWakeup
  <2>2. CASE ~cancelled
    <3>1. pc'[c] = "drain" /\ UNCHANGED <<wakers, state, waker, id>>
      BY <1>1, <2>2 DEF Swap, IInv, TypeOK
    <3>2. \A f \in Futures : state[f] = "pending" =>
             id[f] \in Ids /\ wakers[id[f]] = <<f, waker[f]>>
      BY <2>2 DEF IInv, TypeOK, RegistryInv
    <3> QED
      BY <3>1, <3>2 DEF NoLostWakeup
  <2> QED
    BY <2>1, <2>2
<1>2. ASSUME NEW c \in Cancellers, Drain(c)
      PROVE  NoLostWakeup'
  <2>1. \A f \in Futures : state[f] = "pending" => <<f, waker[f]>> # None
    BY PendingEntry
  <2>2. /\ batch'[c] = {wakers[i] : i \in Ids} \ {None}
        /\ \A b \in Cancellers : batch[b] \subseteq batch'[b]
        /\ UNCHANGED <<cancelled, state, waker, woken>>
    BY <1>2 DEF Drain, IInv, TypeOK, CancellersInv
  <2>3. SUFFICES ASSUME NEW f \in Futures, state[f] = "pending", cancelled
        PROVE  \/ f \in woken
               \/ \E b \in Cancellers : <<f, waker[f]>> \in batch'[b]
    BY <2>2 DEF NoLostWakeup
  <2>4. CASE \E i \in Ids : wakers[i] = <<f, waker[f]>>
    BY <2>1, <2>2, <2>3, <2>4
  <2>5. CASE ~\E i \in Ids : wakers[i] = <<f, waker[f]>>
    BY <2>2, <2>3, <2>5 DEF NoLostWakeup
  <2> QED
    BY <2>4, <2>5
<1>3. ASSUME NEW c \in Cancellers, Wake(c)
      PROVE  NoLostWakeup'
  <2>1. PICK entry \in batch[c] :
           /\ batch' = [batch EXCEPT ![c] = @ \ {entry}]
           /\ woken' = IF waker[entry[1]] = entry[2]
                       THEN woken \union {entry[1]} ELSE woken
    BY <1>3 DEF Wake
  <2>2. UNCHANGED <<cancelled, wakers, state, waker, pc>>
    BY <1>3 DEF Wake
  <2>3. SUFFICES ASSUME NEW f \in Futures, state[f] = "pending", cancelled
        PROVE  \/ f \in woken'
               \/ \E b \in Cancellers : <<f, waker[f]>> \in batch'[b]
               \/ /\ \E b \in Cancellers : pc[b] = "drain"
                  /\ \E i \in Ids : wakers[i] = <<f, waker[f]>>
    BY <2>2 DEF NoLostWakeup
  <2>4. CASE entry = <<f, waker[f]>>
    BY <2>1, <2>4
  <2>5. CASE entry # <<f, waker[f]>>
    <3>1. woken \subseteq woken'
      BY <2>1
    <3>2. \A b \in Cancellers : <<f, waker[f]>> \in batch[b] =>
             <<f, waker[f]>> \in batch'[b]
      BY <2>1, <2>5 DEF IInv, TypeOK
    <3> QED
      BY <2>3, <3>1, <3>2 DEF NoLostWakeup
  <2> QED
    BY <2>4, <2>5
<1>4. ASSUME NEW c \in Cancellers, Return(c)
      PROVE  NoLostWakeup'
  BY <1>4 DEF Return, IInv, TypeOK, NoLostWakeup
<1>5. ASSUME NEW g \in Futures, Create(g) \/ \E w \in Wakers : Poll(g, w)
      PROVE  NoLostWakeup'
  BY <1>5 DEF Create, Poll, IInv, TypeOK, NoLostWakeup
<1>6. ASSUME NEW g \in Futures, Register(g) \/ Drop(g)
      PROVE  NoLostWakeup'
  <2>1. CASE ~cancelled
    BY <1>6, <2>1 DEF Register, Drop, NoLostWakeup
  <2>2. CASE cancelled
    <3>1. \A f \in Futures : f # g => state'[f] = state[f]
      BY <1>6 DEF Register, Drop, IInv, TypeOK
    <3>2. state'[g] # "pending"
      BY <1>6, <2>2 DEF Register, Drop, IInv, TypeOK
    <3>3. UNCHANGED <<cancelled, waker, woken, pc, batch>>
      BY <1>6 DEF Register, Drop
    <3>4. ASSUME NEW f \in Futures, f # g, NEW i \in Ids, wakers[i] = <<f, waker[f]>>,
                 state[f] = "pending"
          PROVE  wakers'[i] = wakers[i]
      <4>1. wakers[i] # None /\ id[f] = i
        <5>1. wakers[i] # None
          BY <3>4, PendingEntry
        <5>2. wakers[i][1] = f
          BY <3>4
        <5> QED
          BY <5>1, <5>2 DEF IInv, RegistryInv
      <4>2. id[g] # i
        BY <3>4, <4>1, NoneAssumption DEF IInv, TypeOK, RegistryInv
      <4>3. RegistrationId(g) # i
        BY <4>1, <4>2, RegistrationIdFresh
      <4> QED
        BY <1>6, <4>2, <4>3 DEF Register, Drop, Unregistered, IInv, TypeOK
    <3> QED
      BY <2>2, <3>1, <3>2, <3>3, <3>4 DEF NoLostWakeup
  <2> QED
    BY <2>1, <2>2
<1>7. CASE UNCHANGED vars
  BY <1>7 DEF vars, NoLostWakeup
<1> QED
  BY <1>1, <1>2, <1>3, <1>4, <1>5, <1>6, <1>7 DEF CalmNext, Waiting

\* No request to cancel is lost between a future's poll and the cancelling
\* thread, for any number of either.
THEOREM WakeupTheorem ==
    ASSUME ~WakersMayPanic
    PROVE  Spec => []NoLostWakeup
<1>1. Init => NoLostWakeup
  BY DEF Init, NoLostWakeup
<1>2. Next => CalmNext
  BY DEF Next, CalmNext, Cancelling, WakePanics
<1>3. IInv /\ IInv' /\ NoLostWakeup /\ [Next]_vars => NoLostWakeup'
  BY <1>2, WakeupStep
<1> QED
  BY <1>1, <1>3, Invariance, PTL DEF Spec

-----------------------------------------------------------------------------
(***************************************************************************)
(* The token is a latch.                                                   *)
(***************************************************************************)

\* A step of the token that changes one future's state, and nothing the latch
\* sees of the others, changes that future's outcome only.
LEMMA OneOutcome ==
    ASSUME IInv, NEW f \in Futures, NEW s,
           state' = [state EXCEPT ![f] = s],
           woken' = woken \/ woken' = woken \ {f}, UNCHANGED <<cancelled, pc>>
    PROVE  Latch!Becomes(f, Outcome(f)')
<1> DEFINE out == [g \in Futures |-> Outcome(g)]
<1>1. \A g \in Futures \ {f} : Outcome(g)' = Outcome(g)
  BY DEF IInv, TypeOK, Outcome
<1>2. out' = [out EXCEPT ![f] = Outcome(f)']
  BY <1>1
<1>3. UNCHANGED Unwound
  BY DEF Unwound
<1> QED
  BY <1>2, <1>3 DEF Latch!Becomes

\* A future's step is the latch's: it is made, polled, comes to wait, resolves
\* or is dropped.
LEMMA LatchFutureStep ==
    ASSUME IInv, NEW f \in Futures, Waiting(f)
    PROVE  \/ Latch!Create(f) \/ Latch!Poll(f) \/ Latch!Wait(f)
           \/ Latch!Resolve(f) \/ Latch!Drop(f)
<1>1. CASE Create(f)
  <2>1. Outcome(f) = "dropped" /\ Outcome(f)' = "open"
    BY <1>1 DEF Create, Outcome, IInv, TypeOK
  <2>2. Latch!Becomes(f, "open")
    BY <1>1, <2>1, OneOutcome DEF Create
  <2> QED
    BY <2>1, <2>2 DEF Latch!Create
<1>2. CASE Drop(f)
  <2>1. Outcome(f) # "dropped" /\ Outcome(f)' = "dropped"
    BY <1>2 DEF Drop, Outcome, IInv, TypeOK
  <2>2. Latch!Becomes(f, "dropped")
    BY <1>2, <2>1, OneOutcome DEF Drop
  <2> QED
    BY <2>1, <2>2 DEF Latch!Drop
<1>3. ASSUME NEW w \in Wakers, Poll(f, w)
      PROVE  Latch!Poll(f) \/ Latch!Resolve(f)
  <2>1. Latch!Becomes(f, Outcome(f)')
    BY <1>3, OneOutcome DEF Poll
  <2>2. CASE cancelled
    <3>1. /\ Outcome(f) \in {"open", "waiting", "notified"}
          /\ Outcome(f)' = "ready"
      BY <1>3, <2>2 DEF Poll, Outcome, IInv, TypeOK
    <3> QED
      BY <2>1, <2>2, <3>1 DEF Latch!Resolve
  <2>3. CASE ~cancelled
    <3>1. Outcome(f) \in {"open", "waiting"} /\ Outcome(f)' = "polled"
      BY <1>3, <2>3 DEF Poll, Outcome, IInv, TypeOK, CancellersInv
    <3> QED
      BY <2>1, <2>3, <3>1 DEF Latch!Poll
  <2> QED
    BY <2>2, <2>3
<1>4. CASE Register(f)
  <2>1. Latch!Becomes(f, Outcome(f)')
    BY <1>4, OneOutcome DEF Register
  <2>2. CASE cancelled
    <3>1. Outcome(f) = "polled" /\ Outcome(f)' = "ready"
      BY <1>4, <2>2 DEF Register, Outcome, IInv, TypeOK
    <3> QED
      BY <2>1, <2>2, <3>1 DEF Latch!Resolve
  <2>3. CASE ~cancelled
    <3>1. Outcome(f) = "polled" /\ Outcome(f)' = "waiting"
      BY <1>4, <2>3 DEF Register, Outcome, IInv, TypeOK, CancellersInv
    <3> QED
      BY <2>1, <2>3, <3>1 DEF Latch!Wait
  <2> QED
    BY <2>2, <2>3
<1> QED
  BY <1>1, <1>2, <1>3, <1>4 DEF Waiting

\* A waker that is invoked notifies its future, if that future waits with it.
LEMMA LatchWakeStep ==
    ASSUME IInv, NEW c \in Cancellers, Wake(c)
    PROVE  (\E f \in Futures : Latch!Notify(f)) \/ UNCHANGED Latch!vars
<1> DEFINE out == [g \in Futures |-> Outcome(g)]
<1>1. PICK entry \in batch[c] :
           woken' = IF waker[entry[1]] = entry[2]
                    THEN woken \union {entry[1]} ELSE woken
  BY DEF Wake
<1> DEFINE f == entry[1]
<1>2. f \in Futures
  BY DEF IInv, TypeOK, Entry
<1>3. cancelled /\ UNCHANGED <<cancelled, state, pc, Unwound>>
  BY DEF Wake, IInv, CancellersInv, Unwound
<1>4. \A g \in Futures \ {f} : Outcome(g)' = Outcome(g)
  BY <1>1, <1>3 DEF Outcome
<1> HIDE DEF f
<1>5. CASE Outcome(f)' = Outcome(f)
  <2>1. out' = out
    BY <1>4, <1>5
  <2> QED
    BY <1>3, <2>1 DEF Latch!vars
<1>6. CASE Outcome(f)' # Outcome(f)
  <2>1. Outcome(f) = "waiting" /\ Outcome(f)' = "notified"
    BY <1>1, <1>3, <1>6 DEF Outcome, f
  <2>2. out' = [out EXCEPT ![f] = "notified"]
    BY <1>2, <1>4, <2>1
  <2> QED
    BY <1>2, <1>3, <2>1, <2>2 DEF Latch!Notify, Latch!Becomes
<1> QED
  BY <1>5, <1>6

\* Every step of the token is a step of the latch or leaves it alone.
LEMMA LatchStep ==
    ASSUME IInv, [Next]_vars
    PROVE  [Latch!Next]_(Latch!vars)
<1>1. ASSUME NEW c \in Cancellers, Cancelling(c)
      PROVE  [Latch!Next]_(Latch!vars)
  <2>1. CASE Swap(c)
    BY <2>1 DEF Swap, Latch!Cancel, Latch!Next, Latch!vars, IInv, TypeOK, Outcome, Unwound
  <2>2. CASE Drain(c) \/ Return(c)
    BY <2>2 DEF Drain, Return, Latch!vars, IInv, TypeOK, Outcome, Unwound
  <2>3. CASE Wake(c)
    BY <2>3, LatchWakeStep DEF Latch!Next
  <2>4. CASE WakePanics(c)
    BY <2>4 DEF WakePanics, Latch!Unwind, Latch!Next, Latch!vars, IInv, TypeOK,
                CancellersInv, Outcome, Unwound
  <2> QED
    BY <1>1, <2>1, <2>2, <2>3, <2>4 DEF Cancelling
<1>2. ASSUME NEW f \in Futures, Waiting(f)
      PROVE  Latch!Next
  BY <1>2, LatchFutureStep DEF Latch!Next
<1>3. CASE UNCHANGED vars
  BY <1>3 DEF vars, Latch!vars, Outcome, Unwound
<1> QED
  BY <1>1, <1>2, <1>3 DEF Next

\* The token, its registry and its futures take only steps of the latch of
\* CancellationLatch: no future resolves and no task is notified before the
\* first request, a future comes to wait only before it, and the latch never
\* reopens.
THEOREM LatchTheorem == Spec => Latch!Safety
<1>1. Init => Latch!Init
  BY DEF Init, Latch!Init, Outcome, Unwound
<1>2. IInv /\ [Next]_vars => [Latch!Next]_(Latch!vars)
  BY LatchStep
<1> QED
  BY <1>1, <1>2, Invariance, PTL DEF Spec, Latch!Safety

-----------------------------------------------------------------------------
(***************************************************************************)
(* The waits.                                                              *)
(***************************************************************************)

\* Places before a timer or a future exists.
Unarmed == {"idle", "check", "arm", "refused", "yield", "yielded"}

\* The flow waits for its own wakeup after an immediate retry.
Yielding(f) == at[f] = "parked" /\ wait[f].immediate

\* Flow f's future has been polled with the waker of this round.
TokenPolled(f) ==
    /\ wait[f].token /\ ~wait[f].immediate
    /\ \/ at[f] \in {"timer", "parked"}
       \/ at[f] = "token" /\ state[f] = "polling"

\* Which future and sources exist in which place.
Places(f) ==
    /\ ~wait[f].token \/ at[f] \in Unarmed \/ Yielding(f) => state[f] = "dropped"
    /\ wait[f].token =>
          /\ at[f] = "operation" => state[f] \in {"new", "pending"}
          /\ at[f] = "token" => state[f] \in {"new", "pending", "polling"}
          /\ at[f] = "timer" \/ (at[f] = "parked" /\ ~wait[f].immediate) =>
                state[f] = "pending"
    /\ at[f] \in Unarmed \/ Yielding(f) => source[f] = NoSources
    /\ wait[f].kind # "attempt" => source[f]["operation"].state = "none"
    /\ at[f] = "operation" => wait[f].kind = "attempt"
    /\ at[f] \in Unarmed \ {"idle"} => wait[f].kind # "attempt"
    /\ at[f] \in {"arm", "refused", "operation", "token", "timer"} =>
          ~wait[f].immediate
    /\ at[f] \in {"yield", "yielded"} \/ Yielding(f) =>
          wait[f].immediate /\ wait[f].kind = "sleep"
    /\ at[f] # "idle" => task[f] \in Wakers

\* What the current round of polls has established.
Rounds(f) ==
    /\ begun[f].cancelled => cancelled /\ wait[f].token
    /\ at[f] \notin {"idle", "leave"} => outcome[f] = None
    /\ begun[f].operation =>
          /\ at[f] = "operation" => source[f]["operation"].state = "ready"
          /\ at[f] \notin {"check", "arm", "refused", "yield", "yielded", "token",
                           "timer"}
    /\ at[f] = "timer" \/ (at[f] = "token" /\ state[f] = "polling") =>
          ~begun[f].cancelled

\* Where the wakeup of each source is: with its waker, or in the inbox.
Wakeups(f) ==
    /\ TokenPolled(f) => /\ waker[f] = task[f]
                         /\ f \in woken => inbox[f] > 0
    /\ Yielding(f) => inbox[f] > 0
    /\ wait[f].kind = "attempt" /\ at[f] \in {"token", "timer", "parked"} =>
          \/ source[f]["operation"].waker = task[f]
          \/ source[f]["operation"].state \in {"ready", "failed"} /\ inbox[f] > 0
    /\ at[f] = "parked" /\ ~wait[f].immediate =>
          \/ source[f]["timer"].state = "none"
          \/ source[f]["timer"].waker = task[f]
          \/ source[f]["timer"].state \in {"ready", "failed"} /\ inbox[f] > 0

Local(f) == Places(f) /\ Rounds(f) /\ Wakeups(f)

\* The inductive invariant.
WaitIInv == /\ IInv /\ NoLostWakeup /\ WaitTypeOK /\ OutcomeOrder
            /\ \A f \in Futures : Local(f)

-----------------------------------------------------------------------------
(***************************************************************************)
(* What the invariant says about the properties.                           *)
(***************************************************************************)

\* A flow outside a wait has no future, hence no entry in the registry.
LEMMA IdleUnregistered ==
    ASSUME WaitIInv
    PROVE  NothingLeftRegistered
<1> SUFFICES ASSUME NEW f \in Futures, at[f] = "idle", NEW i \in Ids,
                    wakers[i] # None, wakers[i][1] = f
             PROVE  FALSE
  BY DEF NothingLeftRegistered
<1>1. state[f] = "dropped"
  BY DEF WaitIInv, Local, Places, Unarmed
<1>2. id[f] = i /\ i # None
  BY NoneAssumption DEF WaitIInv, IInv, RegistryInv
<1> QED
  BY <1>1, <1>2 DEF WaitIInv, IInv, RegistryInv

\* A parked flow with something to see has a wakeup in its inbox or on the way.
LEMMA ParkedWoken ==
    ASSUME WaitIInv
    PROVE  NoMissedWakeup
<1> SUFFICES ASSUME NEW f \in Futures, at[f] = "parked", inbox[f] <= 0,
                    \/ Cancelled(f)
                    \/ \E s \in Sources : source[f][s].state \in {"ready", "failed"}
             PROVE  Coming(f, task[f])
  <2>1. \A f \in Futures : inbox[f] \in Int
    BY DEF WaitIInv, WaitTypeOK
  <2> QED
    BY <2>1 DEF NoMissedWakeup
<1>1. Local(f) /\ inbox[f] \in Nat /\ ~(inbox[f] > 0)
  BY DEF WaitIInv, WaitTypeOK
<1>2. ~wait[f].immediate
  BY <1>1 DEF Local, Wakeups, Yielding
<1>3. CASE Cancelled(f)
  <2>1. cancelled /\ wait[f].token /\ TokenPolled(f)
    BY <1>2, <1>3 DEF Cancelled, TokenPolled
  <2>2. state[f] = "pending" /\ waker[f] = task[f] /\ f \notin woken
    BY <1>1, <1>2, <2>1 DEF Local, Places, Wakeups
  <2> QED
    BY <2>1, <2>2 DEF WaitIInv, NoLostWakeup, Coming
<1>4. CASE source[f]["timer"].state \in {"ready", "failed"}
  <2>1. source[f]["timer"].waker = task[f]
    BY <1>1, <1>2, <1>4 DEF Local, Wakeups
  <2> QED
    BY <1>4, <2>1 DEF Coming, Sources
<1>5. CASE source[f]["operation"].state \in {"ready", "failed"}
  <2>1. wait[f].kind = "attempt"
    BY <1>1, <1>5 DEF Local, Places
  <2>2. source[f]["operation"].waker = task[f]
    BY <1>1, <2>1 DEF Local, Wakeups
  <2> QED
    BY <1>5, <2>2 DEF Coming, Sources
<1> QED
  BY <1>3, <1>4, <1>5 DEF Sources

-----------------------------------------------------------------------------
(***************************************************************************)
(* The invariant is inductive.  The token's part comes from the theorems   *)
(* above: every step of a wait is one of the token's or leaves the token   *)
(* alone.                                                                  *)
(***************************************************************************)

\* A wait uses the token only through its operations.
LEMMA TokenStep ==
    ASSUME WaitIInv, [WaitNext]_allVars
    PROVE  [CalmNext]_vars
<1>1. ASSUME NEW f \in Futures, NEW a \in Waits, Enter(f, a)
      PROVE  [CalmNext]_vars
  BY <1>1 DEF Enter, NewFuture, CalmNext, Waiting
<1>2. ASSUME NEW f \in Futures, Running(f) \/ Resume(f) \/ Abandon(f)
      PROVE  [CalmNext]_vars
  <2>1. at[f] # "idle" => task[f] \in Wakers
    BY DEF WaitIInv, Local, Places
  <2>2. ASSUME PollToken(f) PROVE [CalmNext]_vars
    BY <2>1, <2>2 DEF PollToken, CalmNext, Waiting
  <2> QED
    BY <1>2, <2>2
    DEF Running, Check, YieldOnce, Recheck, Arm, ArmFails, PollOperation, PollTimer,
        Leave, Resume, Abandon, NewFuture, CalmNext, Waiting
<1>3. ASSUME NEW f \in Futures, NEW s \in Sources, BecomeReady(f, s) \/ Notify(f, s)
      PROVE  [CalmNext]_vars
  BY <1>3 DEF BecomeReady, Notify
<1>4. ASSUME NEW c \in Cancellers, CancelStep(c)
      PROVE  [CalmNext]_vars
  BY <1>4 DEF CancelStep, CalmNext
<1> QED
  BY <1>1, <1>2, <1>3, <1>4 DEF WaitNext, allVars

\* The token's invariants are kept by the waits.
LEMMA TokenInvariants ==
    ASSUME WaitIInv, [WaitNext]_allVars
    PROVE  IInv' /\ NoLostWakeup' /\ (cancelled => cancelled')
<1>1. [CalmNext]_vars
  BY TokenStep
<1>2. [Next]_vars
  BY <1>1 DEF CalmNext, Next, Cancelling
<1>3. IInv'
  BY <1>2, NextIInv DEF WaitIInv
<1>4. NoLostWakeup'
  BY <1>1, <1>3, WakeupStep DEF WaitIInv
<1>5. cancelled => cancelled'
  BY <1>1 DEF CalmNext, Swap, Drain, Wake, Return, Waiting, Create, Poll, Register,
              Drop, vars
<1> QED
  BY <1>3, <1>4, <1>5

\* A step of another flow, or of a cancelling thread, leaves a flow's invariant
\* alone: a wakeup that counts as delivered is in the inbox.
LEMMA Frame ==
    ASSUME WaitIInv, NEW f \in Futures,
           wait'[f] = wait[f], at'[f] = at[f], task'[f] = task[f],
           source'[f] = source[f], begun'[f] = begun[f], outcome'[f] = outcome[f],
           state'[f] = state[f], waker'[f] = waker[f], cancelled => cancelled',
           inbox'[f] \in Nat, inbox'[f] >= inbox[f],
           TokenPolled(f) /\ f \in woken' => f \in woken \/ inbox'[f] > 0
    PROVE  Local(f)'
<1>1. Local(f) /\ inbox[f] \in Nat
  BY DEF WaitIInv, WaitTypeOK
<1>2. Places(f)'
  BY <1>1 DEF Local, Places, Yielding
<1>3. Rounds(f)'
  BY <1>1 DEF Local, Rounds
<1>4. Wakeups(f)'
  BY <1>1 DEF Local, Wakeups, TokenPolled, Yielding
<1> QED
  BY <1>2, <1>3, <1>4 DEF Local

\* A polled source keeps its state and remembers the waker of this round; the
\* other source is left alone.
LEMMA PolledSource ==
    ASSUME WaitTypeOK, NEW f \in Futures, NEW s \in Sources
    PROVE  /\ Polled(f, s)[f][s].waker = task[f]
           /\ Polled(f, s)[f][s].state = source[f][s].state
           /\ \A r \in Sources \ {s} : Polled(f, s)[f][r] = source[f][r]
           /\ \A g \in Futures \ {f} : Polled(f, s)[g] = source[g]
BY DEF WaitTypeOK, Polled

\* What a change of one field of one source leaves alone.
LEMMA ChangedSource ==
    ASSUME WaitTypeOK, NEW f \in Futures, NEW s \in Sources
    PROVE  /\ \A r \in {"ready", "failed"} :
                 LET new == [source EXCEPT ![f][s].state = r][f]
                 IN  /\ new[s].state = r /\ new[s].waker = source[f][s].waker
                     /\ \A q \in Sources \ {s} : new[q] = source[f][q]
           /\ LET new == [source EXCEPT ![f][s].waker = None][f]
              IN  /\ new[s].state = source[f][s].state
                  /\ \A q \in Sources \ {s} : new[q] = source[f][q]
<1>1. source[f][s] \in SourceState /\ source \in [Futures -> [Sources -> SourceState]]
  BY DEF WaitTypeOK
<1>2. ASSUME NEW r \in {"ready", "failed"}
      PROVE  /\ [source[f][s] EXCEPT !.state = r].state = r
             /\ [source[f][s] EXCEPT !.state = r].waker = source[f][s].waker
  BY <1>1 DEF SourceState
<1>3. [source[f][s] EXCEPT !.waker = None].state = source[f][s].state
  BY <1>1 DEF SourceState
<1> QED
  BY <1>1, <1>2, <1>3

\* Changing one source of one flow to a typed one keeps the sources typed.
LEMMA SourceTyped ==
    ASSUME WaitTypeOK, NEW f \in Futures, NEW s \in Sources, NEW x \in SourceState
    PROVE  [source EXCEPT ![f][s] = x] \in [Futures -> [Sources -> SourceState]]
BY DEF WaitTypeOK

\* So does changing the state or the waker of one.
LEMMA SourceFieldTyped ==
    ASSUME WaitTypeOK, NEW f \in Futures, NEW s \in Sources
    PROVE  /\ \A r \in {"ready", "failed"} :
                 [source EXCEPT ![f][s].state = r]
                    \in [Futures -> [Sources -> SourceState]]
           /\ \A w \in Wakers \union {None} :
                 [source EXCEPT ![f][s].waker = w]
                    \in [Futures -> [Sources -> SourceState]]
<1>1. source[f][s] \in SourceState /\ source[f] \in [Sources -> SourceState]
  BY DEF WaitTypeOK
<1>2. ASSUME NEW r \in {"ready", "failed"}
      PROVE  [source[f][s] EXCEPT !.state = r] \in SourceState
  BY <1>1, <1>2 DEF SourceState
<1>3. ASSUME NEW w \in Wakers \union {None}
      PROVE  [source[f][s] EXCEPT !.waker = w] \in SourceState
  BY <1>1, <1>3 DEF SourceState
<1> QED
  BY <1>1, <1>2, <1>3 DEF WaitTypeOK

\* The variables of the waits keep their types.
LEMMA WaitTypeStep ==
    ASSUME WaitIInv, [WaitNext]_allVars
    PROVE  WaitTypeOK'
<1> DEFINE Moved == at' \in [Futures -> Stages]
           Told == outcome' \in [Futures -> Outcomes \union {None}]
           Sourced == source' \in [Futures -> [Sources -> SourceState]]
           Snapped == begun' \in [Futures -> [cancelled : BOOLEAN, operation : BOOLEAN]]
<1>1. TypeOK'
  BY TokenInvariants DEF IInv
<1>2. WaitTypeOK
  BY DEF WaitIInv
<1>3. /\ \A f \in Futures, p \in Stages : GoTo(f, p) => Moved
      /\ \A f \in Futures, o \in Outcomes : Finish(f, o) => Moved /\ Told
      /\ UNCHANGED at => Moved
      /\ UNCHANGED outcome => Told
      /\ UNCHANGED source => Sourced
      /\ UNCHANGED begun => Snapped
  BY <1>2 DEF WaitTypeOK, GoTo, Finish, Stages
<1>4. ASSUME NEW f \in Futures
      PROVE  Snapshot(f) \in [cancelled : BOOLEAN, operation : BOOLEAN]
  BY <1>2 DEF Snapshot, Cancelled, WaitTypeOK, TypeOK, Waits
<1>5. \A f \in Futures, x \in [Sources -> SourceState] :
         [source EXCEPT ![f] = x] \in [Futures -> [Sources -> SourceState]]
  BY <1>2 DEF WaitTypeOK
<1>6. /\ Source("none", None) \in SourceState
      /\ Source("pending", None) \in SourceState
      /\ NoSources \in [Sources -> SourceState]
  BY DEF Source, SourceState, NoSources
<1>7. ASSUME NEW f \in Futures, NEW a \in Waits, Enter(f, a)
      PROVE  WaitTypeOK'
  <2>1. waits' \in [Futures -> 0 .. MaxWaits]
    <3>1. waits[f] + 1 \in 0 .. MaxWaits
      BY <1>2, <1>7, WaitsAssumption DEF Enter, WaitTypeOK
    <3> QED
      BY <1>2, <1>7, <3>1 DEF Enter, WaitTypeOK
  <2>2. Sourced /\ Moved
    BY <1>3, <1>5, <1>6, <1>7 DEF Enter, Stages
  <2>3. Snapped
    <3>1. (a.token /\ cancelled) \in BOOLEAN
      BY <1>2 DEF WaitTypeOK, TypeOK, Waits
    <3> QED
      BY <1>2, <1>7, <3>1 DEF Enter, WaitTypeOK
  <2>4. /\ wait' \in [Futures -> Waits] /\ task' \in [Futures -> Wakers \union {None}]
        /\ inbox' \in [Futures -> Nat] /\ Told
    BY <1>2, <1>7 DEF Enter, WaitTypeOK
  <2> QED
    BY <1>1, <2>1, <2>2, <2>3, <2>4 DEF WaitTypeOK
<1>8. ASSUME NEW f \in Futures, Check(f)
      PROVE  WaitTypeOK'
  <2>1. Moved /\ Told
    BY <1>3, <1>8 DEF Check, Stages, Outcomes
  <2> QED
    BY <1>1, <1>2, <1>3, <1>8, <2>1 DEF Check, WaitTypeOK
<1>9. ASSUME NEW f \in Futures, YieldOnce(f) \/ Abandon(f)
      PROVE  WaitTypeOK'
  <2>1. Moved
    BY <1>3, <1>9 DEF YieldOnce, Abandon, Stages
  <2>2. inbox' \in [Futures -> Nat]
    <3>1. inbox \in [Futures -> Nat] /\ inbox[f] + 1 \in Nat
      BY <1>2 DEF WaitTypeOK
    <3>2. inbox' = inbox \/ inbox' = [inbox EXCEPT ![f] = inbox[f] + 1]
      BY <1>9 DEF YieldOnce, Abandon
    <3> QED
      BY <3>1, <3>2
  <2> QED
    BY <1>1, <1>2, <1>9, <2>1, <2>2 DEF YieldOnce, Abandon, WaitTypeOK
<1>10. ASSUME NEW f \in Futures, Recheck(f)
       PROVE  WaitTypeOK'
  <2>1. RecheckResult(f) \in Outcomes
    BY DEF RecheckResult, Outcomes
  <2>2. Moved /\ Told
    BY <1>3, <1>10, <2>1 DEF Recheck
  <2> QED
    BY <1>1, <1>2, <1>10, <2>2 DEF Recheck, WaitTypeOK
<1>11. ASSUME NEW f \in Futures, Arm(f) \/ ArmFails(f)
       PROVE  WaitTypeOK'
  <2>1. Moved
    BY <1>3, <1>11 DEF Arm, ArmFails, Stages
  <2>2. Sourced
    BY <1>2, <1>3, <1>6, <1>11, SourceTyped DEF Arm, ArmFails, Sources
  <2>3. Snapped
    BY <1>2, <1>4, <1>11 DEF Arm, ArmFails, WaitTypeOK
  <2> QED
    BY <1>1, <1>2, <1>11, <2>1, <2>2, <2>3 DEF Arm, ArmFails, WaitTypeOK
<1>12. \A f \in Futures, s \in Sources :
          Polled(f, s) \in [Futures -> [Sources -> SourceState]]
  BY <1>2, SourceFieldTyped DEF Polled, WaitTypeOK
<1>13. ASSUME NEW f \in Futures, PollOperation(f)
       PROVE  WaitTypeOK'
  <2>1. Moved /\ Told /\ Sourced
    BY <1>3, <1>12, <1>13 DEF PollOperation, Stages, Outcomes, Sources
  <2> QED
    BY <1>1, <1>2, <1>13, <2>1 DEF PollOperation, WaitTypeOK
<1>14. ASSUME NEW f \in Futures, PollToken(f)
       PROVE  WaitTypeOK'
  <2>1. Moved /\ Told
    BY <1>3, <1>14 DEF PollToken, Stages, Outcomes
  <2> QED
    BY <1>1, <1>2, <1>14, <2>1 DEF PollToken, WaitTypeOK
<1>15. ASSUME NEW f \in Futures, PollTimer(f)
       PROVE  WaitTypeOK'
  <2> DEFINE timer == source[f]["timer"].state
  <2>1. (IF timer = "failed" THEN "TimerFailed"
         ELSE IF wait[f].kind = "attempt" THEN "TimedOut" ELSE "Elapsed") \in Outcomes
    BY DEF Outcomes
  <2>2. Moved /\ Told /\ Sourced
    BY <1>3, <1>12, <1>15, <2>1 DEF PollTimer, Stages, Sources
  <2> QED
    BY <1>1, <1>2, <1>15, <2>2 DEF PollTimer, WaitTypeOK
<1>16. ASSUME NEW f \in Futures, Leave(f)
       PROVE  WaitTypeOK'
  <2>1. Moved /\ Sourced
    BY <1>3, <1>5, <1>6, <1>16 DEF Leave, Stages
  <2> QED
    BY <1>1, <1>2, <1>16, <2>1 DEF Leave, WaitTypeOK
<1>17. ASSUME NEW f \in Futures, Resume(f)
       PROVE  WaitTypeOK'
  <2>1. Consumed(f) \in Nat
    BY <1>2, <1>17 DEF Resume, Wakeable, Consumed, WaitTypeOK
  <2>2. task' \in [Futures -> Wakers \union {None}]
    BY <1>2, <1>17 DEF Resume, WaitTypeOK
  <2>3. FirstPoll(f) \in Stages
    BY DEF FirstPoll, Stages
  <2>4. Moved
    BY <1>3, <1>17, <2>3 DEF Resume
  <2>5. inbox' \in [Futures -> Nat] /\ Snapped
    BY <1>2, <1>4, <1>17, <2>1 DEF Resume, WaitTypeOK
  <2> QED
    BY <1>1, <1>2, <1>17, <2>2, <2>4, <2>5 DEF Resume, WaitTypeOK
<1>18. ASSUME NEW f \in Futures, NEW w PROVE Delivered(f, w) \in [Futures -> Nat]
  BY <1>2 DEF Delivered, WaitTypeOK
<1>19. ASSUME NEW f \in Futures, NEW s \in Sources, BecomeReady(f, s) \/ Notify(f, s)
       PROVE  WaitTypeOK'
  <2>1. Sourced
    <3>1. CASE BecomeReady(f, s)
      <4>1. PICK r \in {"ready", "failed"} :
               source' = [source EXCEPT ![f][s].state = r]
        BY <3>1 DEF BecomeReady
      <4> QED
        BY <1>2, <4>1, SourceFieldTyped
    <3>2. CASE Notify(f, s)
      <4>1. source' = [source EXCEPT ![f][s].waker = None]
        BY <3>2 DEF Notify
      <4> QED
        BY <1>2, <4>1, SourceFieldTyped
    <3> QED
      BY <1>19, <3>1, <3>2
  <2>2. inbox' \in [Futures -> Nat]
    BY <1>2, <1>18, <1>19 DEF BecomeReady, Notify, WaitTypeOK
  <2> QED
    BY <1>1, <1>2, <1>19, <2>1, <2>2 DEF BecomeReady, Notify, WaitTypeOK
<1>20. ASSUME NEW c \in Cancellers, CancelStep(c)
       PROVE  WaitTypeOK'
  <2>1. inbox' \in [Futures -> Nat]
    BY <1>2, <1>18, <1>20 DEF CancelStep, waitVars, WaitTypeOK, TypeOK, Entry
  <2> QED
    BY <1>1, <1>2, <1>20, <2>1 DEF CancelStep, waitVars, WaitTypeOK
<1>21. CASE UNCHANGED allVars
  BY <1>1, <1>2, <1>21 DEF allVars, waitVars, WaitTypeOK
<1> QED
  BY <1>7, <1>8, <1>9, <1>10, <1>11, <1>13, <1>14, <1>15, <1>16, <1>17, <1>19,
     <1>20, <1>21
  DEF WaitNext, Running

-----------------------------------------------------------------------------
(***************************************************************************)
(* The steps of a flow keep its own invariant.                             *)
(***************************************************************************)

\* What the invariant says of one flow.
LEMMA FlowFacts ==
    ASSUME WaitIInv, NEW f \in Futures
    PROVE  /\ Places(f) /\ Rounds(f) /\ Wakeups(f)
           /\ wait[f] \in Waits /\ at[f] \in Stages /\ inbox[f] \in Nat
           /\ source[f] \in [Sources -> SourceState]
           /\ cancelled \in BOOLEAN
BY DEF WaitIInv, Local, WaitTypeOK, TypeOK

\* The look at the token.
LEMMA CheckLocal ==
    ASSUME WaitIInv, NEW f \in Futures, Check(f)
    PROVE  Local(f)'
<1>1. /\ at[f] = "check" /\ UNCHANGED <<vars, wait, task, inbox, source, begun>>
      /\ at'[f] \in {"leave", "arm", "yield"}
      /\ at'[f] = "arm" => ~wait[f].immediate
      /\ at'[f] = "yield" => wait[f].immediate /\ wait[f].kind # "blocking"
      /\ at'[f] # "leave" => outcome'[f] = outcome[f]
  BY DEF Check, Finish, GoTo, WaitIInv, WaitTypeOK
<1>2. /\ Places(f) /\ Rounds(f) /\ Wakeups(f)
      /\ wait[f].kind \in {"blocking", "sleep", "attempt"}
  BY FlowFacts DEF Waits
<1>3. Places(f)'
  BY <1>1, <1>2 DEF Places, Unarmed, Yielding, vars
<1>4. Rounds(f)'
  BY <1>1, <1>2 DEF Rounds, vars
<1>5. Wakeups(f)'
  BY <1>1, <1>2 DEF Wakeups, TokenPolled, Yielding, vars
<1> QED
  BY <1>3, <1>4, <1>5 DEF Local

\* yield_once leaves its own wakeup in the inbox.
LEMMA YieldLocal ==
    ASSUME WaitIInv, NEW f \in Futures, YieldOnce(f)
    PROVE  Local(f)'
<1>1. /\ at[f] = "yield" /\ at'[f] = "parked" /\ inbox'[f] = inbox[f] + 1
      /\ UNCHANGED <<vars, wait, task, source, begun, outcome>>
  BY DEF YieldOnce, GoTo, WaitIInv, WaitTypeOK
<1>2. Places(f) /\ Rounds(f) /\ Wakeups(f) /\ inbox[f] \in Nat
  BY FlowFacts
<1>3. Places(f)'
  BY <1>1, <1>2 DEF Places, Unarmed, Yielding, vars
<1>4. Rounds(f)'
  BY <1>1, <1>2 DEF Rounds, vars
<1>5. Wakeups(f)'
  BY <1>1, <1>2 DEF Wakeups, Places, TokenPolled, Yielding, vars
<1> QED
  BY <1>3, <1>4, <1>5 DEF Local

\* A wait that ends, or is abandoned, owes nothing but the drop of its future.
LEMMA LeavingLocal ==
    ASSUME WaitIInv, NEW f \in Futures, at[f] # "idle", at'[f] = "leave",
           wait'[f] = wait[f], task'[f] = task[f], source'[f] = source[f],
           begun'[f] = begun[f], cancelled => cancelled',
           ~wait[f].token => state'[f] = state[f]
    PROVE  Local(f)'
<1>1. Places(f) /\ Rounds(f) /\ Wakeups(f)
  BY FlowFacts
<1>2. Places(f)'
  BY <1>1 DEF Places, Unarmed, Yielding
<1>3. Rounds(f)'
  BY <1>1 DEF Rounds
<1>4. Wakeups(f)'
  BY <1>1 DEF Wakeups, TokenPolled, Yielding
<1> QED
  BY <1>2, <1>3, <1>4 DEF Local

\* The future of a flow that makes one is new and known to nobody.
LEMMA NewFutureFacts ==
    ASSUME WaitIInv, NEW f \in Futures, NEW a \in Waits, NewFuture(f, a),
           state[f] = "dropped"
    PROVE  /\ state'[f] = IF a.token THEN "new" ELSE "dropped"
           /\ cancelled' = cancelled
           /\ \A g \in Futures \ {f} :
                 state'[g] = state[g] /\ waker'[g] = waker[g]
           /\ woken' \subseteq woken
BY DEF NewFuture, Create, vars, WaitIInv, WaitTypeOK, TypeOK

\* A wait begins with a fresh future, fresh sources and nothing seen.
LEMMA EnterLocal ==
    ASSUME WaitIInv, NEW f \in Futures, NEW a \in Waits, Enter(f, a)
    PROVE  Local(f)'
<1>1. Places(f) /\ Rounds(f) /\ Wakeups(f)
  BY FlowFacts
<1>2. state[f] = "dropped" /\ source[f] = NoSources /\ at[f] = "idle"
  BY <1>1 DEF Enter, Places, Unarmed
<1>3. /\ wait'[f] = a /\ outcome'[f] = None /\ task'[f] \in Wakers
      /\ begun'[f].cancelled = (a.token /\ cancelled) /\ begun'[f].operation = FALSE
  BY DEF Enter, WaitIInv, WaitTypeOK
<1>4. CASE a.kind = "attempt"
  <2>1. NewFuture(f, a)
    BY <1>4 DEF Enter
  <2>2. state'[f] = (IF a.token THEN "new" ELSE "dropped") /\ cancelled' = cancelled
    BY <1>2, <2>1, NewFutureFacts
  <2>3. at'[f] = "operation" /\ ~a.immediate
    BY <1>4 DEF Enter, GoTo, WaitIInv, WaitTypeOK, Waits
  <2>4. Places(f)'
    BY <1>3, <1>4, <2>2, <2>3 DEF Places, Unarmed, Yielding
  <2>5. Rounds(f)'
    BY <1>3, <2>2, <2>3 DEF Rounds
  <2>6. Wakeups(f)'
    BY <1>3, <2>3 DEF Wakeups, TokenPolled, Yielding
  <2> QED
    BY <2>4, <2>5, <2>6 DEF Local
<1>5. CASE a.kind # "attempt"
  <2>1. at'[f] = "check" /\ UNCHANGED <<source, vars>>
    BY <1>5 DEF Enter, GoTo, WaitIInv, WaitTypeOK
  <2>2. source[f]["operation"].state = "none"
    BY <1>2 DEF NoSources, Sources, Source
  <2>3. Places(f)'
    BY <1>2, <1>3, <1>5, <2>1, <2>2 DEF Places, Unarmed, Yielding, vars
  <2>4. Rounds(f)'
    BY <1>3, <2>1 DEF Rounds, vars
  <2>5. Wakeups(f)'
    BY <1>3, <2>1 DEF Wakeups, TokenPolled, Yielding
  <2> QED
    BY <2>3, <2>4, <2>5 DEF Local
<1> QED
  BY <1>4, <1>5

\* What a look at the sources finds.
LEMMA SnapshotFacts ==
    ASSUME WaitIInv, NEW f \in Futures, begun' = [begun EXCEPT ![f] = Snapshot(f)]
    PROVE  /\ begun'[f].cancelled = (wait[f].token /\ cancelled)
           /\ begun'[f].operation = (source[f]["operation"].state = "ready")
BY DEF WaitIInv, WaitTypeOK, Snapshot, Cancelled

\* The timer is armed and the future made before the first round.
LEMMA ArmLocal ==
    ASSUME WaitIInv, NEW f \in Futures, Arm(f)
    PROVE  Local(f)'
<1>1. Places(f) /\ Rounds(f) /\ Wakeups(f) /\ wait[f] \in Waits
  BY FlowFacts
<1>2. /\ state[f] = "dropped" /\ source[f] = NoSources /\ ~wait[f].immediate
      /\ wait[f].kind # "attempt" /\ task[f] \in Wakers /\ outcome[f] = None
      /\ at[f] = "arm"
  BY <1>1 DEF Arm, Places, Rounds, Unarmed
<1>3. /\ at'[f] = "token" /\ UNCHANGED <<wait, task, inbox, outcome>>
      /\ source'[f]["operation"] = source[f]["operation"]
  BY DEF Arm, GoTo, WaitIInv, WaitTypeOK, Sources
<1>4. /\ begun'[f].cancelled = (wait[f].token /\ cancelled)
      /\ begun'[f].operation = (source[f]["operation"].state = "ready")
  BY SnapshotFacts DEF Arm
<1>5. /\ state'[f] = (IF wait[f].token THEN "new" ELSE "dropped")
      /\ cancelled' = cancelled
  BY <1>1, <1>2, NewFutureFacts DEF Arm
<1>6. source[f]["operation"].state = "none"
  BY <1>2 DEF NoSources, Sources, Source
<1>7. Places(f)'
  BY <1>2, <1>3, <1>5, <1>6 DEF Places, Unarmed, Yielding
<1>8. Rounds(f)'
  BY <1>2, <1>3, <1>4, <1>5, <1>6 DEF Rounds
<1>9. Wakeups(f)'
  BY <1>2, <1>3, <1>5 DEF Wakeups, TokenPolled, Yielding
<1> QED
  BY <1>7, <1>8, <1>9 DEF Local

\* A timer that cannot be armed leaves nothing behind.
LEMMA ArmFailsLocal ==
    ASSUME WaitIInv, NEW f \in Futures, ArmFails(f)
    PROVE  Local(f)'
<1>1. Places(f) /\ Rounds(f) /\ Wakeups(f)
  BY FlowFacts
<1>2. /\ at[f] = "arm" /\ at'[f] = "refused"
      /\ UNCHANGED <<vars, wait, task, inbox, source, outcome>>
  BY DEF ArmFails, GoTo, WaitIInv, WaitTypeOK
<1>3. /\ begun'[f].cancelled = (wait[f].token /\ cancelled)
      /\ begun'[f].operation = (source[f]["operation"].state = "ready")
  BY SnapshotFacts DEF ArmFails
<1>4. source[f]["operation"].state = "none"
  BY <1>1, <1>2 DEF Places, Unarmed
<1>5. Places(f)'
  BY <1>1, <1>2 DEF Places, Unarmed, Yielding, vars
<1>6. Rounds(f)'
  BY <1>1, <1>2, <1>3, <1>4 DEF Rounds, vars
<1>7. Wakeups(f)'
  BY <1>1, <1>2 DEF Wakeups, TokenPolled, Yielding, vars
<1> QED
  BY <1>5, <1>6, <1>7 DEF Local

\* The operation is polled first: a finished one ends the wait, a pending one
\* keeps the waker of this round.
LEMMA PollOperationLocal ==
    ASSUME WaitIInv, NEW f \in Futures, PollOperation(f)
    PROVE  Local(f)'
<1>1. Places(f) /\ Rounds(f) /\ Wakeups(f)
  BY FlowFacts
<1>2. at[f] = "operation" /\ UNCHANGED <<vars, wait, task, inbox, begun>>
  BY DEF PollOperation
<1>3. CASE source[f]["operation"].state = "ready"
  <2>1. at'[f] = "leave" /\ UNCHANGED source
    BY <1>3 DEF PollOperation, Finish, GoTo, WaitIInv, WaitTypeOK
  <2> QED
    BY <1>2, <2>1, LeavingLocal DEF vars
<1>4. CASE source[f]["operation"].state # "ready"
  <2>1. at'[f] = "token" /\ UNCHANGED outcome /\ source' = Polled(f, "operation")
    BY <1>4 DEF PollOperation, GoTo, WaitIInv, WaitTypeOK
  <2>2. /\ source'[f]["operation"].waker = task[f]
        /\ source'[f]["operation"].state = source[f]["operation"].state
    BY <2>1, PolledSource DEF WaitIInv, Sources
  <2>3. Places(f)'
    BY <1>1, <1>2, <2>1, <2>2 DEF Places, Unarmed, Yielding, vars
  <2>4. Rounds(f)'
    BY <1>1, <1>2, <1>4, <2>1, <2>2 DEF Rounds, Places, vars
  <2>5. Wakeups(f)'
    BY <1>1, <1>2, <2>1, <2>2 DEF Wakeups, Places, TokenPolled, Yielding, vars
  <2> QED
    BY <2>3, <2>4, <2>5 DEF Local
<1> QED
  BY <1>3, <1>4

\* The future is polled with the waker of this round; it is ready, or it will be
\* registered, or it is, and then a cancellation finds that waker.
LEMMA PollTokenLocal ==
    ASSUME WaitIInv, NEW f \in Futures, PollToken(f)
    PROVE  Local(f)'
<1>1. /\ Places(f) /\ Rounds(f) /\ Wakeups(f) /\ wait[f] \in Waits
      /\ cancelled \in BOOLEAN
  BY FlowFacts
<1>2. at[f] = "token" /\ UNCHANGED <<wait, task, inbox, source, begun>>
  BY DEF PollToken
<1>3. ~wait[f].immediate /\ outcome[f] = None /\ task[f] \in Wakers
      /\ ~begun[f].operation
  BY <1>1, <1>2 DEF Places, Rounds
<1> DEFINE Moves == /\ state'[f] = "ready" => at'[f] = "leave"
                    /\ state'[f] = "pending" => /\ at'[f] = "timer"
                                                /\ outcome'[f] = None
                    /\ state'[f] = "polling" => /\ at'[f] = "token"
                                                /\ outcome'[f] = None
<1>4. wait[f].token => Moves
  BY <1>2, <1>3 DEF PollToken, Finish, GoTo, WaitIInv, WaitTypeOK
<1>5. CASE wait[f].token /\ Poll(f, task[f])
  <2>1. /\ state'[f] = (IF cancelled THEN "ready" ELSE "polling")
        /\ waker'[f] = task[f] /\ f \notin woken' /\ cancelled' = cancelled
    BY <1>5 DEF Poll, WaitIInv, WaitTypeOK, TypeOK
  <2>2. CASE cancelled
    <3>1. at'[f] = "leave"
      BY <1>4, <1>5, <2>1, <2>2
    <3> QED
      BY <1>2, <1>5, <2>1, <3>1, LeavingLocal
  <2>3. CASE ~cancelled
    <3>1. state'[f] = "polling" /\ at'[f] = "token" /\ outcome'[f] = None
      BY <1>4, <1>5, <2>1, <2>3
    <3>2. Places(f)'
      BY <1>1, <1>2, <1>3, <1>5, <3>1 DEF Places, Unarmed, Yielding
    <3>3. Rounds(f)'
      BY <1>1, <1>2, <1>3, <2>1, <2>3, <3>1 DEF Rounds
    <3>4. Wakeups(f)'
      BY <1>1, <1>2, <1>3, <2>1, <3>1 DEF Wakeups, TokenPolled, Yielding
    <3> QED
      BY <3>2, <3>3, <3>4 DEF Local
  <2> QED
    BY <2>2, <2>3
<1>6. CASE wait[f].token /\ Register(f)
  <2>1. /\ state[f] = "polling"
        /\ state'[f] = (IF cancelled THEN "ready" ELSE "pending")
        /\ waker' = waker /\ woken' = woken /\ cancelled' = cancelled
    BY <1>6 DEF Register, WaitIInv, WaitTypeOK, TypeOK
  <2>2. CASE cancelled
    <3>1. at'[f] = "leave"
      BY <1>4, <1>6, <2>1, <2>2
    <3> QED
      BY <1>2, <1>6, <2>1, <3>1, LeavingLocal
  <2>3. CASE ~cancelled
    <3>1. state'[f] = "pending" /\ at'[f] = "timer" /\ outcome'[f] = None
      BY <1>4, <1>6, <2>1, <2>3
    <3>2. Places(f)'
      BY <1>1, <1>2, <1>3, <1>6, <3>1 DEF Places, Unarmed, Yielding
    <3>3. Rounds(f)'
      BY <1>1, <1>2, <1>3, <2>1, <2>3, <3>1 DEF Rounds
    <3>4. TokenPolled(f)
      BY <1>2, <1>3, <1>6, <2>1 DEF TokenPolled
    <3>5. Wakeups(f)'
      BY <1>1, <1>2, <1>3, <2>1, <3>1, <3>4 DEF Wakeups, TokenPolled, Yielding
    <3> QED
      BY <3>2, <3>3, <3>5 DEF Local
  <2> QED
    BY <2>2, <2>3
<1>7. CASE ~wait[f].token
  <2>1. at'[f] = "timer" /\ UNCHANGED <<vars, outcome>>
    BY <1>7 DEF PollToken, GoTo, WaitIInv, WaitTypeOK
  <2>2. Places(f)'
    BY <1>1, <1>2, <1>3, <1>7, <2>1 DEF Places, Unarmed, Yielding, vars
  <2>3. Rounds(f)'
    BY <1>1, <1>2, <1>3, <1>7, <2>1 DEF Rounds, vars
  <2>4. Wakeups(f)'
    BY <1>1, <1>2, <1>3, <1>7, <2>1 DEF Wakeups, TokenPolled, Yielding, vars
  <2> QED
    BY <2>2, <2>3, <2>4 DEF Local
<1> QED
  BY <1>5, <1>6, <1>7 DEF PollToken

\* The timer is polled last: if it is not ready it keeps the waker of this
\* round, and the flow parks.
LEMMA PollTimerLocal ==
    ASSUME WaitIInv, NEW f \in Futures, PollTimer(f)
    PROVE  Local(f)'
<1>1. Places(f) /\ Rounds(f) /\ Wakeups(f)
  BY FlowFacts
<1>2. at[f] = "timer" /\ UNCHANGED <<vars, wait, task, inbox, begun>>
  BY DEF PollTimer
<1>3. ~wait[f].immediate /\ outcome[f] = None
  BY <1>1, <1>2 DEF Places, Rounds
<1>4. CASE at'[f] = "leave" /\ UNCHANGED source
  BY <1>2, <1>4, LeavingLocal DEF vars
<1>5. CASE /\ at'[f] = "parked" /\ UNCHANGED outcome
           /\ source'[f]["operation"] = source[f]["operation"]
           /\ \/ source'[f]["timer"].state = "none"
              \/ source'[f]["timer"].waker = task[f]
  <2>1. Places(f)'
    BY <1>1, <1>2, <1>3, <1>5 DEF Places, Unarmed, Yielding, vars
  <2>2. Rounds(f)'
    BY <1>1, <1>2, <1>3, <1>5 DEF Rounds, vars
  <2>3. Wakeups(f)'
    BY <1>1, <1>2, <1>3, <1>5 DEF Wakeups, TokenPolled, Yielding, vars
  <2> QED
    BY <2>1, <2>2, <2>3 DEF Local
<1>6. /\ Polled(f, "timer")[f]["timer"].waker = task[f]
      /\ Polled(f, "timer")[f]["operation"] = source[f]["operation"]
  BY PolledSource DEF WaitIInv, Sources
<1> QED
  BY <1>4, <1>5, <1>6 DEF PollTimer, Finish, GoTo, WaitIInv, WaitTypeOK

\* The flow is polled again: a new round begins.
LEMMA ResumeLocal ==
    ASSUME WaitIInv, NEW f \in Futures, Resume(f)
    PROVE  Local(f)'
<1>1. /\ Places(f) /\ Rounds(f) /\ Wakeups(f) /\ wait[f] \in Waits
      /\ cancelled \in BOOLEAN
  BY FlowFacts
<1>2. /\ at[f] = "parked" /\ UNCHANGED <<vars, wait, source, outcome>>
      /\ at'[f] = FirstPoll(f)
  BY DEF Resume, GoTo, WaitIInv, WaitTypeOK
<1>3. task'[f] \in Wakers
  BY <1>1, <1>2 DEF Resume, Places, WaitIInv, WaitTypeOK
<1>4. /\ begun'[f].cancelled = (wait[f].token /\ cancelled)
      /\ begun'[f].operation = (source[f]["operation"].state = "ready")
  BY SnapshotFacts DEF Resume
<1>5. /\ at'[f] = "operation" => wait[f].kind = "attempt" /\ ~wait[f].immediate
      /\ at'[f] = "yielded" => wait[f].immediate /\ wait[f].kind # "attempt"
      /\ at'[f] = "token" => wait[f].kind # "attempt" /\ ~wait[f].immediate
      /\ at'[f] \in {"operation", "yielded", "token"}
  BY <1>1, <1>2 DEF FirstPoll, Waits
<1>6. state[f] = "pending" \/ at'[f] = "yielded" \/ ~wait[f].token
  BY <1>1, <1>2, <1>5 DEF Places
<1>7. wait[f].kind # "attempt" => source[f]["operation"].state = "none"
  BY <1>1 DEF Places
<1>8. Places(f)'
  BY <1>1, <1>2, <1>3, <1>5, <1>6 DEF Places, Unarmed, Yielding, vars
<1>9. Rounds(f)'
  BY <1>1, <1>2, <1>4, <1>5, <1>6, <1>7 DEF Rounds, vars, Places
<1>10. Wakeups(f)'
  BY <1>1, <1>2, <1>5, <1>6 DEF Wakeups, TokenPolled, Yielding, vars, Places
<1> QED
  BY <1>8, <1>9, <1>10 DEF Local

\* The wait returns: its future and its sources are dropped.
LEMMA LeaveLocal ==
    ASSUME WaitIInv, NEW f \in Futures, Leave(f)
    PROVE  Local(f)'
<1>1. Places(f) /\ Rounds(f) /\ Wakeups(f)
  BY FlowFacts
<1>2. /\ at[f] = "leave" /\ at'[f] = "idle" /\ source'[f] = NoSources
      /\ UNCHANGED <<wait, task, inbox, begun, outcome>>
  BY DEF Leave, GoTo, WaitIInv, WaitTypeOK
<1>3. state'[f] = "dropped" /\ cancelled' = cancelled
  BY DEF Leave, Drop, vars, WaitIInv, WaitTypeOK, TypeOK
<1>4. NoSources["operation"].state = "none"
  BY DEF NoSources, Sources, Source
<1>5. Places(f)'
  BY <1>1, <1>2, <1>3, <1>4 DEF Places, Unarmed, Yielding
<1>6. Rounds(f)'
  BY <1>1, <1>2, <1>3 DEF Rounds
<1>7. Wakeups(f)'
  BY <1>2 DEF Wakeups, TokenPolled, Yielding
<1> QED
  BY <1>5, <1>6, <1>7 DEF Local

\* A source that becomes ready still owes its wakeup.
LEMMA ReadyLocal ==
    ASSUME WaitIInv, NEW f \in Futures, NEW s \in Sources, BecomeReady(f, s)
    PROVE  Local(f)'
<1>1. /\ Places(f) /\ Rounds(f) /\ Wakeups(f)
      /\ source[f] \in [Sources -> SourceState]
  BY FlowFacts
<1>2. UNCHANGED <<vars, wait, at, task, inbox, begun, outcome>>
  BY DEF BecomeReady
<1>3. source[f][s].state = "pending"
  BY DEF BecomeReady
<1>4. PICK r \in {"ready", "failed"} :
         (source' = [source EXCEPT ![f][s].state = r]) /\ (s = "operation" => r = "ready")
  BY DEF BecomeReady, Sources
<1>5. /\ source'[f][s].state = r /\ source'[f][s].waker = source[f][s].waker
      /\ \A q \in Sources \ {s} : source'[f][q] = source[f][q]
  BY <1>4, ChangedSource DEF WaitIInv
<1>6. at[f] \notin Unarmed /\ ~Yielding(f)
  BY <1>1, <1>3 DEF Places, NoSources, Source, Sources
<1>7. s = "operation" => wait[f].kind = "attempt"
  BY <1>1, <1>3 DEF Places
<1>8. /\ "operation" \in Sources /\ "timer" \in Sources
      /\ s \in {"operation", "timer"}
  BY DEF Sources
<1>9. Places(f)'
  BY <1>1, <1>2, <1>5, <1>6, <1>7, <1>8 DEF Places, Yielding, vars
<1>10. Rounds(f)'
  BY <1>1, <1>2, <1>3, <1>5, <1>8 DEF Rounds, vars
<1>11. Wakeups(f)'
  BY <1>1, <1>2, <1>3, <1>5, <1>8 DEF Wakeups, TokenPolled, Yielding, vars
<1> QED
  BY <1>9, <1>10, <1>11 DEF Local

\* A source that invokes the waker of this round leaves a wakeup in the inbox.
LEMMA NotifyLocal ==
    ASSUME WaitIInv, NEW f \in Futures, NEW s \in Sources, Notify(f, s)
    PROVE  Local(f)'
<1>1. /\ Places(f) /\ Rounds(f) /\ Wakeups(f)
      /\ source[f] \in [Sources -> SourceState] /\ inbox[f] \in Nat
  BY FlowFacts
<1>2. UNCHANGED <<vars, wait, at, task, begun, outcome>>
  BY DEF Notify
<1>3. /\ source[f][s].state \in {"ready", "failed"}
      /\ source' = [source EXCEPT ![f][s].waker = None]
      /\ inbox' = Delivered(f, source[f][s].waker)
  BY DEF Notify
<1>4. /\ source'[f][s].state = source[f][s].state
      /\ \A q \in Sources \ {s} : source'[f][q] = source[f][q]
  BY <1>1, <1>3 DEF WaitIInv, WaitTypeOK, SourceState
<1>5. at[f] \notin Unarmed /\ ~Yielding(f)
  BY <1>1, <1>3 DEF Places, NoSources, Source, Sources
<1>6. s = "operation" => wait[f].kind = "attempt"
  BY <1>1, <1>3 DEF Places
<1>7. /\ inbox'[f] \in Nat
      /\ inbox[f] > 0 => inbox'[f] > 0
      /\ source[f][s].waker = task[f] /\ at[f] \notin {"idle", "leave"} =>
            inbox'[f] > 0
  <2>1. inbox'[f] = IF source[f][s].waker = task[f] /\ at[f] \notin {"idle", "leave"}
                    THEN inbox[f] + 1 ELSE inbox[f]
    BY <1>3 DEF Delivered, WaitIInv, WaitTypeOK
  <2> QED
    BY <1>1, <2>1
<1>8. /\ "operation" \in Sources /\ "timer" \in Sources
      /\ s \in {"operation", "timer"}
  BY DEF Sources
<1>9. Places(f)'
  BY <1>1, <1>2, <1>4, <1>5, <1>6, <1>8 DEF Places, Yielding, vars
<1>10. Rounds(f)'
  BY <1>1, <1>2, <1>4, <1>8 DEF Rounds, vars
<1>11. Wakeups(f)'
  <2>1. CASE s = "operation"
    BY <1>1, <1>2, <1>3, <1>4, <1>7, <1>8, <2>1
    DEF Wakeups, TokenPolled, Yielding, vars
  <2>2. CASE s = "timer"
    BY <1>1, <1>2, <1>3, <1>4, <1>7, <1>8, <2>2
    DEF Wakeups, TokenPolled, Yielding, vars
  <2> QED
    BY <1>8, <2>1, <2>2
<1> QED
  BY <1>9, <1>10, <1>11 DEF Local

\* Every step of a flow keeps its own invariant.
LEMMA OwnStep ==
    ASSUME WaitIInv, NEW f \in Futures,
           \/ \E a \in Waits : Enter(f, a)
           \/ Running(f) \/ Resume(f) \/ Abandon(f)
           \/ \E s \in Sources : BecomeReady(f, s) \/ Notify(f, s)
    PROVE  Local(f)'
<1>1. ASSUME Recheck(f) \/ Abandon(f) PROVE Local(f)'
  <2>1. /\ at[f] # "idle" /\ at'[f] = "leave"
        /\ UNCHANGED <<vars, wait, task, source, begun>>
    BY <1>1 DEF Recheck, Abandon, Finish, GoTo, WaitIInv, WaitTypeOK
  <2> QED
    BY <2>1, LeavingLocal DEF vars
<1> QED
  BY <1>1, EnterLocal, CheckLocal, YieldLocal, ArmLocal, ArmFailsLocal,
     PollOperationLocal, PollTokenLocal, PollTimerLocal, LeaveLocal, ResumeLocal,
     ReadyLocal, NotifyLocal
  DEF Running

-----------------------------------------------------------------------------
(***************************************************************************)
(* The steps of the others.                                                *)
(***************************************************************************)

\* The futures of other flows are theirs alone.
LEMMA OtherFuture ==
    ASSUME WaitIInv, NEW f \in Futures, NEW g \in Futures \ {f},
           UNCHANGED vars \/ Waiting(f)
    PROVE  /\ state'[g] = state[g] /\ waker'[g] = waker[g]
           /\ woken' \subseteq woken /\ cancelled' = cancelled
BY DEF Waiting, Create, Poll, Register, Drop, vars, WaitIInv, WaitTypeOK, TypeOK

\* A step of a flow uses only its own future.
LEMMA OwnFuture ==
    ASSUME WaitIInv, NEW f \in Futures,
           \/ \E a \in Waits : Enter(f, a)
           \/ Running(f) \/ Resume(f) \/ Abandon(f)
           \/ \E s \in Sources : BecomeReady(f, s) \/ Notify(f, s)
    PROVE  UNCHANGED vars \/ Waiting(f)
<1>1. at[f] # "idle" => task[f] \in Wakers
  BY FlowFacts DEF Places
<1>2. ASSUME PollToken(f) PROVE UNCHANGED vars \/ Waiting(f)
  BY <1>1, <1>2 DEF PollToken, Waiting
<1> QED
  BY <1>2
  DEF Enter, Running, Check, YieldOnce, Recheck, Arm, ArmFails, PollOperation,
      PollTimer, Leave, Resume, Abandon, BecomeReady, Notify, NewFuture, Waiting

\* A flow keeps its invariant while another one moves.
LEMMA OtherStep ==
    ASSUME WaitIInv, NEW f \in Futures, NEW g \in Futures \ {f},
           \/ \E a \in Waits : Enter(f, a)
           \/ Running(f) \/ Resume(f) \/ Abandon(f)
           \/ \E s \in Sources : BecomeReady(f, s) \/ Notify(f, s)
    PROVE  /\ Local(g)'
           /\ begun'[g] = begun[g] /\ outcome'[g] = outcome[g]
<1> DEFINE Same == /\ wait'[g] = wait[g] /\ at'[g] = at[g] /\ task'[g] = task[g]
                   /\ source'[g] = source[g] /\ begun'[g] = begun[g]
                   /\ outcome'[g] = outcome[g] /\ inbox'[g] = inbox[g]
<1>1. ASSUME NEW a \in Waits, Enter(f, a) PROVE Same
  BY <1>1 DEF Enter, GoTo, WaitIInv, WaitTypeOK
<1>2. ASSUME Check(f) \/ YieldOnce(f) \/ Recheck(f) \/ Abandon(f) PROVE Same
  BY <1>2 DEF Check, YieldOnce, Recheck, Abandon, Finish, GoTo, WaitIInv, WaitTypeOK
<1>3. ASSUME Arm(f) \/ ArmFails(f) \/ Resume(f) \/ Leave(f) PROVE Same
  BY <1>3 DEF Arm, ArmFails, Resume, Leave, GoTo, WaitIInv, WaitTypeOK
<1>4. ASSUME PollOperation(f) \/ PollTimer(f) PROVE Same
  <2>1. \A s \in Sources : Polled(f, s)[g] = source[g]
    BY PolledSource DEF WaitIInv
  <2> QED
    BY <1>4, <2>1 DEF PollOperation, PollTimer, Finish, GoTo, Sources, WaitIInv,
                      WaitTypeOK
<1>5. ASSUME PollToken(f) PROVE Same
  BY <1>5 DEF PollToken, Finish, GoTo, WaitIInv, WaitTypeOK
<1>6. ASSUME NEW s \in Sources, BecomeReady(f, s) \/ Notify(f, s) PROVE Same
  BY <1>6 DEF BecomeReady, Notify, Delivered, WaitIInv, WaitTypeOK
<1>7. Same
  BY <1>1, <1>2, <1>3, <1>4, <1>5, <1>6 DEF Running
<1>8. /\ state'[g] = state[g] /\ waker'[g] = waker[g]
      /\ woken' \subseteq woken /\ cancelled' = cancelled
  BY OwnFuture, OtherFuture
<1>9. inbox[g] \in Nat
  BY FlowFacts
<1>10. Local(g)'
  BY <1>7, <1>8, <1>9, Frame
<1> QED
  BY <1>7, <1>10

\* A cancelling thread that invokes the waker of a flow's latest poll leaves a
\* wakeup in its inbox.
LEMMA CancelLocal ==
    ASSUME WaitIInv, NEW c \in Cancellers, CancelStep(c), NEW f \in Futures
    PROVE  /\ Local(f)'
           /\ begun'[f] = begun[f] /\ outcome'[f] = outcome[f]
<1>1. Wakeups(f) /\ inbox[f] \in Nat
  BY FlowFacts
<1>2. UNCHANGED <<wait, at, task, source, begun, outcome, state, waker>>
  BY DEF CancelStep, Swap, Drain, Return, Wake, waitVars
<1>3. cancelled => cancelled'
  BY DEF CancelStep, Swap, Drain, Return, Wake
<1>4. /\ inbox'[f] \in Nat /\ inbox'[f] >= inbox[f]
      /\ TokenPolled(f) /\ f \in woken' => f \in woken \/ inbox'[f] > 0
  <2>1. CASE inbox' = inbox /\ woken' = woken
    BY <1>1, <2>1
  <2>2. CASE /\ Wake(c)
             /\ \E e \in batch[c] \ batch'[c] : inbox' = Delivered(e[1], e[2])
    <3>1. PICK entry \in batch[c] :
             /\ batch' = [batch EXCEPT ![c] = @ \ {entry}]
             /\ woken' = IF waker[entry[1]] = entry[2]
                         THEN woken \union {entry[1]} ELSE woken
      BY <2>2 DEF Wake
    <3>2. batch'[c] = batch[c] \ {entry}
      BY <3>1 DEF WaitIInv, WaitTypeOK, TypeOK
    <3>3. inbox' = Delivered(entry[1], entry[2])
      BY <2>2, <3>2
    <3>4. inbox'[f] = IF /\ f = entry[1] /\ entry[2] = task[f]
                         /\ at[f] \notin {"idle", "leave"}
                      THEN inbox[f] + 1 ELSE inbox[f]
      BY <3>3 DEF Delivered, WaitIInv, WaitTypeOK
    <3>5. ASSUME TokenPolled(f), f \in woken', f \notin woken
          PROVE  inbox'[f] > 0
      <4>1. f = entry[1] /\ waker[f] = entry[2]
        BY <3>1, <3>5
      <4>2. waker[f] = task[f] /\ at[f] \notin {"idle", "leave"}
        BY <1>1, <3>5 DEF Wakeups, TokenPolled
      <4> QED
        BY <1>1, <3>4, <4>1, <4>2
    <3> QED
      BY <1>1, <3>4, <3>5
  <2> QED
    BY <2>1, <2>2 DEF CancelStep, Swap, Drain, Return, waitVars
<1>5. Local(f)'
  BY <1>2, <1>3, <1>4, Frame
<1> QED
  BY <1>2, <1>5

-----------------------------------------------------------------------------
(***************************************************************************)
(* What a wait returns.                                                    *)
(***************************************************************************)

\* OutcomeOrder of one flow.
Ordered(f) ==
    /\ outcome[f] \in {"Elapsed", "TimedOut", "TimerFailed"} =>
          ~begun[f].cancelled /\ ~begun[f].operation
    /\ outcome[f] = "Cancelled" => cancelled /\ ~begun[f].operation

\* A flow that has not finished its wait has returned nothing yet.
LEMMA NothingReturned ==
    ASSUME NEW f \in Futures, outcome'[f] = None
    PROVE  Ordered(f)'
BY WaitsAssumption DEF Ordered, Outcomes

\* The steps that end a wait look at the token, or come after the round's look
\* at it; the others leave the result alone.
LEMMA OrderedStep ==
    ASSUME WaitIInv, NEW f \in Futures, cancelled => cancelled',
           \/ \E a \in Waits : Enter(f, a)
           \/ Running(f) \/ Resume(f) \/ Abandon(f)
           \/ \E s \in Sources : BecomeReady(f, s) \/ Notify(f, s)
    PROVE  Ordered(f)'
<1>1. /\ Rounds(f) /\ cancelled \in BOOLEAN /\ Ordered(f)
      /\ outcome \in [Futures -> Outcomes \union {None}]
  BY FlowFacts DEF WaitIInv, OutcomeOrder, Ordered, WaitTypeOK
<1>2. ASSUME NEW a \in Waits, Enter(f, a) PROVE Ordered(f)'
  <2>1. outcome'[f] = None
    BY <1>1, <1>2 DEF Enter
  <2> QED
    BY <2>1, NothingReturned
<1>3. CASE Check(f)
  <2>1. /\ begun' = begun /\ at[f] = "check" /\ outcome[f] = None
        /\ ~begun[f].operation
    BY <1>1, <1>3 DEF Check, Rounds
  <2>2. \/ outcome'[f] = None
        \/ outcome'[f] = "Cancelled" /\ Cancelled(f)
        \/ outcome'[f] = "Elapsed" /\ ~Cancelled(f)
    BY <1>1, <1>3, <2>1 DEF Check, Finish
  <2>3. Cancelled(f) => cancelled'
    BY DEF Cancelled
  <2>4. ~Cancelled(f) => ~begun[f].cancelled
    BY <1>1 DEF Rounds, Cancelled
  <2> QED
    BY <2>1, <2>2, <2>3, <2>4, NothingReturned DEF Ordered
<1>4. CASE Recheck(f)
  <2>1. begun' = begun /\ ~begun[f].operation
    BY <1>1, <1>4 DEF Recheck, Rounds
  <2>2. outcome'[f] = RecheckResult(f)
    BY <1>1, <1>4 DEF Recheck, Finish
  <2>3. IF Cancelled(f) THEN outcome'[f] = "Cancelled"
                        ELSE outcome'[f] \in {"Elapsed", "TimerFailed"}
    BY <2>2 DEF RecheckResult
  <2>4. Cancelled(f) => cancelled'
    BY DEF Cancelled
  <2>5. ~Cancelled(f) => ~begun[f].cancelled
    BY <1>1 DEF Rounds, Cancelled
  <2> QED
    BY <2>1, <2>3, <2>4, <2>5 DEF Ordered
<1>5. CASE PollOperation(f)
  <2>1. begun' = begun /\ (outcome' = outcome \/ outcome'[f] = "Completed")
    BY <1>1, <1>5 DEF PollOperation, Finish
  <2> QED
    BY <1>1, <2>1 DEF Ordered
<1>6. CASE PollToken(f)
  <2>1. begun' = begun /\ ~begun[f].operation
    BY <1>1, <1>6 DEF PollToken, Rounds
  <2>2. outcome' = outcome \/ (outcome'[f] = "Cancelled" /\ cancelled)
    <3>1. CASE wait[f].token /\ state'[f] = "ready"
      <4>1. Poll(f, task[f]) \/ Register(f)
        BY <1>6, <3>1 DEF PollToken
      <4>2. cancelled
        BY <3>1, <4>1 DEF Poll, Register, WaitIInv, WaitTypeOK, TypeOK
      <4>3. outcome'[f] = "Cancelled"
        BY <1>1, <1>6, <3>1 DEF PollToken, Finish
      <4> QED
        BY <4>2, <4>3
    <3>2. CASE ~(wait[f].token /\ state'[f] = "ready")
      BY <1>6, <3>2 DEF PollToken
    <3> QED
      BY <3>1, <3>2
  <2> QED
    BY <1>1, <2>1, <2>2 DEF Ordered
<1>7. CASE PollTimer(f)
  <2>1. begun' = begun /\ ~begun[f].operation /\ ~begun[f].cancelled
    BY <1>1, <1>7 DEF PollTimer, Rounds
  <2>2. outcome' = outcome \/ outcome'[f] \in {"TimerFailed", "TimedOut", "Elapsed"}
    BY <1>1, <1>7 DEF PollTimer, Finish
  <2> QED
    BY <1>1, <2>1, <2>2 DEF Ordered
<1>8. CASE Arm(f) \/ ArmFails(f) \/ Resume(f)
  <2>1. outcome'[f] = None
    BY <1>1, <1>8 DEF Arm, ArmFails, Resume, Rounds
  <2> QED
    BY <2>1, NothingReturned
<1>9. CASE begun' = begun /\ outcome' = outcome
  BY <1>1, <1>9 DEF Ordered
<1> QED
  BY <1>2, <1>3, <1>4, <1>5, <1>6, <1>7, <1>8, <1>9
  DEF Running, YieldOnce, Leave, Abandon, BecomeReady, Notify

-----------------------------------------------------------------------------
(***************************************************************************)
(* The theorems.                                                           *)
(***************************************************************************)

\* The invariant holds before any wait.
LEMMA InitWaitIInv ==
    ASSUME WaitInit
    PROVE  WaitIInv
<1>1. Init
  BY DEF WaitInit
<1>2. IInv /\ NoLostWakeup
  <2>1. IInv
    BY <1>1, InitIInv
  <2> QED
    BY <1>1, <2>1 DEF Init, NoLostWakeup
<1>3. (CHOOSE a \in Waits : TRUE) \in Waits
  <2>1. [kind |-> "attempt", token |-> FALSE, immediate |-> FALSE, timer |-> FALSE]
           \in Waits
    BY DEF Waits
  <2> QED
    BY <2>1
<1>4. NoSources \in [Sources -> SourceState] /\ NoSources["operation"].state = "none"
  BY DEF NoSources, Sources, Source, SourceState
<1>5. WaitTypeOK
  <2>1. wait \in [Futures -> Waits]
    BY <1>3 DEF WaitInit
  <2>2. source \in [Futures -> [Sources -> SourceState]]
    BY <1>4 DEF WaitInit
  <2> QED
    BY <1>2, <2>1, <2>2, WaitsAssumption DEF WaitInit, WaitTypeOK, IInv, Stages
<1>6. OutcomeOrder
  BY WaitsAssumption DEF WaitInit, OutcomeOrder, Outcomes
<1>7. ASSUME NEW f \in Futures PROVE Local(f)
  <2>1. /\ at[f] = "idle" /\ state[f] = "dropped" /\ source[f] = NoSources
        /\ ~begun[f].cancelled /\ ~begun[f].operation
    BY DEF WaitInit, Init
  <2>2. Places(f)
    BY <1>4, <2>1 DEF Places, Unarmed, Yielding
  <2>3. Rounds(f) /\ Wakeups(f)
    BY <2>1 DEF Rounds, Wakeups, TokenPolled, Yielding
  <2> QED
    BY <2>2, <2>3 DEF Local
<1> QED
  BY <1>2, <1>5, <1>6, <1>7 DEF WaitIInv

\* Every step of the waits and of the cancelling threads keeps the invariant.
LEMMA NextWaitIInv ==
    ASSUME WaitIInv, [WaitNext]_allVars
    PROVE  WaitIInv'
<1>1. IInv' /\ NoLostWakeup' /\ (cancelled => cancelled')
  BY TokenInvariants
<1>2. WaitTypeOK'
  BY WaitTypeStep
<1>3. ASSUME NEW g \in Futures PROVE Local(g)' /\ Ordered(g)'
  <2>1. Ordered(g)
    BY DEF WaitIInv, OutcomeOrder, Ordered
  <2>2. CASE \E f \in Futures :
                \/ \E a \in Waits : Enter(f, a)
                \/ Running(f) \/ Resume(f) \/ Abandon(f)
                \/ \E s \in Sources : BecomeReady(f, s) \/ Notify(f, s)
    <3>1. PICK f \in Futures :
                \/ \E a \in Waits : Enter(f, a)
                \/ Running(f) \/ Resume(f) \/ Abandon(f)
                \/ \E s \in Sources : BecomeReady(f, s) \/ Notify(f, s)
      BY <2>2
    <3>2. CASE g = f
      BY <1>1, <3>1, <3>2, OwnStep, OrderedStep
    <3>3. CASE g # f
      <4>1. Local(g)' /\ begun'[g] = begun[g] /\ outcome'[g] = outcome[g]
        BY <3>1, <3>3, OtherStep
      <4> QED
        BY <1>1, <2>1, <4>1 DEF Ordered
    <3> QED
      BY <3>2, <3>3
  <2>3. CASE \E c \in Cancellers : CancelStep(c)
    <3>1. Local(g)' /\ begun'[g] = begun[g] /\ outcome'[g] = outcome[g]
      BY <2>3, CancelLocal
    <3> QED
      BY <1>1, <2>1, <3>1 DEF Ordered
  <2>4. CASE UNCHANGED allVars
    <3>1. Local(g)' /\ begun'[g] = begun[g] /\ outcome'[g] = outcome[g]
      <4>1. inbox[g] \in Nat
        BY FlowFacts
      <4> QED
        BY <2>4, <4>1, Frame DEF allVars, vars, waitVars
    <3> QED
      BY <1>1, <2>1, <3>1 DEF Ordered
  <2> QED
    BY <2>2, <2>3, <2>4 DEF WaitNext
<1>4. OutcomeOrder'
  BY <1>3 DEF OutcomeOrder, Ordered
<1> QED
  BY <1>1, <1>2, <1>3, <1>4 DEF WaitIInv

\* The invariant of the waits and of their token holds throughout.
THEOREM WaitInvariance == WaitSpec => []WaitIInv
BY InitWaitIInv, NextWaitIInv, PTL DEF WaitSpec

\* No flow sleeps through its operation, its timer or its cancellation, for any
\* number of flows sharing a token and of threads cancelling it.
THEOREM MissedWakeupTheorem == WaitSpec => []NoMissedWakeup
BY WaitInvariance, ParkedWoken, PTL

\* A cancellation before the last round of polls decides the wait, and only a
\* finished operation comes before it.
THEOREM OutcomeTheorem == WaitSpec => []OutcomeOrder
<1>1. WaitIInv => OutcomeOrder
  BY DEF WaitIInv
<1> QED
  BY <1>1, WaitInvariance, PTL

\* A wait that returned or was dropped has no waker left in the registry.
THEOREM UnregisteredTheorem == WaitSpec => []NothingLeftRegistered
BY WaitInvariance, IdleUnregistered, PTL
=============================================================================
