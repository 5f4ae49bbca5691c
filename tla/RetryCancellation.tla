--------------------------- MODULE RetryCancellation ---------------------------
(***************************************************************************)
(* One RetryCancellationToken shared by threads: RetryCancellationState    *)
(* (an AtomicBool beside a mutex-protected WakerRegistry), the             *)
(* RetryCancelled futures that wait for it, and threads that call cancel.  *)
(*                                                                         *)
(* The flag is not protected by the registry's mutex, so cancel and poll   *)
(* are split where other threads can run: cancel into its swap, its drain  *)
(* of the registry and one step per waker invoked; poll into its first     *)
(* look at the flag and the registration.  A registration is one step: it  *)
(* holds the mutex, and its only reading of the flag orders it against the *)
(* swap.                                                                   *)
(***************************************************************************)
EXTENDS Integers, FiniteSets

CONSTANTS
    Futures,         \* RetryCancelled futures
    Wakers,          \* task wakers a future may be polled with
    Cancellers,      \* threads calling cancel
    IdCount,         \* registration identifiers wrap around at IdCount
    WakersMayPanic,  \* whether invoking a waker may unwind
    None

ASSUME IdsAssumption ==
    /\ IdCount \in Nat \ {0}
    /\ IsFiniteSet(Futures)
    /\ Cardinality(Futures) <= IdCount

ASSUME PanicAssumption == WakersMayPanic \in BOOLEAN

Ids == 0 .. IdCount - 1

\* A registered waker, with the future it belongs to.
Entry == Futures \X Wakers

ASSUME NoneAssumption == None \notin Ids /\ None \notin Entry /\ None \notin Wakers

VARIABLES
    cancelled,  \* RetryCancellationState.cancelled
    next_id,    \* WakerRegistry.next_id
    wakers,     \* WakerRegistry.wakers, None where an identifier is free
    state,      \* of each future: new, polling, pending, ready or dropped; a
                \* future that was never made is dropped
    waker,      \* the waker of each future's latest poll
    id,         \* RetryCancelled.registration_id of each future
    woken,      \* futures whose task was woken since their latest poll began
    pc,         \* of each canceller: idle, drain, wake, done or unwound
    batch       \* the drained entries a canceller has still to invoke

vars == <<cancelled, next_id, wakers, state, waker, id, woken, pc, batch>>

Init ==
    /\ cancelled = FALSE
    /\ next_id = 0
    /\ wakers = [i \in Ids |-> None]
    /\ state = [f \in Futures |-> "dropped"]
    /\ waker = [f \in Futures |-> None]
    /\ id = [f \in Futures |-> None]
    /\ woken = {}
    /\ pc = [c \in Cancellers |-> "idle"]
    /\ batch = [c \in Cancellers |-> {}]

-----------------------------------------------------------------------------
(***************************************************************************)
(* cancel.                                                                 *)
(***************************************************************************)

\* Only the first request goes on to wake the waiters.
Swap(c) ==
    /\ pc[c] = "idle"
    /\ cancelled' = TRUE
    /\ pc' = [pc EXCEPT ![c] = IF cancelled THEN "done" ELSE "drain"]
    /\ UNCHANGED <<next_id, wakers, state, waker, id, woken, batch>>

\* take_all under the mutex.
Drain(c) ==
    /\ pc[c] = "drain"
    /\ batch' = [batch EXCEPT ![c] = {wakers[i] : i \in Ids} \ {None}]
    /\ wakers' = [i \in Ids |-> None]
    /\ pc' = [pc EXCEPT ![c] = "wake"]
    /\ UNCHANGED <<cancelled, next_id, state, waker, id, woken>>

\* One waker is invoked, outside the mutex and in no particular order.  It
\* reaches its future's task if it is the waker of the latest poll.
WakeFirst(c) ==
    /\ pc[c] = "wake"
    /\ \E entry \in batch[c] :
          /\ batch' = [batch EXCEPT ![c] = {}]
          /\ woken' = IF waker[entry[1]] = entry[2]
                      THEN woken \union {entry[1]} ELSE woken
    /\ UNCHANGED <<cancelled, next_id, wakers, state, waker, id, pc>>
Wake(c) ==
    /\ pc[c] = "wake"
    /\ \E entry \in batch[c] :
          /\ batch' = [batch EXCEPT ![c] = @ \ {entry}]
          /\ woken' = IF waker[entry[1]] = entry[2]
                      THEN woken \union {entry[1]} ELSE woken
    /\ UNCHANGED <<cancelled, next_id, wakers, state, waker, id, pc>>

\* A waker unwinds through cancel: the wakers not yet invoked are dropped.
WakePanics(c) ==
    /\ WakersMayPanic
    /\ pc[c] = "wake"
    /\ batch[c] # {}
    /\ batch' = [batch EXCEPT ![c] = {}]
    /\ pc' = [pc EXCEPT ![c] = "unwound"]
    /\ UNCHANGED <<cancelled, next_id, wakers, state, waker, id, woken>>

Return(c) ==
    /\ pc[c] = "wake"
    /\ batch[c] = {}
    /\ pc' = [pc EXCEPT ![c] = "done"]
    /\ UNCHANGED <<cancelled, next_id, wakers, state, waker, id, woken, batch>>

-----------------------------------------------------------------------------
(***************************************************************************)
(* RetryCancelled: creation, poll and drop.                                *)
(***************************************************************************)

\* RetryCancellationToken::cancelled makes another future.
Create(f) ==
    /\ state[f] = "dropped"
    /\ state' = [state EXCEPT ![f] = "new"]
    /\ waker' = [waker EXCEPT ![f] = None]
    /\ woken' = woken \ {f}
    /\ UNCHANGED <<cancelled, next_id, wakers, id, pc, batch>>

Poll(f, w) ==
    /\ state[f] \in {"new", "pending"}
    /\ waker' = [waker EXCEPT ![f] = w]
    /\ woken' = woken \ {f}
    /\ state' = [state EXCEPT ![f] = IF cancelled THEN "ready" ELSE "polling"]
    /\ UNCHANGED <<cancelled, next_id, wakers, id, pc, batch>>

\* WakerRegistry::register keeps an identifier once given, and otherwise takes
\* the first one from next_id on that is free.
Free == {i \in Ids : wakers[i] = None}

Distance(i) == IF i >= next_id THEN i - next_id ELSE i - next_id + IdCount

UnskippedId(f) == IF id[f] # None THEN id[f] ELSE next_id
RegistrationId(f) ==
    IF id[f] # None
    THEN id[f]
    ELSE CHOOSE i \in Free : \A j \in Free : Distance(i) <= Distance(j)

NextId(i) == (i + 1) % IdCount

\* The flag is read again once the waker is in the registry; if it is set the
\* entry is taken back.
LateRegister(f) ==
    LET i == RegistrationId(f) IN
    /\ state[f] = "polling"
    /\ next_id' = IF id[f] = None THEN NextId(i) ELSE next_id
    /\ wakers' = [wakers EXCEPT ![i] = <<f, waker[f]>>]
    /\ id' = [id EXCEPT ![f] = i]
    /\ state' = [state EXCEPT ![f] = "pending"]
    /\ UNCHANGED <<cancelled, waker, woken, pc, batch>>
Register(f) ==
    LET i == RegistrationId(f) IN
    /\ state[f] = "polling"
    /\ next_id' = IF id[f] = None THEN NextId(i) ELSE next_id
    /\ wakers' = [wakers EXCEPT ![i] = IF cancelled THEN None ELSE <<f, waker[f]>>]
    /\ id' = [id EXCEPT ![f] = IF cancelled THEN None ELSE i]
    /\ state' = [state EXCEPT ![f] = IF cancelled THEN "ready" ELSE "pending"]
    /\ UNCHANGED <<cancelled, waker, woken, pc, batch>>

\* A future may be dropped whenever it is not being polled.
KeptRegistered(f) == wakers
Unregistered(f) == IF id[f] = None THEN wakers
                                   ELSE [wakers EXCEPT ![id[f]] = None]

Drop(f) ==
    /\ state[f] \in {"new", "pending", "ready"}
    /\ state' = [state EXCEPT ![f] = "dropped"]
    /\ wakers' = Unregistered(f)
    /\ id' = [id EXCEPT ![f] = None]
    /\ UNCHANGED <<cancelled, next_id, waker, woken, pc, batch>>

-----------------------------------------------------------------------------
Cancelling(c) == Swap(c) \/ Drain(c) \/ Wake(c) \/ WakePanics(c) \/ Return(c)

Waiting(f) ==
    Create(f) \/ Register(f) \/ Drop(f) \/ \E w \in Wakers : Poll(f, w)

Next == \/ \E c \in Cancellers : Cancelling(c)
        \/ \E f \in Futures : Waiting(f)

Spec == Init /\ [][Next]_vars

\* Threads inside cancel and inside a poll run on: a waker returns or unwinds,
\* and the mutex is not held while one is invoked.
FairSpec ==
    /\ Spec
    /\ \A c \in Cancellers : WF_vars(pc[c] # "idle" /\ Cancelling(c))
    /\ \A f \in Futures : WF_vars(Register(f))

-----------------------------------------------------------------------------
(***************************************************************************)
(* Properties.                                                             *)
(***************************************************************************)
\* Type invariant: identifiers stay in the u64 range next_id wraps in.
TypeOK ==
    /\ cancelled \in BOOLEAN
    /\ next_id \in Ids
    /\ wakers \in [Ids -> Entry \union {None}]
    /\ state \in [Futures -> {"new", "polling", "pending", "ready", "dropped"}]
    /\ waker \in [Futures -> Wakers \union {None}]
    /\ id \in [Futures -> Ids \union {None}]
    /\ woken \subseteq Futures
    /\ pc \in [Cancellers -> {"idle", "drain", "wake", "done", "unwound"}]
    /\ batch \in [Cancellers -> SUBSET Entry]

\* Once the thread that cancelled has drained the waiters nobody registers
\* again, during its wakeups or after them: register sees the flag that was set
\* before the drain.
DrainedForGood ==
    (cancelled /\ \A c \in Cancellers : pc[c] # "drain") =>
       \A i \in Ids : wakers[i] = None

\* The registry holds exactly the futures that wait: every entry belongs to one
\* live future that owns its identifier, no drop leaves an entry behind or
\* removes another future's, also when identifiers wrap around onto live ones
\* (the loop in WakerRegistry::register), and once the drain is over it stays
\* empty.
RegistryExact ==
    /\ \A i \in Ids : wakers[i] # None =>
          /\ id[wakers[i][1]] = i
          /\ state[wakers[i][1]] \in {"pending", "polling", "ready"}
    /\ \A f \in Futures : (state[f] = "pending" /\ ~cancelled) =>
          id[f] # None /\ wakers[id[f]] = <<f, waker[f]>>
    /\ DrainedForGood

\* No wakeup is lost between poll and cancel: a pending future whose token is
\* cancelled is in the registry, in the batch being woken, or has been woken
\* through the waker of its latest poll.
NoLostWakeup ==
    \A f \in Futures : (state[f] = "pending" /\ cancelled) =>
       \/ f \in woken
       \/ \E c \in Cancellers : <<f, waker[f]>> \in batch[c]
       \/ /\ \E c \in Cancellers : pc[c] = "drain"
          /\ \E i \in Ids : wakers[i] = <<f, waker[f]>>

\* The token is the latch of CancellationLatch, its promise to the waiting
\* included: whatever the order of polls with changing wakers, drops, the swap,
\* the drain and the wakeups, a future whose task waits when cancel is called is
\* woken through the waker of its latest poll, resolved or dropped, unless a
\* waker unwinds through cancel.
Outcome(f) == CASE state[f] = "pending" -> IF f \in woken THEN "notified" ELSE "waiting"
                [] state[f] = "polling" -> "polled"
                [] state[f] = "new"     -> "open"
                [] OTHER                -> state[f]

Unwound == \E c \in Cancellers : pc[c] = "unwound"

Latch == INSTANCE CancellationLatch
             WITH unwound <- Unwound,
                  outcome <- [f \in Futures |-> Outcome(f)]

ImplementsLatch == Latch!Spec
=============================================================================
