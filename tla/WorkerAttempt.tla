----------------------------- MODULE WorkerAttempt -----------------------------
(***************************************************************************)
(* The threads of one WorkerRetry flow: the runner that waits for each     *)
(* attempt (WorkerAttemptExecutor::run, wait_for_worker), the worker that  *)
(* calls the operation behind a start gate, the reaper that joins it, and  *)
(* the token and timer that wake the runner through the same channel.      *)
(*                                                                         *)
(* An action of the runner ends where it reads state that another thread   *)
(* changes.  Both timeout scopes are the trigger "Timeout".  What the      *)
(* controller makes of an outcome is RetryFlow's; here it only chooses     *)
(* whether another attempt follows.  Joining, channels and threads are     *)
(* those of std.                                                           *)
(***************************************************************************)
EXTENDS Integers, Sequences

CONSTANTS
    Attempts,  \* the largest number of attempts of the flow
    Graces,    \* the cancellation graces a flow may be configured with
    None

ASSUME AttemptsAssumption == Attempts \in Nat \ {0}

\* A zero grace looks once, a finite one may expire at any time, and one whose
\* deadline Instant cannot represent never expires.
ASSUME GracesAssumption == Graces \subseteq {"zero", "finite", "unbounded"}

\* What an operation returns, why the runner stops a worker, and what the
\* executor makes of the attempt (BlockingAttemptOutcome).
Results  == {"Ok", "Err", "Panicked"}
Triggers == {"Cancellation", "Timeout", "TimerFailure"}
Outcomes == {"Completed", "Stopped", "TimerFailed", "WorkerStillRunning",
             "WorkerSpawnFailed", "Rejected"}

ASSUME NoneAssumption == None \notin Results \union Triggers \union Outcomes

Attempt == 1 .. Attempts

VARIABLES
    grace,      \* cancellation_grace of the flow
    cancelled,  \* the flow's RetryCancellationToken
    waiter,     \* attempt whose waker is registered with the token, or 0
    pc,         \* where the runner is
    attempt,    \* the attempt the runner is in
    admitted,   \* attempts committed by the controller
    gate,       \* start_sender of each attempt: unused, open, passed or closed
    worker,     \* where each attempt's worker thread is
    returned,   \* what each attempt's operation returned
    unwound,    \* attempts whose worker thread ended by unwinding
    reaper,     \* where each attempt's reaper thread is
    stop,       \* attempts whose AttemptCancellationToken is cancelled
    timer,      \* timer of the current attempt: none, armed, fired or failed
    polled,     \* whether the timer holds the runner's waker
    queue,      \* events in the channel of the current attempt
    completed,  \* wait_for_worker's completed
    joined,     \* wait_for_worker's joined
    trigger,    \* why the runner stops the worker
    outcome,    \* BlockingAttemptOutcome of the latest attempt
    value,      \* BlockingValueOperation.value: the attempt that stored it, or 0
    success     \* the attempt whose value the flow returned, or 0

vars == <<grace, cancelled, waiter, pc, attempt, admitted, gate, worker,
          returned, unwound, reaper, stop, timer, polled, queue, completed,
          joined, trigger, outcome, value, success>>

threads == <<gate, worker, returned, unwound, reaper, value>>
waiting == <<polled, queue, completed, joined>>
flow    == <<grace, attempt, admitted, success>>

-----------------------------------------------------------------------------
(***************************************************************************)
(* The channel.  The worker and the reaper own a sender each; wakers hold  *)
(* a weak one.  Events for an attempt that is over go nowhere.             *)
(***************************************************************************)
Listening == pc \notin {"SpawnWorker", "Outcome", "Ended"}

Send(a, event) == queue' = IF a = attempt /\ Listening
                           THEN Append(queue, event)
                           ELSE queue

\* The runner gives up its own sender when it releases the worker.
Disconnected == /\ pc \in {"Check", "PollTimer", "Receive", "Grace"}
                /\ worker[attempt] = "exited"
                /\ reaper[attempt] = "gone"

Notify(a) == IF Disconnected THEN UNCHANGED queue ELSE Send(a, "Wake")

Init ==
    /\ grace \in Graces
    /\ cancelled = FALSE
    /\ waiter = 0
    /\ pc = "SpawnWorker"
    /\ attempt = 1
    /\ admitted = {}
    /\ gate = [a \in Attempt |-> "unused"]
    /\ worker = [a \in Attempt |-> "none"]
    /\ returned = [a \in Attempt |-> None]
    /\ unwound = {}
    /\ reaper = [a \in Attempt |-> "none"]
    /\ stop = {}
    /\ timer \in {"none", "armed"}
    /\ polled = FALSE
    /\ queue = <<>>
    /\ completed = None
    /\ joined = FALSE
    /\ trigger = None
    /\ outcome = None
    /\ value = 0
    /\ success = 0

-----------------------------------------------------------------------------
(***************************************************************************)
(* The runner up to the release of the worker.                             *)
(***************************************************************************)

\* The executor returns; its receiver and its cancellation future are dropped.
Leave(result) ==
    /\ pc' = "Outcome"
    /\ outcome' = result
    /\ waiter' = 0

UngatedSpawn ==
    /\ pc = "SpawnWorker"
    /\ gate' = [gate EXCEPT ![attempt] = "open"]
    /\ worker' = [worker EXCEPT ![attempt] = "running"]
    /\ pc' = "SpawnReaper"
    /\ UNCHANGED <<flow, waiting, cancelled, waiter, outcome, returned, unwound,
                   reaper, value, stop, timer, trigger>>
SpawnWorker ==
    /\ pc = "SpawnWorker"
    /\ \/ /\ gate' = [gate EXCEPT ![attempt] = "open"]
          /\ worker' = [worker EXCEPT ![attempt] = "gate"]
          /\ pc' = "SpawnReaper"
          /\ UNCHANGED <<outcome, waiter>>
       \/ /\ Leave("WorkerSpawnFailed")
          /\ UNCHANGED <<gate, worker>>
    /\ UNCHANGED <<flow, waiting, cancelled, returned, unwound, reaper, value,
                   stop, timer, trigger>>

\* A failed spawn drops the only join handle and closes the gate.
SpawnReaper ==
    /\ pc = "SpawnReaper"
    /\ \/ /\ reaper' = [reaper EXCEPT ![attempt] = "joining"]
          /\ pc' = "Register"
          /\ UNCHANGED <<gate, outcome, waiter>>
       \/ /\ gate' = [gate EXCEPT ![attempt] = "closed"]
          /\ Leave("WorkerSpawnFailed")
          /\ UNCHANGED reaper
    /\ UNCHANGED <<flow, waiting, cancelled, worker, returned, unwound, value,
                   stop, timer, trigger>>

\* register_cancellation_waker polls the cancellation future once.
ForgetfulRegister ==
    /\ pc = "Register"
    /\ pc' = "Prepare"
    /\ UNCHANGED <<flow, threads, waiting, cancelled, waiter, stop, timer,
                   trigger, outcome>>
RegisterCancellationWaker ==
    /\ pc = "Register"
    /\ pc' = "Prepare"
    /\ IF cancelled
       THEN Send(attempt, "Wake") /\ UNCHANGED waiter
       ELSE waiter' = attempt /\ UNCHANGED queue
    /\ UNCHANGED <<flow, threads, cancelled, polled, completed, joined, stop,
                   timer, trigger, outcome>>

\* The controller commits the attempt, for which the token must not be
\* cancelled, or rejects it.
Prepare ==
    /\ pc = "Prepare"
    /\ \/ /\ ~cancelled
          /\ admitted' = admitted \union {attempt}
          /\ pc' = "Release"
          /\ UNCHANGED <<gate, outcome, waiter>>
       \/ /\ gate' = [gate EXCEPT ![attempt] = "closed"]
          /\ Leave("Rejected")
          /\ UNCHANGED admitted
    /\ UNCHANGED <<waiting, grace, attempt, success, cancelled, worker,
                   returned, unwound, reaper, value, stop, timer, trigger>>

\* A rendezvous: the start channel has no buffer, and a worker leaves an open
\* gate only through it.
Release ==
    /\ pc = "Release"
    /\ worker[attempt] = "gate"
    /\ gate' = [gate EXCEPT ![attempt] = "passed"]
    /\ worker' = [worker EXCEPT ![attempt] = "running"]
    /\ pc' = "Check"
    /\ UNCHANGED <<flow, waiting, cancelled, waiter, returned, unwound, reaper,
                   value, stop, timer, trigger, outcome>>

-----------------------------------------------------------------------------
(***************************************************************************)
(* wait_for_worker, stop_worker and observe_worker_exit.                   *)
(***************************************************************************)

\* The outcome of a worker that was stopped and has exited.
Exited(why) == IF why = "TimerFailure" THEN "TimerFailed" ELSE "Stopped"

\* Cancel the attempt's token; proof of exit may be there already.
SilentStop(why) ==
    /\ trigger' = why
    /\ IF joined
       THEN Leave(Exited(why))
       ELSE pc' = "Grace" /\ UNCHANGED <<outcome, waiter>>
    /\ UNCHANGED stop
StopWorker(why) ==
    /\ stop' = stop \union {attempt}
    /\ trigger' = why
    /\ IF joined
       THEN Leave(Exited(why))
       ELSE pc' = "Grace" /\ UNCHANGED <<outcome, waiter>>

CheckCancellation ==
    /\ pc = "Check"
    /\ \/ /\ cancelled
          /\ StopWorker("Cancellation")
       \/ /\ ~cancelled
          /\ pc' = "PollTimer"
          /\ UNCHANGED <<stop, trigger, outcome, waiter>>
    /\ UNCHANGED <<flow, threads, waiting, cancelled, timer>>

\* A pending timer keeps the waker it was polled with.
DropsWaker == FALSE
KeepsWaker == timer = "armed"

\* A result is taken only with the proof that its thread has exited.
Collected == joined /\ completed # None

PollTimer ==
    /\ pc = "PollTimer"
    /\ \/ /\ timer = "fired"
          /\ StopWorker("Timeout")
          /\ UNCHANGED polled
       \/ /\ timer = "failed"
          /\ StopWorker("TimerFailure")
          /\ UNCHANGED polled
       \/ /\ timer \in {"none", "armed"}
          /\ polled' = KeepsWaker
          /\ IF Collected
             THEN Leave("Completed")
             ELSE pc' = "Receive" /\ UNCHANGED <<outcome, waiter>>
          /\ UNCHANGED <<stop, trigger>>
    /\ UNCHANGED <<flow, threads, cancelled, timer, queue, completed, joined>>

\* What is known of the result after an event.  A thread that unwound is a
\* failed attempt, whatever it sent before.
UnreportedUnwind(event) ==
    IF event = "Completed" THEN returned[attempt] ELSE completed
ResultAfter(event) == CASE event = "Completed"     -> returned[attempt]
                        [] event = "JoinedUnwound" -> "Panicked"
                        [] OTHER                   -> completed

Receive ==
    /\ pc = "Receive"
    /\ queue # <<>>
    /\ queue' = Tail(queue)
    /\ completed' = ResultAfter(Head(queue))
    /\ joined' = (joined \/ Head(queue) \in {"Joined", "JoinedUnwound"})
    /\ pc' = "Check"
    /\ UNCHANGED <<flow, threads, cancelled, waiter, stop, timer, polled,
                   trigger, outcome>>

\* Only a joined thread has exited.
ResultIsProof(event) == event \in {"Completed", "Joined", "JoinedUnwound"}
ExitProof(event) == event \in {"Joined", "JoinedUnwound"}

ObserveWorkerExit ==
    /\ pc = "Grace"
    /\ queue # <<>>
    /\ queue' = Tail(queue)
    /\ IF ExitProof(Head(queue))
       THEN Leave(Exited(trigger))
       ELSE UNCHANGED <<pc, outcome, waiter>>
    /\ UNCHANGED <<flow, threads, cancelled, stop, timer, polled, completed,
                   joined, trigger>>

\* A finite grace may run out with events still queued.
GraceExpired ==
    /\ pc = "Grace"
    /\ \/ grace = "finite"
       \/ grace = "zero" /\ queue = <<>>
    /\ Leave("WorkerStillRunning")
    /\ UNCHANGED <<flow, threads, waiting, cancelled, stop, timer, trigger>>

-----------------------------------------------------------------------------
(***************************************************************************)
(* WorkerRetry::run_inner on the outcome.                                  *)
(***************************************************************************)

\* A result that will not be used is dropped once its thread has exited.
KeepStopped == outcome = "Completed" /\ completed # "Ok"
Discards == \/ outcome = "Completed" /\ completed # "Ok"
            \/ outcome \in {"Stopped", "TimerFailed"}

End == pc' = "Ended" /\ UNCHANGED <<attempt, timer, polled, queue, completed,
                                    joined, trigger, outcome>>

\* finish_success may reject the clock and then leaves the value in its slot.
Succeed ==
    /\ pc = "Outcome"
    /\ outcome = "Completed" /\ completed = "Ok"
    /\ \/ success' = value /\ value' = 0
       \/ UNCHANGED <<success, value>>
    /\ End
    /\ UNCHANGED <<grace, cancelled, waiter, admitted, gate, worker, returned,
                   unwound, reaper, stop>>

GiveUp ==
    /\ pc = "Outcome"
    /\ ~(outcome = "Completed" /\ completed = "Ok")
    /\ value' = IF Discards THEN 0 ELSE value
    /\ End
    /\ UNCHANGED <<grace, cancelled, waiter, admitted, success, gate, worker,
                   returned, unwound, reaper, stop>>

\* A failed or timed-out attempt may be followed by another, admission of which
\* starts with an uncancelled token.
Retry ==
    /\ pc = "Outcome"
    /\ \/ outcome = "Completed" /\ completed # "Ok"
       \/ outcome = "Stopped" /\ trigger = "Timeout"
    /\ ~cancelled
    /\ attempt < Attempts
    /\ value' = IF Discards THEN 0 ELSE value
    /\ attempt' = attempt + 1
    /\ pc' = "SpawnWorker"
    /\ timer' \in {"none", "armed"}
    /\ polled' = FALSE
    /\ queue' = <<>>
    /\ completed' = None
    /\ joined' = FALSE
    /\ trigger' = None
    /\ outcome' = None
    /\ UNCHANGED <<grace, cancelled, waiter, admitted, success, gate, worker,
                   returned, unwound, reaper, stop>>

-----------------------------------------------------------------------------
(***************************************************************************)
(* The worker and reaper threads of attempt a.                             *)
(***************************************************************************)
runner == <<flow, cancelled, waiter, pc, stop, timer, polled, completed, joined,
            trigger, outcome>>

\* The gate closed before the worker was released.
LeaveGate(a) ==
    /\ worker[a] = "gate"
    /\ gate[a] = "closed"
    /\ worker' = [worker EXCEPT ![a] = "exited"]
    /\ UNCHANGED <<runner, gate, returned, unwound, reaper, value, queue>>

\* The operation returns or panics; a successful value goes to the slot.
OperationReturns(a) ==
    /\ worker[a] = "running"
    /\ \E result \in Results :
          /\ returned' = [returned EXCEPT ![a] = result]
          /\ value' = IF result = "Ok" THEN a ELSE value
    /\ worker' = [worker EXCEPT ![a] = "returned"]
    /\ UNCHANGED <<runner, gate, unwound, reaper, queue>>

SendCompleted(a) ==
    /\ worker[a] = "returned"
    /\ worker' = [worker EXCEPT ![a] = "leaving"]
    /\ Send(a, "Completed")
    /\ UNCHANGED <<runner, gate, returned, unwound, reaper, value>>

\* Destructors run; one of them may unwind, also before the result is sent.
WorkerExits(a) ==
    /\ \/ worker[a] = "leaving" /\ UNCHANGED unwound
       \/ worker[a] \in {"returned", "leaving"} /\ unwound' = unwound \union {a}
    /\ worker' = [worker EXCEPT ![a] = "exited"]
    /\ UNCHANGED <<runner, gate, returned, reaper, value, queue>>

ReapStopped(a) ==
    /\ a \in stop
    /\ reaper[a] = "joining"
    /\ worker[a] = "exited"
    /\ reaper' = [reaper EXCEPT ![a] = "gone"]
    /\ Send(a, IF a \in unwound THEN "JoinedUnwound" ELSE "Joined")
    /\ UNCHANGED <<runner, gate, worker, returned, unwound, value>>
Reap(a) ==
    /\ reaper[a] = "joining"
    /\ worker[a] = "exited"
    /\ reaper' = [reaper EXCEPT ![a] = "gone"]
    /\ Send(a, IF a \in unwound THEN "JoinedUnwound" ELSE "Joined")
    /\ UNCHANGED <<runner, gate, worker, returned, unwound, value>>

-----------------------------------------------------------------------------
(***************************************************************************)
(* The token and the timer.                                                *)
(***************************************************************************)
Cancel ==
    /\ ~cancelled
    /\ cancelled' = TRUE
    /\ UNCHANGED <<flow, threads, waiting, waiter, pc, stop, timer, trigger,
                   outcome>>

\* The canceller goes on to invoke the registered waker.
CancelWakes ==
    /\ cancelled
    /\ waiter # 0
    /\ waiter' = 0
    /\ Notify(waiter)
    /\ UNCHANGED <<flow, threads, cancelled, pc, stop, timer, polled, completed,
                   joined, trigger, outcome>>

TimerReady ==
    /\ timer = "armed"
    /\ pc \notin {"Outcome", "Ended"}
    /\ timer' \in {"fired", "failed"}
    /\ IF polled THEN Notify(attempt) ELSE UNCHANGED queue
    /\ UNCHANGED <<flow, threads, cancelled, waiter, pc, stop, polled, completed,
                   joined, trigger, outcome>>

Done == pc = "Ended" /\ UNCHANGED vars

Runner ==
    \/ SpawnWorker \/ SpawnReaper \/ RegisterCancellationWaker \/ Prepare
    \/ Release \/ CheckCancellation \/ PollTimer \/ Receive
    \/ ObserveWorkerExit \/ GraceExpired \/ Succeed \/ GiveUp \/ Retry

Leaving(a) == LeaveGate(a) \/ SendCompleted(a) \/ WorkerExits(a)

Next ==
    \/ Runner
    \/ \E a \in Attempt : Leaving(a) \/ OperationReturns(a) \/ Reap(a)
    \/ Cancel
    \/ CancelWakes
    \/ TimerReady
    \/ Done

Spec == Init /\ [][Next]_vars

\* Threads of the library keep running and a cancelling thread finishes its
\* call; the operation need not return, the token need not be cancelled and a
\* timer need not fire.
Fairness ==
    /\ WF_vars(Runner)
    /\ \A a \in Attempt : WF_vars(Leaving(a)) /\ WF_vars(Reap(a))
    /\ WF_vars(CancelWakes)

FairSpec == Spec /\ Fairness

\* An operation that cooperates returns once its attempt token is cancelled.
CooperativeSpec ==
    /\ FairSpec
    /\ \A a \in Attempt : WF_vars(a \in stop /\ OperationReturns(a))

-----------------------------------------------------------------------------
(***************************************************************************)
(* Properties.                                                             *)
(***************************************************************************)

\* Type invariant.
TypeOK ==
    /\ grace \in Graces
    /\ cancelled \in BOOLEAN
    /\ waiter \in 0 .. Attempts
    /\ pc \in {"SpawnWorker", "SpawnReaper", "Register", "Prepare", "Release",
               "Check", "PollTimer", "Receive", "Grace", "Outcome", "Ended"}
    /\ attempt \in Attempt
    /\ admitted \subseteq Attempt
    /\ gate \in [Attempt -> {"unused", "open", "passed", "closed"}]
    /\ worker \in [Attempt -> {"none", "gate", "running", "returned", "leaving",
                               "exited"}]
    /\ returned \in [Attempt -> Results \union {None}]
    /\ unwound \subseteq Attempt
    /\ reaper \in [Attempt -> {"none", "joining", "gone"}]
    /\ stop \subseteq Attempt
    /\ timer \in {"none", "armed", "fired", "failed"}
    /\ polled \in BOOLEAN
    /\ queue \in Seq({"Completed", "Joined", "JoinedUnwound", "Wake"})
    /\ completed \in Results \union {None}
    /\ joined \in BOOLEAN
    /\ trigger \in Triggers \union {None}
    /\ outcome \in Outcomes \union {None}
    /\ value \in 0 .. Attempts
    /\ success \in 0 .. Attempts

\* A worker whose operation, or the destructors after it, may still run.
Alive(a) == worker[a] \in {"running", "returned", "leaving"}

\* The flow never starts another worker while an earlier one may be alive, and
\* reports a result or a clean stop only of a thread that has exited.
ExclusiveWorker ==
    /\ \A a \in Attempt : a < attempt => worker[a] = "exited"
    /\ outcome \in {"Completed", "Stopped", "TimerFailed"} =>
          worker[attempt] = "exited"

\* User code runs only for an attempt the controller has admitted: a failed
\* spawn or a rejected admission leaves the worker behind its gate for good.
GateHolds ==
    \A a \in Attempt :
       /\ Alive(a) \/ returned[a] # None => a \in admitted
       /\ a = attempt /\ outcome \in {"WorkerSpawnFailed", "Rejected"} =>
             ~Alive(a) /\ a \notin admitted

\* The shared value slot never carries a value across attempts, and the value
\* of a successful flow is the one its last attempt stored, so take_value
\* always finds it.
ValueFresh ==
    /\ value # 0 => value = attempt
    /\ (pc = "Outcome" /\ outcome = "Completed" /\ completed = "Ok") =>
          value = attempt
    /\ success # 0 => success = attempt /\ returned[attempt] = "Ok"

\* The channel protocol is never found broken: while the runner waits for an
\* event, an event is queued or a thread that will send one is there.
ChannelStaysOpen ==
    (pc \in {"Receive", "Grace"} /\ queue = <<>>) => ~Disconnected

\* Cancellation ends the flow even if the operation never returns: the waker
\* registered before admission, or the look at the token before each wait,
\* gets the runner out of the channel, and the grace bounds the rest.
CancellationEnds == (cancelled /\ grace # "unbounded") ~> (pc = "Ended")

\* With an operation that watches its attempt token, cancellation ends the flow
\* under any grace, an unbounded one included.
CooperativeEnds == cancelled ~> (pc = "Ended")

\* A timer that fires or fails while the runner waits ends the attempt, even
\* if the operation never returns.
TimerEnds ==
    \A a \in Attempt :
       (/\ attempt = a /\ pc = "Receive" /\ timer \in {"fired", "failed"}
        /\ grace # "unbounded")
          ~> (attempt # a \/ pc \in {"Outcome", "Ended"})

\* An operation that returns ends its attempt without timer or token.
ResultEnds ==
    \A a \in Attempt :
       (attempt = a /\ worker[a] = "returned") ~> (attempt # a \/ pc = "Ended")
=============================================================================
