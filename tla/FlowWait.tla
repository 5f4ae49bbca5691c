-------------------------------- MODULE FlowWait --------------------------------
(***************************************************************************)
(* The three waits of a retry flow, composed with the cancellation token   *)
(* they share: wait_for_backoff blocks a thread on a channel, sleep and    *)
(* execute_attempt suspend a task.  Each polls its sources in a fixed      *)
(* order (operation, token, timer), registers one waker with all of them   *)
(* and parks until that waker is invoked.                                  *)
(*                                                                         *)
(* Every flow f owns at most one RetryCancelled future, also called f.     *)
(* Timers and operations are outside the crate: they become ready at any   *)
(* time and then invoke the waker of their latest poll, in a step of its   *)
(* own.                                                                    *)
(***************************************************************************)
EXTENDS RetryCancellation

CONSTANTS
    MaxWaits  \* bound on the waits of one flow

\* What a wait returns.
Outcomes == {"Elapsed", "Cancelled", "TimerFailed", "Completed", "TimedOut"}

ASSUME WaitsAssumption == MaxWaits \in Nat /\ None \notin Outcomes

\* One wait: which function, whether the flow has a token, whether the delay is
\* zero, whether the attempt has a deadline.
Waits ==
    [kind : {"blocking", "sleep"}, token : BOOLEAN, immediate : BOOLEAN,
     timer : {TRUE}]
    \union [kind : {"attempt"}, token : BOOLEAN, immediate : {FALSE},
            timer : BOOLEAN]

Sources == {"timer", "operation"}

Source(s, w) == [state |-> s, waker |-> w]

NoSources == [s \in Sources |-> Source("none", None)]

VARIABLES
    wait,     \* the arguments of each flow's wait
    at,       \* where the flow is in it
    waits,    \* waits begun so far
    task,     \* the waker of the current round of polls
    inbox,    \* wakeups not yet consumed: channel messages, or a task's flag
    source,   \* the timer and the operation
    begun,    \* what was ready when the round began (history)
    outcome   \* what the latest wait returned

waitVars == <<wait, at, waits, task, inbox, source, begun, outcome>>

WaitInit ==
    /\ Init
    /\ wait = [f \in Futures |-> CHOOSE a \in Waits : TRUE]
    /\ at = [f \in Futures |-> "idle"]
    /\ waits = [f \in Futures |-> 0]
    /\ task = [f \in Futures |-> None]
    /\ inbox = [f \in Futures |-> 0]
    /\ source = [f \in Futures |-> NoSources]
    /\ begun = [f \in Futures |-> [cancelled |-> FALSE, operation |-> FALSE]]
    /\ outcome = [f \in Futures |-> None]

-----------------------------------------------------------------------------
Cancelled(f) == wait[f].token /\ cancelled

\* What the flow could see if it looked at its sources now.
Snapshot(f) == [cancelled |-> Cancelled(f),
                operation |-> source[f]["operation"].state = "ready"]

GoTo(f, place) == at' = [at EXCEPT ![f] = place]

Finish(f, o) == outcome' = [outcome EXCEPT ![f] = o] /\ GoTo(f, "leave")

\* A wait that watches the token makes its future; nothing happens without one.
NewFuture(f, a) == IF a.token THEN Create(f) ELSE UNCHANGED vars

\* The caller starts a wait.  The waker of a blocking wait is a new one, so
\* that a late wakeup of an earlier wait reaches nobody.
Enter(f, a) ==
    /\ at[f] = "idle"
    /\ waits[f] < MaxWaits
    /\ waits' = [waits EXCEPT ![f] = @ + 1]
    /\ wait' = [wait EXCEPT ![f] = a]
    /\ \E w \in Wakers \ {task[f]} : task' = [task EXCEPT ![f] = w]
    /\ inbox' = [inbox EXCEPT ![f] = 0]
    /\ begun' = [begun EXCEPT ![f] = [cancelled |-> a.token /\ cancelled,
                                      operation |-> FALSE]]
    /\ outcome' = [outcome EXCEPT ![f] = None]
    /\ IF a.kind = "attempt"
       THEN /\ GoTo(f, "operation")
            /\ source' = [source EXCEPT ![f] =
                  [s \in Sources |-> IF s = "operation" \/ a.timer
                                     THEN Source("pending", None)
                                     ELSE Source("none", None)]]
            /\ NewFuture(f, a)
       ELSE GoTo(f, "check") /\ UNCHANGED <<source, vars>>

\* The look at the token before anything else.
Check(f) ==
    /\ at[f] = "check"
    /\ \/ Cancelled(f) /\ Finish(f, "Cancelled")
       \/ ~Cancelled(f) /\ ~wait[f].immediate /\ GoTo(f, "arm") /\ UNCHANGED outcome
       \/ /\ ~Cancelled(f) /\ wait[f].immediate
          /\ IF wait[f].kind = "blocking"
             THEN Finish(f, "Elapsed")
             ELSE GoTo(f, "yield") /\ UNCHANGED outcome
    /\ UNCHANGED <<vars, wait, waits, task, inbox, source, begun>>

\* yield_once wakes its own task and parks.
SilentYieldOnce(f) ==
    /\ at[f] = "yield"
    /\ GoTo(f, "parked")
    /\ UNCHANGED <<vars, wait, waits, task, inbox, source, begun, outcome>>
YieldOnce(f) ==
    /\ at[f] = "yield"
    /\ inbox' = [inbox EXCEPT ![f] = @ + 1]
    /\ GoTo(f, "parked")
    /\ UNCHANGED <<vars, wait, waits, task, source, begun, outcome>>

\* After an immediate retry has yielded, and after a refused registration, the
\* token is looked at once more.
UncheckedResult(f) == IF at[f] = "yielded" THEN "Elapsed" ELSE "TimerFailed"
RecheckResult(f) == IF Cancelled(f) THEN "Cancelled"
                    ELSE IF at[f] = "yielded" THEN "Elapsed" ELSE "TimerFailed"

Recheck(f) ==
    /\ at[f] \in {"yielded", "refused"}
    /\ Finish(f, RecheckResult(f))
    /\ UNCHANGED <<vars, wait, waits, task, inbox, source, begun>>

\* timer.at(deadline).
Arm(f) ==
    /\ at[f] = "arm"
    /\ GoTo(f, "token")
    /\ source' = [source EXCEPT ![f]["timer"] = Source("pending", None)]
    /\ begun' = [begun EXCEPT ![f] = Snapshot(f)]
    /\ UNCHANGED <<wait, waits, task, inbox, outcome>>
    /\ NewFuture(f, wait[f])

ArmFails(f) ==
    /\ at[f] = "arm"
    /\ GoTo(f, "refused")
    /\ begun' = [begun EXCEPT ![f] = Snapshot(f)]
    /\ UNCHANGED <<vars, wait, waits, task, inbox, source, outcome>>

-----------------------------------------------------------------------------
(***************************************************************************)
(* One round of polls.                                                     *)
(***************************************************************************)

\* A pending source keeps the waker it was polled with.
Polled(f, s) == [source EXCEPT ![f][s].waker = task[f]]

PollOperation(f) ==
    /\ at[f] = "operation"
    /\ IF source[f]["operation"].state = "ready"
       THEN Finish(f, "Completed") /\ UNCHANGED source
       ELSE /\ GoTo(f, "token")
            /\ source' = Polled(f, "operation")
            /\ UNCHANGED outcome
    /\ UNCHANGED <<vars, wait, waits, task, inbox, begun>>

\* The flow's future is polled, in two steps, or there is none.
PollToken(f) ==
    /\ at[f] = "token"
    /\ \/ /\ wait[f].token
          /\ Poll(f, task[f]) \/ Register(f)
          /\ CASE state'[f] = "ready"   -> Finish(f, "Cancelled")
               [] state'[f] = "pending" -> GoTo(f, "timer") /\ UNCHANGED outcome
               [] OTHER                 -> UNCHANGED <<at, outcome>>
       \/ /\ ~wait[f].token
          /\ GoTo(f, "timer")
          /\ UNCHANGED <<vars, outcome>>
    /\ UNCHANGED <<wait, waits, task, inbox, source, begun>>

PollTimer(f) ==
    LET timer == source[f]["timer"].state IN
    /\ at[f] = "timer"
    /\ \/ /\ timer \in {"ready", "failed"}
          /\ Finish(f, IF timer = "failed" THEN "TimerFailed"
                       ELSE IF wait[f].kind = "attempt" THEN "TimedOut" ELSE "Elapsed")
          /\ UNCHANGED source
       \/ /\ timer = "pending"
          /\ source' = Polled(f, "timer")
          /\ GoTo(f, "parked") /\ UNCHANGED outcome
       \/ /\ timer = "none"
          /\ GoTo(f, "parked") /\ UNCHANGED <<source, outcome>>
    /\ UNCHANGED <<vars, wait, waits, task, inbox, begun>>

\* recv takes one message; an executor clears the task's flag, polls it with a
\* waker of its choice, and may do so without a wakeup.
Consumed(f) == IF wait[f].kind = "blocking" THEN inbox[f] - 1 ELSE 0
FirstPoll(f) == CASE wait[f].kind = "attempt" -> "operation"
                  [] wait[f].immediate        -> "yielded"
                  [] OTHER                    -> "token"

Wakeable(f) == wait[f].kind = "blocking" => inbox[f] > 0

Resume(f) ==
    /\ at[f] = "parked"
    /\ Wakeable(f)
    /\ inbox' = [inbox EXCEPT ![f] = Consumed(f)]
    /\ \E w \in IF wait[f].kind = "blocking" THEN {task[f]} ELSE Wakers :
          task' = [task EXCEPT ![f] = w]
    /\ GoTo(f, FirstPoll(f))
    /\ begun' = [begun EXCEPT ![f] = Snapshot(f)]
    /\ UNCHANGED <<vars, wait, waits, source, outcome>>

\* The function returns and drops its futures.
Leave(f) ==
    /\ at[f] = "leave"
    /\ GoTo(f, "idle")
    /\ source' = [source EXCEPT ![f] = NoSources]
    /\ IF state[f] = "dropped" THEN UNCHANGED vars ELSE Drop(f)
    /\ UNCHANGED <<wait, waits, task, inbox, begun, outcome>>

\* The caller drops a suspended asynchronous wait.
Abandon(f) ==
    /\ at[f] = "parked"
    /\ wait[f].kind # "blocking"
    /\ GoTo(f, "leave")
    /\ UNCHANGED <<vars, wait, waits, task, inbox, source, begun, outcome>>

-----------------------------------------------------------------------------
(***************************************************************************)
(* The environment: the token's other users, timers and operations.        *)
(***************************************************************************)

\* A waker reaches its flow unless the flow has moved on to another one.
Delivered(f, w) ==
    [inbox EXCEPT ![f] = IF w = task[f] /\ at[f] \notin {"idle", "leave"}
                         THEN @ + 1 ELSE @]

\* cancel on another thread; invoking a waker sends to its channel.
CancelStep(c) ==
    \/ (Swap(c) \/ Drain(c) \/ Return(c)) /\ UNCHANGED waitVars
    \/ /\ Wake(c)
       /\ \E e \in batch[c] \ batch'[c] : inbox' = Delivered(e[1], e[2])
       /\ UNCHANGED <<wait, at, waits, task, source, begun, outcome>>

BecomeReady(f, s) ==
    /\ source[f][s].state = "pending"
    /\ \E r \in IF s = "timer" THEN {"ready", "failed"} ELSE {"ready"} :
          source' = [source EXCEPT ![f][s].state = r]
    /\ UNCHANGED <<vars, wait, at, waits, task, inbox, begun, outcome>>

Notify(f, s) ==
    /\ source[f][s].state \in {"ready", "failed"}
    /\ source[f][s].waker # None
    /\ source' = [source EXCEPT ![f][s].waker = None]
    /\ inbox' = Delivered(f, source[f][s].waker)
    /\ UNCHANGED <<vars, wait, at, waits, task, begun, outcome>>

Running(f) ==
    \/ Check(f) \/ YieldOnce(f) \/ Recheck(f) \/ Arm(f) \/ ArmFails(f)
    \/ PollOperation(f) \/ PollToken(f) \/ PollTimer(f) \/ Leave(f)

WaitNext ==
    \/ \E f \in Futures :
          \/ \E a \in Waits : Enter(f, a)
          \/ Running(f) \/ Resume(f) \/ Abandon(f)
          \/ \E s \in Sources : BecomeReady(f, s) \/ Notify(f, s)
    \/ \E c \in Cancellers : CancelStep(c)

allVars == <<vars, waitVars>>

WaitSpec == WaitInit /\ [][WaitNext]_allVars

\* Threads inside a function keep running and an executor polls a task that was
\* woken; timers fire and invoke their wakers.  An operation need not end.
WaitFairness ==
    /\ \A f \in Futures :
          /\ WF_allVars(Running(f))
          /\ WF_allVars(inbox[f] > 0 /\ Resume(f))
          /\ WF_allVars(BecomeReady(f, "timer"))
          /\ \A s \in Sources : WF_allVars(Notify(f, s))
    /\ \A c \in Cancellers : WF_allVars(pc[c] # "idle" /\ CancelStep(c))

WaitFairSpec == WaitSpec /\ WaitFairness

-----------------------------------------------------------------------------
(***************************************************************************)
(* Properties.                                                             *)
(***************************************************************************)

Stages == {"idle", "check", "arm", "refused", "yield", "yielded", "operation",
           "token", "timer", "parked", "leave"}

SourceState == [state : {"none", "pending", "ready", "failed"},
                waker : Wakers \union {None}]

\* Type invariant.
WaitTypeOK ==
    /\ TypeOK
    /\ wait \in [Futures -> Waits]
    /\ at \in [Futures -> Stages]
    /\ waits \in [Futures -> 0 .. MaxWaits]
    /\ task \in [Futures -> Wakers \union {None}]
    /\ inbox \in [Futures -> Nat]
    /\ source \in [Futures -> [Sources -> SourceState]]
    /\ begun \in [Futures -> [cancelled : BOOLEAN, operation : BOOLEAN]]
    /\ outcome \in [Futures -> Outcomes \union {None}]

\* A wakeup through w is still under way to flow f.
Coming(f, w) ==
    \/ \E s \in Sources : source[f][s].state \in {"ready", "failed"}
                          /\ source[f][s].waker = w
    \/ \E c \in Cancellers :
          \/ <<f, w>> \in batch[c]
          \/ pc[c] = "drain" /\ \E i \in Ids : wakers[i] = <<f, w>>

\* A flow that blocks in recv, or whose task is suspended, never sleeps through
\* something it waits for: if its operation or its timer is ready or its token
\* cancelled, a wakeup is in the channel or on its way through the waker of the
\* latest round (the loop around recv in wait_for_backoff, and the polls of
\* sleep and execute_attempt).
NoMissedWakeup ==
    \A f \in Futures :
       /\ at[f] = "parked"
       /\ \/ Cancelled(f)
          \/ \E s \in Sources : source[f][s].state \in {"ready", "failed"}
       => inbox[f] > 0 \/ Coming(f, task[f])

\* Cancellation that happened before the last round of polls decides the wait:
\* no delay elapses, no attempt times out and no timer failure is reported over
\* it.  Only a finished operation comes before it, and always does.
OutcomeOrder ==
    \A f \in Futures :
       /\ outcome[f] \in {"Elapsed", "TimedOut", "TimerFailed"} =>
             ~begun[f].cancelled /\ ~begun[f].operation
       /\ outcome[f] = "Cancelled" => cancelled /\ ~begun[f].operation

\* A returned or dropped wait leaves no waker in the token's registry, whether
\* it ended by cancellation, by its timer or by its operation.
NothingLeftRegistered ==
    \A f \in Futures : at[f] = "idle" =>
       \A i \in Ids : wakers[i] = None \/ wakers[i][1] # f

\* Every wait that has a timer ends, and so does every wait whose token is
\* cancelled, whatever its operation does.
WaitEnds ==
    \A f \in Futures :
       (at[f] # "idle" /\ (wait[f].timer \/ Cancelled(f))) ~> (at[f] = "idle")
=============================================================================
