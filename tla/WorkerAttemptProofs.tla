-------------------------- MODULE WorkerAttemptProofs --------------------------
(***************************************************************************)
(* Proofs about WorkerAttempt for any number of attempts and any grace: no *)
(* worker starts while an earlier one may be alive, user code runs only    *)
(* for admitted attempts, the value slot never carries a value across      *)
(* attempts, and the runner never finds its channel closed.                *)
(***************************************************************************)
EXTENDS WorkerAttempt, SequenceTheorems, TLAPS

Events == {"Completed", "Joined", "JoinedUnwound", "Wake"}

\* An event is in the channel of the current attempt.
Queued(event) == \E i \in DOMAIN queue : queue[i] = event

ExitQueued == Queued("Joined") \/ Queued("JoinedUnwound")

\* The runner watches a released worker.
Watching == {"Check", "PollTimer", "Receive", "Grace"}

\* Nothing has been done for attempt a.
Untouched(a) == /\ worker[a] = "none" /\ reaper[a] = "none" /\ gate[a] = "unused"
                /\ returned[a] = None /\ a \notin admitted /\ a \notin unwound

\* How far the threads of attempt a can be.
Thread(a) ==
    /\ a > attempt => Untouched(a)
    /\ a < attempt => worker[a] = "exited"
    /\ worker[a] \in {"none", "gate", "running"} =>
          returned[a] = None /\ reaper[a] # "gone" /\ a \notin unwound
    /\ Alive(a) \/ returned[a] # None => a \in admitted
    /\ worker[a] \in {"returned", "leaving"} => returned[a] # None
    /\ Alive(a) => gate[a] = "passed"
    /\ worker[a] = "exited" /\ gate[a] = "passed" => returned[a] # None
    /\ reaper[a] = "gone" => worker[a] = "exited"

ThreadsInv == \A a \in Attempt : Thread(a)

\* Where the current attempt is while the runner is at pc.
RunnerInv ==
    /\ pc = "SpawnWorker" => /\ Untouched(attempt)
                             /\ queue = <<>> /\ ~joined /\ completed = None
    /\ pc \in {"SpawnReaper", "Register", "Prepare"} =>
          worker[attempt] = "gate" /\ gate[attempt] = "open" /\ attempt \notin admitted
    /\ pc = "Release" =>
          worker[attempt] = "gate" /\ gate[attempt] = "open" /\ attempt \in admitted
    /\ pc \in Watching =>
          /\ worker[attempt] \notin {"none", "gate"} /\ gate[attempt] = "passed"
          /\ attempt \in admitted
    /\ pc \notin {"Outcome", "Ended"} => outcome = None
    /\ outcome \in {"WorkerSpawnFailed", "Rejected"} =>
          attempt \notin admitted /\ ~Alive(attempt)
    /\ outcome \in {"Completed", "Stopped", "TimerFailed"} =>
          worker[attempt] = "exited"

\* What the channel and the runner's locals say about the threads.
ChannelInv ==
    /\ Queued("Completed") => returned[attempt] # None
    /\ ExitQueued \/ joined => reaper[attempt] = "gone"
    /\ Queued("Joined") => attempt \notin unwound
    /\ pc \in Watching /\ reaper[attempt] = "gone" => joined \/ ExitQueued
    /\ joined /\ attempt \in unwound => completed # None
    /\ /\ pc \in Watching \ {"Grace"} /\ attempt \notin unwound
       /\ worker[attempt] \in {"leaving", "exited"}
       => completed # None \/ Queued("Completed")
    /\ pc = "Grace" => ~joined
    /\ pc = "Receive" => ~Collected

\* Where the value of the current attempt is.
ValueInv ==
    /\ value # 0 => value = attempt
    /\ returned[attempt] = "Ok" /\ pc # "Ended" => value = attempt
    /\ completed = "Ok" => returned[attempt] = "Ok"
    /\ success # 0 => /\ pc = "Ended" /\ success = attempt
                      /\ returned[attempt] = "Ok"

\* The inductive invariant.
WInv == TypeOK /\ ThreadsInv /\ RunnerInv /\ ChannelInv /\ ValueInv
-----------------------------------------------------------------------------
(***************************************************************************)
(* The channel.                                                            *)
(***************************************************************************)

\* A sent event arrives if its attempt is the current one and the runner still
\* listens; the others stay.
LEMMA SentQueue ==
    ASSUME TypeOK, NEW a, NEW e \in Events, Send(a, e)
    PROVE  /\ queue' \in Seq(Events)
           /\ \A x : Queued(x)' <=> Queued(x) \/ (x = e /\ a = attempt /\ Listening)
<1>1. queue \in Seq(Events)
  BY DEF TypeOK, Events
<1>2. CASE a = attempt /\ Listening
  <2>1. queue' = Append(queue, e)
    BY <1>2 DEF Send
  <2>2. /\ Len(queue) \in Nat /\ DOMAIN queue = 1 .. Len(queue)
        /\ queue' \in Seq(Events) /\ DOMAIN queue' = 1 .. Len(queue) + 1
        /\ \A i \in 1 .. Len(queue) : queue'[i] = queue[i]
        /\ queue'[Len(queue) + 1] = e
    BY <1>1, <2>1, AppendProperties
  <2>3. ASSUME NEW x, Queued(x)' PROVE Queued(x) \/ x = e
    BY <2>2, <2>3 DEF Queued
  <2>4. ASSUME NEW x, Queued(x) \/ x = e PROVE Queued(x)'
    BY <2>2, <2>4 DEF Queued
  <2> QED
    BY <1>2, <2>2, <2>3, <2>4
<1>3. CASE ~(a = attempt /\ Listening)
  BY <1>1, <1>3 DEF Send, Queued
<1> QED
  BY <1>2, <1>3

\* A waker adds at most a Wake.
LEMMA NotifiedQueue ==
    ASSUME TypeOK, NEW a, Notify(a) \/ UNCHANGED queue
    PROVE  /\ queue' \in Seq(Events)
           /\ \A x \in Events \ {"Wake"} : Queued(x)' <=> Queued(x)
<1>1. CASE UNCHANGED queue
  BY <1>1 DEF TypeOK, Events, Queued
<1>2. CASE Send(a, "Wake")
  <2>1. "Wake" \in Events
    BY DEF Events
  <2> QED
    BY <1>2, <2>1, SentQueue
<1> QED
  BY <1>1, <1>2 DEF Notify

\* Receiving takes the first event out.
LEMMA TakenQueue ==
    ASSUME TypeOK, queue # <<>>, queue' = Tail(queue)
    PROVE  /\ queue' \in Seq(Events) /\ Head(queue) \in Events
           /\ \A x : Queued(x) <=> Queued(x)' \/ x = Head(queue)
<1>1. queue \in Seq(Events)
  BY DEF TypeOK, Events
<1>2. /\ Len(queue) \in Nat \ {0} /\ DOMAIN queue = 1 .. Len(queue)
      /\ queue' \in Seq(Events) /\ DOMAIN queue' = 1 .. Len(queue) - 1
      /\ \A i \in 1 .. Len(queue) - 1 : queue'[i] = queue[i + 1]
      /\ Head(queue) = queue[1] /\ Head(queue) \in Events
  BY <1>1, HeadTailProperties, EmptySeq
<1>3. ASSUME NEW x, Queued(x) PROVE Queued(x)' \/ x = Head(queue)
  <2>1. PICK i \in 1 .. Len(queue) : queue[i] = x
    BY <1>2, <1>3 DEF Queued
  <2>2. CASE i = 1
    BY <1>2, <2>1, <2>2
  <2>3. CASE i # 1
    <3>1. i - 1 \in 1 .. Len(queue) - 1 /\ (i - 1) + 1 = i
      BY <1>2, <2>3
    <3>2. queue'[i - 1] = x
      BY <1>2, <2>1, <3>1
    <3> QED
      BY <1>2, <3>1, <3>2 DEF Queued
  <2> QED
    BY <2>2, <2>3
<1>4. ASSUME NEW x, Queued(x)' \/ x = Head(queue) PROVE Queued(x)
  BY <1>2, <1>4 DEF Queued
<1> QED
  BY <1>2, <1>3, <1>4

-----------------------------------------------------------------------------
(***************************************************************************)
(* Type correctness.                                                       *)
(***************************************************************************)

\* Every step keeps the types.
LEMMA TypeStep ==
    ASSUME TypeOK, [Next]_vars
    PROVE  TypeOK'
<1>1. 0 \in 0 .. Attempts /\ \A a \in Attempt : a \in 0 .. Attempts
  BY AttemptsAssumption DEF Attempt
<1>2. \A e \in Events : \A a : Send(a, e) => queue' \in Seq(Events)
  BY SentQueue
<1>3. \A a : Notify(a) \/ UNCHANGED queue => queue' \in Seq(Events)
  BY NotifiedQueue
<1>4. queue # <<>> /\ queue' = Tail(queue) => queue' \in Seq(Events)
  BY TakenQueue
<1>5. ASSUME SpawnWorker \/ SpawnReaper \/ Prepare \/ Release PROVE TypeOK'
  <2>1. CASE SpawnWorker
    BY <1>1, <2>1 DEF SpawnWorker, Leave, TypeOK, flow, waiting, Outcomes
  <2>2. CASE SpawnReaper
    BY <1>1, <2>2 DEF SpawnReaper, Leave, TypeOK, flow, waiting, Outcomes
  <2>3. CASE Prepare
    BY <1>1, <2>3 DEF Prepare, Leave, TypeOK, waiting, Outcomes
  <2>4. CASE Release
    BY <2>4 DEF Release, TypeOK, flow, waiting
  <2> QED
    BY <1>5, <2>1, <2>2, <2>3, <2>4
<1>6. ASSUME RegisterCancellationWaker PROVE TypeOK'
  <2>1. queue' \in Seq(Events)
    BY <1>2, <1>3, <1>6 DEF RegisterCancellationWaker, Events
  <2> QED
    BY <1>1, <1>6, <2>1 DEF RegisterCancellationWaker, TypeOK, flow, threads, Events
<1>7. ASSUME NEW why \in Triggers, StopWorker(why)
      PROVE  /\ stop' \subseteq Attempt /\ trigger' \in Triggers \union {None}
             /\ pc' \in {"Outcome", "Grace"} /\ waiter' \in 0 .. Attempts
             /\ outcome' \in Outcomes \union {None}
  BY <1>1, <1>7 DEF StopWorker, Leave, Exited, TypeOK, Outcomes
<1>8. ASSUME CheckCancellation PROVE TypeOK'
  BY <1>7, <1>8 DEF CheckCancellation, TypeOK, flow, threads, waiting, Triggers
<1>9. ASSUME PollTimer PROVE TypeOK'
  <2>1. KeepsWaker \in BOOLEAN
    BY DEF KeepsWaker
  <2>2. CASE timer = "fired"
    BY <1>7, <1>9, <2>2 DEF PollTimer, TypeOK, flow, threads, Triggers
  <2>3. CASE timer = "failed"
    BY <1>7, <1>9, <2>3 DEF PollTimer, TypeOK, flow, threads, Triggers
  <2>4. CASE timer \in {"none", "armed"}
    BY <1>1, <1>9, <2>1, <2>4 DEF PollTimer, Leave, TypeOK, flow, threads, Outcomes
  <2> QED
    BY <1>9, <2>2, <2>3, <2>4 DEF PollTimer
<1>10. ASSUME Receive PROVE TypeOK'
  <2>1. queue' \in Seq(Events)
    BY <1>4, <1>10 DEF Receive
  <2>2. completed' \in Results \union {None}
    <3>1. \A e : ResultAfter(e) \in Results \union {None}
      BY DEF ResultAfter, TypeOK, Results
    <3> QED
      BY <1>10, <3>1 DEF Receive
  <2>3. joined' \in BOOLEAN
    BY <1>10 DEF Receive, TypeOK
  <2> QED
    BY <1>10, <2>1, <2>2, <2>3 DEF Receive, TypeOK, flow, threads, Events
<1>11. ASSUME ObserveWorkerExit \/ GraceExpired PROVE TypeOK'
  <2>1. queue' \in Seq(Events)
    BY <1>3, <1>4, <1>11 DEF ObserveWorkerExit, GraceExpired, waiting
  <2> QED
    BY <1>1, <1>11, <2>1 DEF ObserveWorkerExit, GraceExpired, Leave, Exited, TypeOK,
                             flow, threads, waiting, Outcomes, Events
<1>12. ASSUME Succeed \/ GiveUp PROVE TypeOK'
  BY <1>1, <1>12 DEF Succeed, GiveUp, End, TypeOK
<1>13. ASSUME Retry PROVE TypeOK'
  <2>1. attempt + 1 \in Attempt
    BY <1>13, AttemptsAssumption DEF Retry, TypeOK, Attempt
  <2>2. <<>> \in Seq(Events)
    OBVIOUS
  <2> QED
    BY <1>1, <1>13, <2>1, <2>2 DEF Retry, TypeOK, Events
<1>14. ASSUME NEW a \in Attempt, LeaveGate(a) \/ WorkerExits(a) PROVE TypeOK'
  BY <1>14 DEF LeaveGate, WorkerExits, TypeOK, runner, flow
<1>15. ASSUME NEW a \in Attempt, OperationReturns(a) PROVE TypeOK'
  BY <1>1, <1>15 DEF OperationReturns, TypeOK, runner, flow
<1>16. ASSUME NEW a \in Attempt, SendCompleted(a) \/ Reap(a) PROVE TypeOK'
  <2>1. queue' \in Seq(Events)
    BY <1>2, <1>16 DEF SendCompleted, Reap, Events
  <2> QED
    BY <1>16, <2>1 DEF SendCompleted, Reap, TypeOK, runner, flow, Events
<1>17. ASSUME Cancel PROVE TypeOK'
  BY <1>17 DEF Cancel, TypeOK, flow, threads, waiting
<1>18. ASSUME CancelWakes \/ TimerReady PROVE TypeOK'
  <2>1. queue' \in Seq(Events)
    BY <1>3, <1>18 DEF CancelWakes, TimerReady
  <2> QED
    BY <1>1, <1>18, <2>1 DEF CancelWakes, TimerReady, TypeOK, flow, threads, Events
<1>19. CASE UNCHANGED vars
  BY <1>19 DEF vars, TypeOK
<1> QED
  BY <1>5, <1>6, <1>8, <1>9, <1>10, <1>11, <1>12, <1>13, <1>14, <1>15, <1>16, <1>17,
     <1>18, <1>19
  DEF Next, Runner, Leaving, Done

-----------------------------------------------------------------------------
(***************************************************************************)
(* The threads.                                                            *)
(***************************************************************************)

\* Attempts are numbers, and only the current one has a live thread.
LEMMA Current ==
    ASSUME WInv, NEW a \in Attempt
    PROVE  /\ a \in Nat /\ attempt \in Nat /\ attempt \in Attempt /\ Thread(a)
           /\ worker[a] \notin {"none", "exited"} => a = attempt
BY DEF WInv, TypeOK, Attempt, ThreadsInv, Thread, Untouched

\* Every step keeps what is known of the threads.
LEMMA ThreadsStep ==
    ASSUME WInv, [Next]_vars
    PROVE  ThreadsInv'
<1> SUFFICES ASSUME NEW a \in Attempt
             PROVE  Thread(a)'
  BY DEF ThreadsInv
<1>1. /\ a \in Nat /\ attempt \in Nat /\ attempt \in Attempt /\ Thread(a)
      /\ worker[a] \notin {"none", "exited"} => a = attempt
  BY Current
<1>2. TypeOK /\ RunnerInv
  BY DEF WInv
<1>3. CASE UNCHANGED <<attempt, admitted, gate, worker, returned, unwound, reaper>>
  BY <1>1, <1>3 DEF Thread, Untouched, Alive
<1>4. CASE SpawnWorker
  BY <1>1, <1>2, <1>4 DEF SpawnWorker, Thread, Untouched, Alive, RunnerInv, TypeOK, flow
<1>5. CASE SpawnReaper
  BY <1>1, <1>2, <1>5 DEF SpawnReaper, Thread, Untouched, Alive, RunnerInv, TypeOK, flow
<1>6. CASE Prepare
  BY <1>1, <1>2, <1>6 DEF Prepare, Thread, Untouched, Alive, RunnerInv, TypeOK
<1>7. CASE Release
  BY <1>1, <1>2, <1>7 DEF Release, Thread, Untouched, Alive, RunnerInv, TypeOK, flow
<1>8. CASE Retry
  <2>1. worker[attempt] = "exited"
    BY <1>2, <1>8 DEF Retry, RunnerInv
  <2>2. /\ attempt' = attempt + 1
        /\ UNCHANGED <<admitted, gate, worker, returned, unwound, reaper>>
    BY <1>8 DEF Retry
  <2> QED
    BY <1>1, <2>1, <2>2 DEF Thread, Untouched, Alive
<1>9. ASSUME NEW b \in Attempt, LeaveGate(b) PROVE Thread(a)'
  <2>1. UNCHANGED <<attempt, admitted, gate, returned, unwound, reaper>>
    BY <1>9 DEF LeaveGate, runner, flow
  <2>2. CASE a = b
    BY <1>1, <1>2, <1>9, <2>1, <2>2 DEF LeaveGate, Thread, Untouched, Alive, TypeOK
  <2>3. CASE a # b
    BY <1>1, <1>2, <1>9, <2>1, <2>3 DEF LeaveGate, Thread, Untouched, Alive, TypeOK
  <2> QED
    BY <2>2, <2>3
<1>10. ASSUME NEW b \in Attempt, OperationReturns(b) PROVE Thread(a)'
  <2>1. UNCHANGED <<attempt, admitted, gate, unwound, reaper>> /\ worker[b] = "running"
    BY <1>10 DEF OperationReturns, runner, flow
  <2>2. CASE a = b
    <3>1. worker'[a] = "returned" /\ returned'[a] \in Results
      BY <1>2, <1>10, <2>2 DEF OperationReturns, TypeOK
    <3>2. returned'[a] # None
      BY <3>1, NoneAssumption DEF Results
    <3> QED
      BY <1>1, <2>1, <2>2, <3>1, <3>2 DEF Thread, Untouched, Alive
  <2>3. CASE a # b
    <3>1. worker'[a] = worker[a] /\ returned'[a] = returned[a]
      BY <1>2, <1>10, <2>3 DEF OperationReturns, TypeOK
    <3> QED
      BY <1>1, <2>1, <3>1 DEF Thread, Untouched, Alive
  <2> QED
    BY <2>2, <2>3
<1>11. ASSUME NEW b \in Attempt, SendCompleted(b) PROVE Thread(a)'
  <2>1. /\ UNCHANGED <<attempt, admitted, gate, returned, unwound, reaper>>
        /\ worker[b] = "returned" /\ worker' = [worker EXCEPT ![b] = "leaving"]
    BY <1>11 DEF SendCompleted, runner, flow
  <2> QED
    BY <1>1, <1>2, <2>1 DEF Thread, Untouched, Alive, TypeOK
<1>12. ASSUME NEW b \in Attempt, WorkerExits(b) PROVE Thread(a)'
  <2>1. /\ UNCHANGED <<attempt, admitted, gate, returned, reaper>>
        /\ worker[b] \in {"returned", "leaving"}
        /\ worker' = [worker EXCEPT ![b] = "exited"]
        /\ unwound' = unwound \/ unwound' = unwound \union {b}
    BY <1>12 DEF WorkerExits, runner, flow
  <2> QED
    BY <1>1, <1>2, <2>1 DEF Thread, Untouched, Alive, TypeOK
<1>13. ASSUME NEW b \in Attempt, Reap(b) PROVE Thread(a)'
  <2>1. /\ UNCHANGED <<attempt, admitted, gate, worker, returned, unwound>>
        /\ worker[b] = "exited" /\ reaper' = [reaper EXCEPT ![b] = "gone"]
    BY <1>13 DEF Reap, runner, flow
  <2> QED
    BY <1>1, <1>2, <2>1 DEF Thread, Untouched, Alive, TypeOK
<1>14. ASSUME \/ RegisterCancellationWaker \/ CheckCancellation \/ PollTimer \/ Receive
              \/ ObserveWorkerExit \/ GraceExpired \/ Succeed \/ GiveUp \/ Cancel
              \/ CancelWakes \/ TimerReady \/ UNCHANGED vars
       PROVE  UNCHANGED <<attempt, admitted, gate, worker, returned, unwound, reaper>>
  BY <1>14 DEF RegisterCancellationWaker, CheckCancellation, PollTimer, Receive,
               ObserveWorkerExit, GraceExpired, Succeed, GiveUp, End, Cancel,
               CancelWakes, TimerReady, flow, threads, vars
<1> QED
  BY <1>3, <1>4, <1>5, <1>6, <1>7, <1>8, <1>9, <1>10, <1>11, <1>12, <1>13, <1>14
  DEF Next, Runner, Leaving, Done

-----------------------------------------------------------------------------
(***************************************************************************)
(* The runner.                                                             *)
(***************************************************************************)

\* Every step keeps what the runner's place says of the current attempt.
LEMMA RunnerStep ==
    ASSUME WInv, [Next]_vars
    PROVE  RunnerInv'
<1>1. TypeOK /\ RunnerInv /\ ChannelInv
  BY DEF WInv
<1>2. /\ attempt \in Attempt /\ attempt \in Nat /\ Thread(attempt)
      /\ \A b \in Attempt : worker[b] \notin {"none", "exited"} => b = attempt
  BY <1>1, Current DEF TypeOK
<1>3. joined => worker[attempt] = "exited"
  BY <1>1, <1>2 DEF ChannelInv, Thread
<1>4. CASE SpawnWorker
  <2>1. /\ Untouched(attempt) /\ outcome = None
        /\ UNCHANGED <<attempt, admitted>> /\ pc' \in {"SpawnReaper", "Outcome"}
    BY <1>1, <1>4 DEF SpawnWorker, Leave, RunnerInv, flow
  <2>2. CASE pc' = "SpawnReaper"
    <3>1. gate'[attempt] = "open" /\ worker'[attempt] = "gate" /\ outcome' = outcome
      BY <1>1, <1>4, <2>2 DEF SpawnWorker, Leave, TypeOK
    <3> QED
      BY <2>1, <2>2, <3>1, NoneAssumption DEF RunnerInv, Untouched, Watching, Outcomes
  <2>3. CASE pc' = "Outcome"
    <3>1. UNCHANGED <<gate, worker>> /\ outcome' = "WorkerSpawnFailed"
      BY <1>1, <1>4, <2>3 DEF SpawnWorker, Leave
    <3> QED
      BY <2>1, <2>3, <3>1 DEF RunnerInv, Untouched, Watching, Alive
  <2> QED
    BY <2>1, <2>2, <2>3
<1>5. CASE SpawnReaper
  BY <1>1, <1>2, <1>5 DEF SpawnReaper, Leave, RunnerInv, Untouched, Alive, Watching,
                          TypeOK, flow
<1>6. CASE RegisterCancellationWaker
  BY <1>1, <1>6 DEF RegisterCancellationWaker, RunnerInv, Alive, Watching, flow, threads
<1>7. CASE Prepare
  BY <1>1, <1>2, <1>7, NoneAssumption
  DEF Prepare, Leave, RunnerInv, Alive, Watching, TypeOK, Outcomes
<1>8. CASE Release
  BY <1>1, <1>2, <1>8 DEF Release, RunnerInv, Alive, Watching, TypeOK, flow
<1>9. ASSUME NEW why, StopWorker(why), pc \in Watching,
             UNCHANGED <<flow, threads>>
      PROVE  RunnerInv'
  BY <1>1, <1>3, <1>9 DEF StopWorker, Leave, Exited, RunnerInv, Alive, Watching, flow,
                          threads
<1>10. CASE CheckCancellation
  <2>1. CASE cancelled
    BY <1>9, <1>10, <2>1 DEF CheckCancellation, Watching
  <2>2. CASE ~cancelled
    BY <1>1, <1>10, <2>2 DEF CheckCancellation, RunnerInv, Alive, Watching, flow, threads
  <2> QED
    BY <2>1, <2>2
<1>11. CASE PollTimer
  <2>1. CASE timer \in {"fired", "failed"}
    BY <1>9, <1>11, <2>1 DEF PollTimer, Watching
  <2>2. CASE timer \in {"none", "armed"}
    BY <1>1, <1>3, <1>11, <2>2 DEF PollTimer, Collected, Leave, RunnerInv, Alive,
                                   Watching, flow, threads
  <2> QED
    BY <1>11, <2>1, <2>2 DEF PollTimer
<1>12. CASE Receive
  BY <1>1, <1>12 DEF Receive, RunnerInv, Alive, Watching, flow, threads
<1>13. CASE ObserveWorkerExit
  <2>1. ExitProof(Head(queue)) => worker[attempt] = "exited"
    <3>1. ExitProof(Head(queue)) => ExitQueued
      BY <1>1, <1>13, TakenQueue DEF ObserveWorkerExit, ExitProof, ExitQueued
    <3> QED
      BY <1>1, <1>2, <3>1 DEF ChannelInv, Thread
  <2> QED
    BY <1>1, <1>13, <2>1 DEF ObserveWorkerExit, Leave, Exited, RunnerInv, Alive,
                             Watching, flow, threads
<1>14. CASE GraceExpired
  BY <1>1, <1>14 DEF GraceExpired, Leave, RunnerInv, Alive, Watching, flow, threads
<1>15. CASE Succeed \/ GiveUp
  BY <1>1, <1>15 DEF Succeed, GiveUp, End, RunnerInv, Alive, Watching
<1>16. CASE Retry
  <2>1. attempt + 1 \in Attempt /\ attempt + 1 > attempt
    BY <1>1, <1>16, AttemptsAssumption DEF Retry, TypeOK, Attempt
  <2>2. Untouched(attempt + 1)
    BY <2>1, Current DEF Thread
  <2>3. /\ attempt' = attempt + 1 /\ pc' = "SpawnWorker" /\ outcome' = None
        /\ queue' = <<>> /\ joined' = FALSE /\ completed' = None
        /\ UNCHANGED <<admitted, gate, worker, returned, unwound, reaper>>
    BY <1>16 DEF Retry
  <2>4. Untouched(attempt)'
    BY <2>2, <2>3 DEF Untouched
  <2> QED
    BY <2>3, <2>4, NoneAssumption DEF RunnerInv, Watching, Outcomes
<1>17. ASSUME NEW b \in Attempt, LeaveGate(b) \/ WorkerExits(b) PROVE RunnerInv'
  BY <1>1, <1>2, <1>17 DEF LeaveGate, WorkerExits, RunnerInv, Untouched, Alive,
                           Watching, TypeOK, runner, flow
<1>18. ASSUME NEW b \in Attempt, OperationReturns(b) PROVE RunnerInv'
  BY <1>1, <1>2, <1>18 DEF OperationReturns, RunnerInv, Untouched, Alive, Watching,
                           TypeOK, runner, flow
<1>19. ASSUME NEW b \in Attempt, SendCompleted(b) PROVE RunnerInv'
  BY <1>1, <1>2, <1>19 DEF SendCompleted, RunnerInv, Untouched, Alive, Watching,
                           TypeOK, runner, flow
<1>20. ASSUME NEW b \in Attempt, Reap(b) PROVE RunnerInv'
  BY <1>1, <1>2, <1>20 DEF Reap, Send, Listening, RunnerInv, Untouched, Alive,
                           Watching, TypeOK, runner, flow
<1>21. CASE Cancel \/ UNCHANGED vars
  BY <1>1, <1>21 DEF Cancel, RunnerInv, Untouched, Alive, Watching, flow, threads,
                     waiting, vars
<1>22. CASE CancelWakes \/ TimerReady
  BY <1>1, <1>22 DEF CancelWakes, TimerReady, Notify, Send, Listening, RunnerInv,
                     Untouched, Alive, Watching, flow, threads
<1> QED
  BY <1>4, <1>5, <1>6, <1>7, <1>8, <1>10, <1>11, <1>12, <1>13, <1>14, <1>15, <1>16,
     <1>17, <1>18, <1>19, <1>20, <1>21, <1>22
  DEF Next, Runner, Leaving, Done

-----------------------------------------------------------------------------
(***************************************************************************)
(* The channel and the result.                                             *)
(***************************************************************************)

\* What an event in the channel says does not depend on the runner, as long as
\* it stays with the attempt and does not receive.
LEMMA QuietChannel ==
    ASSUME WInv, UNCHANGED <<attempt, worker, returned, unwound, reaper, joined,
                             completed>>,
           \A x \in Events \ {"Wake"} : Queued(x)' <=> Queued(x),
           pc' \in Watching => pc \in Watching /\ (pc' # "Grace" => pc # "Grace"),
           pc' = "Grace" => ~joined,
           pc' = "Receive" => ~Collected
    PROVE  ChannelInv'
<1>1. /\ Queued("Completed")' <=> Queued("Completed")
      /\ Queued("Joined")' <=> Queued("Joined")
      /\ Queued("JoinedUnwound")' <=> Queued("JoinedUnwound")
  BY DEF Events
<1> QED
  BY <1>1 DEF WInv, ChannelInv, ExitQueued, Collected, Watching

\* Every step keeps what the channel says of the threads.
LEMMA ChannelStep ==
    ASSUME WInv, [Next]_vars
    PROVE  ChannelInv'
<1>1. TypeOK /\ RunnerInv /\ ChannelInv
  BY DEF WInv
<1>2. /\ attempt \in Attempt /\ attempt \in Nat /\ Thread(attempt)
      /\ \A b \in Attempt : worker[b] \notin {"none", "exited"} => b = attempt
  BY <1>1, Current DEF TypeOK
<1>3. UNCHANGED queue => \A x : Queued(x)' <=> Queued(x)
  BY DEF Queued
<1>4. /\ "Completed" \in Events /\ "Joined" \in Events /\ "JoinedUnwound" \in Events
      /\ "Wake" \in Events
  BY DEF Events
<1>5. CASE SpawnWorker \/ SpawnReaper \/ Prepare
  <2>1. /\ pc \in {"SpawnWorker", "SpawnReaper", "Prepare"} /\ pc' \notin Watching
        /\ UNCHANGED <<attempt, returned, unwound, queue, joined, completed>>
        /\ reaper[attempt] # "gone"
    BY <1>1, <1>2, <1>5 DEF SpawnWorker, SpawnReaper, Prepare, Leave, Watching, flow,
                            waiting, RunnerInv, Untouched, Thread
  <2> QED
    BY <1>1, <1>3, <2>1 DEF ChannelInv, ExitQueued, Watching
<1>6. CASE RegisterCancellationWaker
  <2>1. \A x \in Events \ {"Wake"} : Queued(x)' <=> Queued(x)
    BY <1>1, <1>3, <1>4, <1>6, SentQueue DEF RegisterCancellationWaker
  <2> QED
    BY <1>6, <2>1, QuietChannel DEF RegisterCancellationWaker, Watching, flow, threads
<1>7. CASE Release
  <2>1. /\ pc = "Release" /\ pc' = "Check" /\ worker'[attempt] = "running"
        /\ UNCHANGED <<attempt, returned, unwound, reaper, queue, joined, completed>>
        /\ reaper[attempt] # "gone"
    BY <1>1, <1>2, <1>7 DEF Release, flow, waiting, TypeOK, Thread
  <2> QED
    BY <1>1, <1>3, <2>1 DEF ChannelInv, ExitQueued, Watching
<1>8. ASSUME NEW why, StopWorker(why), pc \in Watching \ {"Grace"},
             UNCHANGED <<flow, threads, queue, completed, joined>>
      PROVE  ChannelInv'
  <2>1. pc' = "Outcome" \/ (pc' = "Grace" /\ ~joined)
    BY <1>8 DEF StopWorker, Leave
  <2> QED
    BY <1>3, <1>8, <2>1, QuietChannel DEF Watching, flow, threads
<1>9. CASE CheckCancellation
  <2>1. CASE cancelled
    BY <1>8, <1>9, <2>1 DEF CheckCancellation, Watching, waiting
  <2>2. CASE ~cancelled
    BY <1>3, <1>9, <2>2, QuietChannel DEF CheckCancellation, Watching, flow, threads,
                                          waiting
  <2> QED
    BY <2>1, <2>2
<1>10. CASE PollTimer
  <2>1. CASE timer \in {"fired", "failed"}
    BY <1>8, <1>10, <2>1 DEF PollTimer, Watching
  <2>2. CASE timer \in {"none", "armed"}
    BY <1>3, <1>10, <2>2, QuietChannel DEF PollTimer, Leave, Watching, flow, threads
  <2> QED
    BY <1>10, <2>1, <2>2 DEF PollTimer
<1>11. CASE Receive
  <2> DEFINE event == Head(queue)
  <2>1. /\ event \in Events
        /\ \A x : Queued(x) <=> Queued(x)' \/ x = event
    BY <1>1, <1>11, TakenQueue DEF Receive
  <2>2. /\ pc = "Receive" /\ pc' = "Check"
        /\ UNCHANGED <<attempt, worker, returned, unwound, reaper>>
        /\ joined' = (joined \/ event \in {"Joined", "JoinedUnwound"})
        /\ completed' = ResultAfter(event)
    BY <1>11 DEF Receive, flow, threads
  <2>3. /\ event = "Completed" => completed' = returned[attempt]
        /\ event = "JoinedUnwound" => completed' = "Panicked"
        /\ event \in {"Joined", "Wake"} => completed' = completed
    BY <2>2 DEF ResultAfter
  <2>4. completed # None => completed' # None
    BY <1>1, <2>1, <2>3, NoneAssumption DEF ChannelInv, Events, Results
  <2>5. event = "JoinedUnwound" => completed' # None
    BY <2>3, NoneAssumption DEF Results
  <2>6. event = "Completed" => completed' # None
    BY <1>1, <2>1, <2>3 DEF ChannelInv
  <2>7. event = "Joined" => attempt \notin unwound
    BY <1>1, <2>1 DEF ChannelInv
  <2> HIDE DEF event
  <2> QED
    BY <1>1, <2>1, <2>2, <2>4, <2>5, <2>6, <2>7 DEF ChannelInv, ExitQueued, Watching
<1>12. CASE ObserveWorkerExit
  <2>1. \A x : Queued(x) <=> Queued(x)' \/ x = Head(queue)
    BY <1>1, <1>12, TakenQueue DEF ObserveWorkerExit
  <2>2. /\ pc = "Grace"
        /\ UNCHANGED <<attempt, worker, returned, unwound, reaper, joined, completed>>
        /\ IF ExitProof(Head(queue)) THEN pc' = "Outcome" ELSE pc' = "Grace"
    BY <1>12 DEF ObserveWorkerExit, Leave, flow, threads
  <2>3. ~ExitProof(Head(queue)) => (ExitQueued' <=> ExitQueued)
    BY <2>1 DEF ExitProof, ExitQueued
  <2> QED
    BY <1>1, <2>1, <2>2, <2>3 DEF ChannelInv, ExitQueued, Watching
<1>13. CASE GraceExpired \/ Succeed \/ GiveUp
  <2>1. /\ pc' \in {"Outcome", "Ended"}
        /\ UNCHANGED <<attempt, worker, returned, unwound, reaper, joined, completed,
                       queue>>
    BY <1>13 DEF GraceExpired, Succeed, GiveUp, End, Leave, flow, threads, waiting
  <2> QED
    BY <1>3, <2>1, QuietChannel DEF Watching
<1>14. CASE Retry
  <2>1. pc' = "SpawnWorker" /\ queue' = <<>> /\ joined' = FALSE
    BY <1>14 DEF Retry
  <2>2. \A x : ~Queued(x)'
    BY <2>1 DEF Queued
  <2> QED
    BY <2>1, <2>2 DEF ChannelInv, ExitQueued, Watching
<1>15. ASSUME NEW b \in Attempt, LeaveGate(b) PROVE ChannelInv'
  <2>1. /\ UNCHANGED <<attempt, returned, unwound, reaper, joined, completed, queue, pc>>
        /\ b = attempt /\ worker[attempt] = "gate"
    BY <1>2, <1>15 DEF LeaveGate, runner, flow
  <2>2. pc \notin Watching
    BY <1>1, <2>1 DEF RunnerInv
  <2> QED
    BY <1>1, <1>3, <2>1, <2>2 DEF ChannelInv, ExitQueued, Watching
<1>16. ASSUME NEW b \in Attempt, OperationReturns(b) PROVE ChannelInv'
  <2>1. /\ UNCHANGED <<attempt, unwound, reaper, joined, completed, queue, pc>>
        /\ b = attempt /\ worker'[attempt] = "returned" /\ returned'[attempt] \in Results
    BY <1>1, <1>2, <1>16 DEF OperationReturns, runner, flow, TypeOK
  <2>2. returned'[attempt] # None
    BY <2>1, NoneAssumption
  <2> QED
    BY <1>1, <1>3, <2>1, <2>2 DEF ChannelInv, ExitQueued, Watching, Collected
<1>17. ASSUME NEW b \in Attempt, SendCompleted(b) PROVE ChannelInv'
  <2>1. /\ UNCHANGED <<attempt, returned, unwound, reaper, joined, completed, pc>>
        /\ b = attempt /\ worker[attempt] = "returned" /\ Send(attempt, "Completed")
        /\ worker'[attempt] = "leaving"
    BY <1>1, <1>2, <1>17 DEF SendCompleted, runner, flow, TypeOK
  <2>2. \A x : Queued(x)' <=> Queued(x) \/ (x = "Completed" /\ Listening)
    BY <1>1, <1>4, <2>1, SentQueue
  <2>3. returned[attempt] # None
    BY <1>2, <2>1 DEF Thread
  <2> QED
    BY <1>1, <2>1, <2>2, <2>3 DEF ChannelInv, ExitQueued, Watching, Collected, Listening
<1>18. ASSUME NEW b \in Attempt, WorkerExits(b) PROVE ChannelInv'
  <2>1. /\ UNCHANGED <<attempt, returned, reaper, joined, completed, queue, pc>>
        /\ b = attempt /\ worker[attempt] \in {"returned", "leaving"}
        /\ worker'[attempt] = "exited"
        /\ attempt \in unwound => attempt \in unwound'
        /\ attempt \notin unwound' => worker[attempt] = "leaving"
    BY <1>1, <1>2, <1>18 DEF WorkerExits, runner, flow, TypeOK
  <2>2. reaper[attempt] # "gone"
    BY <1>2, <2>1 DEF Thread
  <2> QED
    BY <1>1, <1>3, <2>1, <2>2 DEF ChannelInv, ExitQueued, Watching, Collected
<1>19. ASSUME NEW b \in Attempt, Reap(b) PROVE ChannelInv'
  <2> DEFINE event == IF b \in unwound THEN "JoinedUnwound" ELSE "Joined"
  <2>1. /\ UNCHANGED <<attempt, worker, returned, unwound, joined, completed, pc>>
        /\ reaper' = [reaper EXCEPT ![b] = "gone"]
    BY <1>19 DEF Reap, runner, flow
  <2>2. \A x : Queued(x)' <=> Queued(x) \/ (x = event /\ b = attempt /\ Listening)
    <3>1. event \in Events
      BY <1>4
    <3> QED
      BY <1>1, <1>19, <3>1, SentQueue DEF Reap
  <2>3. CASE b = attempt
    <3>1. reaper'[attempt] = "gone"
      BY <1>1, <2>1, <2>3 DEF TypeOK
    <3>2. pc \in Watching => Listening
      BY DEF Watching, Listening
    <3> QED
      BY <1>1, <2>1, <2>2, <2>3, <3>1, <3>2 DEF ChannelInv, ExitQueued, Collected
  <2>4. CASE b # attempt
    <3>1. reaper'[attempt] = reaper[attempt]
      BY <1>1, <1>2, <2>1, <2>4 DEF TypeOK
    <3> QED
      BY <1>1, <2>1, <2>2, <2>4, <3>1 DEF ChannelInv, ExitQueued, Collected
  <2> QED
    BY <2>3, <2>4
<1>20. CASE Cancel \/ UNCHANGED vars
  BY <1>1, <1>3, <1>20 DEF Cancel, flow, threads, waiting, vars, ChannelInv, ExitQueued,
                           Collected
<1>21. CASE CancelWakes \/ TimerReady
  <2>1. \A x \in Events \ {"Wake"} : Queued(x)' <=> Queued(x)
    BY <1>1, <1>21, NotifiedQueue DEF CancelWakes, TimerReady
  <2>2. UNCHANGED <<attempt, worker, returned, unwound, reaper, joined, completed, pc>>
    BY <1>21 DEF CancelWakes, TimerReady, flow, threads
  <2> QED
    BY <1>1, <2>1, <2>2, QuietChannel DEF ChannelInv
<1> QED
  BY <1>5, <1>6, <1>7, <1>9, <1>10, <1>11, <1>12, <1>13, <1>14, <1>15, <1>16, <1>17,
     <1>18, <1>19, <1>20, <1>21
  DEF Next, Runner, Leaving, Done

\* Every step keeps the value with the attempt that stored it.
LEMMA ValueStep ==
    ASSUME WInv, [Next]_vars
    PROVE  ValueInv'
<1>1. TypeOK /\ RunnerInv /\ ChannelInv /\ ValueInv
  BY DEF WInv
<1>2. /\ attempt \in Attempt /\ attempt \in Nat /\ Thread(attempt)
      /\ \A b \in Attempt : worker[b] \notin {"none", "exited"} => b = attempt
  BY <1>1, Current DEF TypeOK
<1>3. None # "Ok"
  BY NoneAssumption DEF Results
<1>4. CASE UNCHANGED <<attempt, returned, value, success>>
           /\ (completed' = "Ok" => completed = "Ok" \/ returned[attempt] = "Ok")
           /\ (pc = "Ended" <=> pc' = "Ended")
  BY <1>1, <1>4 DEF ValueInv
<1>5. CASE Receive
  <2>1. completed' = "Ok" => completed = "Ok" \/ returned[attempt] = "Ok"
    BY <1>5 DEF Receive, ResultAfter
  <2> QED
    BY <1>4, <1>5, <2>1 DEF Receive, flow, threads
<1>6. CASE Succeed
  <2>1. /\ value = attempt /\ returned[attempt] = "Ok" /\ pc' = "Ended"
        /\ UNCHANGED <<attempt, returned, completed>> /\ pc = "Outcome"
        /\ (success' = value /\ value' = 0) \/ UNCHANGED <<success, value>>
    BY <1>1, <1>6 DEF Succeed, End, ValueInv
  <2> QED
    BY <1>1, <2>1 DEF ValueInv
<1>7. CASE GiveUp
  <2>1. /\ value' \in {0, value} /\ pc' = "Ended" /\ pc = "Outcome"
        /\ UNCHANGED <<attempt, returned, completed, success>>
    BY <1>7 DEF GiveUp, End
  <2> QED
    BY <1>1, <2>1 DEF ValueInv
<1>8. CASE Retry
  <2>1. /\ pc = "Outcome" /\ Discards /\ value' = 0 /\ completed' = None
        /\ attempt' = attempt + 1 /\ UNCHANGED <<returned, success>>
    BY <1>8 DEF Retry, Discards
  <2>2. attempt + 1 \in Attempt /\ attempt + 1 > attempt
    BY <1>1, <1>8, AttemptsAssumption DEF Retry, TypeOK, Attempt
  <2>3. returned[attempt + 1] = None
    BY <2>2, Current DEF Thread, Untouched
  <2> QED
    BY <1>1, <1>3, <2>1, <2>3 DEF ValueInv
<1>9. ASSUME NEW b \in Attempt, OperationReturns(b) PROVE ValueInv'
  <2>1. /\ b = attempt /\ worker[attempt] = "running"
        /\ UNCHANGED <<attempt, completed, success, pc>>
        /\ \E result \in Results :
              /\ returned'[attempt] = result
              /\ value' = IF result = "Ok" THEN attempt ELSE value
    BY <1>1, <1>2, <1>9 DEF OperationReturns, runner, flow, TypeOK
  <2>2. returned[attempt] = None
    BY <1>2, <2>1 DEF Thread
  <2> QED
    BY <1>1, <1>3, <2>1, <2>2 DEF ValueInv
<1>10. CASE SpawnWorker \/ SpawnReaper \/ Prepare \/ Release
  BY <1>4, <1>10 DEF SpawnWorker, SpawnReaper, Prepare, Release, Leave, flow, waiting
<1>11. CASE RegisterCancellationWaker \/ CheckCancellation
  BY <1>4, <1>11 DEF RegisterCancellationWaker, CheckCancellation, StopWorker, Leave,
                     flow, threads, waiting
<1>12. CASE PollTimer
  BY <1>4, <1>12 DEF PollTimer, StopWorker, Leave, flow, threads
<1>13. CASE ObserveWorkerExit \/ GraceExpired
  BY <1>4, <1>13 DEF ObserveWorkerExit, GraceExpired, Leave, flow, threads, waiting
<1>14. ASSUME NEW b \in Attempt, Leaving(b) \/ Reap(b) PROVE ValueInv'
  BY <1>4, <1>14 DEF Leaving, LeaveGate, SendCompleted, WorkerExits, Reap, runner, flow
<1>15. CASE Cancel \/ CancelWakes \/ TimerReady \/ UNCHANGED vars
  BY <1>4, <1>15 DEF Cancel, CancelWakes, TimerReady, flow, threads, waiting, vars
<1> QED
  BY <1>5, <1>6, <1>7, <1>8, <1>9, <1>10, <1>11, <1>12, <1>13, <1>14, <1>15
  DEF Next, Runner, Done

-----------------------------------------------------------------------------
(***************************************************************************)
(* The theorems.                                                           *)
(***************************************************************************)

\* The invariant holds before the first attempt.
LEMMA InitWInv ==
    ASSUME Init
    PROVE  WInv
<1>1. 1 \in Attempt /\ 0 \in 0 .. Attempts /\ <<>> \in Seq(Events)
  BY AttemptsAssumption DEF Attempt
<1>2. TypeOK
  BY <1>1 DEF Init, TypeOK, Events
<1>3. \A a \in Attempt : Untouched(a) /\ ~(a < 1)
  BY AttemptsAssumption DEF Init, Untouched, Attempt
<1>4. ThreadsInv
  BY <1>3 DEF Init, ThreadsInv, Thread, Untouched, Alive
<1>5. RunnerInv
  BY <1>1, <1>3, NoneAssumption DEF Init, RunnerInv, Watching, Outcomes
<1>6. \A x : ~Queued(x)
  BY DEF Init, Queued
<1>7. ChannelInv
  BY <1>6 DEF Init, ChannelInv, ExitQueued, Watching
<1>8. ValueInv
  BY <1>1, NoneAssumption DEF Init, ValueInv, Results
<1> QED
  BY <1>2, <1>4, <1>5, <1>7, <1>8 DEF WInv

\* The invariant of the runner, its threads and their channel holds throughout.
THEOREM WorkerInvariance == Spec => []WInv
<1>1. WInv /\ [Next]_vars => WInv'
  <2> SUFFICES ASSUME WInv, [Next]_vars
               PROVE  WInv'
    OBVIOUS
  <2>1. TypeOK'
    BY TypeStep DEF WInv
  <2> QED
    BY <2>1, ThreadsStep, RunnerStep, ChannelStep, ValueStep DEF WInv
<1> QED
  BY <1>1, InitWInv, PTL DEF Spec

\* The variables of the worker executor keep their types.
THEOREM WorkerTypeCorrect == Spec => []TypeOK
<1>1. WInv => TypeOK
  BY DEF WInv
<1> QED
  BY <1>1, WorkerInvariance, PTL

\* No attempt starts while a worker of an earlier one may be alive, and a result
\* or a clean stop is only reported of a thread that has been joined.
THEOREM ExclusiveTheorem == Spec => []ExclusiveWorker
<1>1. WInv => ExclusiveWorker
  BY DEF WInv, ThreadsInv, Thread, RunnerInv, ExclusiveWorker
<1> QED
  BY <1>1, WorkerInvariance, PTL

\* The operation of an attempt runs only if the controller admitted it.
THEOREM GateTheorem == Spec => []GateHolds
<1>1. WInv => GateHolds
  BY DEF WInv, ThreadsInv, Thread, RunnerInv, GateHolds
<1> QED
  BY <1>1, WorkerInvariance, PTL

\* The value slot never carries a value across attempts, and take_value finds
\* the one of the successful attempt.
THEOREM ValueTheorem == Spec => []ValueFresh
<1>1. WInv => ValueFresh
  BY DEF WInv, ValueInv, ValueFresh
<1> QED
  BY <1>1, WorkerInvariance, PTL

\* The runner never waits on a channel that nobody can send to any more.
THEOREM ChannelTheorem == Spec => []ChannelStaysOpen
<1>1. WInv => ChannelStaysOpen
  <2> SUFFICES ASSUME WInv, pc \in {"Receive", "Grace"}, queue = <<>>, Disconnected
               PROVE  FALSE
    BY DEF ChannelStaysOpen
  <2>1. \A x : ~Queued(x)
    BY DEF Queued
  <2>2. pc \in Watching /\ reaper[attempt] = "gone" /\ worker[attempt] = "exited"
    BY DEF Disconnected, Watching
  <2>3. joined
    BY <2>1, <2>2 DEF WInv, ChannelInv, ExitQueued
  <2>4. pc = "Receive" /\ completed = None
    BY <2>3 DEF WInv, ChannelInv, Collected
  <2> QED
    BY <2>1, <2>2, <2>3, <2>4 DEF WInv, ChannelInv, Watching
<1> QED
  BY <1>1, WorkerInvariance, PTL
=============================================================================
