--------------------------- MODULE CancellationLatch ---------------------------
(***************************************************************************)
(* What a RetryCancellationToken promises the tasks that wait for it.      *)
(*                                                                         *)
(* It is a latch that is set at most once.  A future resolves, or has its  *)
(* task notified, only after that.  And a future that is being polled or   *)
(* waits with its task parked when the latch is set, or comes to wait      *)
(* later, does not stay so: it resolves, has its task notified through     *)
(* the waker of its latest poll, or is dropped.  The one exception is a    *)
(* waker that unwinds through cancel: the wakers after it are not invoked. *)
(* A notified future resolves when its task polls it; when that happens is *)
(* the task's business, and so is polling a future for the first time.     *)
(***************************************************************************)
CONSTANT Futures

VARIABLES cancelled,  \* the latch
          unwound,    \* a waker unwound through the call that set the latch
          outcome     \* what became of each future; dropped before it is made

vars == <<cancelled, unwound, outcome>>

Init == /\ cancelled = FALSE
        /\ unwound = FALSE
        /\ outcome = [f \in Futures |-> "dropped"]

Cancel == /\ ~cancelled
          /\ cancelled' = TRUE
          /\ UNCHANGED <<unwound, outcome>>

Unwind == /\ cancelled
          /\ ~unwound
          /\ unwound' = TRUE
          /\ UNCHANGED <<cancelled, outcome>>

Becomes(f, result) == /\ outcome' = [outcome EXCEPT ![f] = result]
                      /\ UNCHANGED <<cancelled, unwound>>

Create(f) == outcome[f] = "dropped" /\ Becomes(f, "open")

Poll(f) == /\ ~cancelled
           /\ outcome[f] \in {"open", "waiting"}
           /\ Becomes(f, "polled")

Wait(f) == /\ ~cancelled
           /\ outcome[f] = "polled"
           /\ Becomes(f, "waiting")

Notify(f) == /\ cancelled
             /\ outcome[f] = "waiting"
             /\ Becomes(f, "notified")

Resolve(f) == /\ cancelled
              /\ outcome[f] \in {"open", "polled", "waiting", "notified"}
              /\ Becomes(f, "ready")

Drop(f) == outcome[f] # "dropped" /\ Becomes(f, "dropped")

Next == \/ Cancel \/ Unwind
        \/ \E f \in Futures : \/ Create(f) \/ Poll(f) \/ Wait(f)
                              \/ Notify(f) \/ Resolve(f) \/ Drop(f)

Safety == Init /\ [][Next]_vars

\* Nobody is left asleep by a request to cancel.
Undecided(f) == outcome[f] \in {"polled", "waiting"}

Reached == \A f \in Futures :
              (cancelled /\ Undecided(f)) ~> (~Undecided(f) \/ unwound)

Spec == Safety /\ Reached
=============================================================================
