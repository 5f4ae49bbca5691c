----------------------------- MODULE RetryContract -----------------------------
(***************************************************************************)
(* What a retry flow promises its caller, whichever facade runs it: at     *)
(* most limit attempts, one at a time, none admitted after cancellation;   *)
(* one outcome, fixed once, Success only from a running attempt and        *)
(* Cancelled only if the token is; and one announcement of that outcome.   *)
(***************************************************************************)
EXTENDS Naturals

CONSTANTS Outcomes,  \* kinds of terminal reason, Success among them
          None

VARIABLES limit,      \* max_attempts
          cancelled,  \* the flow's token
          attempts,   \* attempts admitted
          status,     \* idle, running, decided, announced or gone
          outcome     \* the kind of the result, once there is one

vars == <<limit, cancelled, attempts, status, outcome>>

Init ==
    /\ limit \in Nat \ {0}
    /\ cancelled \in BOOLEAN
    /\ attempts = 0
    /\ status = "idle"
    /\ outcome = None

Cancel ==
    /\ ~cancelled
    /\ cancelled' = TRUE
    /\ UNCHANGED <<limit, attempts, status, outcome>>

Admit ==
    /\ status = "idle"
    /\ ~cancelled
    /\ attempts < limit
    /\ attempts' = attempts + 1
    /\ status' = "running"
    /\ UNCHANGED <<limit, cancelled, outcome>>

\* The attempt failed; whether another follows is open.
Fail ==
    /\ status = "running"
    /\ status' = "idle"
    /\ UNCHANGED <<limit, cancelled, attempts, outcome>>

Decide(o) ==
    /\ status \in {"idle", "running"}
    /\ o = "Success" => status = "running"
    /\ o = "Cancelled" => cancelled
    /\ outcome' = o
    /\ status' = "decided"
    /\ UNCHANGED <<limit, cancelled, attempts>>

Announce ==
    /\ status = "decided"
    /\ status' = "announced"
    /\ UNCHANGED <<limit, cancelled, attempts, outcome>>

\* The operation unwinds or the owner drops the flow: no outcome.
Abandon ==
    /\ status \in {"idle", "running"}
    /\ status' = "gone"
    /\ UNCHANGED <<limit, cancelled, attempts, outcome>>

Next == Cancel \/ Admit \/ Fail \/ Announce \/ Abandon
        \/ \E o \in Outcomes : Decide(o)

Spec == Init /\ [][Next]_vars
=============================================================================
