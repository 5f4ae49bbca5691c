----------------------------- MODULE MCRetryFlow -----------------------------
(***************************************************************************)
(* Instances of RetryFlow for TLC: readings 0..MaxDuration and a handful   *)
(* of definitions per facade that make every limit, both timeouts, their   *)
(* ties and the unrepresentable deadlines occur.                           *)
(***************************************************************************)
EXTENDS RetryFlow

Definition(facade, attempts, operation, total, fallback, attempt, flow) ==
    [facade |-> facade, max_attempts |-> attempts,
     operation_time_budget |-> operation, total_time_budget |-> total,
     fallback |-> fallback, attempt_timeout |-> attempt, flow_timeout |-> flow]

UntimedConfigs ==
    { Definition("Retry", 2, 2, None, "Retry", None, None),
      Definition("Retry", 3, None, 3, "Abort", None, None),
      Definition("RetrySession", 2, None, 3, "Retry", None, None),
      Definition("RetrySession", 3, 1, None, "Retry", None, None) }

TimedConfigs ==
    { Definition("AsyncRetry", 2, None, None, "Retry", 1, 3),
      Definition("AsyncRetry", 2, None, 2, "Abort", 2, 2),
      Definition("AsyncRetry", 2, 1, None, "Retry", None, 3),
      Definition("WorkerRetry", 2, None, 3, "Retry", 2, 3),
      Definition("WorkerRetry", 2, None, None, "Retry", None, None) }

AllConfigs == UntimedConfigs \union TimedConfigs

LiveConfigs ==
    { Definition("RetrySession", 3, None, None, "Retry", None, None),
      Definition("AsyncRetry", 2, None, None, "Retry", 2, None),
      Definition("WorkerRetry", 2, None, 2, "Retry", None, 2) }
=============================================================================
