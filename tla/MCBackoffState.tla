----------------------------- MODULE MCBackoffState -----------------------------
(***************************************************************************)
(* Instances of BackoffState for TLC.  One is about growth over many       *)
(* retries, in three-bit floating point: half of the durations to 15 ticks *)
(* have no exact representation and the third power of the largest         *)
(* multiplier is infinite.  The other is about jitter, hints and caps at   *)
(* every delay, in five-bit floating point.                                *)
(***************************************************************************)
EXTENDS BackoffState

\* 0.75 (invalid), 1.0, 1.25, 1.5, 2.0 and 4.0, infinity and NaN (invalid).
GrowthMultipliers == {3, 4, 5, 6, 8, 16, Inf, NaN}

\* 0.0, 0.25, 1.0 and the invalid 1.0625 and NaN.
JitterRatios == {0, 4, 16, 17, NaN}

\* Inside, at and outside the ends of 0.0 .. 1.0.
JitterSamples == {0, 3, 16, 17, NaN, Negative}

\* The same in units of a quarter.
GrowthSamples == {0, 1, 4, 5, NaN, Negative}
=============================================================================
