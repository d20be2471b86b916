------------------------------ MODULE MCRetry ------------------------------
(* Values of the constants for TLC.                                        *)
EXTENDS Retry

\* Refused, single-attempt and repeated calls.
SmallLimits == -1 .. 5

\* NewDB's ten attempts.
NewDBLimit == {10}
=============================================================================
