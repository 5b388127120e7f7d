--------------------------- MODULE MCContinuation ---------------------------
(* Small instances of Continuation: schedules of up to two epochs.         *)
EXTENDS Continuation

CONSTANTS a, b, c

MCSchedules == { <<>>, <<a, b, a, b>>, <<a, b, c, a, b, c>> }
=============================================================================
