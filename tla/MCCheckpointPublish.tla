------------------------ MODULE MCCheckpointPublish ------------------------
(* Three savers, of both kinds, and two names next to each other: they may  *)
(* all race for one.                                                       *)
EXTENDS CheckpointPublish

CONSTANTS s1, s2, s3, n1, n2

MCKind == [s \in Savers |-> IF s = s1 THEN "v3" ELSE "continuation"]
=============================================================================
