--------------------------- MODULE MCCheckpointV2 ---------------------------
(* Three saves: the second repeats the step of the first with other         *)
(* parameters, and the third is of another run.                             *)
EXTENDS CheckpointV2

MCStepOf == <<1, 1, 2>>
MCReferenceOf == <<"run", "run", "other">>
MCPayload ==
    [architecture |-> <<"p1", "p1b", "p2">>,
     learning     |-> <<"run.1", "run.1", "other.2">>,
     optimizer    |-> <<"o1", "o1", "o2">>,
     source       |-> <<"b1", "b1", "b2">>]
=============================================================================
