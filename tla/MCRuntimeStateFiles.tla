------------------------ MODULE MCRuntimeStateFiles ------------------------
(* Small instances of RuntimeStateFiles: interchangeable savers, each with *)
(* or without overwrite.                                                   *)
EXTENDS RuntimeStateFiles, TLC

Interchangeable == Permutations(Savers)
=============================================================================
