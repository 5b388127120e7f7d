---------------------------- MODULE MCJaxTraining ----------------------------
(* Small instances of JaxTraining. *)
EXTENDS JaxTraining

Counters(g, m, o, e) ==
  [learning |-> [global |-> g, micro |-> m, optimizer |-> o], envelope |-> e]

\* A fresh learning state, one in the middle of an interval and of a micro step,
\* and one that has optimizer steps; assembly starts the optimizer at step 0.
MCAssemblies == { Counters(0, 0, 0, 0), Counters(1, 1, 0, 0), Counters(2, 0, 2, 0) }
=============================================================================
