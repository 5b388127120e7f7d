--------------------------- MODULE MCLearningLoop ---------------------------
(* Small instances of LearningLoop: two hooks, at most three steps.        *)
EXTENDS LearningLoop, TLC

MCHooks == {1, 2}

\* Hook 2 is asked before hook 1; both listen to failures and to step ends.
MCPriority == 1 :> 5 @@ 2 :> 0
MCSupported ==
  1 :> {"step_end", "checkpoint", "loop_end", "failure"} @@
  2 :> {"loop_start", "batch_received", "step_start", "step_end", "failure"}

MCConfigs == { [max_steps |-> m, checkpoint_every |-> n] : m \in {0, 3}, n \in {0, 2} }

MCPolicies ==
  { [failure_mode |-> f, allow_metric_emission |-> (f = "disable_hook")] :
      f \in FailureModes }

\* A fresh run, and one resumed in the middle of a checkpoint interval whose
\* three counters differ.
MCStarts == { [global |-> 0, optimizer |-> 0, envelope |-> 0],
              [global |-> 1, optimizer |-> 2, envelope |-> 2] }
=============================================================================
