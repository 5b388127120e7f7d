----------------------------- MODULE JaxTraining -----------------------------
(***************************************************************************)
(* The generic loop over the JAX step executor (steps/jax_loop.py,         *)
(* steps/jax_step.py) with version 3 checkpoints (checkpoints/v3.py).      *)
(*                                                                         *)
(* Two parties keep the same counters: the loop, which reports them, and   *)
(* the executor's lifecycle, which holds what was trained.  The lifecycle  *)
(* is replaced as a whole by a step, by a checkpoint callback that restores *)
(* and by a caller that restores, also in a new process.                   *)
(*                                                                         *)
(* Parameters, carry and optimizer arrays are the steps that made them.    *)
(* Files are as CheckpointPublish has them: what a load returns was saved. *)
(* Hooks, events and results are LearningLoop's; here a hook may end a run. *)
(* All processes assemble the same request.                                *)
(***************************************************************************)
EXTENDS Naturals, Sequences

CONSTANTS
  Assemblies,    \* the counters a lifecycle may be assembled with
  Batches,       \* how many batches the source has
  MaxSteps,      \* max_steps of a run
  Interval,      \* checkpoint_every_n_steps
  Absent,        \* no loop is running
  MaxFaults      \* failures, restores and deaths in one behaviour

Learning == [global: Nat, micro: Nat, optimizer: Nat]

ASSUME TrainingAssumption ==
  /\ Assemblies \subseteq [learning: Learning, envelope: Nat]
  /\ Batches \in Nat /\ MaxSteps \in Nat /\ MaxFaults \in Nat
  /\ Interval \in Nat \ {0}
  /\ Absent \notin [learning: Learning, envelope: Nat]

VARIABLES
  assembled,  \* the counters every process assembles
  lifecycle,  \* executor.lifecycle
  loop,       \* the learning and optimizer state the loop has adopted
  steps,      \* steps_completed
  position,   \* batches the source has given
  pc,         \* "away", "next", "checkpoint" or "returned"
  outcome,    \* how the last run ended
  stored,     \* the lifecycles in version 3 checkpoints
  swapped,    \* history: the callback put another lifecycle in place in this run
  faults

caller == <<assembled, position, stored, faults>>
running == <<loop, steps, pc, outcome, swapped>>
vars == <<assembled, lifecycle, loop, steps, position, pc, outcome, stored, swapped, faults>>

\* One step: its batch and its run key, the coordinates of jax_key_words that
\* differ between steps (the invocation index is the global step).
Keys == Nat \X Nat
Trained == Seq([batch: Nat, key: Keys])

Lifecycles ==
  [learning: Learning, envelope: Nat, parameters: Trained, carry: Trained, arrays: Trained]

Outcomes ==
  { "none", "pass", "hook", "step_failed", "mismatch", "rejected", "save_failed", "unsavable" }

\* The states the loop is given and adopts.
Reported(l) == [learning |-> l.learning, envelope |-> l.envelope]

\* assemble_jax_learning_lifecycle
Assembled ==
  [learning |-> assembled.learning, envelope |-> assembled.envelope,
   parameters |-> <<>>, carry |-> <<>>, arrays |-> <<>>]

Init ==
  /\ assembled \in Assemblies
  /\ lifecycle = Assembled
  /\ loop = Absent /\ steps = 0
  /\ position = 0
  /\ pc = "away" /\ outcome = "none"
  /\ stored = {}
  /\ swapped = FALSE
  /\ faults = 0

TypeOK ==
  /\ assembled \in Assemblies
  /\ lifecycle \in Lifecycles
  /\ loop \in [learning: Learning, envelope: Nat] \cup {Absent}
  /\ steps \in 0..MaxSteps
  /\ position \in 0..Batches
  /\ pc \in { "away", "next", "checkpoint", "returned" }
  /\ outcome \in Outcomes
  /\ stored \subseteq Lifecycles
  /\ swapped \in BOOLEAN
  /\ faults \in 0..MaxFaults
  /\ (loop = Absent) = (pc = "away")
-----------------------------------------------------------------------------
(***************************************************************************)
(* One production step.                                                    *)
(***************************************************************************)
\* Variant: the invocation index counts the steps of the run.
KeyOfRun(learning) == <<steps, learning.micro>>

\* derive_jax_key
Key(learning) == <<learning.global, learning.micro>>

\* Variant: the micro step is kept.
ExecutedKeepsMicro(l, b) ==
  LET step == [batch |-> b, key |-> Key(l.learning)]
  IN  [learning |-> [l.learning EXCEPT !.global = @ + 1, !.optimizer = @ + 1],
       envelope |-> l.envelope + 1,
       parameters |-> Append(l.parameters, step),
       carry |-> Append(l.carry, step),
       arrays |-> Append(l.arrays, step)]

\* What execute_jax_learning_step returns when nothing raises.
Executed(l, b) ==
  LET step == [batch |-> b, key |-> Key(l.learning)]
  IN  [learning |-> [global |-> l.learning.global + 1, micro |-> 0,
                     optimizer |-> l.learning.optimizer + 1],
       envelope |-> l.envelope + 1,
       parameters |-> Append(l.parameters, step),
       carry |-> Append(l.carry, step),
       arrays |-> Append(l.arrays, step)]

\* Variant: the carry stays.
AcceptedKeepsCarry(l, execution) == [execution EXCEPT !.carry = l.carry]

\* accept_execution: everything a step changes is replaced.
Accepted(l, execution) ==
  [l EXCEPT !.learning = execution.learning, !.envelope = execution.envelope,
            !.parameters = execution.parameters, !.carry = execution.carry,
            !.arrays = execution.arrays]

\* validate_learning_step_execution
Valid(execution) ==
  /\ execution.learning.global = loop.learning.global + 1
  /\ execution.learning.optimizer = loop.learning.optimizer + 1
  /\ execution.learning.micro = 0
  /\ execution.envelope = loop.envelope + 1

\* Variant: whatever the loop passes is taken.
MatchesAnything == TRUE

\* The executor compares the loop's learning state with its lifecycle's.
Matches == loop.learning = lifecycle.learning
-----------------------------------------------------------------------------
(***************************************************************************)
(* run_learning_loop.                                                      *)
(***************************************************************************)
Fault == faults < MaxFaults /\ faults' = faults + 1

Returns(how) == pc' = "returned" /\ outcome' = how

\* The caller passes the lifecycle's own states.
StartLoop ==
  /\ pc = "away"
  /\ loop' = Reported(lifecycle)
  /\ steps' = 0
  /\ pc' = "next"
  /\ swapped' = FALSE
  /\ UNCHANGED <<lifecycle, outcome, caller>>

\* A batch to train on.
Draws ==
  /\ pc = "next" /\ steps < MaxSteps /\ position < Batches
  /\ position' = position + 1

\* The executor has accepted the execution before the loop validates it.
Step ==
  /\ Draws
  /\ Matches
  /\ LET execution == Executed(lifecycle, position)
     IN  /\ lifecycle' = Accepted(lifecycle, execution)
         /\ IF Valid(execution)
            THEN /\ loop' = Reported(execution)
                 /\ steps' = steps + 1
                 /\ pc' = IF execution.learning.global % Interval = 0
                          THEN "checkpoint" ELSE "next"
                 /\ UNCHANGED outcome
            ELSE Returns("rejected") /\ UNCHANGED <<loop, steps>>
  /\ UNCHANGED <<assembled, stored, swapped, faults>>

\* "loop learning state does not match JAX lifecycle"
StepMismatch ==
  /\ Draws
  /\ ~Matches
  /\ Returns("mismatch")
  /\ UNCHANGED <<lifecycle, loop, steps, assembled, stored, swapped, faults>>

\* Variant: the step fails after it was accepted.
StepFailsLate ==
  /\ Draws /\ Fault
  /\ Returns("step_failed")
  /\ lifecycle' = Accepted(lifecycle, Executed(lifecycle, position))
  /\ UNCHANGED <<loop, steps, assembled, stored, swapped>>

\* The materializer, the runtime or a check of its output raises, or the new
\* lifecycle is not a valid one: the old one stays, the batch is gone.
StepFails ==
  /\ Draws /\ Fault
  /\ Returns("step_failed")
  /\ UNCHANGED <<lifecycle, loop, steps, assembled, stored, swapped>>

\* A hook blocks, before a batch is drawn or after.
HookStops ==
  /\ Fault
  /\ Returns("hook")
  /\ \/ Draws
     \/ pc \in {"next", "checkpoint"} /\ UNCHANGED position
  /\ UNCHANGED <<lifecycle, loop, steps, assembled, stored, swapped>>

\* The last step was taken, or the source has no batch any more.
LoopEnds ==
  /\ pc = "next"
  /\ steps = MaxSteps \/ position = Batches
  /\ Returns("pass")
  /\ UNCHANGED <<lifecycle, loop, steps, swapped, caller>>
-----------------------------------------------------------------------------
(***************************************************************************)
(* Version 3 checkpoints.                                                  *)
(***************************************************************************)
\* Variant: the restored lifecycle keeps its learning state.
WithCheckpointKeepsLearning(l, c) == [c EXCEPT !.learning = l.learning]

\* with_checkpoint: everything that is not the assembly's is the checkpoint's.
WithCheckpoint(l, c) ==
  [l EXCEPT !.learning = c.learning, !.envelope = c.envelope,
            !.parameters = c.parameters, !.carry = c.carry, !.arrays = c.arrays]

\* _validate_runtime_state: learning and optimizer steps have to agree.
Savable(l) == l.learning.optimizer = l.envelope

\* The checkpoint callback saves, and may put a saved lifecycle in place.
CheckpointWritten ==
  /\ pc = "checkpoint"
  /\ Savable(lifecycle)
  /\ stored' = stored \cup {lifecycle}
  /\ \/ UNCHANGED <<lifecycle, faults>>
     \/ Fault /\ \E c \in stored' : lifecycle' = WithCheckpoint(lifecycle, c)
  /\ swapped' = (swapped \/ lifecycle' # lifecycle)
  /\ pc' = "next"
  /\ UNCHANGED <<loop, steps, outcome, assembled, position>>

CheckpointRefused ==
  /\ pc = "checkpoint"
  /\ ~Savable(lifecycle)
  /\ Returns("unsavable")
  /\ UNCHANGED <<lifecycle, loop, steps, swapped, caller>>

\* The destination is occupied, a write or the new checkpoint's own load fails.
CheckpointFails ==
  /\ pc = "checkpoint" /\ Fault
  /\ Returns("save_failed")
  /\ UNCHANGED <<lifecycle, loop, steps, swapped, assembled, position, stored>>
-----------------------------------------------------------------------------
(***************************************************************************)
(* The caller.                                                             *)
(***************************************************************************)

\* It takes the result; the lifecycle is as the run left it.
TakeResult ==
  /\ pc = "returned"
  /\ pc' = "away" /\ loop' = Absent
  /\ UNCHANGED <<lifecycle, steps, outcome, swapped, caller>>

\* restore_from_checkpoint between runs; the checkpoint does not hold a source
\* position, so the source is wherever the caller puts it.
Restore(c, p) ==
  /\ pc = "away" /\ Fault
  /\ lifecycle' = WithCheckpoint(lifecycle, c)
  /\ position' = p
  /\ UNCHANGED <<running, assembled, stored>>

\* The process dies; a new one assembles.
Crash ==
  /\ Fault
  /\ lifecycle' = Assembled
  /\ loop' = Absent /\ steps' = 0
  /\ position' = 0
  /\ pc' = "away" /\ outcome' = "none"
  /\ swapped' = FALSE
  /\ UNCHANGED <<assembled, stored>>

Next ==
  \/ StartLoop
  \/ Step \/ StepMismatch \/ StepFails
  \/ HookStops \/ LoopEnds
  \/ CheckpointWritten \/ CheckpointRefused \/ CheckpointFails
  \/ TakeResult
  \/ \E c \in stored, p \in 0..Batches : Restore(c, p)
  \/ Crash

Spec == Init /\ [][Next]_vars
-----------------------------------------------------------------------------
(***************************************************************************)
(* Properties                                                              *)
(***************************************************************************)
Whole(l) ==
  /\ l.carry = l.parameters /\ l.arrays = l.parameters
  /\ l.learning.global = assembled.learning.global + Len(l.parameters)
  /\ l.learning.optimizer = assembled.learning.optimizer + Len(l.parameters)
  /\ l.envelope = assembled.envelope + Len(l.parameters)

\* "Typed ownership carrier for one JAX learning run": parameters, carry and
\* optimizer arrays are always of the same steps, and the counters count them,
\* in the live lifecycle and in every checkpoint.
WholeLifecycle == \A l \in {lifecycle} \cup stored : Whole(l)

BatchesOf(l) == [i \in DOMAIN l.parameters |-> l.parameters[i].batch]

\* A resumed run ends where an uninterrupted one does: what was trained on the
\* same batches is the same, with the same keys and counters.
ReplayIsExact ==
  \A l, m \in {lifecycle} \cup stored : BatchesOf(l) = BatchesOf(m) => l = m

\* A key is used for one step of a lineage only, whatever was restored.
KeysAreFresh ==
  \A i, j \in DOMAIN lifecycle.parameters :
    lifecycle.parameters[i].key = lifecycle.parameters[j].key => i = j

\* The executor is never ahead of what the loop reports, nor behind, unless the
\* callback put another lifecycle in place.
LoopFollowsLifecycle ==
  loop # Absent /\ ~swapped => loop = Reported(lifecycle)

\* A run ends only for its caller's reasons: the loop accepts what the executor
\* has accepted, a save is refused only when the request was assembled with
\* disagreeing steps, and the executor refuses only after a swap.
FailuresAreTheCallers ==
  /\ outcome # "rejected"
  /\ outcome = "unsavable" => assembled.learning.optimizer # assembled.envelope
  /\ outcome = "mismatch" /\ pc = "returned" => swapped

\* What an executor trains, the loop counts: after a swap a step changes the
\* lifecycle only when its counters are those the loop goes on with.
TrainsInLockStep ==
  [][ pc = "next" /\ pc' # "away" /\ lifecycle' # lifecycle =>
        /\ loop.learning = lifecycle.learning
        /\ loop' = Reported(lifecycle')
        /\ steps' = steps + 1 ]_vars
=============================================================================
