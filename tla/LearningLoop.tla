---------------------------- MODULE LearningLoop ----------------------------
(***************************************************************************)
(* One invocation of run_learning_loop (steps/loop.py): the bounded loop   *)
(* that draws a batch, has the step executor train on it, adopts the       *)
(* returned state after validating it, writes a checkpoint at the cadence, *)
(* and tells the hooks of every lifecycle boundary.                        *)
(*                                                                         *)
(* The batch source, the step executor, the checkpoint callback and the    *)
(* hooks are protocols: they answer anything their protocol allows,        *)
(* exceptions included.  Learning and optimizer states are their counters; *)
(* parameters, metrics and warnings are left out.                          *)
(***************************************************************************)
EXTENDS HookDispatch, Sequences

CONSTANTS
  Configs,       \* LearningLoopConfigs a run may be given
  Policies,      \* HookPolicies a run may be given
  Starts,        \* the states a run may start from
  SourceLengths, \* how many batches the source may still hold
  Advances,      \* by how much an executor may move a counter
  NoExecution,   \* no step has returned yet
  Malformed      \* a returned value without a result or a LearningState

(***************************************************************************)
(* A configuration has max_steps and checkpoint_every_n_steps, 0 standing  *)
(* for None (or for a run without a checkpoint callback).                  *)
(***************************************************************************)
LoopConfigs == [max_steps: Nat, checkpoint_every: Nat]

\* LearningState.global_step and .optimizer_step, and the optimizer state's
\* own envelope.step: three counters that a step must move together.
Counters == [global: Nat, optimizer: Nat, envelope: Nat]

\* What a step execution shows the loop of its learning and optimizer state.
\* The optimizer states of all the repository's executors carry a step: the
\* loop does not compare a state that has none.
Executions == [global: Nat, optimizer: Nat, micro: Nat, envelope: Nat]

ASSUME LoopAssumption ==
  /\ Configs \subseteq LoopConfigs
  /\ Policies \subseteq HookPolicies
  /\ Starts \subseteq Counters
  /\ SourceLengths \subseteq Nat
  /\ Advances \subseteq Nat
  /\ NoExecution \notin Executions /\ Malformed \notin Executions

VARIABLES
  config, policy, start, batches,  \* the arguments of the run
  pc,           \* where in _run_learning_loop the run is
  adopted,      \* the counters of the adopted learning and optimizer state
  execution,    \* the local "execution": the last thing the executor returned
  steps,        \* steps_completed
  consumed,     \* batches_consumed (and the position of the source)
  checkpoints,  \* receipts: the global step each checkpoint was taken at
  events,       \* hook_events
  disabled,     \* hook ids disabled so far
  failures,     \* history: how often each hook has failed
  stop_reason,  \* the reason the run will return once its last event is out
  result        \* what the caller gets

arguments == <<config, policy, start, batches>>
core == <<adopted, execution, steps, consumed, checkpoints>>
observed == <<events, disabled, failures>>
vars == <<arguments, pc, core, observed, stop_reason, result>>

CoreFailures ==
  { "learning_step_failure", "learning_step_rejected", "checkpoint_failure" }
Ends == { "max_steps", "source_exhausted" }
StopReasons == CoreFailures \cup Ends
NoReason == "none"

\* LearningLoopResult.status, .stop_reason and whether it has blockers.
Results == [status: {"running", "pass", "fail"},
            stop_reason: StopReasons \cup {NoReason, "hook_failure"},
            blocked: BOOLEAN]
NoResult == [status |-> "running", stop_reason |-> NoReason, blocked |-> FALSE]

TypeOK ==
  /\ config \in Configs /\ policy \in Policies
  /\ start \in Starts /\ batches \in SourceLengths
  /\ pc \in { "loop_start", "next_batch", "batch_received", "step_start",
              "execute", "step_end", "checkpoint", "checkpoint_event",
              "failure", "loop_end", "returned", "raised" }
  /\ adopted \in Counters
  /\ execution \in Executions \cup {NoExecution, Malformed}
  /\ steps \in Nat /\ consumed \in Nat
  /\ checkpoints \in Seq(Nat)
  /\ events \in Seq(HookEvents)
  /\ disabled \subseteq Hooks
  /\ failures \in [Hooks -> Nat]
  /\ stop_reason \in StopReasons \cup {NoReason}
  /\ result \in Results

Init ==
  /\ config \in Configs /\ policy \in Policies
  /\ start \in Starts /\ batches \in SourceLengths
  /\ pc = "loop_start"
  /\ adopted = start
  /\ execution = NoExecution
  /\ steps = 0 /\ consumed = 0
  /\ checkpoints = <<>>
  /\ events = <<>>
  /\ disabled = {}
  /\ failures = [h \in Hooks |-> 0]
  /\ stop_reason = NoReason
  /\ result = NoResult
-----------------------------------------------------------------------------
(***************************************************************************)
(* observe(event): the event is recorded before the hooks are dispatched,  *)
(* and what the dispatch returned is kept only if it did return.           *)
(***************************************************************************)
Told(event, outcome) ==
  /\ events' = Append(events, event)
  /\ disabled' = DisabledAfter(event, policy, disabled, outcome)
  /\ failures' = [h \in Hooks |->
       IF h \in Failed(event, policy, disabled, outcome)
       THEN failures[h] + 1 ELSE failures[h]]

Returns(status, reason, blocked) ==
  /\ pc' = "returned"
  /\ result' = [status |-> status, stop_reason |-> reason, blocked |-> blocked]

\* A receipt that cannot be built raises out of observe and of the loop.
Raises(event) ==
  /\ \E outcome \in Answers(event, disabled) :
       Escapes(event, policy, disabled, outcome)
  /\ events' = Append(events, event)
  /\ pc' = "raised"
  /\ UNCHANGED <<disabled, failures, result>>

\* Variant: blockers of the checkpoint event are not looked at.
BoundaryIgnoringCheckpoint(event, next) ==
  \/ Raises(event)
  \/ \E outcome \in Answers(event, disabled) :
       /\ ~Escapes(event, policy, disabled, outcome)
       /\ Told(event, outcome)
       /\ IF event # "checkpoint" /\ Blocks(event, policy, disabled, outcome)
          THEN Returns("fail", "hook_failure", TRUE)
          ELSE pc' = next /\ UNCHANGED result

\* A boundary in the middle of the run: blockers end the run here.
Boundary(event, next) ==
  \/ Raises(event)
  \/ \E outcome \in Answers(event, disabled) :
       /\ ~Escapes(event, policy, disabled, outcome)
       /\ Told(event, outcome)
       /\ IF Blocks(event, policy, disabled, outcome)
          THEN Returns("fail", "hook_failure", TRUE)
          ELSE pc' = next /\ UNCHANGED result

LoopStart ==
  /\ pc = "loop_start"
  /\ Boundary("loop_start", "next_batch")
  /\ UNCHANGED <<arguments, core, stop_reason>>

BatchReceived ==
  /\ pc = "batch_received"
  /\ Boundary("batch_received", "step_start")
  /\ UNCHANGED <<arguments, core, stop_reason>>

StepStart ==
  /\ pc = "step_start"
  /\ Boundary("step_start", "execute")
  /\ UNCHANGED <<arguments, core, stop_reason>>

\* Variant: the cadence counts the steps of this run, not the global step.
DueByRunSteps ==
  /\ config.checkpoint_every # 0
  /\ steps % config.checkpoint_every = 0

\* A checkpoint is due at every multiple of the interval.
CheckpointDue ==
  /\ config.checkpoint_every # 0
  /\ adopted.global % config.checkpoint_every = 0

StepEnd ==
  /\ pc = "step_end"
  /\ Boundary("step_end", IF CheckpointDue THEN "checkpoint" ELSE "next_batch")
  /\ UNCHANGED <<arguments, core, stop_reason>>

CheckpointEvent ==
  /\ pc = "checkpoint_event"
  /\ Boundary("checkpoint", "next_batch")
  /\ UNCHANGED <<arguments, core, stop_reason>>

\* The event that ends a run that ran to its end; it can still be blocked.
LoopEnd ==
  /\ pc = "loop_end"
  /\ \/ Raises("loop_end")
     \/ \E outcome \in Answers("loop_end", disabled) :
          /\ ~Escapes("loop_end", policy, disabled, outcome)
          /\ Told("loop_end", outcome)
          /\ IF Blocks("loop_end", policy, disabled, outcome)
             THEN Returns("fail", "hook_failure", TRUE)
             ELSE Returns("pass", stop_reason, FALSE)
  /\ UNCHANGED <<arguments, core, stop_reason>>

\* Variant: a blocker of the failure event replaces the core reason.
FailureErasesReason ==
  /\ pc = "failure"
  /\ \/ Raises("failure")
     \/ \E outcome \in Answers("failure", disabled) :
          /\ ~Escapes("failure", policy, disabled, outcome)
          /\ Told("failure", outcome)
          /\ LET blocked == Blocks("failure", policy, disabled, outcome)
             IN  Returns("fail", IF blocked THEN "hook_failure" ELSE stop_reason,
                         blocked)
  /\ UNCHANGED <<arguments, core, stop_reason>>

\* The event that ends a run a core action failed: blockers are recorded, and
\* the reason stays the core failure.
Failure ==
  /\ pc = "failure"
  /\ \/ Raises("failure")
     \/ \E outcome \in Answers("failure", disabled) :
          /\ ~Escapes("failure", policy, disabled, outcome)
          /\ Told("failure", outcome)
          /\ Returns("fail", stop_reason,
                     Blocks("failure", policy, disabled, outcome))
  /\ UNCHANGED <<arguments, core, stop_reason>>
-----------------------------------------------------------------------------
\* Variant: an exhausted source is polled again instead of ending the run.
NextBatchPolls ==
  /\ pc = "next_batch"
  /\ \/ /\ steps < config.max_steps /\ consumed < batches
        /\ consumed' = consumed + 1
        /\ pc' = "batch_received"
        /\ UNCHANGED stop_reason
     \/ /\ steps < config.max_steps /\ consumed = batches
        /\ UNCHANGED <<consumed, pc, stop_reason>>
     \/ /\ steps = config.max_steps
        /\ pc' = "loop_end" /\ stop_reason' = "max_steps"
        /\ UNCHANGED consumed
  /\ UNCHANGED <<arguments, adopted, execution, steps, checkpoints, observed,
                 result>>

\* The head of the for loop: steps counts its iterations.
NextBatch ==
  /\ pc = "next_batch"
  /\ \/ /\ steps < config.max_steps /\ consumed < batches
        /\ consumed' = consumed + 1
        /\ pc' = "batch_received"
        /\ UNCHANGED stop_reason
     \/ /\ steps < config.max_steps /\ consumed = batches
        /\ pc' = "loop_end" /\ stop_reason' = "source_exhausted"
        /\ UNCHANGED consumed
     \/ /\ steps = config.max_steps
        /\ pc' = "loop_end" /\ stop_reason' = "max_steps"
        /\ UNCHANGED consumed
  /\ UNCHANGED <<arguments, adopted, execution, steps, checkpoints, observed,
                 result>>

\* The batch source raises: nothing catches it, and no event tells of it.
SourceRaises ==
  /\ pc = "next_batch" /\ steps < config.max_steps
  /\ pc' = "raised"
  /\ UNCHANGED <<arguments, core, observed, stop_reason, result>>

\* The executor raises; "execution" keeps what it held.  The reason stands for
\* the exception's own code where it has one.
StepRaises ==
  /\ pc = "execute"
  /\ pc' = "failure" /\ stop_reason' = "learning_step_failure"
  /\ UNCHANGED <<arguments, core, observed, result>>

\* Variant: the optimizer envelope is not compared.
ValidWithoutEnvelope(e) ==
  /\ e # Malformed
  /\ e.global = adopted.global + 1
  /\ e.optimizer = adopted.optimizer + 1
  /\ e.micro = 0

\* validate_learning_step_execution; its six codes are "learning_step_rejected".
Valid(e) ==
  /\ e # Malformed
  /\ e.global = adopted.global + 1
  /\ e.optimizer = adopted.optimizer + 1
  /\ e.micro = 0
  /\ e.envelope = adopted.envelope + 1

\* The executor returns e: adopted when it validates.  When it does not, it is
\* still what final_execution will show.
StepReturns(e) ==
  /\ pc = "execute"
  /\ execution' = e
  /\ \/ /\ Valid(e)
        /\ adopted' = [global |-> e.global, optimizer |-> e.optimizer,
                       envelope |-> e.envelope]
        /\ steps' = steps + 1
        /\ pc' = "step_end"
        /\ UNCHANGED stop_reason
     \/ /\ ~Valid(e)
        /\ pc' = "failure" /\ stop_reason' = "learning_step_rejected"
        /\ UNCHANGED <<adopted, steps>>
  /\ UNCHANGED <<arguments, consumed, checkpoints, observed, result>>

\* What an executor may return: counters moved by any of Advances.
Returnable ==
  { [global |-> adopted.global + g, optimizer |-> adopted.optimizer + o,
     micro |-> m, envelope |-> adopted.envelope + v] :
      g \in Advances, o \in Advances, m \in {0, 1}, v \in Advances }
  \cup {Malformed}

\* The checkpoint callback returns its receipt, or raises.
CheckpointWritten ==
  /\ pc = "checkpoint"
  /\ checkpoints' = Append(checkpoints, adopted.global)
  /\ pc' = "checkpoint_event"
  /\ UNCHANGED <<arguments, adopted, execution, steps, consumed, observed,
                 stop_reason, result>>

CheckpointRaises ==
  /\ pc = "checkpoint"
  /\ pc' = "failure" /\ stop_reason' = "checkpoint_failure"
  /\ UNCHANGED <<arguments, core, observed, result>>

LoopStep ==
  \/ LoopStart \/ BatchReceived \/ StepStart \/ StepEnd \/ CheckpointEvent
  \/ LoopEnd \/ Failure
  \/ NextBatch
  \/ \E e \in Returnable : StepReturns(e)
  \/ CheckpointWritten

CallbackRaises == SourceRaises \/ StepRaises \/ CheckpointRaises

\* The run is over: its caller has a result or an exception.
Over == pc \in {"returned", "raised"} /\ UNCHANGED vars

Next == LoopStep \/ CallbackRaises \/ Over

Spec == Init /\ [][Next]_vars

\* The loop is sequential code: it keeps running while the callbacks it is in
\* return.  No callback has to raise.
FairSpec == Spec /\ WF_vars(LoopStep)
-----------------------------------------------------------------------------
(***************************************************************************)
(* Properties                                                              *)
(***************************************************************************)

\* The global step, the optimizer step and the optimizer's own envelope never
\* drift apart, whatever an executor returns: a run that completed n steps has
\* moved each of them by exactly n, and no batch but the one in hand was drawn
\* without being trained on.
LockStep ==
  /\ adopted.global = start.global + steps
  /\ adopted.optimizer = start.optimizer + steps
  /\ adopted.envelope = start.envelope + steps
  /\ consumed \in {steps, steps + 1}
  /\ pc = "checkpoint" => consumed = steps
  /\ result.status = "pass" => consumed = steps

\* The global steps from the start of the run at which a checkpoint is due.
DueSteps ==
  { n \in (start.global + 1)..adopted.global :
      config.checkpoint_every # 0 /\ n % config.checkpoint_every = 0 }

\* A run that passes has a receipt for every step the cadence asked for, also
\* when it resumed in the middle of an interval, has none besides, and stopped
\* for the reason it gives.
PassMeansComplete ==
  result.status = "pass" =>
    /\ { checkpoints[i] : i \in DOMAIN checkpoints } = DueSteps
    /\ Len(checkpoints) = Cardinality(DueSteps)
    /\ result.stop_reason = "max_steps" => steps = config.max_steps
    /\ result.stop_reason = "source_exhausted" =>
         steps = batches /\ steps < config.max_steps
    /\ ~result.blocked

TimesTold(event) == Cardinality({ i \in DOMAIN events : events[i] = event })

\* The event trace that a run report is built from agrees with the run: a step
\* or a checkpoint is told of exactly when it happened, a failure exactly when
\* the reason is a core failure, and nothing follows the end.
TraceTellsTheRun ==
  LET unannounced(here) == IF pc = here THEN 1 ELSE 0
  IN  pc # "raised" =>
      /\ TimesTold("step_end") = steps - unannounced("step_end")
      /\ TimesTold("checkpoint") = Len(checkpoints) - unannounced("checkpoint_event")
      /\ TimesTold("batch_received") = consumed - unannounced("batch_received")
      /\ TimesTold("failure") =
           (IF stop_reason \in CoreFailures THEN 1 ELSE 0) - unannounced("failure")
      /\ TimesTold("loop_end") =
           (IF stop_reason \in Ends THEN 1 ELSE 0) - unannounced("loop_end")
      /\ result.stop_reason \in CoreFailures <=>
           pc = "returned" /\ stop_reason \in CoreFailures

\* Under disable_hook a hook that failed is never asked again in this run, so
\* it fails at most once, and it is exactly the disabled hooks that failed.
DisabledForGood ==
  policy.failure_mode = "disable_hook" =>
    \A h \in Hooks : failures[h] = IF h \in disabled THEN 1 ELSE 0

\* "Fail-fast hook blockers stop the loop before the next core action": once a
\* hook has failed under fail_fast no batch is drawn, nothing is trained and
\* nothing is checkpointed any more.
FailFastStops ==
  [][ (policy.failure_mode = "fail_fast" /\ \E h \in Hooks : failures[h] > 0)
        => UNCHANGED core ]_vars

\* Every run ends: its caller gets a result or an exception.
RunEnds == <>(pc \in {"returned", "raised"})

\* "Failure hooks must not erase the core failure that triggered them": a run
\* whose step or checkpoint failed hands its caller that reason.
CoreFailureReported ==
  stop_reason \in CoreFailures => pc # "raised"
=============================================================================
