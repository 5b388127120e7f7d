---------------------------- MODULE Continuation ----------------------------
(***************************************************************************)
(* Durable behavioural continuation (behavior/continuation.py): the runner *)
(* run_behavior_continuation_v1 trains a learner on a canonical schedule,  *)
(* one source unit at a time; its checkpoint callback saves an envelope    *)
(* that pairs the source progress with the model.  The caller stops and    *)
(* continues the run, and takes it up from the last envelope after an      *)
(* exception or a crash.                                                   *)
(*                                                                         *)
(* A unit is one scheduled occurrence's identity; the learner is what it   *)
(* was trained on and its optimizer step.  The run state is its cursor and *)
(* its optimizer step: global_step is carried the same way, and epoch,     *)
(* retry count and authorities only ride along.  Saving an envelope is     *)
(* atomic here, which is what CheckpointPublish is about.                  *)
(***************************************************************************)
EXTENDS Naturals, Sequences

CONSTANTS
  Units,         \* source unit identities
  Schedules,     \* the schedules a run may have: a unit recurs once per epoch
  Intervals,     \* checkpoint_interval_steps
  Pretrained,    \* optimizer steps the learner may have taken before this run
  StopAfter,     \* stop_after_steps, 0 standing for None
  Reports,       \* whether a step's outcome reports the learner's own step
  MaxFaults      \* exceptions and crashes in one behaviour

ASSUME ContinuationAssumption ==
  /\ Schedules \subseteq Seq(Units)
  /\ Intervals \subseteq Nat \ {0}
  /\ Pretrained \subseteq Nat
  /\ StopAfter \subseteq Nat
  /\ Reports \subseteq BOOLEAN
  /\ MaxFaults \in Nat

VARIABLES
  schedule, interval, pretrained,  \* what the run is about, fixed
  learner,   \* the live lifecycle: what it was trained on, its optimizer step
  base,      \* the run state the current call was made with
  stop,      \* stop_after_steps of the current call
  pc,        \* where the runner or its caller is
  current,   \* "current": the last run state that was materialised
  index,     \* next_item_index
  segment,   \* segment_steps
  durable,   \* the envelopes on disk, oldest first
  faults     \* exceptions and crashes so far

run == <<schedule, interval, pretrained>>
call == <<base, stop>>
vars == <<run, learner, call, pc, current, index, segment, durable, faults>>

Learners == [lineage: Seq(Units), optimizer: Nat]
RunStates == [next: Nat, optimizer: Nat]
Envelopes == [state: RunStates, model: Learners]

TypeOK ==
  /\ schedule \in Schedules /\ interval \in Intervals /\ pretrained \in Pretrained
  /\ learner \in Learners
  /\ base \in RunStates /\ stop \in StopAfter \cup {0}
  /\ pc \in { "ready", "loop", "checkpoint", "boundary",
              "stopped", "complete", "raised", "down" }
  /\ current \in RunStates
  /\ index \in Nat /\ segment \in Nat
  /\ durable \in Seq(Envelopes)
  /\ faults \in 0..MaxFaults

FreshState == [next |-> 0, optimizer |-> 0]
FreshLearner == [lineage |-> <<>>, optimizer |-> pretrained]

Init ==
  /\ schedule \in Schedules /\ interval \in Intervals /\ pretrained \in Pretrained
  /\ learner = FreshLearner
  /\ base = FreshState /\ stop = 0
  /\ pc = "ready"
  /\ current = FreshState
  /\ index = 0 /\ segment = 0
  /\ durable = <<>>
  /\ faults = 0
-----------------------------------------------------------------------------
(***************************************************************************)
(* The runner.                                                             *)
(***************************************************************************)

\* The caller enters the runner with its run state and a stop request.
Call ==
  /\ pc = "ready"
  /\ stop' \in StopAfter
  /\ current' = base /\ index' = base.next /\ segment' = 0
  /\ pc' = "loop"
  /\ UNCHANGED <<run, learner, base, durable, faults>>

\* The step callback trains the learner on the next unit.
Trained ==
  [lineage |-> Append(learner.lineage, schedule[index + 1]),
   optimizer |-> learner.optimizer + 1]

\* Variant: the units completed before this call are counted again.
DefaultFromZero(done) == base.optimizer + done

\* default_step once "done" units are completed.
DefaultStep(done) == base.optimizer + (done - base.next)

\* Variant: the cadence counts the steps of this call.
DueBySegment(done) == (done - base.next) % interval = 0

Due(done) == DefaultStep(done) % interval = 0

Stopping(steps) == stop # 0 /\ steps >= stop

\* Variant: a stop is not a boundary at which the run state is built.
MaterializesAtCheckpoints(done) == Due(done) \/ done = Len(schedule)

\* Variant: the terminal boundary is left to the end of the run.
MaterializesWhenDue(done) == Due(done) \/ Stopping(segment + 1)

Materializes(done) ==
  Due(done) \/ done = Len(schedule) \/ Stopping(segment + 1)

\* The step callback returns: the unit is recorded, and at a boundary the run
\* state is built, with the step the outcome reports or the counted one.
StepReturns(reports) ==
  LET done == index + 1
  IN  /\ pc = "loop" /\ index < Len(schedule)
      /\ learner' = Trained
      /\ index' = done /\ segment' = segment + 1
      /\ current' =
           IF Materializes(done)
           THEN [next |-> done,
                 optimizer |-> IF reports THEN Trained.optimizer
                               ELSE DefaultStep(done)]
           ELSE current
      /\ pc' = IF Due(done) \/ done = Len(schedule) THEN "checkpoint" ELSE "boundary"
      /\ UNCHANGED <<run, call, durable, faults>>

Envelope == [state |-> current, model |-> learner]

\* The checkpoint callback saves the envelope and returns its identity.
WriteEnvelope ==
  /\ pc = "checkpoint"
  /\ durable' = Append(durable, Envelope)
  /\ pc' = "boundary"
  /\ UNCHANGED <<run, learner, call, current, index, segment, faults>>

\* A stop request is honoured after a unit that is not the last.  The result
\* refuses a run state that is not the ledger's.
Boundary ==
  /\ pc = "boundary"
  /\ \/ /\ Stopping(segment) /\ index < Len(schedule)
        /\ pc' = IF current.next = index THEN "stopped" ELSE "raised"
     \/ /\ ~Stopping(segment) \/ index = Len(schedule)
        /\ pc' = "loop"
  /\ UNCHANGED <<run, learner, call, current, index, segment, durable, faults>>

Complete ==
  /\ pc = "loop" /\ index = Len(schedule)
  /\ current' = IF current.next = index THEN current
                ELSE [next |-> index, optimizer |-> DefaultStep(index)]
  /\ pc' = "complete"
  /\ UNCHANGED <<run, learner, call, index, segment, durable, faults>>
-----------------------------------------------------------------------------
(***************************************************************************)
(* What goes wrong.                                                        *)
(***************************************************************************)
Fault == faults < MaxFaults /\ faults' = faults + 1

\* The step callback raises, having trained the learner or not.
StepRaises ==
  /\ Fault
  /\ pc = "loop" /\ index < Len(schedule)
  /\ learner' \in {learner, Trained}
  /\ pc' = "raised"
  /\ UNCHANGED <<run, call, current, index, segment, durable>>

\* The checkpoint callback raises, before the envelope is in place or, when
\* the parent directory cannot be synced, after.
SaveRaises ==
  /\ Fault
  /\ pc = "checkpoint"
  /\ durable' \in {durable, Append(durable, Envelope)}
  /\ pc' = "raised"
  /\ UNCHANGED <<run, learner, call, current, index, segment>>

\* The process dies: nothing but the envelopes is left.
Crash ==
  /\ Fault
  /\ pc \notin {"down", "complete"}
  /\ pc' = "down"
  /\ learner' = FreshLearner
  /\ base' = FreshState /\ stop' = 0
  /\ current' = FreshState /\ index' = 0 /\ segment' = 0
  /\ UNCHANGED <<run, durable>>
-----------------------------------------------------------------------------
(***************************************************************************)
(* The caller.                                                             *)
(***************************************************************************)

\* It continues a stopped run with the live learner.
Continue ==
  /\ pc = "stopped"
  /\ base' = current
  /\ pc' = "ready"
  /\ UNCHANGED <<run, learner, stop, current, index, segment, durable, faults>>

\* Variant: the source progress is restored and the model is not.
RestoreKeepsLearner ==
  /\ pc \in {"raised", "down"}
  /\ base' = IF durable = <<>> THEN FreshState ELSE durable[Len(durable)].state
  /\ pc' = "ready"
  /\ UNCHANGED <<run, learner, stop, current, index, segment, durable, faults>>

\* Variant: without an envelope the run is not taken up.
RestoreNeedsEnvelope ==
  /\ pc \in {"raised", "down"} /\ durable # <<>>
  /\ LET last == durable[Len(durable)]
     IN  base' = last.state /\ learner' = last.model
  /\ pc' = "ready"
  /\ UNCHANGED <<run, stop, current, index, segment, durable, faults>>

\* After an exception or a crash it takes the run up from the last envelope,
\* state and model together, or starts over.
Restore ==
  /\ pc \in {"raised", "down"}
  /\ \/ /\ durable # <<>>
        /\ LET last == durable[Len(durable)]
           IN  base' = last.state /\ learner' = last.model
     \/ /\ durable = <<>>
        /\ base' = FreshState /\ learner' = FreshLearner
  /\ pc' = "ready"
  /\ UNCHANGED <<run, stop, current, index, segment, durable, faults>>

Progress ==
  \/ Call \/ \E reports \in Reports : StepReturns(reports)
  \/ WriteEnvelope \/ Boundary \/ Complete
  \/ Continue \/ Restore

Finished == pc = "complete" /\ UNCHANGED vars

Next == Progress \/ StepRaises \/ SaveRaises \/ Crash \/ Finished

Spec == Init /\ [][Next]_vars

\* Sequential code whose callbacks return, and a caller that takes an
\* interrupted run up again.
FairSpec == Spec /\ WF_vars(Progress)
-----------------------------------------------------------------------------
(***************************************************************************)
(* Properties                                                              *)
(***************************************************************************)
Prefix(n) == SubSeq(schedule, 1, n)

\* No source unit is skipped or replayed: wherever the runner is, through
\* stops, exceptions and crashes, the learner was trained on exactly the units
\* the cursor says are completed, in schedule order.
ExactlyOnce ==
  /\ pc \in {"loop", "checkpoint", "boundary", "stopped", "complete"} =>
       learner.lineage = Prefix(index)
  /\ pc = "ready" => learner.lineage = Prefix(base.next)

\* Every envelope a save could have left behind pairs a run state with the
\* model that was trained on just the units it declares completed.
EnvelopesAgree ==
  \A i \in DOMAIN durable :
    /\ durable[i].model.lineage = Prefix(durable[i].state.next)
    /\ durable[i].state.next <= Len(schedule)

\* "Uninterrupted versus resumed deterministic final state": a run that
\* completes ends in the one state an uninterrupted run ends in, with a
\* terminal envelope that holds it.
ResumeEquivalence ==
  pc = "complete" =>
    /\ learner = [lineage |-> schedule, optimizer |-> pretrained + Len(schedule)]
    /\ current.next = Len(schedule)
    /\ current.optimizer \in { Len(schedule), pretrained + Len(schedule) }
    /\ schedule # <<>> =>
         durable # <<>> /\ durable[Len(durable)] = Envelope

Saved == IF durable = <<>> THEN FreshLearner ELSE durable[Len(durable)].model

\* Optimizer steps that are only in memory.
Unsaved == learner.optimizer - Saved.optimizer

\* The cadence bounds what an interruption can cost: less than two intervals of
\* optimizer steps, and one when the run state starts from the learner's step,
\* wherever the caller stopped, continued or restored.
BoundedLoss ==
  pc \in {"loop", "checkpoint", "boundary", "stopped"} =>
    /\ Unsaved < 2 * interval
    /\ pretrained = 0 => Unsaved <= interval

\* "Checkpoints every eight optimizer steps": never more than one interval of
\* the learner's own optimizer steps goes by without an envelope.
CheckpointEveryInterval ==
  pc \in {"loop", "checkpoint", "boundary", "stopped"} => Unsaved <= interval

\* A run whose interruptions end completes.
RunCompletes == <>(pc = "complete")

\* The runner never finds its own result inconsistent: a call raises only
\* because a callback did.
OnlyCallbacksRaise == [][ pc = "boundary" => pc' # "raised" ]_vars

\* The learner under the runner, its caller and the envelopes, is a training
\* ledger.
Ledger == INSTANCE TrainingLedger WITH
  applied <- learner.lineage,
  saved <- {<<>>} \cup { durable[i].model.lineage : i \in DOMAIN durable }

ImplementsLedger == Ledger!Spec
=============================================================================
