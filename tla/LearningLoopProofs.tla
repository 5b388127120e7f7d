------------------------- MODULE LearningLoopProofs -------------------------
(***************************************************************************)
(* Theorems about LearningLoop, for every set of hooks, configurations,    *)
(* start states and executor behaviours: its types, the lock step of its   *)
(* counters, that nothing of the run's core moves after a hook failed      *)
(* under fail_fast, that the event trace tells the run, that a passing run *)
(* took every checkpoint that was due, that a run is bounded, that a       *)
(* dispatch is the loop the code runs, and what can cost a run the reason  *)
(* of its failure.                                                         *)
(***************************************************************************)
EXTENDS LearningLoop, FiniteSetTheorems, WellFoundedInduction, TLAPS

(***************************************************************************)
(* Observation: what the boundaries do, whatever the hooks answer.         *)
(***************************************************************************)
ObservationOK ==
  /\ events \in Seq(HookEvents)
  /\ disabled \subseteq Hooks
  /\ failures \in [Hooks -> Nat]

HookFailure(blocked) ==
  [status |-> "fail", stop_reason |-> "hook_failure", blocked |-> blocked]

LEMMA HookFailureType == \A blocked \in BOOLEAN : HookFailure(blocked) \in Results
BY DEF Results, HookFailure

LEMMA ToldKeepsTypes ==
  ASSUME TypeOK, NEW event \in HookEvents,
         NEW outcome \in Answers(event, disabled),
         Told(event, outcome)
  PROVE  ObservationOK'
<1>1. events' \in Seq(HookEvents)
  BY DEF TypeOK, Told
<1>2. disabled' \subseteq Hooks
  BY DEF TypeOK, Told, DisabledAfter, Failed, Called, Listening
<1>3. failures' \in [Hooks -> Nat]
  BY DEF TypeOK, Told
<1>4. QED BY <1>1, <1>2, <1>3 DEF ObservationOK

LEMMA RaisesKeepsTypes ==
  ASSUME TypeOK, NEW event \in HookEvents, Raises(event)
  PROVE  ObservationOK' /\ pc' = "raised" /\ UNCHANGED result
BY DEF TypeOK, Raises, ObservationOK

\* A boundary in the middle of the run raises, goes on, or returns blocked.
LEMMA BoundaryKeepsTypes ==
  ASSUME TypeOK, NEW event \in HookEvents, NEW next, Boundary(event, next)
  PROVE  /\ ObservationOK'
         /\ \/ pc' \in {"raised", next} /\ UNCHANGED result
            \/ pc' = "returned" /\ result' = HookFailure(TRUE)
<1>1. CASE Raises(event)
  BY <1>1, RaisesKeepsTypes
<1>2. ASSUME NEW outcome \in Answers(event, disabled),
             Told(event, outcome),
             IF Blocks(event, policy, disabled, outcome)
             THEN Returns("fail", "hook_failure", TRUE)
             ELSE pc' = next /\ UNCHANGED result
      PROVE  /\ ObservationOK'
             /\ \/ pc' \in {"raised", next} /\ UNCHANGED result
                \/ pc' = "returned" /\ result' = HookFailure(TRUE)
  BY <1>2, ToldKeepsTypes DEF Returns, HookFailure
<1>3. QED BY <1>1, <1>2 DEF Boundary

\* loop_end raises, returns blocked, or returns the reason the run ended for.
LEMMA LoopEndKeepsTypes ==
  ASSUME TypeOK, LoopEnd
  PROVE  /\ ObservationOK'
         /\ \/ pc' = "raised" /\ UNCHANGED result
            \/ pc' = "returned" /\ result' = HookFailure(TRUE)
            \/ /\ pc' = "returned"
               /\ result' = [status |-> "pass", stop_reason |-> stop_reason,
                             blocked |-> FALSE]
<1>1. "loop_end" \in HookEvents
  BY DEF HookEvents
<1>2. CASE Raises("loop_end")
  BY <1>1, <1>2, RaisesKeepsTypes
<1>3. ASSUME NEW outcome \in Answers("loop_end", disabled),
             Told("loop_end", outcome),
             IF Blocks("loop_end", policy, disabled, outcome)
             THEN Returns("fail", "hook_failure", TRUE)
             ELSE Returns("pass", stop_reason, FALSE)
      PROVE  /\ ObservationOK' /\ pc' = "returned"
             /\ \/ result' = HookFailure(TRUE)
                \/ result' = [status |-> "pass", stop_reason |-> stop_reason,
                              blocked |-> FALSE]
  BY <1>1, <1>3, ToldKeepsTypes DEF Returns, HookFailure
<1>4. QED BY <1>2, <1>3 DEF LoopEnd

\* The failure event raises, or returns the core reason, blocked or not.
LEMMA FailureKeepsTypes ==
  ASSUME TypeOK, Failure
  PROVE  /\ ObservationOK'
         /\ \/ pc' = "raised" /\ UNCHANGED result
            \/ /\ pc' = "returned"
               /\ \E blocked \in BOOLEAN :
                    result' = [status |-> "fail", stop_reason |-> stop_reason,
                               blocked |-> blocked]
<1>1. "failure" \in HookEvents
  BY DEF HookEvents
<1>2. CASE Raises("failure")
  BY <1>1, <1>2, RaisesKeepsTypes
<1>3. ASSUME NEW outcome \in Answers("failure", disabled),
             Told("failure", outcome),
             Returns("fail", stop_reason,
                     Blocks("failure", policy, disabled, outcome))
      PROVE  /\ ObservationOK' /\ pc' = "returned"
             /\ \E blocked \in BOOLEAN :
                  result' = [status |-> "fail", stop_reason |-> stop_reason,
                             blocked |-> blocked]
  <2>1. Blocks("failure", policy, disabled, outcome) \in BOOLEAN
    BY DEF Blocks
  <2>2. QED BY <1>1, <1>3, <2>1, ToldKeepsTypes DEF Returns
<1>4. QED BY <1>2, <1>3 DEF Failure
-----------------------------------------------------------------------------
(***************************************************************************)
(* Type correctness.                                                       *)
(***************************************************************************)
LEMMA ReturnableKeepsTypes ==
  ASSUME TypeOK, NEW e \in Returnable
  PROVE  e \in Executions \cup {Malformed}
<1>1. Advances \subseteq Nat
  BY LoopAssumption
<1>2. adopted \in Counters
  BY DEF TypeOK
<1>3. CASE e # Malformed
  <2>1. PICK g \in Advances, o \in Advances, m \in {0, 1}, v \in Advances :
          e = [global |-> adopted.global + g, optimizer |-> adopted.optimizer + o,
               micro |-> m, envelope |-> adopted.envelope + v]
    BY <1>3 DEF Returnable
  <2>2. /\ adopted.global + g \in Nat /\ adopted.optimizer + o \in Nat
        /\ adopted.envelope + v \in Nat /\ m \in Nat
    BY <1>1, <1>2, <2>1 DEF Counters
  <2>3. QED BY <2>1, <2>2 DEF Executions
<1>4. QED BY <1>3

LEMMA BoundaryActionsKeepTypes ==
  ASSUME TypeOK,
         LoopStart \/ BatchReceived \/ StepStart \/ StepEnd \/ CheckpointEvent
  PROVE  TypeOK'
<1>1. ASSUME NEW event \in HookEvents,
             NEW next \in { "next_batch", "step_start", "execute", "checkpoint" },
             Boundary(event, next),
             UNCHANGED <<arguments, core, stop_reason>>
      PROVE  TypeOK'
  <2>1. ObservationOK' /\ pc' \in {"raised", "returned", next}
    BY <1>1, BoundaryKeepsTypes
  <2>2. result' \in { result, HookFailure(TRUE) }
    BY <1>1, BoundaryKeepsTypes
  <2>3. result' \in Results
    BY <2>2, HookFailureType DEF TypeOK
  <2>4. QED BY <1>1, <2>1, <2>3 DEF TypeOK, ObservationOK, arguments, core
<1>2. { "loop_start", "batch_received", "step_start", "step_end",
        "checkpoint" } \subseteq HookEvents
  BY DEF HookEvents
<1>3. CASE LoopStart
  BY <1>1, <1>2, <1>3 DEF LoopStart
<1>4. CASE BatchReceived
  BY <1>1, <1>2, <1>4 DEF BatchReceived
<1>5. CASE StepStart
  BY <1>1, <1>2, <1>5 DEF StepStart
<1>6. CASE StepEnd
  BY <1>1, <1>2, <1>6 DEF StepEnd
<1>7. CASE CheckpointEvent
  BY <1>1, <1>2, <1>7 DEF CheckpointEvent
<1>8. QED BY <1>3, <1>4, <1>5, <1>6, <1>7

LEMMA TypeStep == TypeOK /\ [Next]_vars => TypeOK'
<1> SUFFICES ASSUME TypeOK, [Next]_vars PROVE TypeOK'
  OBVIOUS
<1>1. CASE LoopStart \/ BatchReceived \/ StepStart \/ StepEnd \/ CheckpointEvent
  BY <1>1, BoundaryActionsKeepTypes
<1>2. CASE LoopEnd
  <2>1. ObservationOK' /\ pc' \in {"raised", "returned"} /\ result' \in Results
    <3>1. [status |-> "pass", stop_reason |-> stop_reason,
           blocked |-> FALSE] \in Results
      BY DEF TypeOK, Results
    <3>2. result \in Results /\ HookFailure(TRUE) \in Results
      BY HookFailureType DEF TypeOK
    <3>3. QED BY <1>2, <3>1, <3>2, LoopEndKeepsTypes
  <2>2. QED BY <1>2, <2>1 DEF LoopEnd, TypeOK, ObservationOK, arguments, core
<1>3. CASE Failure
  <2>1. ObservationOK' /\ pc' \in {"raised", "returned"} /\ result' \in Results
    BY <1>3, FailureKeepsTypes DEF TypeOK, Results
  <2>2. QED BY <1>3, <2>1 DEF Failure, TypeOK, ObservationOK, arguments, core
<1>4. CASE NextBatch
  BY <1>4 DEF NextBatch, TypeOK, arguments, observed, StopReasons, Ends
<1>5. CASE StepRaises \/ SourceRaises
  BY <1>5 DEF StepRaises, SourceRaises, TypeOK, arguments, core, observed,
              StopReasons, CoreFailures
<1>6. ASSUME NEW e \in Returnable, StepReturns(e)
      PROVE  TypeOK'
  <2>1. e \in Executions \cup {Malformed}
    BY ReturnableKeepsTypes
  <2>2. CASE Valid(e)
    <3>1. adopted' \in Counters
      BY <1>6, <2>1, <2>2 DEF StepReturns, Valid, Executions, Counters
    <3>2. QED BY <1>6, <2>1, <2>2, <3>1 DEF StepReturns, TypeOK, arguments, observed
  <2>3. CASE ~Valid(e)
    BY <1>6, <2>1, <2>3
       DEF StepReturns, TypeOK, arguments, observed, StopReasons, CoreFailures
  <2>4. QED BY <2>2, <2>3
<1>7. CASE CheckpointWritten
  <2>1. adopted.global \in Nat
    BY DEF TypeOK, Counters
  <2>2. QED BY <1>7, <2>1 DEF CheckpointWritten, TypeOK, arguments, observed
<1>8. CASE CheckpointRaises
  BY <1>8 DEF CheckpointRaises, TypeOK, arguments, core, observed, StopReasons,
              CoreFailures
<1>9. CASE UNCHANGED vars
  BY <1>9 DEF TypeOK, vars, arguments, core, observed
<1>10. QED
  BY <1>1, <1>2, <1>3, <1>4, <1>5, <1>6, <1>7, <1>8, <1>9
     DEF Next, LoopStep, CallbackRaises, Over

LEMMA TypeInit == Init => TypeOK
BY LoopAssumption DEF Init, TypeOK, NoResult, Results

\* Every variable keeps its type, whatever the callbacks of the loop do.
THEOREM TypeCorrect == Spec => []TypeOK
BY TypeInit, TypeStep, PTL DEF Spec
-----------------------------------------------------------------------------
(***************************************************************************)
(* Lock step.  The counters alone are not inductive: a run could pass or   *)
(* checkpoint with a batch in hand if nothing tied the number of batches   *)
(* drawn to the place the run is at.                                       *)
(***************************************************************************)
Position ==
  /\ adopted.global = start.global + steps
  /\ adopted.optimizer = start.optimizer + steps
  /\ adopted.envelope = start.envelope + steps
  /\ consumed \in {steps, steps + 1}
  /\ pc \in { "loop_start", "next_batch", "step_end", "checkpoint",
              "checkpoint_event", "loop_end" } => consumed = steps
  /\ pc \in { "batch_received", "step_start", "execute" } => consumed = steps + 1
  /\ pc # "returned" => result.status = "running"
  /\ result.status = "pass" => consumed = steps

LEMMA PositionInit == Init => Position
BY LoopAssumption DEF Init, Position, NoResult, Counters

\* The boundaries do not touch the counters; going on, they go to a place that
\* has the same batch in hand, and none of them passes.
LEMMA BoundaryActionsKeepPosition ==
  ASSUME TypeOK, Position,
         LoopStart \/ BatchReceived \/ StepStart \/ StepEnd \/ CheckpointEvent
  PROVE  Position'
<1>1. ASSUME NEW event \in HookEvents, NEW next, Boundary(event, next),
             UNCHANGED <<arguments, core, stop_reason>>,
             pc # "returned",
             \/ /\ consumed = steps
                /\ next \in {"next_batch", "checkpoint"}
             \/ /\ consumed = steps + 1
                /\ next \in {"step_start", "execute"}
      PROVE  Position'
  <2>1. CASE pc' \in {"raised", next} /\ UNCHANGED result
    BY <1>1, <2>1 DEF TypeOK, Position, arguments, core
  <2>2. CASE pc' = "returned" /\ result' = HookFailure(TRUE)
    BY <1>1, <2>2 DEF TypeOK, Position, HookFailure, arguments, core
  <2>3. QED BY <1>1, <2>1, <2>2, BoundaryKeepsTypes
<1>2. { "loop_start", "batch_received", "step_start", "step_end",
        "checkpoint" } \subseteq HookEvents
  BY DEF HookEvents
<1>3. CASE LoopStart
  BY <1>1, <1>2, <1>3 DEF LoopStart, Position
<1>4. CASE BatchReceived
  BY <1>1, <1>2, <1>4 DEF BatchReceived, Position
<1>5. CASE StepStart
  BY <1>1, <1>2, <1>5 DEF StepStart, Position
<1>6. CASE StepEnd
  BY <1>1, <1>2, <1>6 DEF StepEnd, Position
<1>7. CASE CheckpointEvent
  BY <1>1, <1>2, <1>7 DEF CheckpointEvent, Position
<1>8. QED BY <1>3, <1>4, <1>5, <1>6, <1>7

LEMMA PositionStep == TypeOK /\ Position /\ [Next]_vars => Position'
<1> SUFFICES ASSUME TypeOK, Position, [Next]_vars PROVE Position'
  OBVIOUS
<1>1. CASE LoopStart \/ BatchReceived \/ StepStart \/ StepEnd \/ CheckpointEvent
  BY <1>1, BoundaryActionsKeepPosition
<1>2. CASE LoopEnd
  <2>1. UNCHANGED <<arguments, core>> /\ pc = "loop_end"
    BY <1>2 DEF LoopEnd
  <2>2. CASE pc' = "raised" /\ UNCHANGED result
    BY <2>1, <2>2 DEF TypeOK, Position, arguments, core
  <2>3. CASE pc' = "returned" /\ result' = HookFailure(TRUE)
    BY <2>1, <2>3 DEF TypeOK, Position, HookFailure, arguments, core
  <2>4. CASE /\ pc' = "returned"
             /\ result' = [status |-> "pass", stop_reason |-> stop_reason,
                           blocked |-> FALSE]
    BY <2>1, <2>4 DEF TypeOK, Position, arguments, core
  <2>5. QED BY <1>2, <2>2, <2>3, <2>4, LoopEndKeepsTypes
<1>3. CASE Failure
  <2>1. UNCHANGED <<arguments, core>> /\ pc = "failure"
    BY <1>3 DEF Failure
  <2>2. CASE pc' = "raised" /\ UNCHANGED result
    BY <2>1, <2>2 DEF TypeOK, Position, arguments, core
  <2>3. CASE pc' = "returned" /\ result'.status = "fail"
    BY <2>1, <2>3 DEF TypeOK, Position, arguments, core
  <2>4. QED BY <1>3, <2>2, <2>3, FailureKeepsTypes
<1>4. CASE NextBatch
  BY <1>4 DEF NextBatch, TypeOK, Position, arguments
<1>5. CASE StepRaises \/ SourceRaises
  BY <1>5 DEF StepRaises, SourceRaises, TypeOK, Position, arguments, core
<1>6. ASSUME NEW e \in Returnable, StepReturns(e)
      PROVE  Position'
  <2>1. /\ start \in Counters /\ adopted \in Counters
        /\ steps \in Nat /\ consumed = steps + 1
        /\ result.status = "running" /\ UNCHANGED <<arguments, consumed, result>>
    BY <1>6, LoopAssumption DEF StepReturns, TypeOK, Position
  <2>2. CASE Valid(e)
    BY <1>6, <2>1, <2>2 DEF StepReturns, Valid, Position, Counters, arguments
  <2>3. CASE ~Valid(e)
    BY <1>6, <2>1, <2>3 DEF StepReturns, Position, arguments
  <2>4. QED BY <2>2, <2>3
<1>7. CASE CheckpointWritten
  BY <1>7 DEF CheckpointWritten, TypeOK, Position, arguments
<1>8. CASE CheckpointRaises
  BY <1>8 DEF CheckpointRaises, TypeOK, Position, arguments, core
<1>9. CASE UNCHANGED vars
  BY <1>9 DEF Position, vars, arguments, core
<1>10. QED
  BY <1>1, <1>2, <1>3, <1>4, <1>5, <1>6, <1>7, <1>8, <1>9
     DEF Next, LoopStep, CallbackRaises, Over

LEMMA PositionGivesLockStep == TypeOK /\ Position => LockStep
BY DEF TypeOK, Position, LockStep

\* Whatever the executor returns, global step, optimizer step and optimizer
\* envelope have moved by the number of steps completed, and a run passes or
\* checkpoints only with every drawn batch trained on.
THEOREM StaysInLockStep == Spec => []LockStep
<1>1. Spec => [](TypeOK /\ Position)
  <2>1. Init => TypeOK /\ Position
    BY TypeInit, PositionInit
  <2>2. TypeOK /\ Position /\ [Next]_vars => (TypeOK /\ Position)'
    BY TypeStep, PositionStep
  <2>3. QED BY <2>1, <2>2, PTL DEF Spec
<1>2. QED BY <1>1, PositionGivesLockStep, PTL
-----------------------------------------------------------------------------
(***************************************************************************)
(* Hook failures.  Seen from the hooks every step is one of three: it does *)
(* not ask them, a receipt raises, or all of them are told and a blocked   *)
(* dispatch ends the run.                                                  *)
(***************************************************************************)
Dispatches(event, outcome) ==
  /\ Told(event, outcome)
  /\ Blocks(event, policy, disabled, outcome) => pc' = "returned"

LEMMA StepsDispatch ==
  ASSUME TypeOK, [Next]_vars
  PROVE  /\ UNCHANGED arguments
         /\ pc = "returned" => UNCHANGED vars
         /\ \/ UNCHANGED observed /\ (pc' = "returned" => pc = "returned")
            \/ UNCHANGED <<disabled, failures>> /\ pc' = "raised"
            \/ \E event \in HookEvents :
                 \E outcome \in Answers(event, disabled) :
                   Dispatches(event, outcome)
<1> DEFINE ByHooks ==
      \/ UNCHANGED <<disabled, failures>> /\ pc' = "raised"
      \/ \E event \in HookEvents :
           \E outcome \in Answers(event, disabled) : Dispatches(event, outcome)
<1>1. ASSUME NEW event \in HookEvents, NEW next, Boundary(event, next)
      PROVE  ByHooks
  BY <1>1 DEF Boundary, Raises, Returns, Dispatches
<1>2. { "loop_start", "batch_received", "step_start", "step_end",
        "checkpoint", "loop_end", "failure" } \subseteq HookEvents
  BY DEF HookEvents
<1>3. CASE LoopStart
  BY <1>1, <1>2, <1>3 DEF LoopStart
<1>4. CASE BatchReceived
  BY <1>1, <1>2, <1>4 DEF BatchReceived
<1>5. CASE StepStart
  BY <1>1, <1>2, <1>5 DEF StepStart
<1>6. CASE StepEnd
  BY <1>1, <1>2, <1>6 DEF StepEnd
<1>7. CASE CheckpointEvent
  BY <1>1, <1>2, <1>7 DEF CheckpointEvent
<1>8. CASE LoopEnd
  <2>1. ByHooks
    BY <1>2, <1>8 DEF LoopEnd, Raises, Returns, Dispatches
  <2>2. QED BY <1>8, <2>1 DEF LoopEnd
<1>9. CASE Failure
  <2>1. ByHooks
    BY <1>2, <1>9 DEF Failure, Raises, Returns, Dispatches
  <2>2. QED BY <1>9, <2>1 DEF Failure
<1>10. CASE \/ NextBatch \/ SourceRaises \/ StepRaises
            \/ CheckpointWritten \/ CheckpointRaises
  BY <1>10 DEF NextBatch, SourceRaises, StepRaises, CheckpointWritten,
               CheckpointRaises
<1>11. ASSUME NEW e \in Returnable, StepReturns(e)
       PROVE  /\ UNCHANGED <<arguments, observed>>
              /\ pc = "execute" /\ pc' # "returned"
  BY <1>11 DEF StepReturns
<1>12. CASE UNCHANGED vars
  BY <1>12 DEF vars
<1>13. QED
  BY <1>3, <1>4, <1>5, <1>6, <1>7, <1>8, <1>9, <1>10, <1>11, <1>12
     DEF Next, LoopStep, CallbackRaises, Over

(***************************************************************************)
(* fail_fast.  A hook can only have failed in a run that has returned.     *)
(***************************************************************************)
HookHasFailed ==
  policy.failure_mode = "fail_fast" /\ \E h \in Hooks : failures[h] > 0

Stopped == HookHasFailed => pc = "returned"

LEMMA StoppedInit == Init => Stopped
BY DEF Init, Stopped, HookHasFailed

LEMMA StoppedStep == TypeOK /\ Stopped /\ [Next]_vars => Stopped'
<1> SUFFICES ASSUME TypeOK, Stopped, [Next]_vars, HookHasFailed'
             PROVE  pc' = "returned"
  BY DEF Stopped
<1>1. CASE pc = "returned"
  BY <1>1, StepsDispatch DEF vars
<1>2. CASE pc # "returned"
  <2>1. ~HookHasFailed
    BY <1>2 DEF Stopped
  <2>2. UNCHANGED policy
    BY StepsDispatch DEF arguments
  <2>3. failures' # failures
    BY <2>1, <2>2 DEF HookHasFailed
  <2>4. PICK event \in HookEvents :
          \E outcome \in Answers(event, disabled) : Dispatches(event, outcome)
    BY <2>3, StepsDispatch DEF observed
  <2>5. PICK outcome \in Answers(event, disabled) : Dispatches(event, outcome)
    BY <2>4
  <2>6. Failed(event, policy, disabled, outcome) # {}
    BY <2>3, <2>5 DEF Dispatches, Told, TypeOK
  <2>7. policy.failure_mode = "fail_fast"
    BY <2>2 DEF HookHasFailed
  <2>8. QED BY <2>5, <2>6, <2>7 DEF Dispatches, Blocks
<1>3. QED BY <1>1, <1>2

\* Under fail_fast nothing is drawn, trained or checkpointed once a hook has
\* failed: the run is over.
THEOREM NothingAfterHookFailure == Spec => FailFastStops
<1>1. Init => TypeOK /\ Stopped
  BY TypeInit, StoppedInit
<1>2. TypeOK /\ Stopped /\ [Next]_vars => (TypeOK /\ Stopped)'
  BY TypeStep, StoppedStep
<1>3. TypeOK /\ Stopped /\ [Next]_vars =>
        [(policy.failure_mode = "fail_fast" /\ \E h \in Hooks : failures[h] > 0)
           => UNCHANGED core]_vars
  BY StepsDispatch DEF Stopped, HookHasFailed, vars
<1>4. QED BY <1>1, <1>2, <1>3, PTL DEF Spec, FailFastStops

(***************************************************************************)
(* disable_hook.  DisabledForGood is inductive with the types.             *)
(***************************************************************************)
LEMMA DisabledStep == TypeOK /\ DisabledForGood /\ [Next]_vars => DisabledForGood'
<1> SUFFICES ASSUME TypeOK, DisabledForGood, [Next]_vars,
                    policy'.failure_mode = "disable_hook", NEW h \in Hooks
             PROVE  failures'[h] = IF h \in disabled' THEN 1 ELSE 0
  BY DEF DisabledForGood
<1>1. policy' = policy /\ policy.failure_mode = "disable_hook"
  BY StepsDispatch DEF arguments
<1>2. failures[h] = IF h \in disabled THEN 1 ELSE 0
  BY <1>1 DEF DisabledForGood
<1>3. CASE UNCHANGED <<disabled, failures>>
  BY <1>2, <1>3
<1>4. ASSUME NEW event \in HookEvents, NEW outcome \in Answers(event, disabled),
             Told(event, outcome)
      PROVE  failures'[h] = IF h \in disabled' THEN 1 ELSE 0
  <2>1. h \in Failed(event, policy, disabled, outcome) => h \notin disabled
    BY DEF Failed, Called, Listening
  <2>2. disabled' = disabled \cup Failed(event, policy, disabled, outcome)
    BY <1>1, <1>4 DEF Told, DisabledAfter
  <2>3. failures'[h] = IF h \in Failed(event, policy, disabled, outcome)
                       THEN failures[h] + 1 ELSE failures[h]
    BY <1>4 DEF Told
  <2>4. QED BY <1>2, <2>1, <2>2, <2>3
<1>5. QED BY <1>3, <1>4, StepsDispatch DEF Dispatches, observed

\* Under disable_hook a hook that failed is never asked again in the run.
THEOREM FailsAtMostOnce == Spec => []DisabledForGood
<1>1. Init => TypeOK /\ DisabledForGood
  BY TypeInit DEF Init, DisabledForGood
<1>2. TypeOK /\ DisabledForGood /\ [Next]_vars => (TypeOK /\ DisabledForGood)'
  BY TypeStep, DisabledStep
<1>3. QED BY <1>1, <1>2, PTL DEF Spec
-----------------------------------------------------------------------------
(***************************************************************************)
(* What a boundary adds to the event trace: its own event, whether it goes *)
(* on or returns.  A run that raises has no trace to show.                 *)
(***************************************************************************)
LEMMA BoundaryTells ==
  ASSUME TypeOK, NEW event, NEW next, Boundary(event, next)
  PROVE  \/ pc' = "raised" /\ UNCHANGED result
         \/ /\ events' = Append(events, event)
            /\ \/ pc' = next /\ UNCHANGED result
               \/ pc' = "returned" /\ result' = HookFailure(TRUE)
BY DEF Boundary, Raises, Told, Returns, HookFailure

LEMMA LoopEndTells ==
  ASSUME TypeOK, LoopEnd
  PROVE  \/ pc' = "raised" /\ UNCHANGED result
         \/ /\ events' = Append(events, "loop_end") /\ pc' = "returned"
            /\ \/ result' = HookFailure(TRUE)
               \/ result' = [status |-> "pass", stop_reason |-> stop_reason,
                             blocked |-> FALSE]
BY DEF LoopEnd, Raises, Told, Returns, HookFailure

LEMMA FailureTells ==
  ASSUME TypeOK, Failure
  PROVE  \/ pc' = "raised" /\ UNCHANGED result
         \/ /\ events' = Append(events, "failure") /\ pc' = "returned"
            /\ result'.status = "fail" /\ result'.stop_reason = stop_reason
BY DEF Failure, Raises, Told, Returns

\* One more event is told once more, and the others as often as before.
LEMMA ToldOnceMore ==
  ASSUME TypeOK, NEW event \in HookEvents, events' = Append(events, event), NEW e
  PROVE  /\ TimesTold(e) \in Nat
         /\ TimesTold(e)' = IF e = event THEN TimesTold(e) + 1 ELSE TimesTold(e)
<1> DEFINE At == { i \in DOMAIN events : events[i] = e }
           After == { i \in DOMAIN events' : events'[i] = e }
           n == Len(events)
<1>1. n \in Nat /\ DOMAIN events = 1..n /\ DOMAIN events' = 1..(n + 1)
  BY DEF TypeOK
<1>2. events'[n + 1] = event /\ \A i \in 1..n : events'[i] = events[i]
  BY DEF TypeOK
<1>3. At \subseteq 1..n
  BY <1>1
<1>4. IsFiniteSet(At) /\ Cardinality(At) \in Nat
  <2>1. IsFiniteSet(1..n)
    BY <1>1, FS_Interval
  <2> HIDE DEF At, n
  <2>2. IsFiniteSet(At)
    BY <1>3, <2>1, FS_Subset
  <2>3. QED BY <2>2, FS_CardinalityType
<1>5. n + 1 \notin At
  BY <1>1, <1>3
<1>6. After = IF e = event THEN At \cup {n + 1} ELSE At
  BY <1>1, <1>2
<1>7. TimesTold(e) = Cardinality(At) /\ TimesTold(e)' = Cardinality(After)
  BY DEF TimesTold
<1> HIDE DEF At, After, n
<1>8. Cardinality(At \cup {n + 1}) = Cardinality(At) + 1
  BY <1>4, <1>5, FS_AddElement
<1>9. QED BY <1>4, <1>6, <1>7, <1>8

LEMMA ToldIsCounted ==
  ASSUME TypeOK, NEW e
  PROVE  TimesTold(e) \in Nat
<1> DEFINE At == { i \in DOMAIN events : events[i] = e }
<1>1. Len(events) \in Nat /\ At \subseteq 1..Len(events)
  BY DEF TypeOK
<1>2. IsFiniteSet(1..Len(events))
  BY <1>1, FS_Interval
<1>3. TimesTold(e) = Cardinality(At)
  BY DEF TimesTold
<1> HIDE DEF At
<1>4. IsFiniteSet(At)
  BY <1>1, <1>2, FS_Subset
<1>5. QED BY <1>3, <1>4, FS_CardinalityType

(***************************************************************************)
(* The trace.  That the events agree with the counters is preserved where  *)
(* the reason to stop is tied to the place: it is none until the run ends, *)
(* and a core failure or an end on the way out.                            *)
(***************************************************************************)
Unannounced(here) == IF pc = here THEN 1 ELSE 0

Tallied ==
  /\ TimesTold("step_end") = steps - Unannounced("step_end")
  /\ TimesTold("checkpoint") = Len(checkpoints) - Unannounced("checkpoint_event")
  /\ TimesTold("batch_received") = consumed - Unannounced("batch_received")
  /\ TimesTold("failure") =
       (IF stop_reason \in CoreFailures THEN 1 ELSE 0) - Unannounced("failure")
  /\ TimesTold("loop_end") =
       (IF stop_reason \in Ends THEN 1 ELSE 0) - Unannounced("loop_end")

Reasoned ==
  /\ pc = "failure" => stop_reason \in CoreFailures
  /\ pc = "loop_end" => stop_reason \in Ends
  /\ pc \notin {"failure", "loop_end", "returned"} => stop_reason = NoReason
  /\ pc # "returned" => result.stop_reason = NoReason
  /\ pc = "returned" =>
       (result.stop_reason \in CoreFailures <=> stop_reason \in CoreFailures)

Trace == pc # "raised" => Tallied /\ Reasoned

LEMMA ReasonsDiffer ==
  /\ NoReason \notin CoreFailures /\ NoReason \notin Ends
  /\ "hook_failure" \notin CoreFailures
  /\ \A r \in Ends : r \notin CoreFailures
BY DEF NoReason, CoreFailures, Ends

LEMMA TraceInit == Init => Trace
<1> SUFFICES ASSUME Init PROVE Tallied /\ Reasoned
  BY DEF Trace
<1>1. \A e : TimesTold(e) = 0
  <2>1. \A e : { i \in DOMAIN events : events[i] = e } = {}
    BY DEF Init
  <2>2. QED BY <2>1, FS_EmptySet DEF TimesTold
<1>2. Len(checkpoints) = 0
  BY DEF Init
<1>3. QED
  BY <1>1, <1>2, ReasonsDiffer DEF Init, Tallied, Unannounced, Reasoned, NoResult

LEMMA BoundaryActionsKeepTrace ==
  ASSUME TypeOK, Trace,
         LoopStart \/ BatchReceived \/ StepStart \/ StepEnd \/ CheckpointEvent
  PROVE  Trace'
\* An event is told at its own place, and the place is left.
<1>1. ASSUME NEW event \in HookEvents, NEW next, Boundary(event, next),
             UNCHANGED <<core, stop_reason>>,
             next \in { "next_batch", "step_start", "execute", "checkpoint" },
             <<event, pc>> \in { <<"loop_start", "loop_start">>,
               <<"batch_received", "batch_received">>, <<"step_start", "step_start">>,
               <<"step_end", "step_end">>, <<"checkpoint", "checkpoint_event">> }
      PROVE  Trace'
  <2>1. SUFFICES ASSUME pc' # "raised" PROVE Tallied' /\ Reasoned'
    BY DEF Trace
  <2>2. /\ events' = Append(events, event)
        /\ \/ pc' = next /\ UNCHANGED result
           \/ pc' = "returned" /\ result' = HookFailure(TRUE)
    BY <1>1, <2>1, BoundaryTells
  <2>3. /\ UNCHANGED <<steps, consumed, checkpoints, stop_reason>>
        /\ stop_reason = NoReason /\ result.stop_reason = NoReason /\ Tallied
    BY <1>1 DEF core, Trace, Reasoned
  <2>4. Tallied'
    <3>1. \A e : /\ TimesTold(e) \in Nat
                 /\ TimesTold(e)' = IF e = event THEN TimesTold(e) + 1 ELSE TimesTold(e)
      BY <1>1, <2>2, ToldOnceMore
    <3>2. steps \in Nat /\ consumed \in Nat /\ Len(checkpoints) \in Nat
      BY DEF TypeOK
    <3>3. pc' \in { "next_batch", "step_start", "execute", "checkpoint", "returned" }
      BY <1>1, <2>2
    <3>4. QED BY <1>1, <2>3, <3>1, <3>2, <3>3, ReasonsDiffer DEF Tallied, Unannounced
  <2>5. Reasoned'
    BY <1>1, <2>2, <2>3, ReasonsDiffer DEF Reasoned, HookFailure
  <2>6. QED BY <2>4, <2>5
<1>2. { "loop_start", "batch_received", "step_start", "step_end",
        "checkpoint" } \subseteq HookEvents
  BY DEF HookEvents
<1>3. CASE LoopStart
  BY <1>1, <1>2, <1>3 DEF LoopStart
<1>4. CASE BatchReceived
  BY <1>1, <1>2, <1>4 DEF BatchReceived
<1>5. CASE StepStart
  BY <1>1, <1>2, <1>5 DEF StepStart
<1>6. CASE StepEnd
  BY <1>1, <1>2, <1>6 DEF StepEnd
<1>7. CASE CheckpointEvent
  BY <1>1, <1>2, <1>7 DEF CheckpointEvent
<1>8. QED BY <1>3, <1>4, <1>5, <1>6, <1>7

\* The two events a run ends with.
LEMMA LastEventKeepsTrace ==
  ASSUME TypeOK, Trace, LoopEnd \/ Failure
  PROVE  Trace'
<1>1. SUFFICES ASSUME pc' # "raised" PROVE Tallied' /\ Reasoned'
  BY DEF Trace
<1>2. "loop_end" \in HookEvents /\ "failure" \in HookEvents
  BY DEF HookEvents
<1>3. steps \in Nat /\ consumed \in Nat /\ Len(checkpoints) \in Nat
  BY DEF TypeOK
<1>4. CASE LoopEnd
  <2>1. /\ pc = "loop_end" /\ pc' = "returned" /\ events' = Append(events, "loop_end")
        /\ UNCHANGED <<steps, consumed, checkpoints, stop_reason>>
        /\ \/ result' = HookFailure(TRUE)
           \/ result' = [status |-> "pass", stop_reason |-> stop_reason,
                         blocked |-> FALSE]
    BY <1>1, <1>4, LoopEndTells DEF LoopEnd, core
  <2>2. Tallied /\ Reasoned /\ stop_reason \in Ends
    BY <2>1 DEF Trace, Reasoned
  <2>3. \A e : /\ TimesTold(e) \in Nat
               /\ TimesTold(e)' = IF e = "loop_end" THEN TimesTold(e) + 1 ELSE TimesTold(e)
    BY <1>2, <2>1, ToldOnceMore
  <2>4. Tallied'
    BY <1>3, <2>1, <2>2, <2>3, ReasonsDiffer DEF Tallied, Unannounced
  <2>5. Reasoned'
    BY <2>1, <2>2, ReasonsDiffer DEF Reasoned, HookFailure
  <2>6. QED BY <2>4, <2>5
<1>5. CASE Failure
  <2>1. /\ pc = "failure" /\ pc' = "returned" /\ events' = Append(events, "failure")
        /\ UNCHANGED <<steps, consumed, checkpoints, stop_reason>>
        /\ result'.stop_reason = stop_reason
    BY <1>1, <1>5, FailureTells DEF Failure, core
  <2>2. Tallied /\ Reasoned /\ stop_reason \in CoreFailures
    BY <2>1 DEF Trace, Reasoned
  <2>3. \A e : /\ TimesTold(e) \in Nat
               /\ TimesTold(e)' = IF e = "failure" THEN TimesTold(e) + 1 ELSE TimesTold(e)
    BY <1>2, <2>1, ToldOnceMore
  <2>4. Tallied'
    BY <1>3, <2>1, <2>2, <2>3, ReasonsDiffer DEF Tallied, Unannounced
  <2>5. Reasoned'
    BY <2>1, <2>2 DEF Reasoned
  <2>6. QED BY <2>4, <2>5
<1>6. QED BY <1>4, <1>5

\* The steps between the boundaries tell of nothing, and go to the place that
\* will.
LEMMA QuietStepsKeepTrace ==
  ASSUME TypeOK, Trace,
         \/ NextBatch \/ CallbackRaises \/ CheckpointWritten
         \/ \E e \in Returnable : StepReturns(e)
  PROVE  Trace'
<1>1. SUFFICES ASSUME pc' # "raised" PROVE Tallied' /\ Reasoned'
  BY DEF Trace
<1>2. /\ steps \in Nat /\ consumed \in Nat
      /\ checkpoints \in Seq(Nat) /\ Len(checkpoints) \in Nat
  BY DEF TypeOK
<1>3. /\ UNCHANGED <<observed, result>>
      /\ pc \in {"next_batch", "execute", "checkpoint"}
  BY DEF NextBatch, CallbackRaises, SourceRaises, StepRaises, CheckpointRaises,
         CheckpointWritten, StepReturns
<1>4. /\ Tallied /\ Reasoned /\ stop_reason = NoReason
      /\ result.stop_reason = NoReason
  BY <1>3 DEF Trace, Reasoned
<1>5. \A e : TimesTold(e) \in Nat /\ TimesTold(e)' = TimesTold(e)
  BY <1>3, ToldIsCounted DEF TimesTold, observed
<1>6. CASE NextBatch
  <2>1. \/ /\ pc' = "batch_received" /\ consumed' = consumed + 1
           /\ stop_reason' = NoReason
        \/ /\ pc' = "loop_end" /\ consumed' = consumed
           /\ stop_reason' \in Ends
    BY <1>4, <1>6 DEF NextBatch, Ends
  <2>2. UNCHANGED <<steps, checkpoints>> /\ pc = "next_batch"
    BY <1>6 DEF NextBatch
  <2>3. Tallied'
    BY <1>2, <1>4, <1>5, <2>1, <2>2, ReasonsDiffer DEF Tallied, Unannounced
  <2>4. Reasoned'
    BY <1>3, <1>4, <2>1, ReasonsDiffer DEF Reasoned
  <2>5. QED BY <2>3, <2>4
<1>7. CASE CallbackRaises
  <2>1. /\ pc' = "failure" /\ stop_reason' \in CoreFailures
        /\ UNCHANGED <<steps, consumed, checkpoints>>
        /\ pc \in {"execute", "checkpoint"}
    BY <1>1, <1>7 DEF CallbackRaises, SourceRaises, StepRaises, CheckpointRaises,
                      CoreFailures, core
  <2>2. Tallied'
    BY <1>2, <1>4, <1>5, <2>1, ReasonsDiffer DEF Tallied, Unannounced
  <2>3. Reasoned'
    BY <1>3, <1>4, <2>1, ReasonsDiffer DEF Reasoned
  <2>4. QED BY <2>2, <2>3
<1>8. CASE CheckpointWritten
  <2>1. /\ checkpoints' = Append(checkpoints, adopted.global) /\ adopted.global \in Nat
        /\ pc' = "checkpoint_event" /\ pc = "checkpoint"
        /\ UNCHANGED <<steps, consumed, stop_reason>>
    BY <1>8 DEF CheckpointWritten, TypeOK, Counters
  <2>2. Len(checkpoints') = Len(checkpoints) + 1
    BY <1>2, <2>1
  <2>3. Tallied'
    BY <1>2, <1>4, <1>5, <2>1, <2>2, ReasonsDiffer DEF Tallied, Unannounced
  <2>4. Reasoned'
    BY <1>3, <1>4, <2>1, ReasonsDiffer DEF Reasoned
  <2>5. QED BY <2>3, <2>4
<1>9. ASSUME NEW e \in Returnable, StepReturns(e)
      PROVE  Tallied' /\ Reasoned'
  <2>1. /\ pc = "execute" /\ UNCHANGED <<consumed, checkpoints>>
        /\ \/ pc' = "step_end" /\ steps' = steps + 1 /\ UNCHANGED stop_reason
           \/ pc' = "failure" /\ steps' = steps /\ stop_reason' \in CoreFailures
    BY <1>9 DEF StepReturns, CoreFailures
  <2>2. Tallied'
    BY <1>2, <1>4, <1>5, <2>1, ReasonsDiffer DEF Tallied, Unannounced
  <2>3. Reasoned'
    BY <1>3, <1>4, <2>1, ReasonsDiffer DEF Reasoned
  <2>4. QED BY <2>2, <2>3
<1>10. QED BY <1>6, <1>7, <1>8, <1>9

LEMMA TraceStep == TypeOK /\ Trace /\ [Next]_vars => Trace'
<1> SUFFICES ASSUME TypeOK, Trace, [Next]_vars PROVE Trace'
  OBVIOUS
<1>1. CASE UNCHANGED vars
  BY <1>1 DEF Trace, Tallied, Reasoned, Unannounced, TimesTold, vars, core, observed
<1>2. QED
  BY <1>1, BoundaryActionsKeepTrace, LastEventKeepsTrace, QuietStepsKeepTrace
     DEF Next, LoopStep, Over

\* The event trace agrees with the run: every step, batch, checkpoint, failure
\* and end is told of exactly when it happened.
THEOREM TraceIsTrue == Spec => []TraceTellsTheRun
<1>1. Trace => TraceTellsTheRun
  <2>1. SUFFICES ASSUME Trace, pc # "raised" PROVE TraceTellsTheRun
    BY DEF TraceTellsTheRun
  <2>2. Tallied /\ Reasoned
    BY <2>1 DEF Trace
  <2>3. result.stop_reason \in CoreFailures <=>
          pc = "returned" /\ stop_reason \in CoreFailures
    BY <2>2, ReasonsDiffer DEF Reasoned
  <2>4. QED BY <2>2, <2>3 DEF TraceTellsTheRun, Tallied, Unannounced
<1>2. Init => TypeOK /\ Trace
  BY TypeInit, TraceInit
<1>3. TypeOK /\ Trace /\ [Next]_vars => (TypeOK /\ Trace)'
  BY TypeStep, TraceStep
<1>4. QED BY <1>1, <1>2, <1>3, PTL DEF Spec
-----------------------------------------------------------------------------
(***************************************************************************)
(* The checkpoints.  While a step or its checkpoint is on the way, the     *)
(* receipts are behind the cadence by the step just adopted, if it is due. *)
(***************************************************************************)
Receipts == { checkpoints[i] : i \in DOMAIN checkpoints }

\* The steps there must be a receipt for where the run is.
Owed ==
  IF pc \in {"step_end", "checkpoint"} THEN DueSteps \ {adopted.global} ELSE DueSteps

UpToDate ==
  /\ Receipts = Owed
  /\ Len(checkpoints) = Cardinality(Owed)

OnTheWay == { "loop_start", "next_batch", "batch_received", "step_start", "execute",
              "step_end", "checkpoint", "checkpoint_event", "loop_end" }

HonestEnd(reason) ==
  /\ reason = "max_steps" => steps = config.max_steps
  /\ reason = "source_exhausted" => steps = batches /\ steps < config.max_steps

Complete ==
  /\ pc \in OnTheWay \/ result.status = "pass" => UpToDate
  /\ pc \in {"step_end", "checkpoint"} => steps > 0
  /\ pc = "checkpoint" => CheckpointDue
  /\ pc = "loop_end" => HonestEnd(stop_reason)
  /\ result.status = "pass" =>
       pc = "returned" /\ HonestEnd(result.stop_reason) /\ ~result.blocked

LEMMA DueStepsFinite ==
  ASSUME TypeOK
  PROVE  IsFiniteSet(DueSteps)
<1>1. start.global \in Nat /\ adopted.global \in Nat
  BY LoopAssumption DEF TypeOK, Counters
<1>2. IsFiniteSet((start.global + 1)..adopted.global)
  BY <1>1, FS_Interval
<1>3. DueSteps \subseteq (start.global + 1)..adopted.global
  BY DEF DueSteps
<1>4. QED BY <1>2, <1>3, FS_Subset

\* The adopted step is due where the code says so.
LEMMA LatestDue ==
  ASSUME TypeOK, Position, steps > 0
  PROVE  adopted.global \in DueSteps <=> CheckpointDue
<1>1. /\ start.global \in Nat /\ steps \in Nat
      /\ adopted.global = start.global + steps
  BY LoopAssumption DEF TypeOK, Counters, Position
<1>2. adopted.global \in (start.global + 1)..adopted.global
  BY <1>1
<1>3. QED BY <1>2 DEF DueSteps, CheckpointDue

LEMMA CompleteInit == Init => Complete
<1> SUFFICES ASSUME Init PROVE Complete
  OBVIOUS
<1>1. start.global \in Nat /\ adopted.global = start.global
  BY LoopAssumption DEF Init, Counters
<1>2. DueSteps = {}
  BY <1>1 DEF DueSteps
<1>3. checkpoints = <<>> /\ pc = "loop_start" /\ result.status = "running"
  BY DEF Init, NoResult
<1>4. Owed = {} /\ Receipts = {} /\ Len(checkpoints) = 0
  BY <1>2, <1>3 DEF Owed, Receipts
<1>5. UpToDate
  BY <1>4, FS_EmptySet DEF UpToDate
<1>6. QED BY <1>3, <1>5 DEF Complete

\* A step that moves no counter and takes no receipt, and does not leave the
\* place where a checkpoint is owed.
LEMMA SameReceipts ==
  ASSUME UpToDate, UNCHANGED <<arguments, adopted, checkpoints>>, Owed' = Owed
  PROVE  UpToDate'
BY DEF UpToDate, Receipts

LEMMA SameDue ==
  ASSUME UNCHANGED <<arguments, adopted>>
  PROVE  DueSteps' = DueSteps /\ CheckpointDue' = CheckpointDue
BY DEF DueSteps, CheckpointDue, arguments

LEMMA BoundaryActionsKeepComplete ==
  ASSUME TypeOK, Position, Complete,
         LoopStart \/ BatchReceived \/ StepStart \/ StepEnd \/ CheckpointEvent
  PROVE  Complete'
<1>1. ASSUME NEW event, NEW next, Boundary(event, next),
             UNCHANGED <<arguments, core, stop_reason>>,
             pc \in OnTheWay \ {"checkpoint", "loop_end"},
             next \in OnTheWay \ {"step_end", "loop_end"},
             next = "checkpoint" => pc = "step_end" /\ CheckpointDue,
             next # "checkpoint" /\ pc = "step_end" => ~CheckpointDue
      PROVE  Complete'
  <2>1. \/ pc' \in {"raised", next} /\ UNCHANGED result
        \/ pc' = "returned" /\ result' = HookFailure(TRUE)
    BY <1>1, BoundaryTells
  <2>2. UpToDate /\ result.status = "running"
    BY <1>1 DEF Complete, Position, OnTheWay
  <2>3. result'.status # "pass"
    BY <2>1, <2>2 DEF HookFailure
  <2>4. CASE pc' = next
    <3>1. UNCHANGED <<DueSteps, CheckpointDue, adopted, checkpoints, steps>>
      BY <1>1, SameDue DEF core
    <3>2. Owed' = Owed
      <4>1. CASE pc = "step_end" /\ next # "checkpoint"
        <5>1. adopted.global \notin DueSteps
          BY <1>1, <4>1, LatestDue DEF Complete
        <5>2. QED BY <1>1, <2>4, <3>1, <4>1, <5>1 DEF Owed, OnTheWay
      <4>2. CASE pc = "step_end" /\ next = "checkpoint"
        BY <2>4, <3>1, <4>2 DEF Owed
      <4>3. CASE pc # "step_end"
        BY <1>1, <2>4, <3>1, <4>3 DEF Owed, OnTheWay
      <4>4. QED BY <4>1, <4>2, <4>3
    <3>3. UpToDate'
      BY <1>1, <2>2, <3>1, <3>2, SameReceipts
    <3>4. QED BY <1>1, <2>3, <2>4, <3>1, <3>3 DEF Complete, OnTheWay
  <2>5. CASE pc' \in {"raised", "returned"}
    BY <2>3, <2>5 DEF Complete, OnTheWay
  <2>6. QED BY <2>1, <2>4, <2>5
<1>2. CASE LoopStart
  BY <1>1, <1>2 DEF LoopStart, OnTheWay
<1>3. CASE BatchReceived
  BY <1>1, <1>3 DEF BatchReceived, OnTheWay
<1>4. CASE StepStart
  BY <1>1, <1>4 DEF StepStart, OnTheWay
<1>5. CASE StepEnd
  BY <1>1, <1>5 DEF StepEnd, OnTheWay
<1>6. CASE CheckpointEvent
  BY <1>1, <1>6 DEF CheckpointEvent, OnTheWay
<1>7. QED BY <1>2, <1>3, <1>4, <1>5, <1>6

LEMMA LastEventKeepsComplete ==
  ASSUME TypeOK, Position, Complete, LoopEnd \/ Failure
  PROVE  Complete'
<1>1. UNCHANGED <<arguments, adopted, checkpoints, steps>>
      /\ pc \in {"loop_end", "failure"} /\ result.status = "running"
  BY DEF LoopEnd, Failure, core, Position
<1>2. pc' \in {"raised", "returned"}
  BY LoopEndTells, FailureTells
<1>3. CASE result'.status # "pass"
  BY <1>2, <1>3 DEF Complete, OnTheWay
<1>4. CASE result'.status = "pass"
  <2>1. /\ LoopEnd /\ pc' = "returned"
        /\ result' = [status |-> "pass", stop_reason |-> stop_reason,
                      blocked |-> FALSE]
    BY <1>1, <1>4, LoopEndTells, FailureTells DEF HookFailure
  <2>2. pc = "loop_end" /\ UpToDate /\ HonestEnd(stop_reason)
    BY <2>1 DEF LoopEnd, Complete, OnTheWay
  <2>3. Owed' = Owed
    BY <1>1, <2>1, <2>2, SameDue DEF Owed
  <2>4. UpToDate'
    BY <1>1, <2>2, <2>3, SameReceipts
  <2>5. HonestEnd(result.stop_reason)'
    BY <1>1, <2>1, <2>2 DEF HonestEnd, arguments
  <2>6. QED BY <2>1, <2>4, <2>5 DEF Complete, OnTheWay
<1>5. QED BY <1>3, <1>4

\* An adopted step adds at most itself to the steps that are due.
LEMMA NewlyDue ==
  ASSUME TypeOK, Position, UNCHANGED arguments,
         adopted'.global = adopted.global + 1
  PROVE  DueSteps' \ {adopted'.global} = DueSteps
<1>1. start.global \in Nat /\ adopted.global \in Nat
  BY LoopAssumption DEF TypeOK, Counters
<1>2. \A n : n \in (start.global + 1)..adopted.global
             <=> n \in (start.global + 1)..(adopted.global + 1) /\ n # adopted.global + 1
  BY <1>1
<1>3. QED BY <1>2 DEF DueSteps, arguments

LEMMA CoreKeepsComplete ==
  ASSUME TypeOK, Position, Complete,
         \/ NextBatch \/ CallbackRaises \/ CheckpointWritten
         \/ \E e \in Returnable : StepReturns(e)
  PROVE  Complete'
<1>1. /\ UNCHANGED <<arguments, result>> /\ result.status = "running"
      /\ pc \in {"next_batch", "execute", "checkpoint"}
  BY DEF NextBatch, CallbackRaises, SourceRaises, StepRaises, CheckpointRaises,
         CheckpointWritten, StepReturns, Position
<1>2. UpToDate
  BY <1>1 DEF Complete, OnTheWay
<1>3. CASE pc' \in {"raised", "failure"}
  BY <1>1, <1>3 DEF Complete, OnTheWay
<1>4. CASE NextBatch
  <2>1. /\ UNCHANGED <<adopted, steps, checkpoints>> /\ pc = "next_batch"
        /\ pc' \in {"batch_received", "loop_end"}
    BY <1>4 DEF NextBatch
  <2>2. Owed' = Owed
    BY <1>1, <2>1, SameDue DEF Owed
  <2>3. UpToDate'
    BY <1>1, <1>2, <2>1, <2>2, SameReceipts
  <2>4. pc' = "loop_end" => HonestEnd(stop_reason)'
    BY <1>4 DEF NextBatch, HonestEnd, Position, arguments
  <2>5. QED BY <1>1, <2>1, <2>3, <2>4 DEF Complete
<1>5. CASE CheckpointWritten
  <2>1. /\ UNCHANGED <<adopted, steps>> /\ pc = "checkpoint" /\ pc' = "checkpoint_event"
        /\ checkpoints' = Append(checkpoints, adopted.global)
    BY <1>5 DEF CheckpointWritten
  <2>2. adopted.global \in DueSteps
    BY <2>1, LatestDue DEF Complete
  <2>3. Owed = DueSteps \ {adopted.global} /\ Owed' = DueSteps
    BY <1>1, <2>1, SameDue DEF Owed
  <2>4. Receipts' = Receipts \cup {adopted.global}
    <3>1. /\ checkpoints \in Seq(Nat) /\ Len(checkpoints) \in Nat
          /\ DOMAIN checkpoints = 1..Len(checkpoints)
          /\ DOMAIN checkpoints' = 1..(Len(checkpoints) + 1)
          /\ checkpoints'[Len(checkpoints) + 1] = adopted.global
          /\ \A i \in 1..Len(checkpoints) : checkpoints'[i] = checkpoints[i]
      BY <2>1 DEF TypeOK, Counters
    <3>2. QED BY <3>1 DEF Receipts
  <2>5. Len(checkpoints') = Len(checkpoints) + 1
    BY <2>1 DEF TypeOK, Counters
  <2>6. Cardinality(DueSteps) = Cardinality(DueSteps \ {adopted.global}) + 1
    <3>1. Cardinality(DueSteps) \in Nat
      BY DueStepsFinite, FS_CardinalityType
    <3>2. Cardinality(DueSteps \ {adopted.global}) = Cardinality(DueSteps) - 1
      BY <2>2, DueStepsFinite, FS_RemoveElement
    <3>3. QED BY <3>1, <3>2
  <2>7. UpToDate'
    BY <1>2, <2>2, <2>3, <2>4, <2>5, <2>6 DEF UpToDate
  <2>8. QED BY <1>1, <2>1, <2>7 DEF Complete
<1>6. ASSUME NEW e \in Returnable, StepReturns(e), Valid(e)
      PROVE  Complete'
  <2>1. /\ pc = "execute" /\ pc' = "step_end" /\ steps' = steps + 1
        /\ UNCHANGED checkpoints /\ adopted'.global = adopted.global + 1
    BY <1>6 DEF StepReturns, Valid
  <2>2. steps' > 0
    BY <2>1 DEF TypeOK
  <2>3. Owed' = Owed
    BY <1>1, <2>1, NewlyDue DEF Owed
  <2>4. UpToDate'
    BY <1>2, <2>1, <2>3 DEF UpToDate, Receipts
  <2>5. QED BY <1>1, <2>1, <2>2, <2>4 DEF Complete
<1>7. QED
  <2>1. CASE CallbackRaises
    BY <1>3, <2>1 DEF CallbackRaises, SourceRaises, StepRaises, CheckpointRaises
  <2>2. ASSUME NEW e \in Returnable, StepReturns(e), ~Valid(e)
        PROVE  Complete'
    BY <1>3, <2>2 DEF StepReturns
  <2>3. QED BY <1>4, <1>5, <1>6, <2>1, <2>2

LEMMA CompleteStep == TypeOK /\ Position /\ Complete /\ [Next]_vars => Complete'
<1> SUFFICES ASSUME TypeOK, Position, Complete, [Next]_vars PROVE Complete'
  OBVIOUS
<1>1. CASE UNCHANGED vars
  <2>1. UNCHANGED <<arguments, pc, adopted, steps, checkpoints, stop_reason, result>>
    BY <1>1 DEF vars, core
  <2>2. Owed' = Owed /\ CheckpointDue' = CheckpointDue
    BY <2>1, SameDue DEF Owed
  <2>3. UpToDate => UpToDate'
    BY <2>1, <2>2, SameReceipts
  <2>4. QED BY <2>1, <2>2, <2>3 DEF Complete, HonestEnd, arguments
<1>2. QED
  BY <1>1, BoundaryActionsKeepComplete, LastEventKeepsComplete, CoreKeepsComplete
     DEF Next, LoopStep, Over

\* A run that passes has a receipt for every step the cadence asked for and no
\* other, and stopped for the reason it gives.
THEOREM PassesAreComplete == Spec => []PassMeansComplete
<1>1. Complete => PassMeansComplete
  BY DEF Complete, UpToDate, Receipts, Owed, HonestEnd, PassMeansComplete
<1>2. Init => TypeOK /\ Position /\ Complete
  BY TypeInit, PositionInit, CompleteInit
<1>3. TypeOK /\ Position /\ Complete /\ [Next]_vars => (TypeOK /\ Position /\ Complete)'
  BY TypeStep, PositionStep, CompleteStep
<1>4. QED BY <1>1, <1>2, <1>3, PTL DEF Spec
-----------------------------------------------------------------------------
(***************************************************************************)
(* A run is bounded: whatever the callbacks answer, every step brings its  *)
(* end nearer.  This is the part of RunEnds that needs no fairness.        *)
(***************************************************************************)
\* How far a place is from the end of its iteration, or of the run.
Rank(place) ==
  CASE place = "loop_start" -> 9
    [] place = "step_end" -> 8
    [] place = "checkpoint" -> 7
    [] place = "checkpoint_event" -> 6
    [] place = "next_batch" -> 5
    [] place = "batch_received" -> 4
    [] place = "step_start" -> 3
    [] place = "execute" -> 2
    [] place \in {"failure", "loop_end"} -> 1
    [] place \in {"returned", "raised"} -> 0

LEMMA RankOf ==
  /\ Rank("loop_start") = 9 /\ Rank("step_end") = 8 /\ Rank("checkpoint") = 7
  /\ Rank("checkpoint_event") = 6 /\ Rank("next_batch") = 5
  /\ Rank("batch_received") = 4 /\ Rank("step_start") = 3 /\ Rank("execute") = 2
  /\ Rank("failure") = 1 /\ Rank("loop_end") = 1
  /\ Rank("returned") = 0 /\ Rank("raised") = 0
BY DEF Rank

\* At most so many steps are left.
Remaining == 8 * (config.max_steps - steps) + Rank(pc)

\* The bound of the for loop: an iteration only begins below it.
WithinBound ==
  /\ steps <= config.max_steps
  /\ pc \in {"batch_received", "step_start", "execute"} => steps < config.max_steps

LEMMA WithinBoundInit == Init => WithinBound
BY LoopAssumption DEF Init, WithinBound, LoopConfigs

\* A boundary ends the run or goes on to its next place.
LEMMA BoundaryGoesOn ==
  ASSUME NEW event, NEW next, Boundary(event, next)
  PROVE  pc' \in {"returned", "raised", next}
BY DEF Boundary, Raises, Returns

\* Where the steps of a run lead, and that only a validated step is counted.
LEMMA StepsGoOn ==
  ASSUME TypeOK, Next, ~Over
  PROVE  /\ UNCHANGED config
         /\ \/ UNCHANGED steps
            \/ pc = "execute" /\ steps' = steps + 1 /\ pc' = "step_end"
         /\ pc = "loop_start" => pc' \in {"returned", "raised", "next_batch"}
         /\ pc = "next_batch" =>
              \/ pc' \in {"raised", "loop_end"}
              \/ pc' = "batch_received" /\ steps < config.max_steps
         /\ pc = "batch_received" => pc' \in {"returned", "raised", "step_start"}
         /\ pc = "step_start" => pc' \in {"returned", "raised", "execute"}
         /\ pc = "execute" =>
              \/ pc' = "failure" /\ UNCHANGED steps
              \/ pc' = "step_end" /\ steps' = steps + 1
         /\ pc = "step_end" =>
              pc' \in {"returned", "raised", "checkpoint", "next_batch"}
         /\ pc = "checkpoint" => pc' \in {"failure", "checkpoint_event"}
         /\ pc = "checkpoint_event" => pc' \in {"returned", "raised", "next_batch"}
         /\ pc \in {"failure", "loop_end"} => pc' \in {"returned", "raised"}
         /\ pc \notin {"returned", "raised"}
<1>1. CASE LoopStart
  BY <1>1, BoundaryGoesOn DEF LoopStart, arguments, core
<1>2. CASE BatchReceived
  BY <1>2, BoundaryGoesOn DEF BatchReceived, arguments, core
<1>3. CASE StepStart
  BY <1>3, BoundaryGoesOn DEF StepStart, arguments, core
<1>4. CASE StepEnd
  BY <1>4, BoundaryGoesOn DEF StepEnd, arguments, core
<1>5. CASE CheckpointEvent
  BY <1>5, BoundaryGoesOn DEF CheckpointEvent, arguments, core
<1>6. CASE LoopEnd
  BY <1>6 DEF LoopEnd, Raises, Returns, arguments, core
<1>7. CASE Failure
  BY <1>7 DEF Failure, Raises, Returns, arguments, core
<1>8. CASE NextBatch \/ SourceRaises
  BY <1>8 DEF NextBatch, SourceRaises, arguments, core
<1>9. CASE StepRaises \/ CheckpointWritten \/ CheckpointRaises
  BY <1>9 DEF StepRaises, CheckpointWritten, CheckpointRaises, arguments, core
<1>10. ASSUME NEW e \in Returnable, StepReturns(e)
       PROVE  /\ UNCHANGED config /\ pc = "execute"
              /\ \/ pc' = "failure" /\ UNCHANGED steps
                 \/ pc' = "step_end" /\ steps' = steps + 1
  BY <1>10 DEF StepReturns, arguments
<1>11. CASE \E e \in Returnable : StepReturns(e)
  BY <1>10, <1>11
<1>. QED
  BY <1>1, <1>2, <1>3, <1>4, <1>5, <1>6, <1>7, <1>8, <1>9, <1>11
     DEF Next, LoopStep, CallbackRaises

LEMMA WithinBoundStep == TypeOK /\ WithinBound /\ [Next]_vars => WithinBound'
<1> SUFFICES ASSUME TypeOK, WithinBound, [Next]_vars PROVE WithinBound'
  OBVIOUS
<1>1. CASE UNCHANGED vars
  BY <1>1 DEF WithinBound, vars, arguments, core
<1>2. CASE Next /\ ~Over
  <2>1. steps \in Nat /\ config.max_steps \in Nat
    BY LoopAssumption DEF TypeOK, LoopConfigs
  <2>2. UNCHANGED config /\ (UNCHANGED steps \/ (pc = "execute" /\ steps' = steps + 1))
    BY <1>2, StepsGoOn
  <2>3. steps' <= config'.max_steps
    BY <2>1, <2>2 DEF WithinBound
  <2>4. ASSUME pc' \in {"batch_received", "step_start", "execute"}
        PROVE  steps' < config'.max_steps
    <3>1. UNCHANGED steps
      BY <1>2, <2>4, StepsGoOn
    <3>2. /\ pc \in {"next_batch", "batch_received", "step_start"}
          /\ pc = "next_batch" => steps < config.max_steps
      BY <1>2, <2>4, StepsGoOn DEF TypeOK
    <3>. QED
      BY <2>2, <3>1, <3>2 DEF WithinBound
  <2>. QED
    BY <2>3, <2>4 DEF WithinBound
<1>. QED
  BY <1>1, <1>2 DEF Over

\* Every step of a run brings its end nearer: what is left is a number, and it
\* falls with each step, for every source, executor, checkpoint callback and
\* set of hooks (the for loop of steps/loop.py, 211).  A run thus takes at
\* most 8 * max_steps + 9 steps.
THEOREM RunsAreBounded == Spec => [][Remaining' \in Nat /\ Remaining' < Remaining]_vars
<1>1. ASSUME TypeOK, WithinBound, TypeOK', WithinBound', Next, ~Over
      PROVE  Remaining' \in Nat /\ Remaining' < Remaining
  <2>1. /\ steps \in Nat /\ steps' \in Nat /\ config.max_steps \in Nat
        /\ config'.max_steps = config.max_steps
    BY <1>1, StepsGoOn, LoopAssumption DEF TypeOK, LoopConfigs
  <2>2. steps <= config.max_steps /\ steps' <= config.max_steps
    BY <1>1, <2>1 DEF WithinBound
  <2>3. Rank(pc) \in 0 .. 9 /\ Rank(pc') \in 0 .. 9
    BY <1>1 DEF TypeOK, Rank
  <2>4. \/ steps' = steps + 1 /\ Rank(pc) = 2 /\ Rank(pc') = 8
        \/ steps' = steps /\ Rank(pc') < Rank(pc)
    <3>1. CASE steps' = steps + 1 /\ pc = "execute" /\ pc' = "step_end"
      BY <3>1 DEF Rank
    <3>2. CASE UNCHANGED steps
      <4>1. ~(pc = "execute" /\ pc' = "step_end")
        BY <1>1, <2>1, <3>2, StepsGoOn
      <4>2. Rank(pc') < Rank(pc)
        <5>1. CASE pc \in {"loop_start", "next_batch", "batch_received", "step_start"}
          BY <1>1, <5>1, StepsGoOn, RankOf
        <5>2. CASE pc \in {"execute", "checkpoint_event", "failure", "loop_end"}
          BY <1>1, <4>1, <5>2, StepsGoOn, RankOf
        <5>3. CASE pc \in {"step_end", "checkpoint"}
          BY <1>1, <5>3, StepsGoOn, RankOf
        <5>. QED
          BY <1>1, <5>1, <5>2, <5>3, StepsGoOn DEF TypeOK
      <4>. QED
        BY <3>2, <4>2
    <3>. QED
      BY <1>1, <3>1, <3>2, StepsGoOn
  <2>. QED
    BY <2>1, <2>2, <2>3, <2>4 DEF Remaining
<1>2. TypeOK /\ WithinBound /\ [Next]_vars => (TypeOK /\ WithinBound)'
  BY TypeStep, WithinBoundStep
<1>3. Init => TypeOK /\ WithinBound
  BY TypeInit, WithinBoundInit
<1>4. TypeOK /\ WithinBound /\ (TypeOK /\ WithinBound)' /\ [Next]_vars
        => [Remaining' \in Nat /\ Remaining' < Remaining]_vars
  BY <1>1 DEF Over
<1>. QED
  BY <1>2, <1>3, <1>4, PTL DEF Spec
-----------------------------------------------------------------------------
(***************************************************************************)
(* One dispatch.  Called says which hooks are asked by what their          *)
(* predecessors answer; dispatch_hooks is a loop that asks one after the   *)
(* other.  Inductions over the order are by a first counterexample.        *)
(***************************************************************************)
LEMMA BeforeIsAnOrder ==
  /\ \A h \in Hooks : ~Before(h, h)
  /\ \A f, g, h \in Hooks : Before(f, g) /\ Before(g, h) => Before(f, h)
  /\ \A g, h \in Hooks : g = h \/ Before(g, h) \/ Before(h, g)
<1>1. \A h \in Hooks : h \in Nat /\ Priority[h] \in Int
  BY HooksAssumption
<1>. QED
  BY <1>1 DEF Before

\* Of some hooks there is one that comes before all others of them.
LEMMA FirstHook ==
  ASSUME NEW S \in SUBSET Hooks, S # {}
  PROVE  \E m \in S : \A g \in S : ~Before(g, m)
<1> DEFINE Earlier(h) == {g \in S : Before(g, h)}
           Sizes == {Cardinality(Earlier(h)) : h \in S}
           R == OpToRel(<, Nat)
<1>1. \A h \in S : /\ IsFiniteSet(Earlier(h))
                   /\ Cardinality(Earlier(h)) \in Nat
  <2>1. IsFiniteSet(S)
    BY HooksAssumption, FS_Subset
  <2>2. \A h \in S : Earlier(h) \in SUBSET S
    OBVIOUS
  <2>. QED
    BY <2>1, <2>2, FS_Subset, FS_CardinalityType
<1>2. Sizes \in SUBSET Nat /\ Sizes # {}
  BY <1>1
<1>3. PICK n \in Sizes : \A k \in Sizes : <<k, n>> \notin R
  <2>1. IsWellFoundedOn(R, Nat)
    BY NatLessThanWellFounded, Zenon
  <2> HIDE DEF R, Sizes
  <2>. QED
    BY <1>2, <2>1, WFMin
<1>4. PICK m \in S : n = Cardinality(Earlier(m))
  OBVIOUS
<1>5. ASSUME NEW g \in S, Before(g, m)
      PROVE  FALSE
  <2>1. Earlier(g) \in SUBSET Earlier(m) /\ g \in Earlier(m) /\ g \notin Earlier(g)
    BY <1>5, BeforeIsAnOrder
  <2>2. Earlier(g) # Earlier(m)
    BY <2>1
  <2> DEFINE k == Cardinality(Earlier(g))
  <2>3. k \in Sizes /\ k \in Nat /\ n \in Nat
    BY <1>1, <1>4
  <2>4. k < n
    <3> HIDE DEF Earlier
    <3>1. k <= n /\ (k = n => Earlier(g) = Earlier(m))
      BY <1>1, <1>4, <2>1, FS_Subset
    <3>. QED
      BY <2>2, <2>3, <3>1
  <2>5. <<k, n>> \in R
    <3> HIDE DEF k
    <3>. QED
      BY <2>3, <2>4 DEF OpToRel
  <2> HIDE DEF R, Sizes, k
  <2>. QED
    BY <1>3, <2>3, <2>5
<1>. QED
  BY <1>5

\* The hooks a loop over the sorted hooks has asked: it comes to a hook when
\* it asked every listening hook before it and none of them ended it.
AskedInTurn(asked, event, rule, off, answers) ==
  \A h \in Listening(event, off) :
    h \in asked <=>
      \A g \in Listening(event, off) :
        Before(g, h) => g \in asked /\ ~Stops(rule, answers[g])

\* The loop of dispatch_hooks (learning/hooks.py, 293-366) asks the hooks of
\* Called and no other, whatever they answer.
THEOREM CalledIsTheLoop ==
  ASSUME NEW event, NEW rule, NEW off, NEW answers,
         NEW asked \in SUBSET Listening(event, off)
  PROVE  AskedInTurn(asked, event, rule, off, answers)
           <=> asked = Called(event, rule, off, answers)
<1> DEFINE L == Listening(event, off)
           C == Called(event, rule, off, answers)
<1>1. L \in SUBSET Hooks
  BY DEF Listening
<1>2. C = {h \in L : \A g \in L : Before(g, h) => ~Stops(rule, answers[g])}
  BY DEF Called
<1>3. \A g, h \in L : h \in C /\ Before(g, h) => g \in C
  BY <1>1, <1>2, BeforeIsAnOrder
<1> HIDE DEF L, C
<1>4. AskedInTurn(C, event, rule, off, answers)
  BY <1>2, <1>3 DEF AskedInTurn, L
<1>5. ASSUME AskedInTurn(asked, event, rule, off, answers)
      PROVE  asked = C
  <2>1. \A h \in L : h \in asked <=>
          \A g \in L : Before(g, h) => g \in asked /\ ~Stops(rule, answers[g])
    BY <1>5 DEF AskedInTurn, L
  <2>2. asked \in SUBSET C
    BY <1>2, <2>1 DEF L
  <2>3. ASSUME C \ asked # {}
        PROVE  FALSE
    <3>1. C \ asked \in SUBSET Hooks
      BY <1>1, <1>2
    <3>2. PICK m \in C \ asked : \A g \in C \ asked : ~Before(g, m)
      BY <2>3, <3>1, FirstHook
    <3>3. m \in L
      BY <1>2
    <3>4. \A g \in L : Before(g, m) => g \in asked /\ ~Stops(rule, answers[g])
      BY <1>2, <1>3, <3>2, <3>3
    <3>. QED
      BY <2>1, <3>2, <3>3, <3>4
  <2>. QED
    BY <2>2, <2>3
<1>. QED
  BY <1>4, <1>5 DEF C

\* The hook that ends a dispatch is the last one asked.
LEMMA StoppingHookIsLast ==
  ASSUME NEW event, NEW rule, NEW off, NEW answers,
         NEW h \in Called(event, rule, off, answers), Stops(rule, answers[h]),
         NEW g \in Called(event, rule, off, answers)
  PROVE  g = h \/ Before(g, h)
BY BeforeIsAnOrder DEF Called, Listening

\* Under fail_fast the first hook that fails is the last one asked, so no two
\* fail in one dispatch.
THEOREM FailFastAsksNoMore ==
  ASSUME NEW event, NEW rule, NEW off, NEW answers,
         rule.failure_mode = "fail_fast",
         NEW h \in Failed(event, rule, off, answers),
         NEW g \in Called(event, rule, off, answers)
  PROVE  /\ g = h \/ Before(g, h)
         /\ g \in Failed(event, rule, off, answers) => g = h
<1>1. h \in Called(event, rule, off, answers) /\ Stops(rule, answers[h])
  BY DEF Failed, Stops
<1>2. g = h \/ Before(g, h)
  BY <1>1, StoppingHookIsLast
<1>3. ASSUME g \in Failed(event, rule, off, answers) PROVE g = h
  <2>1. Stops(rule, answers[g])
    BY <1>3 DEF Failed, Stops
  <2>2. h = g \/ Before(h, g)
    BY <1>1, <2>1, StoppingHookIsLast
  <2>3. g \in Hooks /\ h \in Hooks
    BY <1>1 DEF Called, Listening
  <2>. QED
    BY <1>2, <2>2, <2>3, BeforeIsAnOrder
<1>. QED
  BY <1>2, <1>3

\* Under fail_fast a whole run sees at most one hook fail, and that one once:
\* no boundary, the failure event included, asks a hook after it.
OneFailure ==
  policy.failure_mode = "fail_fast" =>
    \A g, h \in Hooks :
      failures[g] > 0 /\ failures[h] > 0 => g = h /\ failures[g] = 1

LEMMA OneFailureStep == TypeOK /\ Stopped /\ OneFailure /\ [Next]_vars => OneFailure'
<1> SUFFICES ASSUME TypeOK, Stopped, OneFailure, [Next]_vars,
                    policy'.failure_mode = "fail_fast",
                    NEW g \in Hooks, NEW h \in Hooks,
                    failures'[g] > 0, failures'[h] > 0
             PROVE  g = h /\ failures'[g] = 1
  BY DEF OneFailure
<1>1. UNCHANGED policy
  BY StepsDispatch DEF arguments
<1>2. CASE UNCHANGED failures
  BY <1>1, <1>2 DEF OneFailure
<1>3. CASE failures' # failures
  <2>1. pc # "returned"
    BY <1>3, StepsDispatch DEF vars, observed
  <2>2. \A x \in Hooks : failures[x] = 0
    BY <1>1, <2>1 DEF Stopped, HookHasFailed, TypeOK
  <2>3. PICK event \in HookEvents :
          \E outcome \in Answers(event, disabled) : Dispatches(event, outcome)
    BY <1>3, StepsDispatch DEF observed
  <2>4. PICK outcome \in Answers(event, disabled) : Dispatches(event, outcome)
    BY <2>3
  <2>5. \A x \in Hooks :
          failures'[x] = IF x \in Failed(event, policy, disabled, outcome)
                         THEN 1 ELSE 0
    BY <2>2, <2>4 DEF Dispatches, Told
  <2>6. /\ g \in Failed(event, policy, disabled, outcome)
        /\ h \in Failed(event, policy, disabled, outcome)
    BY <2>5
  <2>7. g \in Called(event, policy, disabled, outcome)
    BY <2>6 DEF Failed
  <2>. QED
    BY <1>1, <2>5, <2>6, <2>7, FailFastAsksNoMore
<1>. QED
  BY <1>2, <1>3

THEOREM FailFastFailsOnce == Spec => []OneFailure
<1>1. Init => TypeOK /\ Stopped /\ OneFailure
  BY TypeInit, StoppedInit DEF Init, OneFailure
<1>2. TypeOK /\ Stopped /\ OneFailure /\ [Next]_vars => (TypeOK /\ Stopped /\ OneFailure)'
  BY TypeStep, StoppedStep, OneFailureStep
<1>. QED
  BY <1>1, <1>2, PTL DEF Spec
-----------------------------------------------------------------------------
(***************************************************************************)
(* The reason of a core failure.  A run may lose it, by raising out of its *)
(* failure event; but only to a hook.                                      *)
(***************************************************************************)
\* Somebody listens to failures, and is not disabled.
FailureHeard == "failure" \in UNION { Supported[h] : h \in Hooks \ disabled }

ReasonKept ==
  stop_reason \in CoreFailures =>
    /\ pc \in {"failure", "returned", "raised"}
    /\ pc = "raised" => FailureHeard

LEMMA EscapingIsHeard ==
  ASSUME Raises("failure")
  PROVE  FailureHeard
<1>1. PICK outcome \in Answers("failure", disabled) :
        Escapes("failure", policy, disabled, outcome)
  BY DEF Raises
<1>2. PICK h \in Called("failure", policy, disabled, outcome) :
        outcome[h] = "repeated_warning"
  BY <1>1 DEF Escapes
<1>3. h \in Hooks \ disabled /\ "failure" \in Supported[h]
  BY <1>2 DEF Called, Listening
<1>. QED
  BY <1>3 DEF FailureHeard

LEMMA ReasonKeptStep == ReasonKept /\ [Next]_vars => ReasonKept'
<1> SUFFICES ASSUME ReasonKept, [Next]_vars PROVE ReasonKept'
  OBVIOUS
<1>1. CASE LoopStart \/ BatchReceived \/ StepStart \/ StepEnd \/ CheckpointEvent
           \/ LoopEnd
  BY <1>1 DEF LoopStart, BatchReceived, StepStart, StepEnd, CheckpointEvent,
              LoopEnd, ReasonKept
<1>2. CASE Failure
  <2>1. pc = "failure" /\ UNCHANGED stop_reason
    BY <1>2 DEF Failure
  <2>2. CASE Raises("failure")
    <3>1. FailureHeard /\ UNCHANGED disabled /\ pc' = "raised"
      BY <2>2, EscapingIsHeard DEF Raises
    <3>. QED
      BY <2>1, <3>1 DEF ReasonKept, FailureHeard
  <2>3. CASE pc' = "returned"
    BY <2>3 DEF ReasonKept
  <2>. QED
    BY <1>2, <2>2, <2>3 DEF Failure, Returns
<1>3. CASE NextBatch \/ SourceRaises
  BY <1>3 DEF NextBatch, SourceRaises, ReasonKept, CoreFailures
<1>4. CASE StepRaises \/ CheckpointRaises
  BY <1>4 DEF StepRaises, CheckpointRaises, ReasonKept
<1>5. CASE \E e \in Returnable : StepReturns(e)
  BY <1>5 DEF StepReturns, ReasonKept
<1>6. CASE CheckpointWritten
  BY <1>6 DEF CheckpointWritten, ReasonKept
<1>7. CASE UNCHANGED vars
  BY <1>7 DEF vars, observed, ReasonKept, FailureHeard
<1>. QED
  BY <1>1, <1>2, <1>3, <1>4, <1>5, <1>6, <1>7
     DEF Next, LoopStep, CallbackRaises, Over

\* "Failure hooks must not erase the core failure" (bible.md, 524-526) is true
\* of every run without an enabled hook that listens to failures: no other hook,
\* no callback and no policy makes a run lose the reason of a core failure.
THEOREM ReasonLostToFailureHooks == Spec => [](~FailureHeard => CoreFailureReported)
<1>1. Init => ReasonKept
  BY DEF Init, ReasonKept, NoReason, CoreFailures
<1>2. ReasonKept => (~FailureHeard => CoreFailureReported)
  BY DEF ReasonKept, CoreFailureReported
<1>. QED
  BY <1>1, <1>2, ReasonKeptStep, PTL DEF Spec
=============================================================================
