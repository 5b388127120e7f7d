---------------------------- MODULE HookDispatch ----------------------------
(***************************************************************************)
(* One call of dispatch_hooks (learning/hooks.py): the hooks of a run are  *)
(* told of one lifecycle event, in priority order, and the run's failure   *)
(* policy decides what a failing hook does to the others and to the loop.  *)
(*                                                                         *)
(* A dispatch is a function of the event, the policy, the hooks disabled   *)
(* so far and what each hook answers (its "outcome"), so this module has   *)
(* no variables; LearningLoop calls it at every lifecycle boundary.        *)
(***************************************************************************)
EXTENDS Integers, FiniteSets

CONSTANTS
  Hooks,       \* hook ids: numbers, so that equal priorities tie-break by id
  Priority,    \* hook id |-> priority
  Supported    \* hook id |-> the events the hook listens to

HookEvents == { "loop_start", "batch_received", "step_start", "step_end",
                "checkpoint", "loop_end", "failure" }

ASSUME HooksAssumption ==
  /\ IsFiniteSet(Hooks)
  /\ Hooks \subseteq Nat
  /\ Priority \in [Hooks -> Int]
  /\ Supported \in [Hooks -> SUBSET HookEvents]

FailureModes == { "fail_fast", "warn_and_continue", "disable_hook" }
HookPolicies == [failure_mode: FailureModes, allow_metric_emission: BOOLEAN]

(***************************************************************************)
(* What on_event may do.  "fail" stands for the three failures the code    *)
(* treats alike (an exception, a result that is not a HookResult, a result *)
(* of status fail).  "repeated_warning" is a HookResult that is not a      *)
(* failure and whose warnings carry the same code twice: HookResult        *)
(* accepts it, the receipt built for it does not.                          *)
(***************************************************************************)
HookOutcomes == { "pass", "metrics", "fail", "repeated_warning" }

\* The sort key (priority, hook_id).
Before(g, h) ==
  \/ Priority[g] < Priority[h]
  \/ Priority[g] = Priority[h] /\ g < h

Listening(event, disabled) ==
  { h \in Hooks : h \notin disabled /\ event \in Supported[h] }

Fails(policy, answer) ==
  \/ answer = "fail"
  \/ answer = "metrics" /\ ~policy.allow_metric_emission

\* The answer ends the dispatch: fail_fast breaks out of the loop, and a
\* repeated warning code raises out of it under every policy.
Stops(policy, answer) ==
  \/ policy.failure_mode = "fail_fast" /\ Fails(policy, answer)
  \/ answer = "repeated_warning"

\* The hooks that are called at all: none of their predecessors stopped.
Called(event, policy, disabled, outcome) ==
  LET listening == Listening(event, disabled)
  IN  { h \in listening :
          \A g \in listening : Before(g, h) => ~Stops(policy, outcome[g]) }

Failed(event, policy, disabled, outcome) ==
  { h \in Called(event, policy, disabled, outcome) : Fails(policy, outcome[h]) }

\* dispatch_hooks raises instead of returning.
Escapes(event, policy, disabled, outcome) ==
  \E h \in Called(event, policy, disabled, outcome) :
    outcome[h] = "repeated_warning"

\* HookDispatchResult.blockers is nonempty.
Blocks(event, policy, disabled, outcome) ==
  /\ policy.failure_mode = "fail_fast"
  /\ Failed(event, policy, disabled, outcome) # {}

\* Variant: the ids disabled by earlier dispatches are forgotten.
DisabledByThisDispatch(event, policy, disabled, outcome) ==
  IF policy.failure_mode = "disable_hook"
  THEN Failed(event, policy, disabled, outcome)
  ELSE disabled

\* HookDispatchResult.disabled_hook_ids.
DisabledAfter(event, policy, disabled, outcome) ==
  IF policy.failure_mode = "disable_hook"
  THEN disabled \cup Failed(event, policy, disabled, outcome)
  ELSE disabled

\* What the listening hooks may answer.
Answers(event, disabled) == [Listening(event, disabled) -> HookOutcomes]
=============================================================================
