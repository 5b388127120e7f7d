--------------------------- MODULE TrainingLedger ---------------------------
(***************************************************************************)
(* What durable training promises: a learner is trained on the units of a  *)
(* schedule in order, each exactly once, whatever interrupts the run.      *)
(*                                                                         *)
(* "applied" is what the live learner has been trained on, "saved" the     *)
(* trainings a checkpoint holds.  An interruption takes the learner back   *)
(* to a saved one; it never skips a unit and never applies one twice.      *)
(***************************************************************************)
EXTENDS Naturals, Sequences

CONSTANT Units

VARIABLES schedule, applied, saved

ledger == <<schedule, applied, saved>>

Init ==
  /\ schedule \in Seq(Units)
  /\ applied = <<>>
  /\ saved = {<<>>}          \* the learner can always be initialised again

Apply ==
  /\ Len(applied) < Len(schedule)
  /\ applied' = Append(applied, schedule[Len(applied) + 1])
  /\ UNCHANGED <<schedule, saved>>

Save ==
  /\ saved' = saved \cup {applied}
  /\ UNCHANGED <<schedule, applied>>

Rollback ==
  /\ applied' \in saved
  /\ UNCHANGED <<schedule, saved>>

Next == Apply \/ Save \/ Rollback

Spec == Init /\ [][Next]_ledger
=============================================================================
