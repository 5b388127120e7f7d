------------------------- MODULE ContinuationProofs -------------------------
(***************************************************************************)
(* Theorems about Continuation, for every schedule, interval, stop request *)
(* and number of faults: that it trains every unit once and in order, what *)
(* its envelopes hold, that it implements the ledger, that a resumed run   *)
(* is the uninterrupted one, what an interruption may cost, when the       *)
(* cadence is kept, and that it is bounded.                                *)
(***************************************************************************)
EXTENDS Continuation, SequenceTheorems, TLAPS

(***************************************************************************)
(* Prefixes of the schedule.                                               *)
(***************************************************************************)
LEMMA PrefixFacts ==
  ASSUME NEW s \in Seq(Units), NEW n \in 0..Len(s)
  PROVE  /\ SubSeq(s, 1, n) \in Seq(Units)
         /\ Len(SubSeq(s, 1, n)) = n
         /\ SubSeq(s, 1, 0) = <<>>
         /\ SubSeq(s, 1, Len(s)) = s
<1>1. \A i \in 1..n : s[i] \in Units
  BY ElementOfSeq
<1>2. n \in Int /\ Len(s) \in Nat
  BY LenProperties
<1>3. QED BY <1>1, <1>2, SubSeqProperties, SubSeqEmpty, SubSeqFull

LEMMA PrefixGrows ==
  ASSUME NEW s \in Seq(Units), NEW n \in Nat, n < Len(s)
  PROVE  /\ s[n + 1] \in Units
         /\ SubSeq(s, 1, n + 1) = Append(SubSeq(s, 1, n), s[n + 1])
<1>1. Len(s) \in Nat /\ n + 1 \in 1..Len(s) /\ n \in 0..Len(s)
  BY LenProperties
<1>2. s[n + 1] \in Units
  BY <1>1, ElementOfSeq
<1>3. SubSeq(s, 1, n + 1) = SubSeq(s, 1, n) \o << s[n + 1] >>
  <2>1. 1 \in 1..Len(s) /\ n + 1 \in 1..Len(s) /\ (n + 1) - 1 = n
    BY <1>1
  <2>2. QED BY <2>1, SubSeqRecursiveSecond
<1>4. QED BY <1>1, <1>2, <1>3, PrefixFacts, AppendIsConcat

(***************************************************************************)
(* The inductive invariant.  The lineage alone is not inductive: a call    *)
(* starts from its run state, a restore from the last envelope, so both    *)
(* must be known to agree with the model they come with; and a run state   *)
(* must be the runner's own cursor wherever it is handed out.              *)
(***************************************************************************)
Running == pc \in {"loop", "checkpoint", "boundary", "stopped", "complete"}

Cursors ==
  /\ base.next <= Len(schedule) /\ index <= Len(schedule)
  /\ Running => base.next <= index

HandedOut ==
  /\ pc \in {"checkpoint", "stopped"} => current.next = index
  /\ pc = "boundary" /\ Stopping(segment) => current.next = index

IInv == TypeOK /\ Cursors /\ HandedOut /\ ExactlyOnce /\ EnvelopesAgree

LEMMA ConstantTypes ==
  ASSUME TypeOK
  PROVE  /\ schedule \in Seq(Units) /\ Len(schedule) \in Nat
         /\ interval \in Nat \ {0} /\ pretrained \in Nat
         /\ FreshState \in RunStates /\ FreshLearner \in Learners
<1>1. schedule \in Seq(Units) /\ interval \in Nat \ {0} /\ pretrained \in Nat
  BY ContinuationAssumption DEF TypeOK
<1>2. <<>> \in Seq(Units)
  OBVIOUS
<1>3. QED BY <1>1, <1>2, LenProperties
          DEF FreshState, FreshLearner, RunStates, Learners

LEMMA InitIInv == Init => IInv
<1> SUFFICES ASSUME Init PROVE IInv
  OBVIOUS
<1>1. schedule \in Seq(Units) /\ Len(schedule) \in Nat /\ pretrained \in Nat
  BY ContinuationAssumption, LenProperties DEF Init
<1>2. <<>> \in Seq(Units) /\ <<>> \in Seq(Envelopes)
  OBVIOUS
<1>3. FreshState \in RunStates /\ FreshLearner \in Learners
  BY <1>1, <1>2 DEF FreshState, FreshLearner, RunStates, Learners
<1>4. TypeOK
  BY <1>1, <1>2, <1>3, ContinuationAssumption DEF Init, TypeOK
<1>5. 0 \in 0..Len(schedule)
  BY <1>1
<1>6. learner.lineage = Prefix(0)
  BY <1>1, <1>5, PrefixFacts DEF Init, FreshLearner, Prefix
<1>7. QED
  BY <1>1, <1>4, <1>6
     DEF Init, IInv, Cursors, HandedOut, Running, ExactlyOnce, EnvelopesAgree,
         FreshState

\* Training on the next unit extends the prefix the learner was trained on.
LEMMA TrainedFacts ==
  ASSUME IInv, pc = "loop", index < Len(schedule)
  PROVE  /\ Trained \in Learners
         /\ Trained.lineage = Prefix(index + 1)
         /\ Trained.lineage = Append(learner.lineage, schedule[index + 1])
         /\ index = Len(learner.lineage)
         /\ DefaultStep(index + 1) \in Nat
<1>1. /\ schedule \in Seq(Units) /\ Len(schedule) \in Nat
      /\ index \in Nat /\ learner \in Learners
      /\ base \in RunStates /\ base.next <= index
  BY ConstantTypes DEF IInv, TypeOK, Cursors, Running
<1>2. learner.lineage = Prefix(index)
  BY DEF IInv, ExactlyOnce
<1>3. /\ schedule[index + 1] \in Units
      /\ Prefix(index + 1) = Append(learner.lineage, schedule[index + 1])
  BY <1>1, <1>2, PrefixGrows DEF Prefix
<1>4. Append(learner.lineage, schedule[index + 1]) \in Seq(Units)
  BY <1>1, <1>3, AppendProperties DEF Learners
<1>5. Len(learner.lineage) = index
  BY <1>1, <1>2, PrefixFacts DEF Prefix
<1>6. DefaultStep(index + 1) \in Nat
  BY <1>1 DEF DefaultStep, RunStates
<1>7. QED BY <1>1, <1>3, <1>4, <1>5, <1>6 DEF Trained, Learners

\* Saving keeps every envelope in agreement with its model.
LEMMA SavingFacts ==
  ASSUME IInv, pc = "checkpoint"
  PROVE  /\ Append(durable, Envelope) \in Seq(Envelopes)
         /\ \A i \in DOMAIN Append(durable, Envelope) :
              LET e == Append(durable, Envelope)[i]
              IN  /\ e.model.lineage = Prefix(e.state.next)
                  /\ e.state.next <= Len(schedule)
<1>1. Envelope \in Envelopes /\ durable \in Seq(Envelopes)
  BY DEF IInv, TypeOK, Envelope, Envelopes
<1>2. /\ Envelope.model.lineage = Prefix(Envelope.state.next)
      /\ Envelope.state.next <= Len(schedule)
  BY DEF IInv, HandedOut, ExactlyOnce, Cursors, Envelope
<1>3. /\ DOMAIN durable = 1..Len(durable) /\ Len(durable) \in Nat
      /\ DOMAIN Append(durable, Envelope) = 1..(Len(durable) + 1)
      /\ \A i \in 1..Len(durable) : Append(durable, Envelope)[i] = durable[i]
      /\ Append(durable, Envelope)[Len(durable) + 1] = Envelope
      /\ Append(durable, Envelope) \in Seq(Envelopes)
  BY <1>1, AppendProperties, LenProperties
<1>4. ASSUME NEW i \in 1..(Len(durable) + 1)
      PROVE  LET e == Append(durable, Envelope)[i]
             IN  /\ e.model.lineage = Prefix(e.state.next)
                 /\ e.state.next <= Len(schedule)
  <2>1. CASE i = Len(durable) + 1
    BY <1>2, <1>3, <2>1
  <2>2. CASE i \in 1..Len(durable)
    BY <1>3, <2>2 DEF IInv, EnvelopesAgree
  <2>3. QED BY <1>3, <2>1, <2>2
<1>5. QED BY <1>3, <1>4

\* What a restore takes up is a run state with its own model.
LEMMA RestoreFacts ==
  ASSUME IInv, Restore
  PROVE  /\ base' \in RunStates /\ learner' \in Learners
         /\ base'.next <= Len(schedule)
         /\ learner'.lineage = Prefix(base'.next)
         /\ \/ learner'.lineage = <<>>
            \/ \E i \in DOMAIN durable : learner'.lineage = durable[i].model.lineage
<1>1. CASE durable = <<>> /\ base' = FreshState /\ learner' = FreshLearner
  <2>1. /\ base' \in RunStates /\ learner' \in Learners
        /\ Len(schedule) \in Nat /\ schedule \in Seq(Units)
    BY <1>1, ConstantTypes DEF IInv
  <2>2. base'.next = 0 /\ learner'.lineage = <<>> /\ 0 \in 0..Len(schedule)
    BY <1>1, <2>1 DEF FreshState, FreshLearner
  <2>3. QED BY <2>1, <2>2, PrefixFacts DEF Prefix
<1>2. CASE /\ durable # <<>>
           /\ base' = durable[Len(durable)].state
           /\ learner' = durable[Len(durable)].model
  <2>1. durable \in Seq(Envelopes)
    BY DEF IInv, TypeOK
  <2>2. Len(durable) \in DOMAIN durable
    BY <1>2, <2>1
  <2>3. durable[Len(durable)] \in Envelopes
    BY <2>1, <2>2
  <2>4. QED BY <1>2, <2>2, <2>3 DEF IInv, EnvelopesAgree, Envelopes
<1>3. QED BY <1>1, <1>2 DEF Restore

LEMMA StepIInv == IInv /\ [Next]_vars => IInv'
<1> SUFFICES ASSUME IInv, [Next]_vars PROVE IInv'
  OBVIOUS
<1> USE DEF run, call
<1>1. CASE Call
  <2>1. TypeOK'
    BY <1>1 DEF Call, IInv, TypeOK, RunStates
  <2>2. Cursors' /\ HandedOut' /\ ExactlyOnce' /\ EnvelopesAgree'
    BY <1>1 DEF Call, IInv, TypeOK, RunStates, Cursors, HandedOut, Running,
                ExactlyOnce, EnvelopesAgree, Prefix, Stopping
  <2>3. QED BY <2>1, <2>2 DEF IInv
<1>2. ASSUME NEW reports \in Reports, StepReturns(reports)
      PROVE  IInv'
  <2>1. /\ pc = "loop" /\ index < Len(schedule) /\ index \in Nat
        /\ Len(schedule) \in Nat
    BY <1>2, ConstantTypes DEF StepReturns, IInv, TypeOK
  <2>2. /\ learner' = Trained /\ index' = index + 1 /\ segment' = segment + 1
        /\ pc' \in {"checkpoint", "boundary"}
        /\ UNCHANGED <<schedule, interval, pretrained, base, stop, durable, faults>>
    BY <1>2 DEF StepReturns
  <2>3. current' \in RunStates
    <3>1. [next |-> index + 1, optimizer |-> Trained.optimizer] \in RunStates
      BY <2>1, TrainedFacts DEF RunStates, Learners
    <3>2. [next |-> index + 1, optimizer |-> DefaultStep(index + 1)] \in RunStates
      BY <2>1, TrainedFacts DEF RunStates
    <3>3. current \in RunStates
      BY DEF IInv, TypeOK
    <3>4. QED BY <1>2, <3>1, <3>2, <3>3 DEF StepReturns
  <2>4. TypeOK'
    BY <2>1, <2>2, <2>3, TrainedFacts DEF IInv, TypeOK
  <2>5. Cursors'
    BY <2>1, <2>2 DEF IInv, TypeOK, RunStates, Cursors, Running
  <2>6. Materializes(index + 1) => current'.next = index + 1
    BY <1>2 DEF StepReturns
  <2>7. HandedOut'
    <3>1. CASE pc' = "checkpoint"
      <4>1. Materializes(index + 1)
        BY <1>2, <3>1 DEF StepReturns, Materializes
      <4>2. QED BY <2>2, <2>6, <3>1, <4>1 DEF HandedOut
    <3>2. CASE pc' = "boundary"
      <4>1. Stopping(segment)' => Materializes(index + 1)
        BY <2>2 DEF Stopping, Materializes
      <4>2. QED BY <2>2, <2>6, <3>2, <4>1 DEF HandedOut
    <3>3. QED BY <2>2, <3>1, <3>2
  <2>8. ExactlyOnce' /\ EnvelopesAgree'
    BY <2>1, <2>2, TrainedFacts DEF IInv, ExactlyOnce, EnvelopesAgree, Prefix
  <2>9. QED BY <2>4, <2>5, <2>7, <2>8 DEF IInv
<1>3. CASE WriteEnvelope
  <2>1. EnvelopesAgree' /\ durable' \in Seq(Envelopes)
    BY <1>3, SavingFacts DEF WriteEnvelope, EnvelopesAgree, Prefix
  <2>2. TypeOK'
    BY <1>3, <2>1 DEF WriteEnvelope, IInv, TypeOK
  <2>3. Cursors' /\ HandedOut' /\ ExactlyOnce'
    BY <1>3 DEF WriteEnvelope, IInv, Cursors, HandedOut, Running, ExactlyOnce,
                Prefix, Stopping
  <2>4. QED BY <2>1, <2>2, <2>3 DEF IInv
<1>4. CASE Boundary
  BY <1>4 DEF Boundary, IInv, TypeOK, Cursors, HandedOut, Running, ExactlyOnce,
              EnvelopesAgree, Prefix, Stopping
<1>5. CASE Complete
  <2>1. current' \in RunStates
    <3>1. DefaultStep(index) \in Nat
      BY <1>5 DEF Complete, IInv, TypeOK, RunStates, Cursors, Running, DefaultStep
    <3>2. QED BY <1>5, <3>1 DEF Complete, IInv, TypeOK, RunStates
  <2>2. TypeOK'
    BY <1>5, <2>1 DEF Complete, IInv, TypeOK
  <2>3. Cursors' /\ HandedOut' /\ ExactlyOnce' /\ EnvelopesAgree'
    BY <1>5 DEF Complete, IInv, Cursors, HandedOut, Running, ExactlyOnce,
                EnvelopesAgree, Prefix
  <2>4. QED BY <2>2, <2>3 DEF IInv
<1>6. CASE Continue
  BY <1>6 DEF Continue, IInv, TypeOK, Cursors, HandedOut, Running, ExactlyOnce,
              EnvelopesAgree, Prefix
<1>7. CASE Restore
  <2>1. /\ base' \in RunStates /\ learner' \in Learners
        /\ base'.next <= Len(schedule)
        /\ learner'.lineage = Prefix(base'.next)
    BY <1>7, RestoreFacts
  <2>2. /\ pc' = "ready"
        /\ UNCHANGED <<schedule, interval, pretrained, stop, current, index,
                       segment, durable, faults>>
    BY <1>7 DEF Restore
  <2>3. QED BY <2>1, <2>2 DEF IInv, TypeOK, Cursors, HandedOut, Running,
                              ExactlyOnce, EnvelopesAgree, Prefix
<1>8. CASE StepRaises
  <2>1. learner' \in Learners
    BY <1>8, TrainedFacts DEF StepRaises, IInv, TypeOK
  <2>2. TypeOK'
    BY <1>8, <2>1, ContinuationAssumption DEF StepRaises, Fault, IInv, TypeOK
  <2>3. Cursors' /\ HandedOut' /\ ExactlyOnce' /\ EnvelopesAgree'
    BY <1>8 DEF StepRaises, IInv, Cursors, HandedOut, Running, ExactlyOnce,
                EnvelopesAgree, Prefix
  <2>4. QED BY <2>2, <2>3 DEF IInv
<1>9. CASE SaveRaises
  <2>1. EnvelopesAgree' /\ durable' \in Seq(Envelopes)
    BY <1>9, SavingFacts DEF SaveRaises, IInv, TypeOK, EnvelopesAgree, Prefix
  <2>2. TypeOK'
    BY <1>9, <2>1, ContinuationAssumption DEF SaveRaises, Fault, IInv, TypeOK
  <2>3. Cursors' /\ HandedOut' /\ ExactlyOnce'
    BY <1>9 DEF SaveRaises, IInv, Cursors, HandedOut, Running, ExactlyOnce, Prefix
  <2>4. QED BY <2>1, <2>2, <2>3 DEF IInv
<1>10. CASE Crash
  <2>1. /\ FreshState \in RunStates /\ FreshLearner \in Learners
        /\ Len(schedule) \in Nat
    BY ConstantTypes DEF IInv
  <2>2. TypeOK'
    BY <1>10, <2>1, ContinuationAssumption DEF Crash, Fault, IInv, TypeOK
  <2>3. Cursors' /\ HandedOut' /\ ExactlyOnce' /\ EnvelopesAgree'
    BY <1>10, <2>1 DEF Crash, IInv, Cursors, HandedOut, Running, ExactlyOnce,
                       EnvelopesAgree, Prefix, FreshState
  <2>4. QED BY <2>2, <2>3 DEF IInv
<1>11. CASE UNCHANGED vars
  BY <1>11 DEF vars, IInv, TypeOK, Cursors, HandedOut, Running, ExactlyOnce,
               EnvelopesAgree, Prefix, Stopping
<1>12. QED
  BY <1>1, <1>2, <1>3, <1>4, <1>5, <1>6, <1>7, <1>8, <1>9, <1>10, <1>11
     DEF Next, Progress, Finished

LEMMA Inductive == Spec => []IInv
BY InitIInv, StepIInv, PTL DEF Spec

\* Every variable keeps its type.
THEOREM TypeCorrect == Spec => []TypeOK
BY Inductive, PTL DEF IInv

\* No source unit is skipped or replayed, through any number of stops,
\* exceptions and crashes.
THEOREM TrainsExactlyOnce == Spec => []ExactlyOnce
BY Inductive, PTL DEF IInv

\* Every envelope pairs a run state with the model of just its units.
THEOREM EnvelopesAlwaysAgree == Spec => []EnvelopesAgree
BY Inductive, PTL DEF IInv

\* The runner never refuses the result it has built itself.
THEOREM RunnerNeverRaises == Spec => OnlyCallbacksRaise
<1>1. IInv /\ [Next]_vars => [pc = "boundary" => pc' # "raised"]_vars
  <2> SUFFICES ASSUME IInv, Next, pc = "boundary" PROVE pc' # "raised"
    BY DEF vars
  <2>1. CASE Boundary
    BY <2>1 DEF Boundary, IInv, HandedOut
  <2>2. CASE ~Boundary
    BY <2>2 DEF Next, Progress, Call, StepReturns, WriteEnvelope, Complete,
                Continue, Restore, StepRaises, SaveRaises, Crash, Finished
  <2>3. QED BY <2>1, <2>2
<1>2. QED BY <1>1, Inductive, PTL DEF Spec, OnlyCallbacksRaise

(***************************************************************************)
(* The run implements the training ledger: a unit is applied, a training   *)
(* is saved, or the learner goes back to a saved one.                      *)
(***************************************************************************)
SavedLineages == {<<>>} \cup { durable[i].model.lineage : i \in DOMAIN durable }

LEMMA LedgerInit == Init => Ledger!Init
BY ContinuationAssumption DEF Init, Ledger!Init, FreshLearner

LEMMA SavingSaves ==
  ASSUME IInv, pc = "checkpoint", durable' = Append(durable, Envelope)
  PROVE  SavedLineages' = SavedLineages \cup {learner.lineage}
<1>1. /\ DOMAIN durable = 1..Len(durable) /\ Len(durable) \in Nat
      /\ DOMAIN durable' = 1..(Len(durable) + 1)
      /\ \A i \in 1..Len(durable) : durable'[i] = durable[i]
      /\ durable'[Len(durable) + 1] = Envelope
  <2>1. Envelope \in Envelopes /\ durable \in Seq(Envelopes)
    BY DEF IInv, TypeOK, Envelope, Envelopes
  <2>2. QED BY <2>1, AppendProperties, LenProperties
<1>2. Envelope.model.lineage = learner.lineage
  BY DEF Envelope
<1>3. DOMAIN durable' = DOMAIN durable \cup {Len(durable) + 1}
  BY <1>1
<1>4. QED BY <1>1, <1>2, <1>3 DEF SavedLineages

LEMMA LedgerStep == IInv /\ [Next]_vars => [Ledger!Next]_(Ledger!ledger)
<1> SUFFICES ASSUME IInv, [Next]_vars
             PROVE  Ledger!Next \/ UNCHANGED <<schedule, learner.lineage, SavedLineages>>
  BY DEF Ledger!ledger, SavedLineages
<1> USE DEF run, call
<1>1. CASE Call \/ Boundary \/ Complete \/ Continue \/ UNCHANGED vars
  BY <1>1 DEF Call, Boundary, Complete, Continue, vars, SavedLineages
<1>2. ASSUME pc = "loop", index < Len(schedule), learner' = Trained,
             UNCHANGED <<schedule, durable>>
      PROVE  Ledger!Apply
  BY <1>2, TrainedFacts DEF Ledger!Apply
<1>3. ASSUME NEW reports \in Reports, StepReturns(reports)
      PROVE  Ledger!Next
  BY <1>2, <1>3 DEF StepReturns, Ledger!Next
<1>4. CASE StepRaises
  BY <1>2, <1>4 DEF StepRaises, Ledger!Next, SavedLineages
<1>5. ASSUME pc = "checkpoint", durable' = Append(durable, Envelope),
             UNCHANGED <<schedule, learner>>
      PROVE  Ledger!Save
  BY <1>5, SavingSaves DEF Ledger!Save, SavedLineages
<1>6. CASE WriteEnvelope
  BY <1>5, <1>6 DEF WriteEnvelope, Ledger!Next
<1>7. CASE SaveRaises
  BY <1>5, <1>7 DEF SaveRaises, Ledger!Next, SavedLineages
<1>8. CASE Restore
  <2>1. learner'.lineage \in SavedLineages
    BY <1>8, RestoreFacts DEF SavedLineages
  <2>2. UNCHANGED <<schedule, durable>>
    BY <1>8 DEF Restore
  <2>3. QED BY <2>1, <2>2 DEF Ledger!Rollback, Ledger!Next, SavedLineages
<1>9. CASE Crash
  <2>1. learner'.lineage = <<>> /\ UNCHANGED <<schedule, durable>>
    BY <1>9 DEF Crash, FreshLearner
  <2>2. QED BY <2>1 DEF Ledger!Rollback, Ledger!Next, SavedLineages
<1>10. QED
  BY <1>1, <1>3, <1>4, <1>6, <1>7, <1>8, <1>9 DEF Next, Progress, Finished

\* Durable continuation is a training ledger: exactly-once application of a
\* schedule, with checkpoints to go back to.
THEOREM ContinuationImplementsLedger == Spec => ImplementsLedger
BY LedgerInit, LedgerStep, Inductive, PTL DEF Spec, ImplementsLedger, Ledger!Spec
-----------------------------------------------------------------------------
(***************************************************************************)
(* The optimizer steps.  The learner has taken one step for each unit; a   *)
(* run state counts the units, or the learner's steps, and never anything  *)
(* between.                                                                *)
(***************************************************************************)
Tracked(state) == state.optimizer \in {state.next, pretrained + state.next}

Counted(model) == model.optimizer = pretrained + Len(model.lineage)

Counts ==
  /\ Counted(learner)
  /\ Tracked(base) /\ Tracked(current)
  /\ \A i \in DOMAIN durable : Counted(durable[i].model) /\ Tracked(durable[i].state)

\* The run state that is handed out has counted up to the cursor.
CurrentCounts ==
  pc \in {"checkpoint", "stopped"} \/ (pc = "boundary" /\ Stopping(segment)) =>
    current.optimizer \in {DefaultStep(index), pretrained + index}

\* A new envelope is the last one, and the others stay.
LEMMA LastAppended ==
  ASSUME IInv, durable' = Append(durable, Envelope)
  PROVE  /\ durable' # <<>> /\ durable'[Len(durable')] = Envelope
         /\ \A i \in DOMAIN durable' :
              durable'[i] = Envelope \/ (i \in DOMAIN durable /\ durable'[i] = durable[i])
<1>1. Envelope \in Envelopes /\ durable \in Seq(Envelopes)
  BY DEF IInv, TypeOK, Envelope, Envelopes
<1>2. /\ DOMAIN durable = 1..Len(durable) /\ Len(durable) \in Nat
      /\ DOMAIN durable' = 1..(Len(durable) + 1) /\ Len(durable') = Len(durable) + 1
      /\ \A i \in 1..Len(durable) : durable'[i] = durable[i]
      /\ durable'[Len(durable) + 1] = Envelope
  BY <1>1, AppendProperties, LenProperties
<1>3. durable' # <<>>
  BY <1>2
<1>4. QED BY <1>2, <1>3

LEMMA LastIsAnEnvelope ==
  ASSUME IInv, durable # <<>>
  PROVE  Len(durable) \in DOMAIN durable /\ durable[Len(durable)] \in Envelopes
<1>1. durable \in Seq(Envelopes)
  BY DEF IInv, TypeOK
<1>2. QED BY <1>1

\* Where the runner is, the learner has taken one step for each unit.
LEMMA LearnerAt ==
  ASSUME IInv, Counts, pc \in {"loop", "checkpoint", "boundary", "stopped", "complete"}
  PROVE  /\ index \in 0..Len(schedule) /\ Len(schedule) \in Nat
         /\ learner.optimizer = pretrained + index
<1>1. schedule \in Seq(Units) /\ index \in 0..Len(schedule) /\ Len(schedule) \in Nat
  BY ConstantTypes DEF IInv, TypeOK, Cursors
<1>2. learner.lineage = SubSeq(schedule, 1, index)
  BY DEF IInv, ExactlyOnce, Prefix
<1>3. Len(learner.lineage) = index
  BY <1>1, <1>2, PrefixFacts
<1>4. QED BY <1>1, <1>3 DEF Counts, Counted

LEMMA DefaultStepFacts ==
  ASSUME IInv, Counts, NEW done \in Nat, base.next <= done
  PROVE  /\ DefaultStep(done) \in {done, pretrained + done}
         /\ DefaultStep(done) \in Nat
         /\ DefaultStep(done + 1) = DefaultStep(done) + 1
<1>1. base.next \in Nat /\ base.optimizer \in Nat /\ pretrained \in Nat
  BY ConstantTypes DEF IInv, TypeOK, RunStates
<1>2. QED BY <1>1 DEF Counts, Tracked, DefaultStep

LEMMA FreshCounts ==
  ASSUME TypeOK
  PROVE  Counted(FreshLearner) /\ Tracked(FreshState)
<1>1. pretrained \in Nat
  BY ConstantTypes
<1>2. Len(<<>>) = 0
  OBVIOUS
<1>3. QED BY <1>1, <1>2 DEF Counted, Tracked, FreshLearner, FreshState

LEMMA TrainedCounts ==
  ASSUME IInv, Counts, pc = "loop", index < Len(schedule)
  PROVE  Counted(Trained) /\ Trained.optimizer = pretrained + (index + 1)
<1>1. learner.optimizer = pretrained + index /\ index \in Nat /\ pretrained \in Nat
  BY LearnerAt, ConstantTypes DEF IInv, TypeOK
<1>2. Len(Trained.lineage) = index + 1
  <2>1. /\ schedule \in Seq(Units) /\ index + 1 \in 0..Len(schedule)
        /\ Trained.lineage = SubSeq(schedule, 1, index + 1)
    BY <1>1, TrainedFacts, ConstantTypes DEF IInv, Prefix
  <2>2. QED BY <2>1, PrefixFacts
<1>3. Trained.optimizer = learner.optimizer + 1
  BY DEF Trained
<1>4. QED BY <1>1, <1>2, <1>3 DEF Counted

LEMMA InitCounts == Init => Counts /\ CurrentCounts
<1> SUFFICES ASSUME Init PROVE Counts /\ CurrentCounts
  OBVIOUS
<1>1. Counted(FreshLearner) /\ Tracked(FreshState)
  BY InitIInv, FreshCounts DEF IInv
<1>2. QED BY <1>1 DEF Init, Counts, CurrentCounts

\* The run state a completed step leaves.
LEMMA StepReturnsCounts ==
  ASSUME IInv, Counts, NEW reports \in Reports, StepReturns(reports)
  PROVE  /\ Tracked(current)'
         /\ Materializes(index + 1) =>
              current'.optimizer \in {DefaultStep(index)', pretrained + (index + 1)}
         /\ DefaultStep(index)' = DefaultStep(index + 1)
<1>1. /\ pc = "loop" /\ index < Len(schedule) /\ index' = index + 1
      /\ UNCHANGED <<base, pretrained>> /\ index \in Nat /\ base.next <= index + 1
      /\ base.next \in Nat
  BY DEF StepReturns, run, call, IInv, TypeOK, Cursors, Running, RunStates
<1>2. Trained.optimizer = pretrained + (index + 1)
  BY <1>1, TrainedCounts
<1>3. DefaultStep(index + 1) \in {index + 1, pretrained + (index + 1)}
  BY <1>1, DefaultStepFacts
<1>4. DefaultStep(index)' = DefaultStep(index + 1)
  BY <1>1 DEF DefaultStep
<1>5. CASE ~Materializes(index + 1)
  <2>1. current' = current
    BY <1>5 DEF StepReturns
  <2>2. QED BY <1>1, <1>4, <1>5, <2>1 DEF Counts, Tracked
<1>6. CASE Materializes(index + 1)
  <2>1. /\ current'.next = index + 1
        /\ current'.optimizer \in {Trained.optimizer, DefaultStep(index + 1)}
    BY <1>6 DEF StepReturns
  <2>2. QED BY <1>1, <1>2, <1>3, <1>4, <2>1 DEF Tracked
<1>7. QED BY <1>5, <1>6

LEMMA StepCounts ==
  ASSUME IInv, Counts, CurrentCounts, [Next]_vars
  PROVE  Counts' /\ CurrentCounts'
<1> USE DEF run, call
<1> SUFFICES /\ Counted(learner)' /\ Tracked(base)' /\ Tracked(current)'
             /\ \A i \in DOMAIN durable' :
                  Counted(durable[i].model)' /\ Tracked(durable[i].state)'
             /\ CurrentCounts'
  BY DEF Counts
<1>1. CASE Call \/ Boundary \/ Continue \/ UNCHANGED vars
  BY <1>1 DEF Call, Boundary, Continue, vars, Counts, CurrentCounts, Counted, Tracked,
              DefaultStep, Stopping
<1>2. ASSUME NEW reports \in Reports, StepReturns(reports)
      PROVE  Counts' /\ CurrentCounts'
  <2>1. /\ pc = "loop" /\ index < Len(schedule) /\ learner' = Trained
        /\ index' = index + 1 /\ segment' = segment + 1
        /\ pc' = IF Due(index + 1) \/ index + 1 = Len(schedule)
                 THEN "checkpoint" ELSE "boundary"
        /\ UNCHANGED <<schedule, pretrained, base, stop, durable>>
    BY <1>2 DEF StepReturns
  <2>2. Counts'
    BY <1>2, <2>1, StepReturnsCounts, TrainedCounts DEF Counts, Counted, Tracked
  <2>3. CurrentCounts'
    <3>1. ASSUME pc' = "checkpoint" \/ Stopping(segment)' PROVE Materializes(index + 1)
      BY <2>1, <3>1 DEF Materializes, Stopping
    <3>2. pc' \in {"checkpoint", "boundary"}
      BY <2>1
    <3>3. QED BY <1>2, <2>1, <3>1, <3>2, StepReturnsCounts DEF CurrentCounts
  <2>4. QED BY <2>2, <2>3
<1>3. ASSUME pc = "checkpoint", durable' \in {durable, Append(durable, Envelope)},
             UNCHANGED <<pretrained, learner, base, current>>
      PROVE  Counts'
  <2>1. Counted(Envelope.model) /\ Tracked(Envelope.state)
    BY DEF Counts, Envelope
  <2>2. ASSUME NEW i \in DOMAIN durable'
        PROVE  Counted(durable[i].model)' /\ Tracked(durable[i].state)'
    <3>1. durable'[i] = Envelope \/ (i \in DOMAIN durable /\ durable'[i] = durable[i])
      BY <1>3, <2>2, LastAppended
    <3>2. QED BY <1>3, <2>1, <3>1 DEF Counts, Counted, Tracked
  <2>3. QED BY <1>3, <2>2 DEF Counts, Counted, Tracked
<1>4. CASE WriteEnvelope \/ SaveRaises
  <2>1. Counts'
    BY <1>3, <1>4 DEF WriteEnvelope, SaveRaises
  <2>2. CurrentCounts'
    BY <1>4 DEF WriteEnvelope, SaveRaises, CurrentCounts, DefaultStep
  <2>3. QED BY <2>1, <2>2 DEF Counts
<1>5. CASE Complete
  <2>1. DefaultStep(index) \in {index, pretrained + index}
    BY <1>5, DefaultStepFacts DEF Complete, IInv, TypeOK, Cursors, Running
  <2>2. QED BY <1>5, <2>1 DEF Complete, Counts, CurrentCounts, Counted, Tracked
<1>6. CASE Restore
  <2>1. Counted(FreshLearner) /\ Tracked(FreshState)
    BY FreshCounts DEF IInv
  <2>2. durable # <<>> => Len(durable) \in DOMAIN durable
    BY LastIsAnEnvelope
  <2>3. Counted(learner)' /\ Tracked(base)'
    BY <1>6, <2>1, <2>2 DEF Restore, Counts, Counted, Tracked, FreshLearner
  <2>4. QED BY <1>6, <2>3 DEF Restore, Counts, CurrentCounts, Counted, Tracked
<1>7. CASE StepRaises
  <2>1. Counted(learner)'
    BY <1>7, TrainedCounts DEF StepRaises, Counts, Counted
  <2>2. QED BY <1>7, <2>1 DEF StepRaises, Counts, CurrentCounts, Counted, Tracked
<1>8. CASE Crash
  <2>1. Counted(FreshLearner) /\ Tracked(FreshState)
    BY FreshCounts DEF IInv
  <2>2. QED BY <1>8, <2>1 DEF Crash, Counts, CurrentCounts, Counted, Tracked, FreshLearner
<1>9. QED
  BY <1>1, <1>2, <1>4, <1>5, <1>6, <1>7, <1>8
     DEF Next, Progress, Finished, Counts
(***************************************************************************)
(* The end.  A runner at the end of the schedule has saved what it is      *)
(* about to return, in this call or in the one it was restored from.       *)
(***************************************************************************)
LastIs(envelope) == durable # <<>> /\ durable[Len(durable)] = envelope

Ended ==
  /\ pc = "ready" /\ base.next = Len(schedule) /\ schedule # <<>> =>
       LastIs([state |-> base, model |-> learner])
  /\ pc \in {"loop", "boundary", "complete"} /\ index = Len(schedule) =>
       /\ current.next = index
       /\ schedule # <<>> => LastIs(Envelope)
  /\ pc = "stopped" => index # Len(schedule)
  /\ pc = "complete" => index = Len(schedule)

LEMMA InitEnded == Init => Ended
<1> SUFFICES ASSUME Init PROVE Ended
  OBVIOUS
<1>1. schedule \in Seq(Units)
  BY ContinuationAssumption DEF Init
<1>2. Len(schedule) = 0 => schedule = <<>>
  BY <1>1
<1>3. QED BY <1>2 DEF Init, Ended, FreshState

LEMMA StepEnded ==
  ASSUME IInv, Ended, [Next]_vars
  PROVE  Ended'
<1> USE DEF run, call
<1>1. CASE Call
  BY <1>1 DEF Call, Ended, LastIs, Envelope
<1>2. ASSUME NEW reports \in Reports, StepReturns(reports)
      PROVE  Ended'
  <2>1. /\ pc' \in {"checkpoint", "boundary"} /\ UNCHANGED schedule
        /\ pc' = "boundary" => index' # Len(schedule)
    BY <1>2 DEF StepReturns
  <2>2. QED BY <2>1 DEF Ended
<1>3. CASE WriteEnvelope
  <2>1. /\ pc' = "boundary" /\ UNCHANGED <<schedule, learner, current, index>>
        /\ durable' = Append(durable, Envelope) /\ current.next = index
    BY <1>3 DEF WriteEnvelope, IInv, HandedOut
  <2>2. LastIs(Envelope)'
    BY <2>1, LastAppended DEF LastIs, Envelope
  <2>3. QED BY <2>1, <2>2 DEF Ended
<1>4. CASE Boundary
  BY <1>4 DEF Boundary, Ended, LastIs, Envelope
<1>5. CASE Complete
  BY <1>5 DEF Complete, Ended, LastIs, Envelope
<1>6. CASE Continue
  <2>1. index # Len(schedule) /\ base'.next = index /\ pc' = "ready" /\ UNCHANGED schedule
    BY <1>6 DEF Continue, Ended, IInv, HandedOut
  <2>2. QED BY <2>1 DEF Ended
<1>7. CASE Restore
  <2>1. CASE durable = <<>>
    <3>1. base'.next = 0 /\ pc' = "ready" /\ UNCHANGED schedule
      BY <1>7, <2>1 DEF Restore, FreshState
    <3>2. schedule \in Seq(Units)
      BY ConstantTypes DEF IInv
    <3>3. Len(schedule) = 0 => schedule = <<>>
      BY <3>2
    <3>4. QED BY <3>1, <3>3 DEF Ended
  <2>2. CASE durable # <<>>
    <3>1. /\ pc' = "ready" /\ UNCHANGED <<schedule, durable>>
          /\ base' = durable[Len(durable)].state /\ learner' = durable[Len(durable)].model
      BY <1>7, <2>2 DEF Restore
    <3>2. durable[Len(durable)] = [state |-> base', model |-> learner']
      BY <2>2, <3>1, LastIsAnEnvelope DEF Envelopes
    <3>3. LastIs([state |-> base, model |-> learner])'
      BY <2>2, <3>1, <3>2 DEF LastIs
    <3>4. QED BY <3>1, <3>3 DEF Ended
  <2>3. QED BY <2>1, <2>2
<1>8. CASE StepRaises \/ SaveRaises \/ Crash
  BY <1>8 DEF StepRaises, SaveRaises, Crash, Ended
<1>9. CASE UNCHANGED vars
  BY <1>9 DEF vars, Ended, LastIs, Envelope
<1>10. QED
  BY <1>1, <1>2, <1>3, <1>4, <1>5, <1>6, <1>7, <1>8, <1>9
     DEF Next, Progress, Finished

\* A run that completes ends in the one state an uninterrupted run ends in,
\* with a terminal envelope that holds it.
THEOREM ResumedIsUninterrupted == Spec => []ResumeEquivalence
<1>1. IInv /\ Counts /\ Ended => ResumeEquivalence
  <2> SUFFICES ASSUME IInv, Counts, Ended, pc = "complete" PROVE ResumeEquivalence
    BY DEF ResumeEquivalence
  <2>1. /\ index = Len(schedule) /\ current.next = index
        /\ schedule # <<>> => LastIs(Envelope)
    BY DEF Ended
  <2>2. learner.optimizer = pretrained + Len(schedule)
    BY <2>1, LearnerAt
  <2>3. learner.lineage = schedule
    <3>1. schedule \in Seq(Units) /\ Len(schedule) \in 0..Len(schedule)
      BY <2>1, LearnerAt, ConstantTypes DEF IInv
    <3>2. SubSeq(schedule, 1, Len(schedule)) = schedule
      BY <3>1, PrefixFacts
    <3>3. QED BY <2>1, <3>2 DEF IInv, ExactlyOnce, Prefix
  <2>4. learner = [lineage |-> schedule, optimizer |-> pretrained + Len(schedule)]
    BY <2>2, <2>3 DEF IInv, TypeOK, Learners
  <2>5. QED BY <2>1, <2>4 DEF ResumeEquivalence, LastIs, Counts, Tracked
<1>2. Init => IInv /\ Counts /\ CurrentCounts /\ Ended
  BY InitIInv, InitCounts, InitEnded
<1>3. IInv /\ Counts /\ CurrentCounts /\ Ended /\ [Next]_vars =>
        (IInv /\ Counts /\ CurrentCounts /\ Ended)'
  BY StepIInv, StepCounts, StepEnded
<1>4. QED BY <1>1, <1>2, <1>3, PTL DEF Spec
-----------------------------------------------------------------------------
(***************************************************************************)
(* Remainders.  Between two multiples of n the remainder counts.           *)
(***************************************************************************)
LEMMA Division ==
  ASSUME NEW x \in Nat, NEW n \in Nat \ {0}
  PROVE  /\ x \div n \in Nat /\ x % n \in Nat /\ x % n < n
         /\ x = (n * (x \div n)) + (x % n)
OBVIOUS

LEMMA OneRemainder ==
  ASSUME NEW n \in Nat, NEW a \in Nat, NEW b \in Nat, NEW r \in Nat, NEW s \in Nat,
         (n * a) + r = (n * b) + s, r < n, s < n
  PROVE  r = s
<1>1. ~(a + 1 <= b)
  OBVIOUS
<1>2. ~(b + 1 <= a)
  OBVIOUS
<1>3. QED BY <1>1, <1>2

LEMMA RemainderIs ==
  ASSUME NEW x \in Nat, NEW q \in Nat, NEW r \in Nat, NEW n \in Nat \ {0},
         r < n, x = (n * q) + r
  PROVE  x % n = r
<1> DEFINE a == x \div n
           s == x % n
<1>1. a \in Nat /\ s \in Nat /\ s < n /\ x = (n * a) + s
  BY Division
<1> HIDE DEF a, s
<1>2. (n * a) + s = (n * q) + r
  BY <1>1
<1>3. s = r
  BY <1>1, <1>2, OneRemainder
<1>4. QED BY <1>3 DEF s

LEMMA RemainderCounts ==
  ASSUME NEW x \in Nat, NEW n \in Nat \ {0}, (x + 1) % n # 0
  PROVE  (x + 1) % n = (x % n) + 1
<1> DEFINE q == x \div n
           r == x % n
<1>1. q \in Nat /\ r \in Nat /\ r < n /\ x = (n * q) + r
  BY Division
<1> HIDE DEF q, r
<1>2. CASE r + 1 < n
  <2>1. x + 1 = (n * q) + (r + 1) /\ r + 1 \in Nat /\ x + 1 \in Nat
    BY <1>1
  <2>2. (x + 1) % n = r + 1
    BY <1>1, <1>2, <2>1, RemainderIs
  <2>3. QED BY <2>2 DEF r
<1>3. CASE r + 1 = n
  <2>1. x + 1 = (n * (q + 1)) + 0
    BY <1>1, <1>3
  <2>2. x + 1 \in Nat /\ q + 1 \in Nat /\ 0 \in Nat /\ 0 < n
    BY <1>1
  <2>3. (x + 1) % n = 0
    BY <2>1, <2>2, RemainderIs
  <2>4. QED BY <2>3
<1>4. QED BY <1>1, <1>2, <1>3

LEMMA MultiplesShift ==
  ASSUME NEW p \in Nat, NEW x \in Nat, NEW n \in Nat \ {0}, p % n = 0
  PROVE  (p + x) % n = x % n
<1> DEFINE a == p \div n
           q == x \div n
           r == x % n
<1>1. /\ a \in Nat /\ q \in Nat /\ r \in Nat /\ r < n
      /\ p = (n * a) + 0 /\ x = (n * q) + r
  BY Division
<1> HIDE DEF a, q, r
<1>2. a + q \in Nat /\ n * (a + q) = (n * a) + (n * q)
  BY <1>1
<1>3. p + x \in Nat /\ p + x = (n * (a + q)) + r
  BY <1>1, <1>2
<1>4. (p + x) % n = r
  BY <1>1, <1>2, <1>3, RemainderIs
<1>. QED
  BY <1>4 DEF r

LEMMA NoRemainderOfZero ==
  ASSUME NEW n \in Nat \ {0}
  PROVE  0 % n = 0
<1>1. 0 = (n * 0) + 0 /\ 0 < n
  OBVIOUS
<1>. QED
  BY <1>1, RemainderIs

(***************************************************************************)
(* The cadence.  Since the last envelope the remainder of the counted step *)
(* has counted the units, so that they are fewer than an interval; unless  *)
(* a call took over the learner's own step in between, which happens once, *)
(* since a run state that counts the learner's steps keeps counting them.  *)
(***************************************************************************)
\* Only a request stops a run, and only a report moves a run state from the
\* units to the learner's steps.
Causes ==
  /\ pc = "stopped" => stop # 0
  /\ TRUE \notin Reports =>
       /\ base.optimizer = base.next /\ current.optimizer = current.next
       /\ \A i \in DOMAIN durable :
            durable[i].state.optimizer = durable[i].state.next

LEMMA InitCauses == Init => Causes
BY DEF Init, Causes, FreshState

LEMMA StepCauses == IInv /\ Causes /\ [Next]_vars => Causes'
<1> SUFFICES ASSUME IInv, Causes, [Next]_vars PROVE Causes'
  OBVIOUS
<1> USE DEF run, call
<1>1. pc' = "stopped" => stop' # 0
  BY DEF IInv, Causes, Next, Progress, Call, StepReturns, WriteEnvelope, Boundary,
         Stopping, Complete, Continue, Restore, StepRaises, SaveRaises, Crash,
         Finished, vars
<1> SUFFICES ASSUME TRUE \notin Reports
             PROVE  /\ base'.optimizer = base'.next
                    /\ current'.optimizer = current'.next
                    /\ \A i \in DOMAIN durable' :
                         durable'[i].state.optimizer = durable'[i].state.next
  BY <1>1 DEF Causes
<1>2. /\ base.optimizer = base.next /\ current.optimizer = current.next
      /\ \A i \in DOMAIN durable :
           durable[i].state.optimizer = durable[i].state.next
  BY DEF Causes
<1>3. ASSUME NEW done \in Nat
      PROVE  DefaultStep(done) = done
  <2>1. base.next \in Nat
    BY DEF IInv, TypeOK, RunStates
  <2>. QED
    BY <1>2, <2>1 DEF DefaultStep
<1>4. ASSUME NEW reports \in Reports, StepReturns(reports)
      PROVE  /\ current'.optimizer = current'.next
             /\ UNCHANGED <<base, durable>>
  <2>1. ~reports /\ index \in Nat
    BY ContinuationAssumption DEF IInv, TypeOK
  <2>2. DefaultStep(index + 1) = index + 1
    BY <1>3, <2>1
  <2>. QED
    BY <1>2, <1>4, <2>1, <2>2 DEF StepReturns
<1>5. ASSUME pc = "checkpoint", durable' = Append(durable, Envelope)
      PROVE  \A i \in DOMAIN durable' :
               durable'[i].state.optimizer = durable'[i].state.next
  BY <1>2, <1>5, LastAppended DEF Envelope
<1>6. CASE WriteEnvelope \/ SaveRaises
  BY <1>2, <1>5, <1>6 DEF WriteEnvelope, SaveRaises
<1>7. CASE Complete
  <2>1. DefaultStep(index) = index
    BY <1>3 DEF IInv, TypeOK
  <2>. QED
    BY <1>2, <1>7, <2>1 DEF Complete
<1>8. CASE Restore
  <2>1. durable # <<>> => Len(durable) \in DOMAIN durable
    BY LastIsAnEnvelope
  <2>. QED
    BY <1>2, <1>8, <2>1 DEF Restore, FreshState
<1>9. CASE Call \/ Boundary \/ Continue \/ StepRaises \/ Crash \/ UNCHANGED vars
  BY <1>2, <1>9 DEF Call, Boundary, Continue, StepRaises, Crash, vars, FreshState
<1>. QED
  BY <1>2, <1>4, <1>6, <1>7, <1>8, <1>9 DEF Next, Progress, Finished

SavedNext == IF durable = <<>> THEN 0 ELSE durable[Len(durable)].state.next

\* What it takes for a continued call to count from another phase: steps the
\* learner had taken that are no whole intervals, a callback that reports the
\* learner's step, and a stop request.
Slips ==
  pretrained % interval # 0 /\ TRUE \in Reports /\ ~(StopAfter \subseteq {0})

TookOver == Slips /\ base.optimizer = pretrained + base.next

\* With "units" units since the last envelope, of which the remainder of
\* "step" has counted all or those since the run state was taken over.
InPace(units, step) ==
  \/ units <= step % interval
  \/ TookOver /\ units <= (interval - 1) + (step % interval)

Pace ==
  /\ pc = "ready" => InPace(base.next - SavedNext, base.optimizer)
  /\ pc \in {"loop", "boundary", "stopped"} =>
       InPace(index - SavedNext, DefaultStep(index))
  /\ pc = "checkpoint" =>
       \/ index - SavedNext <= interval
       \/ TookOver /\ index - SavedNext <= (interval - 1) + interval

LEMMA SavedFacts ==
  ASSUME IInv, Counts
  PROVE  SavedNext \in Nat /\ Saved.optimizer = pretrained + SavedNext
<1>1. CASE durable = <<>>
  BY <1>1, ConstantTypes DEF IInv, SavedNext, Saved, FreshLearner
<1>2. CASE durable # <<>>
  <2> DEFINE last == durable[Len(durable)]
  <2>1. Len(durable) \in DOMAIN durable /\ last.state.next \in Nat
    BY <1>2, LastIsAnEnvelope DEF Envelopes, RunStates
  <2>2. /\ last.model.lineage = SubSeq(schedule, 1, last.state.next)
        /\ last.state.next <= Len(schedule)
        /\ last.model.optimizer = pretrained + Len(last.model.lineage)
    BY <2>1 DEF IInv, EnvelopesAgree, Prefix, Counts, Counted
  <2> HIDE DEF last
  <2>3. Len(last.model.lineage) = last.state.next
    <3>1. schedule \in Seq(Units) /\ last.state.next \in 0..Len(schedule)
      BY <2>1, <2>2, ConstantTypes DEF IInv
    <3>2. QED BY <2>2, <3>1, PrefixFacts
  <2>4. QED BY <1>2, <2>1, <2>2, <2>3 DEF SavedNext, Saved, last
<1>3. QED BY <1>1, <1>2

LEMMA InitPace == Init => Pace
<1> SUFFICES ASSUME Init PROVE Pace
  OBVIOUS
<1>1. interval \in Nat \ {0}
  BY ContinuationAssumption DEF Init
<1>2. 0 % interval \in Nat
  BY <1>1, Division
<1>3. SavedNext = 0 /\ base.next = 0 /\ base.optimizer = 0 /\ pc = "ready"
  BY DEF Init, SavedNext, FreshState
<1>4. QED BY <1>2, <1>3 DEF Pace, InPace

\* Nothing is unsaved: any step is in pace.
LEMMA NothingUnsaved ==
  ASSUME TypeOK, NEW step \in Nat
  PROVE  InPace(0, step)
<1>1. step % interval \in Nat
  BY ConstantTypes, Division
<1>2. QED BY <1>1 DEF InPace

LEMMA StepPace ==
  ASSUME IInv, Counts, CurrentCounts, Causes, Pace, [Next]_vars
  PROVE  Pace'
<1> USE DEF run, call
<1>0. /\ interval \in Nat \ {0} /\ pretrained \in Nat /\ SavedNext \in Nat
      /\ base.next \in Nat /\ base.optimizer \in Nat /\ index \in Nat
  BY SavedFacts, ConstantTypes DEF IInv, TypeOK, RunStates
<1>1. CASE Call
  <2>1. /\ pc = "ready" /\ pc' = "loop" /\ index' = base.next
        /\ UNCHANGED <<interval, pretrained, base, durable>>
    BY <1>1 DEF Call
  <2>2. DefaultStep(index)' = base.optimizer
    BY <1>0, <2>1 DEF DefaultStep
  <2>3. SavedNext' = SavedNext /\ TookOver' = TookOver
    BY <2>1 DEF SavedNext, TookOver, Slips
  <2>4. InPace(base.next - SavedNext, base.optimizer)
    BY <2>1 DEF Pace
  <2>5. InPace(index - SavedNext, DefaultStep(index))'
    BY <2>1, <2>2, <2>3, <2>4 DEF InPace
  <2>6. QED BY <2>1, <2>5 DEF Pace
<1>2. ASSUME NEW reports \in Reports, StepReturns(reports)
      PROVE  Pace'
  <2> DEFINE x == DefaultStep(index)
             units == index - SavedNext
  <2>1. /\ pc = "loop" /\ index' = index + 1
        /\ pc' = IF Due(index + 1) \/ index + 1 = Len(schedule)
                 THEN "checkpoint" ELSE "boundary"
        /\ UNCHANGED <<interval, pretrained, base, durable>>
    BY <1>2 DEF StepReturns
  <2>2. x \in Nat /\ DefaultStep(index + 1) = x + 1
    BY <1>0, <2>1, DefaultStepFacts DEF IInv, Cursors, Running
  <2>3. DefaultStep(index)' = x + 1
    BY <2>1, <2>2 DEF DefaultStep
  <2>4. SavedNext' = SavedNext /\ TookOver' = TookOver
    BY <2>1 DEF SavedNext, TookOver, Slips
  <2>5. index' - SavedNext' = units + 1 /\ units \in Int
    BY <1>0, <2>1, <2>4
  <2>6. InPace(units, x)
    BY <2>1 DEF Pace
  <2> HIDE DEF x, units
  <2>7. x % interval \in Nat /\ x % interval < interval
    BY <1>0, <2>2, Division
  <2>8. CASE pc' = "checkpoint"
    <3>1. \/ units + 1 <= interval
          \/ TookOver /\ units + 1 <= (interval - 1) + interval
      BY <1>0, <2>5, <2>6, <2>7 DEF InPace
    <3>2. QED BY <2>1, <2>4, <2>5, <2>8, <3>1 DEF Pace
  <2>9. CASE pc' = "boundary"
    <3>1. (x + 1) % interval # 0
      BY <2>1, <2>2, <2>9 DEF Due
    <3>2. (x + 1) % interval = (x % interval) + 1
      BY <1>0, <2>2, <3>1, RemainderCounts
    <3>3. InPace(units + 1, x + 1)
      BY <1>0, <2>5, <2>6, <2>7, <3>2 DEF InPace
    <3>4. InPace(index - SavedNext, DefaultStep(index))'
      BY <2>1, <2>3, <2>4, <2>5, <3>3 DEF InPace
    <3>5. QED BY <2>9, <3>4 DEF Pace
  <2>10. QED BY <2>1, <2>8, <2>9
<1>3. CASE WriteEnvelope
  <2>1. /\ pc' = "boundary" /\ UNCHANGED <<interval, pretrained, base, index>>
        /\ durable' = Append(durable, Envelope) /\ current.next = index
        /\ pc = "checkpoint"
    BY <1>3 DEF WriteEnvelope, IInv, HandedOut
  <2>2. SavedNext' = index
    BY <2>1, LastAppended DEF SavedNext, Envelope
  <2>3. DefaultStep(index) \in Nat /\ DefaultStep(index)' = DefaultStep(index)
    BY <1>0, <2>1, DefaultStepFacts DEF IInv, Cursors, Running, DefaultStep
  <2>4. DefaultStep(index) % interval \in Nat
    BY <1>0, <2>3, Division
  <2>5. InPace(index - SavedNext, DefaultStep(index))'
    BY <1>0, <2>1, <2>2, <2>3, <2>4 DEF InPace
  <2>6. QED BY <2>1, <2>5 DEF Pace
<1>4. CASE Boundary \/ UNCHANGED vars
  <2>1. /\ UNCHANGED <<interval, pretrained, base, index, durable>>
        /\ \/ UNCHANGED pc
           \/ pc = "boundary" /\ pc' \in {"loop", "stopped", "raised"}
    BY <1>4 DEF Boundary, vars
  <2>2. /\ SavedNext' = SavedNext /\ DefaultStep(index)' = DefaultStep(index)
        /\ TookOver' = TookOver
    BY <2>1 DEF SavedNext, DefaultStep, TookOver, Slips
  <2>3. QED BY <2>1, <2>2 DEF Pace, InPace
<1>5. CASE Continue
  <2> DEFINE x == DefaultStep(index)
             units == index - SavedNext
  <2>1. /\ pc = "stopped" /\ pc' = "ready" /\ base' = current /\ current.next = index
        /\ UNCHANGED <<interval, pretrained, durable>>
    BY <1>5 DEF Continue, IInv, HandedOut
  <2>2. InPace(units, x)
    BY <2>1 DEF Pace
  <2>3. /\ x \in Nat /\ x = base.optimizer + (index - base.next)
        /\ x \in {index, pretrained + index} /\ units \in Int
        /\ current.optimizer \in {x, pretrained + index}
    <3>1. base.next <= index
      BY <2>1 DEF IInv, Cursors, Running
    <3>2. QED BY <1>0, <2>1, <3>1, DefaultStepFacts DEF CurrentCounts, DefaultStep
  <2>4. SavedNext' = SavedNext /\ base'.next - SavedNext' = units
    BY <2>1 DEF SavedNext
  <2>5. TookOver' <=> Slips /\ current.optimizer = pretrained + index
    BY <2>1 DEF TookOver, Slips
  <2>6. TookOver <=> Slips /\ x = pretrained + index
    BY <1>0, <2>3 DEF TookOver
  <2> HIDE DEF x, units
  <2>7. x % interval \in Nat /\ x % interval <= interval - 1
    BY <1>0, <2>3, Division
  <2>8. CASE current.optimizer = x
    <3>1. TookOver' <=> TookOver
      BY <2>5, <2>6, <2>8
    <3>2. InPace(base.next - SavedNext, base.optimizer)'
      BY <2>1, <2>2, <2>4, <2>8, <3>1 DEF InPace
    <3>3. QED BY <2>1, <3>2 DEF Pace
  <2>9. CASE current.optimizer = pretrained + index /\ x # pretrained + index
    <3>1. units <= x % interval /\ x = index
      <4>1. ~TookOver
        BY <2>6, <2>9
      <4>2. QED BY <2>2, <2>3, <2>9, <4>1 DEF InPace
    <3>2. (pretrained + index) % interval \in Nat
      BY <1>0, Division
    <3>3. CASE Slips
      <4>1. units <= (interval - 1) + ((pretrained + index) % interval)
        BY <1>0, <2>3, <2>7, <3>1, <3>2
      <4>2. TookOver'
        BY <2>5, <2>9, <3>3
      <4>3. InPace(base.next - SavedNext, base.optimizer)'
        BY <2>1, <2>4, <2>9, <4>1, <4>2 DEF InPace
      <4>4. QED BY <2>1, <4>3 DEF Pace
    <3>4. CASE ~Slips
      <4>1. TRUE \in Reports
        <5>1. TRUE \notin Reports => current.optimizer = index
          BY <2>1 DEF Causes
        <5>2. QED BY <2>9, <3>1, <5>1
      <4>2. ~(StopAfter \subseteq {0})
        BY <2>1 DEF Causes, IInv, TypeOK
      <4>3. pretrained % interval = 0
        BY <3>4, <4>1, <4>2 DEF Slips
      <4>4. (pretrained + index) % interval = x % interval
        BY <1>0, <3>1, <4>3, MultiplesShift
      <4>5. InPace(base.next - SavedNext, base.optimizer)'
        BY <2>1, <2>4, <2>9, <3>1, <4>4 DEF InPace
      <4>6. QED BY <2>1, <4>5 DEF Pace
    <3>5. QED BY <3>3, <3>4
  <2>10. QED BY <2>3, <2>8, <2>9
<1>6. CASE Restore
  <2>1. /\ pc' = "ready" /\ UNCHANGED <<interval, pretrained, durable>>
        /\ base' \in RunStates
    BY <1>6, RestoreFacts DEF Restore
  <2>2. base'.next = SavedNext'
    BY <1>6, <2>1 DEF Restore, SavedNext, FreshState
  <2>3. base'.next - SavedNext' = 0 /\ base'.optimizer % interval \in Nat
    BY <1>0, <2>1, <2>2, Division DEF RunStates
  <2>4. InPace(base.next - SavedNext, base.optimizer)'
    BY <2>1, <2>3 DEF InPace
  <2>5. QED BY <2>1, <2>4 DEF Pace
<1>7. CASE Complete \/ StepRaises \/ SaveRaises \/ Crash
  BY <1>7 DEF Complete, StepRaises, SaveRaises, Crash, Pace
<1>8. QED
  BY <1>1, <1>2, <1>3, <1>4, <1>5, <1>6, <1>7 DEF Next, Progress, Finished

LEMMA PaceAlways == Spec => [](IInv /\ Counts /\ Pace)
<1>1. Init => IInv /\ Counts /\ CurrentCounts /\ Causes /\ Pace
  BY InitIInv, InitCounts, InitCauses, InitPace
<1>2. IInv /\ Counts /\ CurrentCounts /\ Causes /\ Pace /\ [Next]_vars =>
        (IInv /\ Counts /\ CurrentCounts /\ Causes /\ Pace)'
  BY StepIInv, StepCounts, StepCauses, StepPace
<1>3. QED BY <1>1, <1>2, PTL DEF Spec

LEMMA PaceBounds ==
  ASSUME IInv, Counts, Pace,
         pc \in {"loop", "checkpoint", "boundary", "stopped"}
  PROVE  Unsaved < 2 * interval /\ (~Slips => Unsaved <= interval)
<1>1. /\ interval \in Nat \ {0} /\ pretrained \in Nat /\ SavedNext \in Nat
      /\ index \in Nat /\ Saved.optimizer = pretrained + SavedNext
      /\ learner.optimizer = pretrained + index
  BY SavedFacts, LearnerAt, ConstantTypes DEF IInv, TypeOK
<1>2. Unsaved = index - SavedNext
  BY <1>1 DEF Unsaved
<1>3. CASE pc = "checkpoint"
  BY <1>1, <1>2, <1>3 DEF Pace, TookOver
<1>4. CASE pc # "checkpoint"
  <2>1. DefaultStep(index) \in Nat
    BY <1>1, DefaultStepFacts DEF IInv, Cursors, Running
  <2>2. /\ DefaultStep(index) % interval \in Nat
        /\ DefaultStep(index) % interval < interval
    BY <1>1, <2>1, Division
  <2>3. InPace(index - SavedNext, DefaultStep(index))
    BY <1>4 DEF Pace
  <2>4. QED BY <1>1, <1>2, <2>2, <2>3 DEF InPace, TookOver
<1>5. QED BY <1>3, <1>4

\* An interruption costs less than two intervals of optimizer steps, and at
\* most one where the run state starts from the learner's step.
THEOREM LossIsBounded == Spec => []BoundedLoss
<1>1. IInv /\ Counts /\ Pace => BoundedLoss
  <2>1. IInv => (pretrained = 0 => ~Slips)
    BY ConstantTypes, NoRemainderOfZero DEF IInv, Slips
  <2>2. QED BY <2>1, PaceBounds DEF BoundedLoss
<1>2. QED BY <1>1, PaceAlways, PTL

\* "Checkpoints every eight optimizer steps" (docs/PHASE_6_EXECUTION_LEDGER.md,
\* 136-137) is true of the code but for one combination: a learner whose earlier
\* steps are no whole intervals, a callback that reports the learner's step
\* (behavior/continuation.py, 498-512), and a stopped run that is continued.
THEOREM CadenceIsKept == Spec => [](~Slips => CheckpointEveryInterval)
<1>1. IInv /\ Counts /\ Pace => (~Slips => CheckpointEveryInterval)
  BY PaceBounds DEF CheckpointEveryInterval
<1>2. QED BY <1>1, PaceAlways, PTL
-----------------------------------------------------------------------------
(***************************************************************************)
(* A behaviour is bounded: the part of RunCompletes that needs no          *)
(* fairness.  The measure counts the exceptions and crashes that may still *)
(* come, and below them the steps to the end from where the run is: a unit *)
(* takes five at most (trained, saved, stopped, continued, called again),  *)
(* since a call that is stopped has trained one unit at least.             *)
(***************************************************************************)
Ahead ==
  CASE pc = "ready" -> (5 * (Len(schedule) - base.next)) + 2
    [] pc = "loop" -> (5 * (Len(schedule) - index)) + 1
    [] pc = "checkpoint" -> (5 * (Len(schedule) - index)) + 5
    [] pc = "boundary" -> (5 * (Len(schedule) - index)) + 4
    [] pc = "stopped" -> (5 * (Len(schedule) - index)) + 3
    [] pc \in {"raised", "down"} -> (5 * Len(schedule)) + 3
    [] pc = "complete" -> 0

\* More than the steps ahead of any state.
Lap == (5 * Len(schedule)) + 6

Remaining == ((MaxFaults - faults) * Lap) + Ahead

Bounded == Ahead \in 0 .. Lap - 1 /\ Lap \in Nat

LEMMA AheadBounds == IInv => Bounded
<1> SUFFICES ASSUME IInv PROVE Ahead \in 0 .. Lap - 1 /\ Lap \in Nat
  BY DEF Bounded
<1>1. /\ Len(schedule) \in Nat /\ index \in 0 .. Len(schedule)
      /\ base.next \in 0 .. Len(schedule)
  BY ConstantTypes DEF IInv, TypeOK, Cursors, RunStates
<1> DEFINE n == Len(schedule)
           i == index
           b == base.next
<1>2. n \in Nat /\ i \in 0 .. n /\ b \in 0 .. n
  BY <1>1
<1>3. /\ pc = "ready" => Ahead = (5 * (n - b)) + 2
      /\ pc = "loop" => Ahead = (5 * (n - i)) + 1
      /\ pc = "checkpoint" => Ahead = (5 * (n - i)) + 5
      /\ pc = "boundary" => Ahead = (5 * (n - i)) + 4
      /\ pc = "stopped" => Ahead = (5 * (n - i)) + 3
      /\ pc \in {"raised", "down"} => Ahead = (5 * n) + 3
      /\ pc = "complete" => Ahead = 0
      /\ Lap = (5 * n) + 6
  BY DEF Ahead, Lap
<1>4. pc \in { "ready", "loop", "checkpoint", "boundary", "stopped",
               "complete", "raised", "down" }
  BY DEF IInv, TypeOK
<1> HIDE DEF n, i, b
<1>. QED
  BY <1>2, <1>3, <1>4

\* A step that is no exception or crash leaves less ahead of the run.
LEMMA AheadFalls ==
  ASSUME IInv, IInv', Progress
  PROVE  Ahead' < Ahead /\ UNCHANGED <<schedule, faults>>
<1>1. /\ Len(schedule) \in Nat /\ index \in 0 .. Len(schedule)
      /\ base.next \in 0 .. Len(schedule)
  BY ConstantTypes DEF IInv, TypeOK, Cursors, RunStates
<1>2. CASE Call
  BY <1>1, <1>2 DEF Call, Ahead, run
<1>3. ASSUME NEW reports \in Reports, StepReturns(reports)
      PROVE  Ahead' < Ahead /\ UNCHANGED <<schedule, faults>>
  <2>1. /\ pc = "loop" /\ index < Len(schedule) /\ index' = index + 1
        /\ pc' \in {"checkpoint", "boundary"} /\ UNCHANGED <<schedule, faults>>
    BY <1>3 DEF StepReturns, run
  <2>. QED
    BY <1>1, <2>1 DEF Ahead
<1>4. CASE WriteEnvelope
  BY <1>1, <1>4 DEF WriteEnvelope, Ahead, run
<1>5. CASE Boundary
  <2>1. /\ pc = "boundary" /\ pc' \in {"stopped", "loop"}
        /\ UNCHANGED <<schedule, index, faults>>
    BY <1>5 DEF Boundary, IInv, HandedOut, run
  <2>. QED
    BY <1>1, <2>1 DEF Ahead
<1>6. CASE Complete
  BY <1>1, <1>6 DEF Complete, Ahead, run
<1>7. CASE Continue
  <2>1. /\ pc = "stopped" /\ pc' = "ready" /\ base'.next = index
        /\ UNCHANGED <<schedule, faults>>
    BY <1>7 DEF Continue, IInv, HandedOut, run
  <2>. QED
    BY <1>1, <2>1 DEF Ahead
<1>8. CASE Restore
  <2>1. /\ pc \in {"raised", "down"} /\ pc' = "ready"
        /\ UNCHANGED <<schedule, faults>>
    BY <1>8 DEF Restore, run
  <2>2. base'.next \in 0 .. Len(schedule)
    BY <2>1, ConstantTypes DEF IInv, TypeOK, Cursors, RunStates
  <2>. QED
    BY <1>1, <2>1, <2>2 DEF Ahead
<1>. QED
  BY <1>2, <1>3, <1>4, <1>5, <1>6, <1>7, <1>8 DEF Progress

LEMMA OneLapLess ==
  ASSUME NEW n \in Nat, NEW lap \in Nat, NEW a \in 0 .. lap - 1, NEW z \in 0 .. lap - 1
  PROVE  /\ (n * lap) + a \in Nat
         /\ (n * lap) + z < ((n + 1) * lap) + a
<1>1. n * lap \in Nat
  OBVIOUS
<1>2. (n + 1) * lap = (n * lap) + lap
  OBVIOUS
<1>. QED
  BY <1>1, <1>2

LEMMA LessOnTop ==
  ASSUME NEW n \in Nat, NEW a \in Nat, NEW z \in Nat, z < a
  PROVE  n + z \in Nat /\ n + z < n + a
OBVIOUS

\* Every step brings the end of the run nearer, through any stops and
\* continuations: what remains is a number and falls with each, so that a run
\* of n units that meets f exceptions and crashes ends within (f + 1) (5n + 6)
\* steps (run_behavior_continuation_v1 and its callers).
THEOREM ContinuationIsBounded ==
  Spec => [][Remaining' \in Nat /\ Remaining' < Remaining]_vars
<1>1. ASSUME IInv, IInv', Bounded, Bounded', Next, vars' # vars
      PROVE  Remaining' \in Nat /\ Remaining' < Remaining
  <2>1. /\ MaxFaults \in Nat /\ faults \in 0 .. MaxFaults
        /\ faults' \in 0 .. MaxFaults
        /\ Ahead \in 0 .. Lap - 1 /\ Lap \in Nat
    BY <1>1, ContinuationAssumption DEF IInv, TypeOK, Bounded
  <2>2. Ahead' \in 0 .. Lap' - 1
    BY <1>1 DEF Bounded
  <2>3. CASE Progress
    <3>1. Ahead' < Ahead /\ faults' = faults /\ Lap' = Lap
      BY <1>1, <2>3, AheadFalls DEF Lap
    <3> DEFINE done == (MaxFaults - faults) * Lap
    <3>2. done \in Nat
      <4>1. MaxFaults - faults \in Nat
        BY <2>1
      <4>. QED
        BY <2>1, <4>1, OneLapLess
    <3>3. Remaining = done + Ahead /\ Remaining' = done + Ahead'
      BY <3>1 DEF Remaining
    <3>4. Ahead \in Nat /\ Ahead' \in Nat
      BY <2>1, <2>2, <3>1
    <3> HIDE DEF done
    <3>. QED
      BY <3>1, <3>2, <3>3, <3>4, LessOnTop
  <2>4. CASE StepRaises \/ SaveRaises \/ Crash
    <3>1. faults' = faults + 1 /\ Lap' = Lap
      BY <2>4 DEF StepRaises, SaveRaises, Crash, Fault, Lap, run
    <3> DEFINE n == MaxFaults - faults'
    <3>2. n \in Nat /\ MaxFaults - faults = n + 1
      BY <2>1, <3>1
    <3>3. Remaining' = (n * Lap) + Ahead' /\ Remaining = ((n + 1) * Lap) + Ahead
      BY <3>1, <3>2 DEF Remaining
    <3> HIDE DEF n
    <3>. QED
      BY <2>1, <2>2, <3>1, <3>2, <3>3, OneLapLess
  <2>. QED
    BY <1>1, <2>3, <2>4 DEF Next, Finished
<1>2. IInv /\ IInv' /\ Bounded /\ Bounded' /\ [Next]_vars =>
        [Remaining' \in Nat /\ Remaining' < Remaining]_vars
  BY <1>1
<1>. QED
  BY <1>2, AheadBounds, Inductive, PTL DEF Spec
=============================================================================
