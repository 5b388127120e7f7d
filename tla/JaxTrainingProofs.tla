-------------------------- MODULE JaxTrainingProofs --------------------------
(***************************************************************************)
(* Proofs about JaxTraining, for every assembly, source, interval and      *)
(* number of faults.                                                       *)
(***************************************************************************)
EXTENDS JaxTraining, SequenceTheorems, TLAPS

\* The key of the i-th step of a lineage.
KeyAt(i) ==
  << assembled.learning.global + i - 1, IF i = 1 THEN assembled.learning.micro ELSE 0 >>

\* The keys of the steps and the micro step count like the other counters.
KeysCount(l) ==
  /\ l.learning.micro = IF Len(l.parameters) = 0 THEN assembled.learning.micro ELSE 0
  /\ \A i \in 1..Len(l.parameters) : l.parameters[i].key = KeyAt(i)

Good(l) == l \in Lifecycles /\ Whole(l) /\ KeysCount(l)

AllGood == \A l \in {lifecycle} \cup stored : Good(l)

\* The loop's two counters of optimizer steps stay as far apart as assembled.
LoopCounts ==
  loop # Absent =>
    loop.envelope + assembled.learning.optimizer = assembled.envelope + loop.learning.optimizer

IInv == TypeOK /\ AllGood /\ LoopCounts /\ LoopFollowsLifecycle /\ FailuresAreTheCallers

\* What assembly makes is good: nothing is trained yet.
LEMMA AssembledGood ==
  ASSUME assembled \in Assemblies
  PROVE  Good(Assembled)
<1>1. assembled \in [learning: Learning, envelope: Nat]
  BY TrainingAssumption
<1>2. Assembled \in Lifecycles
  BY <1>1 DEF Assembled, Lifecycles, Trained
<1>3. Whole(Assembled) /\ KeysCount(Assembled)
  BY <1>1 DEF Assembled, Whole, KeysCount, Learning
<1> QED BY <1>2, <1>3 DEF Good

\* A lifecycle trained on one more batch is good, and accepting it is all of it.
LEMMA ExecutedGood ==
  ASSUME assembled \in Assemblies, NEW l, Good(l), NEW b \in Nat
  PROVE  Good(Executed(l, b)) /\ Accepted(l, Executed(l, b)) = Executed(l, b)
<1> DEFINE step == [batch |-> b, key |-> Key(l.learning)]
           e == Executed(l, b)
           n == Len(l.parameters)
<1>1. assembled \in [learning: Learning, envelope: Nat]
  BY TrainingAssumption
<1>2. l \in Lifecycles /\ l.learning \in Learning /\ l.parameters \in Trained /\ n \in Nat
  BY DEF Good, Lifecycles, Trained
<1>3. step \in [batch: Nat, key: Keys]
  BY <1>2 DEF Key, Keys, Learning
<1>4. /\ Append(l.parameters, step) \in Trained
      /\ Len(Append(l.parameters, step)) = n + 1
      /\ \A i \in 1..n : Append(l.parameters, step)[i] = l.parameters[i]
      /\ Append(l.parameters, step)[n + 1] = step
  BY <1>2, <1>3, AppendProperties DEF Trained
<1>5. l.carry = l.parameters /\ l.arrays = l.parameters
  BY DEF Good, Whole
<1>6. e \in Lifecycles
  BY <1>2, <1>4, <1>5 DEF Executed, Lifecycles, Learning
<1>7. Whole(e)
  <2>1. /\ e.parameters = Append(l.parameters, step)
        /\ e.carry = Append(l.carry, step)
        /\ e.arrays = Append(l.arrays, step)
    BY DEF Executed
  <2>2. /\ e.learning.global = l.learning.global + 1
        /\ e.learning.optimizer = l.learning.optimizer + 1
        /\ e.envelope = l.envelope + 1
    BY DEF Executed
  <2>3. /\ l.learning.global = assembled.learning.global + n
        /\ l.learning.optimizer = assembled.learning.optimizer + n
        /\ l.envelope = assembled.envelope + n
    BY DEF Good, Whole
  <2>4. /\ assembled.learning.global \in Nat
        /\ assembled.learning.optimizer \in Nat
        /\ assembled.envelope \in Nat
    BY <1>1 DEF Learning
  <2>5. Len(e.parameters) = n + 1
    BY <1>4, <2>1
  <2> HIDE DEF e, n
  <2>6. /\ n \in Nat
        /\ l.learning.global \in Nat /\ l.learning.optimizer \in Nat /\ l.envelope \in Nat
    BY <1>2 DEF Lifecycles, Learning
  <2>7. e.learning.global = assembled.learning.global + (n + 1)
    BY <2>2, <2>3, <2>4, <2>6
  <2>8. e.learning.optimizer = assembled.learning.optimizer + (n + 1)
    BY <2>2, <2>3, <2>4, <2>6
  <2>9. e.envelope = assembled.envelope + (n + 1)
    BY <2>2, <2>3, <2>4, <2>6
  <2> QED BY <1>5, <2>1, <2>5, <2>7, <2>8, <2>9 DEF Whole
<1>8. KeysCount(e)
  <2>1. e.learning.micro = 0 /\ e.parameters = Append(l.parameters, step)
    BY DEF Executed
  <2>2. step.key = KeyAt(n + 1)
    BY <1>1, <1>2 DEF Key, KeyAt, Good, Whole, KeysCount, Learning
  <2>3. \A i \in 1..(n + 1) : Append(l.parameters, step)[i].key = KeyAt(i)
    BY <1>2, <1>4, <2>2 DEF Good, KeysCount
  <2> QED BY <1>2, <1>4, <2>1, <2>3 DEF KeysCount
<1>9. Accepted(l, e) = e
  BY <1>2, <1>6 DEF Accepted, Executed, Lifecycles
<1> QED BY <1>6, <1>7, <1>8, <1>9 DEF Good

\* What a checkpoint restores is what was saved.
LEMMA RestoredIsSaved ==
  ASSUME NEW l \in Lifecycles, NEW c \in Lifecycles
  PROVE  WithCheckpoint(l, c) = c
  BY DEF WithCheckpoint, Lifecycles

\* A good lifecycle's optimizer counters are as far apart as assembled.
LEMMA GoodCounts ==
  ASSUME assembled \in Assemblies, NEW l, Good(l)
  PROVE  /\ Reported(l) \in [learning: Learning, envelope: Nat]
         /\ Reported(l) # Absent
         /\ l.envelope + assembled.learning.optimizer
              = assembled.envelope + l.learning.optimizer
         /\ ~Savable(l) => assembled.learning.optimizer # assembled.envelope
<1>1. assembled \in [learning: Learning, envelope: Nat]
  BY TrainingAssumption
<1>2. Reported(l) \in [learning: Learning, envelope: Nat]
  BY DEF Good, Lifecycles, Reported
<1>3. Reported(l) # Absent
  BY <1>2, TrainingAssumption
<1>4. Len(l.parameters) \in Nat
  BY DEF Good, Lifecycles, Trained
<1> QED BY <1>1, <1>2, <1>3, <1>4 DEF Good, Whole, Savable, Learning

\* Where the executor trains, the loop has its states, and accepts the step.
LEMMA StepIsValid ==
  ASSUME IInv, loop # Absent, Matches, NEW b \in Nat
  PROVE  Valid(Executed(lifecycle, b)) /\ loop = Reported(lifecycle)
<1>1. assembled \in [learning: Learning, envelope: Nat]
  BY TrainingAssumption DEF IInv, TypeOK
<1>2. Good(lifecycle) /\ loop \in [learning: Learning, envelope: Nat]
  BY DEF IInv, AllGood, TypeOK
<1>3. lifecycle.learning \in Learning /\ lifecycle.envelope \in Nat
  BY <1>2 DEF Good, Lifecycles
<1>4. loop.learning = lifecycle.learning /\ loop.envelope = lifecycle.envelope
  <2>1. loop.envelope + assembled.learning.optimizer
          = assembled.envelope + lifecycle.learning.optimizer
    BY DEF IInv, LoopCounts, Matches
  <2>2. lifecycle.envelope + assembled.learning.optimizer
          = assembled.envelope + lifecycle.learning.optimizer
    BY <1>2, GoodCounts DEF IInv, TypeOK
  <2> QED BY <1>1, <1>2, <1>3, <2>1, <2>2 DEF Matches, Learning
<1> QED BY <1>2, <1>3, <1>4 DEF Valid, Executed, Reported

\* The executor starts with an assembled lifecycle.
LEMMA InitIInv == Init => IInv
<1> SUFFICES ASSUME Init PROVE IInv
  OBVIOUS
<1>1. lifecycle = Assembled /\ stored = {} /\ assembled \in Assemblies
  BY DEF Init
<1>2. Good(lifecycle)
  BY <1>1, AssembledGood
<1>3. AllGood
  BY <1>1, <1>2 DEF AllGood
<1>4. TypeOK
  <2>1. /\ 0 \in 0..MaxSteps /\ 0 \in 0..Batches /\ 0 \in 0..MaxFaults
        /\ lifecycle \in Lifecycles
    BY <1>2, TrainingAssumption DEF Good
  <2>2. (loop = Absent) = (pc = "away")
    BY DEF Init
  <2> QED BY <1>1, <2>1, <2>2 DEF Init, TypeOK, Outcomes
<1>5. LoopCounts /\ LoopFollowsLifecycle /\ FailuresAreTheCallers
  BY DEF Init, LoopCounts, LoopFollowsLifecycle, FailuresAreTheCallers
<1> QED BY <1>3, <1>4, <1>5 DEF IInv

\* What is good stays good while the assembly is the same.
LEMMA GoodStays ==
  ASSUME UNCHANGED assembled,
         AllGood,
         \A l \in {lifecycle'} \cup stored' : Good(l)
  PROVE  AllGood'
  BY DEF AllGood, Good, Whole, KeysCount, KeyAt

\* A step keeps loop and lifecycle together and both good.
LEMMA StepKeeps ==
  ASSUME IInv, Step
  PROVE  /\ IInv'
         /\ loop = Reported(lifecycle)
         /\ loop' = Reported(lifecycle') /\ steps' = steps + 1
<1> DEFINE e == Executed(lifecycle, position)
<1>1. loop # Absent /\ position \in Nat /\ assembled \in Assemblies /\ Good(lifecycle)
  BY TrainingAssumption DEF IInv, TypeOK, AllGood, Step, Draws
<1>2. Good(e) /\ Accepted(lifecycle, e) = e
  BY <1>1, ExecutedGood
<1>3. Valid(e) /\ loop = Reported(lifecycle)
  BY <1>1, StepIsValid DEF Step
<1>4. /\ lifecycle' = e /\ loop' = Reported(e) /\ steps' = steps + 1
      /\ position' = position + 1 /\ position < Batches /\ steps < MaxSteps
      /\ pc = "next" /\ pc' \in {"checkpoint", "next"}
      /\ UNCHANGED <<assembled, outcome, stored, swapped, faults>>
  BY <1>2, <1>3 DEF Step, Draws
<1>5. AllGood'
  <2>1. \A l \in {lifecycle'} \cup stored' : Good(l)
    BY <1>2, <1>4 DEF IInv, AllGood
  <2> QED BY <1>4, <2>1, GoodStays DEF IInv
<1>6. Reported(e) \in [learning: Learning, envelope: Nat] /\ Reported(e) # Absent
      /\ e.envelope + assembled.learning.optimizer
           = assembled.envelope + e.learning.optimizer
  BY <1>1, <1>2, GoodCounts
<1>7. TypeOK'
  <2>1. e \in Lifecycles
    BY <1>2 DEF Good
  <2>2. position' \in 0..Batches /\ steps' \in 0..MaxSteps
    BY <1>4, TrainingAssumption DEF IInv, TypeOK
  <2> QED BY <1>4, <1>6, <2>1, <2>2 DEF IInv, TypeOK
<1>8. LoopCounts' /\ LoopFollowsLifecycle'
  BY <1>4, <1>6 DEF LoopCounts, LoopFollowsLifecycle, Reported
<1>9. FailuresAreTheCallers'
  BY <1>4 DEF IInv, FailuresAreTheCallers
<1> QED BY <1>3, <1>4, <1>5, <1>7, <1>8, <1>9 DEF IInv

\* One step per action; those that only end a run are taken together.
LEMMA KeepsIInv == IInv /\ [Next]_vars => IInv'
<1> SUFFICES ASSUME IInv, [Next]_vars PROVE IInv'
  OBVIOUS
<1> USE DEF IInv
<1>1. CASE Step
  BY <1>1, StepKeeps
<1>2. CASE StartLoop
  <2>1. /\ loop' = Reported(lifecycle) /\ steps' = 0 /\ pc' = "next" /\ swapped' = FALSE
        /\ UNCHANGED <<lifecycle, outcome, assembled, position, stored, faults>>
    BY <1>2 DEF StartLoop, caller
  <2>2. Reported(lifecycle) \in [learning: Learning, envelope: Nat]
        /\ Reported(lifecycle) # Absent
        /\ lifecycle.envelope + assembled.learning.optimizer
             = assembled.envelope + lifecycle.learning.optimizer
    BY GoodCounts DEF AllGood, TypeOK
  <2>3. AllGood'
    BY <2>1, GoodStays DEF AllGood
  <2>4. TypeOK'
    <3>1. 0 \in 0..MaxSteps /\ loop' # Absent /\ pc' # "away"
      BY <2>1, <2>2, TrainingAssumption
    <3>2. (loop' = Absent) = (pc' = "away")
      BY <3>1
    <3> QED BY <2>1, <2>2, <3>1, <3>2 DEF TypeOK
  <2>5. LoopCounts' /\ LoopFollowsLifecycle'
    BY <2>1, <2>2 DEF LoopCounts, LoopFollowsLifecycle, Reported
  <2>6. FailuresAreTheCallers'
    BY <2>1 DEF FailuresAreTheCallers
  <2> QED BY <2>3, <2>4, <2>5, <2>6
<1>3. CASE StepMismatch \/ StepFails \/ HookStops \/ LoopEnds
           \/ CheckpointRefused \/ CheckpointFails
  <2>1. /\ pc \in {"next", "checkpoint"} /\ pc' = "returned"
        /\ UNCHANGED <<lifecycle, loop, steps, assembled, stored, swapped>>
    BY <1>3 DEF StepMismatch, StepFails, HookStops, LoopEnds, CheckpointRefused,
                CheckpointFails, Draws, Returns, Fault, caller
  <2>2. /\ position' \in 0..Batches /\ faults' \in 0..MaxFaults
        /\ outcome' \in Outcomes \ {"rejected"}
    BY <1>3, TrainingAssumption
       DEF StepMismatch, StepFails, HookStops, LoopEnds, CheckpointRefused,
           CheckpointFails, Draws, Returns, Fault, caller, TypeOK, Outcomes
  <2>3. AllGood'
    BY <2>1, GoodStays DEF AllGood
  <2>4. TypeOK'
    BY <2>1, <2>2 DEF TypeOK
  <2>5. LoopCounts' /\ LoopFollowsLifecycle'
    BY <2>1 DEF LoopCounts, LoopFollowsLifecycle
  <2>6. outcome' = "mismatch" => swapped'
    <3>1. outcome' = "mismatch" => StepMismatch
      BY <1>3 DEF StepFails, HookStops, LoopEnds, CheckpointRefused, CheckpointFails,
                  Returns
    <3>2. StepMismatch => loop # Absent /\ ~Matches
      BY DEF StepMismatch, Draws, TypeOK
    <3>3. loop # Absent /\ ~Matches => swapped
      BY DEF LoopFollowsLifecycle, Matches, Reported
    <3> QED BY <2>1, <3>1, <3>2, <3>3 DEF TypeOK
  <2>7. outcome' = "unsavable" => assembled'.learning.optimizer # assembled'.envelope
    <3>1. outcome' = "unsavable" => CheckpointRefused
      BY <1>3 DEF StepMismatch, StepFails, HookStops, LoopEnds, CheckpointFails, Returns
    <3>2. CheckpointRefused => assembled.learning.optimizer # assembled.envelope
      BY GoodCounts DEF CheckpointRefused, AllGood, TypeOK
    <3> QED BY <2>1, <3>1, <3>2
  <2> QED BY <2>2, <2>3, <2>4, <2>5, <2>6, <2>7 DEF FailuresAreTheCallers
<1>4. CASE CheckpointWritten
  <2>1. /\ pc = "checkpoint" /\ pc' = "next" /\ stored' = stored \cup {lifecycle}
        /\ UNCHANGED <<loop, steps, outcome, assembled, position>>
        /\ faults' \in 0..MaxFaults
    BY <1>4, TrainingAssumption DEF CheckpointWritten, Fault, TypeOK
  <2>2. lifecycle' \in stored'
    <3>1. CASE UNCHANGED lifecycle
      BY <2>1, <3>1
    <3>2. CASE \E c \in stored' : lifecycle' = WithCheckpoint(lifecycle, c)
      <4>1. \A c \in stored' : c \in Lifecycles
        BY <2>1 DEF TypeOK
      <4> QED BY <3>2, <4>1, RestoredIsSaved DEF TypeOK
    <3> QED BY <1>4, <3>1, <3>2 DEF CheckpointWritten
  <2>3. \A l \in {lifecycle'} \cup stored' : Good(l)
    BY <2>1, <2>2 DEF AllGood
  <2>4. AllGood'
    BY <2>1, <2>3, GoodStays
  <2>5. swapped' \in BOOLEAN /\ (~swapped' => ~swapped /\ UNCHANGED lifecycle)
    BY <1>4 DEF CheckpointWritten, TypeOK
  <2>6. TypeOK'
    BY <2>1, <2>2, <2>3, <2>5 DEF TypeOK, Good
  <2>7. LoopCounts' /\ LoopFollowsLifecycle'
    BY <2>1, <2>5 DEF LoopCounts, LoopFollowsLifecycle
  <2>8. FailuresAreTheCallers'
    BY <2>1 DEF FailuresAreTheCallers
  <2> QED BY <2>4, <2>6, <2>7, <2>8
<1>5. CASE TakeResult
  <2>1. /\ loop' = Absent /\ pc' = "away"
        /\ UNCHANGED <<lifecycle, steps, outcome, swapped, assembled, position, stored, faults>>
    BY <1>5 DEF TakeResult, caller
  <2>2. AllGood'
    BY <2>1, GoodStays DEF AllGood
  <2> QED BY <2>1, <2>2 DEF TypeOK, LoopCounts, LoopFollowsLifecycle, FailuresAreTheCallers
<1>6. CASE \E c \in stored, p \in 0..Batches : Restore(c, p)
  <2>1. PICK c \in stored, p \in 0..Batches : Restore(c, p)
    BY <1>6
  <2>2. lifecycle' = c
    BY <2>1, RestoredIsSaved DEF Restore, TypeOK
  <2>3. /\ position' = p /\ faults' \in 0..MaxFaults /\ pc = "away"
        /\ UNCHANGED <<loop, steps, pc, outcome, swapped, assembled, stored>>
    BY <2>1, TrainingAssumption DEF Restore, running, Fault, TypeOK
  <2>4. AllGood'
    BY <2>2, <2>3, GoodStays DEF AllGood
  <2> QED BY <2>1, <2>2, <2>3, <2>4
          DEF TypeOK, LoopCounts, LoopFollowsLifecycle, FailuresAreTheCallers
<1>7. CASE Crash
  <2>1. /\ lifecycle' = Assembled /\ loop' = Absent /\ steps' = 0 /\ position' = 0
        /\ pc' = "away" /\ outcome' = "none" /\ swapped' = FALSE
        /\ faults' \in 0..MaxFaults
        /\ UNCHANGED <<assembled, stored>>
    BY <1>7, TrainingAssumption DEF Crash, Fault, TypeOK
  <2>2. Good(Assembled)
    BY AssembledGood DEF TypeOK
  <2>3. AllGood'
    BY <2>1, <2>2, GoodStays DEF AllGood
  <2>4. TypeOK'
    <3>1. 0 \in 0..MaxSteps /\ 0 \in 0..Batches /\ Assembled \in Lifecycles
      BY <2>2, TrainingAssumption DEF Good
    <3>2. (loop' = Absent) = (pc' = "away")
      BY <2>1
    <3> QED BY <2>1, <3>1, <3>2 DEF TypeOK, Outcomes
  <2> QED BY <2>1, <2>3, <2>4 DEF LoopCounts, LoopFollowsLifecycle, FailuresAreTheCallers
<1>8. CASE UNCHANGED vars
  <2>1. UNCHANGED <<assembled, lifecycle, loop, steps, position, pc, outcome, stored,
                    swapped, faults>>
    BY <1>8 DEF vars
  <2>2. AllGood'
    BY <2>1, GoodStays DEF AllGood
  <2> QED BY <2>1, <2>2 DEF TypeOK, LoopCounts, LoopFollowsLifecycle, FailuresAreTheCallers
<1> QED BY <1>1, <1>2, <1>3, <1>4, <1>5, <1>6, <1>7, <1>8 DEF Next

\* The invariant holds in every reachable state.
LEMMA Invariance == Spec => []IInv
  BY InitIInv, KeepsIInv, PTL DEF Spec

\* Every reachable state is well typed.
THEOREM TypeCorrect == Spec => []TypeOK
  BY Invariance, PTL DEF IInv

\* Parameters, carry, arrays and counters are of the same steps, in the live
\* lifecycle and in every checkpoint.
THEOREM AlwaysWhole == Spec => []WholeLifecycle
<1>1. IInv => WholeLifecycle
  BY DEF IInv, AllGood, Good, WholeLifecycle
<1> QED BY <1>1, Invariance, PTL

\* The loop and the executor never part, unless the callback parts them.
THEOREM ExecutorNeverAhead == Spec => []LoopFollowsLifecycle
  BY Invariance, PTL DEF IInv

\* A run that fails does so for its caller's reasons.
THEOREM OnlyCallersFail == Spec => []FailuresAreTheCallers
  BY Invariance, PTL DEF IInv

\* No key serves two steps of a lineage.
THEOREM KeysStayFresh == Spec => []KeysAreFresh
<1>1. IInv => KeysAreFresh
  <2> SUFFICES ASSUME IInv, NEW i \in DOMAIN lifecycle.parameters,
                      NEW j \in DOMAIN lifecycle.parameters,
                      lifecycle.parameters[i].key = lifecycle.parameters[j].key
               PROVE  i = j
    BY DEF KeysAreFresh
  <2>1. lifecycle.parameters \in Trained /\ KeysCount(lifecycle)
    BY DEF IInv, AllGood, Good, Lifecycles
  <2>2. i \in 1..Len(lifecycle.parameters) /\ j \in 1..Len(lifecycle.parameters)
    BY <2>1 DEF Trained
  <2>3. KeyAt(i) = KeyAt(j)
    BY <2>1, <2>2 DEF KeysCount
  <2>4. assembled.learning.global \in Nat
    BY TrainingAssumption DEF IInv, TypeOK, Learning
  <2>5. i \in Nat /\ j \in Nat
    BY <2>1, <2>2 DEF Trained
  <2>6. assembled.learning.global + i - 1 = assembled.learning.global + j - 1
    BY <2>3 DEF KeyAt
  <2> QED BY <2>4, <2>5, <2>6
<1> QED BY <1>1, Invariance, PTL

\* Two lifecycles trained on the same batches are the same, keys included.
LEMMA SameBatchesSameLifecycle ==
  ASSUME assembled \in Assemblies, NEW l, NEW m, Good(l), Good(m),
         BatchesOf(l) = BatchesOf(m)
  PROVE  l = m
<1> DEFINE p == l.parameters
           q == m.parameters
<1>1. /\ p \in Trained /\ q \in Trained
      /\ l \in Lifecycles /\ m \in Lifecycles
  BY DEF Good, Lifecycles
<1>2. DOMAIN p = DOMAIN q
  BY DEF BatchesOf
<1>3. Len(p) = Len(q) /\ Len(p) \in Nat /\ DOMAIN p = 1..Len(p) /\ DOMAIN q = 1..Len(q)
  BY <1>1, <1>2 DEF Trained
<1>4. ASSUME NEW i \in DOMAIN p
      PROVE  p[i] = q[i]
  <2>1. p[i] \in [batch: Nat, key: Keys] /\ q[i] \in [batch: Nat, key: Keys]
    <3> DEFINE R == [batch: Nat, key: Keys]
    <3>1. p \in Seq(R) /\ q \in Seq(R) /\ i \in 1..Len(p) /\ i \in 1..Len(q)
      BY <1>1, <1>3, <1>4 DEF Trained
    <3> HIDE DEF R, p, q
    <3>2. p[i] \in R /\ q[i] \in R
      BY <3>1
    <3> QED BY <3>2 DEF R
  <2>2. p[i].batch = q[i].batch
    <3>1. BatchesOf(l)[i] = p[i].batch /\ BatchesOf(m)[i] = q[i].batch
      BY <1>2, <1>4 DEF BatchesOf
    <3> QED BY <3>1
  <2>3. p[i].key = q[i].key
    BY <1>3, <1>4 DEF Good, KeysCount
  <2> QED BY <2>1, <2>2, <2>3
<1>5. p = q
  BY <1>1, <1>3, <1>4, SeqEqual DEF Trained
<1>6. l.carry = m.carry /\ l.arrays = m.arrays /\ l.envelope = m.envelope
  BY <1>5 DEF Good, Whole
<1>7. /\ l.learning.global = m.learning.global /\ l.learning.micro = m.learning.micro
      /\ l.learning.optimizer = m.learning.optimizer
  BY <1>5 DEF Good, Whole, KeysCount
<1>8. l.learning = m.learning
  BY <1>1, <1>7 DEF Lifecycles, Learning
<1> QED BY <1>1, <1>5, <1>6, <1>8 DEF Lifecycles

\* What was trained on the same batches is the same, whatever was restored.
THEOREM ReplayStaysExact == Spec => []ReplayIsExact
<1>1. IInv => ReplayIsExact
  BY SameBatchesSameLifecycle DEF IInv, TypeOK, AllGood, ReplayIsExact
<1> QED BY <1>1, Invariance, PTL

\* What an executor trains, the loop counts.
THEOREM AlwaysTrainsInLockStep == Spec => TrainsInLockStep
<1> DEFINE A == pc = "next" /\ pc' # "away" /\ lifecycle' # lifecycle =>
                  /\ loop.learning = lifecycle.learning
                  /\ loop' = Reported(lifecycle')
                  /\ steps' = steps + 1
<1>1. IInv /\ [Next]_vars => [A]_vars
  <2> SUFFICES ASSUME IInv, Next, pc = "next", pc' # "away", lifecycle' # lifecycle
               PROVE  /\ loop.learning = lifecycle.learning
                      /\ loop' = Reported(lifecycle')
                      /\ steps' = steps + 1
    OBVIOUS
  <2>1. Step
    BY DEF Next, StartLoop, StepMismatch, StepFails, HookStops, LoopEnds,
           CheckpointWritten, CheckpointRefused, CheckpointFails, TakeResult,
           Restore, Crash
  <2> QED BY <2>1, StepKeeps DEF Reported
<1> QED BY <1>1, Invariance, PTL DEF Spec, TrainsInLockStep
=============================================================================
