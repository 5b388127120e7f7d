--------------------------- MODULE BehaviorLineage ---------------------------
(***************************************************************************)
(* The two behaviour passes and the evaluation that follows them: the      *)
(* corridor pass (behavior/corridor_pass.py), the exemplar pass that       *)
(* continues one of its checkpoints (exemplar_pass.py), and the held-out   *)
(* evaluation of a final checkpoint (evaluation.py).                       *)
(*                                                                         *)
(* The caller holds the projections of several sources and everything the  *)
(* calls returned, and combines them as it likes: it may train a second    *)
(* epoch, start a cursor anywhere, give a pass the batch or the binding of *)
(* another source, or hand the evaluation altered batches.  A call that    *)
(* raises one of the passes' own errors returns nothing and changes        *)
(* nothing, so only the calls that get through are steps.                  *)
(*                                                                         *)
(* Parameters and optimizer state are the sequence of the units they were  *)
(* trained on.  A unit names what was in the tensors of its batch.  The    *)
(* identity of a checkpoint is the checkpoint.  The identities of a split  *)
(* and of a materialization digest that of their source, which they are a  *)
(* function of: the source's name stands for all three.                    *)
(***************************************************************************)
EXTENDS BehaviorBatches

CONSTANTS
    Names,         \* the sources the caller knows, by identity
    SourceSpace,   \* what a source may hold
    Cursors,       \* where a caller starts the cursor of a pass
    MaxUnits,      \* bound on the passes behind one set of parameters
    MaxCorridors,  \* bound on the corridor results held
    MaxFinals,     \* bound on the final checkpoints held
    MaxReports     \* bound on the reports held

ASSUME LineageAssumption ==
    /\ Cursors \subseteq Nat
    /\ {MaxUnits, MaxCorridors, MaxFinals, MaxReports} \subseteq Nat
    /\ \A s \in SourceSpace :
          /\ s.registry \in Seq(Nat)
          /\ IsFiniteSet(DOMAIN s.assigned)
          /\ IsFiniteSet(s.passports)

VARIABLES
    sources,     \* name -> the source's projection
    sealed,      \* name -> the materialization of the source
    corridors,   \* the results of the corridor passes
    finals,      \* the final checkpoints of the exemplar passes
    reports,     \* the reports of the evaluations
    indexErrors  \* the sources whose corridor pass died of an IndexError

vars == <<sources, sealed, corridors, finals, reports, indexErrors>>
heldVars == <<sources, sealed>>

\* The sources that have a materialization.
Materialized == {n \in Names : sealed[n] # Refused}

-----------------------------------------------------------------------------
(* The corridor pass.                                                      *)

CorridorBinding(n) == [source |-> n, split |-> n]

\* Parameters a caller can start a corridor pass from: fresh ones, or those
\* of a checkpoint it holds.
Held ==
    {<< >>} \cup {r.checkpoint.params : r \in corridors}
            \cup {f.params : f \in finals}

\* Variant: any training batch will do, not only the sealed one.
SealedTrainingBatchAny(n, partition, m) == partition = Training

\* The batch is a training batch, and the very object the materialization m
\* keeps as its training corridor.
SealedTrainingBatch(n, partition, m) ==
    /\ partition = Training
    /\ n = m

\* The checks of the pass before any training: batch n of the given
\* partition, materialization m, projection p, binding of the source b.
CorridorAdmitted(n, partition, m, p, b) ==
    /\ {n, m} \subseteq Materialized
    /\ SealedTrainingBatch(n, partition, m)
    /\ CorridorBinding(b) = [source |-> m, split |-> m]
    /\ p = m
    /\ sources[p].passports =
          UNION {sealed[m].exemplars[q].passports : q \in Partitions}

\* The pass names the coordinates it trains by the rows of the registry, in
\* the tuple of ids of its own partition.
NamesExist(batch) == Rows(batch) \subseteq DOMAIN batch.ids

PassNames(batch) ==
    {<<batch.ids[batch.entries[i].row], batch.entries[i].point>> :
        i \in DOMAIN batch.entries}

CorridorResult(batch, m, b, params, cursor) ==
    [checkpoint |->
        [source          |-> CorridorBinding(b).source,
         split           |-> CorridorBinding(b).split,
         materialization |-> m,
         registry        |-> sources[m].passports,
         params          |-> Append(params, [pass  |-> "corridor",
                                             items |-> DOMAIN Coordinates(batch)]),
         cursor          |-> cursor + Size(batch)],
     coordinates |-> PassNames(batch)]

RunCorridorPass(n, partition, m, p, b, params, cursor) ==
    /\ CorridorAdmitted(n, partition, m, p, b)
    /\ Len(params) < MaxUnits
    /\ LET batch == sealed[n].corridor[partition]
       IN /\ NamesExist(batch)
          /\ corridors' = corridors
                \cup {CorridorResult(batch, m, b, params, cursor)}
    /\ Cardinality(corridors') <= MaxCorridors
    /\ UNCHANGED <<heldVars, finals, reports, indexErrors>>

\* The look-up of a row beyond the ids of the partition raises an IndexError
\* that nothing catches.
CorridorPassDies(n, partition, m, p, b) ==
    /\ CorridorAdmitted(n, partition, m, p, b)
    /\ ~NamesExist(sealed[n].corridor[partition])
    /\ indexErrors' = indexErrors \cup {m}
    /\ UNCHANGED <<heldVars, corridors, finals, reports>>

-----------------------------------------------------------------------------
(* The exemplar pass.                                                      *)

\* A binding made from the corridor checkpoint c, its predecessor replaced
\* by the checkpoint d.
ExemplarBinding(d, c) ==
    [predecessor     |-> d,
     source          |-> c.source,
     split           |-> c.split,
     materialization |-> c.materialization,
     registry        |-> c.registry]

\* Variant: the binding need only agree with the authority of the
\* predecessor, not name it.
ContinuesAuthority(binding, predecessor) ==
    /\ binding.source = predecessor.source
    /\ binding.split = predecessor.split
    /\ binding.materialization = predecessor.materialization
    /\ binding.registry = predecessor.registry

\* The binding names this predecessor, and continues its authority.
Continues(binding, predecessor) ==
    /\ binding.predecessor = predecessor
    /\ binding.source = predecessor.source
    /\ binding.split = predecessor.split
    /\ binding.materialization = predecessor.materialization
    /\ binding.registry = predecessor.registry

ExemplarCheckpoint(binding, predecessor, batch, cursor) ==
    [binding |-> binding,
     params  |-> Append(predecessor.params,
                        [pass |-> "exemplar", items |-> batch.passports]),
     cursor  |-> cursor + Cardinality(batch.passports)]

\* The batch is of the training partition of the source n, whichever that is.
RunExemplarPass(predecessor, binding, n, partition, cursor) ==
    /\ n \in Materialized
    /\ partition = Training
    /\ Continues(binding, predecessor)
    /\ Len(predecessor.params) < MaxUnits
    /\ finals' = finals \cup
          {ExemplarCheckpoint(binding, predecessor,
                              sealed[n].exemplars[partition], cursor)}
    /\ Cardinality(finals') <= MaxFinals
    /\ UNCHANGED <<heldVars, corridors, reports, indexErrors>>

-----------------------------------------------------------------------------
(* The held-out evaluation.                                                *)

\* What binds an evaluation to the final checkpoint f and the materialization
\* of the source e.
Bindable(f, e) ==
    /\ e \in Materialized
    /\ e = f.binding.materialization
    /\ NoneTwice(Coordinates(sealed[e].corridor[HeldOut]))

EvaluationBinding(f, e) ==
    [final     |-> f,
     continued |-> f.binding,
     corridor  |-> Coordinates(sealed[e].corridor[HeldOut]),
     exemplars |-> sealed[e].exemplars[HeldOut].passports]

ContinuesLineage(corridor, final, binding) ==
    /\ binding.final = final
    /\ binding.continued.predecessor = corridor
    /\ final.binding.predecessor = corridor
    /\ final.binding.registry = corridor.registry
    /\ binding.continued = final.binding

ExpectedBatches(x, binding) ==
    /\ x \in Materialized
    /\ x = binding.continued.materialization
    /\ x = binding.continued.split
    /\ x = binding.continued.source
    /\ Coordinates(sealed[x].corridor[HeldOut]) = binding.corridor
    /\ sealed[x].exemplars[HeldOut].passports = binding.exemplars

\* What a caller can hand over for a corridor batch: a sealed one, or a copy
\* of it that lacks an assignment or has one twice.
CorridorBatches == {sealed[n].corridor[q] : n \in Materialized, q \in Partitions}

CorridorCopies(batch) ==
    LET kept == DOMAIN batch.entries
    IN {batch} \cup UNION
         {{[batch EXCEPT !.entries = [j \in kept \ {i} |-> @[j]]],
           [batch EXCEPT !.entries = @ @@ (Greatest(kept) + 1 :> @[i])]} :
               i \in kept}

\* ... and for an exemplar batch: a sealed one, or a copy that lacks a passport.
ExemplarBatches == {sealed[n].exemplars[q] : n \in Materialized, q \in Partitions}

ExemplarCopies(batch) ==
    {batch} \cup {[batch EXCEPT !.passports = @ \ {key}] :
                      key \in batch.passports}

\* The training batches shown to the evaluation are at the ends of the
\* cursors.
CursorsComplete(trainC, trainE, corridor, final) ==
    /\ {trainC.partition, trainE.partition} = {Training}
    /\ Complete(trainC)
    /\ corridor.cursor = Size(trainC)
    /\ final.cursor = Cardinality(trainE.passports)

\* They share no example with the held-out ones.
PartitionsApart(trainC, trainE, heldC, heldE) ==
    LET heldIds == BatchIds(heldC) \cup PassportIds(heldE)
    IN /\ {heldC.partition, heldE.partition} = {HeldOut}
       /\ heldIds # {}
       /\ heldIds \cap (BatchIds(trainC) \cup PassportIds(trainE)) = {}

\* The held-out batches are all the evidence the binding expects.
WholeCorridor(heldC, binding) ==
    /\ Complete(heldC)
    /\ NoneTwice(Coordinates(heldC))
    /\ Coordinates(heldC) = binding.corridor

WholeExemplars(heldE, binding) == heldE.passports = binding.exemplars

Report(final, binding, heldC, heldE) ==
    [binding     |-> binding,
     coordinates |-> DOMAIN Coordinates(heldC),
     passports   |-> heldE.passports,
     ran         |-> final.params]

\* The evaluation, in the order of its checks.  (It compares the partitions
\* of all the batches before the evidence; a refusal is a refusal.)
Evaluate(corridor, final, binding, x) ==
    /\ Cardinality(reports) < MaxReports
    /\ ContinuesLineage(corridor, final, binding)
    /\ ExpectedBatches(x, binding)
    /\ \E trainC \in CorridorBatches, trainE \in ExemplarBatches :
          /\ CursorsComplete(trainC, trainE, corridor, final)
          /\ \E heldC \in UNION {CorridorCopies(h) : h \in CorridorBatches} :
                /\ WholeCorridor(heldC, binding)
                /\ \E heldE \in UNION {ExemplarCopies(h) : h \in ExemplarBatches} :
                      /\ PartitionsApart(trainC, trainE, heldC, heldE)
                      /\ WholeExemplars(heldE, binding)
                      /\ reports' = reports
                            \cup {Report(final, binding, heldC, heldE)}
    /\ UNCHANGED <<heldVars, corridors, finals, indexErrors>>

-----------------------------------------------------------------------------

Init ==
    /\ sources \in [Names -> SourceSpace]
    /\ sealed = [n \in Names |-> Materialize(sources[n])]
    /\ corridors = {}
    /\ finals = {}
    /\ reports = {}
    /\ indexErrors = {}

CallCorridorPass ==
    \E n, m, p, b \in Names, partition \in Partitions :
        \E params \in Held, cursor \in Cursors :
            RunCorridorPass(n, partition, m, p, b, params, cursor)

CallCorridorPassThatDies ==
    \E n, m, p, b \in Names, partition \in Partitions :
        CorridorPassDies(n, partition, m, p, b)

CallExemplarPass ==
    \E c, d, e \in corridors, n \in Names, partition \in Partitions :
        \E cursor \in Cursors :
            RunExemplarPass(c.checkpoint,
                            ExemplarBinding(d.checkpoint, e.checkpoint),
                            n, partition, cursor)

\* The caller makes a binding from a final checkpoint and a materialization
\* it holds, and evaluates with it.
CallEvaluation ==
    \E c \in corridors, f, g \in finals, e, x \in Names :
        /\ Bindable(g, e)
        /\ Evaluate(c.checkpoint, f, EvaluationBinding(g, e), x)

Next ==
    \/ CallCorridorPass
    \/ CallCorridorPassThatDies
    \/ CallExemplarPass
    \/ CallEvaluation

Spec == Init /\ [][Next]_vars

-----------------------------------------------------------------------------
(* Properties.                                                             *)

\* What a unit can have trained on.
Units ==
    [pass  : {"corridor", "exemplar"},
     items : {DOMAIN Coordinates(h) : h \in CorridorBatches}
             \cup {h.passports : h \in ExemplarBatches}]

\* What the state holds: a corridor result ends with a corridor unit, a final
\* checkpoint with an exemplar unit, its predecessor is held too, and the
\* cursors are numbers.
TypeOK ==
    /\ sources \in [Names -> SourceSpace]
    /\ sealed = [n \in Names |-> Materialize(sources[n])]
    /\ \A r \in corridors :
          /\ r.checkpoint.source \in Materialized
          /\ r.checkpoint.params \in Seq(Units) \ {<< >>}
          /\ Len(r.checkpoint.params) <= MaxUnits
          /\ Last(r.checkpoint.params).pass = "corridor"
          /\ r.checkpoint.cursor \in Nat
    /\ \A f \in finals :
          /\ f.binding.predecessor \in {r.checkpoint : r \in corridors}
          /\ f.params \in Seq(Units) \ {<< >>}
          /\ Len(f.params) <= MaxUnits
          /\ Last(f.params).pass = "exemplar"
          /\ f.cursor \in Nat
    /\ \A rep \in reports : rep.binding.final \in finals
    /\ indexErrors \subseteq Materialized

\* The split of every source keeps the policy's promise (docs/P5_4: the first
\* exemplar-bearing id trains, the last is held out, every other goes to the
\* smaller side, training on a tie): the ids between take turns.
SplitAlternates ==
    \A n \in Names : Splittable(sources[n]) => Alternates(sources[n])

\* The three ways the code names a coordinate agree with the source: the names
\* a corridor pass reports, the examples its objective trains, and the names
\* the evaluation reports are what the source declares for the partition,
\* although a batch keeps the rows of the registry beside its own ids.
NamesAgree ==
    /\ \A r \in corridors :
          LET declared == TrueCoordinates(sources[r.checkpoint.source], Training)
          IN /\ r.coordinates = declared
             /\ Last(r.checkpoint.params).items = declared
    /\ \A rep \in reports :
          rep.coordinates =
              TrueCoordinates(sources[rep.binding.continued.source], HeldOut)

\* The corridor checkpoint a report is about, and what its model ran through
\* after that checkpoint's parameters.
Predecessor(rep) == rep.binding.continued.predecessor

\* A report tells the run it is about: its model is the predecessor it names,
\* trained on exemplars once more; that predecessor was returned by a corridor
\* pass, and ends with the whole training corridor of the source the report
\* names; and the report covers all that this source holds out.
ReportsTellTheRun ==
    \A rep \in reports :
        LET batches == sealed[rep.binding.continued.source]
        IN /\ Front(rep.ran) = Predecessor(rep).params
           /\ Last(rep.ran).pass = "exemplar"
           /\ Predecessor(rep) \in {r.checkpoint : r \in corridors}
           /\ Last(Predecessor(rep).params) =
                 [pass  |-> "corridor",
                  items |-> DOMAIN Coordinates(batches.corridor[Training])]
           /\ rep.coordinates = DOMAIN Coordinates(batches.corridor[HeldOut])
           /\ rep.passports = batches.exemplars[HeldOut].passports

\* The examples a report was evaluated on.
HeldOutOf(rep) == {c[1] : c \in rep.coordinates} \cup {k[1] : k \in rep.passports}

\* No example a report holds out was in the corridor unit its model continued
\* from, nor in its exemplar unit unless the exemplar pass was given the batch
\* of another source.  (The pass does not compare its batch with the
\* materialization its binding names, and the evaluation looks at the training
\* batches it is shown, not at those the passes had.)
HeldOutUnseen ==
    \A rep \in reports :
        LET own  == sealed[rep.binding.continued.source].exemplars[Training]
            unit == Last(rep.ran).items
            seen == {c[1] : c \in Last(Predecessor(rep).params).items}
        IN /\ HeldOutOf(rep) \cap seen = {}
           /\ \/ HeldOutOf(rep) \cap {k[1] : k \in unit} = {}
              \/ unit # own.passports

\* An admitted corridor pass trains the batch that was sealed: it does not die
\* of the batch's coordinates, which "P5.4 keeps ... global" and are to be
\* mapped "to the local neutral batch rows" (behavior/objectives.py:71-72).
TrainsWhatWasSealed == indexErrors = {}
=============================================================================
