--------------------------- MODULE BehaviorBatches ---------------------------
(***************************************************************************)
(* What the behaviour passes train and evaluate on: how the admitted       *)
(* projection of a behavioural source is split into a training and a       *)
(* held-out partition and cut into batches (behavior/policies.py,          *)
(* materialize.py, models.py), and how a batch names its coordinates.      *)
(*                                                                         *)
(* A source is a record                                                    *)
(*    registry   its example ids, in the order that numbers its rows       *)
(*    assigned   its corridor assignments, each a row and a point (a       *)
(*               position and a mode)                                      *)
(*    passports  its selected exemplars, <<example id, position>>          *)
(* An example id is a natural number, and the order of numbers stands for  *)
(* the order of ids by their UTF-8 bytes.  A digest is what it digests.    *)
(*                                                                         *)
(* The rows of a batch's coordinates stay those of the whole registry; the *)
(* ids and the tensors of a batch hold the examples of its partition only. *)
(***************************************************************************)
EXTENDS Naturals, Sequences, FiniteSets, SequencesExt

Training == "training"
HeldOut  == "held_out"
Partitions == {Training, HeldOut}

Examples(source) == ToSet(source.registry)

ExemplarIds(source) == {key[1] : key \in source.passports}

Least(S) == CHOOSE x \in S : \A y \in S : x <= y
Greatest(S) == CHOOSE x \in S : \A y \in S : y <= x

\* The k-th number of a set.
Nth(S, k) == CHOOSE x \in S : Cardinality({y \in S : y <= x}) = k

-----------------------------------------------------------------------------
(* The split.                                                              *)

Splittable(source) ==
    /\ Cardinality(ExemplarIds(source)) >= 2
    /\ ExemplarIds(source) \subseteq Examples(source)

\* Variant: a tie goes to the held-out side.
AllotTiesToHeldOut(split, id) ==
    LET side == IF split.counts[Training] < split.counts[HeldOut]
                THEN Training ELSE HeldOut
    IN [sides  |-> [split.sides EXCEPT ![id] = side],
        counts |-> [split.counts EXCEPT ![side] = @ + 1]]

\* One more example goes to the smaller side, to training on a tie.
Allot(split, id) ==
    LET side == IF split.counts[Training] <= split.counts[HeldOut]
                THEN Training ELSE HeldOut
    IN [sides  |-> [split.sides EXCEPT ![id] = side],
        counts |-> [split.counts EXCEPT ![side] = @ + 1]]

First(source) == Least(ExemplarIds(source))
Final(source) == Greatest(ExemplarIds(source))

\* The first and the last id with an exemplar are reserved.
Reserved(source) ==
    [sides  |-> [id \in Examples(source) |->
                    IF id = Final(source) THEN HeldOut ELSE Training],
     counts |-> [p \in Partitions |-> 1]]

Others(source) == Examples(source) \ {First(source), Final(source)}

\* The others are allotted in the order of their ids: the split after each.
Allotted(source) ==
    LET split[k \in 0 .. Cardinality(Others(source))] ==
            IF k = 0 THEN Reserved(source)
            ELSE Allot(split[k - 1], Nth(Others(source), k))
    IN split

Split(source) == Allotted(source)[Cardinality(Others(source))].sides

-----------------------------------------------------------------------------
(* The batches of one partition.                                           *)

RowsInside(source, partition) ==
    {r \in DOMAIN source.registry : Split(source)[source.registry[r]] = partition}

\* The examples of the partition in the order of the registry, and their
\* assignments: the entries keep the numbers they have in the source, and each
\* keeps the row it has in the registry.
CorridorBatch(source, partition) ==
    LET rows == RowsInside(source, partition)
    IN [partition |-> partition,
        ids       |-> [k \in 1 .. Cardinality(rows) |->
                          source.registry[Nth(rows, k)]],
        entries   |-> [i \in {j \in DOMAIN source.assigned :
                                  source.assigned[j].row \in rows} |->
                          source.assigned[i]]]

ExemplarBatch(source, partition) ==
    [partition |-> partition,
     passports |-> {key \in source.passports :
                        Split(source)[key[1]] = partition}]

BatchIds(batch) == {batch.ids[k] : k \in DOMAIN batch.ids}

PassportIds(batch) == {key[1] : key \in batch.passports}

Size(batch) == Cardinality(DOMAIN batch.entries)

Rows(batch) == {batch.entries[i].row : i \in DOMAIN batch.entries}

\* A batch whose every example has an assignment: only then can its rows be
\* matched with its ids.
Complete(batch) == DOMAIN batch.ids = 1 .. Cardinality(Rows(batch))

\* Variant: rows are matched with ids in the order they come up.
LocalRowInOrderOfAppearance(batch, row) ==
    LET firstAt(r) == Least({i \in DOMAIN batch.entries :
                                batch.entries[i].row = r})
    IN Cardinality({r \in Rows(batch) : firstAt(r) <= firstAt(row)})

\* The place a registry row has in its batch: its rank among the rows there.
LocalRow(batch, row) == Cardinality({r \in Rows(batch) : r <= row})

\* The coordinates of a complete batch, each with how often it occurs (the
\* sorted tuple of the code).
Coordinates(batch) ==
    LET name(i) == <<batch.ids[LocalRow(batch, batch.entries[i].row)],
                     batch.entries[i].point>>
    IN [c \in {name(i) : i \in DOMAIN batch.entries} |->
            Cardinality({i \in DOMAIN batch.entries : name(i) = c})]

NoneTwice(coordinates) ==
    \A c \in DOMAIN coordinates : coordinates[c] = 1

-----------------------------------------------------------------------------
(* The materialization of a source.                                        *)

Refused == [refused |-> TRUE]

\* No id twice in the registry, and no assignment of a row outside it.
WellFormed(source) ==
    /\ \A r, q \in DOMAIN source.registry :
          source.registry[r] = source.registry[q] => r = q
    /\ \A i \in DOMAIN source.assigned :
          source.assigned[i].row \in DOMAIN source.registry

CanMaterialize(source) ==
    /\ WellFormed(source)
    /\ Splittable(source)
    /\ \A p \in Partitions :
          /\ Rows(CorridorBatch(source, p)) # {}
          /\ Complete(CorridorBatch(source, p))
          /\ ExemplarBatch(source, p).passports # {}

Materialize(source) ==
    IF CanMaterialize(source)
    THEN [corridor  |-> [p \in Partitions |-> CorridorBatch(source, p)],
          exemplars |-> [p \in Partitions |-> ExemplarBatch(source, p)]]
    ELSE Refused

-----------------------------------------------------------------------------
(* Reference definitions, for the properties.                              *)

\* The coordinates a source declares for the examples of a partition.
TrueCoordinates(source, partition) ==
    {<<source.registry[source.assigned[i].row], source.assigned[i].point>> : i \in
        {j \in DOMAIN source.assigned :
            Split(source)[source.registry[source.assigned[j].row]] = partition}}

\* A split that keeps what the policy promises: the first exemplar trains,
\* the last is held out, the examples between take turns, training first.
Alternates(source) ==
    LET sides == Split(source)
        turn(id) == Cardinality({x \in Others(source) : x < id})
    IN /\ sides[First(source)] = Training
       /\ sides[Final(source)] = HeldOut
       /\ \A id \in Others(source) :
             sides[id] = IF turn(id) % 2 = 0 THEN Training ELSE HeldOut
=============================================================================
