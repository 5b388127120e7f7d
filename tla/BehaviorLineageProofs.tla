----------------------- MODULE BehaviorLineageProofs -----------------------
(***************************************************************************)
(* Theorems about the behaviour passes, for any sources: how a source is   *)
(* split, that the coordinates of a batch name the examples of its         *)
(* partition, what a report is about, and when a corridor pass dies.       *)
(***************************************************************************)
EXTENDS BehaviorLineage, FiniteSetTheorems, SequenceTheorems, WellFoundedInduction,
        TLAPS

\* The place of a number in a finite set is between one and the set's size.
LEMMA PlaceBounds ==
    ASSUME NEW S \in SUBSET Nat, IsFiniteSet(S), NEW x \in S
    PROVE  /\ Cardinality({y \in S : y <= x}) \in 1 .. Cardinality(S)
           /\ IsFiniteSet({y \in S : y <= x})
<1> DEFINE T == {y \in S : y <= x}
<1>1. IsFiniteSet(T) /\ Cardinality(T) <= Cardinality(S)
  BY FS_Subset
<1>2. Cardinality(T) \in Nat /\ Cardinality(S) \in Nat
  BY <1>1, FS_CardinalityType
<1>3. T # {}
  OBVIOUS
<1>4. Cardinality(T) # 0
  BY <1>1, <1>3, FS_EmptySet
<1> HIDE DEF T
<1>5. Cardinality(T) \in 1 .. Cardinality(S) /\ IsFiniteSet(T)
  BY <1>1, <1>2, <1>4
<1>. QED
  BY <1>5 DEF T
\* A larger number of a set has a larger place.
LEMMA PlaceGrows ==
    ASSUME NEW S \in SUBSET Nat, IsFiniteSet(S), NEW x \in S, NEW z \in S, x < z
    PROVE  Cardinality({y \in S : y <= x}) # Cardinality({y \in S : y <= z})
<1> DEFINE A == {y \in S : y <= x}
           B == {y \in S : y <= z}
<1>1. IsFiniteSet(B)
  BY PlaceBounds
<1>0. x \in Nat /\ z \in Nat /\ \A y \in S : y \in Nat
  OBVIOUS
<1>2. A \in SUBSET B /\ z \in B /\ z \notin A
  <2>1. \A y \in S : y <= x => y <= z
    BY <1>0
  <2>2. ~(z <= x) /\ z <= z
    BY <1>0
  <2>. QED
    BY <2>1, <2>2, Zenon
<1> HIDE DEF A, B
<1>3. Cardinality(B) # Cardinality(A)
  BY <1>1, <1>2, FS_Subset
<1>. QED
  BY <1>3 DEF A, B

\* Every place of a finite set of numbers is taken: the k-th number exists.
LEMMA NthIsThere ==
    ASSUME NEW S \in SUBSET Nat, IsFiniteSet(S), NEW k \in 1 .. Cardinality(S)
    PROVE  /\ Nth(S, k) \in S
           /\ Cardinality({y \in S : y <= Nth(S, k)}) = k
<1> DEFINE n == Cardinality(S)
           f == [x \in S |-> Cardinality({y \in S : y <= x})]
<1>1. n \in Nat
  BY FS_CardinalityType
<1>2. f \in [S -> 1 .. n]
  BY PlaceBounds
<1>3. \A x, z \in S : f[x] = f[z] => x = z
  <2>. SUFFICES ASSUME NEW x \in S, NEW z \in S, x # z
                PROVE  f[x] # f[z]
    OBVIOUS
  <2>1. CASE x < z
    BY <2>1, PlaceGrows
  <2>2. CASE z < x
    BY <2>2, PlaceGrows
  <2>. QED
    BY <2>1, <2>2
<1>4. f \in Injection(S, 1 .. n)
  BY <1>2, <1>3 DEF Injection, IsInjective
<1>5. IsFiniteSet(1 .. n) /\ Cardinality(1 .. n) = n
  BY <1>1, FS_Interval
<1> HIDE DEF f
<1>6. f \in Surjection(S, 1 .. n)
  BY <1>4, <1>5, FS_Injection
<1>7. \E x \in S : f[x] = k
  BY <1>6 DEF Surjection
<1>8. \E x \in S : Cardinality({y \in S : y <= x}) = k
  BY <1>7 DEF f
<1>. QED
  BY <1>8 DEF Nth

\* The number at the place of x is x.
LEMMA NthOfPlace ==
    ASSUME NEW S \in SUBSET Nat, IsFiniteSet(S), NEW x \in S
    PROVE  Nth(S, Cardinality({y \in S : y <= x})) = x
<1> DEFINE k == Cardinality({y \in S : y <= x})
           z == Nth(S, k)
<1>1. k \in 1 .. Cardinality(S)
  BY PlaceBounds
<1>2. z \in S /\ Cardinality({y \in S : y <= z}) = k
  BY <1>1, NthIsThere
<1> HIDE DEF z
<1>3. ASSUME x < z PROVE FALSE
  BY <1>2, <1>3, PlaceGrows
<1>4. ASSUME z < x PROVE FALSE
  BY <1>2, <1>4, PlaceGrows
<1>5. x \in Nat /\ z \in Nat
  BY <1>2
<1>6. z = x
  BY <1>3, <1>4, <1>5
<1>. QED
  BY <1>6 DEF z

\* The rows of a well-formed source's batch are those of its partition's
\* examples if every one of them has an assignment.
LEMMA RowsOfCompleteBatch ==
    ASSUME NEW s \in SourceSpace, NEW p \in Partitions, WellFormed(s),
           Complete(CorridorBatch(s, p))
    PROVE  /\ Rows(CorridorBatch(s, p)) = RowsInside(s, p)
           /\ RowsInside(s, p) \in SUBSET Nat
           /\ IsFiniteSet(RowsInside(s, p))
           /\ DOMAIN CorridorBatch(s, p).ids = 1 .. Cardinality(RowsInside(s, p))
<1> DEFINE b == CorridorBatch(s, p)
           R == RowsInside(s, p)
<1>1. DOMAIN s.registry = 1 .. Len(s.registry) /\ Len(s.registry) \in Nat
  BY LineageAssumption, LenProperties
<1>2. IsFiniteSet(DOMAIN s.registry) /\ R \in SUBSET (DOMAIN s.registry)
  BY <1>1, FS_Interval DEF RowsInside
<1>3. IsFiniteSet(R) /\ R \in SUBSET Nat
  BY <1>1, <1>2, FS_Subset
<1>4. Rows(b) \in SUBSET R
  BY DEF Rows, CorridorBatch
<1>5. DOMAIN b.ids = 1 .. Cardinality(R)
  BY DEF CorridorBatch
<1>6. IsFiniteSet(Rows(b)) /\ Cardinality(Rows(b)) \in Nat /\ Cardinality(R) \in Nat
  BY <1>3, <1>4, FS_Subset, FS_CardinalityType
<1>7. 1 .. Cardinality(R) = 1 .. Cardinality(Rows(b))
  BY <1>5 DEF Complete
<1>8. Cardinality(R) = Cardinality(Rows(b))
  BY <1>6, <1>7
<1> HIDE DEF b, R
<1>9. Rows(b) = R
  BY <1>3, <1>4, <1>8, FS_Subset
<1>. QED
  BY <1>3, <1>5, <1>9 DEF b, R

\* Ranking the rows of a batch finds the example a registry row is about.
LEMMA LocalRowFindsExample ==
    ASSUME NEW s \in SourceSpace, NEW p \in Partitions, WellFormed(s),
           Complete(CorridorBatch(s, p)), NEW row \in RowsInside(s, p)
    PROVE  CorridorBatch(s, p).ids[LocalRow(CorridorBatch(s, p), row)]
              = s.registry[row]
<1> DEFINE b == CorridorBatch(s, p)
           R == RowsInside(s, p)
           k == Cardinality({r \in R : r <= row})
<1>1. Rows(b) = R /\ R \in SUBSET Nat /\ IsFiniteSet(R)
  BY RowsOfCompleteBatch
<1>2. LocalRow(b, row) = k
  BY <1>1 DEF LocalRow
<1>3. k \in 1 .. Cardinality(R) /\ Nth(R, k) = row
  BY <1>1, PlaceBounds, NthOfPlace
<1> HIDE DEF k
<1>4. b.ids[k] = s.registry[Nth(R, k)]
  BY <1>3 DEF CorridorBatch
<1>. QED
  BY <1>2, <1>3, <1>4

\* The coordinates of a complete batch are those the source declares for the
\* examples of its partition.
LEMMA CoordinatesAreTrue ==
    ASSUME NEW s \in SourceSpace, NEW p \in Partitions, WellFormed(s),
           Complete(CorridorBatch(s, p))
    PROVE  DOMAIN Coordinates(CorridorBatch(s, p)) = TrueCoordinates(s, p)
<1> DEFINE b == CorridorBatch(s, p)
           I == {j \in DOMAIN s.assigned : s.assigned[j].row \in RowsInside(s, p)}
<1>1. DOMAIN b.entries = I /\ \A i \in I : b.entries[i] = s.assigned[i]
  BY DEF CorridorBatch
<1>2. DOMAIN Coordinates(b) =
        {<<b.ids[LocalRow(b, b.entries[i].row)], b.entries[i].point>> :
            i \in DOMAIN b.entries}
  BY DEF Coordinates
<1>3. \A i \in I : b.ids[LocalRow(b, b.entries[i].row)]
                      = s.registry[s.assigned[i].row]
  BY <1>1, LocalRowFindsExample
<1>4. I = {j \in DOMAIN s.assigned :
             Split(s)[s.registry[s.assigned[j].row]] = p}
  BY DEF RowsInside, WellFormed
<1> HIDE DEF b, I
<1>5. DOMAIN Coordinates(b) =
        {<<s.registry[s.assigned[i].row], s.assigned[i].point>> : i \in I}
  BY <1>1, <1>2, <1>3
<1>. QED
  BY <1>4, <1>5 DEF TrueCoordinates, b

\* A number of the interval from one is its own place in it.
LEMMA PlaceInInterval ==
    ASSUME NEW n \in Nat, NEW k \in 1 .. n
    PROVE  Nth(1 .. n, k) = k
<1>1. {y \in 1 .. n : y <= k} = 1 .. k
  OBVIOUS
<1>2. Cardinality({y \in 1 .. n : y <= k}) = k
  <2>1. Cardinality(1 .. k) = IF 1 > k THEN 0 ELSE k - 1 + 1
    BY FS_Interval
  <2>2. Cardinality(1 .. k) = k
    BY <2>1
  <2>. QED
    BY <1>1, <2>2
<1>3. IsFiniteSet(1 .. n) /\ (1 .. n) \in SUBSET Nat
  BY FS_Interval
<1>4. Nth(1 .. n, Cardinality({y \in 1 .. n : y <= k})) = k
  BY <1>3, NthOfPlace
<1>. QED
  BY <1>2, <1>4

\* The corridor pass indexes the ids of the partition with the rows of the
\* registry: where every look-up succeeds, it names what the source declares.
LEMMA PassNamesAreTrue ==
    ASSUME NEW s \in SourceSpace, NEW p \in Partitions, WellFormed(s),
           Complete(CorridorBatch(s, p)), NamesExist(CorridorBatch(s, p))
    PROVE  PassNames(CorridorBatch(s, p)) = TrueCoordinates(s, p)
<1> DEFINE b == CorridorBatch(s, p)
           R == RowsInside(s, p)
           n == Cardinality(R)
           I == {j \in DOMAIN s.assigned : s.assigned[j].row \in R}
<1>1. Rows(b) = R /\ IsFiniteSet(R) /\ DOMAIN b.ids = 1 .. n
  BY RowsOfCompleteBatch
<1>2. n \in Nat /\ IsFiniteSet(1 .. n) /\ Cardinality(1 .. n) = n
  BY <1>1, FS_CardinalityType, FS_Interval
<1>3. R \in SUBSET (1 .. n)
  BY <1>1 DEF NamesExist
<1>4. R = 1 .. n
  BY <1>2, <1>3, FS_Subset
<1>5. \A k \in R : b.ids[k] = s.registry[k]
  <2>. SUFFICES ASSUME NEW k \in R
                PROVE  b.ids[k] = s.registry[k]
    OBVIOUS
  <2>1. Nth(R, k) = k
    BY <1>2, <1>4, PlaceInInterval
  <2>2. b.ids[k] = s.registry[Nth(R, k)]
    BY <1>4 DEF CorridorBatch
  <2>. QED
    BY <2>1, <2>2
<1>6. DOMAIN b.entries = I /\ \A i \in I : b.entries[i] = s.assigned[i]
  BY DEF CorridorBatch
<1>7. I = {j \in DOMAIN s.assigned :
             Split(s)[s.registry[s.assigned[j].row]] = p}
  BY DEF RowsInside, WellFormed
<1>8. \A i \in I : s.assigned[i].row \in R
  OBVIOUS
<1> HIDE DEF b, I, R, n
<1>9. PassNames(b) =
        {<<s.registry[s.assigned[i].row], s.assigned[i].point>> : i \in I}
  BY <1>5, <1>6, <1>8 DEF PassNames
<1>. QED
  BY <1>7, <1>9 DEF TrueCoordinates, b

-----------------------------------------------------------------------------
(* The inductive invariant.                                                *)

\* The projections and their materializations stay what they were made.
Sealed ==
    /\ sources \in [Names -> SourceSpace]
    /\ sealed = [n \in Names |-> Materialize(sources[n])]

\* A corridor result is of the sealed training corridor of its source.
CorridorHonest(r) ==
    LET c == r.checkpoint
        batch == sealed[c.source].corridor[Training]
    IN /\ c.source \in Materialized
       /\ c.materialization = c.source
       /\ c.split = c.source
       /\ c.params \in Seq(Units) \ {<< >>}
       /\ Len(c.params) <= MaxUnits
       /\ Last(c.params) = [pass  |-> "corridor",
                            items |-> DOMAIN Coordinates(batch)]
       /\ c.cursor \in Nat
       /\ NamesExist(batch)
       /\ r.coordinates = PassNames(batch)

\* A final checkpoint is its predecessor trained once more.
FinalHonest(f) ==
    LET c == f.binding.predecessor
    IN /\ c \in {r.checkpoint : r \in corridors}
       /\ f.binding.source = c.source
       /\ f.binding.materialization = c.materialization
       /\ f.params \in Seq(Units) \ {<< >>}
       /\ Len(f.params) <= MaxUnits
       /\ Front(f.params) = c.params
       /\ Last(f.params).pass = "exemplar"
       /\ f.cursor \in Nat

\* A report is of a final checkpoint, and of all its source holds out.
ReportHonest(rep) ==
    LET n == rep.binding.continued.source
    IN /\ rep.binding.final \in finals
       /\ rep.binding.continued = rep.binding.final.binding
       /\ rep.ran = rep.binding.final.params
       /\ n \in Materialized
       /\ rep.coordinates = DOMAIN Coordinates(sealed[n].corridor[HeldOut])
       /\ rep.passports = sealed[n].exemplars[HeldOut].passports

IInv ==
    /\ Sealed
    /\ \A r \in corridors : CorridorHonest(r)
    /\ \A f \in finals : FinalHonest(f)
    /\ \A rep \in reports : ReportHonest(rep)
    /\ indexErrors \subseteq Materialized

\* A materialized source is well formed, and its batches are complete.
LEMMA MaterializedBatches ==
    ASSUME Sealed, NEW n \in Materialized, NEW p \in Partitions
    PROVE  /\ n \in Names /\ sources[n] \in SourceSpace
           /\ WellFormed(sources[n])
           /\ sealed[n].corridor[p] = CorridorBatch(sources[n], p)
           /\ sealed[n].exemplars[p] = ExemplarBatch(sources[n], p)
           /\ Complete(CorridorBatch(sources[n], p))
<1>1. n \in Names /\ sources[n] \in SourceSpace
      /\ sealed[n] = Materialize(sources[n]) /\ sealed[n] # Refused
  BY DEF Sealed, Materialized
<1>2. CanMaterialize(sources[n])
  BY <1>1 DEF Materialize
<1>3. sealed[n] = [corridor  |-> [q \in Partitions |-> CorridorBatch(sources[n], q)],
                   exemplars |-> [q \in Partitions |-> ExemplarBatch(sources[n], q)]]
  BY <1>1, <1>2 DEF Materialize
<1>. QED
  BY <1>1, <1>2, <1>3 DEF CanMaterialize

\* The batches of a materialized source have a size in the numbers.
LEMMA SizesAreNumbers ==
    ASSUME Sealed, NEW n \in Materialized, NEW p \in Partitions
    PROVE  /\ Size(sealed[n].corridor[p]) \in Nat
           /\ Cardinality(sealed[n].exemplars[p].passports) \in Nat
<1> DEFINE s == sources[n]
<1>1. s \in SourceSpace /\ sealed[n].corridor[p] = CorridorBatch(s, p)
      /\ sealed[n].exemplars[p] = ExemplarBatch(s, p)
  BY MaterializedBatches
<1>2. IsFiniteSet(DOMAIN s.assigned) /\ IsFiniteSet(s.passports)
  BY <1>1, LineageAssumption
<1>3. DOMAIN CorridorBatch(s, p).entries \in SUBSET (DOMAIN s.assigned)
  BY DEF CorridorBatch
<1>4. ExemplarBatch(s, p).passports \in SUBSET s.passports
  BY DEF ExemplarBatch
<1> HIDE DEF s
<1>5. Cardinality(DOMAIN CorridorBatch(s, p).entries) \in Nat
  BY <1>2, <1>3, FS_Subset, FS_CardinalityType
<1>6. Cardinality(ExemplarBatch(s, p).passports) \in Nat
  BY <1>2, <1>4, FS_Subset, FS_CardinalityType
<1>. QED
  BY <1>1, <1>5, <1>6 DEF Size

\* Appending a unit: what is last, and what was there before.
LEMMA AppendedUnit ==
    ASSUME NEW S, NEW s \in Seq(S), NEW u \in S
    PROVE  /\ Append(s, u) \in Seq(S) \ {<< >>}
           /\ Len(Append(s, u)) = Len(s) + 1
           /\ Last(Append(s, u)) = u
           /\ Front(Append(s, u)) = s
<1> DEFINE t == Append(s, u)
<1>1. /\ t \in Seq(S) /\ t # << >> /\ Len(t) = Len(s) + 1 /\ t[Len(s) + 1] = u
      /\ \A i \in 1 .. Len(s) : t[i] = s[i]
  BY AppendProperties
<1>2. Len(s) \in Nat
  BY LenProperties
<1>3. Last(t) = u
  BY <1>1 DEF Last
<1>4. Front(t) = SubSeq(t, 1, Len(s))
  BY <1>1, <1>2 DEF Front
<1> HIDE DEF t
<1>5. SubSeq(t, 1, Len(s)) = s
  <2>1. \A i \in 1 .. Len(s) : t[i] \in S
    BY <1>1, <1>2, ElementOfSeq
  <2>2. /\ SubSeq(t, 1, Len(s)) \in Seq(S)
        /\ Len(SubSeq(t, 1, Len(s))) = Len(s)
        /\ \A i \in 1 .. Len(s) : SubSeq(t, 1, Len(s))[i] = t[i]
    BY <1>1, <1>2, <2>1
  <2>. QED
    BY <1>1, <1>2, <2>2, SeqEqual
<1>. QED
  BY <1>1, <1>3, <1>4, <1>5 DEF t

\* What was true of the held results stays true when nothing they are about
\* changes and more is held.
LEMMA HonestyKept ==
    ASSUME sources' = sources, sealed' = sealed,
           corridors \subseteq corridors', finals \subseteq finals'
    PROVE  /\ Sealed => Sealed'
           /\ Materialized' = Materialized /\ Units' = Units
           /\ \A r : CorridorHonest(r) => CorridorHonest(r)'
           /\ \A f : FinalHonest(f) => FinalHonest(f)'
           /\ \A rep : ReportHonest(rep) => ReportHonest(rep)'
<1>1. Materialized' = Materialized /\ CorridorBatches' = CorridorBatches
      /\ ExemplarBatches' = ExemplarBatches
  BY DEF Materialized, CorridorBatches, ExemplarBatches
<1>2. Units' = Units
  BY <1>1 DEF Units
<1>3. Sealed => Sealed'
  BY DEF Sealed
<1>4. ASSUME NEW r, CorridorHonest(r) PROVE CorridorHonest(r)'
  BY <1>1, <1>2, <1>4 DEF CorridorHonest
<1>5. ASSUME NEW f, FinalHonest(f) PROVE FinalHonest(f)'
  BY <1>2, <1>5 DEF FinalHonest
<1>6. ASSUME NEW rep, ReportHonest(rep) PROVE ReportHonest(rep)'
  BY <1>1, <1>6 DEF ReportHonest
<1>. QED
  BY <1>1, <1>2, <1>3, <1>4, <1>5, <1>6

\* Nothing is held at first.
LEMMA InitIInv ==
    Init => IInv
BY DEF Init, IInv, Sealed

\* The corridor pass keeps the invariant.
LEMMA CorridorKeepsIInv ==
    IInv /\ CallCorridorPass => IInv'
<1>. SUFFICES ASSUME IInv,
                     NEW n \in Names, NEW m \in Names, NEW p \in Names,
                     NEW b \in Names, NEW q \in Partitions,
                     NEW params \in Held, NEW cursor \in Cursors,
                     RunCorridorPass(n, q, m, p, b, params, cursor)
              PROVE  IInv'
  BY DEF CallCorridorPass
<1> DEFINE batch == sealed[n].corridor[q]
           unit  == [pass |-> "corridor", items |-> DOMAIN Coordinates(batch)]
           r     == CorridorResult(batch, m, b, params, cursor)
<1>1. /\ n = m /\ q = Training /\ b = m /\ m \in Materialized
      /\ NamesExist(batch) /\ Len(params) < MaxUnits
      /\ corridors' = corridors \cup {r}
      /\ sources' = sources /\ sealed' = sealed /\ finals' = finals
      /\ reports' = reports /\ indexErrors' = indexErrors
  BY DEF RunCorridorPass, CorridorAdmitted, SealedTrainingBatch,
         CorridorBinding, heldVars
<1>2. batch = sealed[m].corridor[Training] /\ Training \in Partitions
  BY <1>1 DEF Partitions
<1>3. unit \in Units
  BY <1>1, <1>2 DEF Units, CorridorBatches
<1>4. params \in Seq(Units)
  <2>1. CASE params = << >>
    BY <2>1, EmptySeq
  <2>2. ASSUME NEW held \in corridors, params = held.checkpoint.params
        PROVE  params \in Seq(Units)
    <3>1. CorridorHonest(held)
      BY DEF IInv
    <3>. QED
      BY <2>2, <3>1 DEF CorridorHonest
  <2>3. ASSUME NEW f \in finals, params = f.params
        PROVE  params \in Seq(Units)
    <3>1. FinalHonest(f)
      BY DEF IInv
    <3>. QED
      BY <2>3, <3>1 DEF FinalHonest
  <2>4. \/ params = << >>
        \/ \E held \in corridors : params = held.checkpoint.params
        \/ \E f \in finals : params = f.params
    BY DEF Held
  <2>. QED
    BY <2>1, <2>2, <2>3, <2>4
<1>5. /\ Append(params, unit) \in Seq(Units) \ {<< >>}
      /\ Len(Append(params, unit)) = Len(params) + 1
      /\ Last(Append(params, unit)) = unit
  BY <1>3, <1>4, AppendedUnit
<1>6. Len(params) \in Nat /\ MaxUnits \in Nat /\ cursor \in Nat
  BY <1>4, LenProperties, LineageAssumption
<1>7. Size(batch) \in Nat
  BY <1>1, <1>2, SizesAreNumbers DEF IInv
<1>8. /\ r.checkpoint.source = m /\ r.checkpoint.split = m
      /\ r.checkpoint.materialization = m
      /\ r.checkpoint.params = Append(params, unit)
      /\ r.checkpoint.cursor = cursor + Size(batch)
      /\ r.coordinates = PassNames(batch)
  BY <1>1 DEF CorridorResult, CorridorBinding
<1> HIDE DEF r, unit
<1>9. CorridorHonest(r)
  <2>1. Len(r.checkpoint.params) <= MaxUnits
    BY <1>1, <1>5, <1>6, <1>8
  <2>2. r.checkpoint.cursor \in Nat
    BY <1>6, <1>7, <1>8
  <2>3. Last(r.checkpoint.params) =
          [pass |-> "corridor",
           items |-> DOMAIN Coordinates(sealed[m].corridor[Training])]
    BY <1>2, <1>5, <1>8 DEF unit
  <2>. QED
    BY <1>1, <1>2, <1>5, <1>8, <2>1, <2>2, <2>3 DEF CorridorHonest
<1>10. corridors \subseteq corridors' /\ finals \subseteq finals'
  BY <1>1
<1>. QED
  BY <1>1, <1>9, <1>10, HonestyKept DEF IInv

\* A corridor pass that dies keeps the invariant.
LEMMA DeathKeepsIInv ==
    IInv /\ CallCorridorPassThatDies => IInv'
<1>. SUFFICES ASSUME IInv,
                     NEW n \in Names, NEW m \in Names, NEW p \in Names,
                     NEW b \in Names, NEW q \in Partitions,
                     CorridorPassDies(n, q, m, p, b)
              PROVE  IInv'
  BY DEF CallCorridorPassThatDies
<1>1. /\ m \in Materialized
      /\ indexErrors' = indexErrors \cup {m}
      /\ sources' = sources /\ sealed' = sealed /\ corridors' = corridors
      /\ finals' = finals /\ reports' = reports
  BY DEF CorridorPassDies, CorridorAdmitted, heldVars
<1>. QED
  BY <1>1, HonestyKept DEF IInv

\* The exemplar pass keeps the invariant.
LEMMA ExemplarKeepsIInv ==
    IInv /\ CallExemplarPass => IInv'
<1>. SUFFICES ASSUME IInv,
                     NEW c \in corridors, NEW d \in corridors,
                     NEW e \in corridors, NEW n \in Names,
                     NEW q \in Partitions, NEW cursor \in Cursors,
                     RunExemplarPass(c.checkpoint,
                                     ExemplarBinding(d.checkpoint, e.checkpoint),
                                     n, q, cursor)
              PROVE  IInv'
  BY DEF CallExemplarPass
<1> DEFINE pre     == c.checkpoint
           binding == ExemplarBinding(d.checkpoint, e.checkpoint)
           batch   == sealed[n].exemplars[q]
           unit    == [pass |-> "exemplar", items |-> batch.passports]
           f       == ExemplarCheckpoint(binding, pre, batch, cursor)
<1>1. /\ n \in Materialized /\ Len(pre.params) < MaxUnits
      /\ binding.predecessor = pre /\ binding.source = pre.source
      /\ binding.materialization = pre.materialization
      /\ finals' = finals \cup {f}
      /\ sources' = sources /\ sealed' = sealed /\ corridors' = corridors
      /\ reports' = reports /\ indexErrors' = indexErrors
  BY DEF RunExemplarPass, Continues, heldVars
<1>2. unit \in Units
  BY <1>1 DEF Units, ExemplarBatches
<1>3. pre.params \in Seq(Units)
  BY DEF IInv, CorridorHonest
<1>4. /\ Append(pre.params, unit) \in Seq(Units) \ {<< >>}
      /\ Len(Append(pre.params, unit)) = Len(pre.params) + 1
      /\ Last(Append(pre.params, unit)) = unit
      /\ Front(Append(pre.params, unit)) = pre.params
  BY <1>2, <1>3, AppendedUnit
<1>5. Len(pre.params) \in Nat /\ MaxUnits \in Nat /\ cursor \in Nat
  BY <1>3, LenProperties, LineageAssumption
<1>6. Cardinality(batch.passports) \in Nat
  BY <1>1, SizesAreNumbers DEF IInv
<1>7. /\ f.binding = binding
      /\ f.params = Append(pre.params, unit)
      /\ f.cursor = cursor + Cardinality(batch.passports)
  BY DEF ExemplarCheckpoint
<1>8. unit.pass = "exemplar" /\ pre \in {r.checkpoint : r \in corridors}
  OBVIOUS
<1> HIDE DEF f, unit, binding, batch
<1>9. FinalHonest(f)
  <2>1. Len(f.params) <= MaxUnits
    BY <1>1, <1>4, <1>5, <1>7
  <2>2. f.cursor \in Nat
    BY <1>5, <1>6, <1>7
  <2>. QED
    BY <1>1, <1>4, <1>7, <1>8, <2>1, <2>2 DEF FinalHonest
<1>10. corridors \subseteq corridors' /\ finals \subseteq finals'
  BY <1>1
<1>. QED
  BY <1>1, <1>9, <1>10, HonestyKept DEF IInv

\* The evaluation keeps the invariant.
LEMMA EvaluationKeepsIInv ==
    IInv /\ CallEvaluation => IInv'
<1>. SUFFICES ASSUME IInv,
                     NEW c \in corridors, NEW f \in finals, NEW g \in finals,
                     NEW e \in Names, NEW x \in Names,
                     Bindable(g, e),
                     Evaluate(c.checkpoint, f, EvaluationBinding(g, e), x)
              PROVE  IInv'
  BY DEF CallEvaluation
<1> DEFINE binding == EvaluationBinding(g, e)
<1>1. PICK heldC \in UNION {CorridorCopies(h) : h \in CorridorBatches} :
      \E heldE \in UNION {ExemplarCopies(h) : h \in ExemplarBatches} :
         /\ WholeCorridor(heldC, binding)
         /\ WholeExemplars(heldE, binding)
         /\ reports' = reports \cup {Report(f, binding, heldC, heldE)}
  BY DEF Evaluate
<1>2. PICK heldE \in UNION {ExemplarCopies(h) : h \in ExemplarBatches} :
         /\ WholeCorridor(heldC, binding)
         /\ WholeExemplars(heldE, binding)
         /\ reports' = reports \cup {Report(f, binding, heldC, heldE)}
  BY <1>1
<1> DEFINE rep == Report(f, binding, heldC, heldE)
<1>3. /\ binding.final = f /\ binding.continued = f.binding
      /\ x \in Materialized /\ x = f.binding.source
      /\ Coordinates(sealed[x].corridor[HeldOut]) = binding.corridor
      /\ sealed[x].exemplars[HeldOut].passports = binding.exemplars
  BY DEF Evaluate, ContinuesLineage, ExpectedBatches
<1>4. /\ sources' = sources /\ sealed' = sealed /\ corridors' = corridors
      /\ finals' = finals /\ indexErrors' = indexErrors
  BY DEF Evaluate, heldVars
<1>5. Coordinates(heldC) = binding.corridor /\ heldE.passports = binding.exemplars
  BY <1>2 DEF WholeCorridor, WholeExemplars
<1>6. /\ rep.binding = binding /\ rep.ran = f.params
      /\ rep.coordinates = DOMAIN Coordinates(heldC)
      /\ rep.passports = heldE.passports
  BY DEF Report
<1> HIDE DEF binding, rep
<1>7. ReportHonest(rep)
  BY <1>3, <1>5, <1>6 DEF ReportHonest
<1>8. corridors \subseteq corridors' /\ finals \subseteq finals'
  BY <1>4
<1>9. reports' = reports \cup {rep}
  BY <1>2 DEF rep
<1>. QED
  BY <1>4, <1>7, <1>8, <1>9, HonestyKept DEF IInv

\* Every step keeps the invariant.
LEMMA NextIInv ==
    IInv /\ [Next]_vars => IInv'
<1>. SUFFICES ASSUME IInv, [Next]_vars PROVE IInv'
  OBVIOUS
<1>1. CASE UNCHANGED vars
  <2>1. /\ sources' = sources /\ sealed' = sealed /\ corridors' = corridors
        /\ finals' = finals /\ reports' = reports /\ indexErrors' = indexErrors
    BY <1>1 DEF vars
  <2>. QED
    BY <2>1, HonestyKept DEF IInv
<1>. QED
  BY <1>1, CorridorKeepsIInv, DeathKeepsIInv, ExemplarKeepsIInv,
     EvaluationKeepsIInv DEF Next

LEMMA SpecIInv == Spec => []IInv
BY InitIInv, NextIInv, PTL DEF Spec

-----------------------------------------------------------------------------
(* The theorems.                                                           *)

\* Type correctness, for every set of sources and every bound.
THEOREM TypesHold == Spec => []TypeOK
<1>1. IInv => TypeOK
  <2>. SUFFICES ASSUME IInv PROVE TypeOK
    OBVIOUS
  <2>1. \A r \in corridors :
          /\ r.checkpoint.source \in Materialized
          /\ r.checkpoint.params \in Seq(Units) \ {<< >>}
          /\ Len(r.checkpoint.params) <= MaxUnits
          /\ Last(r.checkpoint.params).pass = "corridor"
          /\ r.checkpoint.cursor \in Nat
    <3>. SUFFICES ASSUME NEW r \in corridors
                  PROVE  /\ r.checkpoint.source \in Materialized
                         /\ r.checkpoint.params \in Seq(Units) \ {<< >>}
                         /\ Len(r.checkpoint.params) <= MaxUnits
                         /\ Last(r.checkpoint.params).pass = "corridor"
                         /\ r.checkpoint.cursor \in Nat
      OBVIOUS
    <3>1. CorridorHonest(r)
      BY DEF IInv
    <3>2. PICK items : Last(r.checkpoint.params) =
                          [pass |-> "corridor", items |-> items]
      BY <3>1 DEF CorridorHonest
    <3>. QED
      BY <3>1, <3>2 DEF CorridorHonest
  <2>2. \A f \in finals :
          /\ f.binding.predecessor \in {r.checkpoint : r \in corridors}
          /\ f.params \in Seq(Units) \ {<< >>}
          /\ Len(f.params) <= MaxUnits
          /\ Last(f.params).pass = "exemplar"
          /\ f.cursor \in Nat
    BY DEF IInv, FinalHonest
  <2>3. \A rep \in reports : rep.binding.final \in finals
    BY DEF IInv, ReportHonest
  <2>. QED
    BY <2>1, <2>2, <2>3 DEF TypeOK, IInv, Sealed
<1>. QED
  BY <1>1, SpecIInv, PTL

\* The names a corridor pass reports, the examples it trains and the names a
\* report lists are those the source declares for the partition.
THEOREM NamesAlwaysAgree == Spec => []NamesAgree
<1>1. IInv => NamesAgree
  <2>. SUFFICES ASSUME IInv PROVE NamesAgree
    OBVIOUS
  <2>1. Training \in Partitions /\ HeldOut \in Partitions
    BY DEF Partitions
  <2>2. ASSUME NEW r \in corridors
        PROVE  LET declared == TrueCoordinates(sources[r.checkpoint.source],
                                               Training)
               IN /\ r.coordinates = declared
                  /\ Last(r.checkpoint.params).items = declared
    <3> DEFINE n == r.checkpoint.source
               b == CorridorBatch(sources[n], Training)
    <3>1. CorridorHonest(r) /\ n \in Materialized /\ Sealed
      BY DEF IInv, CorridorHonest
    <3>2. /\ sources[n] \in SourceSpace /\ WellFormed(sources[n])
          /\ sealed[n].corridor[Training] = b /\ Complete(b)
      BY <2>1, <3>1, MaterializedBatches
    <3>3. /\ NamesExist(b) /\ r.coordinates = PassNames(b)
          /\ Last(r.checkpoint.params).items = DOMAIN Coordinates(b)
      BY <3>1, <3>2 DEF CorridorHonest
    <3>. QED
      BY <2>1, <3>2, <3>3, PassNamesAreTrue, CoordinatesAreTrue
  <2>3. ASSUME NEW rep \in reports
        PROVE  rep.coordinates =
                 TrueCoordinates(sources[rep.binding.continued.source], HeldOut)
    <3> DEFINE n == rep.binding.continued.source
    <3>1. /\ n \in Materialized /\ Sealed
          /\ rep.coordinates = DOMAIN Coordinates(sealed[n].corridor[HeldOut])
      BY DEF IInv, ReportHonest
    <3>. QED
      BY <2>1, <3>1, MaterializedBatches, CoordinatesAreTrue
  <2>. QED
    BY <2>2, <2>3 DEF NamesAgree
<1>. QED
  BY <1>1, SpecIInv, PTL

\* A report tells the run it is about.
THEOREM ReportsTell == Spec => []ReportsTellTheRun
<1>1. IInv => ReportsTellTheRun
  <2>. SUFFICES ASSUME IInv, NEW rep \in reports
                PROVE  LET batches == sealed[rep.binding.continued.source]
                       IN /\ Front(rep.ran) = Predecessor(rep).params
                          /\ Last(rep.ran).pass = "exemplar"
                          /\ Predecessor(rep) \in {r.checkpoint : r \in corridors}
                          /\ Last(Predecessor(rep).params) =
                                [pass  |-> "corridor",
                                 items |-> DOMAIN Coordinates(batches.corridor[Training])]
                          /\ rep.coordinates =
                                DOMAIN Coordinates(batches.corridor[HeldOut])
                          /\ rep.passports = batches.exemplars[HeldOut].passports
    BY DEF ReportsTellTheRun
  <2> DEFINE f == rep.binding.final
  <2>1. ReportHonest(rep) /\ f \in finals
    BY DEF IInv, ReportHonest
  <2>2. FinalHonest(f)
    BY <2>1 DEF IInv
  <2>3. Predecessor(rep) = f.binding.predecessor
    BY <2>1 DEF ReportHonest, Predecessor
  <2>4. PICK r \in corridors : Predecessor(rep) = r.checkpoint
    BY <2>2, <2>3 DEF FinalHonest
  <2>5. CorridorHonest(r)
    BY DEF IInv
  <2>6. rep.binding.continued.source = r.checkpoint.source
    BY <2>1, <2>2, <2>3, <2>4 DEF ReportHonest, FinalHonest
  <2>7. Last(Predecessor(rep).params) =
          [pass  |-> "corridor",
           items |-> DOMAIN Coordinates(
                        sealed[rep.binding.continued.source].corridor[Training])]
    BY <2>4, <2>5, <2>6 DEF CorridorHonest
  <2>. QED
    BY <2>1, <2>2, <2>3, <2>4, <2>7 DEF ReportHonest, FinalHonest
<1>. QED
  BY <1>1, SpecIInv, PTL

\* The examples a materialized source declares for a partition are on its side
\* of the split.
LEMMA SidesOfEvidence ==
    ASSUME Sealed, NEW n \in Materialized, NEW p \in Partitions
    PROVE  /\ \A c \in TrueCoordinates(sources[n], p) :
                 Split(sources[n])[c[1]] = p
           /\ \A key \in sealed[n].exemplars[p].passports :
                 Split(sources[n])[key[1]] = p
<1>1. sealed[n].exemplars[p] = ExemplarBatch(sources[n], p)
  BY MaterializedBatches
<1>. QED
  BY <1>1 DEF TrueCoordinates, ExemplarBatch

\* No example a report holds out was trained in its run, unless the exemplar
\* pass had the batch of another source.
THEOREM HeldOutStaysUnseen == Spec => []HeldOutUnseen
<1>1. IInv /\ NamesAgree /\ ReportsTellTheRun => HeldOutUnseen
  <2>. SUFFICES ASSUME IInv, NamesAgree, ReportsTellTheRun, NEW rep \in reports
                PROVE  LET own  == sealed[rep.binding.continued.source].exemplars[Training]
                           unit == Last(rep.ran).items
                           seen == {c[1] : c \in Last(Predecessor(rep).params).items}
                       IN /\ HeldOutOf(rep) \cap seen = {}
                          /\ \/ HeldOutOf(rep) \cap {k[1] : k \in unit} = {}
                             \/ unit # own.passports
    BY DEF HeldOutUnseen
  <2> DEFINE n == rep.binding.continued.source
             side(id) == Split(sources[n])[id]
  <2>1. /\ Sealed /\ n \in Materialized /\ Training \in Partitions
        /\ HeldOut \in Partitions /\ Training # HeldOut
    BY DEF IInv, ReportHonest, Partitions, Training, HeldOut
  <2>2. /\ rep.coordinates = TrueCoordinates(sources[n], HeldOut)
        /\ rep.passports = sealed[n].exemplars[HeldOut].passports
    BY DEF NamesAgree, ReportsTellTheRun
  <2>3. Last(Predecessor(rep).params).items
           = DOMAIN Coordinates(sealed[n].corridor[Training])
    <3>1. Last(Predecessor(rep).params) =
            [pass  |-> "corridor",
             items |-> DOMAIN Coordinates(sealed[n].corridor[Training])]
      BY DEF ReportsTellTheRun
    <3>. QED
      BY <3>1
  <2>4. DOMAIN Coordinates(sealed[n].corridor[Training])
           = TrueCoordinates(sources[n], Training)
    BY <2>1, MaterializedBatches, CoordinatesAreTrue
  <2>5. \A id \in HeldOutOf(rep) : side(id) = HeldOut
    BY <2>1, <2>2, SidesOfEvidence DEF HeldOutOf
  <2>6. \A c \in Last(Predecessor(rep).params).items : side(c[1]) = Training
    BY <2>1, <2>3, <2>4, SidesOfEvidence
  <2>7. \A key \in sealed[n].exemplars[Training].passports : side(key[1]) = Training
    BY <2>1, SidesOfEvidence
  <2> HIDE DEF side
  <2>. QED
    BY <2>1, <2>5, <2>6, <2>7
<1>. QED
  BY <1>1, SpecIInv, NamesAlwaysAgree, ReportsTell, PTL

\* The corridor pass gets past its look-ups exactly when the examples of the
\* training partition are the first ones of the registry.
THEOREM PassNeedsAPrefix ==
    ASSUME NEW s \in SourceSpace, NEW p \in Partitions, WellFormed(s),
           Complete(CorridorBatch(s, p))
    PROVE  NamesExist(CorridorBatch(s, p)) <=>
              RowsInside(s, p) = 1 .. Cardinality(RowsInside(s, p))
<1> DEFINE b == CorridorBatch(s, p)
           R == RowsInside(s, p)
           n == Cardinality(R)
<1>1. Rows(b) = R /\ IsFiniteSet(R) /\ DOMAIN b.ids = 1 .. n
  BY RowsOfCompleteBatch
<1>2. n \in Nat /\ IsFiniteSet(1 .. n) /\ Cardinality(1 .. n) = n
  BY <1>1, FS_CardinalityType, FS_Interval
<1>3. NamesExist(b) <=> R \subseteq 1 .. n
  BY <1>1 DEF NamesExist
<1>4. R \subseteq 1 .. n => R = 1 .. n
  BY <1>2, FS_Subset
<1>. QED
  BY <1>3, <1>4
-----------------------------------------------------------------------------
(***************************************************************************)
(* The split.  Inductions are by the least counterexample.                 *)
(***************************************************************************)
\* A nonempty set of numbers has a least one.
LEMMA LeastIsThere ==
    ASSUME NEW S \in SUBSET Nat, S # {}
    PROVE  Least(S) \in S /\ \A x \in S : Least(S) <= x
<1> DEFINE R == OpToRel(<, Nat)
<1>1. PICK m \in S : \A x \in S : <<x, m>> \notin R
  <2>1. IsWellFoundedOn(R, Nat)
    BY NatLessThanWellFounded, Zenon
  <2> HIDE DEF R
  <2>. QED
    BY <2>1, WFMin
<1>2. ASSUME NEW x \in S PROVE m <= x
  <2>1. <<x, m>> \in Nat \X Nat /\ ~(x < m)
    BY <1>1 DEF OpToRel
  <2>. QED
    BY <2>1
<1>. QED
  BY <1>2 DEF Least

\* A nonempty finite set of numbers has a greatest one: the last in its order.
LEMMA GreatestIsThere ==
    ASSUME NEW S \in SUBSET Nat, IsFiniteSet(S), S # {}
    PROVE  Greatest(S) \in S /\ \A x \in S : x <= Greatest(S)
<1> DEFINE n == Cardinality(S)
           z == Nth(S, n)
           T == {y \in S : y <= z}
<1>1. n \in 1 .. n
  BY FS_CardinalityType, FS_EmptySet
<1>2. z \in S /\ Cardinality(T) = n
  BY <1>1, NthIsThere
<1> HIDE DEF z
<1>3. T \in SUBSET S
  OBVIOUS
<1>4. T = S
  BY <1>2, <1>3, FS_Subset
<1>5. \A x \in S : x <= z
  BY <1>4
<1>. QED
  BY <1>2, <1>5 DEF Greatest

LEMMA ImageIsFinite ==
    ASSUME NEW S, IsFiniteSet(S), NEW f, DOMAIN f = S
    PROVE  IsFiniteSet({f[x] : x \in S})
<1> DEFINE T == {f[x] : x \in S}
           g == [x \in S |-> f[x]]
<1>1. g \in Surjection(S, T)
  BY DEF Surjection
<1>. QED
  BY <1>1, FS_Surjection

\* The two ids that a split reserves are different ones of the registry.
LEMMA EndsAreDifferent ==
    ASSUME NEW s \in SourceSpace, Splittable(s)
    PROVE  /\ First(s) \in Examples(s) /\ Final(s) \in Examples(s)
           /\ First(s) # Final(s)
<1> DEFINE E == ExemplarIds(s)
<1>1. Examples(s) \in SUBSET Nat
  BY LineageAssumption, ElementOfSeq DEF Examples, ToSet
<1>2. IsFiniteSet(E)
  <2> DEFINE f == [key \in s.passports |-> key[1]]
  <2>1. DOMAIN f = s.passports /\ E = {f[key] : key \in s.passports}
    BY DEF ExemplarIds
  <2>2. IsFiniteSet(s.passports)
    BY LineageAssumption
  <2> HIDE DEF f, E
  <2>. QED
    BY <2>1, <2>2, ImageIsFinite
<1>3. E \in SUBSET Nat /\ Cardinality(E) >= 2
  BY <1>1 DEF Splittable
<1>4. E # {}
  BY <1>3, FS_EmptySet
<1> HIDE DEF E
<1>5. /\ Least(E) \in E /\ Greatest(E) \in E
      /\ \A x \in E : Least(E) <= x /\ x <= Greatest(E)
  BY <1>2, <1>3, <1>4, LeastIsThere, GreatestIsThere
<1>6. ASSUME Least(E) = Greatest(E) PROVE FALSE
  <2>1. \A x \in E : x = Least(E)
    <3> SUFFICES ASSUME NEW x \in E PROVE x = Least(E)
      OBVIOUS
    <3>1. x \in Nat /\ Least(E) \in Nat /\ Least(E) <= x /\ x <= Least(E)
      BY <1>3, <1>5, <1>6
    <3>. QED
      BY <3>1
  <2>2. E = {Least(E)}
    BY <1>5, <2>1
  <2>3. Cardinality({Least(E)}) = 1
    BY FS_Singleton
  <2>4. Cardinality(E) = 1
    BY <2>2, <2>3
  <2>. QED
    BY <1>3, <2>4
<1>. QED
  BY <1>5, <1>6 DEF First, Final, Splittable, E

LEMMA OthersAreNumbers ==
    ASSUME NEW s \in SourceSpace
    PROVE  /\ Examples(s) \in SUBSET Nat /\ IsFiniteSet(Examples(s))
           /\ Others(s) \in SUBSET Nat /\ IsFiniteSet(Others(s))
           /\ Others(s) \in SUBSET Examples(s)
           /\ Cardinality(Others(s)) \in Nat
<1>1. Examples(s) \in SUBSET Nat
  BY LineageAssumption, ElementOfSeq DEF Examples, ToSet
<1>2. IsFiniteSet(DOMAIN s.registry)
  <2>1. s.registry \in Seq(Nat)
    BY LineageAssumption
  <2>2. DOMAIN s.registry = 1 .. Len(s.registry) /\ Len(s.registry) \in Nat
    BY <2>1, LenProperties
  <2>3. IsFiniteSet(1 .. Len(s.registry))
    BY <2>2, FS_Interval
  <2>. QED
    BY <2>2, <2>3, Zenon
<1>3. IsFiniteSet(Examples(s))
  BY <1>2, ImageIsFinite DEF Examples, ToSet
<1>. QED
  BY <1>1, <1>3, FS_Subset, FS_CardinalityType DEF Others

\* The splits after each of the first n others.
IsAllotment(s, n, g) ==
    g = [k \in 0 .. n |-> IF k = 0 THEN Reserved(s)
                          ELSE Allot(g[k - 1], Nth(Others(s), k))]

\* There is such a function, so that the recursive definition defines one.
LEMMA AllotmentExists ==
    ASSUME NEW s, NEW n \in Nat
    PROVE  \E g : IsAllotment(s, n, g)
<1> DEFINE Bad == {m \in Nat : ~ \E g : IsAllotment(s, m, g)}
<1>1. SUFFICES ASSUME Bad # {} PROVE FALSE
  OBVIOUS
<1>2. Bad \in SUBSET Nat
  OBVIOUS
<1> DEFINE m == Least(Bad)
<1> HIDE DEF Bad
<1>3. m \in Bad /\ \A x \in Bad : m <= x
  BY <1>1, <1>2, LeastIsThere
<1> USE DEF Bad
<1> HIDE DEF m
<1>4. CASE m = 0
  <2>1. IsAllotment(s, 0, [k \in 0 .. 0 |-> Reserved(s)])
    BY DEF IsAllotment
  <2>. QED
    BY <1>3, <1>4, <2>1
<1>5. CASE m # 0
  <2>1. m - 1 \in Nat /\ m - 1 \notin Bad
    BY <1>3, <1>5
  <2>2. PICK h : IsAllotment(s, m - 1, h)
    BY <2>1
  <2> DEFINE g == [k \in 0 .. m |-> IF k = m THEN Allot(h[m - 1], Nth(Others(s), m))
                                    ELSE h[k]]
  <2>3. \A k \in 0 .. m - 1 :
          /\ h[k] = IF k = 0 THEN Reserved(s) ELSE Allot(h[k - 1], Nth(Others(s), k))
          /\ g[k] = h[k]
    <3>1. \A k \in 0 .. m - 1 :
            h[k] = IF k = 0 THEN Reserved(s) ELSE Allot(h[k - 1], Nth(Others(s), k))
      BY <2>2, Zenon DEF IsAllotment
    <3>2. \A k \in 0 .. m - 1 : k \in 0 .. m /\ k # m
      BY <1>3
    <3>. QED
      BY <3>1, <3>2
  <2>4. \A k \in 0 .. m :
          g[k] = IF k = 0 THEN Reserved(s) ELSE Allot(g[k - 1], Nth(Others(s), k))
    <3> SUFFICES ASSUME NEW k \in 0 .. m
                 PROVE  g[k] = IF k = 0 THEN Reserved(s)
                               ELSE Allot(g[k - 1], Nth(Others(s), k))
      OBVIOUS
    <3>1. CASE k = m
      <4>1. g[k - 1] = h[m - 1] /\ g[k] = Allot(h[m - 1], Nth(Others(s), m))
        BY <1>3, <1>5, <2>3, <3>1
      <4>. QED
        BY <1>5, <3>1, <4>1
    <3>2. CASE k # m
      <4>1. k \in 0 .. m - 1 /\ (k # 0 => k - 1 \in 0 .. m - 1)
        BY <1>3, <3>2
      <4>. QED
        BY <2>3, <4>1
    <3>. QED
      BY <3>1, <3>2
  <2>5. IsAllotment(s, m, g)
    <3>1. g = [k \in 0 .. m |-> g[k]]
      OBVIOUS
    <3> HIDE DEF g
    <3>. QED
      BY <2>4, <3>1 DEF IsAllotment
  <2>. QED
    BY <1>3, <2>5
<1>. QED
  BY <1>4, <1>5

LEMMA AllottedStepByStep ==
    ASSUME NEW s \in SourceSpace, NEW k \in 0 .. Cardinality(Others(s))
    PROVE  Allotted(s)[k] =
              IF k = 0 THEN Reserved(s)
              ELSE Allot(Allotted(s)[k - 1], Nth(Others(s), k))
<1> DEFINE n == Cardinality(Others(s))
<1>1. n \in Nat
  BY OthersAreNumbers
<1>2. \E g : IsAllotment(s, n, g)
  BY <1>1, AllotmentExists
<1>3. IsAllotment(s, n, Allotted(s))
  BY <1>2 DEF Allotted, IsAllotment
<1>. QED
  BY <1>3, Zenon DEF IsAllotment

\* The ids that have a side of their own after k of the others.
Seen(s, k) == {First(s), Final(s)} \cup {Nth(Others(s), j) : j \in 1 .. k}

\* Training is ahead by one after an odd number of the others, and the counts
\* are those of the ids seen.
TakesTurns(s, k) ==
    LET split == Allotted(s)[k]
    IN /\ split.sides \in [Examples(s) -> Partitions]
       /\ split.counts \in [Partitions -> Nat]
       /\ split.counts[Training] = split.counts[HeldOut] + (k % 2)
       /\ split.sides[First(s)] = Training /\ split.sides[Final(s)] = HeldOut
       /\ \A j \in 1 .. k :
             split.sides[Nth(Others(s), j)] =
                 IF j % 2 = 1 THEN Training ELSE HeldOut
       /\ \A p \in Partitions :
             split.counts[p] = Cardinality({id \in Seen(s, k) : split.sides[id] = p})

LEMMA NextOther ==
    ASSUME NEW s \in SourceSpace, Splittable(s),
           NEW k \in Nat, k < Cardinality(Others(s))
    PROVE  /\ Nth(Others(s), k + 1) \in Others(s)
           /\ Nth(Others(s), k + 1) \notin Seen(s, k)
           /\ Seen(s, k + 1) = Seen(s, k) \cup {Nth(Others(s), k + 1)}
           /\ Seen(s, k) \in SUBSET Examples(s)
           /\ \A j \in 1 .. k : Nth(Others(s), j) # Nth(Others(s), k + 1)
<1> DEFINE O == Others(s)
           n == Cardinality(O)
<1>1. O \in SUBSET Nat /\ IsFiniteSet(O) /\ O \in SUBSET Examples(s) /\ n \in Nat
  BY OthersAreNumbers
<1> HIDE DEF O
<1>2. \A j \in 1 .. n : Nth(O, j) \in O /\ Cardinality({y \in O : y <= Nth(O, j)}) = j
  BY <1>1, NthIsThere
<1>3. \A j \in 1 .. k : j \in 1 .. n /\ j # k + 1
  BY <1>1 DEF O
<1>4. k + 1 \in 1 .. n
  BY <1>1 DEF O
<1>5. \A j \in 1 .. k : Nth(O, j) \in O /\ Nth(O, j) # Nth(O, k + 1)
  BY <1>2, <1>3, <1>4
<1>6. Nth(O, k + 1) \in O /\ Nth(O, k + 1) \notin {First(s), Final(s)}
  BY <1>2, <1>4 DEF O, Others
<1>7. 1 .. k + 1 = (1 .. k) \cup {k + 1}
  OBVIOUS
<1>8. Seen(s, k + 1) = Seen(s, k) \cup {Nth(O, k + 1)}
  BY <1>7 DEF Seen, O
<1>9. Seen(s, k) \in SUBSET Examples(s)
  BY <1>1, <1>5, EndsAreDifferent DEF Seen, O
<1>. QED
  BY <1>5, <1>6, <1>8, <1>9 DEF Seen, O

LEMMA FirstTurn ==
    ASSUME NEW s \in SourceSpace, Splittable(s)
    PROVE  TakesTurns(s, 0)
<1>1. Allotted(s)[0] = Reserved(s)
  BY AllottedStepByStep, OthersAreNumbers
<1>2. /\ First(s) \in Examples(s) /\ Final(s) \in Examples(s)
      /\ First(s) # Final(s) /\ Seen(s, 0) = {First(s), Final(s)}
  BY EndsAreDifferent DEF Seen
<1>3. /\ {id \in Seen(s, 0) : Reserved(s).sides[id] = Training} = {First(s)}
      /\ {id \in Seen(s, 0) : Reserved(s).sides[id] = HeldOut} = {Final(s)}
  BY <1>2 DEF Reserved, Training, HeldOut
<1>4. \A p \in Partitions :
        Reserved(s).counts[p] = Cardinality({id \in Seen(s, 0) : Reserved(s).sides[id] = p})
  <2>1. Cardinality({First(s)}) = 1 /\ Cardinality({Final(s)}) = 1
    BY FS_Singleton
  <2>2. \A p \in Partitions : Reserved(s).counts[p] = 1
    BY DEF Reserved
  <2>. QED
    BY <1>3, <2>1, <2>2 DEF Partitions
<1>5. /\ Reserved(s).sides \in [Examples(s) -> Partitions]
      /\ Reserved(s).counts \in [Partitions -> Nat]
      /\ Reserved(s).counts[Training] = Reserved(s).counts[HeldOut] + (0 % 2)
      /\ Reserved(s).sides[First(s)] = Training /\ Reserved(s).sides[Final(s)] = HeldOut
  BY <1>2 DEF Reserved, Partitions
<1>. QED
  BY <1>1, <1>4, <1>5 DEF TakesTurns

LEMMA NextTurn ==
    ASSUME NEW s \in SourceSpace, Splittable(s),
           NEW k \in Nat, k < Cardinality(Others(s)), TakesTurns(s, k)
    PROVE  TakesTurns(s, k + 1)
<1> DEFINE id == Nth(Others(s), k + 1)
           old == Allotted(s)[k]
           new == Allotted(s)[k + 1]
           side == IF old.counts[Training] <= old.counts[HeldOut]
                   THEN Training ELSE HeldOut
<1>1. new = Allot(old, id)
  <2>1. k + 1 \in 0 .. Cardinality(Others(s)) /\ k + 1 # 0 /\ (k + 1) - 1 = k
    BY OthersAreNumbers
  <2>. QED
    BY <2>1, AllottedStepByStep
<1>2. /\ id \in Others(s) /\ id \notin Seen(s, k)
      /\ Seen(s, k + 1) = Seen(s, k) \cup {id} /\ Seen(s, k) \in SUBSET Examples(s)
      /\ \A j \in 1 .. k : Nth(Others(s), j) # id
  BY NextOther
<1>3. id \in Examples(s) /\ id # First(s) /\ id # Final(s)
  BY <1>2, OthersAreNumbers DEF Others
<1>4. /\ old.sides \in [Examples(s) -> Partitions]
      /\ old.counts \in [Partitions -> Nat]
      /\ old.counts[Training] = old.counts[HeldOut] + (k % 2)
      /\ old.sides[First(s)] = Training /\ old.sides[Final(s)] = HeldOut
      /\ \A j \in 1 .. k :
            old.sides[Nth(Others(s), j)] = IF j % 2 = 1 THEN Training ELSE HeldOut
      /\ \A p \in Partitions :
            old.counts[p] = Cardinality({x \in Seen(s, k) : old.sides[x] = p})
  BY DEF TakesTurns
<1> HIDE DEF id, old, new
<1>5. /\ side \in Partitions
      /\ side = IF (k + 1) % 2 = 1 THEN Training ELSE HeldOut
      /\ k % 2 \in {0, 1} /\ (k + 1) % 2 = 1 - (k % 2)
  <2>1. old.counts[Training] \in Nat /\ old.counts[HeldOut] \in Nat
    BY <1>4 DEF Partitions
  <2>2. k % 2 \in {0, 1} /\ (k + 1) % 2 = 1 - (k % 2)
    OBVIOUS
  <2>3. old.counts[Training] <= old.counts[HeldOut] <=> k % 2 = 0
    BY <1>4, <2>1, <2>2
  <2>4. side = IF k % 2 = 0 THEN Training ELSE HeldOut
    BY <2>3
  <2>. QED
    BY <2>2, <2>4 DEF Partitions
<1>6. /\ new.sides = [old.sides EXCEPT ![id] = side]
      /\ new.counts = [old.counts EXCEPT ![side] = @ + 1]
  BY <1>1 DEF Allot
<1> HIDE DEF side
<1>7. new.sides \in [Examples(s) -> Partitions] /\ new.counts \in [Partitions -> Nat]
  <2>1. old.counts[side] + 1 \in Nat
    BY <1>4, <1>5
  <2>2. new.sides \in [Examples(s) -> Partitions]
    BY <1>4, <1>5, <1>6
  <2>3. new.counts \in [Partitions -> Nat]
    BY <1>4, <1>5, <1>6, <2>1
  <2>. QED
    BY <2>2, <2>3
<1>8. new.counts[Training] = new.counts[HeldOut] + ((k + 1) % 2)
  <2>1. /\ old.counts[Training] \in Nat /\ old.counts[HeldOut] \in Nat
        /\ DOMAIN old.counts = Partitions /\ Training # HeldOut
    BY <1>4 DEF Partitions, Training, HeldOut
  <2>2. CASE k % 2 = 0
    <3>1. side = Training
      BY <1>5, <2>2
    <3>2. /\ new.counts[Training] = old.counts[Training] + 1
          /\ new.counts[HeldOut] = old.counts[HeldOut]
      BY <1>6, <2>1, <3>1 DEF Partitions
    <3>3. new.counts[Training] = new.counts[HeldOut] + 1
      BY <1>4, <2>1, <2>2, <3>2
    <3>4. (k + 1) % 2 = 1
      BY <1>5, <2>2
    <3>. QED
      BY <3>3, <3>4
  <2>3. CASE k % 2 = 1
    <3>1. side = HeldOut
      BY <1>5, <2>3
    <3>2. /\ new.counts[Training] = old.counts[Training]
          /\ new.counts[HeldOut] = old.counts[HeldOut] + 1
      BY <1>6, <2>1, <3>1 DEF Partitions
    <3>. QED
      BY <1>4, <1>5, <2>1, <2>3, <3>2
  <2>. QED
    BY <1>5, <2>2, <2>3
<1>9. new.sides[First(s)] = Training /\ new.sides[Final(s)] = HeldOut
  BY <1>3, <1>4, <1>6, EndsAreDifferent
<1>10. ASSUME NEW j \in 1 .. k + 1
       PROVE  new.sides[Nth(Others(s), j)] = IF j % 2 = 1 THEN Training ELSE HeldOut
  <2>1. CASE j = k + 1
    BY <1>3, <1>4, <1>5, <1>6, <2>1 DEF id
  <2>2. CASE j # k + 1
    <3>1. j \in 1 .. k
      BY <2>2
    <3>2. Nth(Others(s), j) # id
      BY <1>2, <3>1
    <3>3. new.sides[Nth(Others(s), j)] = old.sides[Nth(Others(s), j)]
      BY <1>4, <1>6, <3>2
    <3>. QED
      BY <1>4, <3>1, <3>3
  <2>. QED
    BY <2>1, <2>2
<1>11. ASSUME NEW p \in Partitions
       PROVE  new.counts[p] = Cardinality({x \in Seen(s, k + 1) : new.sides[x] = p})
  <2> DEFINE A == {x \in Seen(s, k) : old.sides[x] = p}
             B == {x \in Seen(s, k + 1) : new.sides[x] = p}
  <2>1. \A x \in Seen(s, k) : new.sides[x] = old.sides[x]
    BY <1>2, <1>4, <1>6
  <2>2. new.sides[id] = side
    BY <1>3, <1>4, <1>6
  <2>3. id \notin A /\ IsFiniteSet(A) /\ Cardinality(A) = old.counts[p]
    <3>1. A \in SUBSET Examples(s) /\ IsFiniteSet(Examples(s))
      BY <1>2, OthersAreNumbers
    <3>2. IsFiniteSet(A)
      BY <3>1, FS_Subset
    <3>. QED
      BY <1>2, <1>4, <3>2
  <2>4. B = IF p = side THEN A \cup {id} ELSE A
    BY <1>2, <2>1, <2>2
  <2> HIDE DEF A, B
  <2>5. CASE p = side
    <3>1. Cardinality(A \cup {id}) = Cardinality(A) + 1
      BY <2>3, FS_AddElement
    <3>2. new.counts[p] = old.counts[p] + 1
      BY <1>4, <1>6, <2>5
    <3>. QED
      BY <2>3, <2>4, <2>5, <3>1, <3>2 DEF B
  <2>6. CASE p # side
    <3>1. new.counts[p] = old.counts[p]
      BY <1>4, <1>6, <2>6
    <3>. QED
      BY <2>3, <2>4, <2>6, <3>1 DEF B
  <2>. QED
    BY <2>5, <2>6
<1>. QED
  BY <1>7, <1>8, <1>9, <1>10, <1>11 DEF TakesTurns, new

LEMMA EveryTurn ==
    ASSUME NEW s \in SourceSpace, Splittable(s), NEW k \in 0 .. Cardinality(Others(s))
    PROVE  TakesTurns(s, k)
<1> DEFINE n == Cardinality(Others(s))
           Bad == {i \in 0 .. n : ~TakesTurns(s, i)}
           m == Least(Bad)
<1>1. n \in Nat /\ Bad \in SUBSET Nat
  BY OthersAreNumbers
<1>2. SUFFICES ASSUME Bad # {} PROVE FALSE
  OBVIOUS
<1> HIDE DEF Bad, n
<1>3. m \in Bad /\ \A i \in Bad : m <= i
  BY <1>1, <1>2, LeastIsThere
<1> HIDE DEF m
<1>4. m \in 0 .. n /\ ~TakesTurns(s, m)
  BY <1>3 DEF Bad
<1>5. m # 0
  BY <1>4, FirstTurn
<1>6. m - 1 \in Nat /\ m - 1 < n /\ m - 1 \in 0 .. n /\ m - 1 \notin Bad /\ (m - 1) + 1 = m
  BY <1>1, <1>3, <1>4, <1>5
<1>7. TakesTurns(s, m - 1)
  BY <1>6 DEF Bad
<1>8. TakesTurns(s, (m - 1) + 1)
  BY <1>6, <1>7, NextTurn DEF n
<1>. QED
  BY <1>4, <1>6, <1>8

\* The split keeps the policy's promise (behavior/policies.py, 43-57): the
\* first exemplar trains, the last is held out, and of the examples between,
\* in the order of their ids, every other one trains, the first of them too.
THEOREM SplitTakesTurns ==
    ASSUME NEW s \in SourceSpace, Splittable(s)
    PROVE  Alternates(s)
<1> DEFINE O == Others(s)
           n == Cardinality(O)
           turn(id) == Cardinality({x \in O : x < id})
<1>1. O \in SUBSET Nat /\ IsFiniteSet(O) /\ n \in Nat
  BY OthersAreNumbers
<1>2. TakesTurns(s, n)
  BY <1>1, EveryTurn
<1>3. /\ Split(s)[First(s)] = Training /\ Split(s)[Final(s)] = HeldOut
      /\ \A j \in 1 .. n :
            Split(s)[Nth(O, j)] = IF j % 2 = 1 THEN Training ELSE HeldOut
  BY <1>2 DEF TakesTurns, Split
<1> HIDE DEF O, n
<1>4. ASSUME NEW id \in O
      PROVE  Split(s)[id] = IF turn(id) % 2 = 0 THEN Training ELSE HeldOut
  <2> DEFINE A == {x \in O : x < id}
             B == {x \in O : x <= id}
             j == Cardinality(B)
  <2>1. j \in 1 .. n /\ IsFiniteSet(B) /\ Nth(O, j) = id
    BY <1>1, PlaceBounds, NthOfPlace DEF n
  <2>2. B = A \cup {id} /\ id \notin A
    <3>1. id \in Nat /\ ~(id < id)
      BY <1>1
    <3>2. \A x \in O : x <= id <=> x < id \/ x = id
      BY <1>1, <3>1
    <3>. QED
      BY <3>1, <3>2
  <2>3. IsFiniteSet(A)
    BY <2>1, <2>2, FS_Subset
  <2>4. Cardinality(A) \in Nat /\ j = Cardinality(A) + 1
    BY <2>2, <2>3, FS_AddElement, FS_CardinalityType
  <2>5. j % 2 = 1 <=> Cardinality(A) % 2 = 0
    <3> DEFINE a == Cardinality(A)
    <3>1. a \in Nat /\ j = a + 1
      BY <2>4
    <3> HIDE DEF a, j
    <3>2. (a + 1) % 2 = 1 <=> a % 2 = 0
      BY <3>1
    <3>3. j % 2 = 1 <=> a % 2 = 0
      BY <3>1, <3>2
    <3>. QED
      BY <3>3 DEF a
  <2>6. Split(s)[id] = IF j % 2 = 1 THEN Training ELSE HeldOut
    BY <1>3, <2>1
  <2>. QED
    BY <2>5, <2>6
<1>5. \A id \in O : Split(s)[id] = IF turn(id) % 2 = 0 THEN Training ELSE HeldOut
  BY <1>4
<1>. QED
  BY <1>3, <1>5 DEF Alternates, O

\* The training side of a split is never smaller than the held-out side, and
\* at most one example larger.
THEOREM SplitIsBalanced ==
    ASSUME NEW s \in SourceSpace, Splittable(s)
    PROVE  LET size(p) == Cardinality({id \in Examples(s) : Split(s)[id] = p})
           IN size(Training) \in {size(HeldOut), size(HeldOut) + 1}
<1> DEFINE O == Others(s)
           n == Cardinality(O)
           size(p) == Cardinality({id \in Examples(s) : Split(s)[id] = p})
           split == Allotted(s)[n]
<1>1. O \in SUBSET Nat /\ IsFiniteSet(O) /\ n \in Nat
  BY OthersAreNumbers
<1>2. TakesTurns(s, n)
  BY <1>1, EveryTurn
<1>3. Seen(s, n) = Examples(s)
  <2>1. {Nth(O, j) : j \in 1 .. n} = O
    <3>1. \A j \in 1 .. n : Nth(O, j) \in O
      BY <1>1, NthIsThere
    <3>2. ASSUME NEW id \in O
          PROVE  \E j \in 1 .. n : Nth(O, j) = id
      BY <1>1, PlaceBounds, NthOfPlace
    <3> HIDE DEF O, n
    <3>. QED
      BY <3>1, <3>2
  <2>2. Seen(s, n) = {First(s), Final(s)} \cup O
    BY <2>1 DEF Seen
  <2>. QED
    BY <2>2, EndsAreDifferent DEF Others
<1>4. /\ split.counts \in [Partitions -> Nat]
      /\ split.counts[Training] = split.counts[HeldOut] + (n % 2)
      /\ \A p \in Partitions :
            split.counts[p] = Cardinality({id \in Seen(s, n) : split.sides[id] = p})
  BY <1>2 DEF TakesTurns
<1>5. \A p \in Partitions : split.counts[p] = size(p)
  BY <1>3, <1>4 DEF Split
<1> HIDE DEF n, split, size
<1>6. size(Training) = size(HeldOut) + (n % 2) /\ size(HeldOut) \in Nat
  BY <1>4, <1>5 DEF Partitions
<1>7. n % 2 \in {0, 1}
  BY <1>1 DEF n
<1>8. size(Training) \in {size(HeldOut), size(HeldOut) + 1}
  BY <1>6, <1>7
<1>. QED
  BY <1>8 DEF size

\* Whatever sources the files hold at any time, a split of theirs alternates.
THEOREM SplitsAlternate == Spec => []SplitAlternates
<1>1. TypeOK => SplitAlternates
  <2> SUFFICES ASSUME TypeOK, NEW name \in Names, Splittable(sources[name])
               PROVE  Alternates(sources[name])
    BY DEF SplitAlternates
  <2>1. sources[name] \in SourceSpace
    BY DEF TypeOK
  <2>. QED
    BY <2>1, SplitTakesTurns
<1>. QED
  BY <1>1, TypesHold, PTL
-----------------------------------------------------------------------------
(***************************************************************************)
(* When a corridor pass dies.  It is the source alone that decides.        *)
(***************************************************************************)
TrainingBatch(n) == CorridorBatch(sources[n], Training)

SourceDecides ==
    /\ \A r \in corridors : NamesExist(TrainingBatch(r.checkpoint.source))
    /\ \A n \in indexErrors : ~NamesExist(TrainingBatch(n))

LEMMA SourceDecidesStep == IInv /\ SourceDecides /\ [Next]_vars => SourceDecides'
<1>. SUFFICES ASSUME IInv, SourceDecides, [Next]_vars PROVE SourceDecides'
  OBVIOUS
<1>1. ASSUME NEW n \in Materialized
      PROVE  sealed[n].corridor[Training] = TrainingBatch(n)
  BY MaterializedBatches DEF IInv, TrainingBatch, Partitions
<1>2. ASSUME sources' = sources, corridors' = corridors, indexErrors' = indexErrors
      PROVE  SourceDecides'
  BY <1>2 DEF SourceDecides, TrainingBatch
<1>3. ASSUME NEW n \in Names, NEW m \in Names, NEW p \in Names, NEW b \in Names,
             NEW q \in Partitions, NEW params \in Held, NEW cursor \in Cursors,
             RunCorridorPass(n, q, m, p, b, params, cursor)
      PROVE  SourceDecides'
  <2> DEFINE r == CorridorResult(sealed[n].corridor[q], m, b, params, cursor)
  <2>1. /\ n = m /\ q = Training /\ m \in Materialized
        /\ CorridorBinding(b).source = m
        /\ NamesExist(sealed[n].corridor[q])
        /\ corridors' = corridors \cup {r}
        /\ sources' = sources /\ indexErrors' = indexErrors
    BY <1>3 DEF RunCorridorPass, CorridorAdmitted, SealedTrainingBatch, heldVars
  <2>2. r.checkpoint.source = m
    BY <2>1 DEF CorridorResult
  <2> HIDE DEF r
  <2>3. NamesExist(TrainingBatch(m))
    BY <1>1, <2>1
  <2>. QED
    BY <2>1, <2>2, <2>3 DEF SourceDecides, TrainingBatch
<1>4. ASSUME NEW n \in Names, NEW m \in Names, NEW p \in Names, NEW b \in Names,
             NEW q \in Partitions, CorridorPassDies(n, q, m, p, b)
      PROVE  SourceDecides'
  <2>1. /\ n = m /\ q = Training /\ m \in Materialized
        /\ ~NamesExist(sealed[n].corridor[q])
        /\ indexErrors' = indexErrors \cup {m}
        /\ sources' = sources /\ corridors' = corridors
    BY <1>4 DEF CorridorPassDies, CorridorAdmitted, SealedTrainingBatch, heldVars
  <2>2. ~NamesExist(TrainingBatch(m))
    BY <1>1, <2>1
  <2>. QED
    BY <2>1, <2>2 DEF SourceDecides, TrainingBatch
<1>5. CASE CallExemplarPass \/ CallEvaluation \/ UNCHANGED vars
  <2>1. sources' = sources /\ corridors' = corridors /\ indexErrors' = indexErrors
    BY <1>5 DEF CallExemplarPass, RunExemplarPass, CallEvaluation, Evaluate,
                heldVars, vars
  <2>. QED
    BY <1>2, <2>1
<1>. QED
  BY <1>3, <1>4, <1>5 DEF Next, CallCorridorPass, CallCorridorPassThatDies

\* Only sources whose training partition is not the first rows of their
\* registry make an admitted corridor pass die (behavior/corridor_pass.py, 225
\* and 303), and no pass over one of them ever returns: whatever the caller
\* passes along, a source whose pass died has no corridor checkpoint.
THEOREM DeathsHaveACause ==
    Spec => [](/\ \A n \in indexErrors :
                     RowsInside(sources[n], Training)
                         # 1 .. Cardinality(RowsInside(sources[n], Training))
               /\ \A r \in corridors : r.checkpoint.source \notin indexErrors)
<1>1. Init => SourceDecides
  BY DEF Init, SourceDecides
<1>2. Spec => []SourceDecides
  BY <1>1, SpecIInv, SourceDecidesStep, PTL DEF Spec
<1>3. IInv /\ SourceDecides =>
        /\ \A n \in indexErrors :
              RowsInside(sources[n], Training)
                  # 1 .. Cardinality(RowsInside(sources[n], Training))
        /\ \A r \in corridors : r.checkpoint.source \notin indexErrors
  <2>. SUFFICES ASSUME IInv, SourceDecides, NEW n \in indexErrors
                PROVE  RowsInside(sources[n], Training)
                         # 1 .. Cardinality(RowsInside(sources[n], Training))
    BY DEF SourceDecides
  <2>1. n \in Materialized /\ Training \in Partitions
    BY DEF IInv, Partitions
  <2>2. /\ sources[n] \in SourceSpace /\ WellFormed(sources[n])
        /\ Complete(CorridorBatch(sources[n], Training))
    BY <2>1, MaterializedBatches DEF IInv
  <2>3. ~NamesExist(CorridorBatch(sources[n], Training))
    BY DEF SourceDecides, TrainingBatch
  <2>. QED
    BY <2>1, <2>2, <2>3, PassNeedsAPrefix
<1>. QED
  BY <1>2, <1>3, SpecIInv, PTL

\* In a registry that lists its ids in their order, three ids beside the two
\* reserved ones are enough for every corridor pass to die: the second of them
\* is held out and the third trains, so the training rows have a gap.
THEOREM SortedRegistriesDie ==
    ASSUME NEW s \in SourceSpace, WellFormed(s), Splittable(s),
           \A r, q \in DOMAIN s.registry : r < q => s.registry[r] < s.registry[q],
           Cardinality(Others(s)) >= 3, Complete(CorridorBatch(s, Training))
    PROVE  ~NamesExist(CorridorBatch(s, Training))
<1> DEFINE O == Others(s)
           n == Cardinality(O)
           R == RowsInside(s, Training)
           second == Nth(O, 2)
           third == Nth(O, 3)
<1>1. O \in SUBSET Nat /\ IsFiniteSet(O) /\ O \in SUBSET Examples(s) /\ n \in Nat
  BY OthersAreNumbers
<1>2. 2 \in 1 .. n /\ 3 \in 1 .. n /\ n \in 0 .. n
  BY <1>1
<1>3. /\ second \in O /\ Cardinality({y \in O : y <= second}) = 2
      /\ third \in O /\ Cardinality({y \in O : y <= third}) = 3
  BY <1>1, <1>2, NthIsThere
<1>4. Split(s)[second] # Training /\ Split(s)[third] = Training
  <2>1. TakesTurns(s, n)
    BY <1>2, EveryTurn
  <2>2. 2 % 2 = 0 /\ 3 % 2 = 1
    OBVIOUS
  <2>. QED
    BY <1>2, <2>1, <2>2 DEF TakesTurns, Split, Training, HeldOut
<1>5. second < third
  <2> DEFINE A == {y \in O : y <= second}
             B == {y \in O : y <= third}
  <2>1. second \in Nat /\ third \in Nat
    BY <1>1, <1>3
  <2>2. ASSUME third <= second PROVE FALSE
    <3>1. \A y \in O : y <= third => y <= second
      BY <1>1, <2>1, <2>2
    <3>2. B \in SUBSET A /\ IsFiniteSet(A)
      BY <1>1, <3>1, FS_Subset
    <3>3. Cardinality(B) <= Cardinality(A)
      BY <3>2, FS_Subset
    <3>. QED
      BY <1>3, <3>3
  <2>. QED
    BY <2>1, <2>2
<1> HIDE DEF O, n, second, third
<1>6. PICK r \in DOMAIN s.registry : s.registry[r] = second
  BY <1>1, <1>3 DEF Examples, ToSet
<1>7. PICK q \in DOMAIN s.registry : s.registry[q] = third
  BY <1>1, <1>3 DEF Examples, ToSet
<1>8. DOMAIN s.registry \in SUBSET (Nat \ {0})
  <2>1. s.registry \in Seq(Nat)
    BY LineageAssumption
  <2>. QED
    BY <2>1, LenProperties
<1>9. r < q
  <2>1. second \in Nat /\ third \in Nat /\ r \in Nat /\ q \in Nat
    BY <1>1, <1>3, <1>8
  <2>2. r # q
    BY <1>5, <1>6, <1>7, <2>1
  <2>3. ~(q < r)
    BY <1>5, <1>6, <1>7, <2>1
  <2>. QED
    BY <2>1, <2>2, <2>3
<1>10. q \in R /\ r \notin R
  BY <1>4, <1>6, <1>7 DEF RowsInside
<1>11. R # 1 .. Cardinality(R)
  <2>1. Cardinality(R) \in Nat
    BY RowsOfCompleteBatch, FS_CardinalityType DEF Partitions
  <2> HIDE DEF R
  <2>. QED
    BY <1>8, <1>9, <1>10, <2>1
<1>. QED
  BY <1>11, PassNeedsAPrefix DEF Partitions
=============================================================================
