----------------------- MODULE CheckpointPublishProofs -----------------------
(***************************************************************************)
(* Theorems about CheckpointPublish, for any number of savers of either    *)
(* kind, names and faults.                                                 *)
(***************************************************************************)
EXTENDS CheckpointPublish, TLAPS

(***************************************************************************)
(* The inductive invariant.  That what shows is whole follows from what is *)
(* on disk before the rename; that nothing acknowledged is lost, from the  *)
(* disk having no choice left under a settled name.                        *)
(***************************************************************************)
Complete(s) ==
  [owner |-> s, written |-> Parts(s), synced |-> Parts(s), listed |-> Parts(s)]

Siblings ==
  \A s \in Savers :
    /\ pc[s] \in {"write", "sync"} =>
         /\ temporary[s] \in Directories /\ temporary[s].owner = s
         /\ temporary[s].written \subseteq Parts(s)
    /\ pc[s] = "sync" => temporary[s].written = Parts(s)
    /\ pc[s] \in {"exists", "rmdir", "rename"} => temporary[s] = Complete(s)

Shown ==
  \A n \in Names :
    /\ dest[n] \in {Absent, Empty, Foreign} \cup { Complete(s) : s \in Savers }
    /\ dest[n] \in possible[n]
    /\ possible[n] \subseteq {Absent, Empty, dest[n]}
    /\ n \in settled => possible[n] = {dest[n]} /\ dest[n] \notin {Absent, Empty}
    /\ dest[n] = Foreign => n \in settled

Placed ==
  \A s \in Savers :
    /\ pc[s] = "sync_parent" => dest[target[s]] = Complete(s)
    /\ pc[s] = "saved" => dest[target[s]] = Complete(s) /\ target[s] \in settled

IInv == TypeOK /\ Siblings /\ Shown /\ Placed

LEMMA PartsFacts ==
  ASSUME NEW s \in Savers
  PROVE  Parts(s) \subseteq AllParts /\ Complete(s) \in Directories /\ Complete(s).owner = s
BY DEF Parts, AllParts, Complete, Directories

\* No directory of a saver is a sentinel.
LEMMA CompleteIsNotSentinel ==
  ASSUME NEW s \in Savers
  PROVE  Complete(s) \notin {Absent, Empty, Foreign}
BY PartsFacts, PublishAssumption

\* A complete directory has one outcome on disk, and so have the others.
LEMMA OnDiskFacts ==
  /\ \A s \in Savers : OnDisk(Complete(s)) = {Complete(s)}
  /\ \A e \in {Absent, Empty, Foreign} : OnDisk(e) = {e}
<1>1. ASSUME NEW s \in Savers PROVE OnDisk(Complete(s)) = {Complete(s)}
  <2> DEFINE kept == { v \in SUBSET Parts(s) : Parts(s) \cap Parts(s) \subseteq v }
             left(w) == [owner |-> s, written |-> w, synced |-> w, listed |-> w]
  <2>1. OnDisk(Complete(s)) = { left(w) : w \in kept }
    BY PartsFacts DEF OnDisk, Complete
  <2>2. kept = {Parts(s)}
    OBVIOUS
  <2>3. left(Parts(s)) = Complete(s)
    BY DEF Complete
  <2> HIDE DEF kept, left
  <2>4. QED BY <2>1, <2>2, <2>3
<1>2. ASSUME NEW e \in {Absent, Empty, Foreign} PROVE OnDisk(e) = {e}
  BY <1>2, PublishAssumption DEF OnDisk
<1>3. QED BY <1>1, <1>2

LEMMA InitIInv == Init => IInv
<1> SUFFICES ASSUME Init PROVE IInv
  OBVIOUS
<1>1. TypeOK
  BY PublishAssumption DEF Init, TypeOK, Entries, Working
<1>2. Siblings /\ Placed
  BY DEF Init, Siblings, Placed
<1>3. Shown
  BY PublishAssumption DEF Init, Shown
<1>4. QED BY <1>1, <1>2, <1>3 DEF IInv

\* The steps in which a saver only works on its hidden sibling or looks.
LEMMA PrivateSteps ==
  ASSUME IInv, NEW s \in Savers,
         \/ Check(s) \/ MakeTemporary(s) \/ SyncListing(s) \/ LookUp(s)
         \/ \E p \in AllParts : Write(s, p) \/ SyncFile(s, p)
  PROVE  IInv'
<1>1. Parts(s) \subseteq AllParts /\ Complete(s) \in Directories
  BY PartsFacts
<1>2. CASE Check(s)
  BY <1>2 DEF Check, Go, IInv, TypeOK, Working, Siblings, Shown, Placed
<1>3. CASE MakeTemporary(s)
  <2>1. [owner |-> s, written |-> {}, synced |-> {}, listed |-> {}] \in Directories
    BY DEF Directories
  <2>2. QED BY <1>3, <2>1 DEF MakeTemporary, Go, IInv, TypeOK, Working, Siblings,
                              Shown, Placed
<1>4. ASSUME NEW p \in AllParts, Write(s, p)
      PROVE  IInv'
  <2>1. temporary[s] \in Directories /\ temporary[s].owner = s
        /\ temporary[s].written \subseteq Parts(s)
    BY <1>4 DEF Write, IInv, Siblings
  <2>2. p \in Parts(s)
        /\ (p = "manifest" => Parts(s) \ temporary[s].written = {"manifest"})
    BY <1>4 DEF Write, NextPart
  <2>3. /\ temporary'[s] \in Directories /\ temporary'[s].owner = s
        /\ temporary'[s].written = temporary[s].written \cup {p}
        /\ \A t \in Savers \ {s} : temporary'[t] = temporary[t]
    BY <1>4, <2>1 DEF Write, IInv, TypeOK, Directories
  <2>4. p = "manifest" => temporary'[s].written = Parts(s)
    BY <2>1, <2>2, <2>3
  <2>5. /\ pc' = [pc EXCEPT ![s] = IF p = "manifest" THEN "sync" ELSE "write"]
        /\ UNCHANGED <<dest, possible, target, settled, faults>>
    BY <1>4 DEF Write, Go
  <2>6. TypeOK'
    <3>1. temporary' \in [Savers -> Directories \cup {Absent}]
      BY <1>4, <2>3 DEF Write, IInv, TypeOK
    <3>2. QED BY <2>5, <3>1 DEF IInv, TypeOK, Working
  <2>7. Siblings'
    BY <2>1, <2>2, <2>3, <2>4, <2>5 DEF IInv, TypeOK, Siblings
  <2>8. Shown' /\ Placed'
    BY <2>5 DEF IInv, TypeOK, Shown, Placed
  <2>9. QED BY <2>6, <2>7, <2>8 DEF IInv
<1>5. ASSUME NEW p \in AllParts, SyncFile(s, p)
      PROVE  IInv'
  <2>1. temporary[s] \in Directories
    BY <1>5 DEF SyncFile, IInv, Siblings
  <2>2. /\ temporary'[s] \in Directories /\ temporary'[s].owner = temporary[s].owner
        /\ temporary'[s].written = temporary[s].written
        /\ \A t \in Savers \ {s} : temporary'[t] = temporary[t]
    BY <1>5, <2>1 DEF SyncFile, IInv, TypeOK, Directories
  <2>3. TypeOK'
    BY <1>5, <2>2 DEF SyncFile, IInv, TypeOK
  <2>4. QED BY <1>5, <2>2, <2>3 DEF SyncFile, IInv, Siblings, Shown, Placed
<1>6. CASE SyncListing(s)
  <2>1. /\ temporary[s] \in Directories /\ temporary[s].owner = s
        /\ temporary[s].written = Parts(s) /\ temporary[s].synced = Parts(s)
    BY <1>6 DEF SyncListing, IInv, Siblings
  <2>2. [temporary[s] EXCEPT !.listed = temporary[s].written] = Complete(s)
    BY <2>1 DEF Directories, Complete
  <2>3. temporary' = [temporary EXCEPT ![s] = Complete(s)]
    BY <1>6, <2>2 DEF SyncListing
  <2>4. QED BY <1>1, <1>6, <2>3 DEF SyncListing, Go, IInv, TypeOK, Working, Siblings,
                                    Shown, Placed
<1>7. CASE LookUp(s)
  BY <1>7 DEF LookUp, Go, IInv, TypeOK, Working, Siblings, Shown, Placed
<1>8. QED BY <1>2, <1>3, <1>4, <1>5, <1>6, <1>7

\* The steps that change what the parent directory shows, or may show.
LEMMA PublicSteps ==
  ASSUME IInv, NEW s \in Savers, RemoveEmpty(s) \/ Rename(s) \/ SyncParent(s)
  PROVE  IInv'
<1>1. Complete(s) \in Directories /\ Complete(s) \notin {Absent, Empty, Foreign}
  BY PartsFacts, CompleteIsNotSentinel
<1>2. target[s] \in Names /\ dest[target[s]] \in possible[target[s]]
  BY DEF IInv, TypeOK, Shown
<1>3. ASSUME pc' = [pc EXCEPT ![s] = "failed"],
             temporary' = [temporary EXCEPT ![s] = Absent],
             UNCHANGED <<dest, possible, target, settled, faults>>
      PROVE  IInv'
  BY <1>3 DEF IInv, TypeOK, Working, Siblings, Shown, Placed
\* A name that shows nothing is not settled, and nobody has placed anything there.
<1>4. ASSUME dest[target[s]] \in {Absent, Empty}
      PROVE  /\ target[s] \notin settled
             /\ possible[target[s]] \subseteq {Absent, Empty}
             /\ \A t \in Savers : pc[t] \in {"sync_parent", "saved"} =>
                                    target[t] # target[s]
  BY <1>2, <1>4, CompleteIsNotSentinel DEF IInv, Shown, Placed
<1>5. CASE RemoveEmpty(s) /\ dest[target[s]] = Empty
  <2>1. /\ dest' = [dest EXCEPT ![target[s]] = Absent]
        /\ possible' = [possible EXCEPT ![target[s]] = @ \cup {Absent}]
        /\ pc' = [pc EXCEPT ![s] = "rename"] /\ pc[s] = "rmdir"
        /\ UNCHANGED <<temporary, target, settled, faults>>
    BY <1>5 DEF RemoveEmpty, Shows, Go
  <2>2. TypeOK'
    BY <2>1 DEF IInv, TypeOK, Working, Entries
  <2>3. Siblings'
    BY <2>1 DEF IInv, TypeOK, Siblings
  <2>4. Shown'
    BY <1>2, <1>4, <1>5, <2>1, PublishAssumption DEF IInv, TypeOK, Shown
  <2>5. Placed'
    BY <1>4, <1>5, <2>1 DEF IInv, TypeOK, Placed
  <2>6. QED BY <2>2, <2>3, <2>4, <2>5 DEF IInv
<1>6. CASE Rename(s) /\ dest[target[s]] \in {Absent, Empty}
  <2>1. /\ dest' = [dest EXCEPT ![target[s]] = Complete(s)]
        /\ possible' = [possible EXCEPT ![target[s]] = @ \cup {Complete(s)}]
        /\ pc' = [pc EXCEPT ![s] = "sync_parent"] /\ pc[s] = "rename"
        /\ temporary' = [temporary EXCEPT ![s] = Absent]
        /\ UNCHANGED <<target, settled, faults>>
    BY <1>6 DEF Rename, Shows, Go, IInv, Siblings
  <2>2. TypeOK'
    BY <1>1, <2>1 DEF IInv, TypeOK, Working, Entries
  <2>3. Siblings'
    BY <2>1 DEF IInv, TypeOK, Siblings
  <2>4. Shown'
    BY <1>1, <1>2, <1>4, <1>6, <2>1 DEF IInv, TypeOK, Shown
  <2>5. Placed'
    BY <1>2, <1>4, <1>6, <2>1 DEF IInv, TypeOK, Placed
  <2>6. QED BY <2>2, <2>3, <2>4, <2>5 DEF IInv
<1>7. CASE SyncParent(s)
  <2>1. /\ possible' = [n \in Names |-> {dest[n]}]
        /\ settled' = settled \cup {target[s]}
        /\ pc' = [pc EXCEPT ![s] = "saved"] /\ pc[s] = "sync_parent"
        /\ UNCHANGED <<dest, target, temporary, faults>>
    BY <1>7 DEF SyncParent, Go
  <2>2. dest[target[s]] = Complete(s)
    BY <2>1 DEF IInv, Placed
  <2>3. TypeOK' /\ Siblings'
    BY <1>2, <2>1 DEF IInv, TypeOK, Working, Siblings
  <2>4. Shown'
    BY <1>1, <2>1, <2>2 DEF IInv, TypeOK, Shown
  <2>5. Placed'
    BY <2>1, <2>2 DEF IInv, TypeOK, Placed
  <2>6. QED BY <2>3, <2>4, <2>5 DEF IInv
<1>8. QED BY <1>3, <1>5, <1>6, <1>7 DEF RemoveEmpty, Rename, Fail, Go

\* A power loss finds every entry in one of the states its disk may show.
LEMMA PowerLossFacts ==
  ASSUME IInv, PowerLoss
  PROVE  \A n \in Names : dest'[n] \in possible[n] /\ possible'[n] = {dest'[n]}
<1> SUFFICES ASSUME NEW n \in Names
             PROVE  dest'[n] \in possible[n] /\ possible'[n] = {dest'[n]}
  OBVIOUS
<1>1. PICK e \in possible[n] : dest'[n] \in OnDisk(e)
  BY DEF PowerLoss
<1>2. e \in {Absent, Empty, Foreign} \/ \E s \in Savers : e = Complete(s)
  BY DEF IInv, Shown
<1>3. OnDisk(e) = {e}
  BY <1>2, OnDiskFacts
<1>4. QED BY <1>1, <1>3 DEF PowerLoss

LEMMA StepIInv == IInv /\ [Next]_vars => IInv'
<1> SUFFICES ASSUME IInv, [Next]_vars PROVE IInv'
  OBVIOUS
<1>1. ASSUME NEW s \in Savers, SaverStep(s) PROVE IInv'
  BY <1>1, PrivateSteps, PublicSteps DEF SaverStep
<1>2. ASSUME NEW s \in Savers, Raise(s) \/ Die(s) \/ Retry(s) PROVE IInv'
  <2>1. faults' \in 0..MaxFaults
    BY <1>2, PublishAssumption DEF Raise, Die, Retry, Fault, IInv, TypeOK
  <2>2. /\ UNCHANGED <<dest, possible, target, settled>>
        /\ temporary' \in {temporary, [temporary EXCEPT ![s] = Absent]}
        /\ \E place \in {"failed", "dead", "idle"} : pc' = [pc EXCEPT ![s] = place]
    BY <1>2 DEF Raise, Die, Retry, Fail, Go
  <2>3. QED BY <2>1, <2>2 DEF IInv, TypeOK, Working, Siblings, Shown, Placed
<1>3. CASE PowerLoss
  <2>1. \A n \in Names : dest'[n] \in possible[n] /\ possible'[n] = {dest'[n]}
    BY <1>3, PowerLossFacts
  <2>2. /\ pc' = [s \in Savers |-> IF pc[s] \in Working THEN "dead" ELSE pc[s]]
        /\ temporary' = [s \in Savers |-> Absent]
        /\ possible' = [n \in Names |-> {dest'[n]}]
        /\ UNCHANGED <<target, settled>>
        /\ DOMAIN dest' = Names /\ dest' = [n \in Names |-> dest'[n]]
    BY <1>3 DEF PowerLoss
  <2>3. faults' \in 0..MaxFaults
    BY <1>3, PublishAssumption DEF PowerLoss, Fault, IInv, TypeOK
  <2>4. TypeOK'
    <3>1. \A n \in Names : dest'[n] \in Entries
      BY <2>1 DEF IInv, TypeOK
    <3>2. QED BY <2>2, <2>3, <3>1 DEF IInv, TypeOK
  <2>5. Siblings'
    BY <2>2 DEF IInv, TypeOK, Siblings, Working
  <2>6. \A n \in settled : dest'[n] = dest[n]
    BY <2>1 DEF IInv, TypeOK, Shown
  <2>7. Shown'
    BY <2>1, <2>2, <2>6, PublishAssumption DEF IInv, TypeOK, Shown
  <2>8. Placed'
    BY <2>2, <2>6 DEF IInv, TypeOK, Placed, Working
  <2>9. QED BY <2>4, <2>5, <2>7, <2>8 DEF IInv
<1>4. CASE UNCHANGED vars
  BY <1>4 DEF vars, IInv, TypeOK, Siblings, Shown, Placed
<1>5. QED BY <1>1, <1>2, <1>3, <1>4 DEF Next

LEMMA Inductive == Spec => []IInv
BY InitIInv, StepIInv, PTL DEF Spec

LEMMA CompleteIsWhole ==
  \A s \in Savers : Whole(Complete(s)) /\ Complete(s).owner = s
BY PartsFacts DEF Whole, Complete

\* Every variable keeps its type.
THEOREM TypeCorrect == Spec => []TypeOK
BY Inductive, PTL DEF IInv

\* Whatever shows under a name and was not there before is a whole checkpoint.
THEOREM AlwaysWhole == Spec => []VisibleIsWhole
<1>1. IInv => VisibleIsWhole
  BY CompleteIsWhole DEF IInv, Shown, VisibleIsWhole
<1>2. QED BY <1>1, Inductive, PTL

\* A save that returned keeps its word, through races and power losses.
THEOREM SavesStay == Spec => []SavedStays
<1>1. IInv => SavedStays
  BY CompleteIsWhole DEF IInv, Placed, SavedStays
<1>2. QED BY <1>1, Inductive, PTL

(***************************************************************************)
(* Saving implements the store: a rename publishes, the sync of the parent *)
(* acknowledges, a power loss loses at most what was not acknowledged.     *)
(***************************************************************************)
Seen == [n \in Names |-> Visible(n)]

LEMMA VisibleFacts ==
  ASSUME IInv, NEW n \in Names
  PROVE  /\ dest[n] \in {Absent, Empty} => Visible(n) = Absent
         /\ dest[n] = Foreign => Visible(n) = Foreign
         /\ \A s \in Savers : dest[n] = Complete(s) => Visible(n) = s
<1>1. dest[n] \in {Absent, Empty} => Visible(n) = Absent
  BY PublishAssumption DEF Visible, Whole
<1>2. dest[n] = Foreign => Visible(n) = Foreign
  BY PublishAssumption DEF Visible, Whole
<1>3. ASSUME NEW s \in Savers, dest[n] = Complete(s) PROVE Visible(n) = s
  BY <1>3, CompleteIsWhole, CompleteIsNotSentinel DEF Visible
<1>4. QED BY <1>1, <1>2, <1>3

LEMMA StoreInit == Init => Store!Init
<1> SUFFICES ASSUME Init PROVE Store!Init
  OBVIOUS
<1>1. IInv
  BY InitIInv
<1>2. \A n \in Names : /\ dest[n] \in {Absent, Empty} => Visible(n) = Absent
                       /\ dest[n] = Foreign => Visible(n) = Foreign
  BY <1>1, VisibleFacts
<1>3. \A n \in Names : Visible(n) \in {Absent, Foreign}
                       /\ (Visible(n) # Absent <=> dest[n] = Foreign)
  BY <1>2, PublishAssumption DEF Init
<1>4. QED BY <1>3 DEF Init, Store!Init

LEMMA StoreStep == IInv /\ IInv' /\ [Next]_vars => [Store!Next]_(Store!store)
<1> SUFFICES ASSUME IInv, IInv', [Next]_vars
             PROVE  Store!Next \/ UNCHANGED <<Seen, settled>>
  BY DEF Store!store, Seen
<1>1. ASSUME UNCHANGED <<dest, settled>> PROVE UNCHANGED <<Seen, settled>>
  BY <1>1 DEF Seen, Visible, Whole
<1>2. ASSUME NEW s \in Savers,
             \/ Check(s) \/ MakeTemporary(s) \/ SyncListing(s) \/ LookUp(s)
             \/ \E p \in AllParts : Write(s, p) \/ SyncFile(s, p)
             \/ Raise(s) \/ Die(s) \/ Retry(s)
      PROVE  UNCHANGED <<Seen, settled>>
  BY <1>1, <1>2 DEF Check, MakeTemporary, SyncListing, LookUp, Write, SyncFile,
                    Raise, Die, Retry
<1>3. ASSUME NEW s \in Savers, RemoveEmpty(s)
      PROVE  UNCHANGED <<Seen, settled>>
  <2>1. UNCHANGED settled /\ \A n \in Names :
          dest'[n] = dest[n] \/ {dest[n], dest'[n]} \subseteq {Absent, Empty}
    BY <1>3 DEF RemoveEmpty, Shows, IInv, TypeOK
  <2>2. \A n \in Names : Visible(n)' = Visible(n)
    <3> SUFFICES ASSUME NEW n \in Names PROVE Visible(n)' = Visible(n)
      OBVIOUS
    <3>1. CASE dest'[n] = dest[n]
      BY <3>1 DEF Visible, Whole
    <3>2. CASE {dest[n], dest'[n]} \subseteq {Absent, Empty}
      BY <3>2, PublishAssumption DEF Visible, Whole
    <3>3. QED BY <2>1, <3>1, <3>2
  <2>3. QED BY <2>1, <2>2 DEF Seen
<1>4. ASSUME NEW s \in Savers, Rename(s)
      PROVE  Store!Next \/ UNCHANGED <<Seen, settled>>
  <2>1. CASE dest[target[s]] \in {Absent, Empty}
    <3>1. /\ dest' = [dest EXCEPT ![target[s]] = Complete(s)]
          /\ target[s] \in Names /\ UNCHANGED settled
      BY <1>4, <2>1 DEF Rename, Shows, IInv, TypeOK, Siblings
    <3>2. Visible(target[s]) = Absent
      BY <2>1, <3>1, VisibleFacts
    <3>3. Visible(target[s])' = s
      <4>1. dest'[target[s]] = Complete(s)
        BY <3>1 DEF IInv, TypeOK
      <4>2. Whole(Complete(s)) /\ Complete(s).owner = s
            /\ Complete(s) \notin {Absent, Empty, Foreign}
        BY CompleteIsWhole, CompleteIsNotSentinel
      <4>3. CASE target' = target
        BY <4>1, <4>2, <4>3 DEF Visible, Whole
      <4>4. QED BY <1>4, <4>3 DEF Rename
    <3>4. \A n \in Names \ {target[s]} : Visible(n)' = Visible(n)
      BY <3>1 DEF Visible, Whole, IInv, TypeOK
    <3>5. Seen' = [Seen EXCEPT ![target[s]] = s]
      <4>1. UNCHANGED target
        BY <1>4 DEF Rename
      <4>2. QED BY <3>1, <3>3, <3>4, <4>1 DEF Seen
    <3>6. Store!Publish(target[s])
      BY <3>1, <3>2, <3>5 DEF Store!Publish, Seen
    <3>7. QED BY <3>1, <3>6 DEF Store!Next
  <2>2. CASE dest[target[s]] \notin {Absent, Empty}
    BY <1>1, <1>4, <2>2 DEF Rename
  <2>3. QED BY <2>1, <2>2
<1>5. ASSUME NEW s \in Savers, SyncParent(s) PROVE Store!Next
  <2>1. /\ dest[target[s]] = Complete(s) /\ target[s] \in Names
        /\ UNCHANGED dest /\ settled' = settled \cup {target[s]}
    BY <1>5 DEF SyncParent, IInv, TypeOK, Placed
  <2>2. Visible(target[s]) = s /\ s # Absent
    BY <2>1, VisibleFacts, PublishAssumption
  <2>3. UNCHANGED Seen
    BY <2>1 DEF Seen, Visible, Whole
  <2>4. Store!Acknowledge(target[s])
    BY <2>1, <2>2, <2>3 DEF Store!Acknowledge, Seen
  <2>5. QED BY <2>1, <2>4 DEF Store!Next
<1>6. CASE PowerLoss
  <2> DEFINE lost == { n \in Names : dest'[n] # dest[n] }
  <2>1. \A n \in Names : dest'[n] \in possible[n]
    BY <1>6, PowerLossFacts
  <2>2. UNCHANGED settled /\ lost \in SUBSET (Names \ settled)
    BY <1>6, <2>1 DEF PowerLoss, IInv, Shown
  <2>3. \A n \in lost : dest'[n] \in {Absent, Empty}
    BY <2>1 DEF IInv, Shown
  <2>4. \A n \in lost : Visible(n)' = Absent
    BY <2>3, PublishAssumption DEF Visible, Whole
  <2>5. \A n \in Names \ lost : Visible(n)' = Visible(n)
    BY DEF Visible, Whole
  <2>6. Seen' = [n \in Names |-> IF n \in lost THEN Absent ELSE Seen[n]]
    BY <2>4, <2>5 DEF Seen
  <2>7. Store!Lose
    BY <2>2, <2>6 DEF Store!Lose, Seen
  <2>8. QED BY <2>7 DEF Store!Next
<1>7. CASE UNCHANGED vars
  BY <1>1, <1>7 DEF vars
<1>8. QED BY <1>2, <1>3, <1>4, <1>5, <1>6, <1>7 DEF Next, SaverStep

\* Saving a checkpoint is publishing it: whole, once, never replaced, and not
\* lost once acknowledged.
THEOREM PublishImplementsStore == Spec => ImplementsStore
BY StoreInit, StoreStep, Inductive, PTL DEF Spec, ImplementsStore, Store!Spec

\* What the abstract store says of one name: whatever a reader once found under
\* it is not replaced by anything else, by no saver and no fault (a rename only
\* succeeds over nothing or an empty directory, checkpoints/v3.py, 485), and what was
\* acknowledged does not go either.
THEOREM NeverReplaced ==
  Spec => [][/\ settled \subseteq settled'
             /\ \A n \in Names :
                  Seen[n] # Absent =>
                    Seen'[n] = Seen[n] \/ (Seen'[n] = Absent /\ n \notin settled)]_vars
<1>1. ASSUME IInv, IInv', [Next]_vars
      PROVE  /\ settled \subseteq settled'
             /\ \A n \in Names :
                  Seen[n] # Absent =>
                    Seen'[n] = Seen[n] \/ (Seen'[n] = Absent /\ n \notin settled)
  <2>1. Store!Next \/ UNCHANGED <<Seen, settled>>
    BY <1>1, StoreStep DEF Store!store, Seen
  <2>2. ASSUME NEW m \in Names, Store!Publish(m)
        PROVE  /\ UNCHANGED settled
               /\ \A n \in Names : Seen[n] # Absent => Seen'[n] = Seen[n]
    <3>1. /\ Seen[m] = Absent /\ UNCHANGED settled
          /\ \E c \in Savers \cup {Foreign} : Seen' = [Seen EXCEPT ![m] = c]
      BY <2>2 DEF Store!Publish, Seen
    <3>2. \A n \in Names \ {m} : Seen'[n] = Seen[n]
      BY <3>1 DEF Seen
    <3>3. QED BY <3>1, <3>2
  <2>3. ASSUME NEW m \in Names, Store!Acknowledge(m)
        PROVE  settled' = settled \cup {m} /\ UNCHANGED Seen
    BY <2>3 DEF Store!Acknowledge, Seen
  <2>4. ASSUME Store!Lose
        PROVE  /\ UNCHANGED settled
               /\ \A n \in Names : Seen'[n] = Seen[n]
                                   \/ (Seen'[n] = Absent /\ n \notin settled)
    <3>1. PICK lost \in SUBSET (Names \ settled) :
            Seen' = [n \in Names |-> IF n \in lost THEN Absent ELSE Seen[n]]
      BY <2>4 DEF Store!Lose, Seen
    <3>2. QED BY <2>4, <3>1 DEF Store!Lose
  <2>5. QED BY <2>1, <2>2, <2>3, <2>4 DEF Store!Next
<1>2. QED BY <1>1, Inductive, PTL DEF Spec
-----------------------------------------------------------------------------
(***************************************************************************)
(* Racing for a free name.  Until something goes wrong, what shows under a *)
(* name that is not settled is of a saver that is about to acknowledge it, *)
(* and an empty directory that disappeared was removed by one about to     *)
(* rename: whoever turns a saver away is still at work.                    *)
(***************************************************************************)
OwnersAtWork ==
  \A n \in Names \ settled, s \in Savers :
    dest[n] = Complete(s) => target[s] = n /\ pc[s] = "sync_parent"

RemoverRenames ==
  \A s \in Savers :
    pc[s] = "rmdir" /\ dest[target[s]] = Absent =>
      \E t \in Savers : target[t] = target[s] /\ pc[t] = "rename"

TurnedAway ==
  \A n \in Names \ settled :
    (\E s \in Savers : target[s] = n /\ pc[s] = "failed") =>
      \E s \in Savers : target[s] = n /\ pc[s] \in Working

Race == OwnersAtWork /\ RemoverRenames /\ TurnedAway

RaceInv == faults = 0 => Race

LEMMA InitRace == Init => RaceInv
BY CompleteIsNotSentinel DEF Init, RaceInv, Race, OwnersAtWork, RemoverRenames, TurnedAway

\* Where nothing is settled but something shows, its owner is on its way.
LEMMA SomebodyShows ==
  ASSUME IInv, Race, NEW n \in Names \ settled, dest[n] \notin {Absent, Empty}
  PROVE  \E t \in Savers : target[t] = n /\ pc[t] = "sync_parent"
BY DEF IInv, Shown, Race, OwnersAtWork

\* Turned away, a saver leaves the race to another one.
LEMMA FailKeepsRace ==
  ASSUME IInv, Race, NEW s \in Savers, pc' = [pc EXCEPT ![s] = "failed"],
         UNCHANGED <<dest, target, settled>>,
         pc[s] \in {"idle", "rmdir", "rename"},
         target[s] \notin settled =>
           \E t \in Savers \ {s} : target[t] = target[s] /\ pc[t] \in Working,
         pc[s] = "rename" => dest[target[s]] # Absent
  PROVE  Race'
<1>1. OwnersAtWork'
  BY DEF IInv, TypeOK, Race, OwnersAtWork
<1>2. RemoverRenames'
  BY DEF IInv, TypeOK, Race, RemoverRenames
<1>3. TurnedAway'
  BY DEF IInv, TypeOK, Race, TurnedAway
<1>4. QED BY <1>1, <1>2, <1>3 DEF Race

\* The steps that change neither what shows nor who is turned away.
LEMMA QuietKeepsRace ==
  ASSUME IInv, Race, NEW s \in Savers, UNCHANGED <<dest, target, settled>>,
         NEW place \in Working \cup {"idle"}, pc' = [pc EXCEPT ![s] = place],
         pc[s] \in Working => place \in Working,
         pc[s] \notin {"rename", "sync_parent"},
         place = "rmdir" => dest[target[s]] # Absent
  PROVE  Race'
<1>1. OwnersAtWork'
  BY DEF IInv, TypeOK, Race, OwnersAtWork
<1>2. RemoverRenames'
  BY DEF IInv, TypeOK, Race, RemoverRenames
<1>3. TurnedAway'
  BY DEF IInv, TypeOK, Race, TurnedAway, Working
<1>4. QED BY <1>1, <1>2, <1>3 DEF Race

LEMMA SaverKeepsRace ==
  ASSUME IInv, Race, NEW s \in Savers, SaverStep(s) \/ Retry(s)
  PROVE  Race'
<1>0. target[s] \in Names /\ pc \in [Savers -> Working \cup {"idle", "saved", "failed", "dead"}]
  BY DEF IInv, TypeOK
<1>1. CASE Check(s)
  <2>1. CASE dest[target[s]] \in {Absent, Empty}
    <3>1. pc' = [pc EXCEPT ![s] = "mktemp"] /\ pc[s] = "idle"
          /\ UNCHANGED <<dest, target, settled>>
      BY <1>1, <2>1 DEF Check, Go
    <3>2. QED BY <3>1, QuietKeepsRace DEF Working
  <2>2. CASE dest[target[s]] \notin {Absent, Empty}
    <3>1. pc' = [pc EXCEPT ![s] = "failed"] /\ pc[s] = "idle"
          /\ UNCHANGED <<dest, target, settled>>
      BY <1>1, <2>2 DEF Check, Go
    <3>2. target[s] \notin settled =>
            \E t \in Savers \ {s} : target[t] = target[s] /\ pc[t] \in Working
      BY <1>0, <2>2, <3>1, SomebodyShows DEF Working
    <3>3. QED BY <3>1, <3>2, FailKeepsRace
  <2>3. QED BY <2>1, <2>2
<1>2. CASE MakeTemporary(s)
  <2>1. pc' = [pc EXCEPT ![s] = "write"] /\ pc[s] = "mktemp"
        /\ UNCHANGED <<dest, target, settled>>
    BY <1>2 DEF MakeTemporary, Go
  <2>2. QED BY <2>1, QuietKeepsRace DEF Working
<1>3. ASSUME NEW p \in AllParts, Write(s, p) PROVE Race'
  <2>1. PICK place \in {"write", "sync"} : pc' = [pc EXCEPT ![s] = place]
    BY <1>3 DEF Write, Go
  <2>2. pc[s] = "write" /\ UNCHANGED <<dest, target, settled>>
    BY <1>3 DEF Write
  <2>3. QED BY <2>1, <2>2, QuietKeepsRace DEF Working
<1>4. ASSUME NEW p \in AllParts, SyncFile(s, p) PROVE Race'
  BY <1>4 DEF SyncFile, Race, OwnersAtWork, RemoverRenames, TurnedAway
<1>5. CASE SyncListing(s)
  <2>1. pc' = [pc EXCEPT ![s] = "exists"] /\ pc[s] = "sync"
        /\ UNCHANGED <<dest, target, settled>>
    BY <1>5 DEF SyncListing, Go
  <2>2. QED BY <2>1, QuietKeepsRace DEF Working
<1>6. CASE LookUp(s)
  <2>1. PICK place \in {"rename", "rmdir"} :
          /\ pc' = [pc EXCEPT ![s] = place]
          /\ place = "rmdir" => dest[target[s]] # Absent
    BY <1>6 DEF LookUp, Go
  <2>2. pc[s] = "exists" /\ UNCHANGED <<dest, target, settled>>
    BY <1>6 DEF LookUp
  <2>3. QED BY <2>1, <2>2, QuietKeepsRace DEF Working
<1>7. CASE RemoveEmpty(s) /\ dest[target[s]] = Empty
  <2>1. /\ dest' = [dest EXCEPT ![target[s]] = Absent]
        /\ pc' = [pc EXCEPT ![s] = "rename"] /\ pc[s] = "rmdir"
        /\ UNCHANGED <<target, settled>>
    BY <1>7 DEF RemoveEmpty, Shows, Go
  <2>2. OwnersAtWork'
    BY <1>0, <2>1, CompleteIsNotSentinel DEF IInv, TypeOK, Race, OwnersAtWork
  <2>3. RemoverRenames'
    BY <1>0, <2>1 DEF IInv, TypeOK, Race, RemoverRenames
  <2>4. TurnedAway'
    BY <2>1 DEF IInv, TypeOK, Race, TurnedAway, Working
  <2>5. QED BY <2>2, <2>3, <2>4 DEF Race
<1>8. CASE RemoveEmpty(s) /\ dest[target[s]] # Empty
  <2>1. /\ pc' = [pc EXCEPT ![s] = "failed"] /\ pc[s] = "rmdir"
        /\ UNCHANGED <<dest, target, settled>>
    BY <1>8 DEF RemoveEmpty, Fail, Go
  <2>2. target[s] \notin settled =>
          \E t \in Savers \ {s} : target[t] = target[s] /\ pc[t] \in Working
    <3>1. CASE dest[target[s]] = Absent
      BY <2>1, <3>1 DEF Race, RemoverRenames, Working
    <3>2. CASE dest[target[s]] # Absent
      BY <1>0, <1>8, <2>1, <3>2, SomebodyShows DEF Working
    <3>3. QED BY <3>1, <3>2
  <2>3. QED BY <2>1, <2>2, FailKeepsRace
<1>9. CASE Rename(s) /\ dest[target[s]] \in {Absent, Empty}
  <2>1. /\ dest' = [dest EXCEPT ![target[s]] = Complete(s)]
        /\ pc' = [pc EXCEPT ![s] = "sync_parent"] /\ pc[s] = "rename"
        /\ UNCHANGED <<target, settled>>
    BY <1>9 DEF Rename, Shows, Go, IInv, Siblings
  <2>2. OwnersAtWork'
    <3>1. \A t \in Savers : Complete(t) = Complete(s) => t = s
      BY PartsFacts
    <3>2. QED BY <1>0, <2>1, <3>1 DEF IInv, TypeOK, Race, OwnersAtWork
  <2>3. RemoverRenames'
    BY <1>0, <2>1, CompleteIsNotSentinel DEF IInv, TypeOK, Race, RemoverRenames
  <2>4. TurnedAway'
    BY <2>1 DEF IInv, TypeOK, Race, TurnedAway, Working
  <2>5. QED BY <2>2, <2>3, <2>4 DEF Race
<1>10. CASE Rename(s) /\ dest[target[s]] \notin {Absent, Empty}
  <2>1. /\ pc' = [pc EXCEPT ![s] = "failed"] /\ pc[s] = "rename"
        /\ UNCHANGED <<dest, target, settled>>
    BY <1>10 DEF Rename, Fail, Go
  <2>2. target[s] \notin settled =>
          \E t \in Savers \ {s} : target[t] = target[s] /\ pc[t] \in Working
    BY <1>0, <1>10, <2>1, SomebodyShows DEF Working
  <2>3. QED BY <1>10, <2>1, <2>2, FailKeepsRace
<1>11. CASE SyncParent(s)
  <2>1. /\ UNCHANGED <<dest, target>> /\ settled' = settled \cup {target[s]}
        /\ pc' = [pc EXCEPT ![s] = "saved"] /\ pc[s] = "sync_parent"
    BY <1>11 DEF SyncParent, Go
  <2>2. OwnersAtWork'
    BY <1>0, <2>1 DEF IInv, TypeOK, Race, OwnersAtWork
  <2>3. RemoverRenames'
    BY <1>0, <2>1 DEF IInv, TypeOK, Race, RemoverRenames
  <2>4. TurnedAway'
    BY <1>0, <2>1 DEF IInv, TypeOK, Race, TurnedAway
  <2>5. QED BY <2>2, <2>3, <2>4 DEF Race
<1>12. CASE Retry(s)
  <2>1. pc' = [pc EXCEPT ![s] = "idle"] /\ pc[s] \in {"failed", "dead"}
        /\ UNCHANGED <<dest, target, settled>>
    BY <1>12 DEF Retry, Go
  <2>2. QED BY <2>1, QuietKeepsRace DEF Working
<1>13. QED BY <1>1, <1>2, <1>3, <1>4, <1>5, <1>6, <1>7, <1>8, <1>9, <1>10, <1>11, <1>12
           DEF SaverStep

LEMMA StepRace == IInv /\ RaceInv /\ [Next]_vars => RaceInv'
<1> SUFFICES ASSUME IInv, RaceInv, [Next]_vars, faults' = 0 PROVE Race'
  BY DEF RaceInv
<1>1. ASSUME NEW s \in Savers, SaverStep(s) \/ Retry(s) PROVE Race'
  <2>1. faults' = faults
    BY <1>1 DEF SaverStep, Retry, Check, MakeTemporary, Write, SyncFile, SyncListing,
                LookUp, RemoveEmpty, Rename, SyncParent
  <2>2. QED BY <1>1, <2>1, SaverKeepsRace DEF RaceInv
\* A fault is counted.
<1>2. ASSUME (\E s \in Savers : Raise(s) \/ Die(s)) \/ PowerLoss PROVE FALSE
  <2>1. faults \in Nat /\ faults' = faults + 1
    BY <1>2 DEF Raise, Die, PowerLoss, Fault, IInv, TypeOK
  <2>2. QED BY <2>1
<1>3. CASE UNCHANGED vars
  BY <1>3 DEF vars, RaceInv, Race, OwnersAtWork, RemoverRenames, TurnedAway, Working
<1>4. QED BY <1>1, <1>2, <1>3 DEF Next

\* Until something goes wrong, a saver is turned away from a name that was
\* free only while another one is on its way to it, or has saved to it.
THEOREM RaceIsWon == Spec => []SomebodyWins
<1>1. RaceInv => SomebodyWins
  BY DEF RaceInv, Race, TurnedAway, SomebodyWins
<1>2. QED BY <1>1, Inductive, InitRace, StepRace, PTL DEF Spec
=============================================================================
