---------------------------- MODULE RuntimeProofs ----------------------------
(***************************************************************************)
(* Theorems about the two stateful parts of the runtime.  RuntimeStateFiles *)
(* first: what loads return, which saves stay loadable and who is refused, *)
(* for any number of savers and faults.  Then RuntimeContexts: that a       *)
(* selection is honest (pure lemmas about RuntimeSelection), what a receipt *)
(* tells, and whose the contexts of a backend are, for any declarations,    *)
(* devices, requests and lifecycles.                                       *)
(***************************************************************************)
EXTENDS RuntimeStateFiles, RuntimeContexts, SequenceTheorems, WellFoundedInduction,
        TLAPS

(***************************************************************************)
(* The inductive invariant.  A manifest is put in place by the last step of *)
(* its save, so that no state of that save can appear after it: what a     *)
(* reader finds next to a manifest was there when it read the manifest, or *)
(* is another's.                                                           *)
(***************************************************************************)
InPlace == \A s \in Savers : pc[s] \in {"list", "clear", "temporary", "replace"} => exists

ManifestLast ==
  /\ \A s \in Savers : written[s] = 2 => pc[s] = "saved"
  /\ \A s \in Savers : file["manifest"] = s => pc[s] = "saved"

SeenIsDone ==
  reader.at = "state" =>
    /\ pc[reader.seen.of] = "saved"
    /\ file["state"] = reader.seen.of => reader.seen.whole

IInv == TypeOK /\ InPlace /\ ManifestLast /\ SeenIsDone /\ LoadsAreOfOneMoment

THEOREM InitIInv == Init => IInv
BY StateFilesAssumption
   DEF Init, IInv, TypeOK, InPlace, ManifestLast, SeenIsDone, LoadsAreOfOneMoment, Away, Files

USE DEF Files, disk, history, reading, Working

\* A step of one saver keeps the invariant.
LEMMA SaverKeepsIInv ==
  ASSUME IInv, NEW s \in Savers, SaverStep(s) \/ Raise(s) \/ Die(s) \/ Retry(s)
  PROVE  IInv'
<1> USE StateFilesAssumption DEF IInv, TypeOK, InPlace, ManifestLast, SeenIsDone,
      LoadsAreOfOneMoment, Seen, Go, Fail
<1>1. CASE Check(s)
  <2>1. alone' \in BOOLEAN /\ latest' \in Savers \cup {Absent}
    <3>1. CASE UNCHANGED history
      BY <3>1
    <3>2. CASE latest' = s /\ alone' = (AtWork = {})
      <4>1. CASE AtWork = {}
        BY <3>2, <4>1
      <4>2. CASE AtWork # {}
        BY <3>2, <4>2
      <4> QED
        BY <4>1, <4>2
    <3> QED
      BY <1>1, <3>1, <3>2 DEF Check, Begin
  <2>2. \/ pc' = [pc EXCEPT ![s] = "failed"]
        \/ pc' = [pc EXCEPT ![s] = "mkdir"]
        \/ exists /\ pc' = [pc EXCEPT ![s] = "list"]
    BY <1>1 DEF Check, Begin
  <2>3. UNCHANGED <<overwriting, disk, listing, written, reading, faults>> /\ pc[s] = "idle"
    BY <1>1 DEF Check
  <2> QED
    BY <2>1, <2>2, <2>3
<1>2. CASE List(s)
  BY <1>2 DEF List, Present
<1>3. ASSUME NEW e \in Files \cup Savers, Clear(s, e) PROVE IInv'
  <2>1. /\ exists /\ exists' = exists
        /\ file' \in [Files -> Savers \cup {Absent}]
        /\ \A f \in Files : file'[f] \in {file[f], Absent}
    BY <1>3 DEF Clear
  <2>2. pc' = pc \/ pc' = [pc EXCEPT ![s] = "failed"]
    BY <1>3 DEF Clear
  <2>3. TypeOK'
    BY <1>3, <2>1, <2>2 DEF Clear
  <2>4. InPlace' /\ LoadsAreOfOneMoment'
    BY <1>3, <2>1 DEF Clear
  <2>5. ManifestLast' /\ SeenIsDone'
    BY <1>3, <2>1, <2>2 DEF Clear
  <2> QED
    BY <2>3, <2>4, <2>5
<1>4. CASE Cleared(s)
  BY <1>4 DEF Cleared
<1>5. CASE MkDir(s)
  BY <1>5 DEF MkDir
<1>6. CASE MakeTemporary(s)
  BY <1>6 DEF MakeTemporary
<1>7. CASE Replace(s)
  BY <1>7 DEF Replace, WriteOrder
<1>8. CASE Raise(s)
  BY <1>8 DEF Raise, Fault
<1>9. CASE Die(s)
  BY <1>9 DEF Die, Fault
<1>10. CASE Retry(s)
  BY <1>10 DEF Retry
<1> QED
  BY <1>1, <1>2, <1>3, <1>4, <1>5, <1>6, <1>7, <1>8, <1>9, <1>10 DEF SaverStep

\* The reader changes nothing but what it knows.
LEMMA ReaderKeepsIInv ==
  ASSUME IInv, Open \/ ReadManifest \/ ReadState
  PROVE  IInv'
<1> USE StateFilesAssumption DEF IInv, TypeOK, InPlace, ManifestLast, SeenIsDone,
      LoadsAreOfOneMoment, Seen, Load, Away
<1>1. CASE Open
  BY <1>1 DEF Open
<1>2. CASE ReadManifest
  BY <1>2 DEF ReadManifest
<1>3. CASE ReadState
  BY <1>3 DEF ReadState
<1> QED
  BY <1>1, <1>2, <1>3

THEOREM StepIInv == IInv /\ [Next]_vars => IInv'
<1> SUFFICES ASSUME IInv, [Next]_vars PROVE IInv'
  OBVIOUS
<1>1. CASE Next
  BY <1>1, SaverKeepsIInv, ReaderKeepsIInv DEF Next
<1>2. CASE UNCHANGED vars
  BY <1>2 DEF IInv, TypeOK, InPlace, ManifestLast, SeenIsDone, LoadsAreOfOneMoment, vars
<1> QED
  BY <1>1, <1>2

LEMMA Invariance == Spec => []IInv
BY InitIInv, StepIInv, PTL DEF Spec

\* Savers, files and reader are well typed, and files are only in a directory
\* that exists.
THEOREM TypeCorrect == Spec => []TypeOK
<1>1. IInv => TypeOK
  BY DEF IInv
<1> QED
  BY <1>1, Invariance, PTL

\* A load never returns a state put together from two moments.
THEOREM LoadsOfOneMoment == Spec => []LoadsAreOfOneMoment
<1>1. IInv => LoadsAreOfOneMoment
  BY DEF IInv
<1> QED
  BY <1>1, Invariance, PTL
-----------------------------------------------------------------------------
(***************************************************************************)
(* A save that found nobody at work.  Whoever begins after it takes its    *)
(* place as the latest, so that until then it works alone and what it has  *)
(* put in place stays; and a temporary file outlives its saver only when   *)
(* the saver dies.                                                         *)
(***************************************************************************)
\* What a saver has put in place, by where it is.
Progress ==
  \A s \in Savers :
    /\ pc[s] \in {"idle", "list", "clear", "mkdir"} => written[s] = 0
    /\ pc[s] \in {"temporary", "replace"} => written[s] \in {0, 1}

Undisturbed(s) ==
  /\ \A t \in Savers \ {s} : pc[t] \notin Working
  /\ pc[s] \in {"temporary", "replace"} /\ written[s] = 1 => file["state"] = s
  /\ pc[s] = "saved" => Whole(s)

LatestAlone == \A s \in Savers : latest = s /\ alone => Undisturbed(s)

TempsOwned == \A s \in temps : pc[s] \in {"replace", "dead"}

AInv == Progress /\ LatestAlone /\ TempsOwned

LEMMA InitAInv == Init => AInv
BY StateFilesAssumption DEF Init, AInv, Progress, LatestAlone, TempsOwned

\* A step that begins no save, of a saver t that was at work or had failed,
\* and that leaves or removes the temporaries there are.
LEMMA SaverKeepsAInv ==
  ASSUME IInv, AInv, NEW t \in Savers, SaverStep(t) \/ Raise(t) \/ Die(t) \/ Retry(t)
  PROVE  AInv'
<1> USE StateFilesAssumption DEF IInv, TypeOK, AInv, Progress, LatestAlone, TempsOwned,
      Undisturbed, Whole, Go, Fail
<1>1. CASE Check(t)
  <2>0. /\ UNCHANGED <<disk, written>> /\ pc[t] = "idle"
        /\ \A u \in Savers \ {t} : pc'[u] = pc[u]
        /\ pc'[t] \in {"failed", "list", "mkdir"}
        /\ DOMAIN pc' = Savers
    BY <1>1 DEF Check, Begin
  <2>1. CASE pc'[t] = "failed"
    <3>1. UNCHANGED history
      BY <1>1, <2>1 DEF Check, Begin
    <3> QED
      BY <2>0, <2>1, <3>1
  <2>2. CASE pc'[t] # "failed"
    <3>1. latest' = t /\ alone' = (AtWork = {})
      BY <1>1, <2>2 DEF Check, Begin
    <3>2. alone' => \A u \in Savers : pc[u] \notin Working
      BY <3>1 DEF AtWork
    <3>3. LatestAlone'
      BY <2>0, <3>1, <3>2
    <3>4. Progress' /\ TempsOwned'
      BY <2>0
    <3> QED
      BY <3>3, <3>4
  <2> QED
    BY <2>1, <2>2
<1>2. CASE List(t)
  BY <1>2 DEF List
<1>3. ASSUME NEW e \in Files \cup Savers, Clear(t, e) PROVE AInv'
  <2>1. /\ UNCHANGED <<written, history>> /\ pc[t] = "clear"
        /\ \A f \in Files : file'[f] \in {file[f], Absent}
        /\ temps' \subseteq temps
        /\ pc' = pc \/ pc' = [pc EXCEPT ![t] = "failed"]
    BY <1>3 DEF Clear
  <2>2. Progress' /\ TempsOwned'
    BY <2>1
  <2>3. LatestAlone'
    BY <2>1
  <2> QED
    BY <2>2, <2>3
<1>4. CASE Cleared(t)
  BY <1>4 DEF Cleared
<1>5. CASE MkDir(t)
  BY <1>5 DEF MkDir
<1>6. CASE MakeTemporary(t)
  BY <1>6 DEF MakeTemporary
<1>7. CASE Replace(t)
  <2>1. CASE t \in temps
    <3>1. /\ UNCHANGED history /\ pc[t] = "replace"
          /\ file' = [file EXCEPT ![WriteOrder[written[t] + 1]] = t]
          /\ temps' = temps \ {t}
          /\ written' = [written EXCEPT ![t] = @ + 1]
          /\ pc' = [pc EXCEPT ![t] = IF written[t] + 1 = 2 THEN "saved" ELSE "temporary"]
      BY <1>7, <2>1 DEF Replace, WriteOrder
    <3>2. CASE written[t] = 0
      <4>1. /\ file' = [file EXCEPT !["state"] = t] /\ written'[t] = 1
            /\ pc' = [pc EXCEPT ![t] = "temporary"]
        BY <3>1, <3>2 DEF WriteOrder
      <4> QED
        BY <3>1, <4>1
    <3>3. CASE written[t] = 1
      <4>1. /\ file' = [file EXCEPT !["manifest"] = t] /\ written'[t] = 2
            /\ pc' = [pc EXCEPT ![t] = "saved"]
        BY <3>1, <3>3 DEF WriteOrder
      <4> QED
        BY <3>1, <3>3, <4>1
    <3> QED
      BY <3>1, <3>2, <3>3
  <2>2. CASE t \notin temps
    BY <1>7, <2>2 DEF Replace
  <2> QED
    BY <2>1, <2>2
<1>8. CASE Raise(t)
  BY <1>8 DEF Raise, Fault
<1>9. CASE Die(t)
  BY <1>9 DEF Die, Fault
<1>10. CASE Retry(t)
  BY <1>10 DEF Retry
<1> QED
  BY <1>1, <1>2, <1>3, <1>4, <1>5, <1>6, <1>7, <1>8, <1>9, <1>10 DEF SaverStep

LEMMA StepAInv == IInv /\ AInv /\ [Next]_vars => AInv'
<1> USE DEF AInv, Progress, LatestAlone, TempsOwned, Undisturbed, Whole
<1> SUFFICES ASSUME IInv, AInv, [Next]_vars PROVE AInv'
  OBVIOUS
<1>1. ASSUME NEW t \in Savers, SaverStep(t) \/ Raise(t) \/ Die(t) \/ Retry(t)
      PROVE  AInv'
  BY <1>1, SaverKeepsAInv
<1>2. CASE Open \/ ReadManifest \/ ReadState
  BY <1>2 DEF Open, ReadManifest, ReadState, Load
<1>3. CASE UNCHANGED vars
  BY <1>3 DEF vars
<1> QED
  BY <1>1, <1>2, <1>3 DEF Next

LEMMA AInvariance == Spec => []AInv
BY InitIInv, StepIInv, InitAInv, StepAInv, PTL DEF Spec

\* A save that found nobody at work and returned stays in place until another
\* save gets past its check.
THEOREM SavedStaysLoadable == Spec => []SavedIsLoadable
<1>1. AInv => SavedIsLoadable
  BY DEF AInv, LatestAlone, Undisturbed, SavedIsLoadable
<1> QED
  BY <1>1, AInvariance, PTL

\* Only the temporary file of another save, at work or killed, turns a save
\* away that may overwrite.
THEOREM RefusedForOthers == Spec => OnlyOthersRefuse
<1> DEFINE TurnedBack ==
      \A s \in overwriting :
        pc[s] = "idle" /\ pc'[s] = "failed" =>
          \E t \in Savers \ {s} : pc[t] \in Working \cup {"dead"}
<1>1. IInv /\ AInv /\ [Next]_vars => [TurnedBack]_vars
  <2> SUFFICES ASSUME IInv, AInv, Next, NEW s \in overwriting,
                      pc[s] = "idle", pc'[s] = "failed"
               PROVE  \E t \in Savers \ {s} : pc[t] \in Working \cup {"dead"}
    OBVIOUS
  <2> USE DEF IInv, TypeOK
  <2>0. s \in Savers
    OBVIOUS
  <2>1. Check(s)
    <3>1. ASSUME NEW t \in Savers, SaverStep(t) \/ Raise(t) \/ Die(t) \/ Retry(t)
          PROVE  Check(s)
      <4>1. \/ t = s
            \/ pc'[s] = pc[s]
        BY <2>0, <3>1 DEF SaverStep, Check, List, Clear, Cleared, MkDir, MakeTemporary, Replace,
             Raise, Die, Retry, Begin, Go, Fail
      <4>2. t = s
        BY <4>1
      <4> QED
        BY <3>1, <4>2 DEF SaverStep, List, Clear, Cleared, MkDir, MakeTemporary, Replace,
             Raise, Die, Retry, Go
    <3>2. ASSUME Open \/ ReadManifest \/ ReadState PROVE FALSE
      BY <3>2 DEF Open, ReadManifest, ReadState, Load
    <3> QED
      BY <3>1, <3>2 DEF Next
  <2>2. Refuses(s)
    BY <2>0, <2>1 DEF Check, Begin, Go
  <2>3. PICK t \in temps : TRUE
    BY <2>2 DEF Refuses
  <2>4. pc[t] \in {"replace", "dead"} /\ t # s /\ t \in Savers
    BY <2>3 DEF AInv, TempsOwned
  <2> QED
    BY <2>4
<1> QED
  BY <1>1, Invariance, AInvariance, PTL DEF Spec, OnlyOthersRefuse

-----------------------------------------------------------------------------
(***************************************************************************)
(* Selection.                                                              *)
(***************************************************************************)
\* A set of numbers has a least one.
LEMMA LeastOf ==
  ASSUME NEW S \in SUBSET Nat, S # {}
  PROVE  \E m \in S : \A n \in S : m <= n
<1> DEFINE R == OpToRel(<, Nat)
<1>1. PICK m \in S : \A n \in S : <<n, m>> \notin R
  <2>1. IsWellFoundedOn(R, Nat)
    BY NatLessThanWellFounded
  <2> HIDE DEF R
  <2> QED
    BY <2>1, WFMin
<1>2. ASSUME NEW n \in S PROVE m <= n
  <2>1. <<n, m>> \in Nat \X Nat /\ ~(n < m)
    BY <1>1 DEF OpToRel
  <2> QED
    BY <2>1
<1> QED
  BY <1>2

LEMMA PlatformsAre == Platforms = {"gpu", "tpu", "metal", "cpu"}
BY DEF Platforms, Preference, ToSet

\* The automatic platform is one of those there are.
LEMMA AutomaticIsThere ==
  ASSUME NEW S, Platforms \cap S # {}
  PROVE  AutomaticPlatform(S) \in Platforms \cap S
<1> DEFINE I == {i \in 1 .. Len(Preference) : Preference[i] \in S}
           found == SelectInSeq(Preference, LAMBDA p : p \in S)
<1>1. Len(Preference) = 4 /\ DOMAIN Preference = 1 .. 4
  BY DEF Preference
<1>2. I \in SUBSET Nat /\ I # {}
  BY <1>1 DEF Platforms, ToSet
<1>3. PICK m \in I : \A n \in I : m <= n
  BY <1>2, LeastOf
<1>4. found = Min(I)
  BY <1>2 DEF SelectInSeq
<1>5. found \in I
  BY <1>3, <1>4 DEF Min
<1>6. Preference[found] \in Platforms \cap S
  BY <1>1, <1>5 DEF Platforms, ToSet
<1> QED
  BY <1>6 DEF AutomaticPlatform

\* Every id has a place of its own.
LEMMA IdOfPlace ==
  ASSUME NEW x \in BackendIds
  PROVE  PlaceOf(x) \in Nat /\ IdOrder[PlaceOf(x)] = x
<1> DEFINE I == {i \in 1 .. Len(IdOrder) : IdOrder[i] = x}
<1>1. DOMAIN IdOrder = 1 .. Len(IdOrder) /\ Len(IdOrder) \in Nat
  BY SelectionAssumption
<1>2. I \in SUBSET Nat /\ I # {}
  BY <1>1 DEF BackendIds, ToSet
<1>3. PICK m \in I : \A n \in I : m <= n
  BY <1>2, LeastOf
<1>4. PlaceOf(x) = Min(I)
  BY <1>2 DEF PlaceOf, SelectInSeq
<1>5. PlaceOf(x) \in I
  BY <1>3, <1>4 DEF Min
<1> QED
  BY <1>1, <1>5

-----------------------------------------------------------------------------
(* One candidate.                                                          *)

\* The compatible platform is one the backend declares and somebody sees.
LEMMA CompatibleIsSeen ==
  ASSUME NEW d \in Declarations, NEW i
  PROVE  LET seen == d.platforms \cap VisiblePlatforms(i)
         IN /\ seen = {} => Compatible(d, i) = NoPlatform
            /\ seen # {} => Compatible(d, i) \in seen
            /\ NoPlatform \notin seen
<1> DEFINE seen == d.platforms \cap VisiblePlatforms(i)
<1>1. seen \subseteq Platforms /\ NoPlatform \notin Platforms
  BY SelectionAssumption
<1>2. seen = {} => Compatible(d, i) = NoPlatform
  BY DEF Compatible, AutomaticPlatform
<1>3. ASSUME seen # {} PROVE Compatible(d, i) \in seen
  <2>1. Platforms \cap seen # {}
    BY <1>1, <1>3
  <2> HIDE DEF seen
  <2>2. AutomaticPlatform(seen) \in seen
    BY <2>1, AutomaticIsThere
  <2> QED
    BY <2>2 DEF Compatible, seen
<1> QED
  BY <1>1, <1>2, <1>3

\* What a candidate has no blocker of.
LEMMA Unblocked ==
  ASSUME NEW d, NEW c, NEW i
  PROVE  Candidate(d, c, i).blockers = {} <=>
           /\ Available(d, i)
           /\ c.required \cup c.policies \subseteq d.capabilities
           /\ c.platform # "unspecified" => SelectedPlatform(d, c, i) # NoPlatform
           /\ ~ /\ Unseen(d, c, i)
                /\ Compatible(d, i) # NoPlatform
                /\ ~c.allowCompatible
<1> DEFINE first == Only(~Available(d, i), Blocker("runtime_backend_unavailable", d.id))
           missing(asked, code) == {Blocker(code, cap) : cap \in asked \ d.capabilities}
<1>1. first = {} <=> Available(d, i)
  BY DEF Only
<1>2. PlatformBlockers(d, c, i) = {} <=>
        /\ c.platform # "unspecified" => SelectedPlatform(d, c, i) # NoPlatform
        /\ ~ /\ Unseen(d, c, i)
             /\ Compatible(d, i) # NoPlatform
             /\ ~c.allowCompatible
  BY DEF PlatformBlockers, Only
<1>3. \A asked, code : missing(asked, code) = {} <=> asked \subseteq d.capabilities
  OBVIOUS
<1>4. Candidate(d, c, i).blockers =
        first \cup PlatformBlockers(d, c, i)
          \cup missing(c.required, "runtime_capability_missing")
          \cup missing(c.policies, "runtime_policy_unsupported")
  BY DEF Candidate
<1> HIDE DEF first, missing
<1> QED
  BY <1>1, <1>2, <1>3, <1>4

\* An eligible candidate serves the request on its platform, and is a fallback
\* exactly if it is not as asked.
LEMMA EligibleServes ==
  ASSUME NEW d \in Declarations, NEW c, NEW i, Candidate(d, c, i).blockers = {}
  PROVE  LET p == Candidate(d, c, i).platform
         IN /\ p \in Platforms \cup {NoPlatform}
            /\ Serves(d, c, p, i)
            /\ Candidate(d, c, i).fallback <=> ~AsAsked(d, c, p)
            /\ FallsBack(d, c, i) => c.allowCompatible
<1> DEFINE p == SelectedPlatform(d, c, i)
<1>1. Candidate(d, c, i).platform = p
  BY DEF Candidate
<1>2. /\ d.platforms \subseteq Platforms /\ NoPlatform \notin Platforms
      /\ "automatic" \notin Platforms /\ "unspecified" \notin Platforms
  BY SelectionAssumption, PlatformsAre
<1>3. /\ Available(d, i)
      /\ c.required \cup c.policies \subseteq d.capabilities
      /\ c.platform # "unspecified" => p # NoPlatform
  BY Unblocked
<1>4. CASE c.platform = "unspecified"
  <2>1. p = NoPlatform /\ ~FallsBack(d, c, i)
    BY <1>2, <1>4 DEF SelectedPlatform, FallsBack, Unseen
  <2>2. Serves(d, c, p, i)
    BY <1>3, <1>4, <2>1 DEF Serves
  <2> QED
    BY <1>1, <1>4, <2>1, <2>2 DEF Candidate, AsAsked
<1>5. CASE c.platform # "unspecified"
  <2>1. p \in d.platforms \cap VisiblePlatforms(i)
    BY <1>3, <1>5, CompatibleIsSeen DEF SelectedPlatform
  <2>2. c.platform \in {"automatic"} \cup d.platforms
    BY <1>3, <1>5 DEF SelectedPlatform, FallsBack, Unseen
  <2>3. Serves(d, c, p, i)
    BY <1>3, <1>5, <2>1, <2>2 DEF Serves
  <2>4. FallsBack(d, c, i) <=> c.platform \notin {"automatic", "unspecified", p}
    BY <1>2, <1>3, <1>5, <2>1, <2>2 DEF SelectedPlatform, FallsBack, Unseen
  <2>5. Candidate(d, c, i).fallback <=> ~AsAsked(d, c, p)
    BY <2>4 DEF Candidate, AsAsked
  <2> QED
    BY <1>1, <1>2, <2>1, <2>3, <2>5 DEF FallsBack
<1> QED
  BY <1>4, <1>5

\* What may serve the request makes an eligible candidate, and no fallback if it
\* is as asked.
LEMMA ServesEligible ==
  ASSUME NEW d \in Declarations, NEW c, NEW i, NEW p, Serves(d, c, p, i),
         AsAsked(d, c, p) \/ c.allowCompatible
  PROVE  /\ Candidate(d, c, i).blockers = {}
         /\ AsAsked(d, c, p) =>
              /\ ~Candidate(d, c, i).fallback
              /\ c.platform = p => Candidate(d, c, i).platform = p
<1>2. /\ d.platforms \subseteq Platforms /\ NoPlatform \notin Platforms
      /\ "automatic" \notin Platforms /\ "unspecified" \notin Platforms
  BY SelectionAssumption, PlatformsAre
<1>3. Available(d, i) /\ c.required \cup c.policies \subseteq d.capabilities
  BY DEF Serves
<1>4. CASE c.platform = "unspecified"
  <2>1. ~Unseen(d, c, i) /\ SelectedPlatform(d, c, i) = NoPlatform
    BY <1>2, <1>4 DEF SelectedPlatform, FallsBack, Unseen
  <2>2. Candidate(d, c, i).blockers = {}
    BY <1>3, <1>4, <2>1, Unblocked
  <2> QED
    BY <1>4, <2>1, <2>2 DEF Candidate, AsAsked, FallsBack, Serves
<1>5. CASE c.platform # "unspecified"
  <2>1. /\ p \in d.platforms \cap VisiblePlatforms(i)
        /\ c.platform \in {"automatic"} \cup d.platforms
    BY <1>5 DEF Serves
  <2>2. Compatible(d, i) \in d.platforms \cap VisiblePlatforms(i)
    BY <2>1, CompatibleIsSeen
  <2>3. SelectedPlatform(d, c, i) # NoPlatform /\ (Unseen(d, c, i) => c.allowCompatible)
    BY <1>2, <1>5, <2>1, <2>2 DEF SelectedPlatform, FallsBack, Unseen, AsAsked
  <2>4. Candidate(d, c, i).blockers = {}
    BY <1>3, <2>3, Unblocked
  <2>5. ASSUME AsAsked(d, c, p)
        PROVE  /\ ~Unseen(d, c, i) /\ c.backend \in {NoBackend, d.id}
               /\ c.platform = p => SelectedPlatform(d, c, i) = p
    BY <1>2, <1>5, <2>1, <2>5 DEF AsAsked, Unseen, SelectedPlatform, FallsBack
  <2> QED
    BY <2>4, <2>5 DEF Candidate, FallsBack
<1> QED
  BY <1>4, <1>5

-----------------------------------------------------------------------------
(* The decision.                                                           *)

\* Among candidates of different backends one comes before all others.
LEMMA BestExists ==
  ASSUME NEW E, E # {}, NEW c,
         \A x \in E : x.backend \in BackendIds /\ x.fallback \in BOOLEAN,
         \A x, y \in E : x.backend = y.backend => x = y
  PROVE  \E a \in E : \A b \in E \ {a} : Better(a, b, c)
<1> DEFINE exact(x) == x.platform = c.platform
           Exact    == {x \in E : exact(x)}
           E1       == IF Exact # {} THEN Exact ELSE E
           Asked    == {x \in E1 : ~x.fallback}
           E2       == IF Asked # {} THEN Asked ELSE E1
           S        == {PlaceOf(x.backend) : x \in E2}
<1>1. E2 \subseteq E1 /\ E1 \subseteq E /\ E2 # {}
  OBVIOUS
<1>2. S \in SUBSET Nat /\ S # {}
  BY <1>1, IdOfPlace
<1>3. PICK m \in S : \A n \in S : m <= n
  <2> HIDE DEF S
  <2> QED
    BY <1>2, LeastOf
<1>4. PICK a \in E2 : PlaceOf(a.backend) = m
  BY <1>3
<1>5. ASSUME NEW b \in E \ {a} PROVE Better(a, b, c)
  <2>1. CASE b \notin E1
    <3>1. exact(a) /\ ~exact(b)
      BY <1>1, <2>1
    <3> QED
      BY <3>1 DEF Better
  <2>2. CASE b \in E1 \ E2
    <3>1. exact(a) = exact(b)
      BY <1>1, <2>2
    <3>2. ~a.fallback /\ b.fallback
      BY <1>1, <2>2
    <3> QED
      BY <3>1, <3>2 DEF Better
  <2>3. CASE b \in E2
    <3>1. exact(a) = exact(b)
      BY <1>1, <2>3
    <3>2. a.fallback = b.fallback
      BY <1>1, <2>3
    <3>3. a.backend # b.backend /\ a.backend \in BackendIds /\ b.backend \in BackendIds
      BY <1>1
    <3>4. PlaceOf(b.backend) \in S
      BY <2>3
    <3>5. PlaceOf(a.backend) <= PlaceOf(b.backend)
      BY <1>3, <1>4, <3>4
    <3>6. Precedes(a.backend, b.backend)
      BY <3>3, <3>5, IdOfPlace DEF Precedes
    <3> QED
      BY <3>1, <3>2, <3>6 DEF Better
  <2> QED
    BY <2>1, <2>2, <2>3
<1> QED
  BY <1>1, <1>5

OneEach(declared) ==
  /\ declared \subseteq Declarations
  /\ \A d, e \in declared : d.id = e.id => d = e

\* The decision is the best of the eligible candidates, or a refusal where there
\* is none.
LEMMA Decision ==
  ASSUME NEW declared, OneEach(declared), NEW c, NEW i
  PROVE  LET chosen == Select(c, declared, i)
             considered == Considered(c, declared)
         IN \/ /\ chosen.ok = FALSE
               /\ \A d \in considered : Candidate(d, c, i).blockers # {}
            \/ \E d \in considered :
                 /\ Candidate(d, c, i).blockers = {}
                 /\ chosen = Success(c, Candidate(d, c, i))
                 /\ \A e \in considered :
                      /\ Candidate(e, c, i).blockers = {}
                      /\ Candidate(e, c, i) # Candidate(d, c, i)
                      => Better(Candidate(d, c, i), Candidate(e, c, i), c)
<1> DEFINE considered == Considered(c, declared)
           candidates == {Candidate(d, c, i) : d \in considered}
           eligible   == {x \in candidates : x.blockers = {}}
           best(a)    == \A b \in eligible \ {a} : Better(a, b, c)
<1>1. considered \subseteq declared
  BY DEF Considered
<1>2. CASE eligible = {}
  <2>1. \A d \in considered : Candidate(d, c, i).blockers # {}
    BY <1>2
  <2>2. Select(c, declared, i).ok = FALSE
    BY <1>2 DEF Select, Failure
  <2> QED
    BY <2>1, <2>2
<1>3. CASE eligible # {}
  <2>0. \A d \in considered :
          /\ Candidate(d, c, i).backend = d.id /\ d.id \in BackendIds
          /\ Candidate(d, c, i).fallback \in BOOLEAN
    <3>1. TAKE d \in considered
    <3>2. d.id \in BackendIds
      BY <1>1, SelectionAssumption DEF OneEach
    <3>3. Candidate(d, c, i).fallback \in BOOLEAN
      BY DEF Candidate
    <3> QED
      BY <3>2, <3>3 DEF Candidate
  <2>1. \A x \in eligible : x.backend \in BackendIds /\ x.fallback \in BOOLEAN
    BY <2>0
  <2>2. ASSUME NEW x \in eligible, NEW y \in eligible, x.backend = y.backend
        PROVE  x = y
    <3>1. PICK d \in considered : x = Candidate(d, c, i)
      OBVIOUS
    <3>2. PICK e \in considered : y = Candidate(e, c, i)
      OBVIOUS
    <3>3. d = e
      BY <1>1, <2>0, <2>2, <3>1, <3>2 DEF OneEach
    <3> QED
      BY <3>1, <3>2, <3>3
  <2>3. \E a \in eligible : best(a)
    <3> HIDE DEF eligible
    <3> QED
      BY <1>3, <2>1, <2>2, BestExists
  <2> DEFINE a == CHOOSE x \in eligible : best(x)
  <2>4. a \in eligible /\ best(a)
    BY <2>3
  <2>5. Select(c, declared, i) = Success(c, a)
    BY <1>3 DEF Select
  <2> HIDE DEF a
  <2>6. PICK d \in considered : a = Candidate(d, c, i)
    BY <2>4
  <2> QED
    BY <2>4, <2>5, <2>6
<1> QED
  BY <1>2, <1>3

\* A selection serves its request, as asked where it can, and refuses only what
\* cannot be served.
THEOREM SelectIsHonest ==
  ASSUME NEW declared, OneEach(declared), NEW c, NEW i
  PROVE  Honest(i, declared, c)
<1> DEFINE chosen   == Select(c, declared, i)
           considered == Considered(c, declared)
           choices  == considered \X (Platforms \cup {NoPlatform})
           serving  == {x \in choices :
                          /\ Serves(x[1], c, x[2], i)
                          /\ AsAsked(x[1], c, x[2]) \/ c.allowCompatible}
           as_asked == {x \in serving : AsAsked(x[1], c, x[2])}
           cand(d)  == Candidate(d, c, i)
<1>1. considered \subseteq Declarations
  BY DEF Considered, OneEach
<1>2. ASSUME NEW x \in serving PROVE x[1] \in considered /\ cand(x[1]).blockers = {}
  BY <1>1, <1>2, ServesEligible
<1>3. CASE chosen.ok = FALSE /\ \A d \in considered : cand(d).blockers # {}
  BY <1>2, <1>3 DEF Honest
<1>4. ASSUME NEW d \in considered, cand(d).blockers = {}, chosen = Success(c, cand(d)),
             \A e \in considered :
               cand(e).blockers = {} /\ cand(e) # cand(d) => Better(cand(d), cand(e), c)
      PROVE  Honest(i, declared, c)
  <2> DEFINE p == cand(d).platform
             x == <<d, p>>
  <2>1. /\ p \in Platforms \cup {NoPlatform} /\ Serves(d, c, p, i)
        /\ cand(d).fallback <=> ~AsAsked(d, c, p)
        /\ FallsBack(d, c, i) => c.allowCompatible
    BY <1>1, <1>4, EligibleServes
  <2>2. chosen.ok = TRUE /\ chosen.backend = d.id /\ chosen.platform = p
        /\ chosen.fallback = cand(d).fallback
    BY <1>4 DEF Success, Candidate
  <2>3. AsAsked(d, c, p) \/ c.allowCompatible
    <3>1. cand(d).fallback => c.backend \notin {NoBackend, d.id} \/ FallsBack(d, c, i)
      BY DEF Candidate
    <3>2. c.backend \notin {NoBackend, d.id} => c.allowCompatible
      BY DEF Considered
    <3> QED
      BY <2>1, <3>1, <3>2
  <2>4. x \in serving /\ (x \in as_asked <=> AsAsked(d, c, p))
    BY <2>1, <2>3
  <2>5. ASSUME NEW y \in as_asked, ~AsAsked(d, c, p) PROVE FALSE
    <3> DEFINE e == y[1]
               q == y[2]
    <3>1. /\ e \in considered /\ Serves(e, c, q, i) /\ AsAsked(e, c, q)
      BY <2>5
    <3>2. /\ cand(e).blockers = {} /\ ~cand(e).fallback
          /\ c.platform = q => cand(e).platform = q
      BY <1>1, <3>1, ServesEligible
    <3>3. cand(d).fallback /\ cand(e) # cand(d)
      BY <2>1, <2>5, <3>2
    <3>4. Better(cand(d), cand(e), c)
      BY <1>4, <3>1, <3>2, <3>3
    <3>5. p = c.platform /\ cand(e).platform # c.platform
      BY <3>2, <3>3, <3>4 DEF Better
    <3>6. c.platform \in {"automatic", "unspecified"}
      BY <3>1, <3>2, <3>5 DEF AsAsked
    <3> QED
      BY <2>1, <3>5, <3>6, SelectionAssumption, PlatformsAre
  <2>6. chosen.fallback <=> x \notin as_asked
    BY <2>1, <2>2, <2>4
  <2> QED
    BY <2>2, <2>4, <2>5, <2>6 DEF Honest
<1> QED
  BY <1>3, <1>4, Decision

-----------------------------------------------------------------------------
(* Registry, devices and the smoke that runs.                              *)

IdsDeclared ==
  \A b \in BackendIds : registry[b] # Nothing => DeclarationOf[registry[b]].id = b

BoundToFirst ==
  \A l \in Lifecycles :
    lifecycles[l] # Nothing =>
      /\ DevicesOf(lifecycles[l].platform) # {}
      /\ lifecycles[l].device = FirstDevice(lifecycles[l].platform)

SmokeOnTrack ==
  smoke # Nothing =>
    /\ smoke.device \in LocalDevices(smoke.platform)
    /\ smoke.passed <= Length(smoke.use)
    /\ smoke.blockers # << >> =>
         /\ smoke.passed < Length(smoke.use)
         /\ smoke.blockers = <<Phases[smoke.passed + 1]>>

ContextsInv ==
  ContextsTypeOK /\ IdsDeclared /\ BoundToFirst /\ SmokeOnTrack /\ ReceiptTells

LEMMA PhasesAre ==
  /\ Len(Phases) = 6
  /\ Length("smoke") = 5 /\ Length("portability") = 6
  /\ \A k \in 1 .. 6 : Phases[k] \in Blockers
BY DEF Phases, Length, Blockers, ToSet

LEMMA DeclaredOneEach ==
  ASSUME ContextsTypeOK, IdsDeclared
  PROVE  OneEach(Declared)
<1>1. \A b \in Registered : registry[b] \in Objects /\ DeclarationOf[registry[b]].id = b
  BY DEF Registered, ContextsTypeOK, IdsDeclared
<1>2. Declared \subseteq Declarations
  BY <1>1, ContextsAssumption DEF Declared
<1>3. ASSUME NEW d \in Declared, NEW e \in Declared, d.id = e.id PROVE d = e
  <2>1. PICK a \in Registered : d = DeclarationOf[registry[a]]
    BY DEF Declared
  <2>2. PICK b \in Registered : e = DeclarationOf[registry[b]]
    BY DEF Declared
  <2> QED
    BY <1>1, <1>3, <2>1, <2>2
<1> QED
  BY <1>2, <1>3 DEF OneEach

\* What is chosen is a registered object and a platform somebody sees.
LEMMA ChosenIs ==
  ASSUME ContextsTypeOK, IdsDeclared, NEW c, Chosen(c).ok
  PROVE  /\ Chosen(c).backend \in BackendIds
         /\ registry[Chosen(c).backend] \in Objects
         /\ Chosen(c).platform \in Platforms \cup {NoPlatform}
         /\ Chosen(c).platform # NoPlatform => DevicesOf(Chosen(c).platform) # {}
         /\ c.platform = "cpu" /\ ~c.allowCompatible => DevicesOf("cpu") # {}
<1> DEFINE cand(d) == Candidate(d, c, inspection)
<1>1. PICK d \in Considered(c, Declared) :
        cand(d).blockers = {} /\ Chosen(c) = Success(c, cand(d))
  BY DeclaredOneEach, Decision DEF Chosen
<1>2. d \in Declared /\ d \in Declarations
  BY DeclaredOneEach DEF Considered, OneEach
<1>3. PICK b \in Registered : d = DeclarationOf[registry[b]]
  BY <1>2 DEF Declared
<1>4. b \in BackendIds /\ registry[b] \in Objects /\ d.id = b
  BY <1>3 DEF Registered, ContextsTypeOK, IdsDeclared
<1>5. Chosen(c).backend = d.id /\ Chosen(c).platform = cand(d).platform
  BY <1>1 DEF Success, Candidate
<1>6. /\ cand(d).platform \in Platforms \cup {NoPlatform}
      /\ Serves(d, c, cand(d).platform, inspection)
      /\ cand(d).fallback <=> ~AsAsked(d, c, cand(d).platform)
      /\ FallsBack(d, c, inspection) => c.allowCompatible
  BY <1>1, <1>2, EligibleServes
<1>7. NoPlatform \notin Platforms
  BY SelectionAssumption
<1>8. ASSUME cand(d).platform # NoPlatform PROVE DevicesOf(cand(d).platform) # {}
  BY <1>6, <1>8 DEF Serves, VisiblePlatforms, DevicesOf
<1>9. ASSUME c.platform = "cpu", ~c.allowCompatible PROVE DevicesOf("cpu") # {}
  <2>1. cand(d).platform \in VisiblePlatforms(inspection)
    BY <1>6, <1>9 DEF Serves
  <2>2. cand(d).platform = SelectedPlatform(d, c, inspection)
    BY DEF Candidate
  <2>3. cand(d).platform \in {"cpu", NoPlatform}
    BY <1>6, <1>9, <2>2 DEF SelectedPlatform
  <2>4. cand(d).platform # NoPlatform
    BY <1>1, <1>9, <2>2, Unblocked
  <2> QED
    BY <2>1, <2>3, <2>4 DEF VisiblePlatforms, DevicesOf
<1> QED
  BY <1>4, <1>5, <1>6, <1>8, <1>9

\* The first device of a platform is one of its devices.
LEMMA FirstIsThere ==
  ASSUME inspection \in Inspections, NEW p, DevicesOf(p) # {}
  PROVE  FirstDevice(p) \in DevicesOf(p) /\ FirstDevice(p) \in 1 .. Len(inspection.devices)
<1>1. DOMAIN inspection.devices = 1 .. Len(inspection.devices)
      /\ Len(inspection.devices) \in Nat
  BY SelectionAssumption
<1>2. DevicesOf(p) \in SUBSET Nat /\ DevicesOf(p) \subseteq 1 .. Len(inspection.devices)
  BY <1>1 DEF DevicesOf
<1>3. \E k \in DevicesOf(p) : \A j \in DevicesOf(p) : k <= j
  BY <1>2, LeastOf
<1> QED
  BY <1>2, <1>3 DEF FirstDevice

\* And so is the device of a smoke, among those of the process.
LEMMA SmokeDeviceIsThere ==
  ASSUME inspection \in Inspections, NEW p, SmokeDevice(p) # Nothing
  PROVE  SmokeDevice(p) \in LocalDevices(p) /\ SmokeDevice(p) \in Nat
<1>1. LocalDevices(p) # {}
  BY DEF SmokeDevice
<1>2. DOMAIN inspection.devices = 1 .. Len(inspection.devices)
      /\ Len(inspection.devices) \in Nat
  BY SelectionAssumption
<1>3. LocalDevices(p) \in SUBSET Nat
  BY <1>2 DEF LocalDevices, DevicesOf
<1>4. \E k \in LocalDevices(p) : \A j \in LocalDevices(p) : k <= j
  BY <1>1, <1>3, LeastOf
<1> QED
  BY <1>1, <1>3, <1>4 DEF SmokeDevice

LEMMA SameDevices ==
  ASSUME inspection' = inspection
  PROVE  \A p : /\ DevicesOf(p)' = DevicesOf(p) /\ FirstDevice(p)' = FirstDevice(p)
                /\ LocalDevices(p)' = LocalDevices(p)
BY DEF DevicesOf, FirstDevice, LocalDevices

LEMMA IdsAre ==
  /\ \A u \in Uses, p \in Platforms, s \in Seeds : ContextId(u, p, s) \in ContextIds
  /\ \A b \in Bindings : IdOf(b) \in ContextIds
BY DEF ContextIds, IdOf, Bindings, Uses

\* A context that is opened or closed is the only one that changes.
LEMMA OneContext ==
  ASSUME ContextsTypeOK, NEW o \in Objects, NEW id \in ContextIds,
         NEW device \in Nat \cup {Nothing}, NEW kept,
         kept = [contexts EXCEPT ![o][id] = device]
  PROVE  /\ kept \in [Objects -> [ContextIds -> Nat \cup {Nothing}]]
         /\ kept[o][id] = device
         /\ \A p \in Objects, j \in ContextIds :
              p # o \/ j # id => kept[p][j] = contexts[p][j]
BY DEF ContextsTypeOK

THEOREM ContextsInitInv == ContextsInit => ContextsInv
BY NothingAssumption
   DEF ContextsInit, ContextsInv, ContextsTypeOK, IdsDeclared, BoundToFirst, SmokeOnTrack,
       ReceiptTells

\* Registering, binding and placing keep smoke and receipt as they are.
LEMMA CallerKeepsContextsInv ==
  ASSUME ContextsInv,
         \/ \E o \in Objects, replace \in BOOLEAN : Register(o, replace)
         \/ \E b \in BackendIds : Unregister(b)
         \/ \E l \in Lifecycles, c \in Requests : Bind(l, c)
         \/ \E l \in Lifecycles : PlaceStep(l)
  PROVE  ContextsInv'
<1>1. UNCHANGED <<inspection, smoke, receipt, torn>>
  BY DEF Register, Unregister, Bind, PlaceStep
<1>2. SmokeOnTrack' /\ ReceiptTells'
  BY <1>1, SameDevices DEF ContextsInv, SmokeOnTrack, ReceiptTells
<1> USE DEF ContextsInv
<1>3. ASSUME NEW o \in Objects, NEW replace \in BOOLEAN, Register(o, replace)
      PROVE  ContextsInv'
  <2>1. DeclarationOf[o].id \in BackendIds
    BY SelectionAssumption, ContextsAssumption
  <2>2. ContextsTypeOK' /\ IdsDeclared'
    BY <1>1, <1>3, <2>1 DEF Register, ContextsTypeOK, IdsDeclared
  <2>3. BoundToFirst'
    BY <1>1, <1>3, SameDevices DEF Register, BoundToFirst
  <2> QED
    BY <1>2, <2>2, <2>3
<1>4. ASSUME NEW b \in BackendIds, Unregister(b) PROVE ContextsInv'
  <2>1. ContextsTypeOK' /\ IdsDeclared'
    BY <1>1, <1>4 DEF Unregister, ContextsTypeOK, IdsDeclared
  <2>2. BoundToFirst'
    BY <1>1, <1>4, SameDevices DEF Unregister, BoundToFirst
  <2> QED
    BY <1>2, <2>1, <2>2
<1>5. ASSUME NEW l \in Lifecycles, NEW c \in Requests, Bind(l, c) PROVE ContextsInv'
  <2> DEFINE platform == Chosen(c).platform
             bound    == BindingOf(c, platform)
  <2>1. /\ platform \in Platforms /\ DevicesOf(platform) # {} /\ c.seed \in Seeds
        /\ registry[c.backend] \in Objects
    BY <1>5, ChosenIs DEF Bind, Seeds
  <2>2. bound \in Bindings /\ bound.device = FirstDevice(platform)
        /\ bound.platform = platform /\ bound.object \in Objects /\ bound.device \in Nat
        /\ ContextId("portability", platform, c.seed) \in ContextIds
    BY <2>1, FirstIsThere, IdsAre DEF BindingOf, Bindings, ContextsTypeOK, Uses
  <2>3. /\ lifecycles' = [lifecycles EXCEPT ![l] = bound]
        /\ contexts' = OpenContext(bound.object, ContextId("portability", platform, c.seed),
                                   bound.device)
        /\ UNCHANGED <<registry, placed>>
    BY <1>5 DEF Bind
  <2> HIDE DEF platform, bound
  <2>4. contexts' \in [Objects -> [ContextIds -> Nat \cup {Nothing}]]
    BY <2>2, <2>3, OneContext DEF OpenContext
  <2>5. ContextsTypeOK' /\ IdsDeclared'
    BY <1>1, <2>2, <2>3, <2>4 DEF ContextsTypeOK, IdsDeclared
  <2>6. BoundToFirst'
    BY <1>1, <2>1, <2>2, <2>3, SameDevices DEF BoundToFirst, ContextsTypeOK
  <2> QED
    BY <1>2, <2>5, <2>6
<1>6. ASSUME NEW l \in Lifecycles, PlaceStep(l) PROVE ContextsInv'
  <2> USE <1>6
  <2>1. lifecycles[l] \in Bindings /\ lifecycles[l].object \in Objects
        /\ IdOf(lifecycles[l]) \in ContextIds /\ UNCHANGED <<registry, lifecycles>>
    BY IdsAre DEF PlaceStep, ContextsTypeOK, Bindings
  <2>2. Kept(l) \in Nat \cup {Nothing}
    BY <2>1 DEF Kept, ContextsTypeOK
  <2>3. \/ contexts' = contexts
        \/ contexts' = OpenContext(lifecycles[l].object, IdOf(lifecycles[l]), 1)
    BY DEF PlaceStep
  <2>4. contexts' \in [Objects -> [ContextIds -> Nat \cup {Nothing}]]
    <3>1. CASE contexts' = contexts
      BY <3>1 DEF ContextsTypeOK
    <3>2. CASE contexts' = OpenContext(lifecycles[l].object, IdOf(lifecycles[l]), 1)
      <4> DEFINE o == lifecycles[l].object
                 id == IdOf(lifecycles[l])
      <4>1. o \in Objects /\ id \in ContextIds /\ contexts' = [contexts EXCEPT ![o][id] = 1]
        BY <2>1, <3>2 DEF OpenContext
      <4> HIDE DEF o, id
      <4> QED
        BY <4>1, OneContext
    <3> QED
      BY <2>3, <3>1, <3>2
  <2>5. placed' \in [Lifecycles -> Nat \cup {Nothing, Refused}]
    BY <2>2 DEF PlaceStep, ContextsTypeOK
  <2>6. ContextsTypeOK' /\ IdsDeclared'
    BY <1>1, <2>1, <2>4, <2>5 DEF ContextsTypeOK, IdsDeclared
  <2>7. BoundToFirst'
    BY <1>1, <2>1, SameDevices DEF BoundToFirst
  <2> QED
    BY <1>2, <2>6, <2>7
<1> QED
  BY <1>3, <1>4, <1>5, <1>6

\* The receipt of a smoke that ran tells of it.
LEMMA SmokeReceiptTells ==
  ASSUME ContextsTypeOK, SmokeOnTrack, smoke # Nothing, Over,
         NEW end \in {<< >>, <<"teardown">>},
         receipt' = Receipt(smoke, smoke.blockers \o end), inspection' = inspection
  PROVE  receipt' \in Receipts /\ ReceiptTells'
<1> DEFINE b == smoke.blockers \o end
           r == Receipt(smoke, b)
<1>1. /\ smoke \in Smokes /\ smoke.passed \in 0 .. 6 /\ smoke.use \in Uses
      /\ Length(smoke.use) \in {5, 6} /\ smoke.device \in LocalDevices(smoke.platform)
      /\ smoke.passed <= Length(smoke.use)
  BY PhasesAre DEF ContextsTypeOK, Smokes, SmokeOnTrack, Uses
<1>2. b \in Seq(Blockers)
  <2>1. "teardown" \in Blockers
    BY DEF Blockers
  <2>2. << >> \in Seq(Blockers) /\ <<"teardown">> \in Seq(Blockers)
    BY <2>1
  <2>3. smoke.blockers \in Seq(Blockers)
    BY <1>1 DEF Smokes
  <2> QED
    BY <2>2, <2>3, ConcatProperties
<1>3. \/ smoke.blockers = << >> /\ smoke.passed = Length(smoke.use) /\ b = end
      \/ /\ smoke.passed < Length(smoke.use)
         /\ b \in {<<Phases[smoke.passed + 1]>>, <<Phases[smoke.passed + 1], "teardown">>}
  <2>1. smoke.blockers = << >> => b = end /\ smoke.passed = Length(smoke.use)
    BY <1>1, ConcatEmptySeq, EmptySeq DEF Over
  <2>2. ASSUME smoke.blockers # << >>
        PROVE  /\ smoke.passed < Length(smoke.use)
               /\ b \in {<<Phases[smoke.passed + 1]>>, <<Phases[smoke.passed + 1], "teardown">>}
    <3>1. /\ smoke.passed < Length(smoke.use)
          /\ smoke.blockers = <<Phases[smoke.passed + 1]>>
      BY <2>2 DEF SmokeOnTrack
    <3>2. Phases[smoke.passed + 1] \in Blockers
      BY <1>1, <3>1, PhasesAre
    <3> DEFINE x == Phases[smoke.passed + 1]
    <3>3. <<x>> \in Seq(Blockers) /\ "teardown" \in Blockers
      BY <3>2 DEF Blockers
    <3>4. <<x>> \o << >> = <<x>>
      BY <3>3, ConcatEmptySeq
    <3>5. <<x>> \o <<"teardown">> = Append(<<x>>, "teardown")
      BY <3>3, AppendIsConcat
    <3> HIDE DEF x
    <3>6. Append(<<x>>, "teardown") = <<x, "teardown">>
      <4> DEFINE s == Append(<<x>>, "teardown")
      <4>1. s \in Seq(Blockers) /\ Len(s) = 2 /\ s[1] = x /\ s[2] = "teardown"
        BY <3>3, AppendProperties
      <4> HIDE DEF s
      <4>2. s = <<x, "teardown">>
        BY <4>1
      <4> QED
        BY <4>2 DEF s
    <3> QED
      BY <3>1, <3>4, <3>5, <3>6 DEF x
  <2> QED
    BY <2>1, <2>2
<1>4. r \in Receipts
  BY <1>1, <1>2 DEF Receipt, Receipts, Smokes
<1>5. /\ r.status = "pass" <=> b = << >>
      /\ r.blockers = b /\ r.device = smoke.device /\ r.platform = smoke.platform
      /\ r.use = smoke.use
      /\ r.roundTrip <=> smoke.passed = 6
      /\ r.validated <=> smoke.passed >= 5
      /\ r.synchronized <=> smoke.passed >= 4
  BY DEF Receipt
<1> DEFINE reached == IF r.roundTrip THEN 6
                      ELSE IF r.validated THEN 5
                      ELSE IF r.synchronized THEN 4 ELSE 0
<1>6. /\ reached \in 0 .. 6 /\ reached <= smoke.passed
      /\ smoke.passed = Length(smoke.use) => reached = Length(smoke.use)
  BY <1>1, <1>5
<1>7. \/ b \in {<< >>, <<"teardown">>} /\ reached = Length(smoke.use)
      \/ \E k \in reached + 1 .. Length(smoke.use) :
           b \in {<<Phases[k]>>, <<Phases[k], "teardown">>}
  <2>1. CASE smoke.blockers = << >> /\ smoke.passed = Length(smoke.use) /\ b = end
    BY <1>6, <2>1
  <2>2. CASE /\ smoke.passed < Length(smoke.use)
             /\ b \in {<<Phases[smoke.passed + 1]>>, <<Phases[smoke.passed + 1], "teardown">>}
    <3>1. smoke.passed + 1 \in reached + 1 .. Length(smoke.use)
      BY <1>1, <1>6, <2>2
    <3> HIDE DEF b, reached
    <3> QED
      BY <2>2, <3>1
  <2> HIDE DEF b, reached
  <2> QED
    BY <1>3, <2>1, <2>2
<1>8. receipt' = r /\ r.device \in LocalDevices(receipt.platform)'
  BY <1>1, <1>5 DEF LocalDevices, DevicesOf
<1> HIDE DEF r, b
<1> QED
  BY <1>4, <1>5, <1>7, <1>8 DEF ReceiptTells

\* A smoke begins on a device of its platform in this process.
LEMMA BeginKeepsContextsInv ==
  ASSUME ContextsInv, NEW c \in Requests, NEW use \in Uses, NEW device,
         Chosen(c).ok, c.platform \in {"cpu", "gpu", "tpu"},
         device \in LocalDevices(c.platform), device \in Nat,
         BeginSmoke(SmokeOf(use, c, device))
  PROVE  ContextsInv'
<1> DEFINE s == SmokeOf(use, c, device)
<1>1. registry[Chosen(c).backend] \in Objects
  BY ChosenIs DEF ContextsInv
<1>2. s \in Smokes
  <2>1. << >> \in Seq(Blockers) /\ 0 \in 0 .. Len(Phases)
    BY PhasesAre
  <2>2. c.platform \in Platforms /\ c.seed \in Seeds
    BY PlatformsAre DEF Seeds
  <2> QED
    BY <1>1, <2>1, <2>2 DEF SmokeOf, Smokes
<1>3. /\ s.device = device /\ s.platform = c.platform /\ s.passed = 0
      /\ s.use = use /\ s.blockers = << >>
  BY DEF SmokeOf
<1>4. /\ UNCHANGED <<inspection, registry, contexts, lifecycles, placed, torn>>
      /\ receipt' = Nothing /\ smoke' = s
  BY DEF BeginSmoke
<1> HIDE DEF s
<1>5. ContextsTypeOK' /\ IdsDeclared' /\ BoundToFirst' /\ ReceiptTells'
  BY <1>2, <1>4, SameDevices
     DEF ContextsInv, ContextsTypeOK, IdsDeclared, BoundToFirst, ReceiptTells
<1>6. s.device \in LocalDevices(smoke.platform)'
  BY <1>3, <1>4 DEF LocalDevices, DevicesOf
<1>7. SmokeOnTrack'
  BY <1>3, <1>4, <1>6, PhasesAre DEF SmokeOnTrack, Uses
<1> QED
  BY <1>5, <1>7 DEF ContextsInv

\* A smoke that is declined answers with a receipt only.
LEMMA AnswerKeepsContextsInv ==
  ASSUME ContextsInv, NEW c \in Requests, NEW use \in Uses,
         NEW status \in {"unavailable", "fail"}, Answer(Declined(use, status, c))
  PROVE  ContextsInv'
<1> DEFINE r == Declined(use, status, c)
<1>1. r \in Receipts
  <2>1. <<status>> \in Seq(Blockers)
    BY DEF Blockers
  <2> QED
    BY <2>1 DEF Declined, Receipts
<1>2. r.device = Nothing /\ r.status # "pass" /\ r.blockers # << >>
  BY DEF Declined
<1>3. /\ UNCHANGED <<inspection, registry, contexts, lifecycles, placed, smoke, torn>>
      /\ receipt' = r
  BY DEF Answer
<1> HIDE DEF r
<1>4. ReceiptTells'
  BY <1>2, <1>3 DEF ReceiptTells
<1>5. ContextsTypeOK' /\ IdsDeclared' /\ BoundToFirst' /\ SmokeOnTrack'
  BY <1>1, <1>3, SameDevices
     DEF ContextsInv, ContextsTypeOK, IdsDeclared, BoundToFirst, SmokeOnTrack
<1> QED
  BY <1>4, <1>5 DEF ContextsInv

LEMMA SmokeIdIs ==
  ASSUME ContextsTypeOK, smoke # Nothing
  PROVE  smoke \in Smokes /\ SmokeId \in ContextIds /\ smoke.object \in Objects
BY IdsAre DEF ContextsTypeOK, SmokeId, Smokes

\* The only device a lifecycle of one process can have is this process's.
LEMMA StartKeepsContextsInv ==
  ASSUME ContextsInv, NEW c \in Requests, PortabilitySmoke(c) \/ CpuSmoke(c)
  PROVE  ContextsInv'
<1>1. CASE PortabilitySmoke(c)
  <2> DEFINE device == SmokeDevice(c.platform)
  <2>1. CASE Chosen(c).ok /\ device # Nothing /\ BeginSmoke(SmokeOf("portability", c, device))
    <3>1. device \in LocalDevices(c.platform) /\ device \in Nat
      BY <2>1, SmokeDeviceIsThere DEF ContextsInv, ContextsTypeOK
    <3>2. c.platform \in {"cpu", "gpu", "tpu"} /\ "portability" \in Uses
      BY <1>1 DEF PortabilitySmoke, Uses
    <3> HIDE DEF device
    <3> QED
      BY <2>1, <3>1, <3>2, BeginKeepsContextsInv
  <2>2. CASE Answer(Declined("portability", "unavailable", c))
    BY <2>2, AnswerKeepsContextsInv DEF Uses
  <2> QED
    BY <1>1, <2>1, <2>2 DEF PortabilitySmoke
<1>2. CASE CpuSmoke(c)
  <2> DEFINE device == FirstDevice("cpu")
  <2>1. CASE CpuPreflight(c) /\ BeginSmoke(SmokeOf("smoke", c, device))
    <3>1. /\ inspection \in Inspections /\ inspection.processes = 1
          /\ c.platform = "cpu" /\ ~c.allowCompatible /\ Chosen(c).ok
      BY <2>1 DEF CpuPreflight, ContextsInv, ContextsTypeOK
    <3>2. DevicesOf("cpu") # {}
      BY <3>1, ChosenIs DEF ContextsInv
    <3>3. device \in DevicesOf("cpu") /\ device \in 1 .. Len(inspection.devices)
      BY <3>1, <3>2, FirstIsThere
    <3>4. device \in LocalDevices("cpu")
      BY <3>1, <3>3, ProcessesAssumption DEF LocalDevices, DevicesOf
    <3>5. "smoke" \in Uses /\ device \in Nat
      BY <3>3 DEF Uses
    <3> HIDE DEF device
    <3> QED
      BY <2>1, <3>1, <3>4, <3>5, BeginKeepsContextsInv
  <2>2. CASE Answer(Declined("smoke", "fail", c))
    BY <2>2, AnswerKeepsContextsInv DEF Uses
  <2> QED
    BY <1>2, <2>1, <2>2 DEF CpuSmoke
<1> QED
  BY <1>1, <1>2

\* The steps of a smoke that runs.
LEMMA PhaseKeepsContextsInv ==
  ASSUME ContextsInv, PhaseSucceeds \/ PhaseFails
  PROVE  ContextsInv'
<1> USE DEF ContextsInv
<1>1. /\ UNCHANGED <<inspection, registry, lifecycles, placed, receipt, torn>>
      /\ smoke # Nothing /\ ~Over
  BY DEF PhaseSucceeds, PhaseFails
<1>2. IdsDeclared' /\ BoundToFirst' /\ ReceiptTells'
  BY <1>1, SameDevices DEF IdsDeclared, BoundToFirst, ReceiptTells
<1>3. /\ smoke \in Smokes /\ SmokeId \in ContextIds /\ smoke.object \in Objects
      /\ smoke.device \in Nat /\ smoke.use \in Uses /\ smoke.passed \in 0 .. 6
      /\ Length(smoke.use) \in {5, 6}
  BY <1>1, SmokeIdIs, PhasesAre DEF Smokes, Uses
<1>4. smoke.blockers = << >> /\ smoke.passed < Length(smoke.use)
  BY <1>1, <1>3 DEF Over, SmokeOnTrack
<1>5. CASE PhaseSucceeds
  <2>1. smoke' = [smoke EXCEPT !.passed = smoke.passed + 1]
    BY <1>5 DEF PhaseSucceeds
  <2>2. contexts' \in [Objects -> [ContextIds -> Nat \cup {Nothing}]]
    <3>1. CASE contexts' = contexts
      BY <3>1 DEF ContextsTypeOK
    <3>2. CASE contexts' = OpenContext(smoke.object, SmokeId, smoke.device)
      <4> DEFINE o == smoke.object
                 id == SmokeId
                 k == smoke.device
      <4>1. /\ o \in Objects /\ id \in ContextIds /\ k \in Nat
            /\ contexts' = [contexts EXCEPT ![o][id] = k]
        BY <1>3, <3>2 DEF OpenContext
      <4> HIDE DEF o, id, k
      <4> QED
        BY <4>1, OneContext
    <3> QED
      BY <1>5, <3>1, <3>2 DEF PhaseSucceeds
  <2>3. smoke' \in Smokes
    BY <1>3, <1>4, <2>1, PhasesAre DEF Smokes
  <2>4. SmokeOnTrack'
    <3>1. /\ smoke'.device = smoke.device /\ smoke'.platform = smoke.platform
          /\ smoke'.use = smoke.use /\ smoke'.blockers = << >>
          /\ smoke'.passed = smoke.passed + 1
      BY <1>3, <1>4, <2>1 DEF Smokes
    <3>2. smoke.device \in LocalDevices(smoke.platform)
      BY <1>1 DEF SmokeOnTrack
    <3>3. smoke'.device \in LocalDevices(smoke.platform)'
      BY <1>1, <3>1, <3>2 DEF LocalDevices, DevicesOf
    <3> QED
      BY <1>3, <1>4, <3>1, <3>3 DEF SmokeOnTrack
  <2>5. ContextsTypeOK'
    BY <1>1, <2>2, <2>3 DEF ContextsTypeOK
  <2> QED
    BY <1>2, <2>4, <2>5
<1>6. CASE PhaseFails
  <2> DEFINE b == <<Phases[smoke.passed + 1]>>
  <2>1. smoke' = [smoke EXCEPT !.blockers = b] /\ UNCHANGED contexts
    BY <1>6 DEF PhaseFails
  <2>2. b \in Seq(Blockers) /\ b # << >>
    <3>1. Phases[smoke.passed + 1] \in Blockers
      BY <1>3, <1>4, PhasesAre
    <3> QED
      BY <3>1
  <2>3. smoke' \in Smokes
    <3> HIDE DEF b
    <3> QED
      BY <1>3, <2>1, <2>2 DEF Smokes
  <2>4. SmokeOnTrack'
    <3>1. /\ smoke'.device = smoke.device /\ smoke'.platform = smoke.platform
          /\ smoke'.use = smoke.use /\ smoke'.blockers = b /\ smoke'.passed = smoke.passed
      BY <1>3, <2>1 DEF Smokes
    <3>2. smoke.device \in LocalDevices(smoke.platform)
      BY <1>1 DEF SmokeOnTrack
    <3>3. smoke'.device \in LocalDevices(smoke.platform)'
      BY <1>1, <3>1, <3>2 DEF LocalDevices, DevicesOf
    <3> QED
      BY <1>3, <1>4, <3>1, <3>3 DEF SmokeOnTrack
  <2>5. ContextsTypeOK'
    BY <1>1, <2>1, <2>3 DEF ContextsTypeOK
  <2> QED
    BY <1>2, <2>4, <2>5
<1> QED
  BY <1>5, <1>6

LEMMA LeaveKeepsContextsInv ==
  ASSUME ContextsInv, smoke # Nothing, NEW r, Leave(r),
         r \in Receipts \cup {Nothing}, ReceiptTells'
  PROVE  ContextsInv'
<1>1. /\ UNCHANGED <<inspection, registry, lifecycles, placed>>
      /\ contexts' = CleanUp /\ smoke' = Nothing /\ receipt' = r
      /\ torn' \in [Lifecycles -> BOOLEAN]
  BY DEF Leave, ContextsInv, ContextsTypeOK
<1>2. contexts' \in [Objects -> [ContextIds -> Nat \cup {Nothing}]]
  <2>1. CASE contexts' = contexts
    BY <2>1 DEF ContextsInv, ContextsTypeOK
  <2>2. CASE contexts' = CloseContext(smoke.object, SmokeId)
    <3> DEFINE o == smoke.object
               id == SmokeId
    <3>1. o \in Objects /\ id \in ContextIds /\ contexts' = [contexts EXCEPT ![o][id] = Nothing]
      BY <2>2, SmokeIdIs DEF CloseContext, ContextsInv
    <3> HIDE DEF o, id
    <3> QED
      BY <3>1, OneContext DEF ContextsInv
  <2> QED
    BY <1>1, <2>1, <2>2 DEF CleanUp
<1> QED
  BY <1>1, <1>2, SameDevices
     DEF ContextsInv, ContextsTypeOK, IdsDeclared, BoundToFirst, SmokeOnTrack

LEMMA EndKeepsContextsInv ==
  ASSUME ContextsInv, (\E raises \in BOOLEAN : Teardown(raises)) \/ Interrupted
  PROVE  ContextsInv'
<1>1. ASSUME NEW raises \in BOOLEAN, Teardown(raises) PROVE ContextsInv'
  <2> DEFINE end == IF raises THEN <<"teardown">> ELSE << >>
             r == Receipt(smoke, smoke.blockers \o end)
  <2>1. smoke # Nothing /\ Over /\ Leave(r) /\ end \in {<< >>, <<"teardown">>}
    BY <1>1 DEF Teardown
  <2>2. receipt' = r /\ inspection' = inspection
    BY <2>1 DEF Leave
  <2> HIDE DEF end
  <2>3. r \in Receipts /\ ReceiptTells'
    BY <2>1, <2>2, SmokeReceiptTells DEF ContextsInv
  <2> HIDE DEF r
  <2> QED
    BY <2>1, <2>3, LeaveKeepsContextsInv
<1>2. CASE Interrupted
  <2>1. smoke # Nothing /\ Leave(Nothing)
    BY <1>2 DEF Interrupted
  <2>2. ReceiptTells'
    BY <2>1 DEF Leave, ReceiptTells
  <2> QED
    BY <2>1, <2>2, LeaveKeepsContextsInv
<1> QED
  BY <1>1, <1>2

THEOREM ContextsStepInv ==
  ContextsInv /\ [ContextsNext]_contextsVars => ContextsInv'
<1> SUFFICES ASSUME ContextsInv, [ContextsNext]_contextsVars PROVE ContextsInv'
  OBVIOUS
<1>1. CASE ContextsNext
  BY <1>1, CallerKeepsContextsInv, StartKeepsContextsInv, PhaseKeepsContextsInv,
     EndKeepsContextsInv DEF ContextsNext
<1>2. CASE UNCHANGED contextsVars
  BY <1>2, SameDevices
     DEF contextsVars, ContextsInv, ContextsTypeOK, IdsDeclared, BoundToFirst, SmokeOnTrack,
         ReceiptTells
<1> QED
  BY <1>1, <1>2

LEMMA ContextsInvariance == ContextsSpec => []ContextsInv
BY ContextsInitInv, ContextsStepInv, PTL DEF ContextsSpec

\* Everything the registry, the backends and the smokes keep is well typed.
THEOREM ContextsTypeCorrect == ContextsSpec => []ContextsTypeOK
<1>1. ContextsInv => ContextsTypeOK
  BY DEF ContextsInv
<1> QED
  BY <1>1, ContextsInvariance, PTL

\* A receipt says how far its smoke got, where, and what went wrong first.
THEOREM ReceiptsTell == ContextsSpec => []ReceiptTells
<1>1. ContextsInv => ReceiptTells
  BY DEF ContextsInv
<1> QED
  BY <1>1, ContextsInvariance, PTL

\* Whatever is registered, a selection serves its request, and refuses only what
\* cannot be served.
THEOREM SelectionsAreHonest == ContextsSpec => []SelectionHonest
<1>1. ContextsInv => SelectionHonest
  BY DeclaredOneEach, SelectIsHonest DEF ContextsInv, SelectionHonest
<1> QED
  BY <1>1, ContextsInvariance, PTL

-----------------------------------------------------------------------------
(***************************************************************************)
(* Whose a context is.  A context is that of a bound lifecycle or of the   *)
(* smoke that runs.  Everybody who opens a lifecycle's context opens it    *)
(* with the same device except a smoke, and what a smoke opened is gone    *)
(* when it is over: a lifecycle then finds its own device or none.         *)
(***************************************************************************)
Holds(l, o, id) ==
  lifecycles[l] # Nothing /\ lifecycles[l].object = o /\ IdOf(lifecycles[l]) = id

SmokeHolds(o, id) ==
  smoke # Nothing /\ smoke.passed >= 1 /\ o = smoke.object /\ id = SmokeId

ContextsOwned ==
  \A o \in Objects, id \in ContextIds :
    contexts[o][id] # Nothing => SmokeHolds(o, id) \/ \E l \in Lifecycles : Holds(l, o, id)

Lost(l) == Kept(l) = Nothing /\ torn[l]

KeptOrTorn ==
  \A l \in Lifecycles :
    lifecycles[l] # Nothing =>
      \/ Kept(l) = lifecycles[l].device
      \/ Lost(l)
      \/ SmokeHolds(lifecycles[l].object, IdOf(lifecycles[l]))

BoundFirst == \A l \in Lifecycles : lifecycles[l] = Nothing => placed[l] = Nothing

HeldInv == ContextsOwned /\ KeptOrTorn /\ BoundFirst /\ LifecyclesKeepTheirDevice

LEMMA InitHeldInv == ContextsInit => HeldInv
BY DEF ContextsInit, HeldInv, ContextsOwned, KeptOrTorn, Lost, BoundFirst, LifecyclesKeepTheirDevice

LEMMA BindingIs ==
  ASSUME ContextsInv, NEW l \in Lifecycles, lifecycles[l] # Nothing
  PROVE  /\ lifecycles[l] \in Bindings /\ lifecycles[l].object \in Objects
         /\ IdOf(lifecycles[l]) \in ContextIds
         /\ lifecycles[l].device \in 1 .. Len(inspection.devices)
         /\ Kept(l) \in Nat \cup {Nothing}
<1>1. lifecycles[l] \in Bindings /\ lifecycles[l].object \in Objects
      /\ IdOf(lifecycles[l]) \in ContextIds
  BY IdsAre DEF ContextsInv, ContextsTypeOK, Bindings
<1>2. lifecycles[l].device \in 1 .. Len(inspection.devices)
  BY FirstIsThere DEF ContextsInv, ContextsTypeOK, BoundToFirst
<1>3. Kept(l) \in Nat \cup {Nothing}
  BY <1>1 DEF Kept, ContextsInv, ContextsTypeOK
<1> QED
  BY <1>1, <1>2, <1>3

\* Lifecycles of one context have one device: binding another opens it anew with
\* the same.
LEMMA BindKeepsHeldInv ==
  ASSUME ContextsInv, HeldInv, ContextsInv', NEW l \in Lifecycles, NEW c \in Requests, Bind(l, c)
  PROVE  HeldInv'
<1> DEFINE platform == Chosen(c).platform
           bound    == BindingOf(c, platform)
           o        == bound.object
           id       == ContextId("portability", platform, c.seed)
<1>1. /\ smoke = Nothing /\ lifecycles[l] = Nothing
      /\ lifecycles' = [lifecycles EXCEPT ![l] = bound]
      /\ contexts' = OpenContext(o, id, bound.device)
      /\ UNCHANGED <<inspection, registry, placed, smoke, receipt, torn>>
  BY DEF Bind
<1>2. /\ platform \in Platforms /\ DevicesOf(platform) # {} /\ c.seed \in Seeds
      /\ registry[c.backend] \in Objects
  BY ChosenIs DEF Bind, Seeds, ContextsInv
<1>3. bound \in Bindings /\ o \in Objects /\ IdOf(bound) = id /\ id \in ContextIds
      /\ bound.device \in Nat /\ bound # Nothing
  BY <1>2, FirstIsThere, IdsAre, NothingAssumption
     DEF BindingOf, Bindings, ContextsInv, ContextsTypeOK, Uses, IdOf
<1> HIDE DEF platform, bound, o, id
<1>4. /\ contexts'[o][id] = bound.device
      /\ \A p \in Objects, j \in ContextIds : p # o \/ j # id => contexts'[p][j] = contexts[p][j]
  BY <1>1, <1>3, OneContext DEF OpenContext, ContextsInv
<1>5. lifecycles'[l] = bound /\ \A k \in Lifecycles \ {l} : lifecycles'[k] = lifecycles[k]
  BY <1>1 DEF ContextsInv, ContextsTypeOK
<1>6. ContextsOwned'
  <2> SUFFICES ASSUME NEW p \in Objects, NEW j \in ContextIds, contexts'[p][j] # Nothing
               PROVE  \E k \in Lifecycles : Holds(k, p, j)'
    BY DEF ContextsOwned
  <2>1. CASE p = o /\ j = id
    <3>1. lifecycles'[l].object = o
      BY <1>5 DEF o
    <3> QED
      BY <1>3, <1>5, <2>1, <3>1 DEF Holds, IdOf
  <2>2. CASE p # o \/ j # id
    <3>1. PICK k \in Lifecycles : Holds(k, p, j)
      BY <1>1, <1>4, <2>2 DEF HeldInv, ContextsOwned, SmokeHolds
    <3> QED
      BY <1>1, <1>5, <3>1 DEF Holds, IdOf
  <2> QED
    BY <2>1, <2>2
<1>7. KeptOrTorn'
  <2> SUFFICES ASSUME NEW k \in Lifecycles, lifecycles'[k] # Nothing
               PROVE  Kept(k)' = lifecycles'[k].device \/ Lost(k)'
    BY DEF KeptOrTorn
  <2>1. CASE k = l
    <3>1. lifecycles'[l].object = o /\ IdOf(lifecycles'[l]) = id
      BY <1>3, <1>5 DEF o
    <3>2. Kept(l)' = bound.device
      BY <1>4, <3>1 DEF Kept, IdOf
    <3> QED
      BY <1>5, <2>1, <3>2
  <2>2. CASE k # l
    <3>1. lifecycles'[k] = lifecycles[k] /\ lifecycles[k] # Nothing
      BY <1>5, <2>2
    <3>2. /\ lifecycles[k].object \in Objects /\ IdOf(lifecycles[k]) \in ContextIds
      BY <3>1, BindingIs
    <3>3. Kept(k) = lifecycles[k].device \/ Lost(k)
      BY <1>1, <3>1 DEF HeldInv, KeptOrTorn, SmokeHolds
    <3>4. CASE lifecycles[k].object = o /\ IdOf(lifecycles[k]) = id
      <4>1. Kept(k)' = bound.device
        BY <1>4, <3>1, <3>4 DEF Kept, IdOf
      <4>2. lifecycles'[k] # Nothing /\ lifecycles'[l] # Nothing
            /\ IdOf(lifecycles'[k]) = IdOf(lifecycles'[l])
        BY <1>3, <1>5, <3>1, <3>4
      <4>3. lifecycles'[k].device = lifecycles'[l].device
        <5>1. lifecycles'[k].platform = lifecycles'[l].platform
          BY <4>2 DEF IdOf, ContextId
        <5> QED
          BY <4>2, <5>1 DEF ContextsInv, BoundToFirst
      <4> QED
        BY <1>5, <4>1, <4>3
    <3>5. CASE lifecycles[k].object # o \/ IdOf(lifecycles[k]) # id
      <4>1. Kept(k)' = Kept(k) /\ torn' = torn
        BY <1>1, <1>4, <3>1, <3>2, <3>5 DEF Kept, IdOf
      <4> QED
        BY <3>1, <3>3, <4>1 DEF Lost
    <3> QED
      BY <3>4, <3>5
  <2> QED
    BY <2>1, <2>2
<1>8. BoundFirst' /\ LifecyclesKeepTheirDevice'
  BY <1>1, <1>3, <1>5 DEF HeldInv, BoundFirst, LifecyclesKeepTheirDevice
<1> QED
  BY <1>6, <1>7, <1>8 DEF HeldInv

\* The only device there is, is that of every lifecycle.
LEMMA PlaceKeepsHeldInv ==
  ASSUME ContextsInv, HeldInv, NEW l \in Lifecycles, PlaceStep(l)
  PROVE  HeldInv'
<1> DEFINE o  == lifecycles[l].object
           id == IdOf(lifecycles[l])
<1>1. /\ smoke = Nothing /\ lifecycles[l] # Nothing
      /\ UNCHANGED <<inspection, registry, lifecycles, smoke, receipt, torn>>
  BY DEF PlaceStep
<1>2. /\ o \in Objects /\ id \in ContextIds
      /\ lifecycles[l].device \in 1 .. Len(inspection.devices)
      /\ Kept(l) \in Nat \cup {Nothing} /\ Nothing \notin Nat
  BY <1>1, BindingIs, NothingAssumption
<1>3. \A k \in Lifecycles : ~SmokeHolds(lifecycles[k].object, IdOf(lifecycles[k]))
  BY <1>1 DEF SmokeHolds
<1>4. Kept(l) = lifecycles[l].device \/ Lost(l)
  BY <1>1, <1>3 DEF HeldInv, KeptOrTorn
<1>5. /\ \A k \in Lifecycles \ {l} : placed'[k] = placed[k]
      /\ \/ placed'[l] = Kept(l) /\ Kept(l) # Nothing
         \/ placed'[l] = 1 /\ Len(inspection.devices) = 1
         \/ placed'[l] = Refused /\ Len(inspection.devices) # 1 /\ Kept(l) = Nothing
  BY DEF PlaceStep, ContextsInv, ContextsTypeOK
<1>6. LifecyclesKeepTheirDevice'
  <2>1. \/ placed'[l] = lifecycles[l].device
        \/ placed'[l] = Refused /\ torn[l] /\ Len(inspection.devices) # 1
    <3>1. CASE placed'[l] = Kept(l) /\ Kept(l) # Nothing
      BY <1>4, <3>1 DEF Lost
    <3>2. CASE placed'[l] = 1 /\ Len(inspection.devices) = 1
      BY <1>2, <3>2
    <3>3. CASE placed'[l] = Refused /\ Len(inspection.devices) # 1 /\ Kept(l) = Nothing
      <4>1. Lost(l)
        BY <1>2, <1>4, <3>3
      <4> QED
        BY <3>3, <4>1 DEF Lost
    <3> QED
      BY <1>5, <3>1, <3>2, <3>3
  <2> QED
    BY <1>1, <1>5, <2>1 DEF HeldInv, LifecyclesKeepTheirDevice
<1>7. BoundFirst'
  BY <1>1, <1>5 DEF HeldInv, BoundFirst
<1>8. CASE UNCHANGED contexts
  <2>1. ContextsOwned'
    BY <1>1, <1>8 DEF HeldInv, ContextsOwned, SmokeHolds, Holds, SmokeId, ContextId, IdOf
  <2>2. KeptOrTorn'
    BY <1>1, <1>8 DEF HeldInv, KeptOrTorn, SmokeHolds, SmokeId, ContextId, IdOf, Kept, Lost
  <2> QED
    BY <1>6, <1>7, <2>1, <2>2 DEF HeldInv
<1>9. CASE Len(inspection.devices) = 1 /\ contexts' = OpenContext(o, id, 1)
  <2> HIDE DEF o, id
  <2>1. /\ contexts'[o][id] = 1
        /\ \A p \in Objects, j \in ContextIds :
             p # o \/ j # id => contexts'[p][j] = contexts[p][j]
    BY <1>2, <1>9, OneContext DEF OpenContext, ContextsInv
  <2>2. ContextsOwned'
    <3> SUFFICES ASSUME NEW p \in Objects, NEW j \in ContextIds, contexts'[p][j] # Nothing
                 PROVE  \E k \in Lifecycles : Holds(k, p, j)
      BY <1>1 DEF ContextsOwned, Holds, IdOf
    <3>1. CASE p = o /\ j = id
      BY <1>1, <3>1 DEF Holds, o, id
    <3>2. CASE p # o \/ j # id
      BY <1>1, <2>1, <3>2 DEF HeldInv, ContextsOwned, SmokeHolds
    <3> QED
      BY <3>1, <3>2
  <2>3. KeptOrTorn'
    <3> SUFFICES ASSUME NEW k \in Lifecycles, lifecycles[k] # Nothing
                 PROVE  Kept(k)' = lifecycles[k].device \/ Lost(k)'
      BY <1>1 DEF KeptOrTorn
    <3>1. /\ lifecycles[k].object \in Objects /\ IdOf(lifecycles[k]) \in ContextIds
          /\ lifecycles[k].device \in 1 .. Len(inspection.devices)
      BY BindingIs
    <3>2. CASE lifecycles[k].object = o /\ IdOf(lifecycles[k]) = id
      <4>1. Kept(k)' = 1
        BY <1>1, <2>1, <3>2 DEF Kept, IdOf
      <4> QED
        BY <1>9, <3>1, <4>1
    <3>3. CASE lifecycles[k].object # o \/ IdOf(lifecycles[k]) # id
      <4>1. Kept(k)' = Kept(k) /\ torn' = torn
        BY <1>1, <2>1, <3>1, <3>3 DEF Kept, IdOf
      <4>2. Kept(k) = lifecycles[k].device \/ Lost(k)
        BY <1>3 DEF HeldInv, KeptOrTorn
      <4> QED
        BY <4>1, <4>2 DEF Lost
    <3> QED
      BY <3>2, <3>3
  <2> QED
    BY <1>6, <1>7, <2>2, <2>3 DEF HeldInv
<1> QED
  BY <1>8, <1>9 DEF PlaceStep

\* Registering, starting a smoke and a phase that fails open and close nothing.
LEMMA OthersKeepHeldInv ==
  ASSUME HeldInv, UNCHANGED <<inspection, contexts, lifecycles, placed, torn>>,
         \A o, id : SmokeHolds(o, id) => SmokeHolds(o, id)'
  PROVE  HeldInv'
<1>1. ContextsOwned'
  BY DEF HeldInv, ContextsOwned, Holds, IdOf, ContextId
<1>2. KeptOrTorn'
  <2> SUFFICES ASSUME NEW k \in Lifecycles, lifecycles[k] # Nothing
               PROVE  \/ Kept(k)' = lifecycles[k].device
                      \/ Lost(k)'
                      \/ SmokeHolds(lifecycles[k].object, IdOf(lifecycles[k]))'
    BY DEF KeptOrTorn
  <2>1. Kept(k)' = Kept(k) /\ torn' = torn
    BY DEF Kept, IdOf, ContextId
  <2>2. \/ Kept(k) = lifecycles[k].device
        \/ Lost(k)
        \/ SmokeHolds(lifecycles[k].object, IdOf(lifecycles[k]))
    BY DEF HeldInv, KeptOrTorn
  <2> QED
    BY <2>1, <2>2 DEF Lost, IdOf, ContextId
<1>3. BoundFirst' /\ LifecyclesKeepTheirDevice'
  BY DEF HeldInv, BoundFirst, LifecyclesKeepTheirDevice
<1> QED
  BY <1>1, <1>2, <1>3 DEF HeldInv

\* A smoke's first phase opens its context, and later ones leave it.
LEMMA PhaseKeepsHeldInv ==
  ASSUME ContextsInv, HeldInv, ContextsInv', PhaseSucceeds \/ PhaseFails
  PROVE  HeldInv'
<1>1. /\ UNCHANGED <<inspection, registry, lifecycles, placed, receipt, torn>>
      /\ smoke # Nothing /\ smoke \in Smokes
      /\ smoke.object \in Objects /\ SmokeId \in ContextIds /\ smoke.passed \in Nat
      /\ smoke.device \in Nat
  BY SmokeIdIs, PhasesAre DEF PhaseSucceeds, PhaseFails, ContextsInv, Smokes
<1>2. /\ smoke' # Nothing
      /\ smoke'.object = smoke.object /\ smoke'.use = smoke.use
      /\ smoke'.platform = smoke.platform /\ smoke'.seed = smoke.seed
      /\ PhaseSucceeds => smoke'.passed = smoke.passed + 1
      /\ PhaseFails => smoke'.passed = smoke.passed
  <2>1. CASE PhaseSucceeds
    <3>1. smoke' = [smoke EXCEPT !.passed = smoke.passed + 1]
      BY <2>1 DEF PhaseSucceeds
    <3>2. smoke' \in Smokes
      <4>1. smoke.passed < Length(smoke.use) /\ Length(smoke.use) \in {5, 6}
        BY <1>1, <2>1, PhasesAre DEF PhaseSucceeds, Over, ContextsInv, SmokeOnTrack, Smokes, Uses
      <4> QED
        BY <1>1, <3>1, <4>1, PhasesAre DEF Smokes
    <3>3. ~PhaseFails
      BY <1>1, <3>1 DEF PhaseFails, Smokes
    <3> QED
      BY <1>1, <3>1, <3>2, <3>3, NothingAssumption DEF Smokes
  <2>2. CASE PhaseFails /\ ~PhaseSucceeds
    <3>1. smoke' = [smoke EXCEPT !.blockers = <<Phases[smoke.passed + 1]>>]
      BY <2>2 DEF PhaseFails
    <3>2. smoke.passed < Length(smoke.use) /\ Length(smoke.use) \in {5, 6}
      BY <1>1, <2>2, PhasesAre DEF PhaseFails, Over, ContextsInv, SmokeOnTrack, Smokes, Uses
    <3>3. <<Phases[smoke.passed + 1]>> \in Seq(Blockers)
      <4>1. Phases[smoke.passed + 1] \in Blockers
        BY <1>1, <3>2, PhasesAre
      <4> QED
        BY <4>1
    <3>4. smoke' \in Smokes
      BY <1>1, <3>1, <3>3 DEF Smokes
    <3> QED
      BY <1>1, <2>2, <3>1, <3>4, NothingAssumption DEF Smokes
  <2> QED
    BY <2>1, <2>2
<1>3. SmokeId' = SmokeId
  BY <1>2 DEF SmokeId, ContextId
<1>4. \A o, id : SmokeHolds(o, id) => SmokeHolds(o, id)'
  BY <1>1, <1>2, <1>3 DEF SmokeHolds
<1>5. CASE UNCHANGED contexts
  BY <1>1, <1>4, <1>5, OthersKeepHeldInv
<1>6. CASE PhaseSucceeds /\ smoke.passed = 0
  <2> DEFINE o  == smoke.object
             id == SmokeId
             k  == smoke.device
  <2>1. o \in Objects /\ id \in ContextIds /\ k \in Nat /\ contexts' = OpenContext(o, id, k)
    BY <1>1, <1>6 DEF PhaseSucceeds
  <2>2. SmokeHolds(o, id)' /\ \A p, j : ~SmokeHolds(p, j)
    BY <1>1, <1>2, <1>3, <1>6 DEF SmokeHolds
  <2> HIDE DEF o, id, k
  <2>3. \A p \in Objects, j \in ContextIds :
          p # o \/ j # id => contexts'[p][j] = contexts[p][j]
    BY <2>1, OneContext DEF OpenContext, ContextsInv
  <2>4. ContextsOwned'
    <3> SUFFICES ASSUME NEW p \in Objects, NEW j \in ContextIds, contexts'[p][j] # Nothing
                 PROVE  SmokeHolds(p, j)' \/ \E l \in Lifecycles : Holds(l, p, j)
      BY <1>1 DEF ContextsOwned, Holds, IdOf
    <3>1. CASE p = o /\ j = id
      <4>1. SmokeHolds(p, j)'
        BY <1>2, <1>3, <2>1, <2>2, <3>1 DEF SmokeHolds, o, id
      <4> QED
        BY <4>1
    <3>2. CASE p # o \/ j # id
      BY <2>2, <2>3, <3>2 DEF HeldInv, ContextsOwned
    <3> QED
      BY <3>1, <3>2
  <2>5. KeptOrTorn'
    <3> SUFFICES ASSUME NEW l \in Lifecycles, lifecycles[l] # Nothing
                 PROVE  \/ Kept(l)' = lifecycles[l].device
                        \/ Lost(l)'
                        \/ lifecycles[l].object = o /\ IdOf(lifecycles[l]) = id
      BY <1>1, <1>2, <1>3, <1>6 DEF KeptOrTorn, SmokeHolds, o, id
    <3>1. lifecycles[l].object \in Objects /\ IdOf(lifecycles[l]) \in ContextIds
      BY BindingIs
    <3>2. Kept(l) = lifecycles[l].device \/ Lost(l)
      BY <2>2 DEF HeldInv, KeptOrTorn
    <3>3. ASSUME lifecycles[l].object # o \/ IdOf(lifecycles[l]) # id
          PROVE  Kept(l)' = Kept(l) /\ torn' = torn
      BY <1>1, <2>3, <3>1, <3>3 DEF Kept, IdOf
    <3> QED
      BY <3>2, <3>3 DEF Lost
  <2>6. BoundFirst' /\ LifecyclesKeepTheirDevice'
    BY <1>1 DEF HeldInv, BoundFirst, LifecyclesKeepTheirDevice
  <2> QED
    BY <2>4, <2>5, <2>6 DEF HeldInv
<1> QED
  BY <1>5, <1>6 DEF PhaseSucceeds, PhaseFails

\* What a smoke opened is gone when it is over.
LEMMA LeaveKeepsHeldInv ==
  ASSUME ContextsInv, HeldInv, smoke # Nothing, NEW r, Leave(r)
  PROVE  HeldInv'
<1> DEFINE o  == smoke.object
           id == SmokeId
<1>1. /\ UNCHANGED <<inspection, registry, lifecycles, placed>> /\ smoke' = Nothing
      /\ contexts' = CleanUp /\ torn' = [l \in Lifecycles |-> torn[l] \/ l \in Namesakes]
  BY DEF Leave
<1>2. o \in Objects /\ id \in ContextIds /\ smoke \in Smokes /\ smoke.passed \in Nat
  BY SmokeIdIs, PhasesAre DEF ContextsInv, Smokes
<1>3. \A p \in Objects, j \in ContextIds :
        /\ SmokeHolds(p, j) => contexts'[p][j] = Nothing
        /\ ~SmokeHolds(p, j) => contexts'[p][j] = contexts[p][j]
  <2>1. CASE smoke.passed >= 1
    <3>1. /\ contexts' = CloseContext(o, id)
          /\ \A p, j : SmokeHolds(p, j) <=> p = o /\ j = id
      BY <1>1, <2>1 DEF CleanUp, SmokeHolds
    <3> HIDE DEF o, id
    <3>2. /\ contexts'[o][id] = Nothing
          /\ \A p \in Objects, j \in ContextIds :
               p # o \/ j # id => contexts'[p][j] = contexts[p][j]
      BY <1>2, <3>1, OneContext DEF CloseContext, ContextsInv
    <3> QED
      BY <3>1, <3>2
  <2>2. CASE ~(smoke.passed >= 1)
    BY <1>1, <2>2 DEF CleanUp, SmokeHolds
  <2> QED
    BY <2>1, <2>2
<1>4. ContextsOwned'
  <2> SUFFICES ASSUME NEW p \in Objects, NEW j \in ContextIds, contexts'[p][j] # Nothing
               PROVE  \E l \in Lifecycles : Holds(l, p, j)
    BY <1>1 DEF ContextsOwned, Holds, IdOf
  <2> QED
    BY <1>3 DEF HeldInv, ContextsOwned
<1>5. ASSUME NEW l \in Lifecycles, lifecycles[l] # Nothing,
             SmokeHolds(lifecycles[l].object, IdOf(lifecycles[l]))
      PROVE  l \in Namesakes
  <2>1. /\ smoke.use = "portability" /\ smoke.platform = lifecycles[l].platform
        /\ smoke.seed = lifecycles[l].seed
    BY <1>5 DEF SmokeHolds, SmokeId, IdOf, ContextId
  <2> QED
    BY <1>5, <2>1 DEF Namesakes, SmokeHolds
<1>6. KeptOrTorn'
  <2> SUFFICES ASSUME NEW l \in Lifecycles, lifecycles[l] # Nothing
               PROVE  Kept(l)' = lifecycles[l].device \/ Lost(l)'
    BY <1>1 DEF KeptOrTorn
  <2>1. lifecycles[l].object \in Objects /\ IdOf(lifecycles[l]) \in ContextIds
    BY BindingIs
  <2>2. CASE SmokeHolds(lifecycles[l].object, IdOf(lifecycles[l]))
    <3>1. Kept(l)' = Nothing
      BY <1>1, <1>3, <2>1, <2>2 DEF Kept, IdOf
    <3>2. torn'[l]
      BY <1>1, <1>5, <2>2
    <3> QED
      BY <3>1, <3>2 DEF Lost
  <2>3. CASE ~SmokeHolds(lifecycles[l].object, IdOf(lifecycles[l]))
    <3>1. Kept(l)' = Kept(l)
      BY <1>1, <1>3, <2>1, <2>3 DEF Kept, IdOf
    <3>2. torn[l] => torn'[l]
      BY <1>1
    <3>3. Kept(l) = lifecycles[l].device \/ Lost(l)
      BY <2>3 DEF HeldInv, KeptOrTorn
    <3> QED
      BY <3>1, <3>2, <3>3 DEF Lost
  <2> QED
    BY <2>2, <2>3
<1>7. BoundFirst'
  BY <1>1 DEF HeldInv, BoundFirst
<1>8. LifecyclesKeepTheirDevice'
  <2>1. \A l \in Lifecycles : torn[l] => torn'[l]
    BY <1>1
  <2> QED
    BY <1>1, <2>1 DEF HeldInv, LifecyclesKeepTheirDevice
<1> QED
  BY <1>4, <1>6, <1>7, <1>8 DEF HeldInv

LEMMA StepHeldInv ==
  ContextsInv /\ HeldInv /\ ContextsInv' /\ [ContextsNext]_contextsVars => HeldInv'
<1> SUFFICES ASSUME ContextsInv, HeldInv, ContextsInv', [ContextsNext]_contextsVars
             PROVE  HeldInv'
  OBVIOUS
<1>1. CASE (\E o \in Objects, replace \in BOOLEAN : Register(o, replace))
           \/ \E b \in BackendIds : Unregister(b)
  <2>1. UNCHANGED <<inspection, contexts, lifecycles, placed, smoke, torn>>
    BY <1>1 DEF Register, Unregister
  <2>2. \A o, id : SmokeHolds(o, id) => SmokeHolds(o, id)'
    BY <2>1 DEF SmokeHolds, SmokeId, ContextId
  <2> QED
    BY <2>1, <2>2, OthersKeepHeldInv
<1>2. ASSUME NEW c \in Requests, PortabilitySmoke(c) \/ CpuSmoke(c) PROVE HeldInv'
  <2>1. UNCHANGED <<inspection, contexts, lifecycles, placed, torn>> /\ smoke = Nothing
    BY <1>2 DEF PortabilitySmoke, CpuSmoke, BeginSmoke, Answer
  <2>2. \A o, id : ~SmokeHolds(o, id)
    BY <2>1 DEF SmokeHolds
  <2> QED
    BY <2>1, <2>2, OthersKeepHeldInv
<1>3. CASE (\E raises \in BOOLEAN : Teardown(raises)) \/ Interrupted
  BY <1>3, LeaveKeepsHeldInv DEF Teardown, Interrupted
<1>4. CASE UNCHANGED contextsVars
  <2>1. UNCHANGED <<inspection, contexts, lifecycles, placed, smoke, torn>>
    BY <1>4 DEF contextsVars
  <2>2. \A o, id : SmokeHolds(o, id) => SmokeHolds(o, id)'
    BY <2>1 DEF SmokeHolds, SmokeId, ContextId
  <2> QED
    BY <2>1, <2>2, OthersKeepHeldInv
<1> QED
  BY <1>1, <1>2, <1>3, <1>4, BindKeepsHeldInv, PlaceKeepsHeldInv, PhaseKeepsHeldInv
     DEF ContextsNext

LEMMA HeldInvariance == ContextsSpec => []HeldInv
<1>1. ContextsInit => HeldInv
  BY InitHeldInv
<1> QED
  BY <1>1, StepHeldInv, ContextsInvariance, PTL DEF ContextsSpec

\* A lifecycle's steps are placed on its own device, unless a portability smoke
\* took it and there are several to choose from.
THEOREM LifecyclesStayPut == ContextsSpec => []LifecyclesKeepTheirDevice
<1>1. HeldInv => LifecyclesKeepTheirDevice
  BY DEF HeldInv
<1> QED
  BY <1>1, HeldInvariance, PTL

\* Between smokes every context is that of a bound lifecycle.
THEOREM SmokesLeaveNothing == ContextsSpec => []SmokesCleanUp
<1>1. HeldInv => SmokesCleanUp
  BY DEF HeldInv, ContextsOwned, SmokeHolds, Holds, SmokesCleanUp
<1> QED
  BY <1>1, HeldInvariance, PTL
=============================================================================
