-------------------------- MODULE CheckpointV2Proofs --------------------------
(***************************************************************************)
(* The invariants of CheckpointV2 hold for every number of saves and       *)
(* whatever the saves put into their components.  The argument: an         *)
(* undisturbed load sees one directory from its first read to its last, so *)
(* what it digested is what it read again; and the manifest a save writes  *)
(* last names that save only, so the digests admit no other.               *)
(***************************************************************************)
EXTENDS CheckpointV2, TLAPS

\* The files of the save under way that it has written so far.
Finished(f) == \E i \in 1 .. 5 : i < saver.next /\ WriteOrder[i] = f

\* What the directory holds, related to the saves.
DirectoryInv ==
    /\ acked <= written["manifest"]
    /\ \A f \in Files : written[f] <= saves
    /\ saver.phase # "idle" =>
          /\ acked < saves
          /\ saves > 0
          /\ \A f \in Files : Finished(f) => written[f] = saves /\ f \notin torn
    /\ saver.phase = "idle" /\ acked = saves =>
          torn = {} /\ \A f \in Files : written[f] = acked

\* What an undisturbed load has, related to what the directory still holds.
QuietLoadInv ==
    loader.phase # "idle" /\ loader.quiet =>
        /\ loader.since <= written["manifest"]
        /\ loader.settled =>
              /\ loader.since > 0
              /\ torn = {}
              /\ \A f \in Files : written[f] = loader.since
        /\ loader.phase \in {"verify", "read", "loaded"} =>
              loader.manifest = written["manifest"] /\ loader.manifest > 0
        /\ loader.phase = "verify" =>
              \A i \in 1 .. 4 : i < loader.next =>
                  Verified(ReadOrder[i], loader.manifest)
        /\ loader.phase \in {"read", "loaded"} =>
              \A c \in Components : Verified(c, loader.manifest)
        /\ loader.phase = "read" =>
              \A i \in 1 .. 4 : i < loader.next =>
                  loader.got[ReadOrder[i]] = written[ReadOrder[i]]
        /\ loader.phase = "loaded" =>
              \A c \in Components : loader.got[c] = written[c]

\* The load counts its components from one to four while it verifies and reads.
LoaderCounts ==
    /\ loader.phase = "manifest" => loader.next = 1
    /\ loader.phase \in {"verify", "read"} => loader.next \in 1 .. 4

IInv ==
    /\ TypeOK
    /\ DirectoryInv
    /\ LoaderCounts
    /\ QuietLoadInv
    /\ RestoredIsOneRecentSave
    /\ AcknowledgedIsLoadable
-----------------------------------------------------------------------------
USE DEF LoaderRecords

\* The two orders, entry by entry: what is written and what is read.
LEMMA Orders ==
    /\ Len(WriteOrder) = 5 /\ Len(ReadOrder) = 4
    /\ \A i \in 1 .. 5 : WriteOrder[i] \in Files
    /\ \A i \in 1 .. 4 : ReadOrder[i] \in Components /\ ReadOrder[i] = WriteOrder[i]
    /\ \A c \in Components : \E i \in 1 .. 4 : ReadOrder[i] = c
    /\ \A f \in Files : \E i \in 1 .. 5 : WriteOrder[i] = f
    /\ WriteOrder[5] = "manifest"
    /\ \A i, j \in 1 .. 5 : WriteOrder[i] = WriteOrder[j] => i = j
BY DEF WriteOrder, ReadOrder, Files, Components

\* Before anything was saved or loaded the invariant holds.
THEOREM InitIInv == Init => IInv
<1> SUFFICES ASSUME Init PROVE IInv
  OBVIOUS
<1> USE SavesAssumption DEF Init, IdleSaver, IdleLoader, Nothing
<1>1. TypeOK
  BY DEF TypeOK, Files, Components, References
<1>2. DirectoryInv
  BY DEF DirectoryInv, Files
<1> QED
  BY <1>1, <1>2 DEF IInv, LoaderCounts, QuietLoadInv, RestoredIsOneRecentSave,
     AcknowledgedIsLoadable

\* Opening or filling a file leaves no undisturbed load behind.
LEMMA DisturbEnds ==
    ASSUME IInv, Disturb
    PROVE  /\ loader' \in LoaderRecords
           /\ LoaderCounts' /\ QuietLoadInv'
<1>1. CASE loader.phase = "idle"
  BY <1>1 DEF IInv, TypeOK, Disturb, LoaderCounts, QuietLoadInv
<1>2. CASE loader.phase # "idle"
  <2>1. loader' = [loader EXCEPT !.quiet = FALSE]
    BY <1>2 DEF Disturb
  <2> QED
    BY <2>1 DEF IInv, TypeOK, LoaderCounts, QuietLoadInv
<1> QED
  BY <1>1, <1>2

\* The steps of a save keep the invariant.
LEMMA SaveKeepsIInv ==
    ASSUME IInv, BeginSave \/ OpenFile \/ FillFile \/ SaveFails
    PROVE  IInv'
<1> USE SavesAssumption
<1>r. ASSUME UNCHANGED result PROVE RestoredIsOneRecentSave' /\ AcknowledgedIsLoadable'
  BY <1>r DEF IInv, RestoredIsOneRecentSave, AcknowledgedIsLoadable, SameAs
<1>q. ASSUME UNCHANGED <<dirVars, loader>> PROVE LoaderCounts' /\ QuietLoadInv'
  BY <1>q DEF IInv, dirVars, LoaderCounts, QuietLoadInv, Verified, Unreadable
<1>1. CASE BeginSave
  <2> USE <1>1 DEF BeginSave, dirVars
  <2>1. TypeOK'
    BY DEF IInv, TypeOK
  <2>2. DirectoryInv'
    <3>1. \A f \in Files : written[f] \in Nat /\ written[f] <= saves
      BY DEF IInv, TypeOK, DirectoryInv
    <3>2. acked \in Nat /\ saves \in Nat /\ acked <= saves
      BY <3>1 DEF IInv, TypeOK, DirectoryInv, Files
    <3>3. \A f \in Files : ~Finished(f)'
      BY DEF Finished
    <3> QED
      BY <3>1, <3>2, <3>3 DEF IInv, DirectoryInv
  <2> QED
    BY <2>1, <2>2, <1>r, <1>q DEF IInv
<1>2. CASE OpenFile
  <2> USE <1>2 DEF OpenFile
  <2>1. TypeOK' /\ LoaderCounts' /\ QuietLoadInv'
    <3>1. WriteOrder[saver.next] \in Files
      BY Orders DEF IInv, TypeOK
    <3> QED
      BY <3>1, DisturbEnds DEF IInv, TypeOK
  <2>2. DirectoryInv'
    <3>1. \A f \in Files : Finished(f)' => Finished(f) /\ f # WriteOrder[saver.next]
      <4>1. saver'.next = saver.next /\ saver.next \in 1 .. 5
        BY DEF IInv, TypeOK
      <4> QED
        BY <4>1, Orders DEF Finished
    <3>2. saver'.phase = "fill"
      BY DEF IInv, TypeOK
    <3> QED
      BY <3>1, <3>2 DEF IInv, DirectoryInv
  <2> QED
    BY <2>1, <2>2, <1>r DEF IInv
<1>3. CASE FillFile
  <2> DEFINE f0 == WriteOrder[saver.next]
  <2>0. /\ saver.phase = "fill" /\ torn' = torn \ {f0}
        /\ written' = [written EXCEPT ![f0] = saves]
        /\ Disturb /\ UNCHANGED <<saves, result>>
    BY <1>3 DEF FillFile
  <2>1. f0 \in Files /\ saver.next \in 1 .. 5 /\ saves \in Nat
    BY Orders DEF IInv, TypeOK
  <2>2. \A f \in Files : written'[f] = IF f = f0 THEN saves ELSE written[f]
    BY <2>0, <2>1 DEF IInv, TypeOK
  <2>3. CASE saver.next = 5
    <3>1. saver' = IdleSaver /\ acked' = saves
      BY <1>3, <2>3, Orders DEF FillFile
    <3>2. TypeOK'
      BY <2>0, <2>1, <3>1, DisturbEnds DEF IInv, TypeOK, IdleSaver
    <3>3. \A f \in Files : f = f0 \/ Finished(f)
      BY <2>3, Orders DEF Finished
    <3>4. \A f \in Files : written'[f] = saves /\ f \notin torn'
      BY <2>0, <2>1, <2>2, <3>3 DEF IInv, DirectoryInv
    <3>5. torn' = {}
      BY <3>4, <3>2 DEF TypeOK
    <3>6. "manifest" \in Files /\ saver'.phase = "idle"
      BY <3>1 DEF Files, IdleSaver
    <3>7. DirectoryInv'
      BY <2>0, <2>1, <3>1, <3>4, <3>5, <3>6 DEF DirectoryInv
    <3> QED
      BY <2>0, <3>2, <3>7, <1>r, DisturbEnds DEF IInv
  <2>4. CASE saver.next # 5
    <3>1. saver' = [phase |-> "open", next |-> saver.next + 1] /\ acked' = acked
      BY <1>3, <2>4, Orders DEF FillFile
    <3>2. TypeOK'
      BY <2>0, <2>1, <2>4, <3>1, DisturbEnds DEF IInv, TypeOK
    <3>3. \A f \in Files : Finished(f)' => f = f0 \/ Finished(f)
      BY <2>1, <3>1 DEF Finished
    <3>4. written'["manifest"] >= written["manifest"]
      BY <2>1, <2>2 DEF IInv, TypeOK, DirectoryInv, Files
    <3>5. acked <= written'["manifest"]
      BY <2>0, <3>4, <3>2 DEF IInv, TypeOK, DirectoryInv, Files
    <3>6. DirectoryInv'
      BY <2>0, <2>1, <2>2, <3>1, <3>3, <3>5 DEF IInv, DirectoryInv
    <3> QED
      BY <2>0, <3>2, <3>6, <1>r, DisturbEnds DEF IInv
  <2> QED
    BY <2>3, <2>4
<1>4. CASE SaveFails
  <2> USE <1>4 DEF SaveFails, IdleSaver, dirVars
  <2>1. TypeOK'
    BY DEF IInv, TypeOK
  <2>2. DirectoryInv'
    BY DEF IInv, TypeOK, DirectoryInv
  <2> QED
    BY <2>1, <2>2, <1>r, <1>q DEF IInv
<1> QED
  BY <1>1, <1>2, <1>3, <1>4

\* What a refused load says of the directory: an undisturbed, settled one is
\* never refused while it reads the manifest or the components.
LEMMA SettledIsReadable ==
    ASSUME IInv, loader.phase # "idle", loader.quiet, loader.settled, NEW f \in Files
    PROVE  ~Unreadable(f) /\ written[f] = loader.since /\ loader.since > 0
BY DEF IInv, TypeOK, QuietLoadInv, Unreadable

\* Refusing a load that was disturbed, or began elsewhere than in a settled
\* directory, keeps the invariant.
LEMMA RefuseKeepsIInv ==
    ASSUME IInv, loader.phase # "idle", Refuse, UNCHANGED <<dirVars, saveVars>>,
           loader.settled /\ loader.quiet =>
               loader.expected \notin {NoReference, ReferenceOf[loader.since]}
    PROVE  IInv'
<1> USE SavesAssumption DEF Refuse, End, IdleLoader, Nothing, dirVars, saveVars
<1>1. TypeOK'
  BY DEF IInv, TypeOK, References
<1>2. DirectoryInv'
  BY DEF IInv, DirectoryInv, Finished
<1>3. LoaderCounts' /\ QuietLoadInv' /\ RestoredIsOneRecentSave'
  BY DEF LoaderCounts, QuietLoadInv, RestoredIsOneRecentSave
<1>4. AcknowledgedIsLoadable'
  BY DEF AcknowledgedIsLoadable
<1> QED
  BY <1>1, <1>2, <1>3, <1>4 DEF IInv

\* The steps of a load keep the invariant.
LEMMA LoadKeepsIInv ==
    ASSUME IInv,
           \/ \E expected \in References : BeginLoad(expected)
           \/ ReadManifest \/ VerifyComponent \/ ReadComponent \/ Publish
    PROVE  IInv'
<1> USE SavesAssumption
<1>0. UNCHANGED <<dirVars, saveVars>>
  BY DEF BeginLoad, ReadManifest, VerifyComponent, ReadComponent, Publish
<1>d. DirectoryInv'
  BY <1>0 DEF IInv, DirectoryInv, Finished, dirVars, saveVars
<1>r. ASSUME UNCHANGED result PROVE RestoredIsOneRecentSave' /\ AcknowledgedIsLoadable'
  BY <1>r DEF IInv, RestoredIsOneRecentSave, AcknowledgedIsLoadable, SameAs
<1>m. Components \subseteq Files /\ "manifest" \in Files
  BY DEF Files
<1>1. ASSUME NEW expected \in References, BeginLoad(expected) PROVE IInv'
  <2> USE <1>1, <1>0 DEF BeginLoad, dirVars, saveVars
  <2>1. TypeOK'
    <3>1. (saver.phase = "idle" /\ acked = saves /\ acked > 0) \in BOOLEAN
      OBVIOUS
    <3>2. loader'.settled = (saver.phase = "idle" /\ acked = saves /\ acked > 0)
      OBVIOUS
    <3> QED
      BY <3>1, <3>2 DEF IInv, TypeOK, Nothing
  <2>2. LoaderCounts' /\ QuietLoadInv'
    BY <1>d DEF IInv, TypeOK, DirectoryInv, LoaderCounts, QuietLoadInv
  <2> QED
    BY <2>1, <2>2, <1>d, <1>r DEF IInv
<1>2. CASE ReadManifest
  <2>1. CASE Unreadable("manifest")
    BY <1>0, <1>2, <1>m, <2>1, SettledIsReadable, RefuseKeepsIInv DEF ReadManifest
  <2>2. CASE ~Unreadable("manifest")
    <3>1. /\ loader.phase = "manifest" /\ UNCHANGED result
          /\ loader' = [loader EXCEPT !.phase = "verify",
                                      !.manifest = written["manifest"]]
      BY <1>2, <2>2 DEF ReadManifest
    <3>2. TypeOK'
      BY <1>0, <1>m, <3>1 DEF IInv, TypeOK, dirVars, saveVars
    <3>3. written["manifest"] > 0
      BY <2>2, <1>m DEF IInv, TypeOK, Unreadable
    <3>4. loader.next = 1
      BY <3>1 DEF IInv, LoaderCounts
    <3>5. LoaderCounts' /\ QuietLoadInv'
      BY <1>0, <3>1, <3>3, <3>4 DEF IInv, TypeOK, LoaderCounts, QuietLoadInv, dirVars
    <3> QED
      BY <3>1, <3>2, <3>5, <1>d, <1>r DEF IInv
  <2> QED
    BY <2>1, <2>2
<1>3. CASE VerifyComponent
  <2> DEFINE c0 == ReadOrder[loader.next]
  <2>0. loader.phase = "verify" /\ loader.next \in 1 .. 4 /\ c0 \in Components
    BY <1>3, Orders DEF VerifyComponent, IInv, LoaderCounts
  <2>1. CASE ~Verified(c0, loader.manifest)
    <3>1. loader.settled /\ loader.quiet => Verified(c0, loader.manifest)
      <4> SUFFICES ASSUME loader.settled, loader.quiet PROVE Verified(c0, loader.manifest)
        OBVIOUS
      <4>1. loader.manifest = loader.since
        BY <1>m, <2>0, SettledIsReadable DEF IInv, QuietLoadInv
      <4>2. ~Unreadable(c0) /\ written[c0] = loader.since
        BY <1>m, <2>0, SettledIsReadable
      <4> QED
        BY <4>1, <4>2 DEF Verified
    <3>2. Refuse
      BY <1>3, <2>1 DEF VerifyComponent
    <3> QED
      BY <1>0, <2>0, <2>1, <3>1, <3>2, RefuseKeepsIInv
  <2>2. CASE Verified(c0, loader.manifest)
    <3> DEFINE done == \A i \in 1 .. 4 : i < loader.next + 1 => Verified(ReadOrder[i], loader.manifest)
    <3>1. loader.quiet => done
      BY <2>0, <2>2 DEF IInv, QuietLoadInv
    <3>2. \A c, s : Verified(c, s)' <=> Verified(c, s)
      BY <1>0 DEF Verified, Unreadable, dirVars
    <3>3. UNCHANGED result
      BY <1>3, <2>2 DEF VerifyComponent
    <3>4. CASE loader.next = 4
      <4>1. loader' = [loader EXCEPT !.phase = "read", !.next = 1]
        BY <1>3, <2>2, <3>4, Orders DEF VerifyComponent
      <4>2. TypeOK'
        <5>0. 1 \in 1 .. 5 /\ "read" \in {"idle", "manifest", "verify", "read", "loaded"}
          OBVIOUS
        <5>1. loader' \in LoaderRecords
          <6> HIDE DEF done
          <6> QED
            BY <4>1, <5>0, Zenon DEF IInv, TypeOK
        <5> QED
          BY <1>0, <3>3, <5>1 DEF IInv, TypeOK, dirVars, saveVars
      <4>3. loader.quiet => \A c \in Components : Verified(c, loader.manifest)
        BY <3>1, <3>4, Orders
      <4>4. LoaderCounts' /\ QuietLoadInv'
        BY <1>0, <2>0, <3>2, <4>1, <4>3 DEF IInv, TypeOK, LoaderCounts, QuietLoadInv, dirVars
      <4> QED
        BY <4>2, <4>4, <3>3, <1>d, <1>r DEF IInv
    <3>5. CASE loader.next # 4
      <4>1. loader' = [loader EXCEPT !.next = loader.next + 1]
        BY <1>3, <2>2, <3>5, Orders DEF VerifyComponent
      <4>2. TypeOK'
        <5>1. loader.next + 1 \in 1 .. 5
          BY <2>0
        <5>2. loader' \in LoaderRecords
          BY <4>1, <5>1 DEF IInv, TypeOK
        <5> QED
          BY <1>0, <3>3, <5>2 DEF IInv, TypeOK, dirVars, saveVars
      <4>3. LoaderCounts'
        BY <2>0, <3>5, <4>1 DEF IInv, TypeOK, LoaderCounts
      <4>4. (loader.quiet => \A i \in 1 .. 4 : i < loader.next =>
                                  Verified(ReadOrder[i], loader.manifest))'
        <5>1. loader'.quiet = loader.quiet /\ loader'.next = loader.next + 1
              /\ loader'.manifest = loader.manifest
          BY <4>1 DEF IInv, TypeOK
        <5>2. UNCHANGED <<written, torn>>
          BY <1>0 DEF dirVars
        <5> SUFFICES ASSUME loader.quiet, NEW i \in 1 .. 4, i < loader.next + 1
                     PROVE  Verified(ReadOrder[i], loader.manifest)'
          BY <5>1
        <5>3. Verified(ReadOrder[i], loader.manifest)
          BY <3>1
        <5> QED
          BY <5>1, <5>2, <5>3 DEF Verified, Unreadable, ReadOrder
      <4>5. QuietLoadInv'
        <5>1. /\ loader'.quiet = loader.quiet /\ loader'.phase = "verify"
              /\ loader'.since = loader.since /\ loader'.settled = loader.settled
              /\ loader'.manifest = loader.manifest
          BY <2>0, <4>1 DEF IInv, TypeOK
        <5>2. UNCHANGED <<written, torn>>
          BY <1>0 DEF dirVars
        <5> QED
          BY <2>0, <4>4, <5>1, <5>2 DEF IInv, QuietLoadInv
      <4> QED
        BY <4>2, <4>3, <4>5, <3>3, <1>d, <1>r DEF IInv
    <3> QED
      BY <3>4, <3>5
  <2> QED
    BY <2>1, <2>2
<1>4. CASE ReadComponent
  <2> DEFINE c0 == ReadOrder[loader.next]
  <2>0. loader.phase = "read" /\ loader.next \in 1 .. 4 /\ c0 \in Components
    BY <1>4, Orders DEF ReadComponent, IInv, LoaderCounts
  <2>1. CASE Unreadable(c0)
    BY <1>0, <1>4, <1>m, <2>0, <2>1, SettledIsReadable, RefuseKeepsIInv DEF ReadComponent
  <2>2. CASE ~Unreadable(c0)
    <3>1. /\ UNCHANGED result
          /\ loader' = [loader EXCEPT !.got[c0] = written[c0],
                                      !.phase = IF loader.next = 4 THEN "loaded" ELSE "read",
                                      !.next = loader.next + 1]
      BY <1>4, <2>2, Orders DEF ReadComponent
    <3>2. written[c0] \in 0 .. MaxSaves
      BY <1>m, <2>0 DEF IInv, TypeOK
    <3>3. TypeOK'
      <4>1. loader.next + 1 \in 1 .. 5
        BY <2>0
      <4>2. [loader.got EXCEPT ![c0] = written[c0]] \in [Components -> 0 .. MaxSaves]
        BY <3>2 DEF IInv, TypeOK
      <4>3. (IF loader.next = 4 THEN "loaded" ELSE "read") \in {"read", "loaded"}
        OBVIOUS
      <4> HIDE DEF c0
      <4> QED
        BY <1>0, <3>1, <4>1, <4>2, <4>3 DEF IInv, TypeOK, dirVars, saveVars
    <3>4. LoaderCounts'
      BY <2>0, <3>1 DEF IInv, TypeOK, LoaderCounts
    <3>5. loader'.got = [loader.got EXCEPT ![c0] = written[c0]] /\ loader'.next = loader.next + 1
      BY <3>1 DEF IInv, TypeOK
    <3>6. loader.quiet => \A i \in 1 .. 4 : i < loader.next + 1 =>
                             loader'.got[ReadOrder[i]] = written[ReadOrder[i]]
      <4> SUFFICES ASSUME loader.quiet, NEW i \in 1 .. 4, i < loader.next + 1
                   PROVE  loader'.got[ReadOrder[i]] = written[ReadOrder[i]]
        OBVIOUS
      <4>1. loader.got \in [Components -> 0 .. MaxSaves] /\ ReadOrder[i] \in Components
        BY Orders DEF IInv, TypeOK
      <4>2. CASE i = loader.next
        BY <2>0, <3>5, <4>1, <4>2
      <4>3. CASE i < loader.next
        <5>1. loader.got[ReadOrder[i]] = written[ReadOrder[i]]
          BY <2>0, <4>3 DEF IInv, QuietLoadInv
        <5> QED
          BY <2>0, <3>5, <4>1, <4>2, <5>1
      <4> QED
        BY <2>0, <4>2, <4>3
    <3>7. loader.next = 4 => (loader.quiet => \A c \in Components : loader'.got[c] = written[c])
      BY <3>6, Orders
    <3>8. \A c, s : Verified(c, s)' <=> Verified(c, s)
      BY <1>0 DEF Verified, Unreadable, dirVars
    <3>9. QuietLoadInv'
      <4>1. /\ loader'.phase = (IF loader.next = 4 THEN "loaded" ELSE "read")
            /\ loader'.quiet = loader.quiet /\ loader'.since = loader.since
            /\ loader'.settled = loader.settled /\ loader'.manifest = loader.manifest
        BY <3>1 DEF IInv, TypeOK
      <4>2. UNCHANGED <<written, torn>>
        BY <1>0 DEF dirVars
      <4> QED
        BY <2>0, <3>5, <3>6, <3>7, <3>8, <4>1, <4>2 DEF IInv, QuietLoadInv
    <3> QED
      BY <3>1, <3>3, <3>4, <3>9, <1>d, <1>r DEF IInv
  <2> QED
    BY <2>1, <2>2
<1>5. CASE Publish
  <2>0. loader.phase = "loaded"
    BY <1>5 DEF Publish
  <2>1. CASE ~Admitted(loader.got, loader.expected)
    <3>1. loader.settled /\ loader.quiet =>
              loader.expected \notin {NoReference, ReferenceOf[loader.since]}
      <4> SUFFICES ASSUME loader.settled, loader.quiet,
                          loader.expected \in {NoReference, ReferenceOf[loader.since]}
                   PROVE  Admitted(loader.got, loader.expected)
        BY <2>1
      <4>1. \A c \in Components : loader.got[c] = loader.since
        BY <1>m, <2>0, SettledIsReadable DEF IInv, QuietLoadInv
      <4> QED
        BY <4>1 DEF Admitted, Components
    <3>2. Refuse
      BY <1>5, <2>1 DEF Publish
    <3> QED
      BY <1>0, <2>0, <3>1, <3>2, RefuseKeepsIInv
  <2>2. CASE Admitted(loader.got, loader.expected)
    <3>1. End("published", loader.got)
      BY <1>5, <2>2 DEF Publish
    <3>2. TypeOK' /\ LoaderCounts' /\ QuietLoadInv' /\ AcknowledgedIsLoadable'
      BY <1>0, <3>1 DEF IInv, TypeOK, End, IdleLoader, Nothing, dirVars, saveVars, References,
         LoaderCounts, QuietLoadInv, AcknowledgedIsLoadable
    <3>3. RestoredIsOneRecentSave'
      <4> SUFFICES ASSUME loader.quiet
                   PROVE  \E s \in Saves : s >= loader.since /\ SameAs(loader.got, s)
        BY <3>1 DEF End, RestoredIsOneRecentSave, SameAs
      <4>1. loader.manifest \in Saves /\ loader.manifest >= loader.since
        BY <2>0, <1>m DEF IInv, TypeOK, QuietLoadInv, Saves
      <4>2. SameAs(loader.got, loader.manifest)
        BY <2>0 DEF IInv, QuietLoadInv, SameAs, Verified
      <4> QED
        BY <4>1, <4>2
    <3> QED
      BY <3>2, <3>3, <1>d DEF IInv
  <2> QED
    BY <2>1, <2>2
<1> QED
  BY <1>1, <1>2, <1>3, <1>4, <1>5

\* Every step keeps the invariant.
THEOREM NextIInv == IInv /\ [Next]_vars => IInv'
<1> SUFFICES ASSUME IInv, [Next]_vars PROVE IInv'
  OBVIOUS
<1>1. CASE Next
  BY <1>1, SaveKeepsIInv, LoadKeepsIInv DEF Next
<1>2. CASE UNCHANGED vars
  BY <1>2 DEF vars, IInv, TypeOK, DirectoryInv, Finished, LoaderCounts, QuietLoadInv,
     RestoredIsOneRecentSave, AcknowledgedIsLoadable, Verified, Unreadable, SameAs
<1> QED
  BY <1>1, <1>2

\* The types of the variables, over every behaviour.
THEOREM TypesHold == Spec => []TypeOK
<1>1. IInv => TypeOK
  BY DEF IInv
<1> QED
  BY <1>1, InitIInv, NextIInv, PTL DEF Spec

\* Whatever saves failed over the directory, an undisturbed restore publishes
\* one whole save, and none older than the last acknowledged.
THEOREM RestoresAreWhole == Spec => []RestoredIsOneRecentSave
<1>1. IInv => RestoredIsOneRecentSave
  BY DEF IInv
<1> QED
  BY <1>1, InitIInv, NextIInv, PTL DEF Spec

\* An acknowledged checkpoint is loadable until something writes over it.
THEOREM AcknowledgedLoads == Spec => []AcknowledgedIsLoadable
<1>1. IInv => AcknowledgedIsLoadable
  BY DEF IInv
<1> QED
  BY <1>1, InitIInv, NextIInv, PTL DEF Spec
=============================================================================
