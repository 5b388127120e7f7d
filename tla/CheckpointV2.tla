---------------------------- MODULE CheckpointV2 ----------------------------
(***************************************************************************)
(* Checkpoints of schema "learning_checkpoint.v2": one directory with four *)
(* component files and a manifest (checkpoints/learning.py).               *)
(*                                                                         *)
(* A save writes the files in place, one after the other, the manifest     *)
(* last; it may fail or die between any two of its steps, and a later save *)
(* writes over whatever it left.  A load reads the manifest, digests every *)
(* component, and then reads every component once more; the restore of     *)
(* learning/synthetic_smoke.py publishes what it got.  One process saves   *)
(* at a time, and a load may run beside it.                                *)
(*                                                                         *)
(* A save is named by its number.  What it puts into a component is        *)
(* Payload[c][s]; two saves may put the same bytes into a component, and a *)
(* digest cannot tell them apart then.                                     *)
(***************************************************************************)
EXTENDS Naturals, Sequences

CONSTANTS
    MaxSaves,      \* bound on the saves begun
    Payload,       \* component -> save -> its bytes
    StepOf,        \* save -> the optimizer step of its learning state
    ReferenceOf,   \* save -> the runtime reference of its learning state
    NoReference    \* a load that names no expected runtime reference

Components == {"architecture", "learning", "optimizer", "source"}

Saves == 1 .. MaxSaves

\* A LearningCheckpoint cannot be built unless its learning state and its
\* optimizer state have the same step, so both files of a save name it, and
\* the learning file names the runtime reference too.
ASSUME SavesAssumption ==
    /\ MaxSaves \in Nat \ {0}
    /\ DOMAIN Payload = Components
    /\ \A c \in Components : DOMAIN Payload[c] = Saves
    /\ StepOf \in [Saves -> Nat]
    /\ \A s, t \in Saves :
          /\ Payload["learning"][s] = Payload["learning"][t] =>
                StepOf[s] = StepOf[t] /\ ReferenceOf[s] = ReferenceOf[t]
          /\ Payload["optimizer"][s] = Payload["optimizer"][t] =>
                StepOf[s] = StepOf[t]
    /\ \A s \in Saves : ReferenceOf[s] # NoReference

Files == Components \cup {"manifest"}

WriteOrder == <<"architecture", "learning", "optimizer", "source", "manifest">>
ReadOrder  == <<"architecture", "learning", "optimizer", "source">>

References == {ReferenceOf[s] : s \in Saves} \cup {NoReference}

VARIABLES
    written,  \* file -> the save that last wrote it whole, 0 if none did
    torn,     \* the files opened for writing and not filled
    saves,    \* how many saves were begun
    acked,    \* the last save that returned to its caller, 0 if none did
    saver,    \* where the save is
    loader,   \* where the load is and what it has
    result    \* how the last load ended: what its restore published

vars == <<written, torn, saves, acked, saver, loader, result>>
dirVars == <<written, torn>>
saveVars == <<saves, acked, saver>>

Nothing == [c \in Components |-> 0]

IdleSaver == [phase |-> "idle", next |-> 1]

IdleLoader ==
    [phase |-> "idle", next |-> 1, manifest |-> 0, got |-> Nothing,
     expected |-> NoReference, quiet |-> TRUE, since |-> 0, settled |-> FALSE]

LoaderRecords ==
    [phase : {"idle", "manifest", "verify", "read", "loaded"}, next : 1 .. 5,
     manifest : 0 .. MaxSaves, got : [Components -> 0 .. MaxSaves],
     expected : References, quiet : BOOLEAN, since : 0 .. MaxSaves,
     settled : BOOLEAN]

TypeOK ==
    /\ written \in [Files -> 0 .. MaxSaves]
    /\ torn \in SUBSET Files
    /\ saves \in 0 .. MaxSaves
    /\ acked \in 0 .. MaxSaves
    /\ saver \in [phase : {"idle", "open", "fill"}, next : 1 .. 5]
    /\ loader \in LoaderRecords
    /\ result \in [verdict : {"none", "published", "refused"},
                   got : [Components -> 0 .. MaxSaves], expected : References,
                   quiet : BOOLEAN, since : 0 .. MaxSaves, settled : BOOLEAN]

Init ==
    /\ written = [f \in Files |-> 0]
    /\ torn = {}
    /\ saves = 0
    /\ acked = 0
    /\ saver = IdleSaver
    /\ loader = IdleLoader
    /\ result = [verdict |-> "none", got |-> Nothing, expected |-> NoReference,
                 quiet |-> TRUE, since |-> 0, settled |-> FALSE]

-----------------------------------------------------------------------------
(* save_learning_checkpoint *)

\* The payloads, their digests and the manifest are built in memory first.
BeginSave ==
    /\ saver.phase = "idle"
    /\ saves < MaxSaves
    /\ saves' = saves + 1
    /\ saver' = [phase |-> "open", next |-> 1]
    /\ UNCHANGED <<dirVars, acked, loader, result>>

\* History: a load under way has seen the directory change.
Disturb ==
    loader' = IF loader.phase = "idle" THEN loader
              ELSE [loader EXCEPT !.quiet = FALSE]

\* write_bytes truncates the file it opens.
OpenFile ==
    /\ saver.phase = "open"
    /\ torn' = torn \cup {WriteOrder[saver.next]}
    /\ saver' = [saver EXCEPT !.phase = "fill"]
    /\ Disturb
    /\ UNCHANGED <<written, saves, acked, result>>

\* Variant: the save returns before it has written the manifest.
FillFileWithoutManifest ==
    /\ saver.phase = "fill"
    /\ LET f == WriteOrder[saver.next]
       IN  torn' = torn \ {f} /\ written' = [written EXCEPT ![f] = saves]
    /\ IF saver.next = Len(ReadOrder)
       THEN saver' = IdleSaver /\ acked' = saves
       ELSE saver' = [phase |-> "open", next |-> saver.next + 1] /\ acked' = acked
    /\ Disturb
    /\ UNCHANGED <<saves, result>>

\* The save returns as soon as the manifest is filled.
FillFile ==
    /\ saver.phase = "fill"
    /\ LET f == WriteOrder[saver.next]
       IN  /\ torn' = torn \ {f}
           /\ written' = [written EXCEPT ![f] = saves]
    /\ IF saver.next = Len(WriteOrder)
       THEN /\ saver' = IdleSaver
            /\ acked' = saves
       ELSE /\ saver' = [phase |-> "open", next |-> saver.next + 1]
            /\ acked' = acked
    /\ Disturb
    /\ UNCHANGED <<saves, result>>

\* A write raises, or the process dies: nothing is cleaned up.
SaveFails ==
    /\ saver.phase # "idle"
    /\ saver' = IdleSaver
    /\ UNCHANGED <<dirVars, saves, acked, loader, result>>

-----------------------------------------------------------------------------
(* load_learning_checkpoint, called by _restore_checkpoint *)

Unreadable(f) == written[f] = 0 \/ f \in torn

End(verdict, got) ==
    /\ result' = [verdict |-> verdict, got |-> got, expected |-> loader.expected,
                  quiet |-> loader.quiet, since |-> loader.since,
                  settled |-> loader.settled]
    /\ loader' = IdleLoader

Refuse == End("refused", Nothing)

\* quiet, since and settled are history: whether a file was written since the
\* load began, the last acknowledged save then, and whether that save was the
\* last one begun.
BeginLoad(expected) ==
    /\ loader.phase = "idle"
    /\ loader' = [phase |-> "manifest", next |-> 1, manifest |-> 0,
                  got |-> Nothing, expected |-> expected,
                  quiet |-> TRUE, since |-> acked,
                  settled |-> saver.phase = "idle" /\ acked = saves /\ acked > 0]
    /\ UNCHANGED <<dirVars, saveVars, result>>

ReadManifest ==
    /\ loader.phase = "manifest"
    /\ IF Unreadable("manifest")
       THEN Refuse
       ELSE /\ loader' = [loader EXCEPT !.phase = "verify",
                                        !.manifest = written["manifest"]]
            /\ UNCHANGED result
    /\ UNCHANGED <<dirVars, saveVars>>

\* Variant: the digests are not compared.
VerifiedUnhashed(c, save) == ~Unreadable(c)

\* The digest and the size of the file are those the manifest names.
Verified(c, save) == ~Unreadable(c) /\ Payload[c][written[c]] = Payload[c][save]

VerifyComponent ==
    /\ loader.phase = "verify"
    /\ IF ~Verified(ReadOrder[loader.next], loader.manifest)
       THEN Refuse
       ELSE /\ loader' = IF loader.next = Len(ReadOrder)
                         THEN [loader EXCEPT !.phase = "read", !.next = 1]
                         ELSE [loader EXCEPT !.next = @ + 1]
            /\ UNCHANGED result
    /\ UNCHANGED <<dirVars, saveVars>>

\* The file is read again; the digest of what is read now is not taken.
ReadComponent ==
    /\ loader.phase = "read"
    /\ LET c == ReadOrder[loader.next]
       IN  IF Unreadable(c)
           THEN Refuse
           ELSE /\ loader' = [loader EXCEPT
                                !.got[c] = written[c],
                                !.phase = IF loader.next = Len(ReadOrder)
                                          THEN "loaded" ELSE "read",
                                !.next = @ + 1]
                /\ UNCHANGED result
    /\ UNCHANGED <<dirVars, saveVars>>

\* The reference the caller expects, then LearningCheckpoint's own check.
Admitted(got, expected) ==
    /\ expected # NoReference => ReferenceOf[got["learning"]] = expected
    /\ StepOf[got["learning"]] = StepOf[got["optimizer"]]

\* The restore checks the identities it knows and loads the source state into
\* a candidate of its own, and publishes the four components at once.
Publish ==
    /\ loader.phase = "loaded"
    /\ IF Admitted(loader.got, loader.expected)
       THEN End("published", loader.got)
       ELSE Refuse
    /\ UNCHANGED <<dirVars, saveVars>>

Next ==
    \/ BeginSave \/ OpenFile \/ FillFile \/ SaveFails
    \/ \E expected \in References : BeginLoad(expected)
    \/ ReadManifest \/ VerifyComponent \/ ReadComponent \/ Publish

Spec == Init /\ [][Next]_vars

-----------------------------------------------------------------------------
(* Properties *)

SameAs(got, s) == \A c \in Components : Payload[c][got[c]] = Payload[c][s]

\* What a restore publishes is one whole save, and none older than the last
\* one acknowledged when it began, whatever saves failed over the directory
\* before; only a save that writes while the load runs can make it otherwise.
RestoredIsOneRecentSave ==
    result.verdict = "published" /\ result.quiet =>
        \E s \in Saves : s >= result.since /\ SameAs(result.got, s)

\* A load of a directory whose last save was acknowledged, with no reference
\* expected or the one that was saved, is refused only if a save wrote into the
\* directory while it ran.
AcknowledgedIsLoadable ==
    /\ result.verdict = "refused"
    /\ result.settled
    /\ result.expected \in {NoReference, ReferenceOf[result.since]}
    => ~result.quiet
=============================================================================
