-------------------------- MODULE RuntimeStateFiles --------------------------
(***************************************************************************)
(* The runtime-state artifact (runtime/state.py): a directory that holds a *)
(* state file and a manifest with its digest.  save_runtime_state checks   *)
(* the directory, clears it when it may overwrite, and puts each file in   *)
(* place through a temporary one, the manifest last; load_runtime_state    *)
(* reads the manifest and then the state, and compares.                    *)
(*                                                                         *)
(* Savers are processes that each save a state of their own, named after   *)
(* them; they may race, raise at any step, or die.  There is one reader.   *)
(* Digests do not collide.  Path and payload checks can only raise; files  *)
(* that are not the artifact's are temporaries of its savers.  The power   *)
(* does not fail here: the directory itself is never synced.               *)
(***************************************************************************)
EXTENDS Naturals, Sequences, FiniteSets

CONSTANTS
  Savers,
  Absent,        \* no such file, no state
  MaxFaults      \* raises and deaths in one behaviour

ASSUME StateFilesAssumption ==
  /\ Absent \notin Savers
  /\ Savers \cap {"state", "manifest"} = {}
  /\ MaxFaults \in Nat

Files == {"state", "manifest"}

\* Variant: the manifest is put in place first.
ManifestFirst == <<"manifest", "state">>

\* The order in which the files are put in place.
WriteOrder == <<"state", "manifest">>

VARIABLES
  overwriting, \* the savers that pass overwrite=True
  exists,      \* the directory exists
  file,        \* file |-> whose state it is of, Absent when it is not there
  temps,       \* the savers that have a temporary file in the directory
  pc,          \* saver |-> where it is in save_runtime_state
  listing,     \* saver |-> what it still has to remove
  written,     \* saver |-> how many files it has put in place
  latest,      \* history: the last saver to get past its check
  alone,       \* history: it found nobody at work when it did
  reader,      \* where the reader is, and the manifest it has seen
  loaded,      \* history: the last load that returned a state
  faults       \* raises and deaths so far

disk == <<exists, file, temps>>
history == <<latest, alone>>
reading == <<reader, loaded>>
vars == <<overwriting, disk, pc, listing, written, history, reading, faults>>

Working == { "list", "clear", "mkdir", "temporary", "replace" }

\* A manifest the reader has seen, and whether its state was in place then.
Seen == [of: Savers, whole: BOOLEAN]

TypeOK ==
  /\ overwriting \subseteq Savers
  /\ exists \in BOOLEAN
  /\ file \in [Files -> Savers \cup {Absent}]
  /\ temps \subseteq Savers
  /\ pc \in [Savers -> Working \cup { "idle", "saved", "failed", "dead" }]
  /\ listing \in [Savers -> SUBSET (Files \cup Savers)]
  /\ written \in [Savers -> 0..2]
  /\ latest \in Savers \cup {Absent} /\ alone \in BOOLEAN
  /\ reader \in [at: {"away", "opened", "manifest"}, seen: {Absent}]
                  \cup [at: {"state"}, seen: Seen]
  /\ loaded \in Seen \cup {Absent}
  /\ faults \in 0..MaxFaults
  /\ ~exists => temps = {} /\ file = [f \in Files |-> Absent]

Away == [at |-> "away", seen |-> Absent]

Init ==
  /\ overwriting \in SUBSET Savers
  /\ exists \in BOOLEAN
  /\ file = [f \in Files |-> Absent]
  /\ temps = {}
  /\ pc = [s \in Savers |-> "idle"]
  /\ listing = [s \in Savers |-> {}]
  /\ written = [s \in Savers |-> 0]
  /\ latest = Absent /\ alone = TRUE
  /\ reader = Away /\ loaded = Absent
  /\ faults = 0
-----------------------------------------------------------------------------
(***************************************************************************)
(* The steps of a save.                                                    *)
(***************************************************************************)
Go(s, place) == pc' = [pc EXCEPT ![s] = place]

AtWork == { s \in Savers : pc[s] \in Working }

Begin(s, place) ==
  /\ Go(s, place)
  /\ latest' = s /\ alone' = (AtWork = {})

\* Without overwrite=True an existing directory is refused, and with it one
\* that holds unrelated files.
Refuses(s) == exists /\ (s \notin overwriting \/ temps # {})

\* _prepare_destination, up to its loop.
Check(s) ==
  /\ pc[s] = "idle"
  /\ \/ /\ Refuses(s) /\ Go(s, "failed")
        /\ UNCHANGED history
     \/ /\ ~Refuses(s) /\ Begin(s, IF exists THEN "list" ELSE "mkdir")
  /\ UNCHANGED <<overwriting, disk, listing, written, reading, faults>>

Present == { f \in Files : file[f] # Absent } \cup temps

\* destination.iterdir() once more: the names to remove.
List(s) ==
  /\ pc[s] = "list"
  /\ listing' = [listing EXCEPT ![s] = Present]
  /\ Go(s, "clear")
  /\ UNCHANGED <<overwriting, disk, written, history, reading, faults>>

\* Variant: the file is left when the exception goes on.
FailLeavesTemporary(s) == Go(s, "failed") /\ UNCHANGED temps

\* except Exception: temporary.unlink(missing_ok=True), raise.
Fail(s) == Go(s, "failed") /\ temps' = temps \ {s}

\* One turn of the loop: an entry that is not a file any more is refused.
Clear(s, e) ==
  /\ pc[s] = "clear" /\ e \in listing[s]
  /\ listing' = [listing EXCEPT ![s] = @ \ {e}]
  /\ \/ /\ e \in Present
        /\ file' = [f \in Files |-> IF f = e THEN Absent ELSE file[f]]
        /\ temps' = temps \ {e}
        /\ UNCHANGED pc
     \/ /\ e \notin Present
        /\ Fail(s)
        /\ UNCHANGED file
  /\ UNCHANGED <<overwriting, exists, written, history, reading, faults>>

Cleared(s) ==
  /\ pc[s] = "clear" /\ listing[s] = {}
  /\ Go(s, "mkdir")
  /\ UNCHANGED <<overwriting, disk, listing, written, history, reading, faults>>

\* destination.mkdir(parents=True, exist_ok=True)
MkDir(s) ==
  /\ pc[s] = "mkdir"
  /\ exists' = TRUE
  /\ Go(s, "temporary")
  /\ UNCHANGED <<overwriting, file, temps, listing, written, history, reading, faults>>

\* _atomic_write: the temporary file, written and synced, ...
MakeTemporary(s) ==
  /\ pc[s] = "temporary"
  /\ temps' = temps \cup {s}
  /\ Go(s, "replace")
  /\ UNCHANGED <<overwriting, exists, file, listing, written, history, reading, faults>>

\* Variant: the save returns with the state in place.
ReplaceStateOnly(s) ==
  /\ pc[s] = "replace" /\ s \in temps
  /\ file' = [file EXCEPT ![WriteOrder[written[s] + 1]] = s]
  /\ temps' = temps \ {s}
  /\ written' = [written EXCEPT ![s] = @ + 1]
  /\ Go(s, "saved")
  /\ UNCHANGED <<overwriting, exists, listing, history, reading, faults>>

\* ... and os.replace, which fails when another saver removed it.
Replace(s) ==
  /\ pc[s] = "replace"
  /\ \/ /\ s \in temps
        /\ file' = [file EXCEPT ![WriteOrder[written[s] + 1]] = s]
        /\ temps' = temps \ {s}
        /\ written' = [written EXCEPT ![s] = @ + 1]
        /\ Go(s, IF written[s] + 1 = Len(WriteOrder) THEN "saved" ELSE "temporary")
     \/ /\ s \notin temps
        /\ Fail(s)
        /\ UNCHANGED <<file, written>>
  /\ UNCHANGED <<overwriting, exists, listing, history, reading, faults>>
-----------------------------------------------------------------------------
(***************************************************************************)
(* What goes wrong, and the caller.                                        *)
(***************************************************************************)
Fault == faults < MaxFaults /\ faults' = faults + 1

Raise(s) ==
  /\ Fault
  /\ pc[s] \in Working
  /\ Fail(s)
  /\ UNCHANGED <<overwriting, exists, file, listing, written, history, reading>>

\* Its temporary file stays.
Die(s) ==
  /\ Fault
  /\ pc[s] \in Working
  /\ Go(s, "dead")
  /\ UNCHANGED <<overwriting, disk, listing, written, history, reading>>

\* The caller of a save that failed tries again.
Retry(s) ==
  /\ pc[s] = "failed"
  /\ Go(s, "idle")
  /\ listing' = [listing EXCEPT ![s] = {}]
  /\ written' = [written EXCEPT ![s] = 0]
  /\ UNCHANGED <<overwriting, disk, history, reading, faults>>
-----------------------------------------------------------------------------
(***************************************************************************)
(* load_runtime_state.                                                     *)
(***************************************************************************)
Load(next) ==
  /\ reader' = next
  /\ UNCHANGED <<overwriting, disk, pc, listing, written, history, faults>>

\* Both files have to be there, the manifest first.
Open ==
  \/ /\ reader = Away /\ file["manifest"] # Absent
     /\ Load([at |-> "opened", seen |-> Absent])
     /\ UNCHANGED loaded
  \/ /\ reader.at = "opened"
     /\ Load(IF file["state"] = Absent THEN Away
             ELSE [at |-> "manifest", seen |-> Absent])
     /\ UNCHANGED loaded

ReadManifest ==
  /\ reader.at = "manifest"
  /\ LET of == file["manifest"]
     IN  Load(IF of = Absent THEN Away
              ELSE [at |-> "state",
                    seen |-> [of |-> of, whole |-> file["state"] = of]])
  /\ UNCHANGED loaded

\* A state that is missing or not the manifest's is an error.
ReadState ==
  /\ reader.at = "state"
  /\ Load(Away)
  /\ loaded' = IF file["state"] = reader.seen.of THEN reader.seen ELSE loaded

SaverStep(s) ==
  \/ Check(s) \/ List(s)
  \/ (\E e \in Files \cup Savers : Clear(s, e)) \/ Cleared(s)
  \/ MkDir(s) \/ MakeTemporary(s) \/ Replace(s)

Next ==
  \/ \E s \in Savers : SaverStep(s) \/ Raise(s) \/ Die(s) \/ Retry(s)
  \/ Open \/ ReadManifest \/ ReadState

Spec == Init /\ [][Next]_vars
-----------------------------------------------------------------------------
(***************************************************************************)
(* Properties                                                              *)
(***************************************************************************)
Whole(s) == \A f \in Files : file[f] = s

\* "Manifest-last": a load that returns, returns a state that was in place when
\* its manifest was read, whatever savers did before, meanwhile and after.
LoadsAreOfOneMoment == loaded # Absent => loaded.whole

\* A save that found nobody at work and returned can be loaded until another
\* save begins, whatever earlier saves left behind when they failed or died.
SavedIsLoadable ==
  \A s \in Savers : pc[s] = "saved" /\ latest = s /\ alone => Whole(s)

\* A save that may overwrite is turned away only by the unfinished save of
\* another process: exceptions leave nothing that wedges the directory.
OnlyOthersRefuse ==
  [][ \A s \in overwriting :
        pc[s] = "idle" /\ pc'[s] = "failed" =>
          \E t \in Savers \ {s} : pc[t] \in Working \cup {"dead"} ]_vars
=============================================================================
