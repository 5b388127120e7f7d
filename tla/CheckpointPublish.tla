-------------------------- MODULE CheckpointPublish --------------------------
(***************************************************************************)
(* How a checkpoint is put in place, by save_learning_checkpoint_v3        *)
(* (checkpoints/v3.py) and save_behavior_continuation_checkpoint_v1        *)
(* (behavior/continuation.py): the files are written to a hidden sibling   *)
(* directory and synced, an empty destination is removed, the sibling is   *)
(* renamed over the destination, and the parent directory is synced.       *)
(*                                                                         *)
(* Several savers may race for one name.  A saver may raise at any step,   *)
(* its process may die between any two, and the power may fail, which      *)
(* takes the directory back to something its last sync allows.  Checkpoint *)
(* data is its saver's name; the component files of a v3 checkpoint are    *)
(* one part, and so is the v3 directory nested in an envelope.  Checks of  *)
(* a saver's own data (state validation, the load of the sibling, the      *)
(* model identity) can only raise, as any step can.  All names are in one  *)
(* parent directory.                                                       *)
(***************************************************************************)
EXTENDS Naturals, FiniteSets

CONSTANTS
  Savers, Names,
  Kind,        \* saver |-> "v3" or "continuation": which function it calls
  Absent,      \* no directory entry
  Empty,       \* an empty directory
  Foreign,     \* a file, or a directory that is not empty and not a saver's
  MaxFaults    \* raises, deaths and power losses in one behaviour

Parts(s) == IF Kind[s] = "v3" THEN {"components", "manifest"}
            ELSE {"model", "run_state", "manifest"}

AllParts == {"components", "model", "run_state", "manifest"}

(***************************************************************************)
(* A saver's directory: the parts that were written, those whose bytes are *)
(* on disk, and those whose directory entry is.                            *)
(***************************************************************************)
Directories ==
  [owner: Savers, written: SUBSET AllParts, synced: SUBSET AllParts,
   listed: SUBSET AllParts]

Entries == Directories \cup {Absent, Empty, Foreign}

ASSUME PublishAssumption ==
  /\ Kind \in [Savers -> {"v3", "continuation"}]
  /\ MaxFaults \in Nat
  /\ Absent # Empty /\ Absent # Foreign /\ Empty # Foreign
  /\ Directories \cap {Absent, Empty, Foreign} = {}
  /\ Foreign \notin Savers /\ Absent \notin Savers

VARIABLES
  dest,      \* name |-> what the parent directory shows under it
  possible,  \* name |-> what it may show after a power loss
  pc,        \* saver |-> where it is in its save
  target,    \* saver |-> "directory": the name it saves to
  temporary, \* saver |-> its hidden sibling, Absent when there is none
  settled,   \* names with old content or an acknowledged save
  faults     \* raises, deaths and power losses so far

vars == <<dest, possible, pc, target, temporary, settled, faults>>

Working == { "mktemp", "write", "sync", "exists", "rmdir", "rename", "sync_parent" }

TypeOK ==
  /\ dest \in [Names -> Entries]
  /\ possible \in [Names -> SUBSET Entries]
  /\ pc \in [Savers -> Working \cup { "idle", "saved", "failed", "dead" }]
  /\ target \in [Savers -> Names]
  /\ temporary \in [Savers -> Directories \cup {Absent}]
  /\ settled \subseteq Names
  /\ faults \in 0..MaxFaults

Init ==
  /\ dest \in [Names -> {Absent, Empty, Foreign}]
  /\ possible = [n \in Names |-> {dest[n]}]
  /\ pc = [s \in Savers |-> "idle"]
  /\ target \in [Savers -> Names]
  /\ temporary = [s \in Savers |-> Absent]
  /\ settled = { n \in Names : dest[n] = Foreign }
  /\ faults = 0
-----------------------------------------------------------------------------
(***************************************************************************)
(* The steps of a save.                                                    *)
(***************************************************************************)
Go(s, place) == pc' = [pc EXCEPT ![s] = place]

\* Variant: any existing destination is refused, an empty one too.
CheckRefusesEmpty(s) ==
  /\ pc[s] = "idle"
  /\ Go(s, IF dest[target[s]] = Absent THEN "mktemp" ELSE "failed")
  /\ UNCHANGED <<dest, possible, target, temporary, settled, faults>>

\* A destination that exists and is not an empty directory is refused.
Check(s) ==
  /\ pc[s] = "idle"
  /\ Go(s, IF dest[target[s]] \in {Absent, Empty} THEN "mktemp" ELSE "failed")
  /\ UNCHANGED <<dest, possible, target, temporary, settled, faults>>

MakeTemporary(s) ==
  /\ pc[s] = "mktemp"
  /\ temporary' = [temporary EXCEPT ![s] =
       [owner |-> s, written |-> {}, synced |-> {}, listed |-> {}]]
  /\ Go(s, "write")
  /\ UNCHANGED <<dest, possible, target, settled, faults>>

\* Parts are written in order, the manifest, which digests the others, last.
NextPart(s, p) ==
  LET missing == Parts(s) \ temporary[s].written
  IN  /\ p \in missing
      /\ p = "manifest" => missing = {"manifest"}
      /\ p = "run_state" => "model" \notin missing

\* The nested save leaves the model on disk, entry and all.
Write(s, p) ==
  /\ pc[s] = "write" /\ NextPart(s, p)
  /\ temporary' = [temporary EXCEPT
       ![s].written = @ \cup {p},
       ![s].synced = IF p = "model" THEN @ \cup {p} ELSE @,
       ![s].listed = IF p = "model" THEN @ \cup {p} ELSE @]
  /\ Go(s, IF p = "manifest" THEN "sync" ELSE "write")
  /\ UNCHANGED <<dest, possible, target, settled, faults>>

\* _fsync_tree, _fsync_file: the files one by one.
SyncFile(s, p) ==
  /\ pc[s] = "sync"
  /\ p \in temporary[s].written \ temporary[s].synced
  /\ temporary' = [temporary EXCEPT ![s].synced = @ \cup {p}]
  /\ UNCHANGED <<dest, possible, pc, target, settled, faults>>

\* Variant: the directory is synced and its files are not.
SyncOnlyListing(s) ==
  /\ pc[s] = "sync"
  /\ temporary' = [temporary EXCEPT ![s].listed = temporary[s].written]
  /\ Go(s, "exists")
  /\ UNCHANGED <<dest, possible, target, settled, faults>>

\* _fsync_directory(temporary), after the files.
SyncListing(s) ==
  /\ pc[s] = "sync" /\ temporary[s].written = temporary[s].synced
  /\ temporary' = [temporary EXCEPT ![s].listed = temporary[s].written]
  /\ Go(s, "exists")
  /\ UNCHANGED <<dest, possible, target, settled, faults>>

\* directory.exists() decides whether rmdir is called.
LookUp(s) ==
  /\ pc[s] = "exists"
  /\ Go(s, IF dest[target[s]] = Absent THEN "rename" ELSE "rmdir")
  /\ UNCHANGED <<dest, possible, target, temporary, settled, faults>>

\* What the parent directory shows becomes e; the disk may have either.
Shows(n, e) ==
  /\ dest' = [dest EXCEPT ![n] = e]
  /\ possible' = [possible EXCEPT ![n] = @ \cup {e}]

\* except Exception: rmtree(temporary), raise.
Fail(s) ==
  /\ temporary' = [temporary EXCEPT ![s] = Absent]
  /\ Go(s, "failed")

\* rmdir: only an empty directory can be removed.
RemoveEmpty(s) ==
  /\ pc[s] = "rmdir"
  /\ \/ /\ dest[target[s]] = Empty
        /\ Shows(target[s], Absent) /\ Go(s, "rename")
        /\ UNCHANGED temporary
     \/ /\ dest[target[s]] # Empty
        /\ Fail(s)
        /\ UNCHANGED <<dest, possible>>
  /\ UNCHANGED <<target, settled, faults>>

\* Variant: whatever is in the way is replaced.
RenameReplaces(s) ==
  /\ pc[s] = "rename"
  /\ Shows(target[s], temporary[s]) /\ Go(s, "sync_parent")
  /\ temporary' = [temporary EXCEPT ![s] = Absent]
  /\ UNCHANGED <<target, settled, faults>>

\* rename: over nothing or an empty directory.
Rename(s) ==
  /\ pc[s] = "rename"
  /\ \/ /\ dest[target[s]] \in {Absent, Empty}
        /\ Shows(target[s], temporary[s]) /\ Go(s, "sync_parent")
        /\ temporary' = [temporary EXCEPT ![s] = Absent]
     \/ /\ dest[target[s]] \notin {Absent, Empty}
        /\ Fail(s)
        /\ UNCHANGED <<dest, possible>>
  /\ UNCHANGED <<target, settled, faults>>

\* Variant: the save returns without syncing the parent directory.
ReturnUnsynced(s) ==
  /\ pc[s] = "sync_parent"
  /\ settled' = settled \cup {target[s]}
  /\ Go(s, "saved")
  /\ UNCHANGED <<dest, possible, target, temporary, faults>>

\* _fsync_directory(directory.parent), and the save returns.
SyncParent(s) ==
  /\ pc[s] = "sync_parent"
  /\ possible' = [n \in Names |-> {dest[n]}]
  /\ settled' = settled \cup {target[s]}
  /\ Go(s, "saved")
  /\ UNCHANGED <<dest, target, temporary, faults>>
-----------------------------------------------------------------------------
(***************************************************************************)
(* What goes wrong.                                                        *)
(***************************************************************************)
Fault == faults < MaxFaults /\ faults' = faults + 1

Raise(s) ==
  /\ Fault
  /\ pc[s] \in Working
  /\ Fail(s)
  /\ UNCHANGED <<dest, possible, target, settled>>

\* Its hidden sibling stays behind, and nobody looks at it.
Die(s) ==
  /\ Fault
  /\ pc[s] \in Working
  /\ temporary' = [temporary EXCEPT ![s] = Absent]
  /\ Go(s, "dead")
  /\ UNCHANGED <<dest, possible, target, settled>>

\* What the disk may hold of an entry: unsynced parts are there or not.
OnDisk(e) ==
  IF e \notin Directories THEN {e}
  ELSE { [owner |-> e.owner, written |-> w, synced |-> w, listed |-> w] :
           w \in { v \in SUBSET e.written : e.synced \cap e.listed \subseteq v } }

PowerLoss ==
  /\ Fault
  /\ dest' \in [Names -> UNION { OnDisk(e) : e \in UNION { possible[n] : n \in Names } }]
  /\ \A n \in Names : \E e \in possible[n] : dest'[n] \in OnDisk(e)
  /\ possible' = [n \in Names |-> {dest'[n]}]
  /\ pc' = [s \in Savers |-> IF pc[s] \in Working THEN "dead" ELSE pc[s]]
  /\ temporary' = [s \in Savers |-> Absent]
  /\ UNCHANGED <<target, settled>>

\* The caller tries again.
Retry(s) ==
  /\ pc[s] \in {"failed", "dead"}
  /\ Go(s, "idle")
  /\ UNCHANGED <<dest, possible, target, temporary, settled, faults>>

SaverStep(s) ==
  \/ Check(s) \/ MakeTemporary(s)
  \/ \E p \in AllParts : Write(s, p) \/ SyncFile(s, p)
  \/ SyncListing(s) \/ LookUp(s) \/ RemoveEmpty(s) \/ Rename(s) \/ SyncParent(s)

Next ==
  \/ \E s \in Savers : SaverStep(s) \/ Raise(s) \/ Die(s) \/ Retry(s)
  \/ PowerLoss

Spec == Init /\ [][Next]_vars
-----------------------------------------------------------------------------
(***************************************************************************)
(* Properties                                                              *)
(***************************************************************************)
Whole(e) == e \in Directories /\ e.written = Parts(e.owner)

\* "No reader treats that directory as a committed checkpoint": whatever shows
\* under a name and was not there before is a whole checkpoint of one saver,
\* through races, deaths and power losses.
VisibleIsWhole ==
  \A n \in Names : dest[n] \in {Absent, Empty, Foreign} \/ Whole(dest[n])

\* A save that returned keeps its word: its name holds its own checkpoint from
\* then on, after any power loss, and no other saver is told it saved there.
SavedStays ==
  \A s \in Savers :
    pc[s] = "saved" => Whole(dest[target[s]]) /\ dest[target[s]].owner = s

\* Racing for a free name somebody wins: unless something else goes wrong, a
\* saver is turned away from a name that was free only while another one is
\* still on its way to it, or has saved to it.
SomebodyWins ==
  faults = 0 =>
    \A n \in Names \ settled :
      (\E s \in Savers : target[s] = n /\ pc[s] = "failed") =>
        \E s \in Savers : target[s] = n /\ pc[s] \in Working

\* What a reader finds: nothing, the old content, a saver's checkpoint, or
\* something no save should ever leave.
Visible(n) ==
  CASE dest[n] \in {Absent, Empty} -> Absent
    [] dest[n] = Foreign -> Foreign
    [] Whole(dest[n]) -> dest[n].owner
    [] OTHER -> "torn"

\* Saving is publishing: whole, once, never replaced, and never lost once it
\* was acknowledged.
Store == INSTANCE PublishedStore WITH
  Contents <- Savers \cup {Foreign},
  visible <- [n \in Names |-> Visible(n)]

ImplementsStore == Store!Spec
=============================================================================
