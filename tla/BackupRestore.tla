--------------------------- MODULE BackupRestore ---------------------------
(***************************************************************************)
(* Portable backups (internal/backup/backup.go, cmd/trustdb/backup_cmd.go).*)
(* Create scans a store in a fixed order into an archive that is published *)
(* by rename; the anchor worker of a running server may complete anchors   *)
(* meanwhile.  Restore verifies the whole archive, then applies one entry  *)
(* after the other to an empty store and records its progress in a         *)
(* checkpoint file, which it never syncs; a run may die anywhere and is    *)
(* started again.  An entry is its family and a number.                    *)
(***************************************************************************)
EXTENDS Integers, Sequences, FiniteSets, SequencesExt

CONSTANTS NumManifests,     \* batches in the source
          MaxTargets,       \* tree heads the source hands to the anchor worker
          MaxRestoreCrashes

ASSUME BackupAssumption ==
    NumManifests \in Nat /\ MaxTargets \in Nat /\ MaxRestoreCrashes \in Nat

VARIABLES
    source,     \* the anchor state of the source: results, inFlight, pending, head
    scan,       \* what Create does next
    captured,   \* schedule read by Create
    listed,     \* the result that Create listed last
    archive,    \* tracked entries written
    owed,       \* the schedule and the results when the schedules were read
    restore,    \* state of the restore: idle, reading, refused, done
    at,         \* ordinal of the next entry
    buffer,     \* batchLeaves and batchNodes
    marked,     \* LastOrdinal in the checkpoint file, 0 without a file
    restored,   \* entries in the destination
    resumed,    \* schedule in the destination
    rcrashes

createVars == <<source, scan, captured, listed, archive, owed>>
restoreVars == <<restore, at, buffer, marked, restored, resumed, rcrashes>>
backupVars == <<createVars, restoreVars>>

NothingScheduled == [inFlight |-> 0, pending |-> 0]

BackupInit ==
    /\ source = [results |-> {}, inFlight |-> 0, pending |-> 0, head |-> 0]
    /\ scan = "idle" /\ captured = NothingScheduled /\ listed = 0 /\ archive = <<>>
    /\ owed = [results |-> {}, inFlight |-> 0, pending |-> 0]
    /\ restore = "idle" /\ at = 1 /\ buffer = {} /\ marked = 0 /\ restored = {}
    /\ resumed = NothingScheduled /\ rcrashes = 0

-----------------------------------------------------------------------------
(* The source until Create is done; later changes do not reach the archive. *)

Creating == scan # "published"

NewHead ==
    /\ Creating /\ source.head < MaxTargets
    /\ source' = [source EXCEPT !.head = @ + 1, !.pending = source.head + 1]
    /\ UNCHANGED <<scan, captured, listed, archive, owed, restoreVars>>

ClaimAttempt ==
    /\ Creating /\ source.inFlight = 0 /\ source.pending # 0
    /\ source' = [source EXCEPT !.inFlight = source.pending, !.pending = 0]
    /\ UNCHANGED <<scan, captured, listed, archive, owed, restoreVars>>

CompleteAttempt ==
    /\ Creating /\ source.inFlight # 0
    /\ source' = [source EXCEPT !.results = @ \cup {source.inFlight}, !.inFlight = 0]
    /\ UNCHANGED <<scan, captured, listed, archive, owed, restoreVars>>

-----------------------------------------------------------------------------
(* Create.  Tree leaves and nodes come between the bundles of a batch and its
   manifest. *)

BatchEntries(b) == << <<"bundle", b>>, <<"leaf", b>>, <<"node", b>>, <<"manifest", b>> >>

ManifestScan == FlattenSeq([b \in 1 .. NumManifests |-> BatchEntries(b)])

LogScan ==
    [b \in 1 .. NumManifests |-> <<"root", b>>]
    \o << <<"global leaf", 1>>, <<"global node", 1>>, <<"global state", 1>>, <<"sth", 1>>,
          <<"tile", 1>>, <<"outbox", 1>> >>

ScanProofs ==
    /\ scan = "idle" /\ archive' = ManifestScan /\ scan' = "log"
    /\ UNCHANGED <<source, captured, listed, owed, restoreVars>>

ScanLog ==
    /\ scan = "log" /\ archive' = archive \o LogScan /\ scan' = "schedules"
    /\ UNCHANGED <<source, captured, listed, owed, restoreVars>>

Captured == [inFlight |-> source.inFlight, pending |-> source.pending]

(* What must not get lost from here on. *)
Owe == owed' = IF scan = "schedules"
               THEN [results |-> source.results, inFlight |-> source.inFlight, pending |-> source.pending]
               ELSE owed


(* ListSTHAnchorSchedules, before the results. *)
CaptureSchedules ==
    /\ scan = "schedules" /\ Owe /\ captured' = Captured /\ scan' = "results"
    /\ UNCHANGED <<archive, source, listed, restoreVars>>

(* ListSTHAnchorResultsAfter, a page at a time. *)
ScanResult ==
    LET page == {t \in source.results : t > listed}
    IN  /\ scan = "results"
        /\ IF page = {}
           THEN scan' = "write schedules" /\ UNCHANGED <<listed, archive>>
           ELSE LET t == CHOOSE t \in page : \A u \in page : t <= u
                IN  listed' = t /\ archive' = Append(archive, <<"result", t>>) /\ UNCHANGED scan
        /\ UNCHANGED <<source, captured, owed, restoreVars>>

(* The schedule, the key registry, the manifest; sync and rename. *)
PublishArchive ==
    /\ scan = "write schedules" /\ scan' = "published"
    /\ archive' = archive \o << <<"schedule", 1>>, <<"registry", 1>> >>
    /\ UNCHANGED <<source, captured, listed, owed, restoreVars>>

-----------------------------------------------------------------------------
(* RestoreWithOptions, with Resume. *)

(* restoreDestinationEmpty looks at everything but tree leaves and nodes. *)
DestinationEmpty == \A e \in restored : e[1] \in {"leaf", "node", "registry"}

(* Verify reads the archive through before anything is written. *)
Verified == scan = "published"

(* Verify, the binding of the checkpoint, the state of the destination. *)
StartRestore ==
    /\ Verified /\ restore = "idle"
    /\ IF (marked = 0 /\ ~DestinationEmpty) \/ (marked > 0 /\ DestinationEmpty)
       THEN restore' = "refused" ELSE restore' = "reading"
    /\ at' = 1 /\ buffer' = {}
    /\ UNCHANGED <<createVars, marked, restored, resumed, rcrashes>>

Entry == archive[at]
Reading == restore = "reading" /\ at <= Len(archive)

(* Entries that the checkpoint covers are passed over. *)
SkipEntry ==
    /\ Reading /\ at <= marked /\ at' = at + 1
    /\ UNCHANGED <<createVars, restore, buffer, marked, restored, resumed, rcrashes>>

(* markRestored: a leaf or a node is not restored before its manifest is. *)
MarkOf(e) == IF e[1] \in {"leaf", "node"} THEN marked ELSE at

(* reconcileStoredSTHAnchorResults, on the schedule without its lease. *)
Reconciled(schedule, results) ==
    [inFlight |-> IF schedule.inFlight \in results THEN 0 ELSE schedule.inFlight,
     pending |-> IF \E t \in results : t >= schedule.pending THEN 0 ELSE schedule.pending]

RestoredResults == {e[2] : e \in {f \in restored : f[1] = "result"}}

(* The Put of an entry; a manifest takes the buffered tree of its batch along. *)
PutEntry(e) ==
    CASE e[1] \in {"leaf", "node"} -> /\ buffer' = buffer \cup {e} /\ UNCHANGED <<restored, resumed>>
      [] e[1] = "manifest" -> LET tree == {f \in buffer : f[2] = e[2]}
                              IN  /\ restored' = restored \cup tree \cup {e}
                                  /\ buffer' = buffer \ tree /\ UNCHANGED resumed
      [] e[1] = "schedule" -> /\ restored' = restored \cup {e} /\ UNCHANGED buffer
                              /\ resumed' = Reconciled(captured, RestoredResults)
      [] OTHER -> /\ restored' = restored \cup {e} /\ UNCHANGED <<buffer, resumed>>

RestoreEntry ==
    /\ Reading /\ at > marked
    /\ PutEntry(Entry) /\ marked' = MarkOf(Entry) /\ at' = at + 1
    /\ UNCHANGED <<createVars, restore, rcrashes>>

(* The run dies after the Put and before the checkpoint is replaced, or the Put
   fails after it took effect. *)
DieBeforeMark ==
    /\ Reading /\ at > marked /\ rcrashes < MaxRestoreCrashes
    /\ PutEntry(Entry) /\ restore' = "idle" /\ rcrashes' = rcrashes + 1
    /\ UNCHANGED <<createVars, at, marked>>

(* The run dies between entries; a power cut may bring an older checkpoint file
   back, and one that cannot be read stops the restore. *)
DieBetween ==
    /\ Reading /\ rcrashes < MaxRestoreCrashes /\ rcrashes' = rcrashes + 1
    /\ \/ restore' = "idle" /\ marked' \in 0 .. marked
       \/ restore' = "refused" /\ marked > 0 /\ UNCHANGED marked
    /\ UNCHANGED <<createVars, at, buffer, restored, resumed>>

(* The archive manifest was the last entry; the projection is rebuilt. *)
FinishRestore ==
    /\ restore = "reading" /\ at > Len(archive)
    /\ restore' = IF buffer = {} THEN "done" ELSE "refused"
    /\ UNCHANGED <<createVars, at, buffer, marked, restored, resumed, rcrashes>>

BackupNext ==
    \/ NewHead \/ ClaimAttempt \/ CompleteAttempt
    \/ ScanProofs \/ ScanLog \/ CaptureSchedules \/ ScanResult \/ PublishArchive
    \/ StartRestore \/ SkipEntry \/ RestoreEntry \/ DieBeforeMark \/ DieBetween \/ FinishRestore

BackupSpec == BackupInit /\ [][BackupNext]_backupVars

-----------------------------------------------------------------------------
Archived == {archive[i] : i \in 1 .. Len(archive)}
ArchivedResults == {e[2] : e \in {f \in Archived : f[1] = "result"}}

(* An archive never lacks both the result and the retry intent of an anchor that
   was under way when its schedules were read, although attempts complete while
   it is written ("it cannot omit both", backup.Create). *)
BackupKeepsIntent ==
    scan = "published" =>
        /\ owed.results \subseteq ArchivedResults
        /\ owed.inFlight # 0 => owed.inFlight \in ArchivedResults \cup {captured.inFlight}
        /\ owed.pending # 0 => \E t \in ArchivedResults \cup {captured.pending} : t >= owed.pending

(* A restore that reports success, after whatever crashes and lost checkpoint
   updates, has every entry of the archive in the destination, the trees of the
   batches included, and still publishes every target the archive has no result
   for (RestoreWithOptions, readRestoreCheckpoint, restoreSTHAnchorSchedule). *)
RestoreComplete ==
    restore = "done" =>
        /\ restored = Archived
        /\ resumed = Reconciled(captured, ArchivedResults)

(* A backup taken while anchors are published, and its restore through crashes,
   lose neither a result nor the intent to retry one. *)
BackupSound == BackupKeepsIntent /\ RestoreComplete
=============================================================================
