----------------------------- MODULE FileIndex -----------------------------
(***************************************************************************)
(* The record index of the file proof store (internal/proofstore/local.go):*)
(* every record has a file by identifier and one copy per secondary        *)
(* directory, by time, batch, proof level and tenant.  A put replaces the  *)
(* files one at a time, without a lock, while listings read a directory    *)
(* and then its files; the process or the machine may stop between any two *)
(* files.  The records are those of one batch on its way from L3 to L5; a  *)
(* file is the proof level it holds, 0 where there is none.                *)
(***************************************************************************)
EXTENDS Naturals, SequencesExt, FiniteSetsExt

CONSTANTS NumRecords,    \* bound: records of the batch
          MaxStops       \* bound: crashes and failed writes

ASSUME FileIndexAssumption == NumRecords \in Nat \ {0} /\ MaxStops \in Nat

Records == 1 .. NumRecords
ProofLevels == 3 .. 5
LevelDirs == <<"-", "-", "L3", "L4", "L5">>
Dirs == {"time", "batch", "L3", "L4", "L5", "tenant"}

VARIABLES
    bundles,    \* records whose proof bundle is stored
    byID,       \* records/by-id
    copies,     \* the secondary directories
    unsynced,   \* removals a power loss may undo
    stage,      \* the level the batch is being brought to; 6 when it has reached L5
    writer,     \* the put in progress
    lister,     \* a listing in progress
    stops

fileIndexVars == <<bundles, byID, copies, unsynced, stage, writer, lister, stops>>

NoWriter == [pc |-> "idle", todo |-> <<>>, old |-> 0, step |-> 0]
NoLister == [pc |-> "idle", dir |-> "time", names |-> {}, got |-> {}, due |-> {}]

FileIndexInit ==
    /\ bundles = {} /\ byID = [r \in Records |-> 0]
    /\ copies = [d \in Dirs |-> [r \in Records |-> 0]]
    /\ unsynced = {}
    /\ stage = 3 /\ writer = NoWriter /\ lister = NoLister /\ stops = 0

recordIndexSecondaryPaths(level) == <<"time", "batch", LevelDirs[level], "tenant">>

RecordNow == Head(writer.todo)

Skip == writer' = [NoWriter EXCEPT !.pc = "next", !.todo = Tail(writer.todo)]

-----------------------------------------------------------------------------
(* The callers: the batch service writes the bundles of a batch and repeats
   that until the batch is committed, then the global log brings it to L4 and
   the projector to L5, each until it has succeeded. *)

BeginBatch ==
    /\ writer.pc = "idle" /\ stage < 6
    /\ writer' = [NoWriter EXCEPT !.pc = "next",
                                  !.todo = IF stage = 3 THEN [r \in Records |-> r]
                                           ELSE SetToSortSeq({r \in Records : copies["batch"][r] > 0}, <)]
    /\ UNCHANGED <<bundles, byID, copies, unsynced, stage, lister, stops>>

PutBundle ==
    /\ writer.pc = "next" /\ writer.todo # <<>> /\ stage = 3
    /\ bundles' = bundles \cup {RecordNow}
    /\ writer' = [writer EXCEPT !.pc = "index"]
    /\ UNCHANGED <<byID, copies, unsynced, stage, lister, stops>>

promoteBatchRecords ==
    /\ writer.pc = "next" /\ writer.todo # <<>> /\ stage > 3
    /\ IF copies["batch"][RecordNow] >= stage THEN Skip ELSE writer' = [writer EXCEPT !.pc = "index"]
    /\ UNCHANGED <<bundles, byID, copies, unsynced, stage, lister, stops>>

EndBatch ==
    /\ writer.pc = "next" /\ writer.todo = <<>>
    /\ stage' = stage + 1 /\ writer' = NoWriter
    /\ UNCHANGED <<bundles, byID, copies, unsynced, lister, stops>>

-----------------------------------------------------------------------------
(* putRecordIndex. *)

WriteByID ==
    /\ writer.pc = "index"
    /\ writer' = [writer EXCEPT !.pc = "copies", !.old = byID[RecordNow], !.step = 1]
    /\ byID' = [byID EXCEPT ![RecordNow] = stage]
    /\ UNCHANGED <<bundles, copies, unsynced, stage, lister, stops>>

writeRecordIndex ==
    LET paths == recordIndexSecondaryPaths(stage)
        d == paths[writer.step]
    IN  /\ writer.pc = "copies"
        /\ copies' = [copies EXCEPT ![d][RecordNow] = stage]
        /\ unsynced' = {x \in unsynced : x[1] # d}
        /\ writer' = IF writer.step < Len(paths) THEN [writer EXCEPT !.step = @ + 1]
                     ELSE [writer EXCEPT !.pc = "clean"]
        /\ UNCHANGED <<bundles, byID, stage, lister, stops>>

Stale(old, new) == ToSet(recordIndexSecondaryPaths(old)) \ ToSet(recordIndexSecondaryPaths(new))

(* The error of a removal is ignored, and its directory is not synced. *)
removeRecordIndexSecondary ==
    /\ writer.pc = "clean"
    /\ LET gone == IF writer.old = 0 THEN {} ELSE Stale(writer.old, stage)
       IN  /\ copies' = [d \in Dirs |-> IF d \in gone THEN [copies[d] EXCEPT ![RecordNow] = 0] ELSE copies[d]]
           /\ unsynced' = unsynced \cup {<<d, RecordNow, writer.old>> : d \in gone}
    /\ Skip
    /\ UNCHANGED <<bundles, byID, stage, lister, stops>>

(* A write or the process fails: the caller begins again. *)
WriterStops ==
    /\ writer.pc # "idle" /\ stops < MaxStops
    /\ stops' = stops + 1
    /\ writer' = NoWriter
    /\ UNCHANGED <<bundles, byID, copies, unsynced, stage, lister>>

PowerLoss ==
    /\ stops < MaxStops /\ stops' = stops + 1
    /\ writer' = NoWriter /\ lister' = NoLister
    /\ \E back \in SUBSET unsynced :
          copies' = [d \in Dirs |-> [r \in Records |->
                        IF \E x \in back : x[1] = d /\ x[2] = r
                        THEN (CHOOSE x \in back : x[1] = d /\ x[2] = r)[3] ELSE copies[d][r]]]
    /\ unsynced' = {}
    /\ UNCHANGED <<bundles, byID, stage>>

-----------------------------------------------------------------------------
(* ListRecordIndexes: the names of one directory, then one file after the
   other; a file that has gone in between fails the listing. *)

ReadNames(d) ==
    /\ lister.pc \in {"idle", "done", "failed"}
    /\ lister' = [pc |-> "read", dir |-> d, names |-> {r \in Records : copies[d][r] > 0}, got |-> {},
                  due |-> {r \in Records : stage > 3 \/ (writer.pc # "idle" /\ r \notin ToSet(writer.todo))}]
    /\ UNCHANGED <<bundles, byID, copies, unsynced, stage, writer, stops>>

ReadFile ==
    /\ lister.pc = "read" /\ lister.names # {}
    /\ LET r == Min(lister.names)
       IN  lister' = IF copies[lister.dir][r] = 0 THEN [lister EXCEPT !.pc = "failed"]
                     ELSE [lister EXCEPT !.names = @ \ {r}, !.got = @ \cup {r}]
    /\ UNCHANGED <<bundles, byID, copies, unsynced, stage, writer, stops>>

ListRecordIndexes ==
    /\ lister.pc = "read" /\ lister.names = {}
    /\ lister' = [lister EXCEPT !.pc = "done"]
    /\ UNCHANGED <<bundles, byID, copies, unsynced, stage, writer, stops>>

FileIndexNext ==
    \/ BeginBatch \/ PutBundle \/ promoteBatchRecords \/ EndBatch
    \/ WriteByID \/ writeRecordIndex \/ removeRecordIndexSecondary
    \/ WriterStops \/ PowerLoss
    \/ \E d \in {"time", "batch", "L3"} : ReadNames(d)
    \/ ReadFile \/ ListRecordIndexes

FileIndexSpec == FileIndexInit /\ [][FileIndexNext]_fileIndexVars

-----------------------------------------------------------------------------
(* However far a put has come when the store stops, no secondary copy shows a
   level the file by identifier does not have yet: GetRecordIndex is never
   behind a listing, and a listed record has its bundle. *)
ByIDLeads ==
    \A d \in Dirs, r \in Records :
        copies[d][r] <= byID[r] /\ (copies[d][r] > 0 => r \in bundles)

(* A listing by time or batch that began after a record was put returns the
   record, and does not fail, whatever promotion rewrites meanwhile. *)
ListingComplete ==
    lister.dir \in {"time", "batch"} =>
        /\ lister.pc # "failed"
        /\ lister.pc = "done" => lister.due \subseteq lister.got

(* The record index on disk answers truly at every moment of a put and of a
   promotion, and after every stop in the middle of one. *)
FileIndexSound == ByIDLeads /\ ListingComplete
=============================================================================
