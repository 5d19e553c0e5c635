---------------------------- MODULE PebbleStore ----------------------------
(***************************************************************************)
(* The Pebble proof store (internal/proofstore/pebble/store.go) under a    *)
(* batch service, the outbox publisher and the L5 projector.  A write is   *)
(* one Pebble batch: atomic, and durable at once (Sync) or with the next   *)
(* synced batch (NoSync, artifact sync mode "batch").  A batch of records  *)
(* is written in chunks.  The idempotency projection answers for committed *)
(* records; its readiness, the WAL checkpoint that relies on it, and the   *)
(* index of records by proof level are derived data that several writers   *)
(* touch and any crash may catch half way.                                 *)
(***************************************************************************)
EXTENDS Integers, Sequences, FiniteSets

CONSTANTS ProofModes,     \* proof modes of an instance: inline, async, on_demand
          NumBatches,
          PerBatch,       \* records of a batch, one chunk each
          ArtifactSync,   \* artifactWriteOptions is Sync
          MaxPebbleCrashes

ASSUME PebbleAssumption ==
    /\ ProofModes \subseteq {"inline", "async", "on_demand"}
    /\ {NumBatches, PerBatch} \subseteq Nat \ {0}
    /\ ArtifactSync \in BOOLEAN /\ MaxPebbleCrashes \in Nat

PBatches == 1 .. NumBatches
PRecords == 1 .. NumBatches * PerBatch
BatchOf(r) == (r - 1) \div PerBatch + 1
RecordsOf(b) == {r \in PRecords : BatchOf(r) = b}
FirstOf(b) == (b - 1) * PerBatch + 1
LastOf(b) == b * PerBatch
Promoters == {"outbox", "projector"}

VARIABLES
    proofMode,  \* configured proof mode
    db,         \* contents of the store
    tail,       \* contents a power cut may leave: the last synced, and later ones
    mem,        \* Store: idempotencyReady and hasCommittedBatch
    life,       \* down, opened, rebuilding, up; or import: metastore migrate
    page,       \* manifest that EnsureIdempotencyProjection rebuilds next
    task,       \* what the owner of a batch does next
    chunk,      \* its next record
    promo,      \* a promotion in hand: the level and what was read
    pcrashes

pebbleVars == <<proofMode, db, tail, mem, life, page, task, chunk, promo, pcrashes>>

NoPromo == [level |-> 0, reads |-> {}]

EmptyStore ==
    [level |-> [r \in PRecords |-> 0], refs |-> {}, bundles |-> {}, roots |-> {},
     manifest |-> [b \in PBatches |-> "none"], answers |-> {}, ready |-> TRUE,
     checkpoint |-> 0, committed |-> FALSE, outbox |-> {}, logged |-> {}]

(* ensureStorageSchema on an empty directory. *)
PebbleInit ==
    /\ proofMode \in ProofModes
    /\ db = EmptyStore /\ tail = <<db>>
    /\ mem = [ready |-> TRUE, committed |-> FALSE]
    /\ life \in {"up", "import"} /\ page = 0
    /\ task = [b \in PBatches |-> "none"] /\ chunk = 0
    /\ promo = [p \in Promoters |-> NoPromo]
    /\ pcrashes = 0

-----------------------------------------------------------------------------
(* Batches of writes. *)

SyncTo(new) == db' = new /\ tail' = <<new>>
ArtifactTo(new) == db' = new /\ tail' = IF ArtifactSync THEN <<new>> ELSE Append(tail, new)

(* stageEncodedRecordIndexSet: the entry by identifier and one reference per
   secondary key. *)
Indexed(d, r, l) == [d EXCEPT !.level[r] = l, !.refs = @ \cup {<<r, l>>}]

(* Faulty: only the entry by identifier is rewritten. *)
MaterializedInPlace(d, r) == [d EXCEPT !.bundles = @ \cup {r}, !.level[r] = 3]

(* stageEncodedMaterializedBatchArtifact takes the record to be at L2. *)
Materialized(d, r) ==
    [Indexed(d, r, 3) EXCEPT !.bundles = @ \cup {r}, !.refs = @ \ {<<r, 2>>}]

(* stageEncodedBatchArtifact. *)
WithBundle(d, r) == [Indexed(d, r, 3) EXCEPT !.bundles = @ \cup {r}]

(* ensureEncodedArtifactMutable: the bundle of a committed batch is written
   again only with the same bytes, which a deterministic batch has. *)
Mutable(r) ==
    mem.committed /\ db.level[r] # 0 /\ db.manifest[BatchOf(r)] = "committed" => r \in db.bundles

(* PutManifest: a committed manifest written, or overwritten, past
   PublishCommittedBatch ends the readiness and the checkpoint with it. *)
ManifestTo(d, b, state) ==
    LET invalidates == "committed" \in {state, d.manifest[b]}
    IN  [d EXCEPT !.manifest[b] = state,
                  !.ready = @ /\ ~invalidates,
                  !.checkpoint = IF invalidates THEN 0 ELSE @,
                  !.committed = @ \/ state = "committed"]

PutManifest(b, state) ==
    /\ SyncTo(ManifestTo(db, b, state))
    /\ mem' = [ready |-> mem.ready /\ "committed" \notin {state, db.manifest[b]},
               committed |-> mem.committed \/ state = "committed"]

-----------------------------------------------------------------------------
(* The batch service: one batch after the other is persisted, and prepared
   batches are materialized. *)

Up == life = "up"
Busy(b) == task[b] \notin {"none", "prepared", "done"}
Later == <<proofMode, life, page, promo, pcrashes>>

Begin(b) ==
    /\ Up /\ task[b] = "none" /\ db.manifest[b] = "none"
    /\ \A c \in PBatches : ~Busy(c) /\ (c < b => db.manifest[c] # "none")
    /\ PutManifest(b, "preparing")
    /\ task' = [task EXCEPT ![b] = IF proofMode = "inline" THEN "bundles" ELSE "indexes"]
    /\ chunk' = FirstOf(b) /\ UNCHANGED Later

RootWith(b) == IF chunk = LastOf(b) THEN {b} ELSE {}
NextChunk(b, next) ==
    /\ chunk' = IF chunk = LastOf(b) THEN FirstOf(b) ELSE chunk + 1
    /\ task' = [task EXCEPT ![b] = IF chunk = LastOf(b) THEN next ELSE @]

(* PutBatchArtifacts; the root goes with the last chunk. *)
PutBatchArtifacts(b) ==
    /\ task[b] = "bundles" /\ proofMode = "inline" /\ Mutable(chunk)
    /\ ArtifactTo([WithBundle(db, chunk) EXCEPT !.roots = @ \cup RootWith(b)])
    /\ NextChunk(b, "publish") /\ UNCHANGED <<mem, Later>>

(* putBatchIndexesAndRoot. *)
PutBatchIndexesAndRoot(b) ==
    /\ task[b] = "indexes"
    /\ ArtifactTo([Indexed(db, chunk, 2) EXCEPT !.roots = @ \cup RootWith(b)])
    /\ NextChunk(b, "prepare") /\ UNCHANGED <<mem, Later>>

PutPrepared(b) ==
    /\ task[b] = "prepare" /\ PutManifest(b, "prepared")
    /\ task' = [task EXCEPT ![b] = "prepared"] /\ UNCHANGED <<chunk, Later>>

(* A materializer job, a proof request, or the recovery of the manifest. *)
Materialize(b) ==
    /\ Up /\ task[b] = "prepared" /\ \A c \in PBatches : ~Busy(c)
    /\ task' = [task EXCEPT ![b] = "bundles"] /\ chunk' = FirstOf(b)
    /\ UNCHANGED <<db, tail, mem, Later>>

(* PutMaterializedBatchArtifacts. *)
PutMaterializedBatchArtifacts(b) ==
    /\ task[b] = "bundles" /\ proofMode # "inline" /\ Mutable(chunk)
    /\ ArtifactTo(Materialized(db, chunk))
    /\ NextChunk(b, "publish") /\ UNCHANGED <<mem, Later>>

(* PublishCommittedBatch: manifest and answers in one batch, behind the
   readiness of the projection and a read of every bundle. *)
PublishCommittedBatch(b) ==
    /\ task[b] = "publish" /\ mem.ready /\ RecordsOf(b) \subseteq db.bundles
    /\ SyncTo([db EXCEPT !.manifest[b] = "committed", !.answers = @ \cup RecordsOf(b),
                         !.committed = TRUE])
    /\ mem' = [mem EXCEPT !.committed = TRUE]
    /\ task' = [task EXCEPT ![b] = "checkpoint"] /\ UNCHANGED <<chunk, Later>>

(* advanceCheckpoint: the contiguous committed prefix, through PutCheckpoint. *)
Prefix == {b \in PBatches : \A c \in 1 .. b : db.manifest[c] = "committed"}
PutCheckpoint(b) ==
    /\ task[b] = "checkpoint"
    /\ IF mem.ready /\ Prefix # {}
       THEN SyncTo([db EXCEPT !.checkpoint = Cardinality(Prefix)]) ELSE UNCHANGED <<db, tail>>
    /\ task' = [task EXCEPT ![b] = "hook"] /\ UNCHANGED <<mem, chunk, Later>>

(* EnqueueGlobalLog from the commit hook. *)
EnqueueGlobalLog(b) ==
    /\ task[b] = "hook" /\ SyncTo([db EXCEPT !.outbox = @ \cup {b}])
    /\ task' = [task EXCEPT ![b] = "done"] /\ UNCHANGED <<mem, chunk, Later>>

-----------------------------------------------------------------------------
(* Promotion.  Once the publication intent of a batch is durable the outbox
   publisher raises its records to L4, and the projector, an anchor result
   covering the leaf, to L5. *)

PrepareGlobalLogPublication(b) ==
    /\ Up /\ b \in db.outbox \ db.logged /\ promo["outbox"] = NoPromo
    /\ SyncTo([db EXCEPT !.logged = @ \cup {b}])
    /\ UNCHANGED <<mem, task, chunk, Later>>

(* collectRecordIndexPromotions: the records of the batch that are below the
   level now. *)
Collect(p, b, l) ==
    /\ Up /\ promo[p] = NoPromo /\ b \in db.logged
    /\ l = IF p = "outbox" THEN 4 ELSE 5
    /\ \E r \in RecordsOf(b) : db.level[r] \in 1 .. l - 1
    /\ promo' = [promo EXCEPT ![p] = [level |-> l,
                     reads |-> {<<r, db.level[r]>> : r \in {s \in RecordsOf(b) : db.level[s] \in 1 .. l - 1}}]]
    /\ UNCHANGED <<proofMode, db, tail, mem, life, page, task, chunk, pcrashes>>

(* stageRecordIndexPromotion, from what was read. *)
PromotedRecord(d, r, old, l) == [Indexed(d, r, l) EXCEPT !.refs = (@ \ {<<r, old>>}) \cup {<<r, l>>}]

(* commitRecordIndexPromotions, a chunk at a time. *)
CommitPromotions(p) ==
    /\ Up /\ promo[p].reads # {}
    /\ LET read == CHOOSE x \in promo[p].reads : \A y \in promo[p].reads : x[1] <= y[1]
           left == promo[p].reads \ {read}
       IN  /\ SyncTo(PromotedRecord(db, read[1], read[2], promo[p].level))
           /\ promo' = [promo EXCEPT ![p] = IF left = {} THEN NoPromo ELSE [@ EXCEPT !.reads = left]]
    /\ UNCHANGED <<proofMode, mem, life, page, task, chunk, pcrashes>>

-----------------------------------------------------------------------------
(* A crash, the next start, and an import. *)

PowerCut ==
    /\ life # "down" /\ pcrashes < MaxPebbleCrashes /\ pcrashes' = pcrashes + 1
    /\ \E i \in 1 .. Len(tail) : SyncTo(tail[i])
    /\ life' = "down" /\ page' = 0 /\ chunk' = 0
    /\ mem' = [ready |-> FALSE, committed |-> FALSE]
    /\ task' = [b \in PBatches |-> "none"] /\ promo' = [p \in Promoters |-> NoPromo]
    /\ UNCHANGED proofMode

(* OpenWithOptions reads both markers; a server opens the store, or an import. *)
OpenWithOptions ==
    /\ life = "down"
    /\ mem' = [ready |-> db.ready, committed |-> db.committed]
    /\ life' \in {"opened", "import"}
    /\ UNCHANGED <<proofMode, db, tail, page, task, chunk, promo, pcrashes>>

Reset(d) == [d EXCEPT !.answers = {}, !.ready = FALSE, !.checkpoint = 0]

(* What startup makes of the batches: recovery takes a manifest up again in the
   mode it runs in, and backfill enqueues every root, committed or not. *)
Resumed ==
    [b \in PBatches |->
        CASE db.manifest[b] = "preparing" -> IF proofMode = "inline" THEN "prepared" ELSE "indexes"
          [] db.manifest[b] = "prepared" -> "prepared"
          [] db.manifest[b] = "committed" -> "done"
          [] OTHER -> "none"]
Backfilled(d) == [d EXCEPT !.outbox = @ \cup d.roots]

Serve ==
    LET again == {b \in PBatches : Resumed[b] = "indexes"}
    IN  /\ life' = "up" /\ task' = Resumed
        /\ chunk' = IF again = {} THEN 0 ELSE FirstOf(CHOOSE b \in again : TRUE)

(* EnsureIdempotencyProjection: one marker read on a normal start; *)
ProjectionReady ==
    /\ life = "opened" /\ db.ready
    /\ mem' = [mem EXCEPT !.ready = TRUE] /\ Serve /\ SyncTo(Backfilled(db))
    /\ UNCHANGED <<proofMode, page, promo, pcrashes>>

(* otherwise the reset, *)
ResetProjection ==
    /\ life = "opened" /\ ~db.ready
    /\ mem' = [mem EXCEPT !.ready = FALSE] /\ SyncTo(Reset(db))
    /\ life' = "rebuilding" /\ page' = 1
    /\ UNCHANGED <<proofMode, task, chunk, promo, pcrashes>>

(* one page after the other (rebuildManifestIdempotency needs every bundle of a
   committed manifest), *)
RebuildPage ==
    /\ life = "rebuilding" /\ page \in PBatches /\ page' = page + 1
    /\ IF db.manifest[page] = "committed"
       THEN /\ RecordsOf(page) \subseteq db.bundles
            /\ SyncTo([db EXCEPT !.answers = @ \cup RecordsOf(page)])
       ELSE UNCHANGED <<db, tail>>
    /\ UNCHANGED <<proofMode, mem, life, task, chunk, promo, pcrashes>>

(* and readiness last. *)
PublishReadiness ==
    /\ life = "rebuilding" /\ page > NumBatches
    /\ SyncTo(Backfilled([db EXCEPT !.ready = TRUE]))
    /\ mem' = [mem EXCEPT !.ready = TRUE] /\ page' = 0 /\ Serve
    /\ UNCHANGED <<proofMode, promo, pcrashes>>

(* metastore migrate, backup restore: the bundles of a batch by PutBundle, its
   committed manifest by PutManifest, roots after the manifests; the end is
   EnsureIdempotencyProjection. *)
ImportBatch(b) ==
    /\ life = "import" /\ task[b] = "none" /\ UNCHANGED life
    /\ \/ /\ db.manifest[b] = "none" /\ UNCHANGED mem
          /\ \E r \in RecordsOf(b) \ db.bundles : SyncTo(WithBundle(db, r))
       \/ /\ db.manifest[b] = "none" /\ RecordsOf(b) \subseteq db.bundles
          /\ PutManifest(b, "committed")
       \/ /\ db.manifest[b] = "committed" /\ b \notin db.roots /\ UNCHANGED mem
          /\ SyncTo([db EXCEPT !.roots = @ \cup {b}])
    /\ UNCHANGED <<proofMode, page, task, chunk, promo, pcrashes>>

EndImport ==
    /\ life = "import" /\ life' = "opened"
    /\ UNCHANGED <<proofMode, db, tail, mem, page, task, chunk, promo, pcrashes>>

PebbleNext ==
    \/ \E b \in PBatches :
           \/ Begin(b) \/ PutBatchArtifacts(b) \/ PutBatchIndexesAndRoot(b) \/ PutPrepared(b)
           \/ Materialize(b) \/ PutMaterializedBatchArtifacts(b) \/ PublishCommittedBatch(b)
           \/ PutCheckpoint(b) \/ EnqueueGlobalLog(b) \/ PrepareGlobalLogPublication(b)
           \/ ImportBatch(b)
           \/ \E p \in Promoters, l \in {4, 5} : Collect(p, b, l)
    \/ \E p \in Promoters : CommitPromotions(p)
    \/ PowerCut \/ OpenWithOptions \/ ProjectionReady \/ ResetProjection \/ RebuildPage
    \/ PublishReadiness \/ EndImport

PebbleSpec == PebbleInit /\ [][PebbleNext]_pebbleVars

-----------------------------------------------------------------------------
DiskStates == {tail[i] : i \in 1 .. Len(tail)}

(* Whatever contents a power cut leaves, a projection marked ready answers for
   every record of every committed manifest, and a WAL checkpoint is stored only
   while the projection is ready (EnsureIdempotencyProjection publishes readiness
   last, PutManifest withdraws it with the checkpoint in the same batch). *)
ProjectionSound ==
    \A d \in DiskStates :
        /\ d.ready => \A b \in PBatches : d.manifest[b] = "committed" => RecordsOf(b) \subseteq d.answers
        /\ d.checkpoint > 0 => d.ready

(* Whatever contents a power cut leaves, every indexed record is referenced under
   the level its entry states, so that a listing by that level shows it, and
   every reference leads to an entry (ListRecordIndexes fails on one that does
   not), although promotions commit from stale reads. *)
LevelListingComplete ==
    \A d \in DiskStates :
        /\ \A r \in PRecords : d.level[r] # 0 => <<r, d.level[r]>> \in d.refs
        /\ \A ref \in d.refs : d.level[ref[1]] # 0

(* Whatever contents a power cut leaves, the idempotency projection and the level
   listings of the Pebble store agree with its manifests and records. *)
PebbleSound == ProjectionSound /\ LevelListingComplete
=============================================================================
