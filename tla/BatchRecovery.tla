--------------------------- MODULE BatchRecovery ---------------------------
(***************************************************************************)
(* From accepted WAL records to committed batches, and back after a crash  *)
(* (internal/batch/service.go, cmd/trustdb/serve_cmd.go): the batch worker *)
(* and its manifest protocol in the three proof modes, the materializer,   *)
(* the contiguous WAL checkpoint and the prune hook behind it, and startup *)
(* replay with the recovery of unfinished manifests and the backfill of    *)
(* the global-log outbox.  A record is its WAL sequence.  The store makes  *)
(* each write atomic and durable (Pebble, TiKV); a write that reports an   *)
(* error may have happened.                                                *)
(***************************************************************************)
EXTENDS CoverageRuns

CONSTANTS Configs,       \* proof mode and store backend of an instance
          BatchMax,      \* Options.MaxRecords
          JobSlots,      \* capacity of materializeQueue
          PerSegment,    \* WAL records per segment
          KeepSegments,  \* keepSegments of the prune hook
          MaxFaults,     \* bound: store errors
          MaxCrashes     \* bound: crashes

ASSUME BatchAssumption ==
    /\ Configs \subseteq [mode : {"inline", "async", "on_demand"}, backend : {"pebble", "tikv"}]
    /\ {BatchMax, PerSegment} \subseteq Nat \ {0}
    /\ {JobSlots, KeepSegments, MaxFaults, MaxCrashes} \subseteq Nat

Records == Sequences1
Batches == 1 .. MaxSeq + MaxFaults

VARIABLES
    config,      \* the configuration the process runs with
    last,        \* records in the WAL: 1 .. last
    gone,        \* records 1 .. gone are in pruned segments
    manifest,    \* manifests by batch
    roots,       \* batches whose root, record index and tree are stored
    bundles,     \* batches whose proof bundles are stored
    outbox,      \* batches in the global-log outbox
    checkpoint,  \* the stored WAL checkpoint
    ready,       \* the idempotency projection of the store is complete
    inHand,      \* accepted, not yet handed to the batch queue
    queue,       \* the batch queue
    filling,     \* the batch being collected
    step,        \* what the ingest worker, and whoever materializes, does next
    runs, frontier, persisted, deferred,   \* the checkpoint fields of Service
    firing, pending,            \* checkpoint callbacks: active and latest
    phase, cursor, todo, run, recovering,   \* startup replay
    faults, crashes

durable == <<last, gone, manifest, roots, bundles, outbox, checkpoint, ready>>
pipeline == <<inHand, queue, filling, step>>
coverage == <<runs, frontier, persisted, deferred, firing, pending>>
replay == <<phase, cursor, todo, run, recovering>>
bounds == <<config, faults, crashes>>
vars == <<durable, pipeline, coverage, replay, bounds>>

Zero == [seq |-> 0, batch |-> 0]
NoRun == Run(0, 0, 0)
NoManifest == [state |-> "none", recs |-> {}]
Mode == config.mode
Backend == config.backend

SegmentOf(r) == (r - 1) \div PerSegment + 1

State(b) == manifest[b].state
CommittedRecords == UNION {manifest[b].recs : b \in {c \in Batches : State(c) = "committed"}}

(* The ingest worker, and the materializer job, proof request or recovery that
   materializes a batch. *)
Owners == {"ingest", "materialize"}
Idle == [o \in Owners |-> [b \in Batches |-> "none"]]

Init ==
    /\ config \in Configs
    /\ last = 0 /\ gone = 0 /\ manifest = [b \in Batches |-> NoManifest]
    /\ roots = {} /\ bundles = {} /\ outbox = {} /\ checkpoint = Zero /\ ready = TRUE
    /\ inHand = {} /\ queue = <<>> /\ filling = {} /\ step = Idle
    /\ runs = <<>> /\ frontier = Zero /\ persisted = 0 /\ deferred = FALSE
    /\ firing = Zero /\ pending = Zero
    /\ phase = "up" /\ cursor = 0 /\ todo = {} /\ run = NoRun /\ recovering = 0
    /\ faults = 0 /\ crashes = 0

-----------------------------------------------------------------------------
(* Accepting records: the WAL append, then the hand-over to the batch queue,
   which concurrent submissions reach in any order. *)

Accept ==
    /\ phase = "up" /\ last < MaxSeq
    /\ last' = last + 1 /\ inHand' = inHand \cup {last + 1}
    /\ UNCHANGED <<gone, manifest, roots, bundles, outbox, checkpoint, ready,
                   queue, filling, step, coverage, replay, bounds>>

Enqueue(r) ==
    /\ phase = "up" /\ r \in inHand
    /\ inHand' = inHand \ {r} /\ queue' = Append(queue, r)
    /\ UNCHANGED <<durable, filling, step, coverage, replay, bounds>>

-----------------------------------------------------------------------------
(* The ingest worker. *)

Running == phase \notin {"down", "refused"}
Collecting == Running /\ \A b \in Batches : step["ingest"][b] = "none"

BatchHasRoom == Cardinality(filling) < BatchMax

Collect ==
    /\ Collecting /\ queue # <<>> /\ BatchHasRoom
    /\ filling' = filling \cup {Head(queue)} /\ queue' = Tail(queue)
    /\ UNCHANGED <<durable, inHand, step, coverage, replay, bounds>>

Fault == faults < MaxFaults /\ faults' = faults + 1 /\ UNCHANGED <<config, crashes>>

AfterCommit(collected) == {}

UnusedIds == {b \in Batches : State(b) = "none"}

(* persistBatch up to its first write, the preparing manifest.  Records of a
   batch whose write fails wait, retry_pending, for the next start. *)
CloseBatch ==
    LET b == Min(UnusedIds)
        opened == [manifest EXCEPT ![b] = [state |-> "preparing", recs |-> filling]]
    IN  /\ Collecting /\ filling # {} /\ UnusedIds # {} /\ filling' = AfterCommit(filling)
        /\ \/ /\ manifest' = opened /\ step' = [step EXCEPT !["ingest"][b] = "artifacts"]
              /\ UNCHANGED bounds
           \/ Fault /\ manifest' \in {manifest, opened} /\ UNCHANGED step
        /\ UNCHANGED <<last, gone, roots, bundles, outbox, checkpoint, ready,
                       inHand, queue, coverage, replay>>

(* The owner goes on with b, or is done with it. *)
Continue(o, b, next) ==
    /\ step' = [step EXCEPT ![o][b] = next]
    /\ recovering' = IF next = "none" /\ recovering = b THEN 0 ELSE recovering

WithProofs(b) == bundles \cup {b}

(* writeIndexesAndRoot and writeBatchTree; inline, writeBundlesAndRoot. *)
WriteArtifacts(o, b) ==
    /\ step[o][b] = "artifacts"
    /\ roots' = roots \cup {b}
    /\ bundles' = IF Mode = "inline" THEN WithProofs(b) ELSE bundles
    /\ Continue(o, b, IF Mode = "inline" THEN "publish" ELSE "prepare")
    /\ UNCHANGED <<manifest, outbox, checkpoint, ready, coverage, bounds>>

JobRoom == Cardinality({c \in Batches : step["materialize"][c] = "queued"}) < JobSlots

(* PutManifest over a committed manifest: TiKV refuses it; Pebble overwrites it
   and drops the readiness of its projection and the checkpoint that relied on
   it. *)
PutManifest(b, state) ==
    LET overwrites == State(b) = "committed"
    IN  /\ manifest' = IF overwrites /\ Backend = "tikv" THEN manifest
                       ELSE [manifest EXCEPT ![b].state = state]
        /\ checkpoint' = IF overwrites /\ Backend = "pebble" THEN Zero ELSE checkpoint
        /\ ready' = (ready /\ ~(overwrites /\ Backend = "pebble"))

(* The prepared manifest.  The worker then leaves the batch to the materializer
   (async) or to the first proof request; recovery materializes it itself. *)
PutPrepared(o, b) ==
    /\ step[o][b] = "prepare"
    /\ PutManifest(b, "prepared")
    /\ IF o = "materialize" \/ Mode = "on_demand"
       THEN Continue(o, b, IF Mode = "on_demand" THEN "none" ELSE "bundles")
       ELSE /\ step' = [step EXCEPT ![o][b] = "none",
                                    !["materialize"][b] = IF JobRoom THEN "queued" ELSE "none"]
            /\ UNCHANGED recovering
    /\ UNCHANGED <<roots, bundles, outbox, coverage, bounds>>

-----------------------------------------------------------------------------
(* Materialization: writeMaterializedBundles, publishCommittedBatch,
   advanceCheckpoint and the OnBatchCommitted hook. *)

Retained(recs) == \A r \in recs : gone < r /\ r <= last

(* enqueueMaterialization: a batch with a job in flight is not scheduled. *)
Schedulable(b) == State(b) = "prepared" /\ step["materialize"][b] = "none"

(* schedulePreparedManifests, once startup replay is over. *)
Schedule(b) ==
    /\ phase = "up" /\ Mode = "async" /\ Schedulable(b) /\ JobRoom
    /\ Continue("materialize", b, "queued")
    /\ UNCHANGED <<manifest, roots, bundles, outbox, checkpoint, ready, coverage, bounds>>

(* runMaterializationJob and the records it loads from the WAL. *)
RunJob(b) ==
    /\ step["materialize"][b] = "queued"
    /\ Continue("materialize", b,
                IF State(b) = "prepared" /\ Retained(manifest[b].recs) THEN "bundles" ELSE "none")
    /\ manifest' = IF State(b) = "prepared" /\ ~Retained(manifest[b].recs)
                   THEN [manifest EXCEPT ![b].state = "failed"] ELSE manifest
    /\ UNCHANGED <<roots, bundles, outbox, checkpoint, ready, coverage, bounds>>

(* Proof for a record of b, on demand: a stored bundle is only read, and what is
   not stored is materialized by one caller at a time (materializeGroup). *)
Proof(b) ==
    /\ phase = "up" /\ Mode = "on_demand"
    /\ b \in roots \ bundles /\ step["materialize"][b] = "none"
    /\ State(b) \in {"preparing", "prepared"} /\ Retained(manifest[b].recs)
    /\ Continue("materialize", b, "bundles")
    /\ UNCHANGED <<manifest, roots, bundles, outbox, checkpoint, ready, coverage, bounds>>

WriteBundles(b) ==
    /\ step["materialize"][b] = "bundles"
    /\ bundles' = WithProofs(b) /\ roots' = roots \cup {b}
    /\ Continue("materialize", b, "publish")
    /\ UNCHANGED <<manifest, outbox, checkpoint, ready, coverage, bounds>>

(* PublishCommittedBatch, which needs the projection. *)
Publish(o, b) ==
    /\ step[o][b] = "publish" /\ ready
    /\ manifest' = [manifest EXCEPT ![b].state = "committed"]
    /\ Continue(o, b, "checkpoint")
    /\ UNCHANGED <<roots, bundles, outbox, checkpoint, ready, coverage, bounds>>

(* A write reports an error, done or not, or is refused because the projection
   is not ready.  Recovery aborts startup, the ingest worker and a proof request
   give up, and a materializer job goes on to record the failure. *)
StoreError(o, b) ==
    LET at == step[o][b]
        written == CASE at = "prepare" -> "prepared" [] at = "publish" /\ ready -> "committed"
                     [] OTHER -> State(b)
        job == o = "materialize" /\ recovering # b /\ Mode = "async"
    IN  /\ at \in {"artifacts", "prepare", "bundles", "publish"} /\ State(b) # "committed"
        /\ IF at = "publish" /\ ~ready THEN UNCHANGED bounds ELSE Fault
        /\ Continue(o, b, IF job THEN "report" ELSE "none")
        /\ \E now \in {State(b), written} : manifest' = [manifest EXCEPT ![b].state = now]
        /\ roots' \in {roots, IF at = "artifacts" THEN roots \cup {b} ELSE roots}
        /\ bundles' \in {bundles, IF at = "bundles" THEN bundles \cup {b} ELSE bundles}
        /\ UNCHANGED <<outbox, checkpoint, ready, coverage>>


(* A store error that counts as data loss is permanent, another one is retried,
   and a committed manifest is left alone. *)
FailureStates(now) == IF now = "committed" THEN {now} ELSE {"prepared", "failed"}

(* recordMaterializationFailure. *)
RecordFailure(b) ==
    /\ step["materialize"][b] = "report"
    /\ \E state \in FailureStates(State(b)) : manifest' = [manifest EXCEPT ![b].state = state]
    /\ Continue("materialize", b, "none")
    /\ UNCHANGED <<roots, bundles, outbox, checkpoint, ready, coverage, bounds>>

-----------------------------------------------------------------------------
(* The checkpoint and its callbacks. *)

(* The callback starts, or waits as the latest behind the one that runs. *)
Notify(cp) ==
    IF firing = Zero THEN firing' = cp /\ UNCHANGED pending
    ELSE pending' = cp /\ UNCHANGED firing

(* flushCheckpointLocked after a merge; a failed write is left to the next. *)
FlushCheckpoint(merged, defers) ==
    /\ frontier' = Consume(frontier, merged) /\ runs' = Remaining(frontier, merged)
    /\ IF defers \/ frontier'.seq <= persisted
       THEN UNCHANGED <<checkpoint, persisted, firing, pending, bounds>>
       ELSE \/ /\ ready /\ checkpoint' = frontier' /\ persisted' = frontier'.seq
               /\ Notify(frontier') /\ UNCHANGED bounds
            \/ /\ IF ready THEN Fault ELSE UNCHANGED bounds
               /\ UNCHANGED <<checkpoint, persisted, firing, pending>>
    /\ UNCHANGED ready


(* The exact positions of the batch, not its WALRange. *)
CoverageOf(b) == RunsOf(manifest[b].recs, b)

AdvanceCheckpoint(o, b) ==
    /\ step[o][b] = "checkpoint"
    /\ FlushCheckpoint(MergeRuns(runs, CoverageOf(b)), deferred)
    /\ Continue(o, b, "hook")
    /\ UNCHANGED <<manifest, roots, bundles, outbox, deferred>>

(* The commit hook enqueues the root; an error is only logged. *)
FireHook(o, b) ==
    /\ step[o][b] = "hook" /\ Continue(o, b, "none")
    /\ \/ outbox' = outbox \cup {b} /\ UNCHANGED bounds
       \/ Fault /\ UNCHANGED outbox
    /\ UNCHANGED <<manifest, roots, bundles, checkpoint, ready, coverage>>

(* The segments below this one go. *)
Cutoff(cp) == SegmentOf(cp.seq) - KeepSegments

(* drainCheckpointCallbacks runs the prune hook inside the guard that compares
   the stored checkpoint; the next callback is the latest one. *)
PruneCallback ==
    /\ Running /\ firing # Zero
    /\ gone' = IF ready /\ checkpoint = firing /\ Cutoff(firing) > 1
               THEN Max({gone} \cup {r \in 1 .. last : SegmentOf(r) < Cutoff(firing)})
               ELSE gone
    /\ firing' = pending /\ pending' = Zero
    /\ UNCHANGED <<last, manifest, roots, bundles, outbox, checkpoint, ready,
                   pipeline, runs, frontier, persisted, deferred, replay, bounds>>

-----------------------------------------------------------------------------
(* Crash, and startup: replayWALAccepted, then backfillGlobalLogOutbox. *)

Crash ==
    /\ Running /\ crashes < MaxCrashes
    /\ crashes' = crashes + 1 /\ phase' = "down"
    /\ UNCHANGED <<durable, pipeline, coverage, cursor, todo, run, recovering, config, faults>>

(* Nothing below the checkpoint is looked at, so a manifest that lies there
   entirely is taken for superseded. *)
Unfinished ==
    {b \in Batches : State(b) \in {"preparing", "prepared"}
                     /\ Max(manifest[b].recs) > checkpoint.seq}

(* The boundary record is retained and its index leads to the committed batch
   that the checkpoint names; without a checkpoint the whole WAL is there. *)
BoundaryHolds ==
    IF checkpoint.seq = 0 THEN gone = 0
    ELSE /\ gone < checkpoint.seq
         /\ State(checkpoint.batch) = "committed"
         /\ checkpoint.seq \in manifest[checkpoint.batch].recs

(* Opening the store rebuilds the projection; then replay begins: deferral,
   checkpoint, manifest listing, boundary.  The operator may have changed the
   proof mode. *)
Start ==
    /\ phase = "down"
    /\ inHand' = {} /\ queue' = <<>> /\ filling' = {} /\ step' = Idle
    /\ runs' = <<>> /\ frontier' = checkpoint /\ persisted' = checkpoint.seq
    /\ deferred' = TRUE /\ firing' = Zero /\ pending' = Zero
    /\ cursor' = checkpoint.seq /\ todo' = Unfinished /\ run' = NoRun /\ recovering' = 0
    /\ phase' = IF BoundaryHolds THEN "scan" ELSE "refused"
    /\ ready' = TRUE
    /\ config' \in {c \in Configs : c.backend = Backend}
    /\ UNCHANGED <<last, gone, manifest, roots, bundles, outbox, checkpoint, faults, crashes>>

(* RecordCommittedWALRange for the run found so far; nothing is persisted. *)
ReportRun ==
    LET merged == IF run = NoRun THEN runs ELSE MergeRun(runs, run)
    IN  runs' = Remaining(frontier, merged) /\ frontier' = Consume(frontier, merged)

InUnfinished(r) == \E b \in todo : r \in manifest[b].recs
InFailed(r) == \E b \in Batches : State(b) = "failed" /\ r \in manifest[b].recs
IndexOf(r) == {b \in roots : r \in manifest[b].recs}

scanned == <<durable, inHand, filling, step, persisted, deferred, firing, pending,
             todo, recovering, bounds>>

(* The scan of one record: left to the recovery of its manifest, or skipped when
   its batch has failed; *)
ScanUncommitted(r) ==
    /\ InUnfinished(r) \/ InFailed(r)
    /\ ReportRun /\ run' = NoRun /\ UNCHANGED <<queue, phase>>

(* added to the run of committed records, its batch being committed; *)
ScanCommitted(r) ==
    /\ ~InUnfinished(r) /\ ~InFailed(r) /\ IndexOf(r) # {}
    /\ run' = Run(IF run = NoRun THEN r ELSE run.from, r, Min(IndexOf(r)))
    /\ phase' = IF State(Min(IndexOf(r))) = "committed" THEN phase ELSE "refused"
    /\ UNCHANGED <<queue, runs, frontier>>

(* or batched anew. *)
ScanUnbatched(r) ==
    /\ ~InUnfinished(r) /\ ~InFailed(r) /\ IndexOf(r) = {}
    /\ ReportRun /\ run' = NoRun /\ queue' = Append(queue, r) /\ UNCHANGED phase

ScanRecord ==
    /\ phase = "scan" /\ cursor < last /\ cursor' = cursor + 1
    /\ ScanUncommitted(cursor') \/ ScanCommitted(cursor') \/ ScanUnbatched(cursor')
    /\ UNCHANGED scanned

ScanDone ==
    /\ phase = "scan" /\ cursor = last
    /\ ReportRun /\ run' = NoRun /\ phase' = "recover"
    /\ UNCHANGED <<scanned, queue, cursor>>

(* RecoverManifest, one manifest after the other in the order of their ids;
   every record of it must have been scanned. *)
RecoverManifest ==
    LET b == Min(todo)
    IN  /\ phase = "recover" /\ recovering = 0 /\ todo # {}
        /\ todo' = todo \ {b}
        /\ IF \A r \in manifest[b].recs : checkpoint.seq < r
           THEN /\ recovering' = b /\ UNCHANGED phase
                /\ step' = [step EXCEPT !["materialize"][b] =
                                IF Mode = "inline" THEN "bundles" ELSE "artifacts"]
           ELSE phase' = "refused" /\ UNCHANGED <<recovering, step>>
        /\ UNCHANGED <<durable, inHand, queue, filling, coverage, cursor, run, bounds>>

StartCheckpointAdvance ==
    /\ phase = "recover" /\ recovering = 0 /\ todo = {}
    /\ deferred' = FALSE /\ FlushCheckpoint(runs, FALSE) /\ phase' = "backfill"
    /\ UNCHANGED <<last, gone, manifest, roots, bundles, outbox,
                   pipeline, cursor, todo, run, recovering>>

(* Faulty: the roots are not looked at. *)
BackfillNothing == {}

(* ListRootsAfter lists stored roots; the manifests are not consulted. *)
BackfillRoots == roots

Backfill ==
    /\ phase = "backfill" /\ phase' = "up"
    /\ \/ outbox' = outbox \cup BackfillRoots /\ UNCHANGED bounds
       \/ Fault /\ UNCHANGED outbox
    /\ UNCHANGED <<last, gone, manifest, roots, bundles, checkpoint, ready,
                   pipeline, coverage, cursor, todo, run, recovering>>

-----------------------------------------------------------------------------
(* A step of one batch; an error during recovery takes the process down. *)
OwnerStep(o, b) ==
    \/ WriteArtifacts(o, b) \/ PutPrepared(o, b) \/ Publish(o, b)
    \/ AdvanceCheckpoint(o, b) \/ FireHook(o, b)

MaterializeStep(b) == Schedule(b) \/ RunJob(b) \/ WriteBundles(b) \/ RecordFailure(b)

BatchFrame == UNCHANGED <<last, gone, inHand, queue, filling, cursor, todo, run>>

BatchStep(b) ==
    /\ Running /\ BatchFrame /\ UNCHANGED phase
    /\ MaterializeStep(b) \/ \E o \in Owners : OwnerStep(o, b)

AskProof(b) == Running /\ BatchFrame /\ UNCHANGED phase /\ Proof(b)

BatchError(b) ==
    /\ Running /\ BatchFrame
    /\ \E o \in Owners : StoreError(o, b)
    /\ phase' = IF recovering = b THEN "down" ELSE phase

Startup ==
    Start \/ ScanRecord \/ ScanDone \/ RecoverManifest \/ StartCheckpointAdvance \/ Backfill

(* A step of a goroutine of the service, of startup, or of a client that asks
   for a proof. *)
Goroutine ==
    \/ Collect \/ CloseBatch \/ PruneCallback \/ Startup
    \/ \E r \in Records : Enqueue(r)
    \/ \E b \in Batches : BatchStep(b) \/ AskProof(b)

Next == Goroutine \/ Accept \/ Crash \/ \E b \in Batches : BatchError(b)

Spec == Init /\ [][Next]_vars

-----------------------------------------------------------------------------
(* Records at or below the stored checkpoint are covered by a committed
   manifest, which is what lets startup skip them (cmd/trustdb/serve_cmd.go,
   replayWALAccepted).  Pruning deletes a record only when its batch is
   committed, and an unfinished manifest can still be rebuilt from the WAL
   (loadManifestItemsFromWAL). *)
CheckpointSound ==
    /\ 1 .. checkpoint.seq \subseteq CommittedRecords
    /\ 1 .. gone \subseteq CommittedRecords
    /\ \A b \in Batches : State(b) \in {"preparing", "prepared"} => Retained(manifest[b].recs)

(* Startup never rejects a state the service itself left behind, whichever write
   failed and wherever it crashed (the data-loss errors of replayWALAccepted). *)
NeverRefused == phase # "refused"

(* No record is in the manifests of two batches, though a crash returns records
   to the queue and manifests to recovery. *)
InOneBatch ==
    \A b, c \in Batches : b # c => manifest[b].recs \cap manifest[c].recs = {}


(* Where proofs are made without being asked for and the store does not fail,
   what is to become of the records in the WAL: each is in a committed batch, and
   the root of every committed batch in the outbox. *)
AllPublished ==
    faults = 0 /\ Mode # "on_demand" =>
        /\ 1 .. last \subseteq CommittedRecords
        /\ \A b \in Batches : State(b) = "committed" => b \in outbox

=============================================================================
