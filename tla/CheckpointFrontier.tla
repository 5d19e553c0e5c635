------------------------- MODULE CheckpointFrontier -------------------------
(***************************************************************************)
(* The contiguous WAL checkpoint of the batch service                      *)
(* (internal/batch/service.go): batches commit in any order, each covers   *)
(* the sequences of its records, and the checkpoint may only move over     *)
(* sequences that are all covered.  The checkpoint is persisted with every *)
(* advance unless startup replay defers it or the write fails.             *)
(***************************************************************************)
EXTENDS CoverageRuns

VARIABLES
    batchOf,    \* the committed batch of each sequence, 0 if none
    runs,       \* checkpointCoverage
    frontier,   \* checkpointFrontier
    persisted,  \* the stored checkpoint
    deferred    \* checkpointDeferred

frontierVars == <<batchOf, runs, frontier, persisted, deferred>>

Zero == [seq |-> 0, batch |-> 0]

FrontierInit ==
    /\ batchOf = [s \in Sequences1 |-> 0]
    /\ runs = <<>> /\ frontier = Zero /\ persisted = Zero /\ deferred \in BOOLEAN

(* flushCheckpointLocked; a failed write is retried by the next flush. *)
Flush(merged, defers) ==
    /\ frontier' = Consume(frontier, merged)
    /\ runs' = Remaining(frontier, merged)
    /\ \/ ~defers /\ frontier'.seq > persisted.seq /\ persisted' = frontier'
       \/ persisted' = persisted

(* A batch commits a set of records and reports it (advanceCheckpoint). *)
CommitBatch(seqs) ==
    LET batch == 1 + Max({batchOf[s] : s \in Sequences1})
    IN  /\ seqs # {} /\ \A s \in seqs : batchOf[s] = 0
        /\ batchOf' = [s \in Sequences1 |-> IF s \in seqs THEN batch ELSE batchOf[s]]
        /\ Flush(MergeRuns(runs, RunsOf(seqs, batch)), deferred)
        /\ UNCHANGED deferred

StartCheckpointAdvance ==
    /\ deferred /\ deferred' = FALSE
    /\ Flush(runs, FALSE)
    /\ UNCHANGED batchOf

(* A restart loads the checkpoint and replay reports what it finds committed
   past it, run by run (RecordCommittedWALRange). *)
ReloadCheckpoint ==
    LET covered == {s \in Sequences1 : s > persisted.seq /\ batchOf[s] # 0}
        found == {Run(r.from, r.to, batchOf[r.to]) : r \in RunsOf(covered, 0)}
        replayed == Absorb(persisted, found)
    IN  /\ deferred' = TRUE
        /\ frontier' = replayed.frontier /\ runs' = replayed.runs
        /\ UNCHANGED <<batchOf, persisted>>

FrontierNext ==
    \/ \E seqs \in SUBSET Sequences1 : CommitBatch(seqs)
    \/ StartCheckpointAdvance \/ ReloadCheckpoint

FrontierSpec == FrontierInit /\ [][FrontierNext]_frontierVars

-----------------------------------------------------------------------------
Covered == {s \in Sequences1 : batchOf[s] # 0}

(* The end of the committed prefix. *)
Prefix == Max({n \in 0 .. MaxSeq : 1 .. n \subseteq Covered})

(* Committed sequences past the frontier that no run remembers any more. *)
Forgotten ==
    Covered \ (1 .. frontier.seq \cup UNION {runs[i].from .. runs[i].to : i \in 1 .. Len(runs)})

(* When the bound on runs is hit, only coverage beyond every run that stays is
   given up: what the frontier needs next is never traded for something later. *)
ForgetsTheFarthest ==
    [][\A s \in Forgotten' \ Forgotten : \A i \in 1 .. Len(runs') : runs'[i].to < s]_frontierVars

(* Neither the frontier nor the stored checkpoint passes a sequence that no
   committed batch covers, whatever order batches commit in; as long as
   nothing was given up the frontier is the whole committed prefix: coverage
   that waits behind a gap is used as soon as the gap closes; and each names
   the batch that holds its boundary record, which startup compares with the
   record's proof (validateTrustedCheckpointBoundaryRecord). *)
FrontierIsThePrefix ==
    /\ persisted.seq <= frontier.seq /\ frontier.seq <= Prefix
    /\ Forgotten = {} => frontier.seq = Prefix
    /\ \A c \in {frontier, persisted} : c.seq > 0 => c.batch = batchOf[c.seq]
=============================================================================
