---------------------------- MODULE CoverageRuns ----------------------------
(***************************************************************************)
(* The coverage runs of the batch service's WAL checkpoint                 *)
(* (internal/batch/service.go): which WAL sequences committed batches      *)
(* cover, as maximal runs in ascending order, and how they move the        *)
(* contiguous frontier.  A run ends at a position that belongs to a batch; *)
(* segment and offset of a position are functions of its sequence.         *)
(***************************************************************************)
EXTENDS Integers, Sequences, FiniteSets, FiniteSetsExt

CONSTANTS MaxSeq,    \* the largest sequence number, ^uint64(0) in the code
          MaxRuns    \* maxCheckpointCoverageRuns

ASSUME RunAssumption == MaxSeq \in Nat \ {0} /\ MaxRuns \in Nat \ {0}

Sequences1 == 1 .. MaxSeq

(* walCoverageRun *)
Run(from, to, batch) == [from |-> from, to |-> to, batch |-> batch]

(* sequencesTouch *)
Touch(leftEnd, rightStart) ==
    \/ leftEnd >= rightStart
    \/ leftEnd # MaxSeq /\ leftEnd + 1 >= rightStart

(* walCoverageRuns: the maximal runs of a batch's positions. *)
RunsOf(seqs, batch) ==
    {r \in [from : seqs, to : seqs, batch : {batch}] :
        /\ r.from .. r.to \subseteq seqs /\ r.from <= r.to
        /\ r.from - 1 \notin seqs /\ r.to + 1 \notin seqs}

(* The batch of the merged run's last position. *)
Owner(run, last) == IF last.to > run.to THEN last.batch ELSE run.batch

(* Faulty: the nearest run makes room instead of the farthest. *)
KeepFarthest(runs) ==
    IF Len(runs) <= MaxRuns THEN runs ELSE SubSeq(runs, Len(runs) - MaxRuns + 1, Len(runs))

KeepNearest(runs) == SubSeq(runs, 1, IF Len(runs) < MaxRuns THEN Len(runs) ELSE MaxRuns)

(* mergeCheckpointCoverageLocked *)
MergeRun(runs, run) ==
    LET first   == 1 + Cardinality({i \in 1 .. Len(runs) : ~Touch(runs[i].to, run.from)})
        touched == {i \in first .. Len(runs) : Touch(run.to, runs[i].from)}
        last    == first + Cardinality(touched)
        from    == Min({run.from} \cup {runs[i].from : i \in touched})
        merged  == IF touched = {} THEN run
                   ELSE Run(from, Max({run.to, runs[last - 1].to}), Owner(run, runs[last - 1]))
    IN  KeepNearest(SubSeq(runs, 1, first - 1) \o <<merged>> \o SubSeq(runs, last, Len(runs)))

(* The loop of addCheckpointCoverage over the runs of one batch. *)
MergeRuns(runs, new) ==
    LET merge[todo \in SUBSET new] ==
          IF todo = {} THEN runs
          ELSE LET run == CHOOSE r \in todo : \A s \in todo : s.to <= r.to
               IN  MergeRun(merge[todo \ {run}], run)
    IN  merge[new]

(* Faulty: a run that starts past a gap still moves the frontier. *)
BeyondFrontierNever(run, frontier) == FALSE

BeyondFrontier(run, frontier) == frontier.seq = MaxSeq \/ run.from > frontier.seq + 1

(* consumeCheckpointCoverageLocked: the frontier after the first n runs. *)
FrontierAfter(frontier, runs) ==
    LET after[n \in 0 .. Len(runs)] ==
          IF n = 0 THEN frontier
          ELSE LET f == after[n - 1]
                   r == runs[n]
               IN  IF r.to <= f.seq \/ BeyondFrontier(r, f) THEN f
                   ELSE [seq |-> r.to, batch |-> r.batch]
    IN  after

Consume(frontier, runs) == FrontierAfter(frontier, runs)[Len(runs)]

(* The runs that stay: the first one past the frontier and all after it. *)
Remaining(frontier, runs) ==
    SelectSeq(runs, LAMBDA r : r.to > Consume(frontier, runs).seq)

(* Runs that replay finds are absorbed one by one, in ascending order, each by a
   merge and a flush that persists nothing. *)
Absorb(start, found) ==
    LET absorbed[todo \in SUBSET found] ==
          IF todo = {} THEN [frontier |-> start, runs |-> <<>>]
          ELSE LET run == CHOOSE r \in todo : \A s \in todo : s.to <= r.to
                   was == absorbed[todo \ {run}]
                   merged == MergeRun(was.runs, run)
               IN  [frontier |-> Consume(was.frontier, merged),
                    runs |-> Remaining(was.frontier, merged)]
    IN  absorbed[found]
=============================================================================
