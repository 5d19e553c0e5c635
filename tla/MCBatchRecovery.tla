--------------------------- MODULE MCBatchRecovery ---------------------------
(* BatchRecovery for TLC.  limits says how many records, store errors and
   crashes a behaviour has at most, and whether its goroutines are scheduled
   fairly: safety is checked with three records, liveness with fewer. *)
EXTENDS BatchRecovery

CONSTANT Limits

VARIABLE limits

Config(mode, backend) == [mode |-> mode, backend |-> backend]

(* On-demand proofs on a store that keeps committed manifests, and the other
   modes, between which a restart may switch. *)
Supported ==
    {Config("inline", "pebble"), Config("async", "pebble"), Config("on_demand", "tikv")}

Limit(records, errors, stops, fair) ==
    [records |-> records, errors |-> errors, stops |-> stops, fair |-> fair]

Some == {Limit(3, 1, 1, FALSE), Limit(2, 0, 2, TRUE), Limit(3, 0, 0, TRUE)}

Within == last' <= limits.records /\ faults' <= limits.errors /\ crashes' <= limits.stops

(* Fairness: the process does not stop as long as a goroutine of it can go on.
   The work of each is finite, so nothing has to be assumed of them one by one,
   and nothing is promised about new submissions, crashes or store errors. *)
LimitedInit == Init /\ limits \in Limits

LimitedNext == Next /\ Within /\ UNCHANGED limits

LimitedSpec ==
    LimitedInit /\ [][LimitedNext]_<<vars, limits>> /\ WF_vars(limits.fair /\ Goroutine)

(* Where proofs are made without being asked for, and unless the store fails,
   every record in the WAL is eventually in a committed batch, across crashes
   and changes of the mode, and the root of every committed batch in the
   outbox, also when the crash came between the commit and the hook (the
   recovery and the backfill of serve_cmd.go). *)
EveryRecordPublished == []<>(limits.fair => AllPublished)
=============================================================================
