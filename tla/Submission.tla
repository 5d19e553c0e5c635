----------------------------- MODULE Submission -----------------------------
(***************************************************************************)
(* From a client's submit call to the batch queue: the bounded ingest      *)
(* queue and its workers (internal/ingest/service.go), the idempotency     *)
(* index with its per-key locks and its bounded cache of committed         *)
(* decisions (internal/app/idempotency.go, local.go), the hand-over to the *)
(* batch service (internal/submission/service.go) and the part of startup  *)
(* replay that rebuilds the index (cmd/trustdb/serve_cmd.go).              *)
(*                                                                         *)
(* A request carries a key and a claim.  A key in Keyed is an explicit     *)
(* idempotency key; any other key stands for the record ID that is derived *)
(* from an unkeyed claim.  A record is the index of its WAL entry.         *)
(***************************************************************************)
EXTENDS Integers, Sequences, FiniteSets

CONSTANTS
    Requests, Keys, Keyed, Claims,
    Scenarios,             \* what the requests ask, one of these
    QueueSize, Workers,    \* ingest.Options
    Slots,                 \* capacity of the cache of committed decisions
    HasReader,             \* the proofstore answers GetIdempotencyDecision
    MaxRestarts            \* bound: process restarts

ASSUME RequestAssumption ==
    /\ Keyed \subseteq Keys
    /\ Scenarios \subseteq [Requests -> [key : Keys, claim : Claims]]
    /\ \A a \in Scenarios : \A r, s \in Requests :
          a[r].key = a[s].key /\ a[r].key \notin Keyed => a[r].claim = a[s].claim
ASSUME SizeAssumption ==
    /\ QueueSize \in Nat \ {0} /\ Workers \in Nat \ {0} /\ Slots \in Nat \ {0}
    /\ HasReader \in BOOLEAN /\ MaxRestarts \in Nat

VARIABLES
    asked,      \* the key and the claim of each request
    caller,     \* each submit call: where it is and what it returned
    job,        \* the ingest job of each call
    queue,      \* the ingest queue
    held,       \* keys whose lock is taken
    entries,    \* the idempotency index
    slots, nextSlot, epoch,   \* the FIFO of committed entries
    wal,        \* accepted records, in WAL order
    poisoned,   \* a failed write or sync closed the WAL to appends
    pipeline,   \* records the batch service holds
    committed,  \* records whose manifest and decision are published
    forget,     \* committed records the batch service has yet to report
    phase,      \* "up", "stopping", "replay" or "refused"
    cursor,     \* last WAL entry replay has visited
    skip,       \* the WAL checkpoint: entries up to here are not replayed
    restarts

index == <<entries, slots, nextSlot, epoch>>
batch == <<pipeline, committed, forget>>
startup == <<asked, phase, cursor, skip, restarts>>
vars == <<caller, job, queue, held, index, wal, poisoned, batch, startup>>

KeyOf(r) == asked[r].key
ClaimOf(r) == asked[r].claim

NoAnswer == [result |-> "none", rec |-> 0]
NoEntry == [rec |-> 0, durable |-> FALSE, epoch |-> 0]
NoSlot == [key |-> CHOOSE k \in Keys : TRUE, epoch |-> 0]

Init ==
    /\ asked \in Scenarios
    /\ caller = [r \in Requests |-> [at |-> "new", answer |-> NoAnswer]]
    /\ job = [r \in Requests |-> [at |-> "none", answer |-> NoAnswer]]
    /\ queue = <<>> /\ held = {} /\ poisoned = FALSE
    /\ entries = [k \in Keys |-> NoEntry]
    /\ slots = [i \in 0 .. Slots - 1 |-> NoSlot] /\ nextSlot = 0 /\ epoch = 0
    /\ pipeline = {} /\ forget = {}
    /\ wal = <<>> /\ committed = {}
    /\ phase = "up" /\ cursor = 0 /\ skip = 0 /\ restarts = 0

-----------------------------------------------------------------------------
(* The idempotency index. *)

Known(k) == entries[k].rec # 0

(* put *)
Put(k, i) ==
    /\ entries' = [entries EXCEPT ![k] = [rec |-> i, durable |-> FALSE, epoch |-> 0]]
    /\ UNCHANGED <<slots, nextSlot, epoch>>

(* The entry a slot still stands for: not one that was replaced since. *)
Evicts(slot) == slot.epoch # 0 /\ entries[slot.key].durable /\ entries[slot.key].epoch = slot.epoch

(* putDurableLocked: the oldest committed entry makes room. *)
PutDurable(k, i) ==
    LET old == slots[nextSlot]
    IN  /\ epoch' = epoch + 1
        /\ entries' = [[entries EXCEPT ![old.key] = IF Evicts(old) THEN NoEntry ELSE @]
                         EXCEPT ![k] = [rec |-> i, durable |-> TRUE, epoch |-> epoch + 1]]
        /\ slots' = [slots EXCEPT ![nextSlot] = [key |-> k, epoch |-> epoch + 1]]
        /\ nextSlot' = (nextSlot + 1) % Slots

Readable(k) == k \in Keyed => HasReader

(* The committed record a durable read of the key finds. *)
Durable(k) == {i \in committed : wal[i].key = k}

-----------------------------------------------------------------------------
(* Calls and jobs. *)

Running == {r \in Requests : job[r].at \notin {"none", "queued", "finished"}}

QueueHasRoom == Len(queue) < QueueSize

(* ingest.Service.Submit up to the wait for the result. *)
Submit(r) ==
    /\ caller[r].at = "new" /\ phase \in {"up", "stopping"}
    /\ \/ /\ phase = "up" /\ QueueHasRoom
          /\ queue' = Append(queue, r)
          /\ job' = [job EXCEPT ![r].at = "queued"]
          /\ caller' = [caller EXCEPT ![r].at = "waiting"]
       \/ /\ phase = "stopping" \/ ~QueueHasRoom
          /\ caller' = [caller EXCEPT ![r] = [at |-> "done", answer |-> [result |-> "error", rec |-> 0]]]
          /\ UNCHANGED <<queue, job>>
    /\ UNCHANGED <<held, index, wal, poisoned, batch, startup>>

(* The request's context ends while the call waits for its job. *)
CancelWait(r) ==
    /\ caller[r].at = "waiting"
    /\ caller' = [caller EXCEPT ![r] = [at |-> "done", answer |-> [result |-> "error", rec |-> 0]]]
    /\ UNCHANGED <<job, queue, held, index, wal, poisoned, batch, startup>>

(* A worker takes the job; validation may refuse the claim. *)
TakeJob ==
    /\ queue # <<>> /\ Cardinality(Running) < Workers
    /\ queue' = Tail(queue)
    /\ \/ job' = [job EXCEPT ![Head(queue)].at = "acquire"]
       \/ job' = [job EXCEPT ![Head(queue)] = [at |-> "finished",
                                               answer |-> [result |-> "error", rec |-> 0]]]
    /\ UNCHANGED <<caller, held, index, wal, poisoned, batch, startup>>

(* Faulty: the key is never held. *)
KeyFreeAlways(k) == TRUE

KeyFree(k) == k \notin held

AcquireKey(r) ==
    /\ job[r].at = "acquire" /\ KeyFree(KeyOf(r))
    /\ held' = held \cup {KeyOf(r)}
    /\ job' = [job EXCEPT ![r].at = "lookup"]
    /\ UNCHANGED <<caller, queue, index, wal, poisoned, batch, startup>>


Finish(r, result, i) ==
    /\ job' = [job EXCEPT ![r] = [at |-> "finished", answer |-> [result |-> result, rec |-> i]]]
    /\ held' = held \ {KeyOf(r)}

(* The answer for a key that stands for record i. *)
Loaded(r, i) ==
    IF wal[i].claim = ClaimOf(r) THEN Finish(r, "loaded", i) ELSE Finish(r, "conflict", 0)

Lookup(r) ==
    /\ job[r].at = "lookup"
    /\ IF Known(KeyOf(r)) THEN Loaded(r, entries[KeyOf(r)].rec)
       ELSE /\ job' = [job EXCEPT ![r].at = IF Readable(KeyOf(r)) THEN "read" ELSE "append"]
            /\ UNCHANGED held
    /\ UNCHANGED <<caller, queue, index, wal, poisoned, batch, startup>>

ReadDurable(r) ==
    /\ job[r].at = "read"
    /\ \/ Finish(r, "error", 0) /\ UNCHANGED index
       \/ \E i \in Durable(KeyOf(r)) : Loaded(r, i) /\ PutDurable(KeyOf(r), i)
       \/ /\ Durable(KeyOf(r)) = {}
          /\ job' = [job EXCEPT ![r].at = "append"]
          /\ UNCHANGED <<held, index>>
    /\ UNCHANGED <<caller, queue, wal, poisoned, batch, startup>>

(* AppendPreparedAt fails without a record, or with one that a failed sync
   left in the log, or succeeds.  A context that has ended stops it, up to the
   last look at the context before the write. *)
AppendWal(r) ==
    LET record == asked[r]
    IN  /\ job[r].at = "append"
        /\ \/ /\ ~poisoned /\ caller[r].at = "waiting"
              /\ wal' = Append(wal, record)
              /\ job' = [job EXCEPT ![r] = [at |-> "remember",
                                            answer |-> [result |-> "new", rec |-> Len(wal) + 1]]]
              /\ UNCHANGED <<held, poisoned>>
           \/ /\ ~poisoned /\ caller[r].at = "waiting"
              /\ poisoned' = TRUE
              /\ wal' \in {wal, Append(wal, record)}
              /\ Finish(r, "error", 0)
           \/ Finish(r, "error", 0) /\ UNCHANGED <<wal, poisoned>>
        /\ UNCHANGED <<caller, queue, index, batch, startup>>

Remember(r) ==
    /\ job[r].at = "remember"
    /\ Put(KeyOf(r), job[r].answer.rec)
    /\ Finish(r, "new", job[r].answer.rec)
    /\ UNCHANGED <<caller, queue, wal, poisoned, batch, startup>>

(* submission.Service.Submit: a new record goes on to the batch service. *)
Receive(r) ==
    LET answer == job[r].answer
    IN  /\ caller[r].at = "waiting" /\ job[r].at = "finished"
        /\ caller' = [caller EXCEPT ![r] = [at |-> IF answer.result = "new" THEN "enqueue" ELSE "done",
                                            answer |-> answer]]
        /\ UNCHANGED <<job, queue, held, index, wal, poisoned, batch, startup>>

EnqueueGivesUp == phase = "stopping"

(* batch.Service.enqueue waits without the request's cancellation and only
   gives up during shutdown. *)
Enqueue(r) ==
    /\ caller[r].at = "enqueue"
    /\ caller' = [caller EXCEPT ![r].at = "done"]
    /\ \/ pipeline' = pipeline \cup {caller[r].answer.rec}
       \/ EnqueueGivesUp /\ UNCHANGED pipeline
    /\ UNCHANGED <<job, queue, held, index, wal, poisoned, committed, forget, startup>>

-----------------------------------------------------------------------------
(* The batch service publishes a record with its decision, then reports it. *)

PublishCommitted(i) ==
    /\ i \in pipeline /\ phase # "refused"
    /\ pipeline' = pipeline \ {i}
    /\ committed' = committed \cup {i}
    /\ forget' = forget \cup {i}
    /\ UNCHANGED <<caller, job, queue, held, index, wal, poisoned, startup>>

(* ForgetCommitted *)
ForgetsEntry(i) == entries[wal[i].key].rec = i /\ ~entries[wal[i].key].durable

MarkCommitted(i) ==
    /\ i \in forget /\ phase # "refused"
    /\ KeyFree(wal[i].key)
    /\ forget' = forget \ {i}
    /\ IF Readable(wal[i].key) /\ ForgetsEntry(i) THEN PutDurable(wal[i].key, i) ELSE UNCHANGED index
    /\ UNCHANGED <<caller, job, queue, held, wal, poisoned, pipeline, committed, startup>>

-----------------------------------------------------------------------------
(* Shutdown, crash and startup replay. *)

Shutdown ==
    /\ phase = "up" /\ restarts < MaxRestarts
    /\ phase' = "stopping"
    /\ UNCHANGED <<caller, job, queue, held, index, wal, poisoned, batch, asked, cursor, skip, restarts>>

(* The process ends, by a crash or after a shutdown, and starts again.  The
   checkpoint covers a prefix of committed records; a store without the
   durable decisions keeps none. *)
Restart ==
    /\ phase \in {"up", "stopping", "replay"} /\ restarts < MaxRestarts
    /\ restarts' = restarts + 1
    /\ caller' = [r \in Requests |-> IF caller[r].at \in {"waiting", "enqueue"}
                    THEN [at |-> "done", answer |-> [result |-> "error", rec |-> 0]] ELSE caller[r]]
    /\ job' = [r \in Requests |-> [at |-> "none", answer |-> NoAnswer]]
    /\ queue' = <<>> /\ held' = {} /\ poisoned' = FALSE
    /\ entries' = [k \in Keys |-> NoEntry]
    /\ slots' = [i \in 0 .. Slots - 1 |-> NoSlot] /\ nextSlot' = 0 /\ epoch' = 0
    /\ pipeline' = {} /\ forget' = {}
    /\ skip' \in {i \in skip .. Len(wal) : i > skip => HasReader /\ 1 .. i \subseteq committed}
    /\ cursor' = skip' /\ phase' = "replay"
    /\ UNCHANGED <<asked, wal, committed>>

(* Restore refuses a second record for a key it already holds. *)
RestoreConflict(i) ==
    \/ Known(wal[i].key)
    \/ wal[i].key \notin Keyed /\ \E j \in skip + 1 .. i - 1 : wal[j].key = wal[i].key

ReplayForgets(i) == i \in committed

ReplayRecord ==
    LET i == cursor + 1
    IN  /\ phase = "replay" /\ cursor < Len(wal)
        /\ cursor' = i
        /\ IF RestoreConflict(i)
           THEN phase' = "refused" /\ UNCHANGED <<index, pipeline>>
           ELSE /\ IF ReplayForgets(i) THEN PutDurable(wal[i].key, i) ELSE Put(wal[i].key, i)
                /\ pipeline' = IF i \in committed THEN pipeline ELSE pipeline \cup {i}
                /\ UNCHANGED phase
        /\ UNCHANGED <<asked, caller, job, queue, held, wal, poisoned, committed, forget, skip, restarts>>

ReplayDone ==
    /\ phase = "replay" /\ cursor = Len(wal)
    /\ phase' = "up"
    /\ UNCHANGED <<caller, job, queue, held, index, wal, poisoned, batch, asked, cursor, skip, restarts>>

JobStep(r) == AcquireKey(r) \/ Lookup(r) \/ ReadDurable(r) \/ AppendWal(r) \/ Remember(r)
CallStep(r) == Receive(r) \/ Enqueue(r)
Startup == ReplayRecord \/ ReplayDone

Next ==
    \/ \E r \in Requests : Submit(r) \/ CancelWait(r) \/ JobStep(r) \/ CallStep(r)
    \/ TakeJob
    \/ \E i \in 1 .. Len(wal) : PublishCommitted(i) \/ MarkCommitted(i)
    \/ Shutdown \/ Restart \/ Startup

Spec == Init /\ [][Next]_vars

(* Workers, callers, the batch service and startup keep running.  A job step
   always returns: the WAL and the proofstore answer, if only with an error. *)
Fairness ==
    /\ \A r \in Requests : WF_vars(JobStep(r)) /\ WF_vars(CallStep(r))
    /\ WF_vars(TakeJob) /\ WF_vars(Startup)
    /\ WF_vars(\E i \in 1 .. Len(wal) : PublishCommitted(i) \/ MarkCommitted(i))

-----------------------------------------------------------------------------
(* Properties. *)

Serving == phase \in {"up", "stopping"}

(* A key never has two WAL records, across concurrent submissions, failed
   appends, evictions from the bounded cache and restarts: "Exact retries must
   converge to the same accepted response before another WAL append"
   (idempotency.go). *)
OneRecordPerKey ==
    \A i, j \in 1 .. Len(wal) : wal[i].key = wal[j].key => i = j

(* A caller that is told its claim was accepted gets a record of that very
   claim, and one that is told of a conflict is so because its key belongs to
   another claim. *)
AnswersAreTrue ==
    \A r \in Requests :
       LET a == caller[r].answer
       IN  /\ a.result \in {"new", "loaded"} => wal[a.rec] = asked[r]
           /\ a.result = "conflict" =>
                 \E i \in 1 .. Len(wal) : wal[i].key = KeyOf(r) /\ wal[i].claim # ClaimOf(r)

(* While the server answers requests, every WAL record can be found under its
   key: in the index, or by a durable read once it is committed.  Only the job
   that is about to store it, or a log closed to appends, may be in between. *)
EveryRecordIsFound ==
    Serving =>
       \A i \in 1 .. Len(wal) :
          \/ entries[wal[i].key].rec = i
          \/ i \in committed /\ Readable(wal[i].key)
          \/ \E r \in Requests : job[r].at = "remember" /\ job[r].answer.rec = i
          \/ poisoned

(* "Once L2 acceptance succeeds, transport request cancellation must not strand
   the accepted WAL record before batch enqueue" (submission/service.go): while
   the server is up, an accepted record is in the batch pipeline, is committed,
   or is still being carried there by the call that submitted it. *)
NotStranded ==
    phase = "up" /\ ~poisoned =>
       \A i \in 1 .. Len(wal) :
          \/ i \in pipeline \cup committed
          \/ \E r \in Requests :
                \/ job[r].at = "remember" /\ job[r].answer.rec = i
                \/ caller[r].at = "waiting" /\ job[r].at = "finished" /\ job[r].answer.rec = i
                \/ caller[r].at = "enqueue" /\ caller[r].answer.rec = i


(* The submission index, through concurrency, faults, eviction and restarts. *)
SubmissionSound == OneRecordPerKey /\ AnswersAreTrue /\ EveryRecordIsFound
=============================================================================
