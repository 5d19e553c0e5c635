---------------------------- MODULE AnchorWorker ----------------------------
(***************************************************************************)
(* The anchor service (internal/anchor/service.go) publishing the targets  *)
(* of one schedule key through the anchor operations of the file proof     *)
(* store (internal/proofstore/local.go).  Every store operation holds the  *)
(* schedule lock of the key, so it is one action; CompleteSTHAnchorAttempt *)
(* makes several durable writes under that lock, and a crash or an I/O     *)
(* error may stop it after any of them (StopAfterReference,                *)
(* StopAfterResult).  The Pebble store commits them in one batch, which is *)
(* the case where neither of those two actions happens.                    *)
(*                                                                         *)
(* Several workers serve the key: the processes of a restart or failover   *)
(* that overlap.  They share one clock.  Punctual says whether a worker    *)
(* meets the time limits of its calls; without it a worker may be          *)
(* suspended for any length of time in the middle of a tick.               *)
(***************************************************************************)
EXTENDS AnchorSchedule, FiniteSets

CONSTANTS
    Workers,          \* anchor workers that may overlap
    MaxTree,          \* bound: largest tree size of the global log
    AnchorMaxDelay,   \* width of the coalescing window
    MaxLag,           \* bound: age of a tree head when the outbox publishes it
    PerCallTimeout,   \* limit of one sink call and of one completion write
    LeaseMargin,      \* minimumLeaseMargin
    ClaimLatency,     \* time from reading the clock to the end of the claim
    InitialBackoff, MaxBackoff,
    MaxAttempts,      \* terminal failure after this many attempts, 0: never
    AnchorIDs,        \* the identifiers a sink may give to a publication
    MaxProvider,      \* bound: provider checkpoints of one attempt
    MaxClock,         \* bound: time
    LastUpsert,       \* bound: time of the last candidate
    MaxFaults,        \* bound: crashes, store errors and restores
    Punctual,         \* workers meet the time limits of their calls
    Polling           \* idle workers poll at least once per unit of time

ASSUME TreeAssumption == MaxTree \in Nat
ASSUME DelayAssumption == AnchorMaxDelay \in Nat /\ MaxLag \in Nat
ASSUME TimeoutAssumption ==
    /\ PerCallTimeout \in Nat /\ PerCallTimeout > 0
    /\ LeaseMargin \in Nat /\ ClaimLatency \in Nat /\ ClaimLatency < LeaseMargin
ASSUME BackoffAssumption ==
    /\ InitialBackoff \in Nat /\ InitialBackoff > 0
    /\ MaxBackoff \in Nat /\ MaxBackoff > 0
    /\ MaxAttempts \in Nat
ASSUME AnchorIDAssumption == AnchorIDs \subseteq Nat \ {0}
ASSUME BoundAssumption ==
    /\ MaxProvider \in Nat /\ MaxClock \in Nat /\ LastUpsert \in Nat /\ MaxFaults \in Nat
    /\ Punctual \in BOOLEAN /\ Polling \in BOOLEAN

VARIABLES
    clock,       \* the time every worker reads
    schedule,    \* the durable schedule of the key
    results,     \* the durable results: tree size -> anchor identifier, 0 if none
    latestRef,   \* the durable latest-result reference of the key
    worker,      \* what each worker is doing
    tokens,      \* lease tokens generated so far
    observed,    \* tree sizes the outbox has published to the schedule
    faults

vars == <<clock, schedule, results, latestRef, worker, tokens, observed, faults>>

Sizes == 1 .. MaxTree

Phases == {"idle", "claiming", "publishing", "persisting"}
Outcomes == {"none", "published", "invalid", "permanent", "transient"}

(* The reference file also names the previous result; no reader's answer
   depends on it. *)
NoReference == [kind |-> "absent", candidate |-> 0]
EmptyReference == [kind |-> "empty", candidate |-> 0]
References == [kind : {"absent", "empty", "result"}, candidate : Nat]

Idle == [phase |-> "idle", readAt |-> 0, since |-> 0, attempt |-> NoAttempt,
         outcome |-> "none", anchor |-> 0]

WorkerStates == [phase : Phases, readAt : Nat, since : Nat, attempt : Attempts,
                 outcome : Outcomes, anchor : Nat]

TypeOK ==
    /\ clock \in Nat
    /\ schedule \in Schedules
    /\ results \in [Sizes -> Nat]
    /\ latestRef \in References
    /\ worker \in [Workers -> WorkerStates]
    /\ tokens \in Nat
    /\ observed \subseteq Sizes
    /\ faults \in Nat

Init ==
    /\ clock = 1
    /\ schedule = NoSchedule
    /\ results = [n \in Sizes |-> 0]
    /\ latestRef = NoReference
    /\ worker = [w \in Workers |-> Idle]
    /\ tokens = 0
    /\ observed = {}
    /\ faults = 0

-----------------------------------------------------------------------------
(* The latest result and its reference. *)

Stored(n) == n \in Sizes /\ results[n] # 0

StoredSizes == {n \in Sizes : results[n] # 0}

(* The scan of the result directory, newest first; 0 when it is empty. *)
ScanLatest == IF StoredSizes = {} THEN 0
              ELSE CHOOSE n \in StoredSizes : \A m \in StoredSizes : m <= n

ReferenceComplete == latestRef.kind = "result" /\ Stored(latestRef.candidate)

(* latestSTHAnchorResultLocked: the reference answers if it is the empty mark
   or its candidate is stored; otherwise the directory is scanned and the
   reference rewritten. *)
LatestResult ==
    IF latestRef.kind = "empty" THEN 0
    ELSE IF ReferenceComplete THEN latestRef.candidate
    ELSE ScanLatest

ReferenceAfterRead ==
    IF latestRef.kind = "empty" \/ ReferenceComplete THEN latestRef
    ELSE IF ScanLatest = 0 THEN EmptyReference
    ELSE [kind |-> "result", candidate |-> ScanLatest]

(* prepareLatestSTHAnchorReferencesLocked, before the result is written. *)
ReferenceForResult(n) ==
    IF LatestResult >= n THEN ReferenceAfterRead
    ELSE [kind |-> "result", candidate |-> n]

(* reconcileStoredSTHAnchorResultsLocked: first the exact result of the
   in-flight target, then the latest result against the pending window. *)
ReconciledInFlight(s) ==
    IF HasInFlight(s) /\ Stored(s.inFlight.target)
    THEN ReconcileCompleted(s, s.inFlight.target) ELSE s

ReconcileStoredResults(s) ==
    LET r == ReconciledInFlight(s)
    IN  IF HasPending(r) /\ LatestResult > 0 THEN ReconcileCompleted(r, LatestResult) ELSE r

-----------------------------------------------------------------------------
(* The outbox publishes the head of size n, signed lag before now, as a
   candidate: mergeSTHAnchorCandidateLocked and the schedule write. *)

MergeLatest(n) == IF Stored(n) /\ n > LatestResult THEN n ELSE LatestResult

UpsertCandidate(n, lag) ==
    /\ clock > lag /\ clock <= LastUpsert
    /\ schedule' = MergeCandidate(schedule,
                       [target |-> n, observedAt |-> clock - lag,
                        dueAt |-> (clock - lag) + AnchorMaxDelay],
                       MergeLatest(n))
    /\ latestRef' = ReferenceAfterRead
    /\ observed' = observed \cup {n}
    /\ UNCHANGED <<clock, results, worker, tokens, faults>>

-----------------------------------------------------------------------------
(* One tick of a worker: tick, then processOne. *)

leaseForOneCall ==                  \* faulty: the completion write is forgotten
    PerCallTimeout + MaxOf(LeaseMargin, PerCallTimeout \div 10)

minimumSafeLeaseDuration ==
    2 * PerCallTimeout + MaxOf(LeaseMargin, PerCallTimeout \div 10)

computeBackoff(n) ==
    IF n <= 1 THEN InitialBackoff
    ELSE IF InitialBackoff * 2^(n - 1) < MaxBackoff THEN InitialBackoff * 2^(n - 1)
    ELSE MaxBackoff

(* The worker finds a schedule and reads the clock. *)
StartTick(w) ==
    /\ worker[w].phase = "idle"
    /\ Exists(schedule)
    /\ worker' = [worker EXCEPT ![w] = [Idle EXCEPT !.phase = "claiming", !.readAt = clock]]
    /\ UNCHANGED <<clock, schedule, results, latestRef, tokens, observed, faults>>

(* ClaimSTHAnchorAttempt with the clock value read at the start of the tick. *)
ClaimAttempt(w) ==
    LET s == ReconcileStoredResults(schedule)
        now == worker[w].readAt
        until == now + minimumSafeLeaseDuration
    IN  /\ worker[w].phase = "claiming"
        /\ latestRef' = IF HasPending(ReconciledInFlight(schedule))
                        THEN ReferenceAfterRead ELSE latestRef
        /\ \/ /\ Claimable(s, now)
              /\ schedule' = Claim(s, now, until, tokens + 1)
              /\ tokens' = tokens + 1
              /\ worker' = [worker EXCEPT ![w] =
                    [@ EXCEPT !.phase = "publishing", !.since = clock,
                              !.attempt = ClaimedAttempt(s, now, until, tokens + 1)]]
           \/ /\ ~Claimable(s, now)
              /\ schedule' = s
              /\ worker' = [worker EXCEPT ![w] = Idle]
              /\ UNCHANGED tokens
        /\ UNCHANGED <<clock, results, observed, faults>>

(* A durable sink saves recovery state in the attempt; a refused save makes
   the sink call fail. *)
CheckpointProvider(w) ==
    LET a == worker[w].attempt
    IN  /\ worker[w].phase = "publishing"
        /\ a.provider < MaxProvider
        /\ \/ /\ SwapAllowed(schedule, a.generation, a.token, clock, a.provider, a.provider + 1)
              /\ schedule' = SwapProvider(schedule, a.provider + 1)
              /\ worker' = [worker EXCEPT ![w] =
                    [@ EXCEPT !.attempt = [a EXCEPT !.provider = a.provider + 1]]]
           \/ /\ ~SwapAllowed(schedule, a.generation, a.token, clock, a.provider, a.provider + 1)
              /\ worker' = [worker EXCEPT ![w] = [@ EXCEPT !.phase = "persisting",
                                !.since = clock, !.outcome = "transient"]]
              /\ UNCHANGED schedule
        /\ UNCHANGED <<clock, results, latestRef, tokens, observed, faults>>

(* The sink answers, or its deadline passes (transient). *)
SinkReturns(w, outcome, anchor) ==
    /\ worker[w].phase = "publishing"
    /\ worker' = [worker EXCEPT ![w] = [@ EXCEPT !.phase = "persisting", !.since = clock,
                      !.outcome = outcome,
                      !.anchor = IF outcome = "published" THEN anchor ELSE 0]]
    /\ UNCHANGED <<clock, schedule, results, latestRef, tokens, observed, faults>>

(* CompleteSTHAnchorAttempt.  A result that is already stored is final: the
   same publication repairs the schedule without a lease, another is refused. *)
CompletionRepeats(w) ==
    LET n == worker[w].attempt.target IN Stored(n) /\ results[n] = worker[w].anchor

CompletionAllowed(w) ==
    LET a == worker[w].attempt
    IN  /\ ~Stored(a.target)
        /\ HasInFlight(schedule)
        /\ Fenced(schedule, a.generation, a.token)
        /\ schedule.inFlight.target = a.target

CompleteAttempt(w) ==
    LET n == worker[w].attempt.target
    IN  /\ worker[w].phase = "persisting" /\ worker[w].outcome = "published"
        /\ worker' = [worker EXCEPT ![w] = Idle]
        /\ \/ /\ CompletionRepeats(w) \/ CompletionAllowed(w)
              /\ latestRef' = ReferenceForResult(n)
              /\ results' = [results EXCEPT ![n] = worker[w].anchor]
              /\ schedule' = ReconcileCompleted(schedule, n)
           \/ /\ ~CompletionRepeats(w) /\ ~CompletionAllowed(w)
              /\ UNCHANGED <<schedule, results, latestRef>>
        /\ UNCHANGED <<clock, tokens, observed, faults>>

(* Completion stops after the reference write. *)
StopAfterReference(w) ==
    /\ worker[w].phase = "persisting" /\ worker[w].outcome = "published"
    /\ CompletionRepeats(w) \/ CompletionAllowed(w)
    /\ faults < MaxFaults
    /\ faults' = faults + 1
    /\ latestRef' = ReferenceForResult(worker[w].attempt.target)
    /\ worker' = [worker EXCEPT ![w] = Idle]
    /\ UNCHANGED <<clock, schedule, results, tokens, observed>>

(* Completion stops after the result write, before the schedule write. *)
StopAfterResult(w) ==
    LET n == worker[w].attempt.target
    IN  /\ worker[w].phase = "persisting" /\ worker[w].outcome = "published"
        /\ CompletionAllowed(w)
        /\ faults < MaxFaults
        /\ faults' = faults + 1
        /\ latestRef' = ReferenceForResult(n)
        /\ results' = [results EXCEPT ![n] = worker[w].anchor]
        /\ worker' = [worker EXCEPT ![w] = Idle]
        /\ UNCHANGED <<clock, schedule, tokens, observed>>

GivesUp(w) ==
    LET next == worker[w].attempt.attempts + 1
    IN  \/ worker[w].outcome \in {"invalid", "permanent"}
        \/ MaxAttempts > 0 /\ next >= MaxAttempts

(* FailSTHAnchorAttempt: an invalid answer, a permanent error or the last
   allowed attempt. *)
FailAttempt(w) ==
    LET a == worker[w].attempt
    IN  /\ worker[w].phase = "persisting" /\ worker[w].outcome # "published"
        /\ GivesUp(w)
        /\ worker' = [worker EXCEPT ![w] = Idle]
        /\ schedule' = IF FailAllowed(schedule, a.generation, a.token, a.attempts + 1)
                       THEN Fail(schedule, a.attempts + 1) ELSE schedule
        /\ UNCHANGED <<clock, results, latestRef, tokens, observed, faults>>

(* RescheduleSTHAnchorAttempt: any other error. *)
RescheduleAttempt(w) ==
    LET a == worker[w].attempt
        next == clock + computeBackoff(a.attempts + 1)
    IN  /\ worker[w].phase = "persisting" /\ worker[w].outcome = "transient"
        /\ ~GivesUp(w)
        /\ worker' = [worker EXCEPT ![w] = Idle]
        /\ schedule' = IF RescheduleAllowed(schedule, a.generation, a.token, a.attempts + 1, next)
                       THEN Reschedule(schedule, a.attempts + 1, next) ELSE schedule
        /\ UNCHANGED <<clock, results, latestRef, tokens, observed, faults>>

-----------------------------------------------------------------------------
(* A crash or a store error before the first write loses the worker's tick;
   the lease it holds stays in the schedule. *)
AbandonTick(w) ==
    /\ worker[w].phase # "idle"
    /\ faults < MaxFaults
    /\ faults' = faults + 1
    /\ worker' = [worker EXCEPT ![w] = Idle]
    /\ UNCHANGED <<clock, schedule, results, latestRef, tokens, observed>>

(* The store is restored from a backup into an empty one: the results in tree
   order, then the schedule without its lease, reconciled with the results.
   The workers of the old store are gone. *)
Restore ==
    /\ Exists(schedule)
    /\ faults < MaxFaults
    /\ faults' = faults + 1
    /\ worker' = [w \in Workers |-> Idle]
    /\ LET s == ClearLeaseForRestore(schedule)
           r == ReconciledInFlight(s)
       IN  /\ schedule' = IF HasPending(r) /\ ScanLatest > 0
                          THEN ReconcileCompleted(r, ScanLatest) ELSE r
           /\ latestRef' = IF ScanLatest > 0 THEN [kind |-> "result", candidate |-> ScanLatest]
                           ELSE IF HasPending(r) THEN EmptyReference ELSE NoReference
    /\ UNCHANGED <<clock, results, tokens, observed>>

(* Time passes.  A punctual worker has left each phase within its limit, a
   polling one has not left claimable work lying. *)
OnTime(w, t) ==
    /\ worker[w].phase = "claiming" => t <= worker[w].readAt + ClaimLatency
    /\ worker[w].phase \in {"publishing", "persisting"} => t <= worker[w].since + PerCallTimeout

Tick ==
    /\ clock < MaxClock
    /\ Punctual => \A w \in Workers : OnTime(w, clock + 1)
    /\ Polling => \A w \in Workers : worker[w].phase = "idle" => ~Claimable(schedule, clock)
    /\ clock' = clock + 1
    /\ UNCHANGED <<schedule, results, latestRef, worker, tokens, observed, faults>>

WorkerStep(w) ==
    \/ StartTick(w)
    \/ ClaimAttempt(w)
    \/ CheckpointProvider(w)
    \/ \E outcome \in Outcomes \ {"none"}, anchor \in AnchorIDs : SinkReturns(w, outcome, anchor)
    \/ CompleteAttempt(w)
    \/ FailAttempt(w)
    \/ RescheduleAttempt(w)

Fault ==
    \/ \E w \in Workers : StopAfterReference(w) \/ StopAfterResult(w) \/ AbandonTick(w)
    \/ Restore

Next ==
    \/ Tick
    \/ \E n \in Sizes, lag \in 0 .. MaxLag : UpsertCandidate(n, lag)
    \/ \E w \in Workers : WorkerStep(w)
    \/ Fault

Spec == Init /\ [][Next]_vars

(* Time does not stop, and the service loop of each worker keeps polling. *)
Fairness == SF_vars(Tick) /\ \A w \in Workers : WF_vars(WorkerStep(w))

FairSpec == Spec /\ Fairness

-----------------------------------------------------------------------------
(* Every stored schedule passes ValidateSchedule, which every reader applies
   and answers with data loss when it fails: no sequence of store operations
   leaves a schedule that the next one refuses. *)
ScheduleValid == Exists(schedule) => ValidateSchedule(schedule)

(* No head handed over by the outbox is dropped: it is covered by a stored
   result, by the in-flight target or by the pending window. *)
NoTargetLost ==
    \A n \in observed :
        \/ \E m \in StoredSizes : n <= m
        \/ n <= schedule.inFlight.target
        \/ n <= schedule.pending.target

(* A crash between the reference write and the result write never hides a
   stored result: reading the latest result finds the greatest one. *)
LatestIsGreatest == LatestResult = ScanLatest

(* What the store keeps of anchoring stays usable and complete through every
   interleaving of workers, crash, error and restore. *)
AnchorSound == ScheduleValid /\ NoTargetLost /\ LatestIsGreatest

(* The lease outlives the tick that took it: when every worker meets its time
   limits, no two are publishing or persisting at once.  This is what
   minimumSafeLeaseDuration (two calls and a margin) is for. *)
OnePublisher ==
    Punctual =>
        \A v, w \in Workers :
            worker[v].phase \in {"publishing", "persisting"}
            /\ worker[w].phase \in {"publishing", "persisting"} => v = w

SameWindow(a, b) ==
    a.generation = b.generation /\ a.openedAt = b.openedAt /\ a.dueAt = b.dueAt

WindowStep ==
    /\ HasPending(schedule) =>
         \/ SameWindow(schedule.pending, schedule'.pending)
         \/ SameWindow(schedule.pending, schedule'.inFlight)
         \/ \E m \in StoredSizes' : schedule.pending.target <= m
    /\ HasInFlight(schedule) =>
         \/ SameWindow(schedule.inFlight, schedule'.inFlight)
         \/ results'[schedule.inFlight.target] # 0

(* A window's deadline never slides: a window keeps the opening time and the
   deadline it was opened with, as a window and as an attempt, until a stored
   result covers it. *)
DeadlineFixed == [][WindowStep]_vars

HolderStep ==
    LET a == schedule.inFlight
        b == schedule'.inFlight
    IN  HasInFlight(schedule) /\ b.generation = a.generation
        /\ <<b.attempts, b.failure, b.provider>> # <<a.attempts, a.failure, a.provider>>
        => \E w \in Workers :
             /\ worker'[w] # worker[w]
             /\ worker[w].phase \in {"publishing", "persisting"}
             /\ HasLease(a) /\ worker[w].attempt.token = a.token

(* A lease that has been taken over fences its former holder: the attempt
   count, the failure and the provider state of an attempt change only in a
   step of the worker whose token the attempt carries. *)
HolderOnly == [][HolderStep]_vars

(* What no step may do to a window or an attempt: move its deadline, or touch it
   without its token. *)
AttemptsFenced == DeadlineFixed /\ HolderOnly

(* Every head handed over is anchored, unless the sink refused an attempt for
   good and the schedule waits for an operator. *)
EveryHeadAnchored ==
    []<>(\A n \in observed : \/ \E m \in StoredSizes : n <= m
                             \/ schedule.inFlight.failure = "terminal")

-----------------------------------------------------------------------------
PromisedTarget ==
    IF HasInFlight(schedule) /\ ~Stored(schedule.inFlight.target)
    THEN schedule.inFlight.target ELSE 0

Promise == INSTANCE AnchorPromise WITH target <- PromisedTarget

(* The schedule, its leases, windows and references implement the promise of
   AnchorPromise: one head at a time, each greater than the ones before, each
   with one final result. *)
KeepsPromise == Promise!Spec
=============================================================================
