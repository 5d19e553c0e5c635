------------------------- MODULE AnchorPromiseProofs -------------------------
(***************************************************************************)
(* AnchorWorker implements AnchorPromise: a claim that promotes a window   *)
(* freezes its target, the first result write anchors it, and every other  *)
(* step is a stutter or an observation.                                    *)
(***************************************************************************)
EXTENDS AnchorWorkerProofs

USE DEF Exists, HasPending, HasInFlight, HasLease

PromiseStep == [Promise!Next]_(Promise!promise)

(* A step that changes neither the observations, the results nor the target. *)
LEMMA Stutters ==
    ASSUME observed' = observed, results' = results, PromisedTarget' = PromisedTarget
    PROVE  PromiseStep
BY DEF PromiseStep, Promise!promise

LEMMA SameAttemptStutters ==
    ASSUME observed' = observed, results' = results,
           schedule'.inFlight.generation = schedule.inFlight.generation,
           schedule'.inFlight.target = schedule.inFlight.target
    PROVE  PromiseStep
<1>1. PromisedTarget' = PromisedTarget
  BY DEF PromisedTarget, Stored
<1> QED BY <1>1, Stutters

(* Reconciliation ends an attempt only when its target is stored, and then it
   was no longer promised. *)
LEMMA ReconcileTarget ==
    ASSUME Inv, NEW s, Good(s),
           s.inFlight.generation = schedule.inFlight.generation,
           s.inFlight.target = schedule.inFlight.target,
           NEW latest, IsGreatest(latest, StoredSizes),
           NEW r, r = ReconciledInFlight(s),
           NEW t, t = IF HasPending(r) /\ latest > 0 THEN ReconcileCompleted(r, latest) ELSE r
    PROVE  /\ Good(t)
           /\ HasInFlight(t) => /\ t.inFlight = s.inFlight /\ ~Stored(t.inFlight.target)
                                /\ PromisedTarget = t.inFlight.target
           /\ ~HasInFlight(t) => PromisedTarget = 0
           /\ HasPending(t) => t.pending = s.pending /\ \A m \in StoredSizes : m < t.pending.target
<1>1. TypeOK /\ NoAttempt.generation = 0 /\ NoWindow.generation = 0
  BY DEF Inv, NoAttempt, NoWindow
<1>2. /\ Good(t)
      /\ HasInFlight(s) /\ Stored(s.inFlight.target) => t.inFlight = NoAttempt
      /\ ~(HasInFlight(s) /\ Stored(s.inFlight.target)) => t.inFlight = s.inFlight
      /\ \/ t.pending = s.pending
            /\ (HasPending(s) => \A m \in StoredSizes : m < s.pending.target)
         \/ t.pending = NoWindow
  BY <1>1, ReconcileShape
<1> QED BY <1>1, <1>2 DEF PromisedTarget

LEMMA ClaimKeepsPromise ==
    ASSUME Inv, NEW w \in Workers, ClaimAttempt(w)
    PROVE  PromiseStep
<1> DEFINE s == ReconcileStoredResults(schedule)
           r == ReconciledInFlight(schedule)
           now == worker[w].readAt
           until == now + minimumSafeLeaseDuration
           a == ClaimedAttempt(s, now, until, tokens + 1)
<1>1. s = IF HasPending(r) /\ LatestResult > 0 THEN ReconcileCompleted(r, LatestResult) ELSE r
  BY DEF ReconcileStoredResults
<1>2. s = ReconcileStoredResults(schedule) /\ r = ReconciledInFlight(schedule)
  OBVIOUS
<1>3. IsGreatest(LatestResult, StoredSizes) /\ Good(schedule)
  BY LatestFacts DEF Inv, RefInv
<1> HIDE DEF s, r
<1>4. /\ Good(s)
      /\ HasInFlight(s) => /\ s.inFlight = schedule.inFlight /\ ~Stored(s.inFlight.target)
                           /\ PromisedTarget = s.inFlight.target
      /\ ~HasInFlight(s) => PromisedTarget = 0
      /\ HasPending(s) => s.pending = schedule.pending
                          /\ \A m \in StoredSizes : m < s.pending.target
  BY <1>1, <1>2, <1>3, ReconcileTarget
<1>5. results' = results /\ observed' = observed
  BY DEF ClaimAttempt
<1>6. CASE ~Claimable(s, now)
  <2>1. schedule' = s
    BY <1>2, <1>6 DEF ClaimAttempt
  <2>2. PromisedTarget' = IF HasInFlight(s) /\ ~Stored(s.inFlight.target) THEN s.inFlight.target ELSE 0
    BY <1>5, <2>1 DEF PromisedTarget, Stored
  <2>3. PromisedTarget' = PromisedTarget
    BY <1>4, <2>2
  <2> QED BY <1>5, <2>3, Stutters
<1>7. CASE Claimable(s, now)
  <2>1. schedule' = Claim(s, now, until, tokens + 1)
    BY <1>2, <1>7 DEF ClaimAttempt
  <2>2. schedule'.inFlight = a
    <3> HIDE DEF a
    <3> QED BY <1>4, <2>1 DEF Claim, Good, Schedules, a
  <2>3. /\ a.target = IF HasInFlight(s) THEN s.inFlight.target ELSE s.pending.target
        /\ a.generation = IF HasInFlight(s) THEN s.inFlight.generation ELSE s.pending.generation
    BY <1>4 DEF ClaimedAttempt, Good, Schedules, Attempts, NoAttempt
  <2> HIDE DEF a
  <2>4. CASE HasInFlight(s)
    BY <1>4, <1>5, <2>2, <2>3, <2>4, SameAttemptStutters
  <2>5. CASE ~HasInFlight(s)
    <3> DEFINE n == s.pending.target
    <3>1. HasPending(s) /\ PromisedTarget = 0
      BY <1>4, <1>7, <2>5 DEF Claimable
    <3>2. n \in observed /\ n \in Sizes /\ n \in Nat /\ n > 0
      <4>1. n \in observed
        BY <1>4, <3>1 DEF Inv, TargetsInv
      <4> QED BY <4>1, ObservedSizes
    <3>3. \A m \in StoredSizes : m < n
      BY <1>4, <3>1
    <3>4. PromisedTarget' = n
      <4>1. ~Stored(n)
        BY <3>2, <3>3 DEF Stored, StoredSizes
      <4> QED BY <1>5, <2>2, <2>3, <2>5, <3>1, <4>1 DEF PromisedTarget, Stored
    <3> HIDE DEF n
    <3>5. \A m \in Promise!Heads : m >= n => results[m] = 0
      <4>1. Promise!Heads = Sizes
        BY DEF Promise!Heads, Sizes
      <4> QED BY <3>2, <3>3, <4>1, TreeAssumption DEF StoredSizes, Sizes
    <3>6. Promise!Freeze(n)
      BY <1>5, <3>1, <3>2, <3>4, <3>5 DEF Promise!Freeze
    <3>7. n \in Promise!Heads
      BY <3>2 DEF Promise!Heads, Sizes
    <3> QED BY <3>6, <3>7 DEF PromiseStep, Promise!Next
  <2> QED BY <2>4, <2>5
<1> QED BY <1>6, <1>7

(* The first write of the result of a target anchors it. *)
LEMMA ResultAnchors ==
    ASSUME Inv, NEW w \in Workers, worker[w].phase = "persisting",
           worker[w].outcome = "published", CompletionAllowed(w), observed' = observed,
           results' = [results EXCEPT ![worker[w].attempt.target] = worker[w].anchor],
           \/ schedule'.inFlight = schedule.inFlight
           \/ schedule'.inFlight = NoAttempt
    PROVE  PromiseStep
<1> DEFINE n == worker[w].attempt.target
<1>1. n \in Sizes /\ n > 0 /\ n \in Nat /\ worker[w].anchor \in AnchorIDs /\ worker[w].anchor \in Nat \ {0}
  BY CompletionFacts
<1>2. schedule.inFlight.target = n /\ HasInFlight(schedule) /\ ~Stored(n)
  BY DEF CompletionAllowed
<1>3. PromisedTarget = n /\ n # 0
  BY <1>1, <1>2 DEF PromisedTarget
<1>4. results'[n] # 0
  BY <1>1 DEF Inv, TypeOK
<1>5. PromisedTarget' = 0
  BY <1>1, <1>2, <1>4 DEF PromisedTarget, Stored, NoAttempt
<1>6. Promise!Anchor(worker[w].anchor)
  BY <1>3, <1>5 DEF Promise!Anchor
<1> QED BY <1>1, <1>6 DEF PromiseStep, Promise!Next

LEMMA CompleteKeepsPromise ==
    ASSUME Inv, NEW w \in Workers, CompleteAttempt(w)
    PROVE  PromiseStep
<1> DEFINE n == worker[w].attempt.target
<1>0. observed' = observed /\ worker[w].phase = "persisting" /\ worker[w].outcome = "published"
  BY DEF CompleteAttempt
<1>1. CASE CompletionRepeats(w) \/ CompletionAllowed(w)
  <2>1. /\ results' = [results EXCEPT ![n] = worker[w].anchor]
        /\ schedule' = ReconcileCompleted(schedule, n)
    BY <1>1 DEF CompleteAttempt
  <2>2. n \in Nat
    BY <1>0, <1>1, CompletionFacts
  <2>3. \/ schedule'.inFlight = NoAttempt /\ schedule.inFlight.target = n
        \/ schedule'.inFlight = schedule.inFlight
    <3> HIDE DEF n
    <3> QED BY SMTT(60), <2>1, <2>2, ReconcileGood DEF Inv
  <2>4. CASE CompletionAllowed(w)
    BY ZenonT(60), <1>0, <2>1, <2>3, <2>4, ResultAnchors
  <2>5. CASE CompletionRepeats(w)
    <3>1. Stored(n) /\ results[n] = worker[w].anchor
      BY <2>5 DEF CompletionRepeats
    <3>2. results' = results
      BY <2>1, <3>1 DEF Inv, TypeOK, Stored
    <3>3. PromisedTarget' = PromisedTarget
      BY <2>3, <3>1, <3>2 DEF PromisedTarget, Stored, NoAttempt
    <3> QED BY <1>0, <3>2, <3>3, Stutters
  <2> QED BY <1>1, <2>4, <2>5
<1>2. CASE ~CompletionRepeats(w) /\ ~CompletionAllowed(w)
  BY <1>0, <1>2, SameAttemptStutters DEF CompleteAttempt
<1> QED BY <1>1, <1>2

LEMMA RestoreKeepsPromise == ASSUME Inv, Restore PROVE PromiseStep
<1> DEFINE s == ClearLeaseForRestore(schedule)
           r == ReconciledInFlight(s)
<1>1. /\ results' = results /\ observed' = observed
      /\ schedule' = IF HasPending(r) /\ ScanLatest > 0
                     THEN ReconcileCompleted(r, ScanLatest) ELSE r
  BY DEF Restore
<1>2. IsGreatest(ScanLatest, StoredSizes)
  BY ScanFacts DEF Inv
<1>3. /\ Good(s) /\ s.inFlight.target = schedule.inFlight.target
      /\ s.inFlight.generation = schedule.inFlight.generation
  BY ClearLeaseGood DEF Inv
<1>4. r = ReconciledInFlight(s)
  OBVIOUS
<1> HIDE DEF s, r
<1>5. /\ HasInFlight(schedule') => /\ ~Stored(schedule'.inFlight.target)
                                   /\ PromisedTarget = schedule'.inFlight.target
      /\ ~HasInFlight(schedule') => PromisedTarget = 0
  BY <1>1, <1>2, <1>3, <1>4, ReconcileTarget
<1>6. Stored(schedule.inFlight.target)' <=> Stored(schedule'.inFlight.target)
  BY <1>1 DEF Stored
<1>7. PromisedTarget' = PromisedTarget
  BY <1>5, <1>6 DEF PromisedTarget
<1> QED BY <1>1, <1>7, Stutters

LEMMA NextKeepsPromise == Inv /\ [Next]_vars => PromiseStep
<1> SUFFICES ASSUME Inv, [Next]_vars PROVE PromiseStep
  OBVIOUS
<1>0. schedule \in Schedules /\ schedule.inFlight \in Attempts
  BY DEF Inv, TypeOK, Schedules
<1>1. ASSUME NEW n \in Sizes, NEW lag \in 0 .. MaxLag, UpsertCandidate(n, lag) PROVE PromiseStep
  <2>1. results' = results /\ observed' = observed \cup {n}
    BY <1>1 DEF UpsertCandidate
  <2>2. schedule'.inFlight = schedule.inFlight
    BY <1>0, <1>1 DEF UpsertCandidate, MergeCandidate, OpenWindow, ExtendWindow, Schedules
  <2>3. PromisedTarget' = PromisedTarget
    BY <2>1, <2>2 DEF PromisedTarget, Stored
  <2>4. Promise!Observe(n) /\ n \in Promise!Heads
    BY <2>1, <2>3 DEF Promise!Observe, Promise!Heads, Sizes
  <2> QED BY <2>4 DEF PromiseStep, Promise!Next
<1>2. ASSUME NEW w \in Workers, CheckpointProvider(w) \/ FailAttempt(w) \/ RescheduleAttempt(w)
      PROVE  PromiseStep
  <2>1. results' = results /\ observed' = observed
    BY <1>2 DEF CheckpointProvider, FailAttempt, RescheduleAttempt
  <2>2. \/ schedule' = schedule
        \/ \E k : schedule' = SwapProvider(schedule, k)
        \/ \E k : schedule' = Fail(schedule, k)
        \/ \E k, next : schedule' = Reschedule(schedule, k, next)
    BY <1>2 DEF CheckpointProvider, FailAttempt, RescheduleAttempt
  <2>3. ASSUME NEW k, schedule' = SwapProvider(schedule, k) PROVE PromiseStep
    BY <1>0, <2>1, <2>3, SameAttemptStutters DEF SwapProvider, Schedules, Attempts
  <2>4. ASSUME NEW k, schedule' = Fail(schedule, k) PROVE PromiseStep
    BY ZenonT(60), <1>0, <2>1, <2>4, SameAttemptStutters DEF Fail, Schedules, Attempts
  <2>5. ASSUME NEW k, NEW next, schedule' = Reschedule(schedule, k, next) PROVE PromiseStep
    BY ZenonT(60), <1>0, <2>1, <2>5, SameAttemptStutters DEF Reschedule, Schedules, Attempts
  <2> QED BY SMTT(60), <2>1, <2>2, <2>3, <2>4, <2>5, SameAttemptStutters
<1>3. ASSUME NEW w \in Workers, StartTick(w) \/ AbandonTick(w) \/ StopAfterReference(w)
      PROVE  PromiseStep
  BY <1>3, SameAttemptStutters DEF StartTick, AbandonTick, StopAfterReference
<1>4. ASSUME NEW w \in Workers, StopAfterResult(w) PROVE PromiseStep
  BY ZenonT(60), <1>4, ResultAnchors DEF StopAfterResult
<1>5. ASSUME NEW w \in Workers, NEW outcome, NEW anchor, SinkReturns(w, outcome, anchor)
      PROVE  PromiseStep
  BY <1>5, SameAttemptStutters DEF SinkReturns
<1>6. CASE Tick \/ UNCHANGED vars
  BY <1>6, SameAttemptStutters DEF Tick, vars
<1> QED BY SMTT(60), <1>1, <1>2, <1>3, <1>4, <1>5, <1>6, ClaimKeepsPromise, CompleteKeepsPromise,
           RestoreKeepsPromise DEF Next, WorkerStep, Fault

LEMMA InitKeepsPromise == Init => Promise!Init
BY DEF Init, Promise!Init, PromisedTarget, NoSchedule, NoAttempt, Promise!Heads, Sizes

(* Leases, windows, coalescing, crashes and restores never let the store anchor
   two heads at once, an older head after a newer one, or one head twice. *)
THEOREM PromiseKept == Spec => KeepsPromise
<1>1. Inv /\ [Next]_vars => [Promise!Next]_(Promise!promise)
  BY NextKeepsPromise DEF PromiseStep
<1> QED BY <1>1, InitKeepsPromise, SpecInv, PTL DEF Spec, KeepsPromise, Promise!Spec
=============================================================================
