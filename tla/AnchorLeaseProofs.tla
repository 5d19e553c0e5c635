-------------------------- MODULE AnchorLeaseProofs --------------------------
(***************************************************************************)
(* Theorems about the lease of an anchor attempt: with workers that meet   *)
(* their time limits at most one is publishing or persisting; with any     *)
(* workers, only the holder of the lease changes the attempt.              *)
(***************************************************************************)
EXTENDS AnchorWorkerProofs

USE DEF Exists, HasPending, HasInFlight, HasLease

Active(w) == worker[w].phase \in {"publishing", "persisting"}

(* The lease of an active worker is in the schedule and ends after the last
   moment at which the worker can be active: the tick spends at most
   ClaimLatency on the claim, one call limit on the sink and one on the
   completion. *)
Leased(w) ==
    /\ HasInFlight(schedule)
    /\ ~Stored(schedule.inFlight.target)
    /\ schedule.inFlight.leaseUntil = worker[w].readAt + minimumSafeLeaseDuration
    /\ clock <= worker[w].since + PerCallTimeout
    /\ worker[w].phase = "publishing" => worker[w].since <= worker[w].readAt + ClaimLatency
    /\ worker[w].phase = "persisting" =>
           worker[w].since <= worker[w].readAt + ClaimLatency + PerCallTimeout

LeaseInv ==
    Punctual =>
        /\ \A w \in Workers : Active(w) => Leased(w)
        /\ \A w \in Workers : worker[w].phase = "claiming" => clock <= worker[w].readAt + ClaimLatency
        /\ \A v, w \in Workers : Active(v) /\ Active(w) => v = w

LEMMA LeaseOutlivesTick ==
    ASSUME Inv, NEW w \in Workers, Active(w), Leased(w)
    PROVE  schedule.inFlight.leaseUntil > clock
<1>1. /\ worker[w].readAt \in Nat /\ worker[w].since \in Nat /\ clock \in Nat
      /\ schedule.inFlight.leaseUntil \in Nat
  BY DEF Inv, TypeOK, WorkerStates, Schedules, Attempts
<1>2. worker[w].since <= worker[w].readAt + ClaimLatency + PerCallTimeout
  BY <1>1, TimeoutAssumption DEF Active, Leased
<1>3. minimumSafeLeaseDuration \in Nat /\ minimumSafeLeaseDuration > 2 * PerCallTimeout + ClaimLatency
  BY TimeoutAssumption DEF minimumSafeLeaseDuration, MaxOf
<1> HIDE DEF minimumSafeLeaseDuration
<1> QED BY <1>1, <1>2, <1>3, TimeoutAssumption DEF Leased

LEMMA LeaseInit == Init => LeaseInv
BY IdleOK DEF Init, LeaseInv, Active

(* While one worker is active, reconciliation leaves the attempt alone and no
   other worker can claim. *)
LEMMA ActiveBlocksClaim ==
    ASSUME Inv, LeaseInv, Punctual, NEW v \in Workers, Active(v),
           NEW w \in Workers, worker[w].phase = "claiming",
           NEW s, s = ReconcileStoredResults(schedule)
    PROVE  s.inFlight = schedule.inFlight /\ ~Claimable(s, worker[w].readAt)
<1>1. Leased(v)
  BY DEF LeaseInv
<1>2. schedule.inFlight.leaseUntil > clock /\ HasInFlight(schedule) /\ ~Stored(schedule.inFlight.target)
  BY <1>1, LeaseOutlivesTick DEF Leased
<1>3. s.inFlight = schedule.inFlight
  <2> DEFINE r == ReconciledInFlight(schedule)
  <2>1. s = IF HasPending(r) /\ LatestResult > 0 THEN ReconcileCompleted(r, LatestResult) ELSE r
    BY DEF ReconcileStoredResults
  <2>2. IsGreatest(LatestResult, StoredSizes) /\ TypeOK /\ Good(schedule)
    BY LatestFacts DEF Inv, RefInv
  <2>3. r = ReconciledInFlight(schedule)
    OBVIOUS
  <2> HIDE DEF r
  <2>4. ~(HasInFlight(schedule) /\ Stored(schedule.inFlight.target)) => s.inFlight = schedule.inFlight
    BY <2>1, <2>2, <2>3, ReconcileShape
  <2> QED BY <1>2, <2>4
<1>4. worker[w].readAt <= clock /\ worker[w].readAt \in Nat /\ clock \in Nat
      /\ schedule.inFlight.leaseUntil \in Nat
  BY DEF Inv, ClockInv, TypeOK, WorkerStates, Schedules, Attempts
<1> QED BY <1>2, <1>3, <1>4 DEF Claimable

(* Once nobody is active, only the claiming workers matter. *)
LEMMA LeaseWithNoneActive ==
    ASSUME Punctual => \A v \in Workers : worker'[v].phase \notin {"publishing", "persisting"},
           Punctual => \A v \in Workers : worker'[v].phase = "claiming" =>
                                              clock' <= worker'[v].readAt + ClaimLatency
    PROVE  LeaseInv'
BY DEF LeaseInv, Active

(* The holder of the only lease becomes idle. *)
LEMMA HolderLeaves ==
    ASSUME Inv, LeaseInv, NEW w \in Workers, Active(w), clock' = clock,
           worker' = [worker EXCEPT ![w] = Idle]
    PROVE  LeaseInv'
<1>1. \A v \in Workers : worker'[v] = IF v = w THEN Idle ELSE worker[v]
  BY DEF Inv, TypeOK
<1>2. Punctual => \A v \in Workers : worker'[v].phase \notin {"publishing", "persisting"}
  BY <1>1, IdleOK DEF LeaseInv, Active
<1>3. Punctual => \A v \in Workers : worker'[v].phase = "claiming" =>
                                         clock' <= worker'[v].readAt + ClaimLatency
  BY <1>1, IdleOK DEF LeaseInv
<1> QED BY <1>2, <1>3, LeaseWithNoneActive

(* A step that keeps the lease in the schedule and does not make anyone active. *)
LEMMA LeaseFrame ==
    ASSUME Inv, LeaseInv, NEW w \in Workers, NEW x,
           worker' = [worker EXCEPT ![w] = x], clock' = clock, results' = results,
           schedule'.inFlight.generation = schedule.inFlight.generation,
           schedule'.inFlight.target = schedule.inFlight.target,
           schedule'.inFlight.leaseUntil = schedule.inFlight.leaseUntil,
           Punctual /\ x.phase = "claiming" => clock <= x.readAt + ClaimLatency,
           x.phase = "publishing" => /\ worker[w].phase = "publishing"
                                     /\ x.readAt = worker[w].readAt /\ x.since = worker[w].since,
           x.phase = "persisting" => /\ worker[w].phase = "publishing"
                                     /\ x.readAt = worker[w].readAt /\ x.since = clock
    PROVE  LeaseInv'
<1> SUFFICES ASSUME Punctual PROVE LeaseInv'
  BY DEF LeaseInv
<1>0. \A v \in Workers : worker'[v] = IF v = w THEN x ELSE worker[v]
  BY DEF Inv, TypeOK
<1>1. \A v \in Workers : Active(v)' => Active(v)
  BY <1>0 DEF Active
<1>2. \A v \in Workers : Stored(schedule.inFlight.target)' <=> Stored(schedule.inFlight.target)
  BY DEF Stored
<1>3. ASSUME NEW v \in Workers, Active(v)' PROVE Leased(v)'
  <2>1. Active(v) /\ Leased(v)
    BY <1>1, <1>3 DEF LeaseInv
  <2>2. CASE v # w
    BY <1>0, <1>2, <2>1, <2>2 DEF Leased
  <2>3. CASE v = w
    <3>1. worker'[v] = x /\ x.readAt = worker[v].readAt /\ worker[v].phase = "publishing"
          /\ x.phase \in {"publishing", "persisting"}
      BY <1>0, <1>3, <2>3 DEF Active
    <3>2. clock \in Nat /\ worker[v].readAt \in Nat /\ worker[v].since \in Nat
      BY DEF Inv, TypeOK, WorkerStates
    <3>3. worker[v].since <= worker[v].readAt + ClaimLatency /\ clock <= worker[v].since + PerCallTimeout
      BY <2>1, <3>1 DEF Leased
    <3>4. CASE x.phase = "publishing"
      BY SMTT(60), <1>2, <2>1, <2>3, <3>1, <3>3, <3>4 DEF Leased
    <3>5. CASE x.phase = "persisting"
      <4>1. x.since = clock
        BY <2>3, <3>5
      <4>2. clock <= x.since + PerCallTimeout /\ x.since <= x.readAt + ClaimLatency + PerCallTimeout
        BY SMTT(60), <3>1, <3>2, <3>3, <4>1, TimeoutAssumption
      <4> QED BY SMTT(60), <1>2, <2>1, <3>1, <3>5, <4>2 DEF Leased
    <3> QED BY <3>1, <3>4, <3>5
  <2> QED BY <2>2, <2>3
<1>4. \A v \in Workers : worker'[v].phase = "claiming" => clock' <= worker'[v].readAt + ClaimLatency
  BY <1>0 DEF LeaseInv
<1>5. \A u, v \in Workers : Active(u)' /\ Active(v)' => u = v
  BY <1>1 DEF LeaseInv
<1> QED BY <1>3, <1>4, <1>5 DEF LeaseInv

LEMMA ClaimLease == ASSUME Inv, LeaseInv, NEW w \in Workers, ClaimAttempt(w) PROVE LeaseInv'
<1> SUFFICES ASSUME Punctual PROVE LeaseInv'
  BY DEF LeaseInv
<1> DEFINE s == ReconcileStoredResults(schedule)
           r == ReconciledInFlight(schedule)
           now == worker[w].readAt
           until == now + minimumSafeLeaseDuration
           a == ClaimedAttempt(s, now, until, tokens + 1)
<1>0. /\ worker[w] \in WorkerStates /\ worker[w].phase = "claiming"
      /\ results' = results /\ clock' = clock /\ clock \in Nat /\ now \in Nat
      /\ clock <= now + ClaimLatency
  BY DEF Inv, TypeOK, WorkerStates, LeaseInv, ClaimAttempt
<1>1. s = IF HasPending(r) /\ LatestResult > 0 THEN ReconcileCompleted(r, LatestResult) ELSE r
  BY DEF ReconcileStoredResults
<1>2. s = ReconcileStoredResults(schedule) /\ r = ReconciledInFlight(schedule)
  OBVIOUS
<1>3. IsGreatest(LatestResult, StoredSizes) /\ TypeOK /\ Good(schedule)
  BY LatestFacts DEF Inv, RefInv
<1> HIDE DEF s, r
<1>4. /\ Good(s)
      /\ HasInFlight(schedule) /\ Stored(schedule.inFlight.target) => s.inFlight = NoAttempt
      /\ ~(HasInFlight(schedule) /\ Stored(schedule.inFlight.target)) => s.inFlight = schedule.inFlight
      /\ \/ s.pending = schedule.pending
            /\ (HasPending(schedule) => \A m \in StoredSizes : m < schedule.pending.target)
         \/ s.pending = NoWindow
  BY <1>1, <1>2, <1>3, ReconcileShape
<1>5. \A v \in Workers : v # w => worker'[v] = worker[v]
  BY DEF Inv, TypeOK, ClaimAttempt
<1>6. CASE \E v \in Workers : Active(v)
  <2>1. PICK v \in Workers : Active(v)
    BY <1>6
  <2>2. s.inFlight = schedule.inFlight /\ ~Claimable(s, now)
    BY <1>0, <1>2, <2>1, ActiveBlocksClaim
  <2>3. schedule' = s /\ worker' = [worker EXCEPT ![w] = Idle]
    BY SMTT(60), <1>2, <2>2 DEF ClaimAttempt
  <2> QED BY ZenonT(60), <1>0, <2>2, <2>3, IdleOK, LeaseFrame
<1>7. CASE (\A v \in Workers : ~Active(v)) /\ ~Claimable(s, now)
  <2>1. worker' = [worker EXCEPT ![w] = Idle]
    BY <1>2, <1>7 DEF ClaimAttempt
  <2>2. \A v \in Workers : worker'[v] = IF v = w THEN Idle ELSE worker[v]
    BY <2>1 DEF Inv, TypeOK
  <2> QED BY SMTT(60), <1>0, <1>7, <2>2, IdleOK, LeaseWithNoneActive DEF Active, LeaseInv
<1>8. CASE (\A v \in Workers : ~Active(v)) /\ Claimable(s, now)
  <2> DEFINE x == [worker[w] EXCEPT !.phase = "publishing", !.since = clock, !.attempt = a]
  <2>1. schedule' = Claim(s, now, until, tokens + 1) /\ worker' = [worker EXCEPT ![w] = x]
    BY <1>2, <1>8 DEF ClaimAttempt
  <2>2. schedule'.inFlight = a
    <3> HIDE DEF a
    <3> QED BY <1>4, <2>1 DEF Claim, Good, Schedules, a
  <2>3. /\ a.target = IF HasInFlight(s) THEN s.inFlight.target ELSE s.pending.target
        /\ a.generation = IF HasInFlight(s) THEN s.inFlight.generation ELSE s.pending.generation
        /\ a.leaseUntil = until
    BY <1>4 DEF ClaimedAttempt, Good, Schedules, Attempts, NoAttempt
  <2>4. x.phase = "publishing" /\ x.since = clock /\ x.readAt = now
    <3> HIDE DEF a
    <3> QED BY <1>0 DEF WorkerStates
  <2>5. worker'[w] = x
    <3> HIDE DEF x
    <3> QED BY <2>1 DEF Inv, TypeOK
  <2> HIDE DEF x, a
  <2>6. \A v \in Workers : Active(v)' => v = w
    BY <1>5, <1>8 DEF Active
  <2>7. a.generation > 0 /\ ~Stored(a.target)
    <3>1. NoAttempt.generation = 0 /\ NoWindow.generation = 0
      BY DEF NoAttempt, NoWindow
    <3>2. CASE HasInFlight(s)
      BY <1>4, <2>3, <3>1, <3>2
    <3>3. CASE ~HasInFlight(s)
      <4>1. HasPending(s) /\ s.pending = schedule.pending
            /\ \A m \in StoredSizes : m < schedule.pending.target
        BY <1>4, <1>8, <3>1, <3>3 DEF Claimable
      <4>2. schedule.pending.target \in Nat
        BY DEF Inv, TypeOK, Schedules, Windows
      <4> QED BY SMTT(60), <2>3, <3>3, <4>1, <4>2 DEF Stored, StoredSizes
    <3> QED BY <3>2, <3>3
  <2>8. Stored(schedule.inFlight.target)' <=> Stored(a.target)
    BY <1>0, <2>2 DEF Stored
  <2>9. clock <= clock + PerCallTimeout
    BY SMTT(60), <1>0, TimeoutAssumption
  <2>10. Leased(w)'
    BY SMTT(60), <1>0, <2>2, <2>3, <2>4, <2>5, <2>7, <2>8, <2>9 DEF Leased, minimumSafeLeaseDuration
  <2>11. \A v \in Workers : worker'[v].phase = "claiming" => clock' <= worker'[v].readAt + ClaimLatency
    BY SMTT(60), <1>0, <1>5, <2>4, <2>5 DEF LeaseInv
  <2> QED BY <2>6, <2>10, <2>11 DEF LeaseInv
<1> QED BY <1>6, <1>7, <1>8

LEMMA LeaseNext == Inv /\ LeaseInv /\ [Next]_vars => LeaseInv'
<1> SUFFICES ASSUME Inv, LeaseInv, [Next]_vars PROVE LeaseInv'
  OBVIOUS
<1>1. CASE Tick
  <2>1. /\ clock' = clock + 1 /\ worker' = worker /\ schedule' = schedule /\ results' = results
        /\ Punctual => \A w \in Workers : OnTime(w, clock + 1)
    BY <1>1 DEF Tick
  <2>2. Stored(schedule.inFlight.target)' <=> Stored(schedule.inFlight.target)
    BY <2>1 DEF Stored
  <2> QED BY <2>1, <2>2 DEF LeaseInv, Leased, Active, OnTime
<1>2. ASSUME NEW n \in Sizes, NEW lag \in 0 .. MaxLag, UpsertCandidate(n, lag) PROVE LeaseInv'
  <2>1. clock' = clock /\ worker' = worker /\ results' = results
    BY <1>2 DEF UpsertCandidate
  <2>2. schedule'.inFlight = schedule.inFlight
    BY <1>2 DEF UpsertCandidate, MergeCandidate, OpenWindow, ExtendWindow, Inv, TypeOK, Schedules
  <2>3. Stored(schedule.inFlight.target)' <=> Stored(schedule.inFlight.target)
    BY <2>1, <2>2 DEF Stored
  <2> QED BY <2>1, <2>2, <2>3 DEF LeaseInv, Leased, Active
<1>3. ASSUME NEW w \in Workers, StartTick(w) PROVE LeaseInv'
  <2> DEFINE x == [Idle EXCEPT !.phase = "claiming", !.readAt = clock]
  <2>1. worker' = [worker EXCEPT ![w] = x] /\ UNCHANGED <<clock, results, schedule>>
    BY <1>3 DEF StartTick
  <2>2. x.phase = "claiming" /\ x.readAt = clock
    BY DEF Idle
  <2>3. clock <= x.readAt + ClaimLatency
    BY <2>2, TimeoutAssumption DEF Inv, TypeOK
  <2> HIDE DEF x
  <2> QED BY ZenonT(60), <2>1, <2>2, <2>3, LeaseFrame
<1>4. ASSUME NEW w \in Workers, ClaimAttempt(w) PROVE LeaseInv'
  BY <1>4, ClaimLease
<1>5. ASSUME NEW w \in Workers, CheckpointProvider(w) PROVE LeaseInv'
  <2> DEFINE a == worker[w].attempt
             b == [a EXCEPT !.provider = a.provider + 1]
             x == [worker[w] EXCEPT !.attempt = b]
             y == [worker[w] EXCEPT !.phase = "persisting", !.since = clock, !.outcome = "transient"]
  <2>0. worker[w] \in WorkerStates /\ worker[w].phase = "publishing" /\ UNCHANGED <<clock, results>>
    BY <1>5 DEF Inv, TypeOK, CheckpointProvider
  <2>1. CASE schedule' = SwapProvider(schedule, a.provider + 1) /\ worker' = [worker EXCEPT ![w] = x]
    <3>1. x.phase = "publishing" /\ x.readAt = worker[w].readAt /\ x.since = worker[w].since
      <4> HIDE DEF b
      <4> QED BY <2>0 DEF WorkerStates
    <3>2. /\ schedule'.inFlight.generation = schedule.inFlight.generation
          /\ schedule'.inFlight.target = schedule.inFlight.target
          /\ schedule'.inFlight.leaseUntil = schedule.inFlight.leaseUntil
      BY <2>1 DEF SwapProvider, Inv, TypeOK, Schedules, Attempts
    <3> HIDE DEF x
    <3> QED BY ZenonT(60), <2>0, <2>1, <3>1, <3>2, LeaseFrame
  <2>2. CASE schedule' = schedule /\ worker' = [worker EXCEPT ![w] = y]
    <3>1. y.phase = "persisting" /\ y.readAt = worker[w].readAt /\ y.since = clock
      BY <2>0 DEF WorkerStates
    <3> HIDE DEF y
    <3> QED BY ZenonT(60), <2>0, <2>2, <3>1, LeaseFrame
  <2> QED BY <1>5, <2>1, <2>2 DEF CheckpointProvider
<1>6. ASSUME NEW w \in Workers, NEW outcome \in Outcomes, NEW anchor \in AnchorIDs,
             SinkReturns(w, outcome, anchor)
      PROVE  LeaseInv'
  <2> DEFINE y == [worker[w] EXCEPT !.phase = "persisting", !.since = clock, !.outcome = outcome,
                       !.anchor = IF outcome = "published" THEN anchor ELSE 0]
  <2>0. worker[w] \in WorkerStates /\ worker[w].phase = "publishing"
        /\ UNCHANGED <<clock, results, schedule>> /\ worker' = [worker EXCEPT ![w] = y]
    BY <1>6 DEF Inv, TypeOK, SinkReturns
  <2>1. y.phase = "persisting" /\ y.readAt = worker[w].readAt /\ y.since = clock
    BY <2>0 DEF WorkerStates
  <2> HIDE DEF y
  <2> QED BY ZenonT(60), <2>0, <2>1, LeaseFrame
<1>7. ASSUME NEW w \in Workers, CompleteAttempt(w) \/ FailAttempt(w) \/ RescheduleAttempt(w)
                                \/ StopAfterReference(w) \/ StopAfterResult(w)
      PROVE  LeaseInv'
  <2>1. worker[w].phase = "persisting" /\ clock' = clock /\ worker' = [worker EXCEPT ![w] = Idle]
    BY <1>7 DEF CompleteAttempt, FailAttempt, RescheduleAttempt, StopAfterReference, StopAfterResult
  <2> QED BY ZenonT(60), <2>1, HolderLeaves DEF Active
<1>8. ASSUME NEW w \in Workers, AbandonTick(w) PROVE LeaseInv'
  <2>1. worker' = [worker EXCEPT ![w] = Idle] /\ UNCHANGED <<clock, results, schedule>>
    BY <1>8 DEF AbandonTick
  <2> QED BY ZenonT(60), <2>1, IdleOK, LeaseFrame
<1>9. CASE Restore
  <2>1. worker' = [w \in Workers |-> Idle]
    BY SMTT(60), <1>9 DEF Restore
  <2> QED BY <2>1, IdleOK, LeaseWithNoneActive
<1>10. CASE UNCHANGED vars
  <2>1. Stored(schedule.inFlight.target)' <=> Stored(schedule.inFlight.target)
    BY <1>10 DEF Stored, vars
  <2> QED BY <1>10, <2>1 DEF vars, LeaseInv, Leased, Active
<1> QED BY SMTT(60), <1>1, <1>2, <1>3, <1>4, <1>5, <1>6, <1>7, <1>8, <1>9, <1>10 DEF Next, WorkerStep, Fault

(* With workers that meet their time limits, a lease of
   minimumSafeLeaseDuration is never taken over while its holder works: no two
   workers publish one attempt, for every call limit and margin. *)
THEOREM OnePublisherHolds == Spec => []OnePublisher
<1>1. LeaseInv => OnePublisher
  BY DEF LeaseInv, OnePublisher, Active
<1> QED BY <1>1, LeaseInit, LeaseNext, SpecInv, PTL DEF Spec

-----------------------------------------------------------------------------
(* The attempt and the window stay, or a stored result ends them. *)
KeptOrStored(s, t) ==
    /\ \/ t.inFlight = s.inFlight
       \/ t.inFlight = NoAttempt /\ Stored(s.inFlight.target)
    /\ \/ t.pending = s.pending
       \/ \E m \in StoredSizes : s.pending.target <= m

LEMMA KeptSteps ==
    ASSUME Inv, results' = results, KeptOrStored(schedule, schedule')
    PROVE  HolderStep /\ WindowStep
<1>1. StoredSizes' = StoredSizes /\ NoAttempt.generation = 0
  BY DEF StoredSizes, NoAttempt
<1>2. HolderStep
  BY <1>1 DEF HolderStep, KeptOrStored
<1>3. WindowStep
  BY <1>1 DEF WindowStep, KeptOrStored, SameWindow, Stored
<1> QED BY <1>2, <1>3

LEMMA ReconcileKept ==
    ASSUME Inv, NEW s, Good(s), NEW latest, IsGreatest(latest, StoredSizes),
           NEW r, r = ReconciledInFlight(s),
           NEW t, t = IF HasPending(r) /\ latest > 0 THEN ReconcileCompleted(r, latest) ELSE r
    PROVE  KeptOrStored(s, t) /\ Good(t)
<1>1. TypeOK
  BY DEF Inv
<1> QED BY <1>1, ReconcileShape DEF KeptOrStored

LEMMA ClaimSteps ==
    ASSUME Inv, NEW w \in Workers, ClaimAttempt(w)
    PROVE  HolderStep /\ WindowStep
<1> DEFINE s == ReconcileStoredResults(schedule)
           r == ReconciledInFlight(schedule)
           now == worker[w].readAt
           until == now + minimumSafeLeaseDuration
           a == ClaimedAttempt(s, now, until, tokens + 1)
<1>1. s = IF HasPending(r) /\ LatestResult > 0 THEN ReconcileCompleted(r, LatestResult) ELSE r
  BY DEF ReconcileStoredResults
<1>2. s = ReconcileStoredResults(schedule) /\ r = ReconciledInFlight(schedule)
  OBVIOUS
<1>3. IsGreatest(LatestResult, StoredSizes) /\ Good(schedule)
  BY LatestFacts DEF Inv, RefInv
<1> HIDE DEF s, r
<1>4. KeptOrStored(schedule, s) /\ Good(s)
  BY <1>1, <1>2, <1>3, ReconcileKept
<1>5. results' = results /\ StoredSizes' = StoredSizes
  BY DEF ClaimAttempt, StoredSizes
<1>6. CASE ~Claimable(s, now)
  <2>1. schedule' = s
    BY <1>2, <1>6 DEF ClaimAttempt
  <2> QED BY <1>4, <1>5, <2>1, KeptSteps
<1>7. CASE Claimable(s, now)
  <2>1. schedule' = Claim(s, now, until, tokens + 1)
    BY <1>2, <1>7 DEF ClaimAttempt
  <2>2. schedule'.inFlight = a /\ schedule'.pending = IF HasInFlight(s) THEN s.pending ELSE NoWindow
    <3> HIDE DEF a
    <3> QED BY <1>4, <2>1 DEF Claim, Good, Schedules, a
  <2>3. CASE HasInFlight(s)
    <3>1. /\ a.generation = s.inFlight.generation /\ a.openedAt = s.inFlight.openedAt
          /\ a.dueAt = s.inFlight.dueAt /\ a.attempts = s.inFlight.attempts
          /\ a.failure = s.inFlight.failure /\ a.provider = s.inFlight.provider
      BY SMTT(60), <1>4, <2>3 DEF ClaimedAttempt, Good, Schedules, Attempts
    <3>2. s.inFlight = schedule.inFlight
      BY SMTT(60), <1>4, <2>3 DEF KeptOrStored, NoAttempt
    <3> HIDE DEF a
    <3>3. HolderStep
      BY SMTT(60), <2>2, <3>1, <3>2 DEF HolderStep
    <3>4. WindowStep
      BY SMTT(60), <1>4, <1>5, <2>2, <2>3, <3>1, <3>2 DEF WindowStep, SameWindow, KeptOrStored
    <3> QED BY <3>3, <3>4
  <2>4. CASE ~HasInFlight(s)
    <3>1. /\ a.generation = s.pending.generation /\ a.openedAt = s.pending.openedAt
          /\ a.dueAt = s.pending.dueAt
      BY <1>4, <2>4 DEF ClaimedAttempt, NoAttempt
    <3>2. HasPending(s)
      BY SMTT(60), <1>7, <2>4 DEF Claimable
    <3> HIDE DEF a
    <3>3. HolderStep
      <4>1. CASE HasInFlight(schedule) /\ s.pending = schedule.pending
        <5>1. a.generation # schedule.inFlight.generation
          BY <3>1, <3>2, <4>1 DEF Inv, Good, GoodPair, Schedules, Windows, Attempts
        <5> QED BY <2>2, <5>1 DEF HolderStep
      <4>2. CASE HasInFlight(schedule) /\ s.pending # schedule.pending
        <5>1. s.pending = NoWindow
          BY SMTT(60), <1>1, <1>2, <1>3, <4>2, ReconcileShape DEF Inv
        <5> QED BY <3>2, <5>1 DEF NoWindow
      <4> QED BY SMTT(60), <4>1, <4>2 DEF HolderStep
    <3>4. WindowStep
      <4>1. HasInFlight(schedule) => Stored(schedule.inFlight.target)
        BY <1>4, <2>4 DEF KeptOrStored
      <4> QED BY <1>4, <1>5, <2>2, <3>1, <4>1 DEF WindowStep, SameWindow, KeptOrStored, Stored
    <3> QED BY <3>3, <3>4
  <2> QED BY <2>3, <2>4
<1> QED BY <1>6, <1>7

LEMMA UpsertSteps ==
    ASSUME Inv, NEW n \in Sizes, NEW lag \in 0 .. MaxLag, UpsertCandidate(n, lag)
    PROVE  HolderStep /\ WindowStep
<1> DEFINE c == [target |-> n, observedAt |-> clock - lag,
                 dueAt |-> (clock - lag) + AnchorMaxDelay]
<1>1. schedule' = MergeCandidate(schedule, c, MergeLatest(n)) /\ results' = results
  BY DEF UpsertCandidate
<1>2. schedule \in Schedules /\ schedule.pending \in Windows
  BY DEF Inv, TypeOK, Schedules
<1> HIDE DEF c
<1>3. /\ schedule'.inFlight = schedule.inFlight
      /\ HasPending(schedule) => SameWindow(schedule.pending, schedule'.pending)
  BY <1>1, <1>2 DEF MergeCandidate, OpenWindow, ExtendWindow, SameWindow, Schedules, Windows
<1>4. HolderStep
  BY <1>3 DEF HolderStep
<1>5. WindowStep
  BY <1>3 DEF WindowStep, SameWindow
<1> QED BY <1>4, <1>5

(* The three operations of the lease holder on its attempt. *)
LEMMA HolderSteps ==
    ASSUME Inv, NEW w \in Workers, worker[w].phase \in {"publishing", "persisting"},
           worker'[w] # worker[w],
           schedule' # schedule =>
               Fenced(schedule, worker[w].attempt.generation, worker[w].attempt.token),
           schedule'.pending = schedule.pending,
           SameWindow(schedule.inFlight, schedule'.inFlight)
    PROVE  HolderStep /\ WindowStep
<1>1. HolderStep
  BY DEF HolderStep, Fenced
<1>2. WindowStep
  BY DEF WindowStep, SameWindow
<1> QED BY <1>1, <1>2

LEMMA CompleteSteps ==
    ASSUME Inv, NEW w \in Workers, CompleteAttempt(w)
    PROVE  HolderStep /\ WindowStep
<1> DEFINE n == worker[w].attempt.target
<1>1. CASE CompletionRepeats(w) \/ CompletionAllowed(w)
  <2>1. /\ results' = [results EXCEPT ![n] = worker[w].anchor]
        /\ schedule' = ReconcileCompleted(schedule, n)
        /\ worker[w].phase = "persisting" /\ worker[w].outcome = "published"
    BY <1>1 DEF CompleteAttempt
  <2>2. n \in Sizes /\ n \in Nat /\ worker[w].anchor \in Nat \ {0}
    BY <1>1, <2>1, CompletionFacts
  <2> HIDE DEF n
  <2>3. results'[n] # 0 /\ StoredSizes' = StoredSizes \cup {n}
    BY ZenonT(60), <2>1, <2>2, ResultWritten DEF Inv, TypeOK
  <2>4. /\ \/ schedule'.inFlight = NoAttempt /\ schedule.inFlight.target = n
           \/ schedule'.inFlight = schedule.inFlight
        /\ \/ schedule'.pending = NoWindow /\ schedule.pending.target <= n
           \/ schedule'.pending = schedule.pending
    BY <2>1, <2>2, ReconcileGood DEF Inv
  <2>5. NoAttempt.generation = 0
    BY DEF NoAttempt
  <2>6. HolderStep
    BY SMTT(60), <2>4, <2>5 DEF HolderStep
  <2>7. WindowStep
    BY SMTT(60), <2>3, <2>4 DEF WindowStep, SameWindow
  <2> QED BY <2>6, <2>7
<1>2. CASE ~CompletionRepeats(w) /\ ~CompletionAllowed(w)
  BY <1>2, KeptSteps DEF CompleteAttempt, KeptOrStored
<1> QED BY SMTT(60), <1>1, <1>2

LEMMA RestoreSteps == ASSUME Inv, Restore PROVE HolderStep /\ WindowStep
<1> DEFINE s == ClearLeaseForRestore(schedule)
           r == ReconciledInFlight(s)
<1>1. /\ results' = results
      /\ schedule' = IF HasPending(r) /\ ScanLatest > 0
                     THEN ReconcileCompleted(r, ScanLatest) ELSE r
  BY DEF Restore
<1>2. IsGreatest(ScanLatest, StoredSizes)
  BY ScanFacts DEF Inv
<1>3. Good(s) /\ s.pending = schedule.pending /\ s.inFlight.target = schedule.inFlight.target
  BY ClearLeaseGood DEF Inv
<1>4. /\ SameWindow(schedule.inFlight, s.inFlight)
      /\ s.inFlight.attempts = schedule.inFlight.attempts
      /\ s.inFlight.failure = schedule.inFlight.failure
      /\ s.inFlight.provider = schedule.inFlight.provider
  BY DEF ClearLeaseForRestore, SameWindow, Inv, TypeOK, Schedules, Attempts
<1>5. r = ReconciledInFlight(s)
  OBVIOUS
<1> HIDE DEF s, r
<1>6. KeptOrStored(s, schedule')
  BY SMTT(60), <1>1, <1>2, <1>3, <1>5, ReconcileKept
<1>7. StoredSizes' = StoredSizes /\ NoAttempt.generation = 0
  BY SMTT(60), <1>1 DEF StoredSizes, NoAttempt
<1>8. HolderStep
  BY SMTT(60), <1>4, <1>6, <1>7 DEF HolderStep, KeptOrStored, SameWindow
<1>9. WindowStep
  BY SMTT(60), <1>1, <1>3, <1>4, <1>6, <1>7 DEF WindowStep, KeptOrStored, SameWindow, Stored
<1> QED BY <1>8, <1>9

LEMMA StepProperties == Inv /\ [Next]_vars => HolderStep /\ WindowStep
<1> SUFFICES ASSUME Inv, [Next]_vars PROVE HolderStep /\ WindowStep
  OBVIOUS
<1>0. schedule \in Schedules /\ schedule.inFlight \in Attempts
      /\ \A w \in Workers : worker[w] \in WorkerStates /\ worker[w].attempt \in Attempts
  BY DEF Inv, TypeOK, Schedules, WorkerStates
<1>1. CASE schedule' = schedule /\ (results' = results \/ \E w \in Workers : StopAfterResult(w))
  <2>1. HolderStep
    BY <1>1 DEF HolderStep
  <2>2. WindowStep
    BY <1>1 DEF WindowStep, SameWindow
  <2> QED BY <2>1, <2>2
<1>2. ASSUME NEW n \in Sizes, NEW lag \in 0 .. MaxLag, UpsertCandidate(n, lag)
      PROVE  HolderStep /\ WindowStep
  BY <1>2, UpsertSteps
<1>3. ASSUME NEW w \in Workers, CheckpointProvider(w) PROVE HolderStep /\ WindowStep
  <2> DEFINE a == worker[w].attempt
             next == a.provider + 1
  <2>1. CASE SwapAllowed(schedule, a.generation, a.token, clock, a.provider, next)
    <3> DEFINE b == [a EXCEPT !.provider = next]
               x == [worker[w] EXCEPT !.attempt = b]
    <3>1. schedule' = SwapProvider(schedule, next) /\ worker' = [worker EXCEPT ![w] = x]
          /\ worker[w].phase = "publishing"
      BY <1>3, <2>1 DEF CheckpointProvider
    <3>2. b.provider # a.provider
      BY <1>0 DEF Attempts
    <3>3. x.attempt = b
      <4> HIDE DEF b
      <4> QED BY <1>0 DEF WorkerStates
    <3>4. worker'[w] = x
      <4> HIDE DEF x
      <4> QED BY <3>1 DEF Inv, TypeOK
    <3>5. worker'[w] # worker[w]
      <4> HIDE DEF b, x
      <4> QED BY <3>2, <3>3, <3>4
    <3>6. schedule'.pending = schedule.pending /\ SameWindow(schedule.inFlight, schedule'.inFlight)
      BY <1>0, <3>1 DEF SwapProvider, SameWindow, Schedules, Attempts
    <3> QED BY SMTT(60), <2>1, <3>1, <3>5, <3>6, HolderSteps DEF SwapAllowed
  <2>2. CASE ~SwapAllowed(schedule, a.generation, a.token, clock, a.provider, next)
    BY <1>1, <1>3, <2>2 DEF CheckpointProvider
  <2> QED BY SMTT(60), <2>1, <2>2
<1>4. ASSUME NEW w \in Workers, FailAttempt(w) \/ RescheduleAttempt(w)
      PROVE  HolderStep /\ WindowStep
  <2>1. worker[w].phase = "persisting" /\ worker' = [worker EXCEPT ![w] = Idle]
    BY <1>4 DEF FailAttempt, RescheduleAttempt
  <2>2. worker'[w] # worker[w]
    BY SMTT(60), <2>1, IdleOK DEF Inv, TypeOK
  <2>3. schedule' # schedule =>
            Fenced(schedule, worker[w].attempt.generation, worker[w].attempt.token)
    BY SMTT(60), <1>4 DEF FailAttempt, RescheduleAttempt, FailAllowed, RescheduleAllowed
  <2>4. \/ schedule' = schedule
        \/ \E k : schedule' = Fail(schedule, k)
        \/ \E k, next : schedule' = Reschedule(schedule, k, next)
    BY <1>4 DEF FailAttempt, RescheduleAttempt
  <2>5. schedule'.pending = schedule.pending /\ SameWindow(schedule.inFlight, schedule'.inFlight)
    <3>1. CASE schedule' = schedule
      BY <3>1 DEF SameWindow
    <3>2. ASSUME NEW k, schedule' = Fail(schedule, k)
          PROVE  schedule'.pending = schedule.pending
                 /\ SameWindow(schedule.inFlight, schedule'.inFlight)
      BY ZenonT(60), <1>0, <3>2 DEF Fail, SameWindow, Schedules, Attempts
    <3>3. ASSUME NEW k, NEW next, schedule' = Reschedule(schedule, k, next)
          PROVE  schedule'.pending = schedule.pending
                 /\ SameWindow(schedule.inFlight, schedule'.inFlight)
      BY ZenonT(60), <1>0, <3>3 DEF Reschedule, SameWindow, Schedules, Attempts
    <3> QED BY <2>4, <3>1, <3>2, <3>3
  <2> QED BY SMTT(60), <2>1, <2>2, <2>3, <2>5, HolderSteps
<1>5. ASSUME NEW w \in Workers, StartTick(w) \/ AbandonTick(w) \/ StopAfterReference(w)
                                \/ StopAfterResult(w)
      PROVE  HolderStep /\ WindowStep
  <2>1. schedule' = schedule /\ (results' = results \/ StopAfterResult(w))
    BY <1>5 DEF StartTick, AbandonTick, StopAfterReference, StopAfterResult
  <2> QED BY <1>1, <2>1
<1>6. ASSUME NEW w \in Workers, NEW outcome, NEW anchor, SinkReturns(w, outcome, anchor)
      PROVE  HolderStep /\ WindowStep
  BY <1>1, <1>6 DEF SinkReturns
<1>7. CASE Tick \/ UNCHANGED vars
  BY <1>1, <1>7 DEF Tick, vars
<1> QED BY SMTT(60), <1>2, <1>3, <1>4, <1>5, <1>6, <1>7, ClaimSteps, CompleteSteps, RestoreSteps
        DEF Next, WorkerStep, Fault

(* Only a step of the worker whose token the attempt carries changes the
   attempt count, the failure or the provider state: a worker whose lease was
   taken over is fenced off, however late it comes back. *)
THEOREM HolderOnlyHolds == Spec => HolderOnly
<1>1. Inv /\ [Next]_vars => [HolderStep]_vars
  BY StepProperties
<1> QED BY <1>1, SpecInv, PTL DEF Spec, HolderOnly

(* A window keeps the opening time and deadline it was opened with until a
   stored result ends it: newer heads coalesce into it without delaying it. *)
THEOREM DeadlineFixedHolds == Spec => DeadlineFixed
<1>1. Inv /\ [Next]_vars => [WindowStep]_vars
  BY StepProperties
<1> QED BY <1>1, SpecInv, PTL DEF Spec, DeadlineFixed

(* No step moves the deadline of a window or changes an attempt without holding
   its token. *)
THEOREM AttemptsFencedHolds == Spec => AttemptsFenced
BY HolderOnlyHolds, DeadlineFixedHolds, PTL DEF AttemptsFenced
=============================================================================
