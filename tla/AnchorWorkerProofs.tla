------------------------- MODULE AnchorWorkerProofs -------------------------
(***************************************************************************)
(* Theorems about AnchorWorker for every number of workers, every log      *)
(* size, every time limit and every number of faults.                      *)
(***************************************************************************)
EXTENDS AnchorWorker, TLAPS, WellFoundedInduction

(* A nonempty set of tree sizes has a greatest element, so the directory scan
   is well defined. *)
LEMMA GreatestExists ==
    ASSUME NEW T, T \subseteq Sizes, T # {}
    PROVE  \E n \in T : \A m \in T : m <= n
<1> DEFINE D == {MaxTree - n : n \in T}
<1>1. D \subseteq Nat
  BY TreeAssumption DEF Sizes
<1>2. D # {}
  OBVIOUS
<1>3. PICK d \in D : \A e \in D : ~(<<e, d>> \in OpToRel(<, Nat))
  <2>1. IsWellFoundedOn(OpToRel(<, Nat), Nat)
    BY ZenonT(60), NatLessThanWellFounded
  <2> HIDE DEF D
  <2> QED BY ZenonT(60), <2>1, <1>1, <1>2, WFMin
<1>4. \A e \in D : ~(e < d)
  BY ZenonT(60), <1>1, <1>3 DEF OpToRel
<1>5. PICK n \in T : d = MaxTree - n
  OBVIOUS
<1>6. ASSUME NEW m \in T PROVE m <= n
  <2>1. MaxTree - m \in D
    OBVIOUS
  <2>2. ~(MaxTree - m < MaxTree - n)
    BY <2>1, <1>4, <1>5
  <2> QED BY <2>2, TreeAssumption DEF Sizes
<1> QED BY <1>6

(* What a validated schedule is, without its revision, and with the one fact
   ValidateSchedule leaves to the leased case: a retryable attempt that has
   failed before keeps a retry deadline while it is leased, so the schedule
   stays valid when a restore clears the lease. *)
GoodWindow(w) ==
    /\ w \in Windows
    /\ w.generation = 0 => w = NoWindow
    /\ w.generation > 0 => ValidWindow(w)

GoodAttempt(a) ==
    /\ a \in Attempts
    /\ a.generation = 0 => a = NoAttempt
    /\ a.generation > 0 => /\ ValidAttempt(a)
                           /\ a.failure # "terminal" /\ a.attempts > 0 => a.nextAttempt > 0

GoodPair(w, a) ==
    w.generation > 0 /\ a.generation > 0 =>
        w.generation > a.generation /\ w.target > a.target

Good(s) ==
    /\ s \in Schedules
    /\ GoodWindow(s.pending)
    /\ GoodAttempt(s.inFlight)
    /\ GoodPair(s.pending, s.inFlight)
    /\ s.nextGeneration > s.pending.generation
    /\ s.nextGeneration > s.inFlight.generation

Candidates == [target : Nat \ {0}, observedAt : Nat \ {0}, dueAt : Nat]

USE DEF Exists, HasPending, HasInFlight, HasLease

LEMMA EmptyGood == GoodWindow(NoWindow) /\ GoodAttempt(NoAttempt) /\ Good(NoSchedule)
<1>1. GoodWindow(NoWindow) /\ NoWindow.generation = 0
  BY DEF GoodWindow, NoWindow, Windows
<1>2. GoodAttempt(NoAttempt) /\ NoAttempt.generation = 0
  BY DEF GoodAttempt, NoAttempt, Attempts, Failures
<1> QED BY <1>1, <1>2 DEF Good, NoSchedule, Schedules, GoodPair, GoodWindow, GoodAttempt

LEMMA GoodIsValid ==
    ASSUME NEW s, Good(s), s.revision > 0
    PROVE  ValidateSchedule(s)
BY DEF Good, GoodWindow, GoodAttempt, GoodPair, ValidateSchedule, Schedules, Windows, Attempts

LEMMA MergeGood ==
    ASSUME NEW s, Good(s), NEW c \in Candidates, c.dueAt >= c.observedAt, NEW latest \in Nat
    PROVE  Good(MergeCandidate(s, c, latest))
<1> DEFINE m == MergeCandidate(s, c, latest)
<1> SUFFICES Good(m)
  OBVIOUS
<1>0. /\ s \in Schedules /\ s.pending \in Windows /\ s.inFlight \in Attempts
      /\ s.nextGeneration \in Nat /\ s.nextGeneration + 1 \in Nat /\ s.revision + 1 \in Nat
      /\ c.target \in Nat /\ c.target > 0 /\ s.inFlight.target \in Nat /\ s.pending.target \in Nat
      /\ s.pending.generation \in Nat /\ s.inFlight.generation \in Nat
  BY DEF Good, Schedules, Windows, Attempts, Candidates
<1>1. CASE c.target <= latest
  <2>1. m = [s EXCEPT !.revision = IF s.revision > 0 THEN s.revision ELSE 1]
    BY <1>1 DEF MergeCandidate
  <2>2. /\ m \in Schedules /\ m.pending = s.pending /\ m.inFlight = s.inFlight
        /\ m.nextGeneration = s.nextGeneration
    BY <1>0, <2>1 DEF Schedules
  <2> HIDE DEF m
  <2> QED BY <2>2 DEF Good
<1>2. CASE c.target > latest /\ (c.target <= s.inFlight.target \/ c.target <= s.pending.target)
  <2>1. m = s
    BY <1>0, <1>2 DEF MergeCandidate
  <2> QED BY <2>1
<1>3. CASE c.target > latest /\ c.target > s.inFlight.target /\ c.target > s.pending.target
           /\ HasPending(s)
  <2> DEFINE w == [s.pending EXCEPT !.target = c.target,
                                    !.updatedAt = MaxOf(s.pending.updatedAt, c.observedAt)]
  <2>1. m = [s EXCEPT !.pending = w, !.revision = s.revision + 1]
    BY <1>0, <1>3 DEF MergeCandidate, ExtendWindow
  <2>a. ValidWindow(s.pending) /\ MaxOf(s.pending.updatedAt, c.observedAt) \in Nat
        /\ MaxOf(s.pending.updatedAt, c.observedAt) >= s.pending.updatedAt
    BY <1>0, <1>3 DEF Good, GoodWindow, Windows, Candidates, MaxOf
  <2>b. w \in Windows /\ w.generation = s.pending.generation /\ w.target = c.target
        /\ w.openedAt = s.pending.openedAt /\ w.dueAt = s.pending.dueAt
        /\ w.updatedAt = MaxOf(s.pending.updatedAt, c.observedAt)
    BY ZenonT(60), <1>0, <2>a DEF Windows
  <2>2. w \in Windows /\ w.generation = s.pending.generation /\ w.target = c.target /\ ValidWindow(w)
    BY <1>0, <2>a, <2>b DEF ValidWindow, Windows
  <2> HIDE DEF w
  <2>3. /\ m \in Schedules /\ m.pending = w /\ m.inFlight = s.inFlight
        /\ m.nextGeneration = s.nextGeneration
    BY ZenonT(60), <1>0, <2>1, <2>2 DEF Schedules
  <2> HIDE DEF m
  <2> QED BY <1>0, <1>3, <2>2, <2>3 DEF Good, GoodWindow, GoodPair
<1>4. CASE c.target > latest /\ c.target > s.inFlight.target /\ c.target > s.pending.target
           /\ ~HasPending(s)
  <2> DEFINE w == [generation |-> s.nextGeneration, target |-> c.target,
                   openedAt |-> c.observedAt, dueAt |-> c.dueAt, updatedAt |-> c.observedAt]
  <2>1. m = [s EXCEPT !.pending = w, !.nextGeneration = s.nextGeneration + 1,
                      !.revision = s.revision + 1]
    BY <1>0, <1>4 DEF MergeCandidate, OpenWindow
  <2>2. w \in Windows /\ w.generation = s.nextGeneration /\ w.target = c.target /\ ValidWindow(w)
    BY <1>0, <1>4 DEF ValidWindow, Windows, Candidates
  <2> HIDE DEF w
  <2>3. /\ m \in Schedules /\ m.pending = w /\ m.inFlight = s.inFlight
        /\ m.nextGeneration = s.nextGeneration + 1
    BY ZenonT(60), <1>0, <2>1, <2>2 DEF Schedules
  <2> HIDE DEF m
  <2> QED BY <1>0, <1>4, <2>2, <2>3 DEF Good, GoodWindow, GoodPair
<1> QED BY <1>0, <1>1, <1>2, <1>3, <1>4

(* Replacing the attempt of a good schedule by a good attempt on the same
   window keeps the schedule good. *)
LEMMA AttemptGood ==
    ASSUME NEW s, Good(s), NEW a, GoodAttempt(a), NEW t,
           t = [s EXCEPT !.inFlight = a, !.revision = s.revision + 1],
           a.generation = s.inFlight.generation, a.target = s.inFlight.target
    PROVE  Good(t)
<1>1. s.revision + 1 \in Nat
  BY DEF Good, Schedules
<1>2. /\ t \in Schedules /\ t.pending = s.pending /\ t.inFlight = a
      /\ t.nextGeneration = s.nextGeneration
  BY ZenonT(60), <1>1 DEF Good, GoodAttempt, Schedules
<1> QED BY <1>2 DEF Good, GoodPair

LEMMA ClaimGood ==
    ASSUME NEW s, Good(s), NEW now \in Nat, NEW until \in Nat, NEW token \in Nat,
           now > 0, until > now, token > 0, Claimable(s, now)
    PROVE  /\ Good(Claim(s, now, until, token))
           /\ ClaimedAttempt(s, now, until, token) \in Attempts
<1> DEFINE a == ClaimedAttempt(s, now, until, token)
           t == Claim(s, now, until, token)
<1> SUFFICES Good(t) /\ a \in Attempts
  OBVIOUS
<1>0. s \in Schedules /\ s.inFlight \in Attempts /\ s.pending \in Windows /\ s.revision + 1 \in Nat
  BY SMTT(60) DEF Good, Schedules
<1>1. CASE HasInFlight(s)
  <2>1. a = [s.inFlight EXCEPT !.token = token, !.leaseUntil = until,
                               !.lastAttempt = now, !.nextAttempt = now]
    BY <1>1 DEF ClaimedAttempt
  <2>2. /\ a \in Attempts /\ a.generation = s.inFlight.generation /\ a.target = s.inFlight.target
        /\ a.token = token /\ a.leaseUntil = until /\ a.lastAttempt = now /\ a.nextAttempt = now
        /\ a.openedAt = s.inFlight.openedAt /\ a.dueAt = s.inFlight.dueAt
        /\ a.failure = s.inFlight.failure /\ a.attempts = s.inFlight.attempts
    <3>1. a \in Attempts
      BY ZenonT(60), <1>0, <2>1 DEF Attempts
    <3>2. /\ a.generation = s.inFlight.generation /\ a.target = s.inFlight.target
          /\ a.token = token /\ a.leaseUntil = until /\ a.lastAttempt = now /\ a.nextAttempt = now
      BY ZenonT(60), <1>0, <2>1 DEF Attempts
    <3>3. /\ a.openedAt = s.inFlight.openedAt /\ a.dueAt = s.inFlight.dueAt
          /\ a.failure = s.inFlight.failure /\ a.attempts = s.inFlight.attempts
      BY ZenonT(60), <1>0, <2>1 DEF Attempts
    <3> QED BY <3>1, <3>2, <3>3
  <2>3. t = [s EXCEPT !.inFlight = a, !.revision = s.revision + 1]
    BY ZenonT(60), <1>0, <1>1 DEF Claim, Schedules
  <2> HIDE DEF a, t
  <2>4. ValidAttempt(s.inFlight) /\ s.inFlight.failure # "terminal"
    BY <1>1 DEF Good, GoodAttempt, Claimable
  <2>5. GoodAttempt(a)
    BY <1>0, <1>1, <2>2, <2>4 DEF GoodAttempt, ValidAttempt, Attempts
  <2> QED BY ZenonT(60), <1>0, <2>2, <2>3, <2>5, AttemptGood
<1>2. CASE ~HasInFlight(s)
  <2>1. /\ a \in Attempts /\ a.generation = s.pending.generation /\ a.target = s.pending.target
        /\ a.token = token /\ a.leaseUntil = until /\ a.lastAttempt = now /\ a.nextAttempt = 0
        /\ a.openedAt = s.pending.openedAt /\ a.dueAt = s.pending.dueAt
        /\ a.failure = "none" /\ a.attempts = 0
    BY ZenonT(60), <1>0, <1>2 DEF Attempts, Windows, ClaimedAttempt, NoAttempt, Failures
  <2>2. t = [s EXCEPT !.pending = NoWindow, !.inFlight = a, !.revision = s.revision + 1]
    BY ZenonT(60), <1>0, <1>2 DEF Claim, Schedules
  <2> HIDE DEF a
  <2>3. NoWindow \in Windows /\ NoWindow.generation = 0 /\ GoodWindow(NoWindow)
    BY EmptyGood DEF GoodWindow, NoWindow
  <2>4. /\ t \in Schedules /\ t.pending = NoWindow /\ t.inFlight = a
        /\ t.nextGeneration = s.nextGeneration
    BY ZenonT(60), <1>0, <2>1, <2>2, <2>3 DEF Schedules
  <2> HIDE DEF t
  <2>5. s.pending.generation > 0 /\ ValidWindow(s.pending)
    BY <1>0, <1>2 DEF Claimable, Good, GoodWindow, Windows
  <2>6. GoodAttempt(a)
    BY <1>0, <2>1, <2>5 DEF GoodAttempt, ValidAttempt, ValidWindow, Windows
  <2>7. Good(t)
    BY <1>0, <2>1, <2>3, <2>4, <2>5, <2>6 DEF Good, GoodPair, Windows, Schedules
  <2> QED BY <2>1, <2>7
<1> QED BY <1>1, <1>2

LEMMA SwapGood ==
    ASSUME NEW s, Good(s), NEW next \in Nat, HasInFlight(s)
    PROVE  Good(SwapProvider(s, next))
<1> DEFINE a == [s.inFlight EXCEPT !.provider = next]
<1>0. s.inFlight \in Attempts /\ ValidAttempt(s.inFlight) /\ s.revision + 1 \in Nat
  BY DEF Good, GoodAttempt, Schedules
<1>1. /\ a \in Attempts /\ a.generation = s.inFlight.generation /\ a.target = s.inFlight.target
      /\ a.openedAt = s.inFlight.openedAt /\ a.dueAt = s.inFlight.dueAt
      /\ a.lastAttempt = s.inFlight.lastAttempt
      /\ a.attempts = s.inFlight.attempts /\ a.nextAttempt = s.inFlight.nextAttempt
      /\ a.failure = s.inFlight.failure /\ a.token = s.inFlight.token
      /\ a.leaseUntil = s.inFlight.leaseUntil
  BY <1>0 DEF Attempts, Failures
<1>2. GoodAttempt(a)
  <2> HIDE DEF a
  <2> QED BY <1>0, <1>1 DEF Good, GoodAttempt, ValidAttempt, Attempts
<1>3. SwapProvider(s, next) = [s EXCEPT !.inFlight = a, !.revision = s.revision + 1]
  BY SMTT(60) DEF SwapProvider
<1> HIDE DEF a
<1> QED BY ZenonT(60), <1>0, <1>1, <1>2, <1>3, AttemptGood

LEMMA RescheduleGood ==
    ASSUME NEW s, Good(s), HasInFlight(s), NEW attempts \in Nat, NEW next \in Nat,
           attempts > s.inFlight.attempts, next >= s.inFlight.lastAttempt
    PROVE  Good(Reschedule(s, attempts, next))
<1> DEFINE a == [s.inFlight EXCEPT !.attempts = attempts, !.nextAttempt = next,
                                   !.failure = "retryable", !.token = 0, !.leaseUntil = 0]
<1>0. s.inFlight \in Attempts /\ ValidAttempt(s.inFlight) /\ s.revision + 1 \in Nat
  BY DEF Good, GoodAttempt, Schedules
<1>1. /\ a \in Attempts /\ a.generation = s.inFlight.generation /\ a.target = s.inFlight.target
      /\ a.openedAt = s.inFlight.openedAt /\ a.dueAt = s.inFlight.dueAt
      /\ a.lastAttempt = s.inFlight.lastAttempt
      /\ a.attempts = attempts /\ a.nextAttempt = next
      /\ a.failure = "retryable" /\ a.token = 0 /\ a.leaseUntil = 0
  BY ZenonT(60), <1>0 DEF Attempts, Failures
<1>2. GoodAttempt(a)
  <2> HIDE DEF a
  <2> QED BY <1>0, <1>1 DEF Good, GoodAttempt, ValidAttempt, Attempts
<1>3. Reschedule(s, attempts, next) = [s EXCEPT !.inFlight = a, !.revision = s.revision + 1]
  BY DEF Reschedule
<1> HIDE DEF a
<1> QED BY ZenonT(60), <1>0, <1>1, <1>2, <1>3, AttemptGood

LEMMA FailGood ==
    ASSUME NEW s, Good(s), HasInFlight(s), NEW attempts \in Nat, attempts > s.inFlight.attempts
    PROVE  Good(Fail(s, attempts))
<1> DEFINE a == [s.inFlight EXCEPT !.attempts = attempts, !.nextAttempt = 0,
                                   !.failure = "terminal", !.token = 0, !.leaseUntil = 0]
<1>0. s.inFlight \in Attempts /\ ValidAttempt(s.inFlight) /\ s.revision + 1 \in Nat
  BY DEF Good, GoodAttempt, Schedules
<1>1. /\ a \in Attempts /\ a.generation = s.inFlight.generation /\ a.target = s.inFlight.target
      /\ a.openedAt = s.inFlight.openedAt /\ a.dueAt = s.inFlight.dueAt
      /\ a.lastAttempt = s.inFlight.lastAttempt
      /\ a.attempts = attempts /\ a.nextAttempt = 0
      /\ a.failure = "terminal" /\ a.token = 0 /\ a.leaseUntil = 0
  BY ZenonT(60), <1>0 DEF Attempts, Failures
<1>2. GoodAttempt(a)
  <2> HIDE DEF a
  <2> QED BY <1>0, <1>1 DEF Good, GoodAttempt, ValidAttempt, Attempts
<1>3. Fail(s, attempts) = [s EXCEPT !.inFlight = a, !.revision = s.revision + 1]
  BY DEF Fail
<1> HIDE DEF a
<1> QED BY ZenonT(60), <1>0, <1>1, <1>2, <1>3, AttemptGood

(* What reconciling with a stored result of some size does to a schedule. *)
LEMMA ReconcileGood ==
    ASSUME NEW s, Good(s), NEW size \in Nat, NEW t, t = ReconcileCompleted(s, size)
    PROVE  /\ Good(t)
           /\ HasInFlight(s) /\ s.inFlight.target = size => t.inFlight = NoAttempt
           /\ ~(HasInFlight(s) /\ s.inFlight.target = size) => t.inFlight = s.inFlight
           /\ HasPending(s) /\ s.pending.target <= size => t.pending = NoWindow
           /\ ~(HasPending(s) /\ s.pending.target <= size) => t.pending = s.pending
<1>1. NoWindow.generation = 0 /\ NoAttempt.generation = 0 /\ NoWindow \in Windows /\ NoAttempt \in Attempts
  BY EmptyGood DEF NoWindow, NoAttempt, GoodWindow, GoodAttempt
<1>2. s \in Schedules /\ s.revision \in Nat /\ s.revision + 1 \in Nat /\ s.pending.generation \in Nat /\ s.inFlight.generation \in Nat
      /\ s.nextGeneration \in Nat
  BY DEF Good, Schedules, Windows, Attempts
<1>3. /\ t \in Schedules /\ t.nextGeneration = s.nextGeneration
      /\ t.inFlight = IF HasInFlight(s) /\ s.inFlight.target = size THEN NoAttempt ELSE s.inFlight
      /\ t.pending = IF HasPending(s) /\ s.pending.target <= size THEN NoWindow ELSE s.pending
  BY ZenonT(60), <1>1, <1>2 DEF ReconcileCompleted, Schedules
<1> QED BY <1>1, <1>2, <1>3, EmptyGood DEF Good, GoodPair

LEMMA ClearLeaseGood ==
    ASSUME NEW s, Good(s), NEW t, t = ClearLeaseForRestore(s)
    PROVE  /\ Good(t)
           /\ t.pending = s.pending
           /\ t.inFlight.generation = s.inFlight.generation
           /\ t.inFlight.target = s.inFlight.target
<1>1. CASE HasInFlight(s) /\ HasLease(s.inFlight)
  <2> DEFINE a == [s.inFlight EXCEPT !.token = 0, !.leaseUntil = 0]
  <2>0. s \in Schedules /\ s.inFlight \in Attempts /\ ValidAttempt(s.inFlight) /\ s.revision + 1 \in Nat
    BY <1>1 DEF Good, GoodAttempt, Schedules
  <2>1. /\ a \in Attempts /\ a.generation = s.inFlight.generation /\ a.target = s.inFlight.target
        /\ a.openedAt = s.inFlight.openedAt /\ a.dueAt = s.inFlight.dueAt
        /\ a.lastAttempt = s.inFlight.lastAttempt
        /\ a.attempts = s.inFlight.attempts /\ a.nextAttempt = s.inFlight.nextAttempt
        /\ a.failure = s.inFlight.failure /\ a.token = 0 /\ a.leaseUntil = 0
    BY ZenonT(60), <2>0 DEF Attempts
  <2>2. GoodAttempt(a)
    <3> HIDE DEF a
    <3> QED BY <1>1, <2>0, <2>1 DEF Good, GoodAttempt, ValidAttempt, Attempts
  <2>3. t = [s EXCEPT !.inFlight = a, !.revision = s.revision + 1]
    BY <1>1 DEF ClearLeaseForRestore
  <2>4. t.pending = s.pending /\ t.inFlight = a
    BY <2>0, <2>3 DEF Schedules
  <2> HIDE DEF a
  <2> QED BY ZenonT(60), <2>0, <2>1, <2>2, <2>3, <2>4, AttemptGood
<1>2. CASE ~(HasInFlight(s) /\ HasLease(s.inFlight))
  BY <1>2 DEF ClearLeaseForRestore
<1> QED BY <1>1, <1>2

-----------------------------------------------------------------------------
(* The latest result: a read finds the greatest stored size as long as the
   reference bounds the stored sizes from above. *)

RefOK(ref, S) ==
    /\ ref \in References
    /\ ref.kind = "empty" => S = {}
    /\ ref.kind = "result" => \A m \in S : m <= ref.candidate

IsGreatest(n, S) ==
    /\ n \in Nat
    /\ S = {} => n = 0
    /\ S # {} => n \in S /\ \A m \in S : m <= n

LEMMA ScanFacts ==
    ASSUME TypeOK
    PROVE  /\ IsGreatest(ScanLatest, StoredSizes)
           /\ ScanLatest = 0 <=> StoredSizes = {}
<1>1. StoredSizes \subseteq Sizes /\ StoredSizes \subseteq Nat \ {0}
  BY TreeAssumption DEF StoredSizes, Sizes
<1>2. CASE StoredSizes = {}
  BY <1>2 DEF ScanLatest, IsGreatest
<1>3. CASE StoredSizes # {}
  <2>1. \E n \in StoredSizes : \A m \in StoredSizes : m <= n
    BY ZenonT(60), <1>1, <1>3, GreatestExists
  <2>2. ScanLatest \in StoredSizes /\ \A m \in StoredSizes : m <= ScanLatest
    BY <1>3, <2>1 DEF ScanLatest
  <2> QED BY <1>1, <1>3, <2>2 DEF IsGreatest
<1> QED BY <1>2, <1>3

LEMMA LatestFacts ==
    ASSUME TypeOK, RefOK(latestRef, StoredSizes)
    PROVE  /\ LatestResult = ScanLatest
           /\ IsGreatest(LatestResult, StoredSizes)
           /\ LatestResult = 0 <=> StoredSizes = {}
           /\ RefOK(ReferenceAfterRead, StoredSizes)
<1>1. IsGreatest(ScanLatest, StoredSizes) /\ (ScanLatest = 0 <=> StoredSizes = {})
  BY ScanFacts
<1>2. StoredSizes \subseteq Nat
  BY TreeAssumption DEF StoredSizes, Sizes
<1>3. CASE latestRef.kind = "empty"
  <2>1. StoredSizes = {} /\ LatestResult = 0 /\ ReferenceAfterRead = latestRef
    BY <1>3 DEF RefOK, LatestResult, ReferenceAfterRead
  <2> QED BY <1>1, <2>1 DEF IsGreatest
<1>4. CASE latestRef.kind # "empty" /\ ReferenceComplete
  <2>1. latestRef.candidate \in StoredSizes /\ \A m \in StoredSizes : m <= latestRef.candidate
    BY <1>4 DEF ReferenceComplete, Stored, StoredSizes, RefOK
  <2>2. LatestResult = latestRef.candidate /\ ReferenceAfterRead = latestRef
    BY <1>4 DEF LatestResult, ReferenceAfterRead
  <2>3. ScanLatest \in StoredSizes /\ \A m \in StoredSizes : m <= ScanLatest
    BY <1>1, <2>1 DEF IsGreatest
  <2>4. ScanLatest = latestRef.candidate
    <3>1. ScanLatest <= latestRef.candidate /\ latestRef.candidate <= ScanLatest
      BY <2>1, <2>3
    <3>2. ScanLatest \in Nat /\ latestRef.candidate \in Nat
      BY ZenonT(60), <1>2, <2>1, <2>3
    <3> QED BY <3>1, <3>2
  <2> QED BY <1>1, <2>2, <2>4
<1>5. CASE latestRef.kind # "empty" /\ ~ReferenceComplete
  <2>1. LatestResult = ScanLatest
    BY <1>5 DEF LatestResult
  <2>2. CASE ScanLatest = 0
    <3>1. ReferenceAfterRead = EmptyReference
      BY <1>5, <2>2 DEF ReferenceAfterRead
    <3>2. EmptyReference \in References /\ EmptyReference.kind = "empty"
      BY DEF EmptyReference, References
    <3> QED BY <1>1, <2>1, <2>2, <3>1, <3>2 DEF RefOK
  <2>3. CASE ScanLatest # 0
    <3> DEFINE r == [kind |-> "result", candidate |-> ScanLatest]
    <3>1. ReferenceAfterRead = r
      BY <1>5, <2>3 DEF ReferenceAfterRead
    <3>2. ScanLatest \in Nat
      BY <1>1 DEF IsGreatest
    <3>3. r \in References /\ r.kind = "result" /\ r.candidate = ScanLatest
      BY <3>2 DEF References
    <3> HIDE DEF r
    <3> QED BY <1>1, <2>1, <3>1, <3>3 DEF RefOK, IsGreatest
  <2> QED BY <2>2, <2>3
<1> QED BY <1>3, <1>4, <1>5

(* The reference written before the result of size n bounds the stored sizes
   with and without that result. *)
LEMMA ReferenceForResultOK ==
    ASSUME TypeOK, RefOK(latestRef, StoredSizes), NEW n \in Nat, n > 0
    PROVE  /\ RefOK(ReferenceForResult(n), StoredSizes)
           /\ RefOK(ReferenceForResult(n), StoredSizes \cup {n})
<1>1. /\ IsGreatest(LatestResult, StoredSizes) /\ LatestResult \in Nat
      /\ LatestResult = 0 <=> StoredSizes = {}
      /\ RefOK(ReferenceAfterRead, StoredSizes)
  BY LatestFacts DEF IsGreatest
<1>2. StoredSizes \subseteq Nat
  BY TreeAssumption DEF StoredSizes, Sizes
<1>3. CASE LatestResult >= n
  <2>1. ReferenceForResult(n) = ReferenceAfterRead
    BY <1>3 DEF ReferenceForResult
  <2>2. StoredSizes # {} /\ LatestResult \in StoredSizes
    BY <1>1, <1>3 DEF IsGreatest
  <2>3. ReferenceAfterRead.kind # "empty"
    BY <1>1, <2>2 DEF RefOK
  <2>4. ReferenceAfterRead.kind = "result" => n <= ReferenceAfterRead.candidate
    <3>1. ReferenceAfterRead.candidate \in Nat
      BY <1>1 DEF RefOK, References
    <3> QED BY <1>1, <1>3, <2>2, <3>1 DEF RefOK
  <2> QED BY <1>1, <2>1, <2>3, <2>4 DEF RefOK
<1>4. CASE ~(LatestResult >= n)
  <2> DEFINE r == [kind |-> "result", candidate |-> n]
  <2>1. ReferenceForResult(n) = r
    BY <1>4 DEF ReferenceForResult
  <2>2. r \in References /\ r.kind = "result" /\ r.candidate = n
    BY <1>1 DEF References
  <2> HIDE DEF r
  <2>3. \A m \in StoredSizes : m <= n
    BY <1>1, <1>2, <1>4 DEF IsGreatest
  <2> QED BY <2>1, <2>2, <2>3 DEF RefOK
<1> QED BY <1>3, <1>4

-----------------------------------------------------------------------------
(* The inductive invariant. *)

ClockInv ==
    /\ clock > 0
    /\ \A w \in Workers : worker[w].phase = "claiming" =>
                              worker[w].readAt > 0 /\ worker[w].readAt <= clock

WorkerInv ==
    \A w \in Workers : worker[w].phase = "persisting" /\ worker[w].outcome = "published" =>
                           worker[w].anchor \in AnchorIDs

RefInv == RefOK(latestRef, StoredSizes)

TargetsInv ==
    /\ HasPending(schedule) => schedule.pending.target \in observed
    /\ HasInFlight(schedule) => schedule.inFlight.target \in observed

Inv ==
    /\ TypeOK
    /\ Good(schedule)
    /\ ClockInv
    /\ WorkerInv
    /\ RefInv
    /\ TargetsInv
    /\ NoTargetLost

LEMMA IdleOK == Idle \in WorkerStates /\ Idle.phase = "idle"
<1>1. NoAttempt \in Attempts
  BY EmptyGood DEF GoodAttempt
<1> QED BY <1>1 DEF Idle, WorkerStates, Phases, Outcomes

LEMMA InitInv == Init => Inv
<1> SUFFICES ASSUME Init PROVE Inv
  OBVIOUS
<1>1. /\ clock = 1 /\ schedule = NoSchedule /\ results = [n \in Sizes |-> 0]
      /\ latestRef = NoReference /\ worker = [w \in Workers |-> Idle]
      /\ tokens = 0 /\ observed = {} /\ faults = 0
  BY DEF Init
<1>2. Good(schedule) /\ schedule \in Schedules
  BY <1>1, EmptyGood DEF Good
<1>3. schedule.pending.generation = 0 /\ schedule.inFlight.generation = 0
  BY <1>1 DEF NoSchedule, NoWindow, NoAttempt
<1>4. latestRef \in References /\ latestRef.kind = "absent"
  BY <1>1 DEF NoReference, References
<1>5. TypeOK
  BY <1>1, <1>2, <1>4, IdleOK DEF TypeOK
<1>6. ClockInv /\ WorkerInv
  BY <1>1, IdleOK DEF ClockInv, WorkerInv
<1>7. RefInv
  BY <1>4 DEF RefInv, RefOK
<1>8. TargetsInv /\ NoTargetLost
  BY <1>1, <1>3 DEF TargetsInv, NoTargetLost
<1> QED BY <1>2, <1>5, <1>6, <1>7, <1>8 DEF Inv

(* Replacing the state of one worker. *)
LEMMA SetWorker ==
    ASSUME Inv, NEW w \in Workers, NEW x \in WorkerStates,
           worker' = [worker EXCEPT ![w] = x], clock' = clock,
           x.phase = "claiming" => x.readAt > 0 /\ x.readAt <= clock,
           x.phase = "persisting" /\ x.outcome = "published" => x.anchor \in AnchorIDs
    PROVE  worker' \in [Workers -> WorkerStates] /\ ClockInv' /\ WorkerInv'
<1>1. worker \in [Workers -> WorkerStates]
  BY DEF Inv, TypeOK
<1>2. worker' \in [Workers -> WorkerStates]
  BY <1>1
<1>3. \A v \in Workers : worker'[v] = IF v = w THEN x ELSE worker[v]
  BY <1>1
<1>4. ClockInv'
  BY <1>3 DEF Inv, ClockInv
<1>5. WorkerInv'
  BY <1>3 DEF Inv, WorkerInv
<1> QED BY <1>2, <1>4, <1>5

(* A step that leaves the store and the outbox alone. *)
LEMMA StoreUnchanged ==
    ASSUME Inv, UNCHANGED <<schedule, results, latestRef, observed>>
    PROVE  Good(schedule)' /\ RefInv' /\ TargetsInv' /\ NoTargetLost'
<1>1. StoredSizes' = StoredSizes
  BY DEF StoredSizes
<1>2. Good(schedule')
  BY DEF Inv
<1>3. RefInv'
  BY <1>1 DEF Inv, RefInv
<1>4. TargetsInv'
  BY DEF Inv, TargetsInv
<1>5. NoTargetLost'
  BY <1>1 DEF Inv, NoTargetLost
<1> QED BY <1>2, <1>3, <1>4, <1>5

LEMMA TickInv == ASSUME Inv, Tick PROVE Inv'
<1>1. /\ clock' = clock + 1
      /\ UNCHANGED <<schedule, results, latestRef, worker, tokens, observed, faults>>
  BY DEF Tick
<1>2. TypeOK'
  BY <1>1 DEF Inv, TypeOK
<1>3. ClockInv'
  BY <1>1 DEF Inv, ClockInv, TypeOK, WorkerStates
<1>4. WorkerInv'
  BY <1>1 DEF Inv, WorkerInv
<1> QED BY <1>1, <1>2, <1>3, <1>4, StoreUnchanged DEF Inv

LEMMA StartTickInv == ASSUME Inv, NEW w \in Workers, StartTick(w) PROVE Inv'
<1> DEFINE x == [Idle EXCEPT !.phase = "claiming", !.readAt = clock]
<1>1. /\ worker' = [worker EXCEPT ![w] = x]
      /\ UNCHANGED <<clock, schedule, results, latestRef, tokens, observed, faults>>
  BY DEF StartTick
<1>2. clock \in Nat /\ clock > 0
  BY DEF Inv, TypeOK, ClockInv
<1>3. x \in WorkerStates /\ x.phase = "claiming" /\ x.readAt = clock
  BY ZenonT(60), <1>2, IdleOK DEF WorkerStates, Phases
<1>a. x.readAt > 0 /\ x.readAt <= clock /\ x.phase # "persisting"
  BY <1>2, <1>3
<1> HIDE DEF x
<1>4. worker' \in [Workers -> WorkerStates] /\ ClockInv' /\ WorkerInv'
  BY ZenonT(60), <1>1, <1>3, <1>a, SetWorker
<1>5. TypeOK'
  BY <1>1, <1>4 DEF Inv, TypeOK
<1> QED BY <1>1, <1>4, <1>5, StoreUnchanged DEF Inv

LEMMA SinkReturnsInv ==
    ASSUME Inv, NEW w \in Workers, NEW outcome \in Outcomes, NEW anchor \in AnchorIDs,
           SinkReturns(w, outcome, anchor)
    PROVE  Inv'
<1> DEFINE id == IF outcome = "published" THEN anchor ELSE 0
           x == [worker[w] EXCEPT !.phase = "persisting", !.since = clock,
                                  !.outcome = outcome, !.anchor = id]
<1>1. /\ worker' = [worker EXCEPT ![w] = x]
      /\ UNCHANGED <<clock, schedule, results, latestRef, tokens, observed, faults>>
  BY DEF SinkReturns
<1>2. clock \in Nat /\ worker[w] \in WorkerStates /\ id \in Nat
  BY AnchorIDAssumption DEF Inv, TypeOK
<1>3. x \in WorkerStates /\ x.phase = "persisting" /\ x.outcome = outcome /\ x.anchor = id
  BY ZenonT(60), <1>2 DEF WorkerStates, Phases
<1>4. x.phase = "persisting" /\ x.outcome = "published" => x.anchor \in AnchorIDs
  BY <1>3
<1> HIDE DEF x
<1>5. worker' \in [Workers -> WorkerStates] /\ ClockInv' /\ WorkerInv'
  BY ZenonT(60), <1>1, <1>3, <1>4, SetWorker
<1>6. TypeOK'
  BY <1>1, <1>5 DEF Inv, TypeOK
<1> QED BY <1>1, <1>5, <1>6, StoreUnchanged DEF Inv

LEMMA AbandonTickInv == ASSUME Inv, NEW w \in Workers, AbandonTick(w) PROVE Inv'
<1>1. /\ worker' = [worker EXCEPT ![w] = Idle] /\ faults' = faults + 1
      /\ UNCHANGED <<clock, schedule, results, latestRef, tokens, observed>>
  BY DEF AbandonTick
<1>2. worker' \in [Workers -> WorkerStates] /\ ClockInv' /\ WorkerInv'
  BY ZenonT(60), <1>1, IdleOK, SetWorker
<1>3. TypeOK'
  BY <1>1, <1>2 DEF Inv, TypeOK
<1> QED BY <1>1, <1>2, <1>3, StoreUnchanged DEF Inv

(* A step that changes the attempt but neither its window nor its target. *)
LEMMA SameTargets ==
    ASSUME Inv, UNCHANGED <<results, latestRef, observed>>, Good(schedule'),
           schedule'.pending = schedule.pending,
           schedule'.inFlight.generation = schedule.inFlight.generation,
           schedule'.inFlight.target = schedule.inFlight.target
    PROVE  RefInv' /\ TargetsInv' /\ NoTargetLost'
<1>1. StoredSizes' = StoredSizes
  BY DEF StoredSizes
<1>2. RefInv'
  BY <1>1 DEF Inv, RefInv
<1>3. TargetsInv'
  BY DEF Inv, TargetsInv
<1>4. NoTargetLost'
  BY <1>1 DEF Inv, NoTargetLost
<1> QED BY <1>2, <1>3, <1>4

LEMMA CheckpointProviderInv ==
    ASSUME Inv, NEW w \in Workers, CheckpointProvider(w)
    PROVE  Inv'
<1> DEFINE a == worker[w].attempt
           next == a.provider + 1
           ok == SwapAllowed(schedule, a.generation, a.token, clock, a.provider, next)
<1>0. /\ clock \in Nat /\ worker[w] \in WorkerStates /\ a \in Attempts /\ a.provider \in Nat
      /\ next \in Nat /\ worker[w].phase = "publishing"
  BY DEF Inv, TypeOK, WorkerStates, Attempts, CheckpointProvider
<1>1. UNCHANGED <<clock, results, latestRef, tokens, observed, faults>>
  BY DEF CheckpointProvider
<1>2. CASE ok
  <2> DEFINE b == [a EXCEPT !.provider = next]
             x == [worker[w] EXCEPT !.attempt = b]
  <2>1. schedule' = SwapProvider(schedule, next) /\ worker' = [worker EXCEPT ![w] = x]
    BY <1>2 DEF CheckpointProvider
  <2>2. b \in Attempts
    BY <1>0 DEF Attempts
  <2>3. x \in WorkerStates /\ x.phase = "publishing"
    <3> HIDE DEF b
    <3> QED BY <1>0, <2>2 DEF WorkerStates
  <2> HIDE DEF x
  <2>4. worker' \in [Workers -> WorkerStates] /\ ClockInv' /\ WorkerInv'
    BY ZenonT(60), <1>1, <2>1, <2>3, SetWorker
  <2>5. HasInFlight(schedule)
    BY <1>2 DEF SwapAllowed, Fenced
  <2>6. Good(schedule')
    BY <1>0, <2>1, <2>5, SwapGood DEF Inv
  <2>7. /\ schedule'.pending = schedule.pending
        /\ schedule'.inFlight.generation = schedule.inFlight.generation
        /\ schedule'.inFlight.target = schedule.inFlight.target
    BY <2>1 DEF Inv, TypeOK, Schedules, Attempts, SwapProvider
  <2>8. TypeOK'
    BY <1>1, <2>4, <2>6 DEF Inv, TypeOK, Good
  <2> QED BY SMTT(60), <1>1, <2>4, <2>6, <2>7, <2>8, SameTargets DEF Inv
<1>3. CASE ~ok
  <2> DEFINE x == [worker[w] EXCEPT !.phase = "persisting", !.since = clock,
                                    !.outcome = "transient"]
  <2>1. schedule' = schedule /\ worker' = [worker EXCEPT ![w] = x]
    BY <1>3 DEF CheckpointProvider
  <2>2. x \in WorkerStates /\ x.phase = "persisting" /\ x.outcome = "transient"
    BY ZenonT(60), <1>0 DEF WorkerStates, Phases, Outcomes
  <2> HIDE DEF x
  <2>3. worker' \in [Workers -> WorkerStates] /\ ClockInv' /\ WorkerInv'
    BY ZenonT(60), <1>1, <2>1, <2>2, SetWorker
  <2>4. TypeOK'
    BY <1>1, <2>1, <2>3 DEF Inv, TypeOK
  <2> QED BY <1>1, <2>1, <2>3, <2>4, StoreUnchanged DEF Inv
<1> QED BY <1>2, <1>3

LEMMA FailAttemptInv == ASSUME Inv, NEW w \in Workers, FailAttempt(w) PROVE Inv'
<1> DEFINE a == worker[w].attempt
<1>0. a \in Attempts /\ a.attempts + 1 \in Nat
  BY DEF Inv, TypeOK, WorkerStates, Attempts
<1>1. worker' = [worker EXCEPT ![w] = Idle] /\ UNCHANGED <<clock, results, latestRef, tokens, observed, faults>>
  BY DEF FailAttempt
<1>2. worker' \in [Workers -> WorkerStates] /\ ClockInv' /\ WorkerInv'
  BY ZenonT(60), <1>1, IdleOK, SetWorker
<1>3. CASE FailAllowed(schedule, a.generation, a.token, a.attempts + 1)
  <2>1. schedule' = Fail(schedule, a.attempts + 1)
    BY <1>3 DEF FailAttempt
  <2>2. HasInFlight(schedule) /\ a.attempts + 1 > schedule.inFlight.attempts
    BY <1>3 DEF FailAllowed, Fenced
  <2>3. Good(schedule')
    BY <1>0, <2>1, <2>2, FailGood DEF Inv
  <2>4. /\ schedule'.pending = schedule.pending
        /\ schedule'.inFlight.generation = schedule.inFlight.generation
        /\ schedule'.inFlight.target = schedule.inFlight.target
    BY ZenonT(60), <2>1 DEF Inv, TypeOK, Schedules, Attempts, Fail
  <2>5. TypeOK'
    BY <1>1, <1>2, <2>3 DEF Inv, TypeOK, Good
  <2> QED BY SMTT(60), <1>1, <1>2, <2>3, <2>4, <2>5, SameTargets DEF Inv
<1>4. CASE ~FailAllowed(schedule, a.generation, a.token, a.attempts + 1)
  <2>1. schedule' = schedule
    BY <1>4 DEF FailAttempt
  <2>2. TypeOK'
    BY <1>1, <1>2, <2>1 DEF Inv, TypeOK
  <2> QED BY SMTT(60), <1>1, <1>2, <2>1, <2>2, StoreUnchanged DEF Inv
<1> QED BY <1>3, <1>4

LEMMA RescheduleAttemptInv == ASSUME Inv, NEW w \in Workers, RescheduleAttempt(w) PROVE Inv'
<1> DEFINE a == worker[w].attempt
           next == clock + computeBackoff(a.attempts + 1)
           ok == RescheduleAllowed(schedule, a.generation, a.token, a.attempts + 1, next)
<1>0. a \in Attempts /\ a.attempts + 1 \in Nat /\ (a.attempts + 1) - 1 \in Nat /\ clock \in Nat
  BY DEF Inv, TypeOK, WorkerStates, Attempts
<1>a. next \in Int
  <2>1. 2^((a.attempts + 1) - 1) \in Int
    BY <1>0
  <2>2. InitialBackoff * 2^((a.attempts + 1) - 1) \in Int
    BY <2>1, BackoffAssumption
  <2>3. computeBackoff(a.attempts + 1) \in Int
    BY <2>2, BackoffAssumption DEF computeBackoff
  <2> QED BY <1>0, <2>3
<1> HIDE DEF next
<1>1. worker' = [worker EXCEPT ![w] = Idle] /\ UNCHANGED <<clock, results, latestRef, tokens, observed, faults>>
  BY SMTT(60) DEF RescheduleAttempt
<1>2. worker' \in [Workers -> WorkerStates] /\ ClockInv' /\ WorkerInv'
  BY ZenonT(60), <1>1, IdleOK, SetWorker
<1>3. CASE ok
  <2>1. schedule' = Reschedule(schedule, a.attempts + 1, next)
    BY SMTT(60), <1>3 DEF RescheduleAttempt, next
  <2>2. /\ HasInFlight(schedule) /\ a.attempts + 1 > schedule.inFlight.attempts
        /\ next >= schedule.inFlight.lastAttempt /\ next \in Nat
    BY SMTT(60), <1>3, <1>a DEF RescheduleAllowed, Fenced, Inv, TypeOK, Schedules, Attempts
  <2>3. Good(schedule')
    BY <1>0, <2>1, <2>2, RescheduleGood DEF Inv
  <2>4. /\ schedule'.pending = schedule.pending
        /\ schedule'.inFlight.generation = schedule.inFlight.generation
        /\ schedule'.inFlight.target = schedule.inFlight.target
    BY ZenonT(60), <2>1 DEF Inv, TypeOK, Schedules, Attempts, Reschedule
  <2>5. TypeOK'
    BY <1>1, <1>2, <2>3 DEF Inv, TypeOK, Good
  <2> QED BY <1>1, <1>2, <2>3, <2>4, <2>5, SameTargets DEF Inv
<1>4. CASE ~ok
  <2>1. schedule' = schedule
    BY SMTT(60), <1>4 DEF RescheduleAttempt, next
  <2>2. TypeOK'
    BY <1>1, <1>2, <2>1 DEF Inv, TypeOK
  <2> QED BY <1>1, <1>2, <2>1, <2>2, StoreUnchanged DEF Inv
<1> QED BY <1>3, <1>4

(* Which of its parts a schedule changes when it merges a candidate. *)
LEMMA MergeShape ==
    ASSUME NEW s, Good(s), NEW c \in Candidates, NEW latest \in Nat,
           NEW t, t = MergeCandidate(s, c, latest)
    PROVE  /\ t.inFlight = s.inFlight
           /\ \/ t.pending = s.pending
                 /\ (c.target <= latest \/ c.target <= s.inFlight.target
                     \/ c.target <= s.pending.target)
              \/ t.pending.target = c.target /\ c.target > s.pending.target
<1>0. s \in Schedules /\ s.pending \in Windows /\ c.target \in Nat /\ s.inFlight.target \in Nat
      /\ s.pending.target \in Nat
  BY DEF Good, Schedules, Windows, Attempts, Candidates
<1>1. CASE c.target <= latest
  BY <1>0, <1>1 DEF MergeCandidate, Schedules
<1>2. CASE c.target > latest /\ (c.target <= s.inFlight.target \/ c.target <= s.pending.target)
  BY SMTT(60), <1>0, <1>2 DEF MergeCandidate
<1>3. CASE c.target > latest /\ c.target > s.inFlight.target /\ c.target > s.pending.target
           /\ HasPending(s)
  <2>1. t = ExtendWindow(s, c)
    BY <1>0, <1>3 DEF MergeCandidate
  <2>2. t.inFlight = s.inFlight /\ t.pending.target = c.target
    BY ZenonT(60), <1>0, <2>1 DEF ExtendWindow, Schedules, Windows
  <2> QED BY <1>3, <2>2
<1>4. CASE c.target > latest /\ c.target > s.inFlight.target /\ c.target > s.pending.target
           /\ ~HasPending(s)
  <2>1. t = OpenWindow(s, c)
    BY <1>0, <1>4 DEF MergeCandidate
  <2>2. t.inFlight = s.inFlight /\ t.pending.target = c.target
    BY <1>0, <2>1 DEF OpenWindow, Schedules
  <2> QED BY <1>4, <2>2
<1> QED BY <1>0, <1>1, <1>2, <1>3, <1>4

LEMMA ObservedSizes == ASSUME Inv PROVE \A n \in observed : n \in Sizes /\ n \in Nat /\ n > 0
BY TreeAssumption DEF Inv, TypeOK, Sizes

LEMMA UpsertCandidateInv ==
    ASSUME Inv, NEW n \in Sizes, NEW lag \in 0 .. MaxLag, UpsertCandidate(n, lag)
    PROVE  Inv'
<1> DEFINE at == clock - lag
           c == [target |-> n, observedAt |-> at, dueAt |-> at + AnchorMaxDelay]
           latest == MergeLatest(n)
<1>0. /\ clock \in Nat /\ lag \in Nat /\ clock > lag /\ n \in Nat /\ n > 0
      /\ AnchorMaxDelay \in Nat
  BY TreeAssumption, DelayAssumption DEF Inv, TypeOK, UpsertCandidate, Sizes
<1>1. c \in Candidates /\ c.dueAt >= c.observedAt /\ c.target = n
  BY <1>0 DEF Candidates
<1>2. /\ schedule' = MergeCandidate(schedule, c, latest)
      /\ latestRef' = ReferenceAfterRead
      /\ observed' = observed \cup {n}
      /\ UNCHANGED <<clock, results, worker, tokens, faults>>
  BY DEF UpsertCandidate
<1> HIDE DEF c
<1>3. /\ IsGreatest(LatestResult, StoredSizes)
      /\ RefOK(ReferenceAfterRead, StoredSizes)
      /\ LatestResult = 0 <=> StoredSizes = {}
  BY LatestFacts DEF Inv, RefInv
<1>4. latest \in Nat /\ (latest > 0 => latest \in StoredSizes)
  BY <1>0, <1>3 DEF MergeLatest, IsGreatest, Stored, StoredSizes
<1> HIDE DEF latest
<1>5. Good(schedule')
  BY SMTT(60), <1>1, <1>2, <1>4, MergeGood DEF Inv
<1>6. /\ schedule'.inFlight = schedule.inFlight
      /\ \/ schedule'.pending = schedule.pending
            /\ (n <= latest \/ n <= schedule.inFlight.target \/ n <= schedule.pending.target)
         \/ schedule'.pending.target = n /\ n > schedule.pending.target
  BY <1>1, <1>2, <1>4, MergeShape DEF Inv
<1>7. StoredSizes' = StoredSizes
  BY <1>2 DEF StoredSizes
<1>8. RefInv'
  BY <1>2, <1>3, <1>7 DEF RefInv
<1>9. TypeOK'
  <2>1. latestRef' \in References /\ schedule' \in Schedules
    BY <1>2, <1>3, <1>5 DEF RefOK, Good
  <2>2. observed' \subseteq Sizes
    BY SMTT(60), <1>2 DEF Inv, TypeOK
  <2> QED BY SMTT(60), <1>2, <2>1, <2>2 DEF Inv, TypeOK
<1>10. ClockInv' /\ WorkerInv'
  BY SMTT(60), <1>2 DEF Inv, ClockInv, WorkerInv
<1>11. TargetsInv'
  BY SMTT(60), <1>2, <1>6 DEF Inv, TargetsInv
<1>12. NoTargetLost'
  <2> SUFFICES ASSUME NEW m \in observed'
               PROVE  \/ \E k \in StoredSizes : m <= k
                      \/ m <= schedule'.inFlight.target
                      \/ m <= schedule'.pending.target
    BY <1>7 DEF NoTargetLost
  <2>1. schedule.pending.target \in Nat
    BY DEF Inv, TypeOK, Schedules, Windows
  <2>2. CASE m = n
    BY <1>0, <1>4, <1>6, <2>2
  <2>3. CASE m \in observed
    <3>1. m \in Nat
      BY SMTT(60), <2>3, ObservedSizes
    <3> QED BY <1>0, <1>6, <2>1, <2>3, <3>1 DEF Inv, NoTargetLost
  <2> QED BY <1>2, <2>2, <2>3
<1> QED BY SMTT(60), <1>5, <1>8, <1>9, <1>10, <1>11, <1>12 DEF Inv

(* Reconciling a schedule with the stored results drops only what they cover. *)
LEMMA ReconcileShape ==
    ASSUME TypeOK, NEW s, Good(s), NEW latest, IsGreatest(latest, StoredSizes),
           NEW r, r = ReconciledInFlight(s),
           NEW t, t = IF HasPending(r) /\ latest > 0 THEN ReconcileCompleted(r, latest) ELSE r
    PROVE  /\ Good(t)
           /\ HasInFlight(s) /\ Stored(s.inFlight.target) => t.inFlight = NoAttempt
           /\ ~(HasInFlight(s) /\ Stored(s.inFlight.target)) => t.inFlight = s.inFlight
           /\ \/ t.pending = s.pending
                 /\ (HasPending(s) => \A m \in StoredSizes : m < s.pending.target)
              \/ t.pending = NoWindow /\ HasPending(s)
                 /\ \E m \in StoredSizes : s.pending.target <= m
<1>0. /\ s.pending.target \in Nat /\ s.inFlight.target \in Nat /\ latest \in Nat
      /\ StoredSizes \subseteq Nat /\ s.pending.generation \in Nat
      /\ NoAttempt.generation = 0 /\ NoWindow.generation = 0
  <2>1. s.pending \in Windows /\ s.inFlight \in Attempts
    BY ZenonT(60) DEF Good, Schedules
  <2>2. s.pending.target \in Nat /\ s.pending.generation \in Nat
    BY <2>1 DEF Windows
  <2>3. s.inFlight.target \in Nat
    BY <2>1 DEF Attempts
  <2>4. latest \in Nat
    BY DEF IsGreatest
  <2>5. StoredSizes \subseteq Nat
    BY SMTT(60), TreeAssumption DEF StoredSizes, Sizes
  <2>6. NoAttempt.generation = 0 /\ NoWindow.generation = 0
    BY DEF NoAttempt, NoWindow
  <2> QED BY <2>2, <2>3, <2>4, <2>5, <2>6
<1>a. \A n : Stored(n) <=> n \in StoredSizes
  BY SMTT(60) DEF Stored, StoredSizes
<1>1. /\ Good(r)
      /\ HasInFlight(s) /\ Stored(s.inFlight.target) => r.inFlight = NoAttempt
      /\ ~(HasInFlight(s) /\ Stored(s.inFlight.target)) => r.inFlight = s.inFlight
      /\ \/ r.pending = s.pending
         \/ r.pending = NoWindow /\ HasPending(s) /\ s.pending.target <= s.inFlight.target
            /\ Stored(s.inFlight.target)
  <2>1. CASE HasInFlight(s) /\ Stored(s.inFlight.target)
    <3>1. r = ReconcileCompleted(s, s.inFlight.target)
      BY SMTT(60), <2>1 DEF ReconciledInFlight
    <3>2. Good(r) /\ r.inFlight = NoAttempt
      BY SMTT(60), <1>0, <2>1, <3>1, ReconcileGood
    <3>3. \/ r.pending = s.pending
          \/ r.pending = NoWindow /\ HasPending(s) /\ s.pending.target <= s.inFlight.target
      BY <1>0, <3>1, ReconcileGood
    <3> QED BY SMTT(60), <2>1, <3>2, <3>3
  <2>2. CASE ~(HasInFlight(s) /\ Stored(s.inFlight.target))
    BY SMTT(60), <2>2 DEF ReconciledInFlight
  <2> QED BY SMTT(60), <2>1, <2>2
<1>2. CASE HasPending(r) /\ latest > 0
  <2>1. t = ReconcileCompleted(r, latest)
    BY SMTT(60), <1>2
  <2>2. latest \in StoredSizes /\ \A m \in StoredSizes : m <= latest
    BY SMTT(60), <1>2 DEF IsGreatest
  <2>3. r.pending = s.pending
    BY SMTT(60), <1>0, <1>1, <1>2
  <2>4. ~(HasInFlight(r) /\ r.inFlight.target = latest)
    BY SMTT(60), <1>0, <1>1, <1>a, <2>2
  <2>5. Good(t) /\ t.inFlight = r.inFlight
    BY SMTT(60), <1>0, <1>1, <2>1, <2>4, ReconcileGood
  <2>6. \/ t.pending = NoWindow /\ s.pending.target <= latest
        \/ t.pending = s.pending /\ latest < s.pending.target
    BY SMTT(60), <1>0, <1>1, <1>2, <2>1, <2>3, ReconcileGood
  <2> QED BY SMTT(60), <1>0, <1>1, <1>2, <2>2, <2>3, <2>5, <2>6
<1>3. CASE ~(HasPending(r) /\ latest > 0)
  <2>1. t = r
    BY <1>3
  <2>2. CASE HasPending(r)
    <3>1. StoredSizes = {}
      <4>1. \A m \in StoredSizes : m > 0
        BY SMTT(60), TreeAssumption DEF StoredSizes, Sizes
      <4> QED BY SMTT(60), <1>0, <1>3, <2>2, <4>1 DEF IsGreatest
    <3>2. r.pending = s.pending
      BY SMTT(60), <1>0, <1>1, <2>2
    <3> QED BY SMTT(60), <1>1, <2>1, <3>1, <3>2
  <2>3. CASE ~HasPending(r)
    BY SMTT(60), <1>0, <1>1, <1>a, <2>1, <2>3
  <2> QED BY <2>2, <2>3
<1> QED BY SMTT(60), <1>2, <1>3

(* Reconciliation keeps the targets and loses none. *)
LEMMA ReconcileKeeps ==
    ASSUME Inv, NEW s, Good(s),
           s.pending = schedule.pending,
           s.inFlight.generation = schedule.inFlight.generation,
           s.inFlight.target = schedule.inFlight.target,
           NEW t, Good(t),
           \/ t.inFlight = NoAttempt /\ Stored(s.inFlight.target)
           \/ t.inFlight = s.inFlight,
           \/ t.pending = s.pending
           \/ t.pending = NoWindow /\ \E m \in StoredSizes : s.pending.target <= m
    PROVE  /\ HasPending(t) => t.pending.target \in observed
           /\ HasInFlight(t) => t.inFlight.target \in observed
           /\ \A n \in observed : \/ \E m \in StoredSizes : n <= m
                                  \/ n <= t.inFlight.target
                                  \/ n <= t.pending.target
<1>0. NoAttempt.generation = 0 /\ NoWindow.generation = 0
  BY SMTT(60) DEF NoAttempt, NoWindow
<1>1. /\ HasPending(t) => t.pending.target \in observed
      /\ HasInFlight(t) => t.inFlight.target \in observed
  BY <1>0 DEF Inv, TargetsInv
<1>2. ASSUME NEW n \in observed
      PROVE  \/ \E m \in StoredSizes : n <= m
             \/ n <= t.inFlight.target
             \/ n <= t.pending.target
  <2>1. /\ n \in Nat /\ StoredSizes \subseteq Nat /\ s.pending.target \in Nat
        /\ s.inFlight.target \in Nat
    BY SMTT(60), TreeAssumption, ObservedSizes DEF StoredSizes, Sizes, Good, Schedules, Windows, Attempts
  <2>2. \/ \E m \in StoredSizes : n <= m
        \/ n <= s.inFlight.target
        \/ n <= s.pending.target
    BY DEF Inv, NoTargetLost
  <2>3. CASE n <= s.inFlight.target
    BY SMTT(60), <2>3 DEF Stored, StoredSizes
  <2>4. CASE n <= s.pending.target
    <3>1. CASE t.pending = s.pending
      BY SMTT(60), <2>4, <3>1
    <3>2. CASE \E m \in StoredSizes : s.pending.target <= m
      BY <2>1, <2>4, <3>2
    <3> QED BY SMTT(60), <3>1, <3>2
  <2> QED BY SMTT(60), <2>2, <2>3, <2>4
<1> QED BY SMTT(60), <1>1, <1>2

LEMMA ClaimAttemptInv == ASSUME Inv, NEW w \in Workers, ClaimAttempt(w) PROVE Inv'
<1> DEFINE s == ReconcileStoredResults(schedule)
           now == worker[w].readAt
           until == now + minimumSafeLeaseDuration
           a == ClaimedAttempt(s, now, until, tokens + 1)
<1>0. /\ worker[w] \in WorkerStates /\ worker[w].phase = "claiming" /\ now \in Nat /\ now > 0
      /\ tokens \in Nat /\ tokens + 1 \in Nat /\ tokens + 1 > 0 /\ clock \in Nat
      /\ results' = results /\ observed' = observed /\ clock' = clock /\ faults' = faults
  BY DEF Inv, TypeOK, WorkerStates, ClockInv, ClaimAttempt
<1>1. until \in Nat /\ until > now
  <2>1. minimumSafeLeaseDuration \in Nat /\ minimumSafeLeaseDuration > 0
    BY TimeoutAssumption DEF minimumSafeLeaseDuration, MaxOf
  <2> QED BY <1>0, <2>1
<1>2. /\ IsGreatest(LatestResult, StoredSizes)
      /\ RefOK(ReferenceAfterRead, StoredSizes)
  BY SMTT(60), LatestFacts DEF Inv, RefInv
<1>3. /\ Good(s)
      /\ \/ s.inFlight = NoAttempt /\ Stored(schedule.inFlight.target)
         \/ s.inFlight = schedule.inFlight
      /\ \/ s.pending = schedule.pending
         \/ s.pending = NoWindow /\ \E m \in StoredSizes : schedule.pending.target <= m
  <2> DEFINE r == ReconciledInFlight(schedule)
  <2>1. s = IF HasPending(r) /\ LatestResult > 0 THEN ReconcileCompleted(r, LatestResult) ELSE r
    BY DEF ReconcileStoredResults
  <2> HIDE DEF s
  <2>2. TypeOK /\ Good(schedule)
    BY SMTT(60) DEF Inv
  <2> QED BY <1>2, <2>1, <2>2, ReconcileShape
<1>4. /\ HasPending(s) => s.pending.target \in observed
      /\ HasInFlight(s) => s.inFlight.target \in observed
      /\ \A n \in observed : \/ \E m \in StoredSizes : n <= m
                             \/ n <= s.inFlight.target
                             \/ n <= s.pending.target
  BY <1>3, ReconcileKeeps DEF Inv
<1> HIDE DEF s
<1>5. latestRef' \in References /\ RefInv'
  <2>1. StoredSizes' = StoredSizes
    BY <1>0 DEF StoredSizes
  <2>2. latestRef' = ReferenceAfterRead \/ latestRef' = latestRef
    BY DEF ClaimAttempt
  <2> QED BY <1>2, <2>1, <2>2 DEF Inv, RefInv, RefOK
<1>6. CASE Claimable(s, now)
  <2> DEFINE x == [worker[w] EXCEPT !.phase = "publishing", !.since = clock, !.attempt = a]
  <2>1. /\ schedule' = Claim(s, now, until, tokens + 1) /\ tokens' = tokens + 1
        /\ worker' = [worker EXCEPT ![w] = x]
    BY <1>6 DEF ClaimAttempt, s
  <2>2. Good(schedule') /\ a \in Attempts
    BY <1>0, <1>1, <1>3, <1>6, <2>1, ClaimGood
  <2>3. x \in WorkerStates /\ x.phase = "publishing"
    <3> HIDE DEF a
    <3> QED BY ZenonT(60), <1>0, <2>2 DEF WorkerStates, Phases
  <2>4. \/ HasInFlight(s) /\ schedule'.pending = s.pending
           /\ schedule'.inFlight.target = s.inFlight.target
        \/ ~HasInFlight(s) /\ HasPending(s) /\ schedule'.pending = NoWindow
           /\ schedule'.inFlight.target = s.pending.target
    <3>1. schedule'.inFlight = a /\ schedule'.pending = IF HasInFlight(s) THEN s.pending ELSE NoWindow
      <4> HIDE DEF a
      <4> QED BY <1>3, <2>1 DEF Claim, Good, Schedules, a
    <3>2. a.target = IF HasInFlight(s) THEN s.inFlight.target ELSE s.pending.target
      BY <1>3 DEF ClaimedAttempt, Good, Schedules, Attempts, NoAttempt
    <3> QED BY <1>6, <3>1, <3>2 DEF Claimable
  <2> HIDE DEF x, a
  <2>5. worker' \in [Workers -> WorkerStates] /\ ClockInv' /\ WorkerInv'
    BY ZenonT(60), <1>0, <2>1, <2>3, SetWorker
  <2>6. TypeOK'
    <3>1. schedule' \in Schedules
      BY ZenonT(60), <2>1, <2>2 DEF Good
    <3>2. results \in [Sizes -> Nat] /\ observed \subseteq Sizes /\ faults \in Nat
      BY ZenonT(60) DEF Inv, TypeOK
    <3> QED BY ZenonT(60), <1>0, <1>5, <2>1, <2>2, <2>5, <3>1, <3>2 DEF TypeOK
  <2>7. NoWindow.generation = 0 /\ NoWindow.target = 0 /\ NoAttempt.target = 0
    BY SMTT(60) DEF NoWindow, NoAttempt
  <2>8. TargetsInv'
    BY SMTT(60), <1>0, <1>4, <2>4, <2>7 DEF TargetsInv
  <2>9. NoTargetLost'
    <3>1. ~HasInFlight(s) => s.inFlight.target = 0
      BY <1>3, <2>7 DEF Good, Schedules, Attempts, GoodAttempt
    <3>2. StoredSizes' = StoredSizes /\ observed' = observed
      BY SMTT(60), <1>0 DEF StoredSizes
    <3>3. ASSUME NEW n \in observed
          PROVE  \/ \E m \in StoredSizes : n <= m
                 \/ n <= schedule'.inFlight.target
                 \/ n <= schedule'.pending.target
      BY SMTT(60), <1>4, <2>4, <3>1, ObservedSizes
    <3> QED BY SMTT(60), <3>2, <3>3 DEF NoTargetLost
  <2> QED BY <1>5, <2>2, <2>5, <2>6, <2>8, <2>9 DEF Inv
<1>7. CASE ~Claimable(s, now)
  <2>1. schedule' = s /\ tokens' = tokens /\ worker' = [worker EXCEPT ![w] = Idle]
    BY <1>7 DEF ClaimAttempt, s
  <2>2. worker' \in [Workers -> WorkerStates] /\ ClockInv' /\ WorkerInv'
    BY ZenonT(60), <1>0, <2>1, IdleOK, SetWorker
  <2>3. TypeOK'
    <3>1. schedule' \in Schedules
      BY ZenonT(60), <1>3, <2>1 DEF Good
    <3>2. results \in [Sizes -> Nat] /\ observed \subseteq Sizes /\ faults \in Nat
      BY ZenonT(60) DEF Inv, TypeOK
    <3> QED BY ZenonT(60), <1>0, <1>5, <2>1, <2>2, <3>1, <3>2 DEF TypeOK
  <2>4. StoredSizes' = StoredSizes
    BY <1>0 DEF StoredSizes
  <2>5. TargetsInv' /\ NoTargetLost'
    BY SMTT(60), <1>0, <1>4, <2>1, <2>4 DEF TargetsInv, NoTargetLost
  <2> QED BY ZenonT(60), <1>3, <1>5, <2>1, <2>2, <2>3, <2>5 DEF Inv
<1> QED BY <1>6, <1>7

(* What a completion may rely on: its size is one that was observed, and
   writing its result makes that size stored. *)
LEMMA CompletionFacts ==
    ASSUME Inv, NEW w \in Workers, worker[w].phase = "persisting",
           worker[w].outcome = "published", CompletionRepeats(w) \/ CompletionAllowed(w)
    PROVE  /\ worker[w].attempt.target \in Sizes
           /\ worker[w].attempt.target \in Nat /\ worker[w].attempt.target > 0
           /\ worker[w].anchor \in AnchorIDs /\ worker[w].anchor \in Nat \ {0}
<1> DEFINE n == worker[w].attempt.target
<1>1. n \in Sizes
  <2>1. CASE CompletionRepeats(w)
    BY SMTT(60), <2>1 DEF CompletionRepeats, Stored
  <2>2. CASE CompletionAllowed(w)
    <3>1. n = schedule.inFlight.target /\ HasInFlight(schedule)
      BY <2>2 DEF CompletionAllowed
    <3>2. n \in observed
      BY SMTT(60), <3>1 DEF Inv, TargetsInv
    <3> QED BY SMTT(60), <3>2, ObservedSizes
  <2> QED BY SMTT(60), <2>1, <2>2
<1>2. n \in Nat /\ n > 0
  BY <1>1, TreeAssumption DEF Sizes
<1>3. worker[w].anchor \in AnchorIDs /\ worker[w].anchor \in Nat \ {0}
  BY ZenonT(60), AnchorIDAssumption DEF Inv, WorkerInv
<1> QED BY SMTT(60), <1>1, <1>2, <1>3

LEMMA ResultWritten ==
    ASSUME TypeOK, NEW n \in Sizes, NEW id \in Nat \ {0}, results' = [results EXCEPT ![n] = id]
    PROVE  results' \in [Sizes -> Nat] /\ StoredSizes' = StoredSizes \cup {n}
<1>1. results \in [Sizes -> Nat]
  BY DEF TypeOK
<1>2. results' \in [Sizes -> Nat] /\ \A m \in Sizes : results'[m] = IF m = n THEN id ELSE results[m]
  BY <1>1
<1> QED BY <1>2 DEF StoredSizes

LEMMA CompleteAttemptInv == ASSUME Inv, NEW w \in Workers, CompleteAttempt(w) PROVE Inv'
<1> DEFINE n == worker[w].attempt.target
<1>1. /\ worker' = [worker EXCEPT ![w] = Idle] /\ UNCHANGED <<clock, tokens, observed, faults>>
      /\ worker[w].phase = "persisting" /\ worker[w].outcome = "published"
  BY DEF CompleteAttempt
<1>2. worker' \in [Workers -> WorkerStates] /\ ClockInv' /\ WorkerInv'
  BY ZenonT(60), <1>1, IdleOK, SetWorker
<1>3. CASE CompletionRepeats(w) \/ CompletionAllowed(w)
  <2>1. /\ latestRef' = ReferenceForResult(n)
        /\ results' = [results EXCEPT ![n] = worker[w].anchor]
        /\ schedule' = ReconcileCompleted(schedule, n)
    BY <1>3 DEF CompleteAttempt
  <2>2. n \in Nat /\ n > 0 /\ results' \in [Sizes -> Nat] /\ StoredSizes' = StoredSizes \cup {n}
    <3>1. n \in Nat /\ n > 0 /\ n \in Sizes /\ worker[w].anchor \in Nat \ {0}
      BY SMTT(60), <1>1, <1>3, CompletionFacts
    <3> HIDE DEF n
    <3> QED BY ZenonT(60), <2>1, <3>1, ResultWritten DEF Inv
  <2> HIDE DEF n
  <2>3. RefInv' /\ latestRef' \in References
    BY SMTT(60), <2>1, <2>2, ReferenceForResultOK DEF Inv, RefInv, RefOK
  <2>4. /\ Good(schedule')
        /\ \/ schedule'.inFlight = NoAttempt /\ schedule.inFlight.target = n
           \/ schedule'.inFlight = schedule.inFlight
        /\ \/ schedule'.pending = NoWindow /\ schedule.pending.target <= n
           \/ schedule'.pending = schedule.pending
    BY SMTT(60), <2>1, <2>2, ReconcileGood DEF Inv
  <2>5. TypeOK'
    BY SMTT(60), <1>1, <1>2, <2>2, <2>3, <2>4 DEF Inv, TypeOK, Good
  <2>6. NoAttempt.generation = 0 /\ NoWindow.generation = 0
    BY SMTT(60) DEF NoAttempt, NoWindow
  <2>7. TargetsInv'
    BY SMTT(60), <1>1, <2>4, <2>6 DEF Inv, TargetsInv
  <2>8. NoTargetLost'
    <3> SUFFICES ASSUME NEW m \in observed
                 PROVE  \/ \E k \in StoredSizes' : m <= k
                        \/ m <= schedule'.inFlight.target
                        \/ m <= schedule'.pending.target
      BY <1>1 DEF NoTargetLost
    <3>1. m \in Nat /\ schedule.pending.target \in Nat /\ schedule.inFlight.target \in Nat
      BY ObservedSizes DEF Inv, TypeOK, Schedules, Windows, Attempts
    <3>2. \/ \E k \in StoredSizes : m <= k
          \/ m <= schedule.inFlight.target
          \/ m <= schedule.pending.target
      BY DEF Inv, NoTargetLost
    <3>3. m <= n => \E k \in StoredSizes' : m <= k
      BY <2>2
    <3> QED BY SMTT(60), <2>2, <2>4, <3>1, <3>2, <3>3
  <2> QED BY SMTT(60), <1>2, <2>3, <2>4, <2>5, <2>7, <2>8 DEF Inv
<1>4. CASE ~CompletionRepeats(w) /\ ~CompletionAllowed(w)
  <2>1. UNCHANGED <<schedule, results, latestRef>>
    BY <1>4 DEF CompleteAttempt
  <2>2. TypeOK'
    BY <1>1, <1>2, <2>1 DEF Inv, TypeOK
  <2> QED BY SMTT(60), <1>1, <1>2, <2>1, <2>2, StoreUnchanged DEF Inv
<1> QED BY SMTT(60), <1>3, <1>4

LEMMA StopAfterReferenceInv ==
    ASSUME Inv, NEW w \in Workers, StopAfterReference(w)
    PROVE  Inv'
<1> DEFINE n == worker[w].attempt.target
<1>1. /\ worker' = [worker EXCEPT ![w] = Idle] /\ faults' = faults + 1
      /\ UNCHANGED <<clock, schedule, results, tokens, observed>>
      /\ worker[w].phase = "persisting" /\ worker[w].outcome = "published"
      /\ CompletionRepeats(w) \/ CompletionAllowed(w)
      /\ latestRef' = ReferenceForResult(n)
  BY DEF StopAfterReference
<1>2. worker' \in [Workers -> WorkerStates] /\ ClockInv' /\ WorkerInv'
  BY ZenonT(60), <1>1, IdleOK, SetWorker
<1>3. n \in Nat /\ n > 0
  BY <1>1, CompletionFacts
<1> HIDE DEF n
<1>4. StoredSizes' = StoredSizes
  BY SMTT(60), <1>1 DEF StoredSizes
<1>5. RefInv' /\ latestRef' \in References
  BY SMTT(60), <1>1, <1>3, <1>4, ReferenceForResultOK DEF Inv, RefInv, RefOK
<1>6. TypeOK'
  BY SMTT(60), <1>1, <1>2, <1>5 DEF Inv, TypeOK
<1>7. Good(schedule') /\ TargetsInv' /\ NoTargetLost'
  BY SMTT(60), <1>1, <1>4 DEF Inv, TargetsInv, NoTargetLost
<1> QED BY SMTT(60), <1>2, <1>5, <1>6, <1>7 DEF Inv

LEMMA StopAfterResultInv ==
    ASSUME Inv, NEW w \in Workers, StopAfterResult(w)
    PROVE  Inv'
<1> DEFINE n == worker[w].attempt.target
<1>1. /\ worker' = [worker EXCEPT ![w] = Idle] /\ faults' = faults + 1
      /\ UNCHANGED <<clock, schedule, tokens, observed>>
      /\ worker[w].phase = "persisting" /\ worker[w].outcome = "published"
      /\ CompletionAllowed(w) /\ latestRef' = ReferenceForResult(n)
      /\ results' = [results EXCEPT ![n] = worker[w].anchor]
  BY DEF StopAfterResult
<1>2. worker' \in [Workers -> WorkerStates] /\ ClockInv' /\ WorkerInv'
  BY ZenonT(60), <1>1, IdleOK, SetWorker
<1>3. n \in Nat /\ n > 0 /\ results' \in [Sizes -> Nat] /\ StoredSizes' = StoredSizes \cup {n}
  <2>1. n \in Nat /\ n > 0 /\ n \in Sizes /\ worker[w].anchor \in Nat \ {0}
    BY SMTT(60), <1>1, CompletionFacts
  <2> HIDE DEF n
  <2> QED BY ZenonT(60), <1>1, <2>1, ResultWritten DEF Inv
<1> HIDE DEF n
<1>5. RefInv' /\ latestRef' \in References
  BY SMTT(60), <1>1, <1>3, ReferenceForResultOK DEF Inv, RefInv, RefOK
<1>6. TypeOK'
  BY SMTT(60), <1>1, <1>2, <1>3, <1>5 DEF Inv, TypeOK
<1>7. Good(schedule') /\ TargetsInv' /\ NoTargetLost'
  BY SMTT(60), <1>1, <1>3 DEF Inv, TargetsInv, NoTargetLost
<1> QED BY <1>2, <1>5, <1>6, <1>7 DEF Inv

LEMMA RestoreInv == ASSUME Inv, Restore PROVE Inv'
<1> DEFINE s == ClearLeaseForRestore(schedule)
           r == ReconciledInFlight(s)
<1>1. /\ worker' = [w \in Workers |-> Idle] /\ faults' = faults + 1
      /\ UNCHANGED <<clock, results, tokens, observed>>
      /\ latestRef' = IF ScanLatest > 0 THEN [kind |-> "result", candidate |-> ScanLatest]
                      ELSE IF HasPending(r) THEN EmptyReference ELSE NoReference
      /\ schedule' = IF HasPending(r) /\ ScanLatest > 0
                     THEN ReconcileCompleted(r, ScanLatest) ELSE r
  BY SMTT(60) DEF Restore
<1>2. worker' \in [Workers -> WorkerStates] /\ ClockInv' /\ WorkerInv'
  BY <1>1, IdleOK DEF Inv, ClockInv, WorkerInv
<1>3. IsGreatest(ScanLatest, StoredSizes) /\ (ScanLatest = 0 <=> StoredSizes = {})
  BY SMTT(60), ScanFacts DEF Inv
<1>4. StoredSizes' = StoredSizes
  BY <1>1 DEF StoredSizes
<1>5. RefInv' /\ latestRef' \in References
  <2>1. CASE ScanLatest = 0
    BY <1>1, <1>3, <1>4, <2>1 DEF RefInv, RefOK, EmptyReference, NoReference, References
  <2>2. CASE ScanLatest # 0
    <3> DEFINE q == [kind |-> "result", candidate |-> ScanLatest]
    <3>1. ScanLatest \in Nat
      BY SMTT(60), <1>3 DEF IsGreatest
    <3>2. latestRef' = q /\ q \in References /\ q.kind = "result" /\ q.candidate = ScanLatest
      BY <1>1, <2>2, <3>1 DEF References
    <3> HIDE DEF q, r
    <3> QED BY <1>3, <1>4, <2>2, <3>2 DEF RefInv, RefOK, IsGreatest
  <2> QED BY SMTT(60), <2>1, <2>2
<1>6. /\ Good(s) /\ s.pending = schedule.pending
      /\ s.inFlight.generation = schedule.inFlight.generation
      /\ s.inFlight.target = schedule.inFlight.target
  BY SMTT(60), ClearLeaseGood DEF Inv
<1> HIDE DEF s
<1>7. /\ Good(schedule')
      /\ \/ schedule'.inFlight = NoAttempt /\ Stored(s.inFlight.target)
         \/ schedule'.inFlight = s.inFlight
      /\ \/ schedule'.pending = s.pending
         \/ schedule'.pending = NoWindow /\ \E m \in StoredSizes : s.pending.target <= m
  <2>1. TypeOK
    BY SMTT(60) DEF Inv
  <2> QED BY <1>1, <1>3, <1>6, <2>1, ReconcileShape
<1> HIDE DEF r
<1>8. TargetsInv' /\ NoTargetLost'
  <2>1. /\ HasPending(schedule') => schedule'.pending.target \in observed
        /\ HasInFlight(schedule') => schedule'.inFlight.target \in observed
        /\ \A n \in observed : \/ \E m \in StoredSizes : n <= m
                               \/ n <= schedule'.inFlight.target
                               \/ n <= schedule'.pending.target
    BY SMTT(60), <1>6, <1>7, ReconcileKeeps
  <2> QED BY ZenonT(60), <1>1, <1>4, <2>1 DEF TargetsInv, NoTargetLost
<1>9. TypeOK'
  <2>1. schedule' \in Schedules
    BY ZenonT(60), <1>7 DEF Good
  <2>2. /\ results \in [Sizes -> Nat] /\ observed \subseteq Sizes
        /\ clock \in Nat /\ tokens \in Nat /\ faults \in Nat
    BY ZenonT(60) DEF Inv, TypeOK
  <2>3. faults' \in Nat
    BY <1>1, <2>2
  <2> QED BY ZenonT(60), <1>1, <1>2, <1>5, <2>1, <2>2, <2>3 DEF TypeOK
<1> QED BY ZenonT(60), <1>2, <1>5, <1>7, <1>8, <1>9 DEF Inv

LEMMA NextInv == Inv /\ [Next]_vars => Inv'
<1> SUFFICES ASSUME Inv, [Next]_vars PROVE Inv'
  OBVIOUS
<1>1. CASE Tick
  BY <1>1, TickInv
<1>2. ASSUME NEW n \in Sizes, NEW lag \in 0 .. MaxLag, UpsertCandidate(n, lag) PROVE Inv'
  BY SMTT(60), <1>2, UpsertCandidateInv
<1>3. ASSUME NEW w \in Workers, WorkerStep(w) PROVE Inv'
  BY SMTT(60), <1>3, StartTickInv, ClaimAttemptInv, CheckpointProviderInv, SinkReturnsInv,
     CompleteAttemptInv, FailAttemptInv, RescheduleAttemptInv DEF WorkerStep
<1>4. CASE Fault
  BY SMTT(60), <1>4, StopAfterReferenceInv, StopAfterResultInv, AbandonTickInv, RestoreInv DEF Fault
<1>5. CASE UNCHANGED vars
  <2>1. TypeOK' /\ ClockInv' /\ WorkerInv'
    BY <1>5 DEF vars, Inv, TypeOK, ClockInv, WorkerInv
  <2> QED BY SMTT(60), <1>5, <2>1, StoreUnchanged DEF vars, Inv
<1> QED BY <1>1, <1>2, <1>3, <1>4, <1>5 DEF Next

LEMMA SpecInv == Spec => []Inv
BY InitInv, NextInv, PTL DEF Spec

-----------------------------------------------------------------------------
(* Every value the anchor store and the anchor workers hold has its type. *)
THEOREM AnchorTypeCorrect == Spec => []TypeOK
BY SpecInv, PTL DEF Inv

(* No sequence of claims, completions, failures, crashes and restores stores a
   schedule that ValidateSchedule would answer with data loss. *)
THEOREM ScheduleAlwaysValid == Spec => []ScheduleValid
<1>1. Inv => ScheduleValid
  BY GoodIsValid DEF Inv, ScheduleValid
<1> QED BY <1>1, SpecInv, PTL

(* A head the outbox handed over stays covered by a result, the attempt or the
   window, for any number of workers, heads and faults. *)
THEOREM NothingLost == Spec => []NoTargetLost
BY SpecInv, PTL DEF Inv

(* Reading the latest result finds the greatest stored one, whichever write of
   a completion a crash came after. *)
THEOREM LatestAlwaysGreatest == Spec => []LatestIsGreatest
<1>1. Inv => LatestIsGreatest
  BY LatestFacts DEF Inv, RefInv, LatestIsGreatest
<1> QED BY <1>1, SpecInv, PTL

(* All that is stored of anchoring stays valid, complete and readable, whatever
   the workers, the clock, crashes and restores do. *)
THEOREM AnchorSoundHolds == Spec => []AnchorSound
BY ScheduleAlwaysValid, NothingLost, LatestAlwaysGreatest, PTL DEF AnchorSound
=============================================================================
