--------------------------- MODULE AnchorSchedule ---------------------------
(***************************************************************************)
(* The transition functions of internal/anchorschedule/schedule.go: one    *)
(* durable schedule per (node, log, sink) holding at most one Pending      *)
(* window, which coalesces newer tree heads, and at most one immutable     *)
(* InFlight attempt, which is fenced by a generation and a lease token.    *)
(*                                                                         *)
(* A signed tree head is represented by its tree size: the global log      *)
(* signs one head per size, and every comparison the schedule makes        *)
(* between two heads is a comparison of sizes followed by an equality      *)
(* check that heads of one log pass.  An absent window or attempt is a     *)
(* record of zeros (ValidateSchedule rejects generation 0), an absent      *)
(* schedule is one with revision 0 (ValidateSchedule rejects it too).      *)
(***************************************************************************)
EXTENDS Integers

MaxOf(a, b) == IF a >= b THEN a ELSE b

Failures == {"none", "retryable", "terminal"}

Windows == [generation : Nat, target : Nat, openedAt : Nat, dueAt : Nat, updatedAt : Nat]

Attempts == [generation : Nat, target : Nat, openedAt : Nat, dueAt : Nat,
             attempts : Nat, nextAttempt : Nat, lastAttempt : Nat,
             failure : Failures, token : Nat, leaseUntil : Nat, provider : Nat]

Schedules == [nextGeneration : Nat, revision : Nat, pending : Windows, inFlight : Attempts]

NoWindow == [generation |-> 0, target |-> 0, openedAt |-> 0, dueAt |-> 0, updatedAt |-> 0]

NoAttempt == [generation |-> 0, target |-> 0, openedAt |-> 0, dueAt |-> 0,
              attempts |-> 0, nextAttempt |-> 0, lastAttempt |-> 0,
              failure |-> "none", token |-> 0, leaseUntil |-> 0, provider |-> 0]

NoSchedule == [nextGeneration |-> 1, revision |-> 0, pending |-> NoWindow, inFlight |-> NoAttempt]

Exists(s) == s.revision > 0
HasPending(s) == s.pending.generation > 0
HasInFlight(s) == s.inFlight.generation > 0
HasLease(a) == a.token > 0

-----------------------------------------------------------------------------
(* ValidateSchedule, one operator per group of its checks. *)

ValidWindow(w) ==
    /\ w.openedAt > 0
    /\ w.dueAt >= w.openedAt
    /\ w.updatedAt >= w.openedAt
    /\ w.target > 0

ValidAttempt(a) ==
    /\ a.openedAt > 0 /\ a.dueAt >= a.openedAt
    /\ a.lastAttempt > 0
    /\ a.nextAttempt > 0 => a.nextAttempt >= a.lastAttempt
    /\ HasLease(a) => a.leaseUntil > a.lastAttempt
    /\ ~HasLease(a) => a.leaseUntil = 0
    /\ a.failure = "terminal" => a.attempts > 0 /\ a.nextAttempt = 0 /\ ~HasLease(a)
    /\ a.failure # "terminal" /\ ~HasLease(a) /\ a.attempts > 0 => a.nextAttempt > 0
    /\ a.target > 0

ValidateSchedule(s) ==
    /\ s.nextGeneration > 0
    /\ s.revision > 0
    /\ HasPending(s) => ValidWindow(s.pending) /\ s.nextGeneration > s.pending.generation
    /\ HasInFlight(s) => ValidAttempt(s.inFlight) /\ s.nextGeneration > s.inFlight.generation
    /\ HasPending(s) /\ HasInFlight(s) =>
          /\ s.pending.generation > s.inFlight.generation
          /\ s.pending.target > s.inFlight.target

-----------------------------------------------------------------------------
(* MergeCandidate: the non-sliding coalescing rule.  latest is the tree size
   of the greatest durable result, 0 when there is none. *)

OpenWindow(s, c) ==
    [s EXCEPT !.pending = [generation |-> s.nextGeneration, target |-> c.target,
                           openedAt |-> c.observedAt, dueAt |-> c.dueAt,
                           updatedAt |-> c.observedAt],
              !.nextGeneration = @ + 1,
              !.revision = @ + 1]

ExtendWindow(s, c) ==
    [s EXCEPT !.pending = [s.pending EXCEPT !.target = c.target,
                                            !.updatedAt = MaxOf(s.pending.updatedAt, c.observedAt)],
              !.revision = @ + 1]

(* Faulty: a newer head replaces the target of an attempt that is not leased. *)
MergeIntoAttempt(s, c, latest) ==
    IF c.target <= latest THEN [s EXCEPT !.revision = IF Exists(s) THEN @ ELSE 1]
    ELSE IF c.target <= s.inFlight.target \/ c.target <= s.pending.target THEN s
    ELSE IF HasPending(s) THEN ExtendWindow(s, c)
    ELSE IF HasInFlight(s) /\ ~HasLease(s.inFlight)
         THEN [s EXCEPT !.inFlight = [s.inFlight EXCEPT !.target = c.target]]
    ELSE OpenWindow(s, c)

MergeCandidate(s, c, latest) ==
    IF c.target <= latest THEN [s EXCEPT !.revision = IF Exists(s) THEN @ ELSE 1]
    ELSE IF c.target <= s.inFlight.target \/ c.target <= s.pending.target THEN s
    ELSE IF HasPending(s) THEN ExtendWindow(s, c)
    ELSE OpenWindow(s, c)

-----------------------------------------------------------------------------
(* Claim: a retry of the in-flight attempt whose deadline and lease have both
   passed, or the promotion of a due window. *)

(* Faulty: an attempt is retried only when its holder gave the lease back. *)
ClaimableUnleased(s, now) ==
    IF HasInFlight(s)
    THEN /\ s.inFlight.failure # "terminal"
         /\ s.inFlight.nextAttempt <= now
         /\ ~HasLease(s.inFlight)
    ELSE HasPending(s) /\ s.pending.dueAt <= now

Claimable(s, now) ==
    IF HasInFlight(s)
    THEN /\ s.inFlight.failure # "terminal"
         /\ s.inFlight.nextAttempt <= now
         /\ s.inFlight.leaseUntil <= now
    ELSE HasPending(s) /\ s.pending.dueAt <= now

ClaimedAttempt(s, now, until, token) ==
    IF HasInFlight(s)
    THEN [s.inFlight EXCEPT !.token = token, !.leaseUntil = until,
                            !.lastAttempt = now, !.nextAttempt = now]
    ELSE [NoAttempt EXCEPT !.generation = s.pending.generation,
                           !.target = s.pending.target,
                           !.openedAt = s.pending.openedAt,
                           !.dueAt = s.pending.dueAt,
                           !.lastAttempt = now,
                           !.token = token, !.leaseUntil = until]

Claim(s, now, until, token) ==
    [s EXCEPT !.pending = IF HasInFlight(s) THEN @ ELSE NoWindow,
              !.inFlight = ClaimedAttempt(s, now, until, token),
              !.revision = @ + 1]

-----------------------------------------------------------------------------
(* The operations of the lease holder: all are fenced by generation and token. *)

(* Faulty: only the generation is compared. *)
FencedByGeneration(s, generation, token) ==
    generation > 0 /\ s.inFlight.generation = generation

Fenced(s, generation, token) ==
    /\ generation > 0 /\ s.inFlight.generation = generation
    /\ token > 0 /\ s.inFlight.token = token

(* CompareAndSwapProviderState also requires a live lease and the exact
   previous state. *)
SwapAllowed(s, generation, token, now, expected, next) ==
    /\ Fenced(s, generation, token)
    /\ s.inFlight.leaseUntil > now
    /\ s.inFlight.provider = expected
    /\ next > 0 /\ next # expected

SwapProvider(s, next) ==
    [s EXCEPT !.inFlight = [s.inFlight EXCEPT !.provider = next], !.revision = @ + 1]

RescheduleAllowed(s, generation, token, attempts, nextAttempt) ==
    /\ Fenced(s, generation, token)
    /\ attempts > s.inFlight.attempts
    /\ nextAttempt >= s.inFlight.lastAttempt

Reschedule(s, attempts, nextAttempt) ==
    [s EXCEPT !.inFlight = [s.inFlight EXCEPT !.attempts = attempts, !.nextAttempt = nextAttempt,
                                              !.failure = "retryable", !.token = 0, !.leaseUntil = 0],
              !.revision = @ + 1]

FailAllowed(s, generation, token, attempts) ==
    /\ Fenced(s, generation, token)
    /\ attempts > s.inFlight.attempts

Fail(s, attempts) ==
    [s EXCEPT !.inFlight = [s.inFlight EXCEPT !.attempts = attempts, !.nextAttempt = 0,
                                              !.failure = "terminal", !.token = 0, !.leaseUntil = 0],
              !.revision = @ + 1]

-----------------------------------------------------------------------------
(* reconcileCompleted: a stored result of this tree size ends the in-flight
   attempt on that size and every window it covers. *)

(* Faulty: any completion drops the pending window. *)
ReconcileDropsWindow(s, size) ==
    LET inDone == HasInFlight(s) /\ s.inFlight.target = size
    IN  [s EXCEPT !.inFlight = IF inDone THEN NoAttempt ELSE @,
                  !.pending = NoWindow,
                  !.revision = @ + 1]

ReconcileCompleted(s, size) ==
    LET inDone == HasInFlight(s) /\ s.inFlight.target = size
        penDone == HasPending(s) /\ s.pending.target <= size
    IN  [s EXCEPT !.inFlight = IF inDone THEN NoAttempt ELSE @,
                  !.pending = IF penDone THEN NoWindow ELSE @,
                  !.revision = IF inDone \/ penDone THEN @ + 1 ELSE @]

ClearLeaseForRestore(s) ==
    IF HasInFlight(s) /\ HasLease(s.inFlight)
    THEN [s EXCEPT !.inFlight = [s.inFlight EXCEPT !.token = 0, !.leaseUntil = 0], !.revision = @ + 1]
    ELSE s
=============================================================================
