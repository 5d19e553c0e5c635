---------------------------- MODULE TikvAnchors ----------------------------
(***************************************************************************)
(* The anchor schedule of one (node, log, sink) on TiKV                    *)
(* (internal/proofstore/tikv/store.go): every operation of the schedule is *)
(* one optimistic transaction over three kinds of key, the schedule, the   *)
(* result of each tree size and the reference to the latest result, run    *)
(* again when a commit meets a write conflict (runAnchorScheduleTrans-     *)
(* action).  Observers hand over tree heads while publishers claim, fail   *)
(* and complete attempts, in any number of processes.  The transitions of  *)
(* the schedule itself are those of AnchorSchedule.                        *)
(***************************************************************************)
EXTENDS AnchorSchedule, FiniteSets, TLC

CONSTANTS Observers,    \* outbox workers handing over candidates
          Workers,      \* anchor workers, numbered from 1
          MaxSize,      \* tree sizes handed over
          Delay,        \* window length
          Lease,        \* lease length
          MaxClock,     \* the clock stops here
          MaxTries,     \* attempts made on one target
          MaxTokens,    \* claims made
          MaxOpen       \* transactions open at once

ASSUME TikvAnchorsAssumption ==
    /\ Workers \subseteq Nat \ {0}
    /\ MaxSize \in Nat /\ Delay \in Nat /\ Lease \in Nat \ {0}
    /\ MaxClock \in Nat /\ MaxTries \in Nat /\ MaxTokens \in Nat /\ MaxOpen \in Nat

VARIABLES kvs,          \* schedule, results and latest reference
          tx,           \* actor -> its open transaction, or NoTx
          claimed,         \* worker -> the attempt it was given, or NoAttempt
          handed,       \* sizes whose candidate was committed
          tokens,       \* lease tokens issued
          time

anchorsVars == <<kvs, tx, claimed, handed, tokens, time>>

Actors == Observers \cup Workers
SizesOf == 1 .. MaxSize

\* Keys: the schedule, the latest reference (0: absent, -1: empty, else a
\* size), and the result of each size.
Schedule == -1
LatestRef == 0
StoreKeys == {Schedule, LatestRef} \cup SizesOf

NoTx == [kind |-> "none"]
KeepAll == <<>>
Denied == [ok |-> FALSE, set |-> KeepAll]
Writes(f) == [ok |-> TRUE, set |-> f]

\* latestAnchorResultTransaction: an absent reference is rebuilt or written
\* as empty by the transaction that reads it.
LatestSize(store) ==
    IF store[LatestRef] # 0 THEN MaxOf(store[LatestRef], 0)
    ELSE LET stored == {n \in SizesOf : store[n] # 0}
         IN  CHOOSE n \in stored \cup {0} : \A m \in stored : n >= m

RebuiltRef(store) ==
    IF store[LatestRef] # 0 THEN KeepAll
    ELSE LatestRef :> (IF LatestSize(store) = 0 THEN -1 ELSE LatestSize(store))

WriteSchedule(store, s) == IF s = store[Schedule] THEN KeepAll ELSE Schedule :> s

\* mergeSTHAnchorCandidateTransaction
Upsert(store, op) ==
    LET latest == MaxOf(LatestSize(store),
                        IF store[op.size] # 0 THEN op.size ELSE 0)
        c == [target |-> op.size, observedAt |-> op.now,
              dueAt |-> op.now + Delay]
    IN  Writes(WriteSchedule(store, MergeCandidate(store[Schedule], c, latest))
               @@ RebuiltRef(store))

\* reconcileStoredAnchorResultsTransaction
ReconcileStored(store) ==
    LET s == store[Schedule]
        s1 == IF HasInFlight(s) /\ store[s.inFlight.target] # 0
              THEN ReconcileCompleted(s, s.inFlight.target) ELSE s
    IN  IF HasPending(s1) /\ LatestSize(store) # 0
        THEN ReconcileCompleted(s1, LatestSize(store)) ELSE s1

\* ClaimSTHAnchorAttempt
ClaimAttemptTx(store, op) ==
    LET s == ReconcileStored(store)
    IN  IF ~Exists(store[Schedule]) THEN Writes(KeepAll)
        ELSE Writes(WriteSchedule(store,
                        IF Claimable(s, op.now)
                        THEN Claim(s, op.now, op.now + Lease, op.token) ELSE s)
                    @@ (IF HasPending(s) THEN RebuiltRef(store) ELSE KeepAll))

\* CompareAndSwapSTHAnchorProviderState
SwapTx(store, op) ==
    LET s == store[Schedule]
    IN  IF ~SwapAllowed(s, op.generation, op.token, op.now, op.provider,
                        op.provider + 1)
        THEN Denied
        ELSE Writes(Schedule :> SwapProvider(s, op.provider + 1))

\* RescheduleSTHAnchorAttempt
RescheduleTx(store, op) ==
    LET s == store[Schedule]
    IN  IF ~RescheduleAllowed(s, op.generation, op.token, op.attempts, op.now)
        THEN Denied
        ELSE Writes(Schedule :> Reschedule(s, op.attempts, op.now))

\* FailSTHAnchorAttempt
FailTx(store, op) ==
    LET s == store[Schedule]
    IN  IF ~FailAllowed(s, op.generation, op.token, op.attempts) THEN Denied
        ELSE Writes(Schedule :> Fail(s, op.attempts))

\* CompleteSTHAnchorAttempt: a stored result decides; otherwise the fence.
CompleteTx(store, op) ==
    LET s == store[Schedule]
        stored == store[op.size]
        newRef == IF op.size > LatestSize(store) THEN LatestRef :> op.size
                  ELSE RebuiltRef(store)
    IN  IF stored # 0
        THEN IF stored # op.id THEN Denied
             ELSE Writes((IF HasInFlight(s) /\ s.inFlight.target # op.size
                          THEN KeepAll
                          ELSE WriteSchedule(store, ReconcileCompleted(s, op.size)))
                         @@ newRef)
        ELSE IF ~Fenced(s, op.generation, op.token) \/ s.inFlight.target # op.size
             THEN Denied
             ELSE Writes((Schedule :> ReconcileCompleted(s, op.size))
                         @@ (op.size :> op.id) @@ newRef)

OutcomeTx(store, op) ==
    CASE op.kind = "upsert"     -> Upsert(store, op)
      [] op.kind = "claim"      -> ClaimAttemptTx(store, op)
      [] op.kind = "swap"       -> SwapTx(store, op)
      [] op.kind = "reschedule" -> RescheduleTx(store, op)
      [] op.kind = "fail"       -> FailTx(store, op)
      [] op.kind = "complete"   -> CompleteTx(store, op)

-----------------------------------------------------------------------------
AnchorsInit ==
    /\ kvs = [k \in StoreKeys |-> IF k = Schedule THEN NoSchedule ELSE 0]
    /\ tx = [a \in Actors |-> NoTx]
    /\ claimed = [w \in Workers |-> NoAttempt]
    /\ handed = {}
    /\ tokens = 0
    /\ time = 1

OpenTx(op) == [kind |-> "open", op |-> op, snap |-> kvs, stale |-> {}]

Start(a, op) ==
    /\ tx[a] = NoTx
    /\ Cardinality({b \in Actors : tx[b] # NoTx}) < MaxOpen
    /\ tx' = [tx EXCEPT ![a] = OpenTx(op)]
    /\ UNCHANGED <<kvs, claimed, handed, time>>

\* Heads are handed over as the log grows.
HandOver(o, n) ==
    /\ n \notin handed
    /\ Start(o, [kind |-> "upsert", size |-> n, now |-> time])
    /\ UNCHANGED tokens

\* A claim that finds nothing to do writes nothing and is left out.  A
\* token is new to the store.
ClaimCall(w) ==
    /\ claimed[w] = NoAttempt
    /\ tokens < MaxTokens
    /\ Claimable(kvs[Schedule], time)
    /\ Start(w, [kind |-> "claim", now |-> time, token |-> 10 * tokens + w])
    /\ UNCHANGED tokens

\* The holder's calls all carry the attempt as it was claimed.
HolderOps(w) ==
    LET h == claimed[w]
        fence == [generation |-> h.generation, token |-> h.token]
    IN  {[kind |-> "swap", now |-> time, provider |-> h.provider] @@ fence,
         [kind |-> "reschedule", now |-> time, attempts |-> h.attempts + 1] @@ fence,
         [kind |-> "fail", attempts |-> h.attempts + 1] @@ fence,
         [kind |-> "complete", size |-> h.target, id |-> w] @@ fence}

HolderCall(w, op) ==
    /\ claimed[w] # NoAttempt
    /\ op.kind = "swap" => op.provider = 0
    /\ op.kind = "reschedule" => op.attempts < MaxTries
    /\ Start(w, op)
    /\ UNCHANGED tokens

\* Faulty: a candidate is merged outside a transaction and committed as a
\* batch.
ConflictExceptUpsert(t, f) == t.op.kind # "upsert" /\ DOMAIN f \cap t.stale # {}

WriteConflict(t, f) == DOMAIN f \cap t.stale # {}

\* What the caller keeps in memory when it is answered.
Answered(a, op, ok, s) ==
    claimed' = CASE a \notin Workers -> claimed
              [] op.kind = "claim" ->
                   IF s.inFlight.token = op.token
                   THEN [claimed EXCEPT ![a] = s.inFlight] ELSE claimed
              [] op.kind = "swap" /\ ok ->
                   [claimed EXCEPT ![a] = [@ EXCEPT !.provider = op.provider + 1]]
              [] OTHER -> [claimed EXCEPT ![a] = NoAttempt]

CommitTx(a) ==
    /\ tx[a] # NoTx
    /\ LET t == tx[a]
           out == OutcomeTx(t.snap, t.op)
       IN  \/ /\ ~out.ok
              /\ tx' = [tx EXCEPT ![a] = NoTx]
              /\ Answered(a, t.op, FALSE, kvs[Schedule])
              /\ UNCHANGED <<kvs, handed, tokens>>
           \/ /\ out.ok /\ ~WriteConflict(t, out.set)
              /\ kvs' = out.set @@ kvs
              /\ tx' = [b \in Actors |->
                          IF b = a \/ tx[b] = NoTx THEN NoTx
                          ELSE [tx[b] EXCEPT !.stale = @ \cup DOMAIN out.set]]
              /\ handed' = IF t.op.kind = "upsert" THEN handed \cup {t.op.size}
                           ELSE handed
              /\ tokens' = IF t.op.kind = "claim" THEN tokens + 1 ELSE tokens
              /\ \/ Answered(a, t.op, TRUE, kvs'[Schedule])
                 \/ UNCHANGED claimed          \* the answer is lost
           \/ /\ out.ok /\ WriteConflict(t, out.set)
              /\ tx' = [tx EXCEPT ![a] = OpenTx(t.op)]
              /\ UNCHANGED <<kvs, claimed, handed, tokens>>
    /\ UNCHANGED time

\* Retries run out, or the process dies and its worker forgets the attempt.
Abandon(a) ==
    /\ tx[a] # NoTx
    /\ tx' = [tx EXCEPT ![a] = NoTx]
    /\ claimed' = IF a \in Workers THEN [claimed EXCEPT ![a] = NoAttempt] ELSE claimed
    /\ UNCHANGED <<kvs, handed, tokens, time>>

ClockTick ==
    /\ time < MaxClock
    /\ time' = time + 1
    /\ UNCHANGED <<kvs, tx, claimed, handed, tokens>>

AnchorsNext ==
    \/ \E o \in Observers, n \in SizesOf : HandOver(o, n)
    \/ \E w \in Workers : ClaimCall(w)
    \/ \E w \in Workers : \E op \in HolderOps(w) : HolderCall(w, op)
    \/ \E a \in Actors : CommitTx(a) \/ Abandon(a)
    \/ ClockTick

AnchorsSpec == AnchorsInit /\ [][AnchorsNext]_anchorsVars

-----------------------------------------------------------------------------
InFlightTarget == kvs[Schedule].inFlight.target

Promise == INSTANCE AnchorPromise WITH
    MaxTree <- MaxSize,
    AnchorIDs <- Workers,
    observed <- handed,
    target <- InFlightTarget,
    results <- [n \in SizesOf |-> kvs[n]]

\* The schedule on TiKV keeps the anchoring promise under snapshot
\* isolation, where a transaction may rest on reads that are out of date: a
\* frozen target stays until its own result is stored, exceeds everything
\* anchored before, and a result never changes, whatever claims, merges,
\* failures and completions of several processes met.
TransactionsKeepPromise == Promise!Spec
=============================================================================
