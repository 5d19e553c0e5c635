----------------------------- MODULE TikvStore -----------------------------
(***************************************************************************)
(* The proof store on TiKV (internal/proofstore/tikv/store.go): the        *)
(* operations several processes run against one namespace, each as the     *)
(* code runs it.  Most are optimistic transactions under snapshot          *)
(* isolation: reads see the store as it was when the transaction began,    *)
(* and the commit fails when another transaction has since written a key   *)
(* it writes; what it only read may have changed.  The others read         *)
(* outside a transaction and then commit a batch that nothing can refuse.  *)
(* A key is a triple <<family, a, b>>; the value 0 means absent.           *)
(***************************************************************************)
EXTENDS Integers, FiniteSets

CONSTANTS Clients,      \* processes that open the namespace
          Batches,      \* batch numbers; all batches answer one claim identity
          Sinks,        \* anchor sinks, numbered from 1
          Sizes,        \* tree sizes anchored
          Times,        \* due times of prepared manifests and outbox items
          Sequences,    \* WAL sequences of checkpoints
          MaxCalls      \* operations begun on an open store

ASSUME TikvAssumption ==
    /\ IsFiniteSet(Clients)
    /\ Batches \subseteq Nat \ {0}
    /\ Sinks \subseteq 1 .. 999
    /\ Sizes \subseteq Nat \ {0}
    /\ Times \subseteq 1 .. 999
    /\ Sequences \subseteq Nat \ {0}
    /\ MaxCalls \in Nat

VARIABLES kv,           \* the namespace
          txn,          \* client -> its open transaction, or NoTxn
          bound,        \* client -> suite its store was opened for, 0: closed
          ready,        \* client -> its idempotencyReady flag
          refused,      \* kinds of operation refused so far
          calls         \* operations begun

tikvVars == <<kv, txn, bound, ready, refused, calls>>

Levels == 3 .. 5
Committed == 1000       \* manifest values: 1..999 prepared and due then
Published == 1000       \* outbox values: 1..999 pending and due then
Empty == -1             \* a latest reference that says: no result

Marker == <<"marker", 0, 0>>
Ready == <<"ready", 0, 0>>
Fence == <<"fence", 0, 0>>
Point == <<"checkpoint", 0, 0>>
Decision == <<"decision", 0, 0>>
ManifestKey(b) == <<"manifest", b, 0>>
PreparedKey(t, b) == <<"prepared", t, b>>
OutboxKey(b) == <<"outbox", b, 0>>
StatusKey(v, b) == <<"status", v, b>>
ByID(b) == <<"by-id", b, 0>>
ByLevel(l, b) == <<"by-level", l, b>>
ResultKey(s, n) == <<"result", s, n>>
LatestKey(s) == <<"latest", s, 0>>      \* s = 0: over all sinks

Keys == {Marker, Ready, Fence, Point, Decision}
     \cup {ManifestKey(b) : b \in Batches}
     \cup {PreparedKey(t, b) : t \in Times, b \in Batches}
     \cup {OutboxKey(b) : b \in Batches}
     \cup {StatusKey(v, b) : v \in Times \cup {Published}, b \in Batches}
     \cup {ByID(b) : b \in Batches}
     \cup {ByLevel(l, b) : l \in Levels, b \in Batches}
     \cup {ResultKey(s, n) : s \in Sinks, n \in Sizes}
     \cup {LatestKey(s) : s \in Sinks \cup {0}}

NoTxn == [kind |-> "none"]

\* What a commit writes is a function from the keys to their new values.
Put(k, v) == [x \in {k} |-> v]
And(f, g) == [x \in DOMAIN f \cup DOMAIN g |-> IF x \in DOMAIN f THEN f[x] ELSE g[x]]
NoWrites == [x \in {} |-> 0]
After(store, f) == [k \in Keys |-> IF k \in DOMAIN f THEN f[k] ELSE store[k]]

Held(store, k) == store[k] # 0

(***************************************************************************)
(* What one operation writes, given the store it reads.  An outcome is a   *)
(* record: whether the operation is refused, and the keys it sets.         *)
(***************************************************************************)
Refuse == [ok |-> FALSE, set |-> NoWrites]
Set(f) == [ok |-> TRUE, set |-> f]
Nothing == Set(NoWrites)

\* ensureStorageSchema: the marker fixes the suite; an unmarked namespace
\* that holds data is refused; the marker and the readiness of the
\* idempotency projection are written together.
ensureStorageSchema(store, op) ==
    IF Held(store, Marker)
    THEN IF store[Marker] = op.suite THEN Nothing ELSE Refuse
    ELSE IF \E k \in Keys : Held(store, k) THEN Refuse
         ELSE Set(And(Put(Marker, op.suite), Put(Ready, 1)))

\* tryEnsureIdempotencyProjection: scan is the store as the separate
\* manifest scan sees it.
tryEnsureIdempotencyProjection(store, scan) ==
    IF Held(store, Ready) THEN Nothing
    ELSE IF \E b \in Batches : scan[ManifestKey(b)] >= Committed THEN Refuse
         ELSE Set(And(Put(Fence, 1), Put(Ready, 1)))

IsPrepared(m) == m > 0 /\ m < Committed

\* The prepared index entries a manifest loses and gains.
PreparedIndex(store, b, m) ==
    [k \in {PreparedKey(t, b) : t \in {store[ManifestKey(b)], m} \cap Times}
       |-> IF k = PreparedKey(m, b) THEN 1 ELSE 0]


\* PutManifest: once the projection is ready, committed manifests are left
\* to PublishCommittedBatch.
TikvPutManifest(store, op) ==
    LET old == store[ManifestKey(op.batch)]
    IN  IF Held(store, Ready) /\ (op.value >= Committed \/ old >= Committed)
        THEN Refuse
        ELSE Set(And(And(Put(ManifestKey(op.batch), op.value), Put(Fence, 1)),
                     PreparedIndex(store, op.batch, op.value)))

\* tryPublishCommittedBatch: the manifest and the decision for its claim
\* identity, or nothing.
tryPublishCommittedBatch(store, op) ==
    LET old == store[ManifestKey(op.batch)]
    IN  IF \/ ~Held(store, Ready)
           \/ old >= Committed /\ old # op.value
           \/ Held(store, Decision) /\ store[Decision] # op.batch
        THEN Refuse
        ELSE Set(And(And(Put(ManifestKey(op.batch), op.value), Put(Decision, op.batch)),
                     PreparedIndex(store, op.batch, op.value)))


\* tryPutCheckpoint: never back.
tryPutCheckpoint(store, op) ==
    IF store[Point] >= op.value THEN Nothing ELSE Set(Put(Point, op.value))

\* EnqueueGlobalLog: the existence check and the batch are not one
\* transaction.
TikvEnqueueGlobalLog(store, op) ==
    IF Held(store, OutboxKey(op.batch)) THEN Refuse
    ELSE Set(And(Put(OutboxKey(op.batch), op.value), Put(StatusKey(op.value, op.batch), 1)))

\* replaceGlobalLogOutbox: the item and its status entries follow the item
\* read, not the item stored.
replaceGlobalLogOutbox(old, b, v) ==
    Set(And(And(Put(OutboxKey(b), v), Put(StatusKey(v, b), 1)), Put(StatusKey(old, b), 0)))

RescheduleGlobalLog(store, op) ==
    IF ~Held(store, OutboxKey(op.batch)) THEN Refuse
    ELSE replaceGlobalLogOutbox(store[OutboxKey(op.batch)], op.batch, op.value)

\* publishGlobalLogOutboxBatch, in one transaction.
publishGlobalLogOutboxBatch(store, op) ==
    LET old == store[OutboxKey(op.batch)]
    IN  CASE old = 0 -> Refuse
          [] old = Published -> Nothing
          [] OTHER -> replaceGlobalLogOutbox(old, op.batch, Published)

\* tryCommitRecordIndexPromotionChunk: the level is read again inside the
\* transaction and never lowered.
promoteRecord(store, op) ==
    LET level == store[ByID(op.batch)]
    IN  IF level >= op.value THEN Nothing
        ELSE Set(And(And(Put(ByID(op.batch), op.value), Put(ByLevel(op.value, op.batch), 1)),
                     IF level = 0 THEN NoWrites ELSE Put(ByLevel(level, op.batch), 0)))

\* Result references order by size, then by sink.
Reference(s, n) == 1000 * n + s

References(store, s) ==
    {Reference(p[1], p[2]) :
        p \in {q \in Sinks \X Sizes : /\ s = 0 \/ s = q[1]
                                     /\ Held(store, ResultKey(q[1], q[2]))}}

Greatest(S) == CHOOSE r \in S : \A x \in S : r >= x

\* latestAnchorResultTransaction: a missing reference is rebuilt from the
\* results, or written as empty, in the transaction that reads it.
Latest(store, s) ==
    IF Held(store, LatestKey(s)) THEN store[LatestKey(s)]
    ELSE IF References(store, s) = {} THEN Empty
         ELSE Greatest(References(store, s))

Rebuilt(store, s) ==
    IF Held(store, LatestKey(s)) THEN NoWrites
    ELSE Put(LatestKey(s), Latest(store, s))

latestAnchorResultTransaction(store, op) == Set(Rebuilt(store, op.sink))

\* PutSTHAnchorResult and writeAnchorResultTransaction: the result, and
\* each reference it exceeds.
writeAnchorResultTransaction(store, op) ==
    LET r == Reference(op.sink, op.size)
        result == Put(ResultKey(op.sink, op.size), 1)
        after == After(store, result)
        Ref(s) == IF r > Latest(after, s) THEN Put(LatestKey(s), r)
                  ELSE Rebuilt(after, s)
    IN  Set(And(And(result, Ref(0)), Ref(op.sink)))

\* PutSTHAnchorResult: a result already stored is not written again.
PutSTHAnchorResult(store, op) ==
    IF Held(store, ResultKey(op.sink, op.size))
    THEN Set([k \in DOMAIN writeAnchorResultTransaction(store, op).set
                   \ {ResultKey(op.sink, op.size)}
                |-> writeAnchorResultTransaction(store, op).set[k]])
    ELSE writeAnchorResultTransaction(store, op)

Outcome(store, scan, op) ==
    CASE op.kind = "open"       -> ensureStorageSchema(store, op)
      [] op.kind = "ensure"     -> tryEnsureIdempotencyProjection(store, scan)
      [] op.kind = "manifest"   -> TikvPutManifest(store, op)
      [] op.kind = "restore"    -> TikvPutManifest(store, op)
      [] op.kind = "publish"    -> tryPublishCommittedBatch(store, op)
      [] op.kind = "checkpoint" -> tryPutCheckpoint(store, op)
      [] op.kind = "enqueue"    -> TikvEnqueueGlobalLog(store, op)
      [] op.kind = "reschedule" -> RescheduleGlobalLog(store, op)
      [] op.kind = "outbox"     -> publishGlobalLogOutboxBatch(store, op)
      [] op.kind = "promote"    -> promoteRecord(store, op)
      [] op.kind = "result"     -> PutSTHAnchorResult(store, op)
      [] op.kind = "latest"     -> latestAnchorResultTransaction(store, op)

\* Operations that commit a batch without having read in the same
\* transaction: nothing refuses them.
Blind(op) == op.kind \in {"enqueue", "reschedule"}

\* Operations that begin again on a write conflict; PutManifest does not.
Retries(op) == op.kind \notin {"manifest", "restore"}

\* What a client may call: everything needs an open store, publication and
\* checkpoints the client's own readiness flag, and a restore a namespace
\* with no data of its own.
Callable(c, op) ==
    /\ (op.kind = "open") = (bound[c] = 0)
    /\ op.kind \in {"publish", "checkpoint"} => ready[c]
    /\ op.kind = "restore" =>
         \A k \in Keys \ {Marker, Ready, Fence} : ~Held(kv, k)
    /\ op.kind = "reschedule" => op.value > kv[OutboxKey(op.batch)]

\* A namespace never used, or one marked by a build without the projection.
TikvInit ==
    /\ kv \in {[k \in Keys |-> 0],
               [k \in Keys |-> IF k = Marker THEN 1 ELSE 0]}
    /\ txn = [c \in Clients |-> NoTxn]
    /\ bound = [c \in Clients |-> 0]
    /\ ready = [c \in Clients |-> FALSE]
    /\ refused = {}
    /\ calls = 0

OpenedTxn(op) == [kind |-> "open", op |-> op, snap |-> kv, stale |-> {}]

BeginTxn(c, op) ==
    /\ txn[c] = NoTxn
    /\ op.kind = "open" \/ calls < MaxCalls
    /\ Callable(c, op)
    /\ txn' = [txn EXCEPT ![c] = OpenedTxn(op)]
    /\ ready' = IF op.kind = "ensure" THEN [ready EXCEPT ![c] = FALSE]
                ELSE ready
    /\ calls' = IF op.kind = "open" THEN calls ELSE calls + 1
    /\ UNCHANGED <<kv, bound, refused>>

\* The commit applies: every other open transaction is now stale on the
\* keys written.
Applied(c, f) ==
    /\ kv' = After(kv, f)
    /\ txn' = [d \in Clients |->
                 IF d = c \/ txn[d] = NoTxn THEN NoTxn
                 ELSE [txn[d] EXCEPT !.stale = @ \cup DOMAIN f]]

Succeeds(c, op) ==
    /\ bound' = IF op.kind = "open" THEN [bound EXCEPT ![c] = op.suite]
                ELSE bound
    /\ ready' = IF op.kind = "ensure" THEN [ready EXCEPT ![c] = TRUE]
                ELSE ready

Conflicts(t, f) == ~Blind(t.op) /\ DOMAIN f \cap t.stale # {}

Finish(c) ==
    /\ txn[c] # NoTxn
    /\ \E scan \in {txn[c].snap, kv} :
         LET t == txn[c]
             out == Outcome(t.snap, scan, t.op)
         IN  \/ /\ ~out.ok
                /\ refused' = refused \cup {t.op.kind}
                /\ txn' = [txn EXCEPT ![c] = NoTxn]
                /\ UNCHANGED <<kv, bound, ready>>
             \/ /\ out.ok /\ ~Conflicts(t, out.set)
                /\ Applied(c, out.set)
                /\ Succeeds(c, t.op)
                /\ UNCHANGED refused
             \/ /\ out.ok /\ ~Conflicts(t, out.set)  \* the answer is lost
                /\ Applied(c, out.set)
                /\ UNCHANGED <<bound, ready, refused>>
             \/ /\ out.ok /\ Conflicts(t, out.set) /\ Retries(t.op)
                /\ txn' = [txn EXCEPT ![c] = OpenedTxn(t.op)]
                /\ UNCHANGED <<kv, bound, ready, refused>>
    /\ UNCHANGED calls

\* The commit fails for good: a conflict that is not retried or has been
\* retried too often, an expired context, or a dead process.
GiveUp(c) ==
    /\ txn[c] # NoTxn
    /\ txn' = [txn EXCEPT ![c] = NoTxn]
    /\ UNCHANGED <<kv, bound, ready, refused, calls>>

Operations ==
       [kind : {"open"}, suite : {1, 2}]
  \cup [kind : {"ensure"}]
  \cup [kind : {"manifest"}, batch : Batches, value : Times]
  \cup [kind : {"restore"}, batch : Batches, value : {Committed}]
  \cup [kind : {"publish"}, batch : Batches, value : {Committed, Committed + 1}]
  \cup [kind : {"checkpoint"}, value : Sequences]
  \cup [kind : {"enqueue", "reschedule"}, batch : Batches, value : Times]
  \cup [kind : {"outbox"}, batch : Batches]
  \cup [kind : {"promote"}, batch : Batches, value : Levels]
  \cup [kind : {"result"}, sink : Sinks, size : Sizes]
  \cup [kind : {"latest"}, sink : Sinks \cup {0}]

TikvNext ==
    \E c \in Clients :
        \/ \E op \in Operations : BeginTxn(c, op)
        \/ Finish(c)
        \/ GiveUp(c)

TikvSpec == TikvInit /\ [][TikvNext]_tikvVars

-----------------------------------------------------------------------------


\* A backup can be restored into a fresh TiKV namespace: no manifest of the
\* archive is refused (backup_cmd.go: "Restore a portable .tdbackup archive
\* into a file, Pebble, or TiKV proofstore").
RestoreAccepted == "restore" \notin refused
=============================================================================
