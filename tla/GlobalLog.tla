------------------------------ MODULE GlobalLog ------------------------------
(***************************************************************************)
(* From a committed batch to L4 and L5: the global-log outbox worker       *)
(* (internal/globallog/outbox.go), the append that signs a tree head per   *)
(* batch root (internal/globallog/service.go), the publication that hands  *)
(* the head to anchoring and promotes the batch's records, and the         *)
(* projector that shows anchored records as L5 (internal/l5projector), on  *)
(* the three proof stores.  Anchoring itself is AnchorPromise, which       *)
(* AnchorWorker implements.  A tree head is the sequence of batches under  *)
(* its root; the records of a batch are one record.                        *)
(***************************************************************************)
EXTENDS Naturals, SequencesExt, FiniteSetsExt

CONSTANTS Backends,      \* the stores an instance may run on
          Nodes,         \* processes that share a TiKV store
          MaxBatch,      \* bound: batches
          BatchSize,     \* OutboxConfig.BatchSize
          PageSize,      \* Config.PageSize of the projector
          Unlucky,       \* the processes that meet store errors and crashes
          MaxMishaps     \* bound: how many of them

ASSUME GlobalLogAssumption ==
    /\ Backends \subseteq {"file", "pebble", "tikv"}
    /\ Nodes # {} /\ IsFiniteSet(Nodes)
    /\ {MaxBatch, BatchSize, PageSize} \subseteq Nat \ {0}
    /\ MaxMishaps \in Nat /\ Unlucky \subseteq Nodes

Batches == 1 .. MaxBatch
MaxSize == MaxBatch + MaxMishaps   \* a torn append may leave a leaf too many
Sizes == 1 .. MaxSize

VARIABLES
    backend,
    outbox,      \* pending items in the order the worker lists them
    waiting,     \* items whose next attempt is not due
    published,   \* tree size recorded with a published item, else 0
    leaf,        \* leaves by index
    leafOf,      \* the batch index of the leaves: leaf index + 1, else 0
    state,       \* the stored frontier: the leaves it stands for
    heads,       \* signed tree heads by size, <<>> where there is none
    journal,     \* the publication journal of the file store
    apply,       \* how far its application has come
    observed, target, results,   \* AnchorPromise
    level,       \* proof level in the record index
    covered,     \* the L5 coverage checkpoint
    worker,      \* the outbox worker of each process
    projector,   \* the L5 projector of each process
    mishaps

log == <<leaf, leafOf, state, heads>>
queue == <<outbox, waiting, published>>
publication == <<journal, apply>>
anchoring == <<observed, target, results>>
index == <<level, covered>>
vars == <<backend, log, queue, publication, anchoring, index, worker, projector, mishaps>>

Anchors == INSTANCE AnchorPromise WITH MaxTree <- MaxSize, AnchorIDs <- {1}

L3 == 3
L4 == 4
L5 == 5

(* Only TiKV is shared by several processes. *)
Running == IF backend = "tikv" THEN Nodes ELSE {CHOOSE n \in Nodes : TRUE}
Atomic == backend # "file"

Idle == [pc |-> "idle", items |-> <<>>, base |-> <<>>, new |-> <<>>, sths |-> <<>>, at |-> 1, seen |-> 0]
Resting == [pc |-> "idle", at |-> 0, to |-> 0, seen |-> 0]
NoJournal == [items |-> <<>>, sths |-> <<>>]
FromStart == [at |-> 1, stage |-> "schedule", seen |-> 0]

Init ==
    /\ backend \in Backends
    /\ outbox = <<>> /\ waiting = {} /\ published = [b \in Batches |-> 0]
    /\ leaf = <<>> /\ leafOf = [b \in Batches |-> 0] /\ state = <<>> /\ heads = [n \in Sizes |-> <<>>]
    /\ journal = NoJournal /\ apply = FromStart
    /\ Anchors!Init
    /\ level = [b \in Batches |-> L3] /\ covered = 0
    /\ worker = [n \in Nodes |-> Idle] /\ projector = [n \in Nodes |-> Resting]
    /\ mishaps = 0

Move(n, pc) == worker' = [worker EXCEPT ![n].pc = pc]
ToMark(n) == worker' = [worker EXCEPT ![n].pc = "mark", ![n].base = <<>>, ![n].new = <<>>, ![n].at = 1]
Rest(n) == worker' = [worker EXCEPT ![n] = Idle]

-----------------------------------------------------------------------------
(* The commit hook enqueues the root of a committed batch; batches are named
   in the order of their commits. *)
Enqueue(b) ==
    /\ published[b] = 0 /\ b \notin ToSet(outbox)
    /\ \A c \in 1 .. b - 1 : published[c] # 0 \/ c \in ToSet(outbox)
    /\ outbox' = Append(outbox, b)
    /\ UNCHANGED <<backend, waiting, published, log, publication, anchoring, index, worker, projector, mishaps>>

(* The next attempt of an item falls due. *)
BackoffEnds(b) ==
    /\ b \in waiting
    /\ waiting' = waiting \ {b}
    /\ UNCHANGED <<backend, outbox, published, log, publication, anchoring, index, worker, projector, mishaps>>


Due == SelectSeq(outbox, LAMBDA b : b \notin waiting)

List(n) ==
    /\ worker[n].pc = "idle" /\ Due # <<>>
    /\ worker' = [worker EXCEPT ![n] =
          [Idle EXCEPT !.pc = "plan", !.items = SubSeq(Due, 1, Min({BatchSize, Len(Due)}))]]
    /\ UNCHANGED <<backend, log, queue, publication, anchoring, index, projector, mishaps>>

(* A state that is not stored is rebuilt from the leaves. *)
Loaded == IF state = <<>> THEN leaf ELSE state

(* The items the log does not have yet. *)
NotInLog(items) == SelectSeq(items, LAMBDA b : leafOf[b] = 0)

Headless(items) == \E b \in ToSet(items) : leafOf[b] # 0 /\ heads[leafOf[b]] = <<>>


(* The head each item is published with: the one of its leaf. *)
HeadsFor(items, base, new) ==
    [i \in DOMAIN items |->
        IF items[i] \in ToSet(new)
        THEN Len(base) + (CHOOSE k \in DOMAIN new : new[k] = items[i])
        ELSE leafOf[items[i]]]

(* loadState and the lookups of appendBatchRootsOnce, in one step: a commit of
   another process between them makes the fence refuse the append. *)
Plan(n) ==
    LET w == worker[n]
        new == NotInLog(w.items)
        sths == HeadsFor(w.items, Loaded, new) IN
    /\ w.pc = "plan" /\ ~ Headless(w.items)
    /\ state' = Loaded
    /\ worker' = [worker EXCEPT ![n] =
          IF new = <<>> THEN [w EXCEPT !.pc = "mark", !.sths = sths]
          ELSE [w EXCEPT !.pc = IF Atomic THEN "commit" ELSE "leaf",
                         !.base = Loaded, !.new = new, !.sths = sths]]
    /\ UNCHANGED <<backend, leaf, leafOf, heads, queue, publication, anchoring, index, projector, mishaps>>

(* The tree of size k that a worker's append signs. *)
TreeOf(w, k) == SubSeq(w.base \o w.new, 1, k)

(* Faulty: whoever commits last wins. *)
FenceOpen(w) == TRUE

(* commitWithGlobalLogFence: the state is still the one the plan is based on. *)
Fence(w) == backend = "tikv" => Len(state) = Len(w.base)

IndexOf(w, b) == Len(w.base) + (CHOOSE k \in DOMAIN w.new : w.new[k] = b)

(* Leaves, batch index, state and heads in one batch or transaction. *)
CommitAppends(w) ==
    /\ leaf' = w.base \o w.new /\ state' = w.base \o w.new
    /\ leafOf' = [b \in Batches |-> IF b \in ToSet(w.new) THEN IndexOf(w, b) ELSE leafOf[b]]
    /\ heads' = [k \in Sizes |->
          IF k \in Len(w.base) + 1 .. Len(w.base) + Len(w.new) THEN TreeOf(w, k) ELSE heads[k]]

Commit(n) ==
    /\ worker[n].pc = "commit" /\ Fence(worker[n])
    /\ CommitAppends(worker[n])
    /\ ToMark(n)
    /\ UNCHANGED <<backend, queue, publication, anchoring, index, projector, mishaps>>

(* A stale base: the append starts again. *)
Conflict(n) ==
    /\ worker[n].pc = "commit" /\ ~ Fence(worker[n])
    /\ worker' = [worker EXCEPT ![n] = [Idle EXCEPT !.pc = "plan", !.items = worker[n].items]]
    /\ UNCHANGED <<backend, log, queue, publication, anchoring, index, projector, mishaps>>

(* The file store writes the four parts of an append one after the other. *)
WriteAppend(n) ==
    LET w == worker[n]
        k == Len(w.base) + w.at IN
    /\ \/ /\ w.pc = "leaf" /\ Move(n, "index")
          /\ leaf' = SubSeq(leaf, 1, k - 1) \o <<w.new[w.at]>> \o SubSeq(leaf, k + 1, Len(leaf))
          /\ UNCHANGED <<leafOf, state, heads>>
       \/ /\ w.pc = "index" /\ Move(n, "state")
          /\ leafOf' = [leafOf EXCEPT ![w.new[w.at]] = k]
          /\ UNCHANGED <<leaf, state, heads>>
       \/ /\ w.pc = "state" /\ Move(n, "head")
          /\ state' = TreeOf(w, k)
          /\ UNCHANGED <<leaf, leafOf, heads>>
       \/ /\ w.pc = "head"
          /\ heads' = [heads EXCEPT ![k] = TreeOf(w, k)]
          /\ IF w.at = Len(w.new) THEN ToMark(n)
             ELSE worker' = [worker EXCEPT ![n].at = w.at + 1, ![n].pc = "leaf"]
          /\ UNCHANGED <<leaf, leafOf, state>>
    /\ UNCHANGED <<backend, queue, publication, anchoring, index, projector, mishaps>>

-----------------------------------------------------------------------------
(* Publication *)

(* A published item must carry the head the retry has. *)
ItemsAgree(items, sths) == \A i \in DOMAIN items : published[items[i]] \in {0, sths[i]}

(* The head handed to anchoring covers every head of the batch; the heads of a
   retry need not be in order. *)
Highest(sths) == Max(ToSet(sths))

(* promoteBatchRecords: what a promotion to a level leaves in the index.  TiKV
   reads again in the transaction that writes; the other stores write what
   they decided on when they read. *)
Promoted(now, seen, to) ==
    IF backend = "tikv" THEN Max({now, to}) ELSE IF seen >= to THEN now ELSE to

FirstRead == IF backend = "tikv" THEN "write" ELSE "read"

(* The anchor intent is durable before any record is shown as L4. *)
Prepare(n) ==
    LET w == worker[n] IN
    /\ w.pc = "mark" /\ Atomic /\ ItemsAgree(w.items, w.sths)
    /\ Anchors!Observe(Highest(w.sths))
    /\ Move(n, FirstRead)
    /\ UNCHANGED <<backend, log, queue, publication, index, projector, mishaps>>

PromoteL4(n) ==
    LET w == worker[n]
        b == w.items[w.at] IN
    /\ \/ /\ w.pc = "read"
          /\ worker' = [worker EXCEPT ![n].pc = "write", ![n].seen = level[b]]
          /\ UNCHANGED level
       \/ /\ w.pc = "write"
          /\ level' = [level EXCEPT ![b] = Promoted(@, w.seen, L4)]
          /\ worker' = [worker EXCEPT ![n].seen = 0, ![n].at = IF w.at = Len(w.items) THEN 1 ELSE w.at + 1,
                                      ![n].pc = IF w.at = Len(w.items) THEN "publish" ELSE FirstRead]
    /\ UNCHANGED <<backend, log, queue, publication, anchoring, covered, projector, mishaps>>

(* Items become published together. *)
Publish(n) ==
    LET w == worker[n] IN
    /\ w.pc = "publish" /\ ItemsAgree(w.items, w.sths)
    /\ published' = [b \in Batches |->
          IF b \in ToSet(w.items) THEN w.sths[CHOOSE i \in DOMAIN w.items : w.items[i] = b] ELSE published[b]]
    /\ outbox' = SelectSeq(outbox, LAMBDA b : b \notin ToSet(w.items))
    /\ waiting' = waiting \ ToSet(w.items)
    /\ Rest(n)
    /\ UNCHANGED <<backend, log, publication, anchoring, index, projector, mishaps>>

(* The file store writes its intent to a journal instead. *)
WriteJournal(n) ==
    LET w == worker[n] IN
    /\ w.pc = "mark" /\ ~ Atomic /\ journal = NoJournal /\ ItemsAgree(w.items, w.sths)
    /\ journal' = [items |-> w.items, sths |-> w.sths] /\ apply' = FromStart
    /\ Move(n, "applying")
    /\ UNCHANGED <<backend, log, queue, anchoring, index, projector, mishaps>>

(* A retry whose head is not the one of the published item is refused. *)
Disagree(n) ==
    LET w == worker[n] IN
    /\ w.pc \in {"mark", "publish"} /\ ~ ItemsAgree(w.items, w.sths)
    /\ Rest(n)
    /\ UNCHANGED <<backend, log, queue, publication, anchoring, index, projector, mishaps>>

(* The journal is applied by the worker that wrote it and, after an error or a
   restart, by whoever next takes the schedule lock.  It is cleared last. *)
ApplyJournal ==
    LET b == journal.items[apply.at]
        Stage(stage) == apply' = [apply EXCEPT !.stage = stage] IN
    /\ journal # NoJournal
    /\ \/ /\ apply.stage = "schedule" /\ Stage("publish")
          /\ Anchors!Observe(Highest(journal.sths))
          /\ UNCHANGED <<journal, queue, level, worker>>
       \/ /\ apply.stage = "publish" /\ Stage("remove")
          /\ published' = [published EXCEPT ![b] = journal.sths[apply.at]]
          /\ UNCHANGED <<journal, outbox, waiting, anchoring, level, worker>>
       \/ /\ apply.stage = "remove" /\ Stage("read")
          /\ outbox' = SelectSeq(outbox, LAMBDA c : c # b) /\ waiting' = waiting \ {b}
          /\ UNCHANGED <<journal, published, anchoring, level, worker>>
       \/ /\ apply.stage = "read" /\ apply' = [apply EXCEPT !.stage = "write", !.seen = level[b]]
          /\ UNCHANGED <<journal, queue, anchoring, level, worker>>
       \/ /\ apply.stage = "write"
          /\ level' = [level EXCEPT ![b] = Promoted(@, apply.seen, L4)]
          /\ apply' = [at |-> IF apply.at = Len(journal.items) THEN 1 ELSE apply.at + 1, seen |-> 0,
                       stage |-> IF apply.at = Len(journal.items) THEN "clear" ELSE "publish"]
          /\ UNCHANGED <<journal, queue, anchoring, worker>>
       \/ /\ apply.stage = "clear"
          /\ journal' = NoJournal /\ apply' = FromStart
          /\ worker' = [n \in Nodes |-> IF worker[n].pc = "applying" THEN Idle ELSE worker[n]]
          /\ UNCHANGED <<queue, anchoring, level>>
    /\ UNCHANGED <<backend, log, covered, projector, mishaps>>

-----------------------------------------------------------------------------
(* Anchoring, and the projection of its results *)

(* Every schedule operation of the file store replays the journal first. *)
Freeze ==
    /\ journal = NoJournal
    /\ \E size \in Sizes : Anchors!Freeze(size)
    /\ UNCHANGED <<backend, log, queue, publication, index, worker, projector, mishaps>>

Anchor ==
    /\ journal = NoJournal
    /\ Anchors!Anchor(1)
    /\ UNCHANGED <<backend, log, queue, publication, index, worker, projector, mishaps>>

Latest == Max({0} \cup {size \in Sizes : results[size] # 0})

(* One page of leaves between the checkpoint and the latest anchored head. *)
ProjectPage(n) ==
    LET to == Min({covered + PageSize, Latest}) IN
    /\ projector[n].pc = "idle" /\ covered < Latest /\ to <= Len(leaf)
    /\ projector' = [projector EXCEPT ![n] = [pc |-> FirstRead, at |-> covered + 1, to |-> to, seen |-> 0]]
    /\ UNCHANGED <<backend, log, queue, publication, anchoring, index, worker, mishaps>>

PromoteL5(n) ==
    LET p == projector[n]
        b == leaf[p.at] IN
    /\ \/ /\ p.pc = "read"
          /\ projector' = [projector EXCEPT ![n].pc = "write", ![n].seen = level[b]]
          /\ UNCHANGED level
       \/ /\ p.pc = "write"
          /\ level' = [level EXCEPT ![b] = Promoted(@, p.seen, L5)]
          /\ projector' = [projector EXCEPT ![n].seen = 0, ![n].at = p.at + 1,
                                            ![n].pc = IF p.at = p.to THEN "advance" ELSE FirstRead]
    /\ UNCHANGED <<backend, log, queue, publication, anchoring, covered, worker, mishaps>>

(* l5coverage.Advance keeps a checkpoint that is farther on. *)
Advanced(to) == Max({covered, to})

AdvanceCheckpoint(n) ==
    /\ projector[n].pc = "advance"
    /\ covered' = Advanced(projector[n].to)
    /\ projector' = [projector EXCEPT ![n] = Resting]
    /\ UNCHANGED <<backend, log, queue, publication, anchoring, level, worker, mishaps>>

-----------------------------------------------------------------------------
(* Errors and crashes *)

(* RescheduleGlobalLog on each item of a failed append.  The status index of
   Pebble and TiKV lists by next attempt and takes a published item back; the
   file store updates only items that are still pending. *)
Reschedule(items) ==
    IF Atomic
    THEN /\ outbox' = SelectSeq(outbox, LAMBDA b : b \notin ToSet(items)) \o items
         /\ waiting' = waiting \cup ToSet(items)
         /\ published' = [b \in Batches |-> IF b \in ToSet(items) THEN 0 ELSE published[b]]
    ELSE /\ waiting' = waiting \cup (ToSet(items) \cap ToSet(outbox))
         /\ UNCHANGED <<outbox, published>>

Appending == {"plan", "commit", "leaf", "index", "state", "head"}

(* A leaf whose head is missing fails the append for good. *)
AppendRefused(n) ==
    /\ worker[n].pc = "plan" /\ Headless(worker[n].items)
    /\ Reschedule(worker[n].items) /\ Rest(n)
    /\ UNCHANGED <<backend, log, publication, anchoring, index, projector, mishaps>>

(* An append that fails is rescheduled; a commit may fail after it happened. *)
AppendFails(n) ==
    /\ mishaps < MaxMishaps /\ mishaps' = mishaps + 1
    /\ worker[n].pc \in Appending
    /\ \/ UNCHANGED log
       \/ worker[n].pc = "commit" /\ Fence(worker[n]) /\ CommitAppends(worker[n])
    /\ Reschedule(worker[n].items) /\ Rest(n)
    /\ UNCHANGED <<backend, publication, anchoring, index, projector>>

(* A publication or a page that fails is left for the next round. *)
RoundFails(n) ==
    /\ mishaps < MaxMishaps /\ mishaps' = mishaps + 1
    /\ \/ /\ worker[n].pc \notin Appending \cup {"idle"} /\ Rest(n)
          /\ apply' = FromStart /\ UNCHANGED projector
       \/ /\ projector[n].pc # "idle" /\ projector' = [projector EXCEPT ![n] = Resting]
          /\ UNCHANGED <<worker, apply>>
    /\ UNCHANGED <<backend, log, queue, journal, anchoring, index>>

Crash(n) ==
    /\ mishaps < MaxMishaps /\ mishaps' = mishaps + 1
    /\ Rest(n) /\ projector' = [projector EXCEPT ![n] = Resting]
    /\ apply' = FromStart
    /\ UNCHANGED <<backend, log, queue, journal, anchoring, index>>

-----------------------------------------------------------------------------
Append_(n) == Plan(n) \/ Commit(n) \/ Conflict(n) \/ WriteAppend(n) \/ AppendRefused(n)
Publish_(n) == Prepare(n) \/ PromoteL4(n) \/ Publish(n) \/ WriteJournal(n) \/ Disagree(n)
Outbox(n) == List(n) \/ Append_(n) \/ Publish_(n)
Project(n) == ProjectPage(n) \/ PromoteL5(n) \/ AdvanceCheckpoint(n)

Next ==
    \/ \E b \in Batches : Enqueue(b) \/ BackoffEnds(b)
    \/ \E n \in Running : Outbox(n) \/ Project(n)
    \/ \E n \in Running \cap Unlucky : AppendFails(n) \/ RoundFails(n) \/ Crash(n)
    \/ ApplyJournal \/ Freeze \/ Anchor

Spec == Init /\ [][Next]_vars

Fairness ==
    /\ \A n \in Nodes : WF_vars(n \in Running /\ Outbox(n)) /\ WF_vars(n \in Running /\ Project(n))
    /\ WF_vars(\E b \in Batches : BackoffEnds(b))
    /\ WF_vars(ApplyJournal) /\ WF_vars(Freeze) /\ WF_vars(Anchor)

FairSpec == Spec /\ Fairness

-----------------------------------------------------------------------------
(* A head that was signed is never signed again over other leaves, and a new
   one extends the smaller ones: the log is append-only, whichever process
   appends and whatever failed in between (appendBatchRootsOnce,
   commitWithGlobalLogFence). *)
LogIsAppendOnly ==
    [][Atomic => \A n \in Sizes :
        IF heads[n] # <<>> THEN heads'[n] = heads[n]
        ELSE heads'[n] # <<>> => \A m \in 1 .. n - 1 : heads'[m] # <<>> => IsPrefix(heads'[m], heads'[n])]_vars

(* A batch that is published is the last leaf of the head it is published
   with, and no earlier leaf (the replay of an append by batch id in
   appendBatchRootsOnce).  And it is covered by a head that anchoring has been
   given: the intent is durable before the item leaves the outbox (the journal
   of the file store, preparePebbleGlobalLogPublication). *)
PublishedIsInLog ==
    \A b \in Batches : published[b] # 0 =>
        /\ Atomic => LET tree == heads[published[b]] IN Last(tree) = b /\ b \notin ToSet(Front(tree))
        /\ \E n \in observed : n >= published[b]

(* No record is shown at a level its batch does not have: L4 only with a leaf
   under a signed head, L5 only under an anchored one.  Nor is a published
   batch shown below L4 (markGlobalLogPublishedBatch, ProjectPage); and on
   TiKV, where a promotion reads and writes in one transaction, everything
   below the coverage checkpoint is shown as L5 (ProjectPage: "the checkpoint
   advances only after every referenced batch is durable"). *)
LevelsAreTrue ==
    /\ Atomic => \A b \in Batches :
          /\ published[b] # 0 => level[b] >= L4
          /\ level[b] >= L4 => \E n \in Sizes : b \in ToSet(heads[n])
          /\ level[b] = L5 => \E n \in Sizes : results[n] # 0 /\ b \in ToSet(heads[n])
    /\ backend = "tikv" => \A i \in 1 .. covered : level[leaf[i]] = L5



=============================================================================
