----------------------------- MODULE AuditChain ------------------------------
(***************************************************************************)
(* The security audit trail (internal/securityaudit/store.go): a log of    *)
(* hash-chained, signed events and a signed checkpoint of its end.  The    *)
(* server and every audited CLI command have a writer of their own; a lock *)
(* file serialises Record calls, and each call first refreshes the         *)
(* writer's idea of the log from the checkpoint and, when they differ,     *)
(* from a scan of the whole file.  A process can die at any step and leave *)
(* what it wrote; a power loss also takes what was not synced.             *)
(*                                                                         *)
(* An event carries the number of the event before it and the identity of  *)
(* that event, which stand for the previous hash.                          *)
(***************************************************************************)
EXTENDS Integers, Sequences, SequencesExt, FiniteSets

CONSTANTS Writers, MaxAuditEvents, MaxAuditCalls, MaxAuditFaults

ASSUME AuditAssumption ==
    /\ MaxAuditEvents \in Nat /\ MaxAuditCalls \in Nat /\ MaxAuditFaults \in Nat
    /\ "free" \notin Writers

VARIABLES
    trail,       \* the frames of the log; a torn frame is its last
    trailSynced, \* how many of them a power loss cannot take
    mark,        \* the checkpoint: the events it covers
    auditLock,   \* the holder of the lock file, or "free"
    stats,       \* each writer's idea of the log
    step,        \* where each writer is in Record
    nextID,      \* identities of events
    recorded,    \* events whose Record succeeded
    auditState,  \* "ok", or how the last refresh of a writer failed
    adopted,     \* a checkpoint covers events that were not synced
    auditFaults

logVars == <<trail, trailSynced, mark>>
auditVars == <<trail, trailSynced, mark, auditLock, stats, step, nextID, recorded,
               auditState, adopted, auditFaults>>

TornFrame == [id |-> 0, after |-> << >>]
WholeFrames(t) == IF t # << >> /\ Last(t) = TornFrame THEN Front(t) ELSE t
Ids(t) == [i \in DOMAIN t |-> t[i].id]

\* scanAuditFile and verifyEvent: every event names the chain before it.
ChainValid(t) == \A i \in DOMAIN t : t[i].after = SubSeq(Ids(t), 1, i - 1)

AuditInit ==
    /\ trail = << >> /\ trailSynced = 0 /\ mark = << >>
    /\ auditLock = "free"
    /\ stats = [w \in Writers |-> << >>]
    /\ step = [w \in Writers |-> "idle"]
    /\ nextID = 1 /\ recorded = {} /\ auditState = "ok" /\ adopted = FALSE
    /\ auditFaults = 0

AuditFault == auditFaults < MaxAuditFaults /\ auditFaults' = auditFaults + 1
Goto(w, s) == step' = [step EXCEPT ![w] = s]
Unlock(w) == auditLock' = "free" /\ Goto(w, "idle")

-----------------------------------------------------------------------------
\* OpenWriter, or the start of Record: take the lock.
Lock(w) ==
    /\ step[w] = "idle" /\ auditLock = "free" /\ nextID <= MaxAuditCalls
    /\ auditLock' = w /\ Goto(w, "refresh")
    /\ UNCHANGED <<logVars, stats, nextID, recorded, auditState, adopted, auditFaults>>

\* writeProtectedAtomic fails, before or after it has replaced the file.
CheckpointFails(ids) == AuditFault /\ mark' \in {mark, ids}

Unchanged(w) == mark = stats[w] /\ Ids(trail) = stats[w]
RolledBack == ~IsPrefix(mark, Ids(WholeFrames(trail)))

\* refreshLocked: nothing to do when the checkpoint, the file and the writer
\* agree; otherwise scan, refuse a log that is behind its checkpoint, cut a
\* torn tail (and sync), and write the checkpoint again when it differs.
Refresh(w) ==
    LET found == Ids(WholeFrames(trail))
        torn == WholeFrames(trail) # trail
    IN
    /\ step[w] = "refresh"
    /\ \/ /\ Unchanged(w) /\ Goto(w, "write")
          /\ UNCHANGED <<logVars, auditLock, stats, auditState, adopted, auditFaults>>
       \/ /\ ~Unchanged(w) /\ (~ChainValid(WholeFrames(trail)) \/ RolledBack)
          /\ auditState' = IF RolledBack THEN "rollback" ELSE "invalid chain"
          /\ Unlock(w)
          /\ UNCHANGED <<logVars, stats, adopted, auditFaults>>
       \/ /\ ~Unchanged(w) /\ ChainValid(WholeFrames(trail)) /\ ~RolledBack
          /\ trail' = WholeFrames(trail)
          /\ trailSynced' = IF torn THEN Len(found) ELSE trailSynced
          /\ stats' = [stats EXCEPT ![w] = found]
          /\ \/ mark' = found /\ Goto(w, "write") /\ UNCHANGED <<auditLock, auditFaults>>
             \/ mark # found /\ CheckpointFails(found) /\ Unlock(w)
          /\ adopted' = (adopted \/ Len(mark') > trailSynced')
          /\ UNCHANGED auditState
    /\ UNCHANGED <<nextID, recorded>>

\* The append of the new frame, whole or torn; a log at its limit refuses it.
Write(w) ==
    /\ step[w] = "write"
    /\ nextID' = nextID + 1
    /\ \/ /\ Len(trail) < MaxAuditEvents
          /\ trail' = Append(trail, [id |-> nextID, after |-> stats[w]])
          /\ Goto(w, "sync") /\ UNCHANGED <<auditLock, auditFaults>>
       \/ /\ Len(trail) < MaxAuditEvents
          /\ trail' = Append(trail, TornFrame) /\ AuditFault /\ Unlock(w)
       \/ /\ Len(trail) >= MaxAuditEvents /\ Unlock(w) /\ UNCHANGED <<trail, auditFaults>>
    /\ UNCHANGED <<trailSynced, mark, stats, recorded, auditState, adopted>>

\* Faulty: the checkpoint is written before the event is synced.
SyncAfterCheckpoint(w) ==
    /\ step[w] = "sync"
    /\ stats' = [stats EXCEPT ![w] = Ids(trail)]
    /\ Goto(w, "checkpoint")
    /\ UNCHANGED <<logVars, auditLock, nextID, recorded, auditState, adopted, auditFaults>>

\* The sync of the log.
Sync(w) ==
    /\ step[w] = "sync"
    /\ \/ /\ trailSynced' = Len(trail) /\ stats' = [stats EXCEPT ![w] = Ids(trail)]
          /\ Goto(w, "checkpoint") /\ UNCHANGED <<auditLock, auditFaults>>
       \/ /\ AuditFault /\ Unlock(w) /\ UNCHANGED <<trailSynced, stats>>
    /\ UNCHANGED <<trail, mark, nextID, recorded, auditState, adopted>>

\* writeCheckpoint, and the answer to the caller.
WriteCheckpoint(w) ==
    /\ step[w] = "checkpoint" /\ Unlock(w)
    /\ \/ /\ mark' = stats[w] /\ recorded' = recorded \cup {Last(stats[w])}
          /\ UNCHANGED auditFaults
       \/ CheckpointFails(stats[w]) /\ UNCHANGED recorded
    /\ UNCHANGED <<trail, trailSynced, stats, nextID, auditState, adopted>>

\* A process dies and starts again: OpenWriter begins from an empty log.
Dies(w) ==
    /\ AuditFault
    /\ stats' = [stats EXCEPT ![w] = << >>] /\ Goto(w, "idle")
    /\ auditLock' = IF auditLock = w THEN "free" ELSE auditLock
    /\ UNCHANGED <<logVars, nextID, recorded, auditState, adopted>>

\* A power loss takes the frames that were not synced, or tears one.
AuditPowerLoss ==
    /\ AuditFault
    /\ \E n \in trailSynced .. Len(trail) :
          \/ trail' = SubSeq(trail, 1, n)
          \/ n < Len(trail) /\ trail' = Append(SubSeq(trail, 1, n), TornFrame)
    /\ auditLock' = "free"
    /\ stats' = [w \in Writers |-> << >>] /\ step' = [w \in Writers |-> "idle"]
    /\ UNCHANGED <<trailSynced, mark, nextID, recorded, auditState, adopted>>

AuditNext ==
    \/ \E w \in Writers : Lock(w) \/ Refresh(w) \/ Write(w) \/ Sync(w)
                          \/ WriteCheckpoint(w) \/ Dies(w)
    \/ AuditPowerLoss

AuditSpec == AuditInit /\ [][AuditNext]_auditVars
-----------------------------------------------------------------------------
(* Properties.                                                             *)

Durable == SubSeq(Ids(trail), 1, trailSynced)

\* The trail is one chain whoever writes to it: what is synced is never cut,
\* changed or forked by a refresh, another writer or a crash.
AuditIsAppendOnly ==
    [][IsPrefix(Durable, SubSeq(Ids(trail'), 1, trailSynced'))]_auditVars

\* An event whose Record succeeded is in the durable log, and no writer ever
\* refuses the log for being behind its checkpoint or for a broken chain -
\* except after a power loss when a refresh had written a checkpoint of
\* events that were in the file and not synced.
AuditStaysUsable ==
    /\ \A id \in recorded : id \in ToSet(Durable)
    /\ ChainValid(WholeFrames(trail))
    /\ ~adopted => auditState = "ok" /\ Len(mark) <= trailSynced
=============================================================================
