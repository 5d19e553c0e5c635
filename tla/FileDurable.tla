---------------------------- MODULE FileDurable ----------------------------
(***************************************************************************)
(* What the file proof store relies on below its objects                   *)
(* (internal/proofstore/local.go, factory.go): one process at a time owns  *)
(* the directory, operations keep it from being given up, a marker binds   *)
(* the directory before anything is stored, and a write makes the missing  *)
(* directories, the file and its name durable before it returns.  The      *)
(* machine may lose power at any point; what was not synced may then be    *)
(* gone.  One file in a directory two levels below the root stands for the *)
(* objects; a version of it is the number of its replacement.              *)
(***************************************************************************)
EXTENDS Naturals, FiniteSets

CONSTANTS Processes,     \* programs that open the directory
          Threads,       \* concurrent operations in each
          MaxVersion,    \* bound: replacements of the file
          MaxOutages,    \* bound: power losses
          MaxOpens       \* bound: openings

ASSUME FileDurableAssumption == {MaxVersion, MaxOutages, MaxOpens} \subseteq Nat

Depth == 2   \* directories between the root and the file

VARIABLES
    exists, durable,   \* how many of the nested directories there are; and on disk
    file, disk,        \* version of the file; on disk
    marker, tempLeft,  \* the namespace marker: "none", "seen" (not synced), "bound"; its temporary file
    store,             \* each process: "closed", "locked", "open", "closing"
    op,                \* each operation of each process
    replaced, acked,   \* versions given out; newest version a call has returned
    outages, opens

fileDurableVars == <<exists, durable, file, disk, marker, tempLeft, store, op, replaced, acked, outages, opens>>

NoOp == [pc |-> "idle", at |-> 0]

FileDurableInit ==
    /\ exists = 0 /\ durable = 0 /\ file = 0 /\ disk = 0
    /\ marker = "none" /\ tempLeft = FALSE
    /\ store = [p \in Processes |-> "closed"]
    /\ op = [p \in Processes |-> [t \in Threads |-> NoOp]]
    /\ replaced = 0 /\ acked = 0 /\ outages = 0 /\ opens = 0

UnchangedFiles == UNCHANGED <<exists, durable, file, disk, replaced, acked>>

-----------------------------------------------------------------------------
(* Opening and closing *)

Locked == \E p \in Processes : store[p] # "closed"

acquireLocalNamespaceLock(p) ==
    /\ store[p] = "closed" /\ ~Locked /\ opens < MaxOpens
    /\ store' = [store EXCEPT ![p] = "locked"] /\ opens' = opens + 1
    /\ UnchangedFiles /\ UNCHANGED <<marker, tempLeft, op, outages>>

(* Content without a marker: such a directory is not opened. *)
Refused == marker = "none" /\ exists > 0

(* ensureLocalStorageSchema: a marker is checked, else the directory must be
   empty but for the lock and interrupted markers. *)
FindMarker(p) ==
    /\ store[p] = "locked" /\ marker # "none"
    /\ store' = [store EXCEPT ![p] = "open"]
    /\ UnchangedFiles /\ UNCHANGED <<marker, tempLeft, op, outages, opens>>

BeginMarker(p) ==
    /\ store[p] = "locked" /\ marker = "none" /\ ~Refused
    /\ store' = [store EXCEPT ![p] = "marking"] /\ tempLeft' = TRUE
    /\ UnchangedFiles /\ UNCHANGED <<marker, op, outages, opens>>

PublishMarker(p) ==
    /\ store[p] = "marking"
    /\ \/ tempLeft' = FALSE /\ marker' = "seen" /\ UNCHANGED store
       \/ /\ marker = "seen"
          /\ marker' = "bound" /\ store' = [store EXCEPT ![p] = "open"] /\ UNCHANGED tempLeft
    /\ UnchangedFiles /\ UNCHANGED <<op, outages, opens>>

(* closing is set first: no operation begins after it. *)
StartClosing(p) ==
    /\ store[p] = "open"
    /\ store' = [store EXCEPT ![p] = "closing"]
    /\ UnchangedFiles /\ UNCHANGED <<marker, tempLeft, op, outages, opens>>

Close(p) ==
    /\ store[p] = "closing" /\ \A t \in Threads : op[p][t].pc = "idle"
    /\ store' = [store EXCEPT ![p] = "closed"]
    /\ UnchangedFiles /\ UNCHANGED <<marker, tempLeft, op, outages, opens>>

-----------------------------------------------------------------------------
(* writeCBORAtomic *)

Step(p, t, pc, at) == op' = [op EXCEPT ![p][t] = [pc |-> pc, at |-> at]]

beginOperation(p, t) ==
    /\ store[p] = "open" /\ op[p][t].pc = "idle" /\ replaced < MaxVersion
    /\ Step(p, t, "stat", 0)
    /\ UnchangedFiles /\ UNCHANGED <<marker, tempLeft, store, outages, opens>>


Stat(p, t) ==
    /\ op[p][t].pc = "stat"
    /\ Step(p, t, "boundary", exists)
    /\ UnchangedFiles /\ UNCHANGED <<marker, tempLeft, store, outages, opens>>

(* The deepest directory found may have been made by another operation that
   has not synced it yet: its parent is synced before it is built on. *)
SyncBoundary(p, t) ==
    /\ op[p][t].pc = "boundary"
    /\ durable' = IF durable + 1 = op[p][t].at THEN op[p][t].at ELSE durable
    /\ Step(p, t, IF op[p][t].at = Depth THEN "rename" ELSE "mkdir", op[p][t].at)
    /\ UNCHANGED <<exists, file, disk, marker, tempLeft, store, replaced, acked, outages, opens>>

Mkdir(p, t) ==
    /\ op[p][t].pc = "mkdir"
    /\ exists' = IF exists = op[p][t].at THEN exists + 1 ELSE exists
    /\ Step(p, t, "syncParent", op[p][t].at + 1)
    /\ UNCHANGED <<durable, file, disk, marker, tempLeft, store, replaced, acked, outages, opens>>

SyncParent(p, t) ==
    /\ op[p][t].pc = "syncParent"
    /\ durable' = IF durable + 1 = op[p][t].at THEN op[p][t].at ELSE durable
    /\ Step(p, t, IF op[p][t].at = Depth THEN "rename" ELSE "mkdir", op[p][t].at)
    /\ UNCHANGED <<exists, file, disk, marker, tempLeft, store, replaced, acked, outages, opens>>

(* The temporary file was written and synced; it becomes the file. *)
Replace(p, t) ==
    /\ op[p][t].pc = "rename"
    /\ replaced' = replaced + 1 /\ file' = replaced + 1
    /\ Step(p, t, "syncDir", replaced + 1)
    /\ UNCHANGED <<exists, durable, disk, marker, tempLeft, store, acked, outages, opens>>

WriteReturns(p, t) ==
    /\ op[p][t].pc = "syncDir"
    /\ disk' = file
    /\ acked' = IF op[p][t].at > acked THEN op[p][t].at ELSE acked
    /\ Step(p, t, "idle", 0)
    /\ UNCHANGED <<exists, durable, file, marker, tempLeft, store, replaced, outages, opens>>

WriteFails(p, t) ==
    /\ op[p][t].pc # "idle" /\ outages < MaxOutages
    /\ outages' = outages + 1
    /\ Step(p, t, "idle", 0)
    /\ UnchangedFiles /\ UNCHANGED <<marker, tempLeft, store, opens>>

-----------------------------------------------------------------------------
(* What was not synced may or may not have reached the disk; a file is gone
   with its directory. *)
PowerFails ==
    /\ outages < MaxOutages /\ outages' = outages + 1
    /\ \E d \in durable .. exists, f \in {disk, file} :
          /\ exists' = d /\ durable' = d
          /\ file' = (IF d = Depth THEN f ELSE 0) /\ disk' = (IF d = Depth THEN f ELSE 0)
    /\ \E m \in {"none", "bound"} : marker' = IF marker = "seen" THEN m ELSE marker
    /\ store' = [p \in Processes |-> "closed"]
    /\ op' = [p \in Processes |-> [t \in Threads |-> NoOp]]
    /\ UNCHANGED <<tempLeft, replaced, acked, opens>>

OpStep(p, t) ==
    \/ beginOperation(p, t) \/ Stat(p, t) \/ SyncBoundary(p, t) \/ Mkdir(p, t) \/ SyncParent(p, t)
    \/ Replace(p, t) \/ WriteReturns(p, t) \/ WriteFails(p, t)

FileDurableNext ==
    \/ \E p \in Processes :
          \/ acquireLocalNamespaceLock(p) \/ FindMarker(p) \/ BeginMarker(p) \/ PublishMarker(p)
          \/ StartClosing(p) \/ Close(p)
          \/ \E t \in Threads : OpStep(p, t)
    \/ PowerFails

FileDurableSpec == FileDurableInit /\ [][FileDurableNext]_fileDurableVars

-----------------------------------------------------------------------------
(* A write that returned is on disk with every directory above it, or a later
   one is, also when another operation made the directories. *)
WritesAreDurable == acked > 0 => disk >= acked /\ durable = Depth

(* An operation writes only while its process owns the directory: no two
   processes write it, and closing waits. *)
OwnerWrites ==
    \A p \in Processes, t \in Threads :
        op[p][t].pc # "idle" => store[p] \in {"open", "closing"} /\ \A q \in Processes \ {p} : store[q] = "closed"

(* A directory the store once used opens again: power loss never leaves
   content without the marker, which ensureLocalStorageSchema refuses. *)
StoreReopens == ~Refused

(* The directory of the store through power loss, restarts and a second
   process: what returned is kept, one process writes, the store opens again. *)
DirectorySound == WritesAreDurable /\ OwnerWrites /\ StoreReopens
=============================================================================
