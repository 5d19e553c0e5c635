------------------------------ MODULE WalWriter ------------------------------
(***************************************************************************)
(* The write-ahead log of internal/wal/wal.go in directory mode: appends   *)
(* that reserve a position, prepare (sign) outside the locks and commit in *)
(* the order of their reservations; the three fsync modes with the timer   *)
(* of the group mode; rotation; crashes; repair of the tail; reopening and *)
(* pruning.                                                                *)
(*                                                                         *)
(* An append call stands for its payload.  A record's hash is represented  *)
(* by its call: a call is encoded at most once, so the hash of a record    *)
(* determines the chain before it.  log holds the complete records of the  *)
(* segment files in file order; each carries the segment and the offset    *)
(* where it lies, and the header fields it was encoded with.               *)
(***************************************************************************)
EXTENDS Integers, Sequences

CONSTANTS
    Calls,        \* the append calls
    NoCall,       \* the zero hash
    Size,         \* Size[c]: bytes of the record of call c
    MaxBytes,     \* MaxSegmentBytes
    Modes,        \* the fsync modes an instance covers
    MaxWalFaults     \* bound: crashes, failed writes and syncs, shutdowns

ASSUME NoCallAssumption == NoCall \notin Calls
ASSUME WalAssumption == Size \in [Calls -> Nat \ {0}]
ASSUME MaxBytesAssumption == MaxBytes \in Nat \ {0}
ASSUME ModeAssumption == Modes \subseteq {"strict", "group", "batch"}
ASSUME FaultAssumption == MaxWalFaults \in Nat

VARIABLES
    mode,        \* Options.FsyncMode
    call,        \* the state and the reserved position of each append call
    reservations,       \* Writer.reservations, oldest first
    ready,       \* the reservations whose preparation succeeded
    step,        \* who holds reservationMu and mu: the drain loop's position
    writer,      \* the other fields of Writer
    log,         \* the complete records on disk
    torn,        \* the last segment ends in a partial record
    tail,        \* bytes of complete records in the last segment
    firstSeg, lastSeg,   \* the segment files that exist
    published,   \* the last segment's directory entry is durable
    synced,      \* how many records of log are durable
    timers,      \* timer callbacks that have not run yet
    powerLost,   \* a crash has taken more than the process
    walFaults

disk == <<log, torn, tail, firstSeg, lastSeg, published, synced>>
env == <<mode, powerLost>>
walVars == <<call, reservations, ready, step, writer, disk, timers, env, walFaults>>

NoPosition == [seg |-> 0, seq |-> 0, off |-> 0]

(* The writer that OpenDirWriter returns for the files on disk. *)
OpenedWriter(seg, seq, off, prev) ==
    [open |-> TRUE, closed |-> FALSE, poisoned |-> FALSE, seg |-> seg, seq |-> seq,
     off |-> off, prev |-> prev, dirty |-> FALSE, hasSync |-> FALSE, timer |-> 0, gen |-> 0]

WalInit ==
    /\ mode \in Modes /\ powerLost = FALSE
    /\ call = [c \in Calls |-> [status |-> "new", pos |-> NoPosition]]
    /\ reservations = <<>> /\ ready = {} /\ step = "free"
    /\ writer = OpenedWriter(1, 0, 0, NoCall)
    /\ log = <<>> /\ torn = FALSE /\ tail = 0
    /\ firstSeg = 1 /\ lastSeg = 1 /\ published = TRUE /\ synced = 0
    /\ timers = {} /\ walFaults = 0

-----------------------------------------------------------------------------
(* Positions. *)

Rotates(state, bytes) == state.off > 0 /\ state.off + bytes > MaxBytes

positionAfter(state, bytes) ==
    IF Rotates(state, bytes)
    THEN [seg |-> state.seg + 1, seq |-> state.seq + 1, off |-> 0]
    ELSE [seg |-> state.seg, seq |-> state.seq + 1, off |-> state.off]

(* The state after the record of call c, reserved at its position. *)
After(c) == [call[c].pos EXCEPT !.off = @ + Size[c]]

WriterPosition == [seg |-> writer.seg, seq |-> writer.seq, off |-> writer.off]

Up == ~writer.closed

readyToAppend == Up /\ ~writer.poisoned /\ writer.open

-----------------------------------------------------------------------------
(* Reservations. *)

reserveAppend(c) ==
    /\ call[c].status = "new"
    /\ Up /\ step = "free"
    /\ \/ /\ readyToAppend
          /\ LET base == IF reservations = <<>> THEN WriterPosition ELSE After(reservations[Len(reservations)])
             IN  call' = [call EXCEPT ![c] = [status |-> "preparing",
                                              pos |-> positionAfter(base, Size[c])]]
          /\ reservations' = Append(reservations, c)
       \/ /\ ~readyToAppend
          /\ call' = [call EXCEPT ![c].status = "failed"]
          /\ UNCHANGED reservations
    /\ UNCHANGED <<ready, step, writer, disk, timers, walFaults, env>>

FinishReservation(failed) ==
    call' = [c \in Calls |-> IF c \in failed THEN [call[c] EXCEPT !.status = "failed"] ELSE call[c]]

(* Finish the reservations from index i on with an error and drop them. *)
Failing(i) == {reservations[j] : j \in i .. Len(reservations)}

(* Faulty: the successors are dropped without finishing them. *)
FailForgetting(i) ==
    /\ FinishReservation({reservations[j] : j \in {i} \cap DOMAIN reservations})
    /\ reservations' = SubSeq(reservations, 1, i - 1)
    /\ ready' = ready \ Failing(i)

FailFrom(i) ==
    /\ FinishReservation(Failing(i))
    /\ reservations' = SubSeq(reservations, 1, i - 1)
    /\ ready' = ready \ Failing(i)

(* completeReservation after a failed preparation, and cancelReservation. *)
failReservation(c) ==
    \E i \in 1 .. Len(reservations) : reservations[i] = c /\ FailFrom(i)

completeReservation(c) ==
    /\ call[c].status = "preparing"
    /\ step = "free"
    /\ step' = "drain"
    /\ \/ failReservation(c)
       \/ /\ call' = [call EXCEPT ![c].status = "waiting"]
          /\ ready' = ready \cup {c}
          /\ UNCHANGED reservations
    /\ UNCHANGED <<writer, disk, timers, walFaults, env>>

(* The caller's context ends while it waits. *)
cancelReservation(c) ==
    /\ call[c].status = "waiting" /\ step = "free"
    /\ failReservation(c)
    /\ step' = "drain"
    /\ UNCHANGED <<writer, disk, timers, walFaults, env>>

-----------------------------------------------------------------------------
(* drainReservationsLocked and commitAtExpected.  reservationMu is held from
   "drain" on, mu in "write" and "sync". *)

Poisoned(w) == [w EXCEPT !.poisoned = TRUE]
TimerCancelled(w) == [w EXCEPT !.timer = 0, !.gen = @ + 1]
Clean(w) == [w EXCEPT !.dirty = FALSE, !.hasSync = TRUE]

(* A sync of the last segment's file; earlier segments are not reached by it. *)
FileSynced ==
    IF \A i \in synced + 1 .. Len(log) : log[i].seg = lastSeg THEN Len(log) ELSE synced

(* The commit of the oldest reservation fails: all reservations fail. *)
CommitFails(w) ==
    /\ writer' = w
    /\ FailFrom(1)
    /\ step' = "free"

HeadReady == reservations # <<>> /\ Head(reservations) \in ready

drainDone ==
    /\ step = "drain" /\ ~HeadReady
    /\ step' = "free"
    /\ UNCHANGED <<call, reservations, ready, writer, disk, timers, walFaults, env>>

(* The caller's context has ended, the writer cannot append, or the next
   position is not the reserved one. *)
commitRefused ==
    /\ step = "drain" /\ HeadReady
    /\ CommitFails(writer)
    /\ UNCHANGED <<disk, timers, walFaults, env>>

Expected(c) == readyToAppend /\ call[c].pos = positionAfter(WriterPosition, Size[c])

commitStart ==
    /\ step = "drain" /\ HeadReady
    /\ Expected(Head(reservations))
    /\ ~Rotates(WriterPosition, Size[Head(reservations)])
    /\ step' = "write"
    /\ UNCHANGED <<call, reservations, ready, writer, disk, timers, walFaults, env>>

SyncBeforeRotate == FileSynced

(* rotateLocked: the old segment is synced and closed, the next one created
   and published.  Any of them may fail, which poisons the writer; a segment
   that could not be published may stay behind. *)
rotateLocked ==
    /\ step = "drain" /\ HeadReady
    /\ Expected(Head(reservations))
    /\ Rotates(WriterPosition, Size[Head(reservations)])
    /\ \/ /\ writer' = [Clean(TimerCancelled(writer)) EXCEPT !.seg = @ + 1, !.off = 0]
          /\ synced' = SyncBeforeRotate
          /\ lastSeg' = lastSeg + 1 /\ tail' = 0 /\ published' = TRUE
          /\ step' = "write"
          /\ UNCHANGED <<call, reservations, ready, walFaults>>
       \/ /\ walFaults < MaxWalFaults /\ walFaults' = walFaults + 1
          /\ \/ /\ CommitFails(Poisoned(TimerCancelled(writer)))     \* sync before rotate
                /\ UNCHANGED <<synced, lastSeg, tail, published>>
             \/ /\ CommitFails([Poisoned(Clean(TimerCancelled(writer))) EXCEPT !.open = FALSE])
                /\ synced' = SyncBeforeRotate
                /\ \/ UNCHANGED <<lastSeg, tail, published>>         \* close or create
                   \/ lastSeg' = lastSeg + 1 /\ tail' = 0 /\ published' = FALSE
    /\ UNCHANGED <<log, torn, firstSeg, timers, env>>

(* The record is written at the end of the active segment, or partly. *)
writeRecord ==
    LET c == Head(reservations)
    IN  /\ step = "write"
        /\ \/ /\ log' = Append(log, [call |-> c, seg |-> lastSeg, seq |-> writer.seq + 1,
                                     off |-> tail, prev |-> writer.prev])
              /\ tail' = tail + Size[c]
              /\ writer' = [writer EXCEPT !.dirty = TRUE]
              /\ step' = "sync"
              /\ UNCHANGED <<call, reservations, ready, torn, walFaults>>
           \/ /\ walFaults < MaxWalFaults /\ walFaults' = walFaults + 1
              /\ \/ CommitFails(Poisoned(writer)) /\ UNCHANGED torn
                 \/ CommitFails(Poisoned([writer EXCEPT !.dirty = TRUE])) /\ torn' = TRUE
              /\ UNCHANGED <<log, tail>>
        /\ UNCHANGED <<firstSeg, lastSeg, published, synced, timers, env>>

(* The oldest reservation succeeds with the position it reserved. *)
CommitSucceeds(w) ==
    LET c == Head(reservations)
    IN  /\ writer' = [w EXCEPT !.seq = @ + 1, !.off = @ + Size[c], !.prev = c]
        /\ call' = [call EXCEPT ![c].status = "ok"]
        /\ reservations' = Tail(reservations)
        /\ ready' = ready \ {c}
        /\ step' = "drain"

(* armGroupTimerLocked *)
ArmTimer ==
    IF writer.timer # 0 THEN CommitSucceeds(writer) /\ UNCHANGED timers
    ELSE /\ CommitSucceeds([writer EXCEPT !.gen = @ + 1, !.timer = writer.gen + 1])
         /\ timers' = timers \cup {[gen |-> writer.gen + 1, seg |-> writer.seg]}

SyncsNow == mode = "strict" \/ mode = "group"

(* Faulty: strict mode leaves the sync to the next one. *)
SyncsLaterAlways == TRUE

SyncsLater == mode = "batch" \/ (mode = "group" /\ writer.hasSync)

syncAfterAppend ==
    /\ step = "sync"
    /\ \/ /\ SyncsNow                       \* strict, or the interval has passed
          /\ \/ /\ CommitSucceeds(Clean(TimerCancelled(writer)))
                /\ synced' = FileSynced
                /\ UNCHANGED walFaults
             \/ /\ walFaults < MaxWalFaults /\ walFaults' = walFaults + 1
                /\ CommitFails(Poisoned(TimerCancelled(writer)))
                /\ UNCHANGED synced
          /\ UNCHANGED timers
       \/ /\ SyncsLater
          /\ IF mode = "group" THEN ArmTimer ELSE CommitSucceeds(writer) /\ UNCHANGED timers
          /\ UNCHANGED <<synced, walFaults>>
    /\ UNCHANGED <<log, torn, tail, firstSeg, lastSeg, published, env>>

(* A timer callback runs, even one whose timer was stopped too late. *)
flushGroupTimer(t) ==
    /\ step \in {"free", "drain"}
    /\ timers' = timers \ {t}
    /\ IF /\ ~writer.closed /\ writer.open
          /\ writer.timer # 0 /\ writer.gen = t.gen /\ writer.seg = t.seg
       THEN LET w == TimerCancelled(writer)
            IN  \/ /\ writer.dirty /\ ~writer.poisoned
                   /\ writer' = Clean(w) /\ synced' = FileSynced
                   /\ UNCHANGED walFaults
                \/ /\ writer.dirty /\ ~writer.poisoned
                   /\ walFaults < MaxWalFaults /\ walFaults' = walFaults + 1
                   /\ writer' = Poisoned(w)
                   /\ UNCHANGED synced
                \/ /\ ~writer.dirty \/ writer.poisoned
                   /\ writer' = w
                   /\ UNCHANGED <<synced, walFaults>>
       ELSE UNCHANGED <<writer, synced, walFaults>>
    /\ UNCHANGED <<call, reservations, ready, step, log, torn, tail, firstSeg, lastSeg, published, env>>

-----------------------------------------------------------------------------
(* Shutdown, crash, repair, start and pruning. *)

Down(w) == [w EXCEPT !.open = FALSE, !.closed = TRUE, !.timer = 0]

Close ==
    /\ Up /\ step = "free"
    /\ walFaults < MaxWalFaults /\ walFaults' = walFaults + 1
    /\ FailFrom(1)
    /\ writer' = Down(writer)
    /\ synced' \in IF writer.open /\ ~writer.poisoned THEN {synced, FileSynced} ELSE {synced}
    /\ timers' = {}
    /\ UNCHANGED <<step, log, torn, tail, firstSeg, lastSeg, published, env>>

LastIn(s, seg) == s # <<>> /\ s[Len(s)].seg = seg

TailOf(s, seg) == IF LastIn(s, seg) THEN s[Len(s)].off + Size[s[Len(s)].call] ELSE 0

(* The process dies at any point.  A power loss (power) also drops an arbitrary part
   of what was written after the last sync, and a segment whose directory
   entry was not synced. *)
Crash(power) ==
    /\ Up \/ power
    /\ powerLost' = (powerLost \/ power)
    /\ walFaults < MaxWalFaults /\ walFaults' = walFaults + 1
    /\ call' = [c \in Calls |-> IF call[c].status \in {"preparing", "waiting"}
                                THEN [call[c] EXCEPT !.status = "failed"] ELSE call[c]]
    /\ reservations' = <<>> /\ ready' = {} /\ step' = "free" /\ timers' = {}
    /\ writer' = Down(writer)
    /\ \E keep \in (IF power THEN synced ELSE Len(log)) .. Len(log) :
         /\ log' = SubSeq(log, 1, keep)
         /\ torn' \in IF torn /\ ~power THEN {TRUE}
                     ELSE IF torn \/ keep < Len(log) \/ step = "write" THEN BOOLEAN ELSE {FALSE}
         /\ lastSeg' \in IF power /\ ~published THEN {lastSeg - 1, lastSeg} ELSE {lastSeg}
         /\ tail' = TailOf(log', lastSeg')
         /\ published' = IF lastSeg' = lastSeg THEN published ELSE TRUE
    /\ UNCHANGED <<firstSeg, synced, mode>>

(* The scan that every reader of the log makes, within a segment and from
   segment to segment. *)
Follows(r, before) == r.seq = before.seq + 1 /\ r.prev = before.call

scanFileVisit ==
    \A i \in 2 .. Len(log) : log[i].seg = log[i-1].seg => Follows(log[i], log[i-1])

segmentChain ==
    /\ log # <<>> => \/ log[1].seq = 1 /\ log[1].prev = NoCall
                     \/ firstSeg > 1 /\ log[1].prev # NoCall
    /\ \A i \in 1 .. Len(log) : log[i].seg \in firstSeg .. lastSeg
    /\ \A i \in 2 .. Len(log) : log[i].seg # log[i-1].seg =>
         log[i-1].seg < log[i].seg /\ Follows(log[i], log[i-1])

ScanAccepts == scanFileVisit /\ segmentChain

(* RepairDir cuts the partial record off the last segment. *)
RepairDir ==
    /\ ~Up /\ ScanAccepts
    /\ torn' = FALSE
    /\ synced' = FileSynced
    /\ UNCHANGED <<call, reservations, ready, step, writer, log, tail, firstSeg, lastSeg, published,
                   timers, walFaults, env>>

LastSequence == IF log = <<>> THEN 0 ELSE log[Len(log)].seq

LastHash == IF log = <<>> THEN NoCall ELSE log[Len(log)].call

OpenDirWriter ==
    /\ ~Up /\ ~torn /\ ScanAccepts
    /\ writer' = OpenedWriter(lastSeg, LastSequence, tail, LastHash)
    /\ published' = TRUE
    /\ synced' = FileSynced
    /\ UNCHANGED <<call, reservations, ready, step, log, torn, tail, firstSeg, lastSeg, timers, walFaults, env>>

CutoffBeyondFirst == \E i \in 1 .. Len(log) : log[i].seg > firstSeg

(* PruneSegmentsBefore removes the oldest segment file.  The cutoff is the
   segment of the checkpoint, whose last record lies in it. *)
PruneSegment ==
    /\ Up /\ step = "free"
    /\ CutoffBeyondFirst
    /\ LET n == CHOOSE n \in 0 .. Len(log) :
                  \A i \in 1 .. Len(log) : log[i].seg = firstSeg <=> i <= n
       IN  log' = SubSeq(log, n + 1, Len(log)) /\ synced' = synced - n
    /\ firstSeg' = firstSeg + 1
    /\ UNCHANGED <<call, reservations, ready, step, writer, torn, tail, lastSeg, published, timers, walFaults, env>>

AppendStep(c) == reserveAppend(c) \/ completeReservation(c) \/ cancelReservation(c)
Drain == drainDone \/ commitRefused \/ commitStart \/ rotateLocked \/ writeRecord \/ syncAfterAppend

WalNext ==
    \/ \E c \in Calls : AppendStep(c)
    \/ Drain
    \/ \E t \in timers : flushGroupTimer(t)
    \/ Close \/ (\E power \in BOOLEAN : Crash(power)) \/ RepairDir \/ OpenDirWriter \/ PruneSegment

(* A preparation ends (the signer honours its context), the goroutine that
   holds reservationMu runs on, and an armed timer fires. *)
WalFairness ==
    /\ \A c \in Calls : WF_walVars(completeReservation(c))
    /\ WF_walVars(Drain)
    /\ WF_walVars(\E t \in timers : flushGroupTimer(t))

WalSpec == WalInit /\ [][WalNext]_walVars /\ WalFairness

-----------------------------------------------------------------------------
(* Whatever was interrupted - a write, a sync, a rotation, the process - the
   log on disk scans: once a torn tail is cut off, the next start accepts it
   (segmentChainState.accept, scanFileVisit). *)
LogScans == ScanAccepts

(* What the mode promises of the record at index i of the log. *)
DurableAt(i) == mode = "strict" => i <= synced

(* An append that returned a position has its record exactly there - same
   segment, sequence and offset - until the segment is pruned, through every
   later failure, crash, repair and restart.  The accepted receipt was signed
   over that position before the record was written.  Every mode survives the
   death of the process, the strict mode also a loss of power. *)
AckedAtPosition ==
    mode = "strict" \/ ~powerLost =>
      \A c \in Calls : call[c].status = "ok" =>
        \/ call[c].pos.seg < firstSeg
        \/ \E i \in 1 .. Len(log) :
             /\ log[i].call = c /\ DurableAt(i)
             /\ call[c].pos = [seg |-> log[i].seg, seq |-> log[i].seq, off |-> log[i].off]

(* When reservationMu is free the oldest reservation is not ready.  So the
   drain of cancelReservation, which runs without the namespace lock, never
   writes while a scan or a prune holds that lock. *)
HeadNotReady == step = "free" => ~HeadReady

(* The log, through failed writes, crashes, power loss, repair and pruning. *)
LogSound == LogScans /\ AckedAtPosition /\ HeadNotReady

(* Every append call returns: no reservation is forgotten behind one that
   failed, was cancelled or was closed over.  And in group mode what was
   acknowledged becomes durable without further appends, unless a sync fails or
   the writer is closed (the flush timer of armGroupTimerLocked). *)
EveryCallReturns ==
    []<>(/\ \A c \in Calls : call[c].status \notin {"preparing", "waiting"}
         /\ mode = "group" => ~writer.dirty \/ ~readyToAppend)
=============================================================================
