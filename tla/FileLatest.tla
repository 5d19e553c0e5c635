----------------------------- MODULE FileLatest -----------------------------
(***************************************************************************)
(* How the file proof store answers "the latest root" and "the latest      *)
(* signed tree head" without listing its history                           *)
(* (internal/proofstore/local.go): a reference file names the newest       *)
(* object, and is written in a file operation of its own.  The root        *)
(* reference is written before the root and carries the previous root; the *)
(* tree head reference is written after the head and is corrected by the   *)
(* stored state of the log.  Writers and rebuilds hold a lock, the first   *)
(* look of a reader does not, and any of them may stop between two files.  *)
(* A root is its place in the order of (closed_at, batch_id), a tree head  *)
(* its size.                                                               *)
(***************************************************************************)
EXTENDS Naturals, FiniteSetsExt

CONSTANTS MaxRoot, MaxHead,   \* bounds: roots and tree heads
          MaxBreaks           \* bound: crashes and failed writes

ASSUME FileLatestAssumption == {MaxRoot, MaxHead, MaxBreaks} \subseteq Nat

VARIABLES
    roots, rootRef,      \* root files, and the reference file
    rootPut, rootGet,    \* PutRoot holding the lock; LatestRoot
    heads, headRef,      \* tree head files, and the reference file
    logState,            \* tree size of the stored state of the log
    append, headGet,     \* CommitGlobalLogAppend; LatestSignedTreeHead
    known,               \* the newest object some finished call has shown
    breaks

rootFiles == <<roots, rootRef, rootPut, rootGet>>
headFiles == <<heads, headRef, logState, append, headGet>>
fileLatestVars == <<rootFiles, headFiles, known, breaks>>

NoRef == [candidate |-> 0, previous |-> 0]
NoCall == [pc |-> "idle", seen |-> 0, floor |-> 0]

FileLatestInit ==
    /\ roots = {} /\ rootRef = NoRef /\ rootPut = 0 /\ rootGet = NoCall
    /\ heads = {} /\ headRef = 0 /\ logState = 0 /\ append = [pc |-> "idle", size |-> 0] /\ headGet = NoCall
    /\ known = [root |-> 0, head |-> 0] /\ breaks = 0

Newest(S) == Max(S \cup {0})

-----------------------------------------------------------------------------
(* Batch roots *)

latestRootFromHistory == Newest(roots)

(* The root a reference leads to, 0 if none. *)
rootFromLatestReference ==
    IF rootRef.candidate \in roots THEN rootRef.candidate
    ELSE IF rootRef.previous \in roots THEN rootRef.previous ELSE 0

Complete == rootRef.candidate \in roots

Prepared(r) ==
    LET current == IF rootRef # NoRef THEN rootFromLatestReference ELSE latestRootFromHistory
    IN  IF r <= current THEN rootRef ELSE [candidate |-> r, previous |-> current]

prepareLatestRootReference(r) ==
    /\ rootPut = 0
    /\ rootPut' = r
    /\ rootRef' = Prepared(r)
    /\ UNCHANGED <<roots, rootGet, headFiles, known, breaks>>

PutRoot ==
    /\ rootPut # 0
    /\ roots' = roots \cup {rootPut} /\ rootPut' = 0
    /\ known' = [known EXCEPT !.root = Max({@, rootPut})]
    /\ UNCHANGED <<rootRef, rootGet, headFiles, breaks>>

ReadRootReference ==
    /\ rootGet.pc = "idle"
    /\ rootGet' = [pc |-> "resolve", seen |-> rootRef.candidate, floor |-> known.root]
    /\ UNCHANGED <<roots, rootRef, rootPut, headFiles, known, breaks>>

AnswerRoot(r) ==
    /\ rootGet' = [rootGet EXCEPT !.pc = "answered", !.seen = r]
    /\ known' = [known EXCEPT !.root = Max({@, r})]

LatestRoot ==
    /\ rootGet.pc = "resolve"
    /\ IF rootGet.seen \in roots THEN AnswerRoot(rootGet.seen)
       ELSE rootGet' = [rootGet EXCEPT !.pc = "rebuild"] /\ UNCHANGED known
    /\ UNCHANGED <<roots, rootRef, rootPut, headFiles, breaks>>

rebuildLatestRootReference ==
    /\ rootGet.pc = "rebuild" /\ rootPut = 0
    /\ LET r == IF Complete THEN rootRef.candidate ELSE latestRootFromHistory
       IN  /\ AnswerRoot(r)
           /\ rootRef' = IF Complete \/ r = 0 THEN rootRef ELSE [candidate |-> r, previous |-> 0]
    /\ UNCHANGED <<roots, rootPut, headFiles, breaks>>

RootCallEnds ==
    /\ rootGet.pc = "answered" /\ rootGet' = NoCall
    /\ UNCHANGED <<roots, rootRef, rootPut, headFiles, known, breaks>>

-----------------------------------------------------------------------------
(* Signed tree heads *)

putGlobalLogState ==
    /\ append.pc = "idle" /\ logState < MaxHead
    /\ append' = [pc |-> "head", size |-> logState + 1]
    /\ logState' = logState + 1
    /\ UNCHANGED <<heads, headRef, headGet, rootFiles, known, breaks>>

putSignedTreeHead ==
    /\ append.pc = "head"
    /\ heads' = heads \cup {append.size}
    /\ append' = [append EXCEPT !.pc = "promote"]
    /\ UNCHANGED <<headRef, logState, headGet, rootFiles, known, breaks>>

latestSignedTreeHeadFromHistory == Newest(heads)

promoted(size) ==
    IF headRef # 0 THEN Max({headRef, size}) ELSE Max({size, latestSignedTreeHeadFromHistory})

CommitGlobalLogAppend ==
    /\ append.pc = "promote"
    /\ headRef' = promoted(append.size)
    /\ append' = [pc |-> "idle", size |-> 0]
    /\ known' = [known EXCEPT !.head = Max({@, append.size})]
    /\ UNCHANGED <<heads, logState, headGet, rootFiles, breaks>>

readLatestSignedTreeHeadReference ==
    /\ headGet.pc = "idle"
    /\ headGet' = [pc |-> IF headRef \in heads THEN "state" ELSE "rebuild", seen |-> headRef, floor |-> known.head]
    /\ UNCHANGED <<heads, headRef, logState, append, rootFiles, known, breaks>>

AnswerHead(size) ==
    /\ headGet' = [headGet EXCEPT !.pc = "answered", !.seen = size]
    /\ known' = [known EXCEPT !.head = Max({@, size})]

(* The state of the log is newer than the reference, and its head is there. *)
LatestSignedTreeHead ==
    /\ headGet.pc = "state"
    /\ IF logState > headGet.seen /\ logState \in heads
       THEN headGet' = [headGet EXCEPT !.pc = "promote", !.seen = logState] /\ UNCHANGED known
       ELSE AnswerHead(headGet.seen)
    /\ UNCHANGED <<heads, headRef, logState, append, rootFiles, breaks>>

HeadLockFree == append.pc # "promote"

promoteLatestSignedTreeHeadReference ==
    /\ headGet.pc = "promote" /\ HeadLockFree
    /\ headRef' = promoted(headGet.seen)
    /\ AnswerHead(headGet.seen)
    /\ UNCHANGED <<heads, logState, append, rootFiles, breaks>>

rebuildLatestSignedTreeHeadReference ==
    /\ headGet.pc = "rebuild" /\ HeadLockFree
    /\ LET size == IF headRef \in heads THEN headRef ELSE latestSignedTreeHeadFromHistory
       IN  /\ AnswerHead(size)
           /\ headRef' = IF size = 0 THEN headRef ELSE size
    /\ UNCHANGED <<heads, logState, append, rootFiles, breaks>>

HeadCallEnds ==
    /\ headGet.pc = "answered" /\ headGet' = NoCall
    /\ UNCHANGED <<heads, headRef, logState, append, rootFiles, known, breaks>>

-----------------------------------------------------------------------------
(* A failed write ends the call that made it, a crash ends all. *)

RootBreaks ==
    /\ breaks < MaxBreaks /\ breaks' = breaks + 1
    /\ rootPut # 0 /\ rootPut' = 0
    /\ UNCHANGED <<roots, rootRef, rootGet, headFiles, known>>

HeadBreaks ==
    /\ breaks < MaxBreaks /\ breaks' = breaks + 1
    /\ append.pc # "idle" /\ append' = [pc |-> "idle", size |-> 0]
    /\ UNCHANGED <<heads, headRef, logState, headGet, rootFiles, known>>

StoreCrashes ==
    /\ breaks < MaxBreaks /\ breaks' = breaks + 1
    /\ rootPut' = 0 /\ rootGet' = NoCall
    /\ append' = [pc |-> "idle", size |-> 0] /\ headGet' = NoCall
    /\ UNCHANGED <<roots, rootRef, heads, headRef, logState, known>>

RootNext ==
    \/ \E r \in 1 .. MaxRoot : prepareLatestRootReference(r)
    \/ PutRoot \/ ReadRootReference \/ LatestRoot \/ rebuildLatestRootReference \/ RootCallEnds \/ RootBreaks

HeadNext ==
    \/ putGlobalLogState \/ putSignedTreeHead \/ CommitGlobalLogAppend
    \/ readLatestSignedTreeHeadReference \/ LatestSignedTreeHead \/ promoteLatestSignedTreeHeadReference
    \/ rebuildLatestSignedTreeHeadReference \/ HeadCallEnds \/ HeadBreaks

FileLatestNext == RootNext \/ HeadNext \/ StoreCrashes

FileLatestSpec == FileLatestInit /\ [][FileLatestNext]_fileLatestVars

-----------------------------------------------------------------------------
(* Once no put holds the lock, the root a complete reference leads to is the
   newest stored root, in whatever order roots were put and wherever a put
   stopped. *)
ReferenceIsNewest == rootPut = 0 /\ Complete => rootRef.candidate = Newest(roots)

(* A call for the latest root or tree head never answers with an older one
   than a put or a call that had finished when it began. *)
LatestNeverGoesBack ==
    /\ rootGet.pc = "answered" => rootGet.seen >= rootGet.floor
    /\ headGet.pc = "answered" => headGet.seen >= headGet.floor

(* The latest root and the latest tree head, whatever was interrupted: a
   complete reference is right, and answers never go back. *)
FileLatestSound == ReferenceIsNewest /\ LatestNeverGoesBack
=============================================================================
