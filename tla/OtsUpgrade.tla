----------------------------- MODULE OtsUpgrade ------------------------------
(***************************************************************************)
(* OpenTimestamps anchors (internal/anchor/ots_sink.go, ots_upgrade.go,    *)
(* ots_upgrader.go): a published result holds one pending timestamp per    *)
(* calendar that accepted the head, and is enriched in place as calendars  *)
(* attest, by the server's upgrader, which sweeps the results in pages,    *)
(* and by "trustdb anchor upgrade" on the same store.                      *)
(*                                                                         *)
(* A result is the state of each calendar: Refused, 0 for pending, v > 0   *)
(* for upgraded with bytes v; a result of another sink has only Refused.   *)
(* Results are named by their place in the key order.  The upgrader's      *)
(* goroutines work on different results, so one at a time stands for them. *)
(***************************************************************************)
EXTENDS Integers, Sequences, FiniteSets

CONSTANTS Calendars,
          BatchSizes,        \* UpgraderConfig.BatchSize, chosen at the start
          Clis,              \* runs of the command line tool
          MaxPersist,        \* maxOtsUpgradePersistAttempts
          MaxResults, MaxBytes, MaxOtsFaults

ASSUME OtsAssumption == BatchSizes \subseteq Nat \ {0} /\ MaxPersist \in Nat \ {0}

VARIABLES
    otsResults,       \* the stored results
    attested,      \* what each calendar now answers for each result
    batchSize,
    cursor,        \* backfillCursor, 0: hasBackfillCursor is false
    tailTurn,
    page,          \* the results the running tick has still to visit
    upgrade,       \* each actor's upgrade of one result
    otsFaults

otsVars == <<otsResults, attested, batchSize, cursor, tailTurn, page, upgrade, otsFaults>>

Refused == -1
Actors == {"upgrader"} \cup Clis
NoUpgrade == [at |-> "idle", key |-> 0, expected |-> << >>, candidate |-> << >>, attempt |-> 0]

OtsInit ==
    /\ otsResults = << >> /\ attested = << >> /\ batchSize \in BatchSizes
    /\ cursor = 0 /\ tailTurn = TRUE /\ page = {}
    /\ upgrade = [a \in Actors |-> NoUpgrade] /\ otsFaults = 0

OtsFault == otsFaults < MaxOtsFaults /\ otsFaults' = otsFaults + 1

\* Publish: at least one calendar accepted, or the result is another sink's.
OtsPublish(accepted) ==
    /\ Len(otsResults) < MaxResults
    /\ otsResults' = Append(otsResults, [c \in Calendars |-> IF c \in accepted THEN 0 ELSE Refused])
    /\ attested' = Append(attested, [c \in Calendars |-> 0])
    /\ UNCHANGED <<batchSize, cursor, tailTurn, page, upgrade, otsFaults>>

\* External: a calendar's timestamp reaches a block, or changes once more.
Attest(k, c) ==
    /\ otsResults[k][c] # Refused /\ attested[k][c] < MaxBytes
    /\ attested' = [attested EXCEPT ![k][c] = @ + 1]
    /\ UNCHANGED <<otsResults, batchSize, cursor, tailTurn, page, upgrade, otsFaults>>

-----------------------------------------------------------------------------
(* The pages of a sweep, newest first.                                     *)

\* pageResults: the limit greatest keys below after.
pageResults(after, limit) == {k \in 1 .. Len(otsResults) : k < after /\ k >= after - limit}
Oldest(S) == CHOOSE k \in S : \A j \in S : k <= j
Visit(items, cur, turn) == [items |-> items, cursor |-> cur, tailTurn |-> turn]

\* BatchSize 1: the newest result and the backfill take turns.  The fail-th
\* read of the store fails.
SinglePage(fail) ==
    LET tail == pageResults(Len(otsResults) + 1, 1)
        backfill == pageResults(cursor, 1)
    IN  IF tailTurn \/ cursor = 0
        THEN IF fail = 1 \/ tail = {} THEN Visit({}, cursor, FALSE)
             ELSE Visit(tail, IF cursor = 0 THEN Oldest(tail) ELSE cursor, FALSE)
        ELSE IF fail = 1 THEN Visit({}, cursor, TRUE)
             ELSE IF backfill = {} THEN Visit({}, 0, TRUE)
             ELSE Visit(backfill, Oldest(backfill), TRUE)

\* Faulty: the backfill stays where it ended.
SplitPageOnce(fail) ==
    LET tailLimit == (batchSize + 1) \div 2
        tail == pageResults(Len(otsResults) + 1, tailLimit)
        first == IF cursor = 0 THEN Oldest(tail) ELSE cursor
        backfill == pageResults(first, batchSize - tailLimit)
    IN  IF fail = 1 \/ tail = {} THEN Visit({}, cursor, tailTurn)
        ELSE IF fail = 2 THEN Visit({}, first, tailTurn)
        ELSE Visit(tail \cup backfill, IF backfill = {} THEN first ELSE Oldest(backfill), tailTurn)

\* Larger batches: half for the newest results, half for the backfill, which
\* starts again below them when it has reached the oldest.
SplitPage(fail) ==
    LET tailLimit == (batchSize + 1) \div 2
        limit == batchSize - tailLimit
        tail == pageResults(Len(otsResults) + 1, tailLimit)
        first == IF cursor = 0 THEN Oldest(tail) ELSE cursor
        backfill == pageResults(first, limit)
        again == pageResults(Oldest(tail), limit)
    IN  IF fail = 1 \/ tail = {} THEN Visit({}, cursor, tailTurn)
        ELSE IF fail = 2 THEN Visit({}, first, tailTurn)
        ELSE IF backfill # {} THEN Visit(tail \cup backfill, Oldest(backfill), tailTurn)
        ELSE IF fail = 3 THEN Visit({}, Oldest(tail), tailTurn)
        ELSE Visit(tail \cup again, IF again = {} THEN Oldest(tail) ELSE Oldest(again), tailTurn)

nextResultPage(fail) == IF batchSize = 1 THEN SinglePage(fail) ELSE SplitPage(fail)

\* tick: the next page, of which the results of this sink are visited.
OtsTick(fail) ==
    LET next == nextResultPage(fail)
    IN  /\ page = {} /\ upgrade["upgrader"].at = "idle"
        /\ page' = {k \in next.items : \E c \in Calendars : otsResults[k][c] # Refused}
        /\ cursor' = next.cursor /\ tailTurn' = next.tailTurn
        /\ IF fail = 0 THEN UNCHANGED otsFaults ELSE OtsFault
        /\ UNCHANGED <<otsResults, attested, batchSize, upgrade>>

\* The process stops or dies: the sweep is forgotten.
UpgraderRestarts ==
    /\ OtsFault /\ page' = {} /\ cursor' = 0 /\ tailTurn' = TRUE
    /\ upgrade' = [upgrade EXCEPT !["upgrader"] = NoUpgrade]
    /\ UNCHANGED <<otsResults, attested, batchSize>>

-----------------------------------------------------------------------------
(* One result: processOne in the server, the command in the tool.          *)

\* The result is read: from the page, or by its key.
ReadResult(a, k) ==
    /\ upgrade[a].at = "idle"
    /\ IF a = "upgrader" THEN k \in page /\ page' = page \ {k} ELSE UNCHANGED page
    /\ upgrade' = [upgrade EXCEPT ![a] = [NoUpgrade EXCEPT !.at = "fetch", !.key = k,
                                                           !.expected = otsResults[k]]]
    /\ UNCHANGED <<otsResults, attested, batchSize, cursor, tailTurn, otsFaults>>

\* upgradeOneCalendar: bytes that differ from the pending ones are final.
upgradeOneCalendar(cal, answer) == IF cal = 0 /\ answer > 0 THEN answer ELSE cal

\* UpgradeAnchorResult asks every accepted calendar that is still pending;
\* the ones in down do not answer.  Nothing new: there is nothing to store.
UpgradeAnchorResult(a, down) ==
    LET u == upgrade[a]
        candidate == [c \in Calendars |->
           IF c \in down THEN u.expected[c]
           ELSE upgradeOneCalendar(u.expected[c], attested[u.key][c])]
    IN  /\ u.at = "fetch"
        /\ IF down = {} THEN UNCHANGED otsFaults ELSE OtsFault
        /\ upgrade' = [upgrade EXCEPT ![a] =
              IF candidate = u.expected THEN NoUpgrade
              ELSE [u EXCEPT !.at = "persist", !.candidate = candidate]]
        /\ UNCHANGED <<otsResults, attested, batchSize, cursor, tailTurn, page>>

\* Faulty: the result is overwritten.
UpdateBlindly(a) ==
    LET u == upgrade[a]
    IN  /\ u.at = "persist"
        /\ otsResults' = [otsResults EXCEPT ![u.key] = u.candidate]
        /\ upgrade' = [upgrade EXCEPT ![a] = NoUpgrade]
        /\ UNCHANGED <<attested, batchSize, cursor, tailTurn, page, otsFaults>>

\* UpdateSTHAnchorResult: compare-and-swap with the result that was read.
UpdateSTHAnchorResult(a) ==
    LET u == upgrade[a]
    IN  /\ u.at = "persist"
        /\ IF otsResults[u.key] = u.expected
           THEN /\ otsResults' = [otsResults EXCEPT ![u.key] = u.candidate]
                /\ upgrade' = [upgrade EXCEPT ![a] = NoUpgrade]
           ELSE /\ upgrade' = [upgrade EXCEPT ![a].at = "merge"] /\ UNCHANGED otsResults
        /\ UNCHANGED <<attested, batchSize, cursor, tailTurn, page, otsFaults>>

\* The store fails, or the actor is cancelled.
UpgradeFails(a) ==
    /\ upgrade[a].at # "idle" /\ OtsFault /\ upgrade' = [upgrade EXCEPT ![a] = NoUpgrade]
    /\ UNCHANGED <<otsResults, attested, batchSize, cursor, tailTurn, page>>

\* Pending calendars of the stored result take the candidate's bytes.
Merged(current, candidate) ==
    [c \in Calendars |-> IF current[c] = 0 /\ candidate[c] > 0 THEN candidate[c] ELSE current[c]]
Conflict(current, candidate) ==
    \E c \in Calendars : current[c] > 0 /\ candidate[c] > 0 /\ current[c] # candidate[c]

\* mergeOtsAnchorResultUpgrade: another actor won.  Conflicting bytes and too
\* many attempts are errors, nothing to add is the end.
mergeOtsAnchorResultUpgrade(a) ==
    LET u == upgrade[a]
        current == otsResults[u.key]
    IN  /\ u.at = "merge"
        /\ upgrade' = [upgrade EXCEPT ![a] =
              IF Conflict(current, u.candidate) \/ Merged(current, u.candidate) = current
                 \/ u.attempt + 1 >= MaxPersist
              THEN NoUpgrade
              ELSE [u EXCEPT !.at = "persist", !.expected = current, !.attempt = @ + 1,
                             !.candidate = Merged(current, u.candidate)]]
        /\ UNCHANGED <<otsResults, attested, batchSize, cursor, tailTurn, page, otsFaults>>

OtsWork(a) ==
    \/ \E k \in 1 .. Len(otsResults) : ReadResult(a, k)
    \/ UpgradeAnchorResult(a, {})
    \/ UpdateSTHAnchorResult(a) \/ mergeOtsAnchorResultUpgrade(a)

OtsNext ==
    \/ \E accepted \in SUBSET Calendars : OtsPublish(accepted)
    \/ \E k \in 1 .. Len(otsResults), c \in Calendars : Attest(k, c)
    \/ \E fail \in 0 .. 3 : OtsTick(fail)
    \/ UpgraderRestarts
    \/ \E a \in Actors :
          OtsWork(a) \/ UpgradeFails(a)
          \/ \E down \in SUBSET Calendars \ {{}} : UpgradeAnchorResult(a, down)

\* The upgrader's timer fires again and again, and a running tick goes on;
\* stores and calendars fail finitely often.
OtsFairness == WF_otsVars(OtsTick(0)) /\ WF_otsVars(OtsWork("upgrader"))
-----------------------------------------------------------------------------
(* Properties.                                                             *)

\* An attestation that is stored is never lost or replaced, although the
\* server and the tool read, ask and write the same result concurrently
\* (compare-and-swap and merge in PersistOtsAnchorResultUpgrade).
AttestationsKept ==
    [][\A k \in 1 .. Len(otsResults), c \in Calendars :
          otsResults[k][c] > 0 => otsResults'[k][c] = otsResults[k][c]]_otsVars

\* Every attested calendar is stored in the end, however old the result is
\* and whatever is published meanwhile (the tail and the backfill cursor of
\* nextResultPage).
EveryAttestationStored ==
    []<>(\A k \in 1 .. Len(otsResults), c \in Calendars :
            otsResults[k][c] = 0 => attested[k][c] = 0)
=============================================================================
