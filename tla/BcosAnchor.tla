----------------------------- MODULE BcosAnchor ------------------------------
(***************************************************************************)
(* Publishing one tree head to FISCO BCOS                                  *)
(* (internal/anchor/fiscobcos_durable.go, fiscobcos_sink.go,               *)
(* fiscobcos/attempt_journal.go): a signed transaction is journaled in the *)
(* schedule's in-flight attempt before it is sent, every answer about the  *)
(* chain is a read quorum of endpoints that lag and fail, and a            *)
(* transaction is replaced only when it can no longer be included.         *)
(*                                                                         *)
(* The chain is external: its head, the height each endpoint has reached,  *)
(* the pool, and the block and result of each included transaction.  The   *)
(* contract (contracts/fisco-bcos/TrustDBAnchorV1.sol) accepts an anchor   *)
(* once and lets its repetition pass without an event.                     *)
(***************************************************************************)
EXTENDS Integers, Sequences, FiniteSets

CONSTANTS NumEndpoints, ReadQuorum,
          Span,                \* client.BlockLimit: blocks a transaction may wait
          MaxLag,              \* maxFISCOBCOSEndpointHeightLag
          MaxAttempts,         \* attempts a journal holds
          Publishers,          \* processes that run the anchor service
          RejectsIncluded,     \* a node may answer "block limit" for an included transaction
          MaxHeight, MaxClaims, MaxTxs

ASSUME BcosAssumption ==
    /\ NumEndpoints \in Nat /\ MaxTxs \in Nat
    /\ ReadQuorum \in 2 .. NumEndpoints /\ 2 * ReadQuorum > NumEndpoints
    /\ MaxLag \in Nat /\ Span \in Nat \ {0} /\ RejectsIncluded \in BOOLEAN

VARIABLES
    height, view,        \* the chain's head, and the height of each endpoint
    signed,              \* the block limit of each transaction signed so far
    pool, included,      \* transactions sent; block and result of the included ones
    journal,             \* the in-flight attempt's provider state
    lease,               \* the publisher that holds the attempt, or "free"
    call,                \* the publication each publisher is running
    anchored,            \* 0, the transaction of the durable result, or -1: failed
    claims

chainVars == <<height, view, pool, included>>
bcosVars == <<height, view, signed, pool, included, journal, lease, call, anchored, claims>>

Endpoints == 1 .. NumEndpoints
Txs == 1 .. MaxTxs
NotIncluded == [block |-> 0, result |-> "none"]
NoCall == [at |-> "idle", copy |-> << >>, healthy |-> {}, quorumHeight |-> 0, index |-> 0]

BcosInit ==
    /\ height = 1 /\ view = [e \in Endpoints |-> 1] /\ signed = << >>
    /\ pool = {} /\ included = [t \in Txs |-> NotIncluded]
    /\ journal = << >> /\ lease = "free" /\ call = [w \in Publishers |-> NoCall]
    /\ anchored = 0 /\ claims = 0

-----------------------------------------------------------------------------
(* The chain and its endpoints.                                            *)

Recorded == \E t \in Txs : included[t].result = "ok"

\* publish() writes the record and its event once, lets an exact repetition
\* pass without an event, and reverts for a publisher that is not authorized.
publish(t, T, authorized) ==
    IF ~authorized THEN "reverted"
    ELSE IF Recorded \/ \E u \in T : u < t THEN "repeated" ELSE "ok"

\* A block takes some of the transactions sent, within their block limit.
NewBlock(T, authorized) ==
    /\ height < MaxHeight
    /\ T \subseteq {t \in pool : included[t] = NotIncluded /\ height < signed[t]}
    /\ height' = height + 1
    /\ included' = [t \in Txs |->
          IF t \in T THEN [block |-> height + 1, result |-> publish(t, T, authorized)]
                     ELSE included[t]]
    /\ UNCHANGED <<view, signed, pool, journal, lease, call, anchored, claims>>

CatchUp(e) ==
    /\ view[e] < height /\ view' = [view EXCEPT ![e] = @ + 1]
    /\ UNCHANGED <<height, signed, pool, included, journal, lease, call, anchored, claims>>

-----------------------------------------------------------------------------
(* Reading the chain through a quorum.  An endpoint may fail in any call.  *)

HasTx(e, t) == included[t].block \in 1 .. view[e]
HasRecord(e) == \E t \in Txs : HasTx(e, t) /\ included[t].result = "ok"

\* What a read says when the endpoints in yes and no answer so: a minority's
\* yes is never voted away.
Verdict(yes, no, healthy) ==
    IF Cardinality(yes \cap healthy) >= ReadQuorum THEN "found"
    ELSE IF yes = {} /\ Cardinality(no \cap healthy) >= ReadQuorum THEN "none"
    ELSE "unclear"

\* readReceiptQuorum: the evidence of a repeated publication has no event,
\* and reading it fails.
readReceiptQuorum(t, healthy) ==
    {Verdict({e \in A : HasTx(e, t) /\ included[t].result # "repeated"},
             {e \in A : ~HasTx(e, t)}, healthy) : A \in SUBSET Endpoints}

\* readAnchorStateQuorum, and readAnchorQuorum, for which "none" is an error.
readAnchorStateQuorum(healthy) ==
    {Verdict({e \in A : HasRecord(e)}, {e \in A : ~HasRecord(e)}, healthy)
        : A \in SUBSET Endpoints}

\* recoverRecordedReceipts reads every transaction of the journal: the index
\* of the only one found, 0 for none, -1 when that is not clear.
recoverRecordedReceipts(j, healthy) ==
    {IF \E i \in DOMAIN j : f[i] = "unclear" THEN -1
     ELSE LET found == {i \in DOMAIN j : f[i] = "found"}
          IN  IF found = {} THEN 0
              ELSE IF Cardinality(found) = 1 THEN CHOOSE i \in found : TRUE ELSE -1
       : f \in {g \in [DOMAIN j -> {"found", "none", "unclear"}] :
                   \A i \in DOMAIN j : g[i] \in readReceiptQuorum(j[i].tx, healthy)}}

-----------------------------------------------------------------------------
(* The publisher: the service claims the attempt and calls PublishDurable. *)

Last(s) == s[Len(s)]
At(w, where) == call' = [call EXCEPT ![w].at = where]

\* The service claims the attempt, or takes it over when its lease expired.
Claim(w) ==
    /\ call[w].at = "idle" /\ anchored = 0 /\ claims < MaxClaims
    /\ lease' = w /\ claims' = claims + 1
    /\ call' = [call EXCEPT ![w] = [NoCall EXCEPT !.at = "probe", !.copy = journal]]
    /\ UNCHANGED <<chainVars, signed, journal, anchored>>

\* The call returns and the service reschedules the attempt; a service whose
\* lease was taken over changes nothing.
EndCall(w) ==
    /\ call' = [call EXCEPT ![w] = NoCall]
    /\ lease' = IF lease = w THEN "free" ELSE lease
GiveUp(w) == EndCall(w) /\ UNCHANGED <<chainVars, signed, journal, anchored, claims>>
Fails(w) ==
    /\ EndCall(w) /\ anchored' = IF lease = w THEN -1 ELSE anchored
    /\ UNCHANGED <<chainVars, signed, journal, claims>>

\* The publisher's process dies; its lease stays until it expires.
Dies(w) ==
    /\ call[w].at # "idle" /\ call' = [call EXCEPT ![w] = NoCall]
    /\ UNCHANGED <<chainVars, signed, journal, lease, anchored, claims>>


\* The lowest height among the ReadQuorum highest ones.
ProbeHeight(A) ==
    CHOOSE h \in {view[e] : e \in A} :
        /\ Cardinality({e \in A : view[e] >= h}) >= ReadQuorum
        /\ Cardinality({e \in A : view[e] > h}) < ReadQuorum

\* probeQuorum: the endpoints that answer and are not too far behind.
probeQuorum(w) ==
    /\ call[w].at = "probe"
    /\ \E A \in SUBSET Endpoints :
          LET healthy == {e \in A : ProbeHeight(A) - view[e] <= MaxLag}
          IN  IF Cardinality(A) < ReadQuorum \/ Cardinality(healthy) < ReadQuorum
              THEN GiveUp(w)
              ELSE /\ call' = [call EXCEPT ![w].at = IF call[w].copy = << >> THEN "first" ELSE "lookup",
                                           ![w].healthy = healthy,
                                           ![w].quorumHeight = ProbeHeight(A)]
                   /\ UNCHANGED <<chainVars, signed, journal, lease, anchored, claims>>

\* The driver: the first healthy endpoint.
Driver(w) == CHOOSE e \in call[w].healthy : \A d \in call[w].healthy : e <= d

\* validOutcomeTransition; "observed" is the unknown outcome with a submission
\* status.
Closed == {"expired", "rejected"}
Final == Closed \cup {"success", "terminal"}
validOutcomeTransition(old, new) ==
    \/ old = "prepared" /\ new \in {"unknown", "observed"} \cup Final
    \/ old = "unknown" /\ new = "observed"
    \/ old \in {"unknown", "observed"} /\ new \in Final

\* ValidateAttemptJournalTransition: the last attempt takes an outcome, or one
\* is added after a closed one.
ValidTransition(old, new) ==
    \/ /\ Len(new) = Len(old) /\ SubSeq(new, 1, Len(old) - 1) = SubSeq(old, 1, Len(old) - 1)
       /\ validOutcomeTransition(Last(old).outcome, Last(new).outcome)
    \/ /\ Len(new) = Len(old) + 1 /\ SubSeq(new, 1, Len(old)) = old
       /\ old # << >> => Last(old).outcome \in Closed

\* checkpointAttemptJournal: compare-and-swap under the lease.  A publisher
\* that lost it stops; a transition that is not valid is a permanent error.
Checkpoint(w, next, where) ==
    IF ~ValidTransition(call[w].copy, next)
    THEN EndCall(w) /\ anchored' = (IF lease = w THEN -1 ELSE anchored) /\ UNCHANGED journal
    ELSE IF lease # w \/ journal # call[w].copy
    THEN EndCall(w) /\ UNCHANGED <<journal, anchored>>
    ELSE /\ journal' = next
         /\ call' = [call EXCEPT ![w].copy = next, ![w].at = where]
         /\ UNCHANGED <<lease, anchored>>

Outcome(w, i, o) == [call[w].copy EXCEPT ![i].outcome = o]
Close(w, o, where) == Checkpoint(w, Outcome(w, Len(call[w].copy), o), where)
UnchangedBut == UNCHANGED <<chainVars, signed, claims>>

\* Nothing journaled yet: an anchor that exists was not published from this
\* journal, and its evidence cannot be had.
FirstLook(w) ==
    /\ call[w].at = "first"
    /\ \E v \in readAnchorStateQuorum(call[w].healthy) :
          IF v = "none" THEN At(w, "prepare") /\ UnchangedBut /\ UNCHANGED <<journal, lease, anchored>>
                        ELSE GiveUp(w)

\* Faulty: the transaction is sent when it is signed.
PrepareAndSend(w) ==
    /\ call[w].at = "prepare" /\ Len(signed) < MaxTxs
    /\ signed' = Append(signed, view[Driver(w)] + Span)
    /\ pool' = pool \cup {Len(signed')}
    /\ Checkpoint(w, Append(call[w].copy, [tx |-> Len(signed'), outcome |-> "prepared"]), "lookup")
    /\ UNCHANGED <<height, view, included, claims>>

\* PrepareAnchor signs a transaction, which is journaled before it is sent.
PrepareAnchor(w) ==
    /\ call[w].at = "prepare" /\ Len(signed) < MaxTxs
    /\ signed' = Append(signed, view[Driver(w)] + Span)
    /\ Checkpoint(w, Append(call[w].copy, [tx |-> Len(signed'), outcome |-> "prepared"]), "lookup")
    /\ UNCHANGED <<chainVars, claims>>

\* A receipt found for attempt i of the journal.
Observed(w, i) ==
    LET open == Last(call[w].copy).outcome \notin Closed
        last == i = Len(call[w].copy)
    IN  IF included[call[w].copy[i].tx].result = "ok"
        THEN /\ call' = [call EXCEPT ![w].at = "complete", ![w].index = i]
             /\ UnchangedBut /\ UNCHANGED <<journal, lease, anchored>>
        ELSE IF open /\ last THEN Close(w, "terminal", "terminal") /\ UnchangedBut
        ELSE GiveUp(w)

\* The head of resumeAttemptJournal's loop.
Resume(w) ==
    /\ call[w].at = "lookup"
    /\ CASE Last(call[w].copy).outcome = "success" ->
              /\ call' = [call EXCEPT ![w].at = "result", ![w].index = Len(call[w].copy)]
              /\ UnchangedBut /\ UNCHANGED <<journal, lease, anchored>>
         [] Last(call[w].copy).outcome = "terminal" -> Fails(w)
         [] OTHER ->
              \E i \in recoverRecordedReceipts(call[w].copy, call[w].healthy) :
                 IF i = -1 THEN GiveUp(w)
                 ELSE IF i > 0 THEN Observed(w, i)
                 ELSE IF Last(call[w].copy).outcome \notin Closed
                 THEN At(w, "state") /\ UnchangedBut /\ UNCHANGED <<journal, lease, anchored>>
                 ELSE IF Len(call[w].copy) >= MaxAttempts THEN Fails(w)
                 ELSE At(w, "prepare") /\ UnchangedBut /\ UNCHANGED <<journal, lease, anchored>>

Terminal(w) == call[w].at = "terminal" /\ Fails(w)

\* No receipt: unless the anchor exists, the transaction has expired or is
\* sent (again).
ReadState(w) ==
    /\ call[w].at = "state"
    /\ \E v \in readAnchorStateQuorum(call[w].healthy) :
          IF v # "none" THEN GiveUp(w)
          ELSE IF call[w].quorumHeight > signed[Last(call[w].copy).tx]
          THEN Close(w, "expired", "lookup") /\ UnchangedBut
          ELSE At(w, "submit") /\ UnchangedBut /\ UNCHANGED <<journal, lease, anchored>>

\* SubmitPreparedAnchor: the driver's pool takes the transaction and the call
\* waits for its receipt, or the node refuses it or is not reached.
Submit(w) ==
    LET t == Last(call[w].copy).tx
    IN  /\ call[w].at = "submit"
        /\ \/ t \notin pool /\ view[Driver(w)] < signed[t] /\ pool' = pool \cup {t} /\ At(w, "waiting")
           \/ UNCHANGED pool /\ At(w, "sent")
        /\ UNCHANGED <<height, view, signed, included, journal, lease, anchored, claims>>

\* The answer: the status of the driver's receipt, of its pool, or an error.
Response(w) ==
    LET t == Last(call[w].copy).tx
        outcome == Last(call[w].copy).outcome
        Note(o, S) ==
            IF outcome \in S THEN Close(w, o, "giveup") /\ UnchangedBut ELSE GiveUp(w)
        Receipt == readReceiptQuorum(t, call[w].healthy)
        waiting == call[w].at = "waiting" /\ HasTx(Driver(w), t)
        refused == call[w].at = "sent"
    IN  /\ call[w].at \in {"sent", "waiting"}
        /\ \/ Note("unknown", {"prepared"})
           \/ Note("observed", {"prepared", "unknown"})
           \/ /\ waiting /\ included[t].result # "reverted"
              /\ \E v \in Receipt : IF v = "found" THEN Observed(w, Len(call[w].copy))
                                    ELSE Note("unknown", {"prepared", "unknown"})
           \/ /\ waiting /\ included[t].result = "reverted"
              /\ \E v \in Receipt : IF v = "found" THEN Observed(w, Len(call[w].copy))
                                    ELSE GiveUp(w)
           \/ /\ refused /\ view[Driver(w)] >= signed[t] /\ (RejectsIncluded \/ included[t] = NotIncluded)
              /\ Close(w, "rejected", "giveup") /\ UnchangedBut
           \/ refused /\ t \notin pool /\ Close(w, "terminal", "terminal") /\ UnchangedBut

Leave(w) == call[w].at = "giveup" /\ GiveUp(w)

\* completeObservedReceipt: the record is read back, the success journaled.
Complete(w) ==
    /\ call[w].at = "complete"
    /\ \E v \in readAnchorStateQuorum(call[w].healthy) :
          IF v # "found" THEN GiveUp(w)
          ELSE Checkpoint(w, Outcome(w, call[w].index, "success"), "result") /\ UnchangedBut

\* resultFromSuccessfulJournal, and the service's completion under its lease.
Result(w) ==
    /\ call[w].at = "result"
    /\ \/ GiveUp(w)
       \/ /\ EndCall(w)
          /\ anchored' = IF lease = w THEN call[w].copy[call[w].index].tx ELSE anchored
          /\ UNCHANGED <<chainVars, signed, journal, claims>>

BcosNext ==
    \/ \E T \in SUBSET pool, authorized \in BOOLEAN : NewBlock(T, authorized)
    \/ \E e \in Endpoints : CatchUp(e)
    \/ \E w \in Publishers :
          \/ Claim(w) \/ Dies(w) \/ probeQuorum(w) \/ FirstLook(w) \/ PrepareAnchor(w)
          \/ Resume(w) \/ ReadState(w) \/ Submit(w) \/ Response(w) \/ Leave(w)
          \/ Terminal(w) \/ Complete(w) \/ Result(w)

BcosSpec == BcosInit /\ [][BcosNext]_bcosVars
-----------------------------------------------------------------------------
(* Properties.                                                             *)

\* A transaction is durable before it can have an effect: every one sent is
\* in the journal (PublishDurable checkpoints a transaction before
\* SubmitPreparedAnchor), whatever dies and whoever holds the attempt.
SentIsJournaled == \A t \in pool : \E i \in DOMAIN journal : journal[i].tx = t


\* A publication that succeeded on the chain is completed, or still can be:
\* it is not given up for good (ADR-0014, "If an exact successful receipt is
\* found ... then complete the same logical anchor").
SuccessNotAbandoned == anchored = -1 => ~Recorded
=============================================================================
