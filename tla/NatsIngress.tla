----------------------------- MODULE NatsIngress -----------------------------
(***************************************************************************)
(* The optional NATS transport: a producer publishes a signed claim and    *)
(* waits for its result (sdk/nats_ingress.go), the server's workers take   *)
(* deliveries from a durable work-queue consumer, submit them, store an    *)
(* immutable outcome and only then acknowledge                             *)
(* (internal/natsingress/worker.go, outcome_sink.go).  JetStream is        *)
(* modelled from how the code uses it: a message is redelivered when its   *)
(* acknowledgement does not arrive in time, at most MaxDeliver times;      *)
(* publications of one message ID inside the duplicate window are one      *)
(* message; an outcome subject takes one message.                          *)
(*                                                                         *)
(* A claim stands for its message ID.  The submission service is its       *)
(* contract (see Submission): a key belongs to the claim first accepted    *)
(* under it.  The retention limits of the outcome streams are left out.    *)
(***************************************************************************)
EXTENDS Integers, Sequences, FiniteSets

CONSTANTS
    NatsClaims,       \* well-formed signed claims
    Malformed,    \* requests decodeMessage refuses
    NatsKeyOf,        \* the idempotency key of each claim
    Codes,        \* the errors of Submit other than a key conflict
    Traffic,      \* what is sent to the ingress stream and which claims' producers
                  \* wait for the result, one of these
    PullLoops,
    MaxDeliver,   \* nats.max_deliver
    Buffer,       \* deliveries a pull loop holds besides the one in process
    MaxFaults     \* bound: restarts, lost acknowledgements, missed heartbeats

ASSUME IngressAssumption ==
    /\ NatsClaims \cap Malformed = {} /\ DOMAIN NatsKeyOf = NatsClaims
    /\ MaxDeliver \in Nat \ {0} /\ Buffer \in Nat \ {0}
    /\ \A t \in Traffic : t.sent \in Seq(NatsClaims \cup Malformed) /\ t.waits \subseteq NatsClaims
    /\ MaxFaults \in Nat
    /\ "none" \notin NatsClaims
    /\ Codes \cap {"none", "enqueued", "batch_error", "idempotent", "rejected", "already_exists"} = {}

VARIABLES
    traffic,     \* what the producers do
    stream,      \* the ingress stream: content, deliveries, state of each message
    results,     \* the result stored under each message ID
    dlq,         \* the dead letters: <<stream sequence, delivery count>>
    owner,       \* the claim accepted under each key
    batched,     \* claims the batch service took
    buffer,      \* deliveries pulled by each worker and not started
    worker,      \* the delivery each worker processes
    client,      \* each producer: where SubmitSignedClaim is
    inbox,       \* results waiting in a producer's subscription
    faults

broker == <<traffic, stream>>
outcomes == <<results, dlq>>
records == <<owner, batched>>
workers == <<buffer, worker>>
clients == <<client, inbox>>
natsVars == <<broker, outcomes, records, workers, clients, faults>>

NatsKeys == {NatsKeyOf[c] : c \in NatsClaims}
None == "none"
AcceptedResults == {"enqueued", "batch_error", "idempotent"}
Seqs == DOMAIN traffic.sent
Waiting == traffic.waits
Idle == [pc |-> "idle", seq |-> 0, n |-> 0, outcome |-> None]

NatsInit ==
    /\ traffic \in Traffic /\ stream = << >>
    /\ results = [c \in NatsClaims |-> None] /\ dlq = {}
    /\ owner = [k \in NatsKeys |-> None] /\ batched = {}
    /\ buffer = [w \in PullLoops |-> << >>]
    /\ worker = [w \in PullLoops |-> Idle]
    /\ client = [c \in Waiting |-> "published"] /\ inbox = [c \in Waiting |-> FALSE]
    /\ faults = 0

-----------------------------------------------------------------------------
(* The producer.                                                           *)

\* PublishSignedClaim: the next message of the traffic reaches the stream.
\* A publication inside the duplicate window of its message ID is
\* acknowledged and adds nothing; a claim that occurs again in the traffic
\* was published again, by a retrying producer, after that window.
Publish ==
    /\ Len(stream) < Len(traffic.sent)
    /\ stream' = Append(stream, [content |-> traffic.sent[Len(stream) + 1], n |-> 0, state |-> "ready"])
    /\ UNCHANGED <<traffic, outcomes, records, workers, clients, faults>>

\* WaitResult, first half: SubscribeSync, AutoUnsubscribe(1) and the flush
\* that makes the subscription active at the broker.
Subscribe(c) ==
    /\ client[c] = "published"
    /\ client' = [client EXCEPT ![c] = "subscribed"]
    /\ inbox' = [inbox EXCEPT ![c] = FALSE]
    /\ UNCHANGED <<broker, outcomes, records, workers, faults>>

\* Faulty: the producer relies on its subscription alone.
WaitWithoutSnapshot(c) ==
    /\ client[c] = "subscribed"
    /\ client' = [client EXCEPT ![c] = "waiting"]
    /\ UNCHANGED <<broker, outcomes, records, workers, inbox, faults>>

\* WaitResult, second half: the durable snapshot, read once.
ReadSnapshot(c) ==
    /\ client[c] = "subscribed"
    /\ client' = [client EXCEPT ![c] = IF results[c] # None THEN "done" ELSE "waiting"]
    /\ UNCHANGED <<broker, outcomes, records, workers, inbox, faults>>

\* NextMsgWithContext returns the live result.
ReceiveResult(c) ==
    /\ client[c] = "waiting" /\ inbox[c]
    /\ client' = [client EXCEPT ![c] = "done"]
    /\ UNCHANGED <<broker, outcomes, records, workers, inbox, faults>>

\* The caller's context ends; it may call WaitResult again with its handle.
WaitTimesOut(c) ==
    /\ client[c] \in {"subscribed", "waiting"} /\ ~inbox[c]
    /\ client' = [client EXCEPT ![c] = "published"]
    /\ UNCHANGED <<broker, outcomes, records, workers, inbox, faults>>

-----------------------------------------------------------------------------
(* The durable consumer.                                                   *)

\* A pull loop takes a delivery into its buffer (Consume, PullMaxMessages).
Pull(w, s) ==
    /\ s \in DOMAIN stream /\ stream[s].state = "ready" /\ stream[s].n < MaxDeliver
    /\ Len(buffer[w]) < Buffer
    /\ stream' = [stream EXCEPT ![s].state = "pending", ![s].n = @ + 1]
    /\ buffer' = [buffer EXCEPT ![w] = Append(@, [seq |-> s, n |-> stream[s].n + 1])]
    /\ UNCHANGED <<traffic, outcomes, records, worker, clients, faults>>

InProcess(s) == \E w \in PullLoops : worker[w].seq = s

\* The acknowledgement wait ends.  keepAlive extends it for the delivery in
\* process, not for one that waits in a buffer.
AckWaitEnds(s) ==
    /\ s \in DOMAIN stream /\ stream[s].state = "pending" /\ ~InProcess(s)
    /\ stream' = [stream EXCEPT ![s].state = "ready"]
    /\ UNCHANGED <<traffic, outcomes, records, workers, clients, faults>>

\* The heartbeats of a delivery in process do not reach the broker in time.
HeartbeatsLost(s) ==
    /\ faults < MaxFaults /\ faults' = faults + 1
    /\ s \in DOMAIN stream /\ stream[s].state = "pending" /\ InProcess(s)
    /\ stream' = [stream EXCEPT ![s].state = "ready"]
    /\ UNCHANGED <<traffic, outcomes, records, workers, clients>>

-----------------------------------------------------------------------------
(* The worker: Process.                                                    *)

At(w, pc) == worker[w].pc = pc
Content(w) == stream[worker[w].seq].content

\* decodeMessage: subject, headers, schema, message ID and body of a request.
Decodes(content) == content \in NatsClaims

\* Process up to the decoded request, or to the rejection of the delivery.
Start(w) ==
    /\ At(w, "idle") /\ buffer[w] # << >>
    /\ LET d == Head(buffer[w])
           bad == ~Decodes(stream[d.seq].content)
       IN worker' = [worker EXCEPT ![w] =
              [pc |-> IF bad THEN "store" ELSE "submit", seq |-> d.seq, n |-> d.n,
               outcome |-> IF bad THEN "rejected" ELSE None]]
    /\ buffer' = [buffer EXCEPT ![w] = Tail(@)]
    /\ UNCHANGED <<broker, outcomes, records, clients, faults>>

ToStore(w, outcome) ==
    worker' = [worker EXCEPT ![w].pc = "store", ![w].outcome = outcome]

\* submission.Submit accepts a new record and hands it to the batch service,
\* which may be closed (BatchError).
SubmitAccepts(w) ==
    LET c == Content(w) IN
    /\ At(w, "submit") /\ owner[NatsKeyOf[c]] = None
    /\ owner' = [owner EXCEPT ![NatsKeyOf[c]] = c]
    /\ \/ batched' = batched \cup {c} /\ ToStore(w, "enqueued")
       \/ UNCHANGED batched /\ ToStore(w, "batch_error")
    /\ UNCHANGED <<broker, outcomes, buffer, clients, faults>>

\* The key is taken by this claim.
SubmitFinds(w) ==
    LET c == Content(w) IN
    /\ At(w, "submit") /\ owner[NatsKeyOf[c]] = c
    /\ ToStore(w, "idempotent")
    /\ UNCHANGED <<broker, outcomes, records, buffer, clients, faults>>

\* Nak: the broker redelivers after nakDelay.  A message that is no longer
\* pending is not touched.
Redeliver(s) ==
    stream' = IF stream[s].state = "pending"
              THEN [stream EXCEPT ![s].state = "ready"] ELSE stream

retryableCode(code) == code \notin {"invalid_argument", "already_exists", "data_loss"}


\* Submit fails.  Under a retryable code the record may have been written
\* all the same (a sync that failed after the write); the delivery is asked
\* for again, and the last one gets an error result.
SubmitFails(w, code) ==
    LET c == Content(w) IN
    /\ At(w, "submit")
    /\ code = "already_exists" => owner[NatsKeyOf[c]] \notin {None, c}
    /\ \/ UNCHANGED owner
       \/ /\ retryableCode(code) /\ owner[NatsKeyOf[c]] = None
          /\ owner' = [owner EXCEPT ![NatsKeyOf[c]] = c]
    /\ IF retryableCode(code) /\ worker[w].n < MaxDeliver
       THEN Redeliver(worker[w].seq) /\ worker' = [worker EXCEPT ![w] = Idle]
       ELSE ToStore(w, code) /\ UNCHANGED stream
    /\ UNCHANGED <<traffic, outcomes, batched, buffer, clients, faults>>

\* The broker hands the new result to an active subscription.
Deliver(c) ==
    inbox' = [d \in Waiting |-> inbox[d] \/ (d = c /\ client[c] \in {"subscribed", "waiting"})]

\* storeImmutable: the publication expects an empty subject; when it does not
\* succeed the stored message is compared, and an equal one counts as stored.
Storable(stored, wanted) == stored \in {None, wanted}

\* storeUntilConfirmed for a result.  A different stored result, or an
\* unavailable stream, is retried for as long as the context lives.
StoreResult(w) ==
    LET c == Content(w) IN
    /\ At(w, "store") /\ worker[w].outcome # "rejected"
    /\ Storable(results[c], worker[w].outcome)
    /\ results' = [results EXCEPT ![c] = worker[w].outcome]
    /\ IF results[c] = None THEN Deliver(c) ELSE UNCHANGED inbox
    /\ worker' = [worker EXCEPT ![w].pc =
          IF worker[w].outcome \in AcceptedResults THEN "ack" ELSE "term"]
    /\ UNCHANGED <<broker, dlq, records, buffer, client, faults>>

\* rejectionIdentity covers the stream sequence and the reply subject, which
\* carries the delivery count: a redelivery makes a dead letter of its own.
RejectionID(w) == <<worker[w].seq, worker[w].n>>

\* storeUntilConfirmed for a rejection.
StoreRejection(w) ==
    /\ At(w, "store") /\ worker[w].outcome = "rejected"
    /\ dlq' = dlq \cup {RejectionID(w)}
    /\ worker' = [worker EXCEPT ![w].pc = "term"]
    /\ UNCHANGED <<broker, results, records, buffer, clients, faults>>

Remove(s) == stream' = [stream EXCEPT ![s].state = "gone"]

\* DoubleAck, or Term: the work queue drops the message.
Acknowledge(w) ==
    /\ At(w, "ack") \/ At(w, "term")
    /\ Remove(worker[w].seq)
    /\ worker' = [worker EXCEPT ![w] = Idle]
    /\ UNCHANGED <<traffic, outcomes, records, buffer, clients, faults>>

\* The acknowledgement does not reach the broker: Process returns an error
\* (DoubleAck) or nothing (Term), and the message stays pending.
AcknowledgeLost(w) ==
    /\ faults < MaxFaults /\ faults' = faults + 1
    /\ At(w, "ack") \/ At(w, "term")
    /\ worker' = [worker EXCEPT ![w] = Idle]
    /\ UNCHANGED <<broker, outcomes, records, buffer, clients>>

\* Shutdown or crash of the server, and its next start: every delivery in
\* process or in a buffer is left unacknowledged.
NatsRestart ==
    /\ faults < MaxFaults /\ faults' = faults + 1
    /\ worker' = [w \in PullLoops |-> Idle] /\ buffer' = [w \in PullLoops |-> << >>]
    /\ UNCHANGED <<broker, outcomes, records, clients>>

WorkerStep(w) ==
    \/ Start(w) \/ SubmitAccepts(w) \/ SubmitFinds(w)
    \/ \E code \in Codes \cup {"already_exists"} : SubmitFails(w, code)
    \/ StoreResult(w) \/ StoreRejection(w) \/ Acknowledge(w)

ClientStep(c) == Subscribe(c) \/ ReadSnapshot(c) \/ ReceiveResult(c) \/ WaitTimesOut(c)

NatsNext ==
    \/ Publish \/ \E c \in Waiting : ClientStep(c)
    \/ \E s \in Seqs : AckWaitEnds(s) \/ HeartbeatsLost(s)
    \/ \E w \in PullLoops, s \in Seqs : Pull(w, s)
    \/ \E w \in PullLoops : WorkerStep(w) \/ AcknowledgeLost(w)
    \/ NatsRestart

\* The workers, their pull loops and the broker's timer run.  Deliveries are
\* bounded, so a pull by some loop as often as one is possible is enough.
\* Nothing is assumed of the producers or of faults.
NatsFairness ==
    /\ \A w \in PullLoops : WF_natsVars(WorkerStep(w))
    /\ WF_natsVars(\E w \in PullLoops, s \in Seqs : Pull(w, s))
    /\ WF_natsVars(\E s \in Seqs : AckWaitEnds(s))

NatsSpec == NatsInit /\ [][NatsNext]_natsVars /\ NatsFairness
-----------------------------------------------------------------------------
(* Properties.                                                             *)

\* A message leaves the work queue only when its outcome is durable: the
\* result of its claim, or a dead letter (worker.go: storeUntilConfirmed
\* before DoubleAck and Term).  A stored result tells what happened to the
\* claim: an accepted one has the claim's record under its key, an enqueued
\* one was taken by the batch service, and already_exists means that another
\* claim has the key.
OutcomesAreTrue ==
    /\ \A s \in DOMAIN stream : stream[s].state = "gone" =>
          IF stream[s].content \in Malformed
          THEN \E d \in dlq : d[1] = s
          ELSE results[stream[s].content] # None
    /\ \A c \in NatsClaims :
          /\ results[c] \in AcceptedResults => owner[NatsKeyOf[c]] = c
          /\ results[c] = "enqueued" => c \in batched
          /\ results[c] = "already_exists" => owner[NatsKeyOf[c]] \notin {None, c}

\* A producer that waits on its subscription has not missed a result: the
\* subscription was active before the snapshot was read (WaitResult).
NoResultMissed ==
    \A c \in Waiting : client[c] = "waiting" /\ results[c] # None => inbox[c]

\* The NATS transport, through redelivery, crashes and lost acknowledgements.
TransportSound == OutcomesAreTrue /\ NoResultMissed

\* A worker whose outcome differs from the stored one retries until the
\* process stops (storeUntilConfirmed).
Stuck(w) ==
    /\ At(w, "store") /\ worker[w].outcome # "rejected"
    /\ ~Storable(results[Content(w)], worker[w].outcome)

=============================================================================
