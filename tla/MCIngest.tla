------------------------------ MODULE MCIngest ------------------------------
(* The way of a claim to the log, for TLC: the NATS transport, the submission
   path, the log writer, and the checkpoint that batches over the log advance.
   focus says which of them a behaviour is about; the others start in one
   state and keep it, and none of their fair actions is enabled there.

   The transport has two claims under one key, a claim that is published again
   after the duplicate window, a claim besides a malformed request, and a
   claim whose producer waits.  Submission has three calls that are a claim,
   its retry and a conflicting claim under one explicit key; a claim, its retry
   and an unkeyed claim; or the same unkeyed claim three times.  The writer
   has appends of three sizes, so that the order of the calls and the ones
   that fail decide whether the log rotates once, twice or not at all. *)
EXTENDS NatsIngress, Submission, WalWriter, CheckpointFrontier, TLC

CONSTANTS r1, r2, r3, keyed, unkeyed, c1, c2, c3, p1, p2, p3

OneKey == [c \in NatsClaims |-> "k"]
Sent(s) == [sent |-> s, waits |-> {}]

AllTraffic ==
    {Sent(<<"c1", "c2">>), Sent(<<"c1", "c1">>), Sent(<<"c1", "bad">>),
     [sent |-> <<"c1">>, waits |-> {"c1"}]}

Asks(k, c) == [key |-> k, claim |-> c]

Retried(r) ==
    [q \in Requests |-> IF q = r3 THEN r ELSE Asks(keyed, c1)]

AllScenarios ==
    {Retried(Asks(keyed, c2)), Retried(Asks(unkeyed, c3)), [q \in Requests |-> Asks(unkeyed, c3)]}

Three == {p1, p2, p3}
SizeOfThree == (p1 :> 1) @@ (p2 :> 2) @@ (p3 :> 3)

VARIABLE focus

IngestInit ==
    /\ NatsInit /\ Init /\ WalInit /\ FrontierInit
    /\ focus \in {"nats", "submission", "wal", "checkpoint"}
    /\ focus # "nats" => traffic = Sent(<<"c1", "c2">>)
    /\ focus # "submission" => asked = Retried(Asks(keyed, c2))
    /\ focus # "wal" => mode = "strict"
    /\ focus # "checkpoint" => ~deferred

IngestNext ==
    /\ UNCHANGED focus
    /\ \/ focus = "nats" /\ NatsNext /\ UNCHANGED <<vars, walVars, frontierVars>>
       \/ focus = "submission" /\ Next /\ UNCHANGED <<natsVars, walVars, frontierVars>>
       \/ focus = "wal" /\ WalNext /\ UNCHANGED <<natsVars, vars, frontierVars>>
       \/ focus = "checkpoint" /\ FrontierNext /\ UNCHANGED <<natsVars, vars, walVars>>

IngestSpec == IngestInit /\ [][IngestNext]_<<natsVars, vars, walVars, frontierVars, focus>>
FairIngestSpec == IngestSpec /\ NatsFairness /\ Fairness /\ WalFairness
=============================================================================
