------------------------------ MODULE MCClients ------------------------------
(* What other programs meet, for TLC: the listings that clients page through,
   the supervisor of a signer plugin and the native backends in its process.
   They share no state, so focus says which of them a behaviour is about; the
   others start in one state and keep it.  A device serves a request that keeps
   SM4 sessions besides one that signs; or a restore besides one that signs, as
   long as nothing fails, and the restore alone afterwards. *)
EXTENDS StoreListing, SignerHost, SignerDevice

VARIABLE focus

\* Two records of the same moment in different batches, and two roots likewise.
MCRecordAt == [i \in 1..3 |-> IF i < 3 THEN 1 ELSE 2]
MCRecordBatch == [i \in 1..3 |-> IF i = 2 THEN 2 ELSE 1]
MCRootAt == [i \in 1..3 |-> IF i = 3 THEN 2 ELSE 1]

\* One request keeps SM4 sessions and restores, the other uses a key.
MCOpsOf == <<{"RestoreRecoveryBundle", "SM4Session"}, {"Sign"}>>

ClientsInit ==
    /\ ListingInit /\ SignerInit /\ DeviceInit
    /\ focus \in {"listing", "signer", "session", "restore"}
    /\ focus # "listing" => query = (CHOOSE q \in Queries : Asked(q)) /\ rows = {}
    /\ focus # "signer" => host.provider = "sdf"
    /\ focus \notin {"session", "restore"} => module.kind = "sdf"

ClientsNext ==
    \/ focus = "listing" /\ ListingNext /\ UNCHANGED <<signerVars, deviceVars, focus>>
    \/ focus = "signer" /\ SignerNext /\ UNCHANGED <<listingVars, deviceVars, focus>>
    \/ /\ focus \in {"session", "restore"} /\ DeviceNext
       /\ focus = "session" => actor'[1].op # "RestoreRecoveryBundle"
       /\ focus = "restore" => actor'[1].op # "SM4Session" /\ (hiccups' = 0 \/ actor'[2].pc = "idle")
       /\ UNCHANGED <<listingVars, signerVars, focus>>

ClientsSpec == ClientsInit /\ [][ClientsNext]_<<listingVars, signerVars, deviceVars, focus>>
=============================================================================
