---------------------------- MODULE MCAnchorLease ----------------------------
(* The anchor workers under their leases, and the OpenTimestamps upgrader that
   completes what they publish, for TLC.  focus says what a behaviour is
   about: the workers; the server and the tool upgrading one result; or the
   sweep of the upgrader over results that keep coming. *)
EXTENDS AnchorWorker, OtsUpgrade

VARIABLE focus

LeaseInit ==
    /\ Init /\ OtsInit /\ focus \in {"lease", "race", "sweep"}
    /\ focus # "sweep" => batchSize = 2

(* In a race there is one result, in a sweep one calendar and no tool. *)
LeaseNext ==
    /\ UNCHANGED focus
    /\ \/ focus = "lease" /\ Next /\ UNCHANGED otsVars
       \/ focus = "race" /\ OtsNext /\ UNCHANGED vars /\ Len(otsResults') <= 1
       \/ /\ focus = "sweep" /\ OtsNext /\ UNCHANGED vars
          /\ \A a \in Clis : upgrade'[a] = NoUpgrade
          /\ \A k \in DOMAIN otsResults' : otsResults'[k]["c2"] = Refused /\ attested'[k]["c1"] < 2

(* The fairness of AnchorWorker where it is in focus; elsewhere the clock
   stands. *)
LeaseFairness ==
    /\ SF_vars(focus = "lease" /\ Tick)
    /\ \A w \in Workers : WF_vars(focus = "lease" /\ WorkerStep(w))

LeaseSpec == LeaseInit /\ [][LeaseNext]_<<vars, otsVars, focus>> /\ LeaseFairness /\ OtsFairness
=============================================================================
