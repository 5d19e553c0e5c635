--------------------------- MODULE MCControlPlane ----------------------------
(***************************************************************************)
(* The control plane's four stores in one model: the status hub, the key   *)
(* registry, the security audit chain and the admin policy.  They share no *)
(* state, so a behaviour steps one of them, chosen at the start, and the   *)
(* others keep their initial state.                                        *)
(***************************************************************************)
EXTENDS StatusHub, KeyRegistry, AuditChain, AdminControl, TLC

VARIABLE plane

allVars == <<hubVars, keyVars, auditVars, adminVars, plane>>

MCScenarios == {
    [subs |-> {"s1"}, watched |-> {"s1"}, time |-> 1, changes |-> 2, faults |-> 1],
    [subs |-> {"s1"}, watched |-> {}, time |-> 3, changes |-> 0, faults |-> 3],
    [subs |-> {"s1", "s2"}, watched |-> {}, time |-> 2, changes |-> 0, faults |-> 1]}

\* The hub and the registry have several initial states; the other planes
\* start them in one.
PlaneInit ==
    /\ plane \in {"hub", "keys", "audit", "admin"}
    /\ HubInit /\ KeyInit /\ AuditInit /\ AdminInit
    /\ plane # "hub" => scenario = CHOOSE s \in MCScenarios : TRUE
    /\ plane # "keys" => ~online

PlaneNext ==
    \/ plane = "hub" /\ HubNext /\ UNCHANGED <<keyVars, auditVars, adminVars, plane>>
    \/ plane = "keys" /\ KeyNext /\ UNCHANGED <<hubVars, auditVars, adminVars, plane>>
    \/ plane = "audit" /\ AuditNext /\ UNCHANGED <<hubVars, keyVars, adminVars, plane>>
    \/ plane = "admin" /\ AdminNext /\ UNCHANGED <<hubVars, keyVars, auditVars, plane>>

\* Accounts are interchangeable, and so are keys: both are only compared.
Symmetry == Permutations(Accounts) \cup Permutations(Keys)

PlaneSpec == PlaneInit /\ [][PlaneNext]_allVars

-----------------------------------------------------------------------------
(* What the control plane has let stand is not taken back early or quietly: a
   subscription ends in its time, a retired key stays retired, and the audit
   trail only grows (statusnotify, keystore, securityaudit). *)
NothingTakenBack == EndsOnTime /\ RetiredStaysRetired /\ AuditIsAppendOnly
=============================================================================
