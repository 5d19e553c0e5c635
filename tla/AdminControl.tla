---------------------------- MODULE AdminControl -----------------------------
(***************************************************************************)
(* Privileged requests and the authorization policy they run under:        *)
(* sessions bound to a policy revision, the policy lock of the admin       *)
(* handler (internal/adminweb/handler.go), the active policy of the        *)
(* manager (internal/adminauth/manager.go), and the policy file with its   *)
(* history (internal/adminauth/file_store.go), which the recovery command  *)
(* of the CLI replaces too.                                                *)
(*                                                                         *)
(* A policy is its revision number and the accounts it grants; its digest  *)
(* is the policy itself.  A replacement holds the policy file's lock from  *)
(* its load to its install.                                                *)
(***************************************************************************)
EXTENDS Integers, Sequences, FiniteSets

CONSTANTS Accounts,      \* accounts of the policies
          Requests,      \* HTTP requests to the server
          MaxRevision, MaxAdminFaults

ASSUME AdminAssumption ==
    /\ Cardinality(Accounts) >= 2 /\ MaxRevision \in Nat /\ MaxAdminFaults \in Nat
    /\ {"cli", "free"} \cap Requests = {}

VARIABLES
    policyFile, history,  \* the file and the directory of earlier revisions
    installed,            \* every policy the file has held, with the one its author edited
    fileLock,             \* who replaces the policy: a request, "cli" or "free"
    replacing,            \* what the holder writes: a policy and its base
    active,               \* the manager's policy
    policyMu,             \* the policy lock: the requests that hold it, and how
    session,              \* the principal of each request's cookie
    request,              \* where each request is, and what it asks for
    authorizedEvents,     \* running requests with a durable "authorized" event
    adminFaults

adminVars == <<policyFile, history, installed, fileLock, replacing, active, policyMu,
               session, request, authorizedEvents, adminFaults>>
fileState == <<policyFile, history, installed, fileLock, replacing>>

Policies == [version : 1 .. MaxRevision, grants : SUBSET Accounts]
NoPolicy == [version |-> 0, grants |-> {}]
Edit(policy, base) == [policy |-> policy, base |-> base]
NoEdit == Edit(NoPolicy, NoPolicy)
Idle == [at |-> "idle", put |-> NoEdit]
Anonymous == [account |-> "none", policy |-> NoPolicy]
Unlocked == [shared |-> {}, exclusive |-> {}]
InstalledPolicies == {installed[i].policy : i \in DOMAIN installed}

AdminInit ==
    /\ policyFile = [version |-> 1, grants |-> Accounts] /\ history = {}
    /\ installed = <<Edit(policyFile, NoPolicy)>>
    /\ fileLock = "free" /\ replacing = NoEdit
    /\ active = policyFile /\ policyMu = Unlocked
    /\ session = [r \in Requests |-> Anonymous]
    /\ request = [r \in Requests |-> Idle]
    /\ authorizedEvents = {} /\ adminFaults = 0

AdminFault == adminFaults < MaxAdminFaults /\ adminFaults' = adminFaults + 1
At(r, where) == request' = [request EXCEPT ![r].at = where]
Exclusive(r) == request[r].put # NoEdit

-----------------------------------------------------------------------------
(* A request under the policy lock.                                        *)

\* postSession: the principal is made from the policy active now, outside
\* the policy lock.  (A client certificate or an OIDC token makes the same
\* principal at the start of the request itself.)
Login(r, a) ==
    /\ request[r] = Idle /\ a \in active.grants
    /\ session' = [session EXCEPT ![r] = [account |-> a, policy |-> active]]
    /\ UNCHANGED <<fileState, active, policyMu, request, authorizedEvents, adminFaults>>

\* A request arrives: an operation, or a PUT of a policy with the digest of
\* the one it was edited from (If-Match).  withPermissionLock takes the
\* policy lock, shared for an operation and exclusive for a PUT.
Arrive(r, put) ==
    /\ request[r] = Idle /\ session[r] # Anonymous
    /\ policyMu.exclusive = {} /\ (put = NoEdit \/ policyMu.shared = {})
    /\ policyMu' = IF put = NoEdit THEN [policyMu EXCEPT !.shared = @ \cup {r}]
                                   ELSE [policyMu EXCEPT !.exclusive = {r}]
    /\ request' = [request EXCEPT ![r] = [at |-> "locked", put |-> put]]
    /\ UNCHANGED <<fileState, active, session, authorizedEvents, adminFaults>>

UnlockPolicy(r) ==
    policyMu' = [shared |-> policyMu.shared \ {r}, exclusive |-> policyMu.exclusive \ {r}]
Return(r) ==
    /\ UnlockPolicy(r) /\ request' = [request EXCEPT ![r] = Idle]
    /\ authorizedEvents' = authorizedEvents \ {r}

\* ValidatePrincipal and Authorize: the session's policy is the active one
\* and grants the account.
ValidPrincipal(p) == p.policy = active /\ p.account \in active.grants

\* Authentication and authorization; a request that is denied is answered.
Authorize(r) ==
    /\ request[r].at = "locked"
    /\ IF ValidPrincipal(session[r])
       THEN At(r, "authorized") /\ UNCHANGED <<policyMu, authorizedEvents>>
       ELSE Return(r)
    /\ UNCHANGED <<fileState, active, session, adminFaults>>

\* Faulty: the policy lock is released once the request is authorized.
RecordAuthorizedUnlock(r) ==
    /\ request[r].at = "authorized"
    /\ \/ /\ authorizedEvents' = authorizedEvents \cup {r} /\ At(r, "running")
          /\ IF Exclusive(r) THEN UNCHANGED policyMu ELSE UnlockPolicy(r)
          /\ UNCHANGED adminFaults
       \/ AdminFault /\ Return(r)
    /\ UNCHANGED <<fileState, active, session>>

\* The "authorized" event; a request whose event cannot be written ends.
RecordAuthorized(r) ==
    /\ request[r].at = "authorized"
    /\ \/ /\ authorizedEvents' = authorizedEvents \cup {r} /\ At(r, "running")
          /\ UNCHANGED <<policyMu, adminFaults>>
       \/ AdminFault /\ Return(r)
    /\ UNCHANGED <<fileState, active, session>>

\* next.ServeHTTP: the handler of a privileged operation takes effect.
Serve(r) ==
    /\ request[r].at = "running" /\ ~Exclusive(r) /\ At(r, "served")
    /\ UNCHANGED <<fileState, active, policyMu, session, authorizedEvents, adminFaults>>

\* The outcome event (whose failure is only logged) and the return.
Outcome(r) ==
    /\ request[r].at = "served" /\ Return(r)
    /\ UNCHANGED <<fileState, active, session, adminFaults>>

-----------------------------------------------------------------------------
(* Replacing the policy.                                                   *)

\* ValidateOnlineUpdate: the actor's policy is the file's, the version
\* advances by one, and the actor leaves its own account alone.
ValidateOnlineUpdate(p, current, next) ==
    /\ p.policy = current /\ p.account \in current.grants
    /\ next.version = current.version + 1
    /\ p.account \in next.grants

\* Faulty: the last writer wins.
MatchesAny(put) == TRUE

\* expectedDigest == digest: the policy was edited from the file's.
Matches(put) == put.base = policyFile

\* ReplaceOnline takes the file lock, loads the file and checks.
ReplaceOnline(r) ==
    /\ request[r].at = "running" /\ Exclusive(r) /\ fileLock = "free"
    /\ LET put == request[r].put
       IN  IF Matches(put) /\ ValidateOnlineUpdate(session[r], policyFile, put.policy)
           THEN /\ fileLock' = r /\ replacing' = put
                /\ At(r, "replacing") /\ UNCHANGED <<policyMu, authorizedEvents>>
           ELSE Return(r) /\ UNCHANGED <<fileLock, replacing>>
    /\ UNCHANGED <<policyFile, history, installed, active, session, adminFaults>>

\* ReplaceOffline, by the recovery command: no actor, any grants.
ReplaceOffline(put) ==
    /\ fileLock = "free"
    /\ Matches(put) /\ put.policy.version = policyFile.version + 1
    /\ fileLock' = "cli" /\ replacing' = put
    /\ UNCHANGED <<policyFile, history, installed, active, policyMu, session, request,
                   authorizedEvents, adminFaults>>

\* writePolicyHistory: the current revision is archived first.
writePolicyHistory ==
    /\ fileLock # "free" /\ policyFile \notin history
    /\ history' = history \cup {policyFile}
    /\ UNCHANGED <<policyFile, installed, fileLock, replacing, active, policyMu, session,
                   request, authorizedEvents, adminFaults>>

\* writePolicyAtomic replaces the file.  The answer may still be an error
\* (the directory's sync, the lock's release): the manager then keeps the
\* policy it has.
writePolicyAtomic ==
    /\ fileLock # "free" /\ policyFile \in history
    /\ policyFile' = replacing.policy /\ installed' = Append(installed, replacing)
    /\ fileLock' = "free" /\ replacing' = NoEdit
    /\ \/ fileLock = "cli" /\ UNCHANGED <<request, policyMu, authorizedEvents, adminFaults>>
       \/ /\ fileLock # "cli" /\ At(fileLock, "installed")
          /\ UNCHANGED <<policyMu, authorizedEvents, adminFaults>>
       \/ fileLock # "cli" /\ AdminFault /\ Return(fileLock)
    /\ UNCHANGED <<history, active, session>>

\* Manager.Replace, and the return.
Replace(r) ==
    /\ request[r].at = "installed"
    /\ active' = request[r].put.policy
    /\ Return(r)
    /\ UNCHANGED <<fileState, session, adminFaults>>

\* The server dies, and the one started next loads the file.
AdminRestart ==
    /\ AdminFault
    /\ IF fileLock = "cli" THEN UNCHANGED <<fileLock, replacing>>
                           ELSE fileLock' = "free" /\ replacing' = NoEdit
    /\ active' = policyFile /\ policyMu' = Unlocked
    /\ request' = [r \in Requests |-> Idle] /\ authorizedEvents' = {}
    /\ UNCHANGED <<policyFile, history, installed, session>>

\* The recovery command fails or dies before the file is replaced.
CliDies ==
    /\ AdminFault /\ fileLock = "cli" /\ fileLock' = "free" /\ replacing' = NoEdit
    /\ UNCHANGED <<policyFile, history, installed, active, policyMu, session, request,
                   authorizedEvents>>

Edits == {Edit(p, b) : p \in Policies, b \in InstalledPolicies}

AdminNext ==
    \/ \E r \in Requests :
          \/ \E a \in Accounts : Login(r, a)
          \/ \E put \in Edits \cup {NoEdit} : Arrive(r, put)
          \/ Authorize(r) \/ RecordAuthorized(r) \/ Serve(r) \/ Outcome(r)
          \/ ReplaceOnline(r) \/ Replace(r)
    \/ \E put \in Edits : ReplaceOffline(put)
    \/ writePolicyHistory \/ writePolicyAtomic \/ AdminRestart \/ CliDies

AdminSpec == AdminInit /\ [][AdminNext]_adminVars
-----------------------------------------------------------------------------
(* Properties.                                                             *)

\* A privileged operation takes effect only while the policy in force grants
\* its account, not merely one that did when it was authorized, and after
\* its "authorized" event (withPermissionLock keeps the policy lock across
\* the handler, and answers 503 when the event is not written).
ServedUnderThePolicy ==
    [][\A r \in Requests :
          request'[r].at = "served" /\ request[r].at # "served" =>
             ValidPrincipal(session[r]) /\ r \in authorizedEvents]_adminVars

\* The policies form one history: revisions without gaps, each edited from
\* the one it replaces and archived before it is replaced (ReplaceOnline and
\* ReplaceOffline, whatever the crashes and the other writer).
PolicyHistoryIsLinear ==
    /\ policyFile = installed[Len(installed)].policy
    /\ \A i \in 2 .. Len(installed) :
          /\ installed[i].base = installed[i - 1].policy
          /\ installed[i].base \in history
          /\ installed[i].policy.version = i

\* A policy is in force only after it is in the file, and the server never
\* returns to an earlier one (putPolicy activates what it persisted).
ActiveIsInstalled ==
    [][active' \in InstalledPolicies' /\ active'.version >= active.version]_adminVars

(* The administrators' policy: what is served was granted by the policy in force,
   and only an installed policy is ever in force (adminweb, adminauth). *)
PolicyObeyed == ServedUnderThePolicy /\ ActiveIsInstalled
=============================================================================
