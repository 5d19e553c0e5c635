-------------------------- MODULE SignerDevice --------------------------
(***************************************************************************)
(* Inside a signer plugin's process: requests, the goroutines that clean   *)
(* up SM4 sessions and Close share one native module.  The SDF backend     *)
(* guards it by a read-write lock, a mutex per session and a registry of   *)
(* open sessions; the PKCS#11 backend by the read-write lock alone.  A     *)
(* native call cannot be interrupted.  A recovery restores the pins of     *)
(* several keys at once.                                                   *)
(* What runs under the write lock is one step; what runs under the read    *)
(* lock begins in one step and ends in another.                            *)
(***************************************************************************)
EXTENDS Integers, FiniteSets

CONSTANTS
  Requests,      \* goroutines that serve calls, numbered from 1
  PinnedKeys,    \* key handles in the device
  OpsOf,         \* the operations that each of them is used for
  MaxDeviceFaults  \* bound: native failures and changes of the device

Closer == 0
\* The goroutine that CloseContext starts for a request's SM4 session.
Cleaner(r) == -r
Actors == Requests \cup {Cleaner(r) : r \in Requests} \cup {Closer}

VARIABLES
  module,    \* the backend: kind, closing, closed, whether the native module is loaded
  session,   \* the native sessions, one for each request
  actor,     \* where each goroutine is
  pins,      \* Plugin.accepted
  held,      \* the keys and the identity that the device has
  hiccups    \* native failures that happened

deviceVars == <<module, session, actor, pins, held, hiccups>>

NotPinned == "unpinned"
NoSession == [native |-> "none", mutex |-> {}, once |-> "open", registered |-> FALSE]
Resting == [pc |-> "idle", op |-> "none", s |-> 0, items |-> {}, read |-> {},
            calls |-> 0, failed |-> FALSE]

DeviceInit ==
  /\ module \in {[kind |-> k, closing |-> FALSE, closed |-> FALSE, loaded |-> TRUE, shut |-> FALSE,
                  left |-> {}] : k \in {"sdf", "pkcs11"}}
  /\ session = [r \in Requests |-> NoSession]
  /\ actor = [a \in Actors |-> Resting]
  /\ pins = [k \in PinnedKeys |-> NotPinned]
  /\ held = [identity |-> "first", keys |-> [k \in PinnedKeys |-> "described"]]
  /\ hiccups = 0

Hiccup == hiccups < MaxDeviceFaults /\ hiccups' = hiccups + 1
Sdf == module.kind = "sdf"
At(a, pcs) == actor[a].pc \in pcs
Moves(a, to) == actor' = [actor EXCEPT ![a].pc = to]

------------------------------------------------------------------------
\* sync.RWMutex: a waiting writer keeps new readers out.
Reading == {"probing", "running", "ending"}
Writing == {"open", "unregister", "shut", "unload"}
ReadLock == \A a \in Actors : ~At(a, Writing) \/ (At(a, {"open"}) /\ ~Sdf)

\* Faulty: Close does not wait for the calls under way.
WriteLockAtOnce == TRUE

WriteLock == \A a \in Actors : ~At(a, Reading)

\* nativeSession.mu; the PKCS#11 sessions have none.
FreeFor(a) == ~Sdf \/ session[actor[a].s].mutex = {}

Refuses == module.closing \/ module.closed \/ ~module.loaded

------------------------------------------------------------------------
\* Requests.  A request reads the keys of its items one after the other, each in a
\* session of its own; "kek" imports a wrapped SM4 key.
ItemsOf(op) ==
  CASE op = "Health" -> {{"health"}}   \* and Random, which makes the same calls
    [] op \in {"PublicKey", "Sign"} -> {{k} : k \in PinnedKeys}
    [] op = "SM4Session" -> {{"kek"}}
    [] op = "ExportRecoveryBundle" -> {PinnedKeys}
    [] op = "RestoreRecoveryBundle" -> {PinnedKeys, PinnedKeys \cup {"kek"}}
SdfOnly == {"SM4Session", "RestoreRecoveryBundle", "ExportRecoveryBundle"}

\* The end of a request.
Settled(r) ==
  /\ actor' = [actor EXCEPT ![r] = Resting, ![Cleaner(r)] = IF @.pc = "idle" THEN Resting ELSE @]
  /\ session' = IF At(Cleaner(r), {"idle"}) /\ actor[Closer].s # r /\ r \notin module.left
                THEN [session EXCEPT ![r] = NoSession] ELSE session

Begin(r, op) ==
  /\ actor[r].pc = "idle" /\ actor[Cleaner(r)].pc = "idle"
  /\ op \in SdfOnly => Sdf
  /\ \E items \in ItemsOf(op) :
       actor' = [actor EXCEPT ![r] = [Resting EXCEPT !.pc = "probe", !.op = op, !.s = r, !.items = items]]
  /\ UNCHANGED <<module, session, pins, held, hiccups>>

\* discover, identity and capabilities: native calls under the read lock.
Probe(r) ==
  /\ At(r, {"probe"}) /\ ReadLock
  /\ IF Refuses THEN Settled(r) ELSE Moves(r, "probing") /\ UNCHANGED session
  /\ UNCHANGED <<module, pins, held, hiccups>>

Probed(r) ==
  /\ At(r, {"probing"})
  /\ \/ /\ held.identity = "first" /\ ~module.shut
        /\ Moves(r, "open") /\ UNCHANGED <<session, hiccups>>
     \/ (held.identity # "first" \/ module.shut) /\ Settled(r) /\ UNCHANGED hiccups
     \/ Settled(r) /\ Hiccup
  /\ UNCHANGED <<module, pins, held>>

\* OpenSession: the SDF backend registers the session under the write lock.
OpenSession(r) ==
  /\ At(r, {"open"}) /\ IF Sdf THEN WriteLock ELSE ReadLock
  /\ \/ /\ ~Refuses /\ UNCHANGED hiccups
        /\ session' = [session EXCEPT ![r] = [NoSession EXCEPT !.native = "open", !.registered = Sdf]]
        /\ Moves(r, "call")
     \/ Refuses /\ Settled(r) /\ UNCHANGED hiccups
     \/ ~Refuses /\ Hiccup /\ Settled(r)
  /\ UNCHANGED <<module, pins, held>>

\* nativeSession.call: the session's mutex, the read lock, the checks.
TakeSession(a) ==
  /\ At(a, {"call", "ended"}) /\ FreeFor(a)
  /\ session' = [session EXCEPT ![actor[a].s].mutex = IF Sdf THEN {a} ELSE @]
  /\ Moves(a, IF actor[a].pc = "call" THEN "enter" ELSE "close")
  /\ UNCHANGED <<module, pins, held, hiccups>>

Unlocked(a) == [session EXCEPT ![actor[a].s].mutex = {}]

\* The item that the session is for.
ItemOf(a) == IF actor[a].items \subseteq {"kek"} THEN "kek"
             ELSE CHOOSE i \in actor[a].items \ {"kek"} : TRUE
requireAccepted(read) == \A p \in read : pins[p[1]] = p[2]

\* What follows a native call: Sign checks the pin and signs in the same session;
\* an SM4 session is used and then handed to CloseContext, whose goroutine
\* destroys the key and closes the session; every other session is closed.
AfterCall(a, failed, read) ==
  LET me == [actor[a] EXCEPT !.failed = failed, !.read = read]
  IN CASE failed \/ a \notin Requests -> {[actor EXCEPT ![a] = [me EXCEPT !.pc = "once"]]}
       [] me.op = "Sign" /\ me.calls = 0 ->
            {IF requireAccepted(read) THEN [actor EXCEPT ![a] = [me EXCEPT !.pc = "call", !.calls = 1]]
             ELSE [actor EXCEPT ![a] = [me EXCEPT !.pc = "once", !.failed = TRUE]]}
       [] ItemOf(a) = "kek" ->
            {[actor EXCEPT ![a] = [me EXCEPT !.pc = "waiting"],
                           ![Cleaner(a)] = [Resting EXCEPT !.pc = "call", !.s = a]]}
            \cup IF me.op = "SM4Session" /\ me.calls = 0
                 THEN {[actor EXCEPT ![a] = [me EXCEPT !.pc = "call", !.calls = 1]]} ELSE {}
       [] OTHER -> {[actor EXCEPT ![a] = [me EXCEPT !.pc = "once"]]}

Enter(a) ==
  /\ At(a, {"enter"}) /\ ReadLock
  /\ IF Refuses \/ session[actor[a].s].native # "open"
     THEN session' = Unlocked(a) /\ actor' \in AfterCall(a, TRUE, actor[a].read)
     ELSE Moves(a, "running") /\ UNCHANGED session
  /\ UNCHANGED <<module, pins, held, hiccups>>

CallEnds(a) ==
  /\ At(a, {"running"})
  /\ UNCHANGED <<module, pins, held>>
  /\ \/ /\ UNCHANGED hiccups
        /\ session' = Unlocked(a)
        /\ actor' \in AfterCall(a, FALSE, IF a \in Requests /\ ItemOf(a) \in PinnedKeys
                                         THEN actor[a].read \cup {<<ItemOf(a), held.keys[ItemOf(a)]>>}
                                         ELSE actor[a].read)
     \/ /\ Hiccup
        /\ session' = Unlocked(a)
        /\ actor' \in AfterCall(a, TRUE, actor[a].read)

\* CloseContext returns when the goroutine is done or the context ends.
CloseContext(r) ==
  /\ At(r, {"waiting"})
  /\ IF At(Cleaner(r), {"idle"}) /\ ~actor[Cleaner(r)].failed
     THEN Moves(r, "next") /\ UNCHANGED session
     ELSE Settled(r)
  /\ UNCHANGED <<module, pins, held, hiccups>>

------------------------------------------------------------------------
\* After a session the goroutine ends, the backend takes the next one, and the
\* request its next item.
AfterSession(a) == IF -a \in Requests THEN "idle" ELSE "next"

\* A request ignores that closing failed.
Closed(a, failing) ==
  [actor EXCEPT ![a].pc = IF Sdf THEN "unregister" ELSE AfterSession(a),
                ![a].failed = @ \/ (failing /\ a \notin Requests)]

\* nativeSession.Close, by its owner, by CloseContext or by the backend: one of
\* them closes, the others wait, and each takes the session off the registry.
CloseOnce(a) ==
  /\ At(a, {"once"}) /\ session[actor[a].s].once # "closing"
  /\ IF session[actor[a].s].once = "closed"
     THEN actor' = Closed(a, session[actor[a].s].native = "leaked") /\ UNCHANGED session
     ELSE /\ session' = [session EXCEPT ![actor[a].s].once = "closing"]
          /\ Moves(a, "ended")
  /\ UNCHANGED <<module, pins, held, hiccups>>

CloseBegins(a) ==
  /\ At(a, {"close"}) /\ ReadLock
  /\ Moves(a, IF module.closed THEN "closed" ELSE "ending")
  /\ UNCHANGED <<module, session, pins, held, hiccups>>

CloseEnds(a) ==
  /\ At(a, {"ending", "closed"})
  /\ \E native \in {"closed", "leaked"} :
       /\ IF native = "leaked" THEN At(a, {"ending"}) /\ Hiccup ELSE UNCHANGED hiccups
       /\ session' = [Unlocked(a) EXCEPT ![actor[a].s].once = "closed", ![actor[a].s].native = native]
       /\ actor' = Closed(a, native = "leaked")
  /\ UNCHANGED <<module, pins, held>>

Unregister(a) ==
  /\ At(a, {"unregister"}) /\ WriteLock
  /\ session' = [session EXCEPT ![actor[a].s].registered = FALSE]
  /\ Moves(a, AfterSession(a))
  /\ UNCHANGED <<module, pins, held, hiccups>>

------------------------------------------------------------------------
NextItem(r) ==
  /\ At(r, {"next"}) /\ (Cardinality(actor[r].items) > 1 \/ actor[r].failed)
  /\ IF actor[r].failed \/ \E p \in actor[r].read : p[2] # "described"
     THEN Settled(r)
     ELSE /\ actor' = [actor EXCEPT ![r].pc = "probe", ![r].items = @ \ {ItemOf(r)}]
          /\ UNCHANGED session
  /\ UNCHANGED <<module, pins, held, hiccups>>

\* acceptPublicKey and acceptPublicKeysAtomically: all of the keys or none.
acceptPublicKeys(read) ==
  IF \A p \in read : pins[p[1]] \in {NotPinned, p[2]}
  THEN [k \in PinnedKeys |-> IF \E p \in read : p[1] = k THEN (CHOOSE p \in read : p[1] = k)[2] ELSE pins[k]]
  ELSE pins

Accept(r) ==
  /\ At(r, {"next"}) /\ Cardinality(actor[r].items) = 1 /\ ~actor[r].failed
  /\ pins' = CASE actor[r].op = "PublicKey" -> acceptPublicKeys(actor[r].read)
               [] /\ actor[r].op = "RestoreRecoveryBundle" /\ ~module.shut
                  /\ \A p \in actor[r].read : p[2] = "described" -> acceptPublicKeys(actor[r].read)
               [] OTHER -> pins
  /\ Settled(r)
  /\ UNCHANGED <<module, held, hiccups>>

------------------------------------------------------------------------
\* Plugin.Close and the backend's.
PluginClose ==
  /\ actor[Closer].pc = "idle" /\ ~module.shut
  /\ module' = [module EXCEPT !.shut = TRUE]
  /\ Moves(Closer, IF Sdf THEN "shut" ELSE "unload")
  /\ UNCHANGED <<session, pins, held, hiccups>>

Shut ==
  /\ At(Closer, {"shut"}) /\ WriteLock
  /\ module' = [module EXCEPT !.closing = TRUE, !.left = {r \in Requests : session[r].registered}]
  /\ Moves(Closer, "next")
  /\ UNCHANGED <<session, pins, held, hiccups>>

CloseNext ==
  /\ At(Closer, {"next"})
  /\ IF module.left = {} THEN Moves(Closer, "unload") /\ UNCHANGED module
     ELSE \E r \in module.left :
            /\ module' = [module EXCEPT !.left = @ \ {r}]
            /\ actor' = [actor EXCEPT ![Closer].pc = "once", ![Closer].s = r]
  /\ UNCHANGED <<session, pins, held, hiccups>>

MayUnload == Sdf => ~actor[Closer].failed /\ \A r \in Requests : ~session[r].registered

\* The device is closed and the module unloaded; with PKCS#11 the sessions end
\* with the module.  A failure leaves the module loaded.
Unload ==
  /\ At(Closer, {"unload"}) /\ WriteLock
  /\ \/ /\ MayUnload /\ UNCHANGED hiccups
        /\ module' = [module EXCEPT !.closed = TRUE, !.loaded = FALSE]
        /\ session' = IF Sdf THEN session
                      ELSE [r \in Requests |-> IF session[r].native = "open"
                                               THEN [session[r] EXCEPT !.native = "closed"] ELSE session[r]]
     \/ MayUnload /\ Sdf /\ Hiccup /\ module' = [module EXCEPT !.closed = TRUE] /\ UNCHANGED session
     \/ ~MayUnload /\ module' = [module EXCEPT !.closed = TRUE] /\ UNCHANGED <<session, hiccups>>
  /\ actor' = [actor EXCEPT ![Closer] = Resting]
  /\ UNCHANGED <<pins, held>>

\* The device is replaced, or a key in it.
DeviceChanges ==
  /\ Hiccup
  /\ \/ held' = [held EXCEPT !.identity = "second"]
     \/ \E k \in PinnedKeys : held' = [held EXCEPT !.keys[k] = "rotated"]
  /\ UNCHANGED <<module, session, actor, pins>>

------------------------------------------------------------------------
Serve(a) == TakeSession(a) \/ Enter(a) \/ CallEnds(a) \/ CloseOnce(a) \/ CloseBegins(a) \/ CloseEnds(a)
            \/ Unregister(a)
DeviceSteps ==
  \/ \E a \in Actors : Serve(a)
  \/ \E r \in Requests : Probe(r) \/ Probed(r) \/ OpenSession(r) \/ CloseContext(r) \/ NextItem(r) \/ Accept(r)
  \/ Shut \/ CloseNext \/ Unload
DeviceNext ==
  \/ DeviceSteps \/ PluginClose \/ DeviceChanges
  \/ \E r \in Requests, op \in UNION {OpsOf[q] : q \in Requests} : op \in OpsOf[r] /\ Begin(r, op)
DeviceSpec == DeviceInit /\ [][DeviceNext]_deviceVars

------------------------------------------------------------------------
Using(s) == {a \in Actors : actor[a].s = s /\ At(a, {"running", "ending"})}

\* The native backends: a call runs in an open session of a loaded module, calls
\* of one SDF session never overlap, its close included, a module is unloaded
\* after its sessions, and requests, cleanup and Close never wait in a circle.
DevicesSound ==
  /\ \A a \in Actors : At(a, Reading) => module.loaded
  /\ \A a \in Actors : At(a, {"running", "ending"}) => session[actor[a].s].native = "open"
  /\ Sdf => \A s \in Requests : Cardinality(Using(s)) <= 1
  /\ ~module.loaded => \A s \in Requests : session[s].native # "open"
  /\ (\E a \in Actors : ~At(a, {"idle"})) => ENABLED DeviceSteps

========================================================================
