--------------------------- MODULE SignerHost ---------------------------
(***************************************************************************)
(* Signing with a key kept in a device: callers of one provider            *)
(* (keydescriptor.PluginSignerProvider) share a supervised child process   *)
(* (signerplugin.Process), which serves the signer plugin                  *)
(* (signerplugin.pluginServer over the SDF or the PKCS#11 plugin).         *)
(* The provider starts a child when it has none, binds the keys of the     *)
(* signers it handed out again, closes a child it cannot trust to answer,  *)
(* and gives up for ever on one that breaks the protocol.                  *)
(***************************************************************************)
EXTENDS Integers, FiniteSets

CONSTANTS
  Callers,          \* goroutines that resolve signers and sign
  SignerKeys,       \* key descriptors
  MaxChildren,      \* bound: children at one time; an ended one is forgotten
  PluginMaxSigns,   \* MaxConcurrentSigns that the plugin advertises
  HostMaxSigns,     \* HostMaxConcurrentSigns, 0 for none
  MaxBackoff,       \* maxPluginRestartBackoff, in initial delays
  MaxFaults         \* bound: failures of children, devices and calls

VARIABLES
  host,     \* the provider: fields under its mutex, and who holds the mutex
  child,    \* the child processes
  call,     \* what each caller is doing
  pubs,     \* the public key that the device holds for a key handle
  faults    \* failures that happened

signerVars == <<host, child, call, pubs, faults>>

Nobody == "nobody"
Unpinned == "unpinned"
Described == "described"   \* the public key in the key's descriptor
Rotated == "rotated"       \* another key that the device may come to hold
Bad == "bad"               \* bytes of the right length that verify under no key

IdleCall == [pc |-> "idle", op |-> "none", key |-> "none", child |-> 0, job |-> "none",
             pub |-> Unpinned, left |-> {}, answer |-> Unpinned]
NoChild == [state |-> "dead", conn |-> FALSE, closing |-> FALSE, info |-> "none",
            pins |-> [k \in SignerKeys |-> Unpinned], orphans |-> 0]

SignerInit ==
  /\ host \in {[provider |-> p, lock |-> Nobody, process |-> 0, identity |-> "none",
                tracked |-> [k \in SignerKeys |-> Unpinned], closed |-> FALSE,
                compromised |-> FALSE, backoff |-> 0, delayed |-> FALSE] : p \in {"sdf", "pkcs11"}}
  /\ child = [i \in 1..MaxChildren |-> NoChild]
  /\ call = [c \in Callers |-> IdleCall]
  /\ pubs = [k \in SignerKeys |-> Described]
  /\ faults = 0

Fault == faults < MaxFaults /\ faults' = faults + 1
Answer(c, sig) == call' = [call EXCEPT ![c] = [IdleCall EXCEPT !.answer = sig]]
Fails(c) == Answer(c, Unpinned)
Goto(c, at) == call' = [call EXCEPT ![c].pc = at]
Alive(i) == child[i].state # "dead"
Ended(i) == [child EXCEPT ![i] = [NoChild EXCEPT !.closing = child[i].closing]]

------------------------------------------------------------------------
\* The process: slots, server and plugin.
Concurrency == IF HostMaxSigns > 0 /\ HostMaxSigns < PluginMaxSigns THEN HostMaxSigns ELSE PluginMaxSigns
SlotsTaken(i) == Cardinality({c \in Callers : call[c].pc = "rpc" /\ call[c].child = i})
Running(i) == child[i].orphans + Cardinality({c \in Callers : call[c].child = i /\ call[c].job = "running"})

\* Faulty: the server relies on the host's slots.
ServerHasSlotAlways(i) == TRUE

\* signerplugin.pluginServer.Sign waits for a slot of its own.
ServerHasSlot(i) == Running(i) < PluginMaxSigns

acceptPublicKey(i, k) == child[i].pins[k] \in {Unpinned, pubs[k]}
requireAcceptedPublicKey(i, k) == child[i].pins[k] = pubs[k]
Pinned(i, k) == [child EXCEPT ![i].pins[k] = pubs[k]]

------------------------------------------------------------------------
\* The provider's fields.
scheduleRestartLocked(h) ==
  [h EXCEPT !.backoff = IF @ = 0 THEN 1 ELSE IF 2 * @ > MaxBackoff THEN MaxBackoff ELSE 2 * @,
            !.delayed = TRUE]

HasLock(c) == host.lock = Nobody
Released(h) == [h EXCEPT !.lock = Nobody]

ResolveSigner(c, k) ==
  /\ call[c].pc = "idle"
  /\ call' = [call EXCEPT ![c] = [IdleCall EXCEPT !.pc = "acquire", !.op = "resolve", !.key = k]]
  /\ UNCHANGED <<host, child, pubs, faults>>

\* pluginSigner.Sign: the signer exists once its key was tracked.
SignMessage(c, k) ==
  /\ call[c].pc = "idle" /\ host.tracked[k] # Unpinned
  /\ call' = [call EXCEPT ![c] = [IdleCall EXCEPT !.pc = "acquire", !.op = "sign", !.key = k]]
  /\ UNCHANGED <<host, child, pubs, faults>>

\* getProcess until it has a child or starts one, which it does with the mutex held.
GetProcess(c) ==
  /\ call[c].pc = "acquire" /\ HasLock(c)
  /\ UNCHANGED <<pubs, faults>>
  /\ \/ Fails(c) /\ UNCHANGED <<host, child>>         \* the caller's context is done
     \/ (host.closed \/ host.compromised) /\ Fails(c) /\ UNCHANGED <<host, child>>
     \/ /\ ~host.closed /\ ~host.compromised
        /\ \/ /\ host.process # 0 /\ Alive(host.process)
              /\ call' = [call EXCEPT ![c].pc = "call", ![c].child = host.process]
              /\ UNCHANGED <<host, child>>
           \/ /\ host.process # 0 /\ ~Alive(host.process)
              /\ host' = scheduleRestartLocked([host EXCEPT !.process = 0])
              /\ Fails(c) /\ UNCHANGED child
           \/ /\ host.process = 0 /\ host.delayed
              /\ Fails(c) /\ UNCHANGED <<host, child>>
           \/ /\ host.process = 0 /\ ~host.delayed
              /\ \E i \in {j \in 1..MaxChildren : ~Alive(j) /\ \A d \in Callers : call[d].child # j} :
                   /\ child' = [child EXCEPT ![i] = [NoChild EXCEPT !.state = "starting", !.conn = TRUE]]
                   /\ call' = [call EXCEPT ![c].pc = "starting", ![c].child = i]
              /\ host' = [host EXCEPT !.lock = c]

\* StartProcess fails, or what it started is refused: the child is closed and
\* has ended before the mutex is released.
StartFails(c, h) ==
  /\ child' = Ended(call[c].child)
  /\ host' = Released(h)
  /\ Fails(c)

StartProcess(c) ==
  /\ call[c].pc = "starting" /\ UNCHANGED pubs
  /\ \/ StartFails(c, host) /\ UNCHANGED faults                                \* context done
     \/ Fault /\ StartFails(c, scheduleRestartLocked(host))                    \* timeout, exit, health
     \/ Fault /\ StartFails(c, [host EXCEPT !.compromised = TRUE])             \* protocol violation
     \/ \E info \in {"first", "drifted", "other_kind"} :
          /\ IF info = "first" THEN UNCHANGED faults ELSE Fault
          /\ IF info = "other_kind" \/ host.identity \notin {"none", info}
             THEN StartFails(c, [host EXCEPT !.compromised = TRUE])
             ELSE /\ host' = [host EXCEPT !.identity = info]
                  /\ child' = [child EXCEPT ![call[c].child].state = "serving",
                                            ![call[c].child].info = info]
                  /\ call' = [call EXCEPT ![c].pc = "rebinding",
                                          ![c].left = {k \in SignerKeys : host.tracked[k] # Unpinned}]

\* One turn of the loop that reads the public key of every tracked key.
Rebind(c) ==
  /\ call[c].pc = "rebinding" /\ UNCHANGED pubs
  /\ \E k \in call[c].left :
       \/ StartFails(c, host) /\ UNCHANGED faults                              \* context done
       \/ /\ Alive(call[c].child) /\ Fault
          /\ \/ StartFails(c, scheduleRestartLocked(host))                     \* transient
             \/ StartFails(c, [host EXCEPT !.compromised = TRUE])              \* permanent, protocol
       \/ /\ ~Alive(call[c].child) /\ UNCHANGED faults
          /\ StartFails(c, scheduleRestartLocked(host))
       \/ /\ Alive(call[c].child) /\ UNCHANGED faults
          /\ IF acceptPublicKey(call[c].child, k) /\ pubs[k] = host.tracked[k]
             THEN /\ child' = Pinned(call[c].child, k)
                  /\ call' = [call EXCEPT ![c].left = @ \ {k}]
                  /\ UNCHANGED host
             ELSE StartFails(c, [host EXCEPT !.compromised = TRUE])

AdoptProcess(c) ==
  /\ call[c].pc = "rebinding" /\ call[c].left = {}
  /\ host' = Released([host EXCEPT !.process = call[c].child, !.delayed = FALSE])
  /\ Goto(c, "call")
  /\ UNCHANGED <<child, pubs, faults>>

------------------------------------------------------------------------
\* How a failed call ends: processError.
Ends(c, how) ==
  CASE how = "returned" -> Fails(c)
    [] how = "restart" -> call' = [call EXCEPT ![c].pc = "invalidate", ![c].job = "none"]
    [] how = "protocol" -> call' = [call EXCEPT ![c].pc = "compromise", ![c].job = "none"]

\* A closed connection answers Canceled, a lost child Unavailable.
Disconnected(c) ==
  /\ ~child[call[c].child].conn \/ ~Alive(call[c].child)
  /\ Ends(c, IF child[call[c].child].closing THEN "returned" ELSE "restart")

GetPublicKey(c) ==
  /\ call[c].pc = "call" /\ call[c].op = "resolve"
  /\ UNCHANGED <<host, pubs>>
  /\ LET i == call[c].child
         k == call[c].key
     IN \/ Fails(c) /\ UNCHANGED <<child, faults>>                   \* caller canceled
        \/ Disconnected(c) /\ UNCHANGED <<child, faults>>
        \/ Fault /\ UNCHANGED child /\ \E how \in {"returned", "restart", "protocol"} : Ends(c, how)
        \/ /\ child[i].conn /\ Alive(i) /\ UNCHANGED faults
           /\ IF acceptPublicKey(i, k)
              THEN child' = Pinned(i, k) /\ Goto(c, IF pubs[k] = Described THEN "track" ELSE "compromise")
              ELSE Fails(c) /\ UNCHANGED child

TrackKey(c) ==
  /\ call[c].pc = "track" /\ HasLock(c)
  /\ host' = [host EXCEPT !.tracked[call[c].key] = Described]
  /\ Answer(c, Unpinned)
  /\ UNCHANGED <<child, pubs, faults>>

\* Process.Sign: a slot of the host, or a deadline that never reached the child.
AcquireSlot(c) ==
  /\ call[c].pc = "call" /\ call[c].op = "sign"
  /\ \/ SlotsTaken(call[c].child) < Concurrency
        /\ call' = [call EXCEPT ![c].pc = "rpc", ![c].job = "queued"]
     \/ Fails(c)
  /\ UNCHANGED <<host, child, pubs, faults>>

\* pluginServer.Sign and the plugin's checks in the session that will sign.
ServerSign(c) ==
  /\ call[c].pc = "rpc" /\ call[c].job = "queued"
  /\ child[call[c].child].conn /\ Alive(call[c].child) /\ ServerHasSlot(call[c].child)
  /\ call' = [call EXCEPT ![c].job = IF requireAcceptedPublicKey(call[c].child, call[c].key)
                                     THEN "running" ELSE "refused",
                          ![c].pub = pubs[call[c].key]]
  /\ UNCHANGED <<host, child, pubs, faults>>

\* The device signs.  The SDF plugin addresses the key by index and verifies the
\* result itself; the PKCS#11 plugin signs with the object it looked up.
DeviceSign(c) ==
  /\ call[c].job = "running" /\ Alive(call[c].child)
  /\ UNCHANGED <<host, child, pubs>>
  /\ \/ /\ UNCHANGED faults
        /\ call' = [call EXCEPT ![c].job = IF host.provider = "sdf" /\ pubs[call[c].key] # call[c].pub
                                           THEN "refused" ELSE "signed"]
     \/ /\ Fault
        /\ \/ \E r \in {"refused", "unavailable", "malformed"} : call' = [call EXCEPT ![c].job = r]
           \/ call' = [call EXCEPT ![c].job = IF host.provider = "sdf" THEN "refused" ELSE "signed",
                                   ![c].pub = Bad]

SignReply(c) ==
  /\ call[c].pc = "rpc" /\ child[call[c].child].conn
  /\ \/ call[c].job = "refused" /\ Ends(c, "returned")
     \/ call[c].job = "unavailable" /\ Ends(c, "restart")
     \/ call[c].job = "malformed" /\ Ends(c, "protocol")
     \/ call[c].job = "signed" /\ call' = [call EXCEPT ![c].pc = "verify", ![c].job = "none"]
  /\ UNCHANGED <<host, child, pubs, faults>>

\* The host stops waiting: deadline or cancellation.  A native call goes on in
\* the child and keeps the server's slot.
Abandon(c) ==
  /\ call[c].pc = "rpc"
  /\ child' = [child EXCEPT ![call[c].child].orphans =
                 IF Alive(call[c].child) /\ call[c].job = "running" THEN @ + 1 ELSE @]
  /\ \E how \in {"returned", "restart"} : Ends(c, how)
  /\ UNCHANGED <<host, pubs, faults>>

RpcDisconnected(c) ==
  /\ call[c].pc = "rpc" /\ Disconnected(c)
  /\ child' = [child EXCEPT ![call[c].child].orphans =
                 IF Alive(call[c].child) /\ call[c].job = "running" THEN @ + 1 ELSE @]
  /\ UNCHANGED <<host, pubs, faults>>

\* VerifySignatureForSuite with the descriptor's key, then markSuccessfulSign.
Verifies(pub) == pub = Described

VerifySignature(c) ==
  /\ call[c].pc = "verify" /\ UNCHANGED <<child, pubs, faults>>
  /\ \/ Fails(c) /\ UNCHANGED host                                   \* caller canceled
     \/ ~Verifies(call[c].pub) /\ Goto(c, "compromise") /\ UNCHANGED host
     \/ /\ Verifies(call[c].pub) /\ HasLock(c)
        /\ host' = IF host.process = call[c].child /\ ~host.compromised
                   THEN [host EXCEPT !.backoff = 0, !.delayed = FALSE] ELSE host
        /\ Answer(c, call[c].pub)

------------------------------------------------------------------------
\* Closing a child.
Invalidate(c) ==
  /\ call[c].pc = "invalidate" /\ HasLock(c)
  /\ host' = IF host.process = call[c].child
             THEN scheduleRestartLocked([host EXCEPT !.process = 0]) ELSE host
  /\ Goto(c, "closing") /\ UNCHANGED <<child, pubs, faults>>

Compromise(c) ==
  /\ call[c].pc = "compromise" /\ HasLock(c)
  /\ host' = [host EXCEPT !.process = IF @ = call[c].child THEN 0 ELSE @, !.compromised = TRUE]
  /\ Goto(c, "closing") /\ UNCHANGED <<child, pubs, faults>>

CloseProvider(c) ==
  /\ call[c].pc = "idle" /\ HasLock(c) /\ ~host.closed
  /\ host' = [host EXCEPT !.closed = TRUE, !.process = 0]
  /\ call' = IF host.process = 0 THEN call
             ELSE [call EXCEPT ![c] = [IdleCall EXCEPT !.pc = "closing", !.op = "close",
                                                       !.child = host.process]]
  /\ UNCHANGED <<child, pubs, faults>>

\* Process.Close: once; the connection first, then an interrupt.
CloseProcess(c) ==
  /\ call[c].pc = "closing"
  /\ IF Alive(call[c].child)
     THEN /\ child' = [child EXCEPT ![call[c].child].conn = FALSE, ![call[c].child].closing = TRUE]
          /\ Goto(c, "awaiting")
     ELSE Fails(c) /\ UNCHANGED child
  /\ UNCHANGED <<host, pubs, faults>>

\* killAndWait after the shutdown timeout, or the child has gone by itself.
AwaitExit(c) ==
  /\ call[c].pc = "awaiting"
  /\ child' = Ended(call[c].child)
  /\ Fails(c) /\ UNCHANGED <<host, pubs, faults>>

\* The interrupted child stops once its calls are done (GracefulStop).
ChildStops(i) ==
  /\ Alive(i) /\ child[i].closing /\ Running(i) = 0
  /\ child' = Ended(i) /\ UNCHANGED <<host, call, pubs, faults>>

ChildCrashes(i) ==
  /\ Alive(i) /\ Fault
  /\ child' = Ended(i) /\ UNCHANGED <<host, call, pubs>>

OrphanEnds(i) ==
  /\ child[i].orphans > 0
  /\ child' = [child EXCEPT ![i].orphans = @ - 1]
  /\ UNCHANGED <<host, call, pubs, faults>>

DelayElapses ==
  /\ host.delayed /\ host' = [host EXCEPT !.delayed = FALSE]
  /\ UNCHANGED <<child, call, pubs, faults>>

Rotate(k) ==
  /\ Fault /\ pubs' = [pubs EXCEPT ![k] = Rotated]
  /\ UNCHANGED <<host, child, call>>

------------------------------------------------------------------------
Locks(c) == GetProcess(c) \/ TrackKey(c) \/ Invalidate(c) \/ Compromise(c) \/ VerifySignature(c)
Works(c) == StartProcess(c) \/ Rebind(c) \/ AdoptProcess(c) \/ GetPublicKey(c) \/ AcquireSlot(c)
            \/ SignReply(c) \/ Abandon(c) \/ RpcDisconnected(c) \/ CloseProcess(c) \/ AwaitExit(c)

SignerNext ==
  \/ \E c \in Callers :
       \/ \E k \in SignerKeys : ResolveSigner(c, k) \/ SignMessage(c, k)
       \/ Locks(c) \/ Works(c) \/ ServerSign(c) \/ DeviceSign(c) \/ CloseProvider(c)
  \/ \E i \in 1..MaxChildren : ChildStops(i) \/ ChildCrashes(i) \/ OrphanEnds(i)
  \/ DelayElapses
  \/ \E k \in SignerKeys : Rotate(k)

SignerSpec == SignerInit /\ [][SignerNext]_signerVars

------------------------------------------------------------------------
\* Neither calls that the host has given up on nor the slots of several hosts'
\* children let a plugin run more native signatures than it said it can.
SignsBounded == \A i \in 1..MaxChildren : Alive(i) => Running(i) <= PluginMaxSigns

\* A child outlives neither its provider nor the caller that gave it up.
ChildrenAreOwned ==
  \A i \in 1..MaxChildren : Alive(i) => host.process = i \/ \E c \in Callers : call[c].child = i

\* Whoever waits, for the mutex, a slot, a reply or the end of a child, waits for
\* somebody who can go on without help from the child or the device.
SomeoneMoves == (\E c \in Callers : call[c].pc # "idle") => ENABLED (\E c \in Callers : Locks(c) \/ Works(c))

\* PluginSignerProvider: a signature handed out verifies under the described
\* key, whatever the device, an old child or a restart made of it; signing stays
\* within the plugin's limit, children do not leak, and nobody is stuck.
SigningSound ==
  /\ \A c \in Callers : call[c].answer \in {Unpinned, Described}
  /\ SignsBounded
  /\ ChildrenAreOwned
  /\ SomeoneMoves

========================================================================
