----------------------------- MODULE KeyRegistry -----------------------------
(***************************************************************************)
(* The client key registry (internal/keystore/registry.go): a file of      *)
(* hash-chained, signed events that the server appends to on behalf of the *)
(* key API (internal/adminweb/keys.go) and that the key commands of the    *)
(* CLI append to as processes of their own (cmd/trustdb/key_cmd.go).  No   *)
(* lock excludes one writer while another has the file open.  The server   *)
(* admits a claim when its key is valid at the time of receipt, and asks   *)
(* the registry again for the same instant when it replays the WAL after a *)
(* restart (internal/app/local.go).                                        *)
(*                                                                         *)
(* An event's hash is the list of events up to it, so a frame carries the  *)
(* events its writer had in memory.  A frame is torn when only the first   *)
(* part of it reached the file.                                            *)
(***************************************************************************)
EXTENDS Integers, Sequences, SequencesExt, FiniteSets

CONSTANTS Keys, MaxRevocationClockSkew,
          MaxInstant, MaxKeyEvents, MaxKeyFaults   \* bounds

ASSUME RegistryAssumption ==
    /\ MaxRevocationClockSkew \in Nat /\ MaxInstant \in Nat
    /\ MaxKeyEvents \in Nat /\ MaxKeyFaults \in Nat

VARIABLES
    frames,     \* the registry file after its manifest
    synced,     \* how many frames a power loss cannot take
    registry,   \* the open registry of each process: its events, or Closed
    online,     \* the server holds the registry's signer and offers the key API
    instant,    \* the clock
    pendingClaims,  \* claims accepted and not yet behind the WAL checkpoint
    startup,    \* how the server's last start ended
    ackedEvents,    \* events a caller was answered
    unsynced,       \* events whose frame was written and could not be synced
    staleAppend,    \* an append was made by a process that did not know the file
    keyFaults

fileVars == <<frames, synced>>
keyVars == <<frames, synced, registry, online, instant, pendingClaims, startup,
             ackedEvents, unsynced, staleAppend, keyFaults>>

Processes == {"server", "cli"}
Closed == [open |-> FALSE, events |-> << >>, failed |-> FALSE]
Opened(es) == [open |-> TRUE, events |-> es, failed |-> FALSE]
IsOpen(p) == registry[p].open
Memory(p) == registry[p].events

Register(k, at) == [type |-> "register", key |-> k, prev |-> k, at |-> at, by |-> "api"]
Rotate(old, k, at) == [type |-> "rotate", key |-> k, prev |-> old, at |-> at, by |-> "cli"]
Revoke(k, at, by) == [type |-> "revoke", key |-> k, prev |-> k, at |-> at, by |-> by]
Compromise(k, at) == [type |-> "compromise", key |-> k, prev |-> k, at |-> at, by |-> "cli"]

-----------------------------------------------------------------------------
(* What a list of events says.                                             *)

\* applyLocked: a registration or rotation starts the key's timeline, the
\* other events and the rotation to its successor are recorded in it.
Starts(es, k) == {i \in DOMAIN es : es[i].key = k /\ es[i].type \in {"register", "rotate"}}
Start(es, k) == CHOOSE i \in Starts(es, k) : \A j \in Starts(es, k) : j <= i
Retiring(es, k) ==
    {i \in DOMAIN es : /\ i > Start(es, k)
                       /\ \/ es[i].type \in {"revoke", "compromise"} /\ es[i].key = k
                          \/ es[i].type = "rotate" /\ es[i].prev = k}
Of(es, k, types) == {i \in Retiring(es, k) : es[i].type \in types}
Known(es, k) == Starts(es, k) # {}

\* LookupClientKeyAt succeeds.
Valid(es, k, t) ==
    /\ Known(es, k)
    /\ es[Start(es, k)].at <= t
    /\ \A i \in Retiring(es, k) : es[i].at > t

\* idempotentEventLocked: the same event is in the key's timeline.
Same(a, b) == [a EXCEPT !.by = ""] = [b EXCEPT !.by = ""]
Replay(es, e) == \E i \in DOMAIN es : Same(es[i], e)

\* Faulty: a key that is known can be registered once more.
ValidNextAnyRegistration(es, e) == TRUE

\* validateNextLocked.
ValidNext(es, e) ==
    \/ e.type = "register" /\ ~Known(es, e.key)
    \/ /\ e.type = "rotate" /\ ~Known(es, e.key) /\ Known(es, e.prev)
       /\ Of(es, e.prev, {"rotate", "revoke"}) = {}
       /\ e.at >= es[Start(es, e.prev)].at
    \/ /\ e.type = "revoke" /\ Known(es, e.key)
       /\ Of(es, e.key, {"rotate", "revoke"}) = {}
       /\ e.at >= es[Start(es, e.key)].at
    \/ /\ e.type = "compromise" /\ Known(es, e.key)
       /\ Of(es, e.key, {"compromise"}) = {}

-----------------------------------------------------------------------------
(* The file.                                                               *)

\* encodeFrame: an event that carries a key descriptor is the longer one.
Size(e) == IF e.type \in {"register", "rotate"} THEN 4 ELSE 2
Frame(es, e) == [after |-> es, event |-> e, bytes |-> Size(e)]
Torn(f) == f.bytes < Size(f.event)
Events(fs) == [i \in DOMAIN fs |-> fs[i].event]
Bytes(fs) == FoldSeq(LAMBDA f, n : f.bytes + n, 0, fs)

\* readRegistryStream: the frames before the first torn one; when the bytes
\* after it do not complete it, it is a partial tail, and otherwise its
\* checksum does not match.
FirstTorn(fs) ==
    LET torn == {i \in DOMAIN fs : Torn(fs[i])}
    IN  IF torn = {} THEN Len(fs) + 1 ELSE CHOOSE i \in torn : \A j \in torn : i <= j
Whole(fs) == SubSeq(fs, 1, FirstTorn(fs) - 1)
PartialTail(fs) ==
    LET i == FirstTorn(fs)
    IN  i <= Len(fs) /\ Bytes(SubSeq(fs, i, Len(fs))) < Size(fs[i].event)
ChecksumsMatch(fs) == FirstTorn(fs) > Len(fs) \/ PartialTail(fs)

\* loadEvent: sequence, hash chain and lifecycle.
ChainHolds(es, fs) ==
    \A i \in DOMAIN fs :
        /\ fs[i].after = SubSeq(es, 1, i - 1)
        /\ ValidNext(SubSeq(es, 1, i - 1), es[i])
Readable(fs) == ChecksumsMatch(fs) /\ ChainHolds(Events(Whole(fs)), Whole(fs))

-----------------------------------------------------------------------------
\* initializeRegistry has made the file: a manifest and no event.
KeyInit ==
    /\ frames = << >> /\ synced = 0
    /\ registry = [p \in Processes |-> Closed]
    /\ online \in BOOLEAN
    /\ instant = 0 /\ pendingClaims = {} /\ startup = "none"
    /\ ackedEvents = {} /\ unsynced = {} /\ staleAppend = FALSE /\ keyFaults = 0


\* truncateAndSync: a process with the signer removes a partial tail.
Repair(p) ==
    IF PartialTail(frames)
    THEN frames' = Whole(frames) /\ synced' = Len(Whole(frames))
    ELSE UNCHANGED fileVars

\* The server starts: Open, then the replay of the claims after the WAL
\* checkpoint, which fails when one of them is not admissible any more.
ServerStarts ==
    /\ ~IsOpen("server")
    /\ LET es == Events(Whole(frames))
           admissible == \A c \in pendingClaims : Valid(es, c.key, c.at)
       IN
       /\ IF Readable(frames) /\ online THEN Repair("server") ELSE UNCHANGED fileVars
       /\ startup' = IF ~Readable(frames) THEN "unreadable"
                     ELSE IF ~admissible THEN "replay failed" ELSE "ok"
       /\ registry' = [registry EXCEPT !["server"] =
              IF Readable(frames) /\ admissible THEN Opened(es) ELSE Closed]
    /\ UNCHANGED <<online, instant, pendingClaims, ackedEvents, unsynced,
                   staleAppend, keyFaults>>

ServerStops ==
    /\ IsOpen("server")
    /\ registry' = [registry EXCEPT !["server"] = Closed]
    /\ UNCHANGED <<fileVars, online, instant, pendingClaims, startup, ackedEvents,
                   unsynced, staleAppend, keyFaults>>

\* openRegistryForMutation: a key command starts.
CliOpens ==
    /\ ~IsOpen("cli") /\ Readable(frames)
    /\ Repair("cli")
    /\ registry' = [registry EXCEPT !["cli"] = Opened(Events(Whole(frames)))]
    /\ UNCHANGED <<online, instant, pendingClaims, startup, ackedEvents, unsynced,
                   staleAppend, keyFaults>>

\* The process does not know what the file holds: another one has written to
\* it, or an append has failed since it opened the registry.
IsStale(p) == registry[p].failed \/ Memory(p) # Events(Whole(frames))

\* appendAndSync succeeds: the frame is behind whatever the file holds.
Appended(p, e) ==
    /\ frames' = Append(frames, Frame(Memory(p), e)) /\ synced' = Len(frames) + 1
    /\ registry' = [registry EXCEPT ![p].events = Append(@, e)]
    /\ ackedEvents' = ackedEvents \cup {e}
    /\ staleAppend' = (staleAppend \/ IsStale(p))
    /\ UNCHANGED <<unsynced, keyFaults>>

\* appendAndSync fails after it wrote n bytes; nothing is taken back.
AppendFails(p, e, n) ==
    /\ keyFaults < MaxKeyFaults /\ keyFaults' = keyFaults + 1
    /\ frames' = Append(frames, [Frame(Memory(p), e) EXCEPT !.bytes = n])
    /\ staleAppend' = (staleAppend \/ IsStale(p))
    /\ unsynced' = IF n = Size(e) THEN unsynced \cup {e} ELSE unsynced
    /\ registry' = [q \in Processes |-> [registry[q] EXCEPT !.failed = IsOpen(q)]]
    /\ UNCHANGED <<synced, ackedEvents>>

\* appendEvent.
AppendEvent(p, e) ==
    \/ /\ Replay(Memory(p), e)
       /\ ackedEvents' = ackedEvents \cup {d \in ToSet(Memory(p)) : Same(d, e)}
       /\ UNCHANGED <<frames, synced, registry, unsynced, staleAppend, keyFaults>>
    \/ /\ ~Replay(Memory(p), e) /\ ValidNext(Memory(p), e)
       /\ Len(frames) < MaxKeyEvents
       /\ Appended(p, e) \/ \E n \in {1, Size(e)} : AppendFails(p, e, n)

\* postKeyRevoke: an identical revocation is answered from the registry, a
\* new one may lie at most the clock skew in the past.
RevokeOnline(k, at) ==
    /\ IsOpen("server") /\ online
    /\ Replay(Memory("server"), Revoke(k, at, "api")) \/ at + MaxRevocationClockSkew >= instant
    /\ AppendEvent("server", Revoke(k, at, "api"))
    /\ UNCHANGED <<online, instant, pendingClaims, startup>>

\* postKey.
RegisterOnline(k, at) ==
    /\ IsOpen("server") /\ online
    /\ AppendEvent("server", Register(k, at))
    /\ UNCHANGED <<online, instant, pendingClaims, startup>>

\* A key command appends its event and ends.
CliCommand(e) ==
    /\ IsOpen("cli")
    /\ AppendEvent("cli", e)
    /\ UNCHANGED <<online, instant, pendingClaims, startup>>

CliEnds ==
    /\ IsOpen("cli")
    /\ registry' = [registry EXCEPT !["cli"] = Closed]
    /\ UNCHANGED <<fileVars, online, instant, pendingClaims, startup, ackedEvents,
                   unsynced, staleAppend, keyFaults>>

\* resolveClientKey: a claim signed with the key is accepted now.
Accept(k) ==
    /\ IsOpen("server") /\ Valid(Memory("server"), k, instant)
    /\ pendingClaims' = pendingClaims \cup {[key |-> k, at |-> instant]}
    /\ UNCHANGED <<fileVars, registry, online, instant, startup, ackedEvents,
                   unsynced, staleAppend, keyFaults>>

\* The WAL checkpoint passes every claim accepted so far.
Checkpointed ==
    /\ IsOpen("server") /\ pendingClaims # {} /\ pendingClaims' = {}
    /\ UNCHANGED <<fileVars, registry, online, instant, startup, ackedEvents,
                   unsynced, staleAppend, keyFaults>>

\* A power loss: the frames that were not synced may be gone or torn.
PowerLoss ==
    /\ keyFaults < MaxKeyFaults /\ keyFaults' = keyFaults + 1
    /\ \E n \in synced .. Len(frames) : frames' = SubSeq(frames, 1, n)
    /\ registry' = [p \in Processes |-> Closed]
    /\ UNCHANGED <<synced, online, instant, pendingClaims, startup, ackedEvents, unsynced,
                   staleAppend>>

InstantPasses ==
    /\ instant < MaxInstant /\ instant' = instant + 1
    /\ UNCHANGED <<fileVars, registry, online, pendingClaims, startup, ackedEvents,
                   unsynced, staleAppend, keyFaults>>

Instants == 0 .. MaxInstant
KeyNext ==
    \/ ServerStarts \/ ServerStops \/ CliOpens \/ CliEnds
    \/ Checkpointed \/ PowerLoss \/ InstantPasses
    \/ \E k \in Keys : Accept(k)
    \/ \E k \in Keys, at \in Instants :
          \/ RegisterOnline(k, at) \/ RevokeOnline(k, at)
          \/ CliCommand(Register(k, at)) \/ CliCommand(Revoke(k, at, "cli"))
          \/ CliCommand(Compromise(k, at))
    \/ \E old \in Keys, k \in Keys, at \in Instants :
          old # k /\ CliCommand(Rotate(old, k, at))

KeySpec == KeyInit /\ [][KeyNext]_keyVars
-----------------------------------------------------------------------------
(* Properties.                                                             *)

\* As long as every append was made by a process that knew what the file
\* held, the registry opens after any failed append and any power loss, and
\* has every event that a caller was answered, except one whose own sync had
\* failed and that a retry found in the file.
RegistryReopens ==
    ~staleAppend =>
        /\ Readable(frames)
        /\ \A e \in ackedEvents \ unsynced : \E i \in 1 .. synced : frames[i].event = e

\* The key API cannot take back an accepted claim that is older than the
\* clock skew it allows: the server fails to replay its WAL only when an
\* operator's command retired a key in the past, or the API did within the
\* skew (or appends failed as above).
RestartsAfterOnlineChanges ==
    startup = "replay failed" /\ ~staleAppend /\ unsynced = {} =>
        \E i \in DOMAIN frames :
            LET e == frames[i].event IN
            \/ e.by = "cli"
            \/ /\ e.type = "revoke"
               /\ \E c \in pendingClaims :
                     c.key = e.key /\ e.at <= c.at /\ c.at - e.at <= MaxRevocationClockSkew


\* A key that is retired for an instant stays retired for it: no later event
\* (a second registration, a rotation back) makes it valid again.
RetiredStaysRetired ==
    [][\A k \in Keys, t \in Instants :
          LET old == registry["server"] new == registry'["server"] IN
          old.open /\ new.open /\ Known(old.events, k) /\ ~Valid(old.events, k, t)
              => ~Valid(new.events, k, t)]_keyVars

=============================================================================
