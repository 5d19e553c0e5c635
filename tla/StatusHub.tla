------------------------------ MODULE StatusHub ------------------------------
(***************************************************************************)
(* The status notification hub (internal/statusnotify/hub.go): selective   *)
(* subscriptions with one "refresh" bit each, a fixed flush tick that      *)
(* turns the bits into delivery jobs, a bounded job queue with workers     *)
(* that retry, live watchers with a channel of one, and a state file that  *)
(* is replaced whole.                                                      *)
(*                                                                         *)
(* Each subscription has one webhook and at most one watcher.  changes     *)
(* counts the status changes Notify reported for its records; told and     *)
(* seen are the changes the webhook and the watcher know of, since a       *)
(* receiver of a refresh reads the current status.  Retry back-off is one  *)
(* tick of the clock.                                                      *)
(***************************************************************************)
EXTENDS Integers, Sequences, FiniteSets

CONSTANTS
    Subs,               \* subscription IDs, each the digest of its create request
    MaxSubscriptions,   \* the limit of subscriptions (and of those of the upstream)
    TTL, QueueSize, DeliveryWorkers,
    Scenarios           \* bounds: [subs, time, changes, faults, watched]

ASSUME HubAssumption ==
    /\ MaxSubscriptions \in Nat /\ TTL \in Nat \ {0} /\ QueueSize \in Nat \ {0}
    /\ "none" \notin Subs
    /\ \A c \in Scenarios : c.subs \subseteq Subs /\ c.watched \subseteq c.subs

VARIABLES
    byID,        \* subscriptions in memory: expiry, dirty bit, next attempt
    expiries,    \* entries of the expiry heap
    hubPending,  \* persistencePending
    sending,     \* the jobs a flush has taken and not yet offered to the queue
    jobs,        \* the job queue
    delivering,  \* the job of each delivery worker
    watcher,     \* the channel of each subscription's watcher
    file,        \* the state file
    durable,     \* what the state file may be after a power loss
    keyValid,    \* the upstream's key can still be looked up
    now, hubFaults,
    scenario,    \* the bounds of this behaviour
    promised,    \* what the last answer to a caller said of each subscription
    changes, told, seen

queues == <<sending, jobs, delivering>>
memory == <<byID, expiries, hubPending, queues, watcher>>
disk == <<file, durable>>
clock == <<now, keyValid, scenario>>
world == <<changes, told, seen>>
hubVars == <<memory, disk, clock, hubFaults, promised, world>>

NoJob == [sub |-> "none", version |-> 0]
Content(m) == [s \in DOMAIN m |-> m[s].exp]
Without(f, S) == [s \in DOMAIN f \ S |-> f[s]]
With(f, s, x) == [t \in DOMAIN f \cup {s} |-> IF t = s THEN x ELSE f[t]]

HubInit ==
    /\ byID = << >> /\ expiries = {} /\ hubPending = FALSE
    /\ sending = {} /\ jobs = << >>
    /\ delivering = [w \in DeliveryWorkers |-> NoJob]
    /\ watcher = [s \in Subs |-> "none"]
    /\ file = << >> /\ durable = {<< >>}
    /\ scenario \in Scenarios
    /\ keyValid = TRUE /\ now = 0 /\ hubFaults = 0
    /\ promised = [s \in Subs |-> "nothing"]
    /\ changes = [s \in Subs |-> 0]
    /\ told = [s \in Subs |-> 0] /\ seen = [s \in Subs |-> 0]

-----------------------------------------------------------------------------
(* persistLocked: write a temporary file, replace, sync the directory.     *)

Persisted(m) == file' = Content(m) /\ durable' = {Content(m)} /\ UNCHANGED hubFaults
Failed == hubFaults < scenario.faults /\ hubFaults' = hubFaults + 1
NotReplaced == Failed /\ UNCHANGED disk
\* installedStateError: the file is replaced, the directory may not be.
Installed(m) ==
    Failed /\ file' = Content(m) /\ durable' = durable \cup {Content(m)}

New(exp) == [exp |-> exp, dirty |-> TRUE, next |-> 0]
WatchersClosed(S) == [s \in Subs |-> IF s \in S THEN "none" ELSE watcher[s]]
addLocked(s, exp) ==
    /\ byID' = With(byID, s, New(exp))
    /\ expiries' = expiries \cup {<<s, exp>>}

-----------------------------------------------------------------------------
(* The callers.                                                            *)

Promise(s, what) == promised' = [promised EXCEPT ![s] = what]

\* Create of a subscription that is there: its answer waits for a state file
\* that an earlier call could not write.
CreateExisting(s) ==
    /\ keyValid /\ s \in DOMAIN byID
    /\ \/ /\ hubPending => Persisted(byID)
          /\ ~hubPending => UNCHANGED <<disk, hubFaults>>
          /\ hubPending' = FALSE /\ Promise(s, "kept")
       \/ /\ hubPending /\ (NotReplaced \/ Installed(byID))
          /\ UNCHANGED <<hubPending, promised>>
    /\ UNCHANGED <<byID, expiries, queues, watcher, clock, world>>

\* Create of a new subscription.  When the state file could not be replaced
\* the subscription is taken back; its entry of the expiry heap stays.
Create(s) ==
    LET exp == now + TTL
        m == With(byID, s, New(exp))
    IN
    /\ keyValid /\ s \notin DOMAIN byID
    /\ Cardinality(DOMAIN byID) < MaxSubscriptions
    /\ \/ Persisted(m) /\ addLocked(s, exp) /\ hubPending' = FALSE /\ Promise(s, "kept")
       \/ /\ NotReplaced /\ hubPending' = TRUE /\ Promise(s, "nothing")
          /\ UNCHANGED byID /\ expiries' = expiries \cup {<<s, exp>>}
       \/ /\ Installed(m) /\ addLocked(s, exp) /\ hubPending' = TRUE
          /\ Promise(s, "nothing")
    /\ UNCHANGED <<queues, watcher, clock, world>>

\* Delete.  A delete that could not be written is undone, with a new dirty
\* bit and without its watchers.
Delete(s) ==
    LET m == Without(byID, {s}) IN
    /\ s \in DOMAIN byID
    /\ \/ Persisted(m) /\ byID' = m /\ UNCHANGED expiries
          /\ hubPending' = FALSE /\ Promise(s, "gone")
       \/ NotReplaced /\ addLocked(s, byID[s].exp) /\ hubPending' = TRUE
          /\ UNCHANGED promised
       \/ Installed(m) /\ byID' = m /\ UNCHANGED expiries
          /\ hubPending' = TRUE /\ Promise(s, "nothing")
    /\ watcher' = WatchersClosed({s})
    /\ UNCHANGED <<queues, clock, world>>

\* Notify: the status of a record of the subscription changed.
Notify(s) ==
    /\ changes[s] < scenario.changes
    /\ changes' = [changes EXCEPT ![s] = @ + 1]
    /\ byID' = IF s \in DOMAIN byID THEN [byID EXCEPT ![s].dirty = TRUE] ELSE byID
    /\ UNCHANGED <<expiries, hubPending, queues, watcher, disk, clock,
                   hubFaults, promised, told, seen>>

\* Watch registers a channel and asks for a first refresh.
Watch(s) ==
    /\ s \in DOMAIN byID /\ byID[s].exp > now /\ watcher[s] = "none"
    /\ s \in scenario.watched
    /\ watcher' = [watcher EXCEPT ![s] = "empty"]
    /\ byID' = [byID EXCEPT ![s].dirty = TRUE]
    /\ UNCHANGED <<expiries, hubPending, queues, disk, clock, hubFaults,
                   promised, world>>

\* The watcher's reader takes the refresh and reads the current status.
Read(s) ==
    /\ watcher[s] = "full"
    /\ watcher' = [watcher EXCEPT ![s] = "empty"]
    /\ seen' = [seen EXCEPT ![s] = changes[s]]
    /\ UNCHANGED <<byID, expiries, hubPending, queues, disk, clock,
                   hubFaults, promised, changes, told>>

-----------------------------------------------------------------------------
(* The flush tick and the delivery workers.                                *)

\* The subscriptions whose own entry of the heap is due.
Expired ==
    {s \in DOMAIN byID : \E e \in expiries : e = <<s, byID[s].exp>> /\ e[2] <= now}

Due(S) == {s \in DOMAIN byID \ S : byID[s].dirty /\ byID[s].next <= now}
Job(s) == [sub |-> s, version |-> changes[s]]

ClearDirty(m, sent) == [s \in DOMAIN m |-> IF s \in sent THEN [m[s] EXCEPT !.dirty = FALSE] ELSE m[s]]

\* retry: dirty again, not before the back-off.
Retried(m, S) ==
    [s \in DOMAIN m |-> IF s \in S THEN [m[s] EXCEPT !.dirty = TRUE, !.next = now + 1] ELSE m[s]]

\* flush: expire, take the due subscriptions, drop those whose key is no
\* longer valid, and write the state file when something was removed or an
\* earlier write failed; the jobs leave after the lock is released.
Flush ==
    LET due == Due(Expired)
        dropped == Expired \cup IF keyValid THEN {} ELSE due
        sent == due \ dropped
        left == Without(byID, dropped)
    IN
    /\ sending = {}
    /\ dropped # {} \/ sent # {} \/ hubPending \/ \E e \in expiries : e[2] <= now
    /\ expiries' = {e \in expiries : e[2] > now}
    /\ watcher' = WatchersClosed(dropped)
    /\ byID' = ClearDirty(left, sent)
    /\ IF dropped # {} \/ hubPending
       THEN \/ Persisted(left) /\ hubPending' = FALSE
            \/ (NotReplaced \/ Installed(left)) /\ hubPending' = TRUE
       ELSE UNCHANGED <<disk, hubFaults, hubPending>>
    /\ sending' = {Job(s) : s \in sent}
    /\ promised' = [s \in Subs |-> IF s \in dropped THEN "nothing" ELSE promised[s]]
    /\ UNCHANGED <<jobs, delivering, clock, world>>


\* The nonblocking send of flush: a job that does not fit is retried later.
Send(job) ==
    /\ sending' = sending \ {job}
    /\ IF Len(jobs) < QueueSize
       THEN jobs' = Append(jobs, job) /\ UNCHANGED byID
       ELSE byID' = Retried(byID, {job.sub}) /\ UNCHANGED jobs
    /\ UNCHANGED <<expiries, hubPending, delivering, watcher, disk, clock,
                   hubFaults, promised, world>>

\* deliver, first half: the refresh is offered to the watchers; a channel
\* that is full keeps the one it has.
Offer(w) ==
    /\ delivering[w].sub = "none" /\ jobs # << >>
    /\ LET job == Head(jobs) IN
       /\ delivering' = [delivering EXCEPT ![w] = job]
       /\ watcher' = [watcher EXCEPT ![job.sub] =
              IF job.sub \in DOMAIN byID /\ @ = "empty" THEN "full" ELSE @]
    /\ jobs' = Tail(jobs)
    /\ UNCHANGED <<byID, expiries, hubPending, sending, disk, clock, hubFaults, promised,
                   world>>

\* deliver, second half: the webhook answers.
Deliver(w) ==
    LET s == delivering[w].sub IN
    /\ s # "none"
    /\ delivering' = [delivering EXCEPT ![w] = NoJob]
    /\ byID' = IF s \in DOMAIN byID THEN [byID EXCEPT ![s].next = 0] ELSE byID
    /\ told' = [told EXCEPT ![s] = changes[s]]
    /\ UNCHANGED <<expiries, hubPending, sending, jobs, watcher, disk, clock, hubFaults,
                   promised, changes, seen>>

\* ... or fails, possibly after the receiver got the refresh.
DeliverFails(w) ==
    LET s == delivering[w].sub IN
    /\ s # "none" /\ Failed
    /\ delivering' = [delivering EXCEPT ![w] = NoJob]
    /\ byID' = Retried(byID, {s})
    /\ UNCHANGED <<expiries, hubPending, sending, jobs, watcher, disk, clock, promised, world>>

HubTick ==
    /\ now < scenario.time /\ now' = now + 1
    /\ UNCHANGED <<memory, disk, keyValid, scenario, hubFaults, promised, world>>

KeyRevoked ==
    /\ keyValid /\ keyValid' = FALSE
    /\ UNCHANGED <<memory, disk, now, scenario, hubFaults, promised, world>>

\* A crash, and load: every subscription of the file that has not expired is
\* added with its dirty bit set.
HubRestart ==
    /\ Failed
    /\ \E f \in durable :
         LET live == {s \in DOMAIN f : f[s] > now} IN
         /\ file' = f /\ durable' = {f}
         /\ byID' = [s \in live |-> New(f[s])]
         /\ expiries' = {<<s, f[s]>> : s \in live}
         /\ promised' = [s \in Subs |->
               IF s \in DOMAIN f \ live THEN "nothing" ELSE promised[s]]
    /\ hubPending' = FALSE /\ sending' = {} /\ jobs' = << >>
    /\ delivering' = [w \in DeliveryWorkers |-> NoJob]
    /\ watcher' = WatchersClosed(Subs)
    /\ UNCHANGED <<clock, world>>

HubNext ==
    \/ \E s \in scenario.subs : CreateExisting(s) \/ Create(s) \/ Delete(s)
                       \/ Notify(s) \/ Watch(s) \/ Read(s)
    \/ Flush
    \/ \E job \in sending : Send(job)
    \/ \E w \in DeliveryWorkers : Offer(w) \/ Deliver(w) \/ DeliverFails(w)
    \/ HubTick \/ KeyRevoked \/ HubRestart

HubSpec == HubInit /\ [][HubNext]_hubVars
-----------------------------------------------------------------------------
(* Properties.                                                             *)

Outstanding(s) ==
    \/ byID[s].dirty \/ Job(s) \in sending
    \/ \E i \in DOMAIN jobs : jobs[i].sub = s /\ jobs[i].version = changes[s]
    \/ \E w \in DeliveryWorkers :
          delivering[w].sub = s /\ delivering[w].version = changes[s]

\* No change is forgotten: while a receiver of a live subscription does not
\* know of the last change, the subscription is dirty, a job taken after the
\* change is under way, or the watcher's channel holds a refresh (flush
\* clears the bit before the job is queued; retry and Notify set it again).
NoChangeForgotten ==
    \A s \in DOMAIN byID :
        /\ told[s] < changes[s] => Outstanding(s)
        /\ watcher[s] = "empty" /\ seen[s] < changes[s] => Outstanding(s)

\* What a caller was told holds after any crash: a subscription whose create
\* was answered is in the state file, one whose delete was answered is not
\* (persistLocked, persistencePending, installedStateError).
AnswersAreDurable ==
    \A s \in Subs, f \in durable :
        /\ promised[s] = "kept" => s \in DOMAIN f
        /\ promised[s] = "gone" => s \notin DOMAIN f

\* A subscription leaves memory only when its time has come, its key is no
\* longer valid, or it is deleted: an entry that an earlier create of the
\* same request left in the expiry heap does not end it early.
EndsOnTime ==
    [][\A s \in DOMAIN byID \ DOMAIN byID' :
          \/ byID[s].exp <= now \/ ~keyValid
          \/ Delete(s) \/ HubRestart]_hubVars

=============================================================================
