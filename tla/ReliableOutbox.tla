--------------------------- MODULE ReliableOutbox ---------------------------
(***************************************************************************)
(* The durable outbox of reliable events and the part of the output        *)
(* service that drives it (apps/companion/src/output/reliable-outbox.ts,   *)
(* output/service.ts, match-context/serial-commit.ts, durable-json.ts).    *)
(*                                                                         *)
(* Events are appended to one JSON file that is replaced atomically.  A    *)
(* one-second timer walks the pending records and sends each to a sink;    *)
(* the outcome of a whole walk is written by ONE replacement at its end.   *)
(* All operations run one at a time through a promise queue.  A process    *)
(* may die between any two steps; the next one reloads the file and may    *)
(* recover the delivery scope the file names.                              *)
(*                                                                         *)
(* The code keeps one array `records`.  Every array it commits comes out   *)
(* of trim, which puts the terminal records before the pending ones, so    *)
(* the array is modelled as the pair [terminal, pending].                  *)
(***************************************************************************)
EXTENDS Integers, Sequences, FiniteSets

CONSTANTS
    Events,         \* idempotency keys of the events the runtime may derive
    Places,         \* match, revision, source generation and map epoch
    Fixtures,       \* those of them whose binding comes from a fixture
    NoPlace,        \* no bundle or no match context yet
    SinkChoices,    \* whether a process is configured with a sink: {TRUE, FALSE}
    MaxPending,     \* RELIABLE_OUTBOX_MAX_PENDING
    KeepTerminal,   \* terminal records trim keeps
    MaxRecords,     \* RELIABLE_OUTBOX_MAX_RECORDS
    Retention       \* RELIABLE_OUTBOX_RETENTION_MS, in ticks

\* Bounds of the exploration, no part of the program.
CONSTANTS MaxTime, MaxQueue, MaxCrashes, MaxFailures

ASSUME SizesAssumption ==
    /\ {MaxPending, KeepTerminal, MaxRecords, Retention} \subseteq Nat \ {0}
    /\ MaxPending + KeepTerminal <= MaxRecords
ASSUME PlaceAssumption == NoPlace \notin Places
ASSUME FixtureAssumption == Fixtures \subseteq Places
ASSUME BoundsAssumption == {MaxTime, MaxQueue, MaxCrashes, MaxFailures} \subseteq Nat
ASSUME SinkAssumption == SinkChoices \subseteq BOOLEAN

VARIABLES
    disk,       \* the outbox file: [terminal, pending, continuity]
    mem,        \* this.records and this.continuity, same shape
    queue,      \* jobs of the SerialCommitQueue; the head is the running one
    pc,         \* where the running job is
    kept,       \* the walk's result so far: records still pending ...
    settled,    \* ... and records that became terminal
    file,       \* the document being committed
    call,       \* the sink call the walk awaits
    event,      \* what each derived event says, fixed when it is derived
    producer, live, place,  \* the running process, its session, its scope
    recovered,  \* the scope restored at start, or NoScope
    sink,       \* this process has a sink
    requested,  \* the last scope updateContinuity was asked to save
    up, now

\* What happened, for the properties and the bounds.
VARIABLES
    received,   \* keys the receiver has processed
    acked,      \* keys whose enqueue resolved to true
    outcome,    \* the terminal status each key got in the file, or "none"
    sends,      \* how often each key was handed to the sink
    crashes, failures

outbox  == <<disk, mem, queue, pc, kept, settled, file, call>>
service == <<event, producer, live, place, recovered, sink, requested, up>>
history == <<acked, outcome, sends, crashes, failures>>
vars    == <<outbox, service, received, history, now>>

-----------------------------------------------------------------------------
(* Scopes, records and jobs *)

NoScope == [live |-> 0, place |-> NoPlace]
Scope   == [live : Nat, place : Places \cup {NoPlace}]
ThisScope == [live |-> live, place |-> place]

NoEvent == [producer |-> 0, scope |-> NoScope, at |-> 0]
Event   == [producer : Nat, scope : Scope, at : Nat]

Terminal == {"accepted", "rejected", "expired", "superseded"}

\* One array element; a record's event is event[key].
PendingRecord  == [key : Events, attempts : Nat, nextAt : Nat]
TerminalRecord == [key : Events, status : Terminal]
File == [terminal : Seq(TerminalRecord), pending : Seq(PendingRecord),
         continuity : Scope]
EmptyFile == [terminal |-> <<>>, pending |-> <<>>, continuity |-> NoScope]

Job == [kind : {"enqueue"}, key : Events]
       \cup [kind : {"continuity"}, scope : Scope]
       \cup [kind : {"flush", "sweep"}, at : Nat]

Keys(s) == {s[i].key : i \in DOMAIN s}
StatusIn(t, k) == t[CHOOSE i \in DOMAIN t : t[i].key = k].status

Drop(s, n) == IF n <= 0 THEN s ELSE SubSeq(s, n + 1, Len(s))

TrimKeepsRecentPending(t, p, c) ==
    [terminal |-> t, pending |-> Drop(p, Len(p) - KeepTerminal), continuity |-> c]

\* trim: the last KeepTerminal terminal records, then every pending one; the
\* oldest go when the whole array would exceed MaxRecords.
Trim(t, p, c) ==
    LET recent == Drop(t, Len(t) - KeepTerminal)
        over   == Len(recent) + Len(p) - MaxRecords
    IN  [terminal   |-> Drop(recent, over),
         pending    |-> Drop(p, over - Len(recent)),
         continuity |-> c]

\* load refuses the file, and the service does not start, otherwise.
Loadable(f) ==
    /\ Len(f.terminal) + Len(f.pending) <= MaxRecords
    /\ f.continuity # NoScope => f.terminal # <<>> \/ f.pending # <<>>

\* Seconds before the n-th retry: min(60, 2^(n-1)), exponent capped at 6.
BackoffSeconds == <<1, 2, 4, 8, 16, 32, 60>>
Backoff(n) == BackoffSeconds[IF n < 7 THEN n ELSE 7]

Expired(k, at) == at - event[k].at >= Retention

\* OutputService.isCurrentForRetry.
IsCurrent(k) ==
    \/ place = NoPlace
    \/ /\ event[k].producer = producer \/ event[k].scope = recovered
       /\ event[k].scope = ThisScope

\* OutputService.canSend, but for what it asks of the evidence (fresh context
\* and telemetry, matched identity, the final score): the walk may find that
\* missing at any record.
CanSend(k) == place # NoPlace /\ IsCurrent(k)

\* A promise callback runs to its next await before anything else may run.
Turn == pc # "loop"

-----------------------------------------------------------------------------
(* Init *)

Init ==
    /\ disk = EmptyFile /\ mem = EmptyFile /\ file = EmptyFile
    /\ queue = <<>> /\ pc = "idle" /\ kept = <<>> /\ settled = <<>>
    /\ call = "idle"
    /\ event = [k \in Events |-> NoEvent]
    /\ producer = 1 /\ live = 1 /\ place = NoPlace
    /\ recovered = NoScope /\ requested = NoScope
    /\ sink \in SinkChoices /\ up = TRUE /\ now = 0
    /\ received = {} /\ acked = {} /\ outcome = [k \in Events |-> "none"]
    /\ sends = [k \in Events |-> 0] /\ crashes = 0 /\ failures = 0

-----------------------------------------------------------------------------
(* The output service: what puts jobs into the queue *)

\* The event a mutation derives under scope s at this time.
EventAt(s) == [producer |-> producer, scope |-> s, at |-> now]

\* updateContinuity: one job per change of the requested scope.
ContinuityJobs(s) ==
    IF s = requested THEN <<>> ELSE <<[kind |-> "continuity", scope |-> s]>>

\* afterRuntimeMutation with a binding of a real match: the bundle moves to place p, the scope
\* is saved, then each derived event is enqueued.  ks is a sequence because
\* two transitions of one mutation may derive the same key; a later mutation
\* never does, the key being a hash over producer and runtimeSeq.
RuntimeMutation(p, ks) ==
    LET s == [live |-> live, place |-> p]
    IN  /\ up /\ Turn
        /\ \A i \in DOMAIN ks : event[ks[i]] = NoEvent
        /\ place' = p /\ requested' = s
        /\ event' = [k \in Events |->
                        IF k \in {ks[i] : i \in DOMAIN ks} THEN EventAt(s) ELSE event[k]]
        /\ queue' = queue \o ContinuityJobs(s)
                     \o [i \in DOMAIN ks |-> [kind |-> "enqueue", key |-> ks[i]]]
        /\ Len(queue') <= MaxQueue
        /\ UNCHANGED <<disk, mem, pc, kept, settled, file, call, producer, live,
                       recovered, sink, up, received, history, now>>

\* setBinding and setCurrent outside a mutation, or a mutation under a fixture: the scope changes
\* and nothing is saved.
ContextChanges(p) ==
    /\ up /\ Turn
    /\ p # place /\ place' = p
    /\ UNCHANGED <<outbox, event, producer, live, recovered, sink, requested, up,
                   received, history, now>>

RetryPending == \E i \in DOMAIN queue : queue[i].kind \in {"flush", "sweep"}

\* retry, from the one-second timer, does nothing under a fixture: `now` is read here, not when
\* the job runs.
RetryTimer ==
    /\ up /\ Turn /\ ~RetryPending /\ place \notin Fixtures
    /\ queue' = Append(queue, [kind |-> IF sink THEN "flush" ELSE "sweep",
                               at |-> now])
    /\ UNCHANGED <<disk, mem, pc, kept, settled, file, call, service, received,
                   history, now>>

-----------------------------------------------------------------------------
(* The running job *)

\* The operation returns or throws: its locals are gone.
Finish ==
    /\ queue' = Tail(queue) /\ pc' = "idle"
    /\ kept' = <<>> /\ settled' = <<>> /\ file' = EmptyFile

CommitStarts(f) ==
    file' = f /\ pc' = "replace" /\ UNCHANGED <<queue, kept, settled>>

RecordsNotRead == TRUE
HasRecords == mem.terminal # <<>> \/ mem.pending # <<>>

\* updateContinuity's operation: nothing is written while there is no record.
StartContinuity ==
    /\ up /\ pc = "idle" /\ queue # <<>> /\ Head(queue).kind = "continuity"
    /\ IF HasRecords
       THEN CommitStarts([mem EXCEPT !.continuity = Head(queue).scope])
       ELSE Finish
    /\ UNCHANGED <<disk, mem, call, service, received, history, now>>

\* enqueue: a known key resolves to false, a full outbox throws.
StartEnqueue ==
    LET k   == Head(queue).key
        new == [key |-> k, attempts |-> 0, nextAt |-> event[k].at]
    IN  /\ up /\ pc = "idle" /\ queue # <<>> /\ Head(queue).kind = "enqueue"
        /\ IF k \in Keys(mem.pending) \cup Keys(mem.terminal)
                 \/ Len(mem.pending) >= MaxPending
           THEN Finish
           ELSE CommitStarts(Trim(mem.terminal, Append(mem.pending, new),
                                  event[k].scope))
        /\ UNCHANGED <<disk, mem, call, service, received, history, now>>

\* flush and sweep start walking the records.
StartWalk ==
    /\ up /\ pc = "idle" /\ queue # <<>> /\ Head(queue).kind \in {"flush", "sweep"}
    /\ pc' = "loop" /\ kept' = <<>> /\ settled' = <<>>
    /\ UNCHANGED <<disk, mem, queue, file, call, service, received, history, now>>

At == Head(queue).at
Position == Len(kept) + Len(settled) + 1
Current == mem.pending[Position]
Walking == up /\ pc = "loop" /\ Position <= Len(mem.pending)

SettleWithoutStatus(status) == settled' = Append(settled, Current)
SettleAnyAnswer(status) ==
    settled' = Append(settled, [key |-> Current.key, status |->
                 IF status = "rejected" THEN "accepted" ELSE status])
Settle(status) ==
    settled' = Append(settled, [key |-> Current.key, status |-> status])

\* The record is too old, or no longer of the current scope.
WalkRetires ==
    /\ Walking
    /\ Expired(Current.key, At) \/ ~IsCurrent(Current.key)
    /\ Settle(IF Expired(Current.key, At) THEN "expired" ELSE "superseded")
    /\ UNCHANGED <<disk, mem, queue, pc, kept, file, call, service, received, history, now>>

Due == Head(queue).kind = "flush" /\ CanSend(Current.key) /\ Current.nextAt <= At

\* Not due yet, or the evidence to send it is missing.
WalkKeeps ==
    /\ Walking
    /\ ~Expired(Current.key, At) /\ IsCurrent(Current.key)
    /\ kept' = Append(kept, Current)
    /\ UNCHANGED <<disk, mem, queue, pc, settled, file, call, service, received, history, now>>

WalkSends ==
    /\ Walking
    /\ ~Expired(Current.key, At) /\ IsCurrent(Current.key) /\ Due
    /\ pc' = "sending" /\ call' = "sent"
    /\ sends' = [sends EXCEPT ![Current.key] = @ + 1]
    /\ UNCHANGED <<disk, mem, queue, kept, settled, file, service, received,
                   acked, outcome, crashes, failures, now>>

\* The receiver handles the request the walk is waiting for.
ReceiverHandles ==
    /\ call = "sent"
    /\ \/ call' = "accepted" /\ received' = received \cup {Current.key}
       \/ call' = "rejected" /\ UNCHANGED received
    /\ UNCHANGED <<disk, mem, queue, pc, kept, settled, file, service, history, now>>

\* The answer arrives: 2xx accepts, another final status rejects.
SinkAnswers ==
    /\ up /\ pc = "sending" /\ call \in {"accepted", "rejected"}
    /\ Settle(call)
    /\ call' = "idle" /\ pc' = "loop"
    /\ UNCHANGED <<disk, mem, queue, kept, file, service, received, history, now>>

\* Nobody waits for the request any more; it may be processed all the same.
RequestMayArrive ==
    \/ UNCHANGED received
    \/ call = "sent" /\ received' = received \cup {Current.key}

RetriedUncounted(r) ==
    [key |-> r.key, attempts |-> r.attempts, nextAt |-> At + Backoff(r.attempts + 1)]
Retried(r) ==
    [key |-> r.key, attempts |-> r.attempts + 1, nextAt |-> At + Backoff(r.attempts + 1)]

GivesUpWhenAnswered == pc = "sending" /\ call # "sent"
GivesUp == pc = "sending"

\* No usable answer: network error, 408, 429, 5xx, or the five-second timeout.
SinkFails ==
    /\ up /\ GivesUp
    /\ kept' = Append(kept, Retried(Current))
    /\ RequestMayArrive
    /\ call' = "idle" /\ pc' = "loop"
    /\ UNCHANGED <<disk, mem, queue, settled, file, service, history, now>>

\* The end of the walk: one commit for all of it, if anything changed.
WalkEnds ==
    /\ up /\ pc = "loop" /\ Position > Len(mem.pending)
    /\ IF settled = <<>> /\ kept = mem.pending
       THEN Finish
       ELSE CommitStarts(Trim(mem.terminal \o settled, kept, mem.continuity))
    /\ UNCHANGED <<disk, mem, call, service, received, history, now>>

\* replaceDurableJson: the rename publishes the whole document at once.
Replace ==
    /\ up /\ pc = "replace"
    /\ disk' = file /\ pc' = "install"
    /\ outcome' = [k \in Events |-> IF k \in Keys(settled) THEN StatusIn(settled, k)
                                    ELSE outcome[k]]
    /\ UNCHANGED <<mem, queue, kept, settled, file, call, service, received,
                   acked, sends, crashes, failures, now>>

\* Writing the temporary file or renaming it throws; the caller swallows it.
ReplaceFails ==
    /\ up /\ pc = "replace" /\ failures < MaxFailures
    /\ failures' = failures + 1
    /\ Finish
    /\ UNCHANGED <<disk, mem, call, service, received, acked, outcome, sends,
                   crashes, now>>

\* commit resumes after the replacement and the job resolves.
Install ==
    /\ up /\ pc = "install"
    /\ mem' = file
    /\ acked' = IF Head(queue).kind = "enqueue" THEN acked \cup {Head(queue).key} ELSE acked
    /\ Finish
    /\ UNCHANGED <<disk, call, service, received, outcome, sends, crashes,
                   failures, now>>

-----------------------------------------------------------------------------
(* The process and the clock *)

\* Everything but the file is lost; a request under way may still arrive.
Crash ==
    /\ up /\ crashes < MaxCrashes
    /\ up' = FALSE /\ crashes' = crashes + 1
    /\ RequestMayArrive
    /\ mem' = EmptyFile /\ file' = EmptyFile /\ queue' = <<>> /\ pc' = "idle"
    /\ kept' = <<>> /\ settled' = <<>> /\ call' = "idle"
    /\ requested' = NoScope /\ recovered' = NoScope
    /\ place' = NoPlace
    /\ UNCHANGED <<disk, event, producer, live, sink, acked, outcome, sends,
                   failures, now>>

\* start: a new producer reloads the file.  When the startup context is the
\* checkpoint's and its age below the retention, session and scope are
\* restored; otherwise the process has a session nobody used before.
Restart ==
    /\ ~up /\ Loadable(disk)
    /\ up' = TRUE /\ sink' \in SinkChoices /\ mem' = disk /\ producer' = producer + 1
    /\ \/ /\ disk.continuity # NoScope
          /\ live' = disk.continuity.live /\ place' = disk.continuity.place
          /\ recovered' = disk.continuity
       \/ /\ live' = producer + 1 /\ place' = NoPlace
          /\ UNCHANGED recovered
    /\ UNCHANGED <<disk, queue, pc, kept, settled, file, call, event, requested,
                   received, history, now>>

Tick ==
    /\ now < MaxTime
    /\ now' = now + 1
    /\ UNCHANGED <<outbox, service, received, history>>

-----------------------------------------------------------------------------

EventLists == {<<>>} \cup {<<k>> : k \in Events} \cup {<<k, k>> : k \in Events}

Service ==
    \/ \E p \in Places \ Fixtures, ks \in EventLists : RuntimeMutation(p, ks)
    \/ \E p \in Places : ContextChanges(p)
    \/ RetryTimer

Walk == WalkRetires \/ WalkKeeps \/ WalkSends \/ SinkAnswers \/ SinkFails \/ WalkEnds
Jobs == StartContinuity \/ StartEnqueue \/ StartWalk \/ Walk \/ Replace \/ Install

Next == Service \/ Jobs \/ ReceiverHandles \/ ReplaceFails \/ Crash \/ Restart \/ Tick

Spec == Init /\ [][Next]_vars

\* The event loop runs ready callbacks, the timers fire, an operator restarts
\* the companion, and time passes.  Nothing is assumed of the receiver.
FairSpec ==
    /\ Spec
    /\ WF_vars(Jobs) /\ WF_vars(RetryTimer) /\ WF_vars(Restart) /\ WF_vars(Tick)
-----------------------------------------------------------------------------
(* Properties *)

\* The shape of the file, the memory, the queue and the walk: a pending record is
\* never of a terminal status, and no document holds another kind of entry.
TypeOK ==
    /\ disk \in File /\ mem \in File /\ file \in File
    /\ queue \in Seq(Job) /\ pc \in {"idle", "loop", "sending", "replace", "install"}
    /\ kept \in Seq(PendingRecord) /\ settled \in Seq(TerminalRecord)
    /\ call \in {"idle", "sent", "accepted", "rejected"}
    /\ event \in [Events -> Event]
    /\ producer \in Nat /\ live \in Nat /\ place \in Places \cup {NoPlace}
    /\ recovered \in Scope /\ requested \in Scope
    /\ up \in BOOLEAN /\ sink \in BOOLEAN /\ now \in Nat
    /\ received \subseteq Events /\ acked \subseteq Events
    /\ outcome \in [Events -> Terminal \cup {"none"}]
    /\ sends \in [Events -> Nat] /\ crashes \in Nat /\ failures \in Nat

\* Where the running job is agrees with what the queue and the walk hold.
JobShape ==
    /\ pc # "idle" => up /\ queue # <<>>
    /\ pc \in {"loop", "sending"} => Head(queue).kind \in {"flush", "sweep"}
    /\ pc = "loop" => Len(kept) + Len(settled) <= Len(mem.pending)
    /\ pc = "sending" => Len(kept) + Len(settled) < Len(mem.pending)
    /\ (call # "idle") = (pc = "sending")

WithinLimits(f) ==
    /\ Len(f.pending) <= MaxPending /\ Len(f.terminal) <= KeepTerminal
    /\ f.continuity # NoScope => f.terminal # <<>> \/ f.pending # <<>>

\* The inductive invariant: every document that exists anywhere is within the
\* limits enqueue and trim set, so load accepts whichever is on disk.
IInv == TypeOK /\ JobShape /\ \A f \in {disk, mem, file} : WithinLimits(f)

\* An event whose enqueue resolved to true is in the file, pending, until the
\* file has settled it: neither trim, nor a failed or interrupted write, nor
\* a restart loses it.
AckedNeverLost == \A k \in acked : k \in Keys(disk.pending) \/ outcome[k] # "none"

\* Whatever was committed and wherever the process died, the next process can
\* load the file: load and trim agree on the limit, and a checkpoint is never
\* written beside an empty record list.
AlwaysLoadable == Loadable(disk)

\* While every write succeeded, an idle outbox with records holds the
\* checkpoint of the scope the service last asked to save, although the
\* service asks once per scope and a request finding no record writes nothing.
CheckpointIsLatest ==
    up /\ queue = <<>> /\ failures = 0 /\ requested # NoScope
       /\ (disk.pending # <<>> \/ disk.terminal # <<>>)
    => disk.continuity = requested

\* Nothing the outbox took over is forgotten: an acknowledged event stays in the file until it
\* is settled there, and so does the scope events are recovered into
\* (reliable-outbox.ts enqueue, trim, updateContinuity).
NothingIsForgotten == AckedNeverLost /\ CheckpointIsLatest

\* The attempts in the file account for every request sent, but for the ones
\* of a walk that is running, died, or could not be written: the back-off
\* cannot be bypassed more often than that.
SendsAreCounted ==
    \A i \in DOMAIN disk.pending :
        LET r == disk.pending[i]
            walking == IF up /\ queue # <<>> /\ pc # "idle" THEN 1 ELSE 0
        IN  sends[r.key] <= r.attempts + crashes + failures + walking

\* The file's records, seen from outside: what EventDelivery promises.
DurableStatus ==
    [k \in Events |-> IF k \in Keys(disk.pending) THEN "pending"
                      ELSE IF outcome[k] = "none" THEN "absent" ELSE outcome[k]]
Delivery == INSTANCE EventDelivery WITH status <- DurableStatus

\* The outbox implements the promise, across crashes, failed writes, lost and
\* late answers.
DeliveryKept == Delivery!Spec

\* No recorded event stays pending for ever once no fixture is bound any more: a receiver that
\* never answers, telemetry that never comes back and crashes only delay it to its expiry.  While
\* a fixture is bound nothing is sent and nothing expires (service.ts:279).
EveryEventSettles ==
    <>[](place \notin Fixtures) =>
        \A k \in Events :
            (k \in Keys(disk.pending) /\ event[k].at + Retention <= MaxTime)
                ~> (k \notin Keys(disk.pending))
=============================================================================
