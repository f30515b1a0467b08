--------------------------- MODULE ProgramCueLane ---------------------------
(***************************************************************************)
(* The lane of transient cues (a hit, an elimination) from the program     *)
(* broadcast to the pages that animate them: the coordinator               *)
(* (projections/program-cue-coordinator.ts) that ties each cue to the      *)
(* runtime's continuity and to the source's generation, the publisher's    *)
(* bounded queues (local-protocol/program-cue-publisher.ts), and the page  *)
(* (apps/web/src/realtime/program-cue-client.ts) with the acceptance rules *)
(* of packages/protocol/src/program-cue-acceptance.ts.                     *)
(*                                                                         *)
(* A page has one connection at a time; what the WebSocket transport does  *)
(* around it is in SnapshotChannel.  The live session and the map epoch    *)
(* are only compared, and together, so one number stands for both.         *)
(***************************************************************************)
EXTENDS Naturals, Sequences, SequencesExt

CONSTANTS
    Pages,
    MaxPending,         \* PROGRAM_CUE_PENDING_MAX
    None                \* no message, no subscriber

CONSTANTS   \* bounds of the exploration
    MaxMoments, MaxGenerations, MaxEvents, MaxFaults,
    MaxWire             \* messages on their way when a write completes

Messages ==
    [seq : Nat, cursor : [producer : Nat, context : Nat, generation : Nat], cue : Nat]
Subscriber ==
    [inFlight : Messages \cup {None}, reset : Messages \cup {None},
     queue : Seq(Messages), late : Nat]

ASSUME MaxPendingAssumption == MaxPending \in Nat \ {0}
ASSUME LaneBounds == MaxGenerations \in Nat /\ MaxEvents \in Nat
ASSUME NoMessageAssumption == None \notin Messages /\ None \notin Subscriber

VARIABLES
    moments,    \* the runtime cursors so far, the last one current
    source,     \* the CSTV source: [state, generation, sequence]
    observed,   \* lastObservedSourceSequence
    lastState,  \* lastSourceState
    rebased,    \* lastPublishedProgramSourceGeneration
    current,    \* the publisher's current baseline
    channelSeq,
    sub,        \* per page: its ProgramCueSubscriber, or None
    wire,       \* per page: messages on their way
    open,       \* per page: its socket carries data
    state,      \* per page: connection state
    acceptance, \* per page: [baseline, last, recent]
    picture,    \* per page: the moment of the program snapshot it shows, or 0
    joined,     \* per page: channelSeq when its subscription began
    shown,      \* per page: the cues emitted, as messages
    faults

runtimeVars == <<moments, source>>
laneVars    == <<observed, lastState, rebased, current, channelSeq>>
connVars    == <<sub, wire, open>>
pageVars    == <<state, acceptance, picture, joined, shown>>
vars        == <<runtimeVars, laneVars, connVars, pageVars, faults>>

Runtime == Last(moments)

Cursor(r, generation) ==
    [producer |-> r.producer, context |-> r.context, generation |-> generation]

\* A message; the cue is its source sequence, 0 for a baseline.
Message(seq, cursor, cue) == [seq |-> seq, cursor |-> cursor, cue |-> cue]
IsBaseline(m) == m.cue = 0

CueId(m) == <<m.cursor.producer, m.cursor.generation, m.cue>>

\* late: how many of the oldest queued cues have waited too long.
NewSubscriber == [inFlight |-> None, reset |-> None, queue |-> <<>>, late |-> 0]
NewAcceptance == [baseline |-> None, last |-> 0, recent |-> {}]

Init ==
    /\ moments = << [producer |-> 1, context |-> 0, generation |-> 0] >>
    /\ source = [state |-> "connecting", generation |-> 0, sequence |-> 0]
    /\ observed = <<0, 0>> /\ lastState = "connecting" /\ rebased = 0
    /\ current = Message(1, Cursor(Runtime, 0), 0) /\ channelSeq = 1
    /\ sub = [p \in Pages |-> None] /\ wire = [p \in Pages |-> <<>>]
    /\ open = [p \in Pages |-> FALSE]
    /\ state = [p \in Pages |-> "idle"] /\ acceptance = [p \in Pages |-> NewAcceptance]
    /\ picture = [p \in Pages |-> 0] /\ joined = [p \in Pages |-> 0]
    /\ shown = [p \in Pages |-> <<>>] /\ faults = 0

-----------------------------------------------------------------------------
(* A subscriber's queue *)

HasYoungCue(s) == s.late < Len(s.queue)

\* The oldest cue that has not waited too long is sent, the ones before it are dropped.
SendCue(s) ==
    [s EXCEPT !.inFlight = s.queue[s.late + 1],
              !.queue = SubSeq(s.queue, s.late + 2, Len(s.queue)), !.late = 0]

\* Cues overtake the reset that was offered before them.
DrainCuesFirst(s) ==
    IF s.inFlight # None THEN s
    ELSE IF HasYoungCue(s) THEN SendCue(s)
    ELSE IF s.reset # None THEN [s EXCEPT !.inFlight = s.reset, !.reset = None]
    ELSE [s EXCEPT !.queue = <<>>, !.late = 0]

\* drain: the reset first.
Drain(s) ==
    IF s.inFlight # None THEN s
    ELSE IF s.reset # None THEN [s EXCEPT !.inFlight = s.reset, !.reset = None]
    ELSE IF HasYoungCue(s) THEN SendCue(s)
    ELSE [s EXCEPT !.queue = <<>>, !.late = 0]

OfferBaseline(s, m) == Drain([s EXCEPT !.queue = <<>>, !.late = 0, !.reset = m])

MakeRoom(s) ==
    IF Len(s.queue) < MaxPending THEN s
    ELSE [s EXCEPT !.queue = Tail(@), !.late = IF @ = 0 THEN 0 ELSE @ - 1]

OfferCue(s, m) ==
    IF s.inFlight = None /\ s.reset = None /\ s.queue = <<>>
    THEN [s EXCEPT !.inFlight = m]
    ELSE [MakeRoom(s) EXCEPT !.queue = Append(@, m)]

Offered(s, m) ==
    IF m = None THEN s ELSE IF IsBaseline(m) THEN OfferBaseline(s, m) ELSE OfferCue(s, m)

\* What was queued waits for the next offer.
CompleteWithoutDrain(s) == [s EXCEPT !.inFlight = None]

\* complete, and the delivery after it.
Complete(s) == Drain([s EXCEPT !.inFlight = None])

\* A delivery that begins is written in that turn: s becomes d, and w becomes what is on its way.
Wired(s, d, w) ==
    IF d # None /\ d.inFlight # None /\ (s = None \/ d.inFlight # s.inFlight)
    THEN Append(w, d.inFlight) ELSE w

\* The subscribers become d.
Subscribers(d) ==
    sub' = d /\ wire' = [p \in Pages |-> Wired(sub[p], d[p], wire[p])]

\* publishBaseline, then publishCue: every subscriber is offered what there is of the two.
Publish(baseline, cue) ==
    /\ channelSeq' = IF cue # None THEN cue.seq
                     ELSE IF baseline # None THEN baseline.seq ELSE channelSeq
    /\ current' = IF baseline # None THEN baseline ELSE current
    /\ Subscribers([p \in Pages |->
                      IF sub[p] = None THEN None
                      ELSE Offered(Offered(sub[p], baseline), cue)])

-----------------------------------------------------------------------------
(* The coordinator *)

\* publishBaselineIfNeeded for the runtime r and the source generation g.
NewBaseline(r, g, force) ==
    IF force \/ current.cursor # Cursor(r, g) \/ r.generation # rebased
    THEN Message(channelSeq + 1, Cursor(r, g), 0) ELSE None

Rebase(r, g, force) ==
    /\ Publish(NewBaseline(r, g, force), None)
    /\ rebased' = IF NewBaseline(r, g, force) = None THEN rebased ELSE r.generation

\* afterRuntimeMutation: a new map or session, or a new telemetry generation.
RuntimeMoves(r) ==
    /\ Len(moments) < MaxMoments
    /\ moments' = Append(moments, r)
    /\ Rebase(r, source.generation, FALSE)
    /\ UNCHANGED <<source, observed, lastState, open, pageVars, faults>>

ContextChanges   == RuntimeMoves([Runtime EXCEPT !.context = @ + 1])
TelemetryRestarts == RuntimeMoves([Runtime EXCEPT !.generation = @ + 1])

\* handleSourceHealthChanged, when the source's state becomes s.
SourceBecomes(s) ==
    /\ source' = s
    /\ lastState' = s.state
    /\ Rebase(Runtime, s.generation, lastState = "live" /\ s.state # "live")
    /\ UNCHANGED <<moments, observed, open, pageVars, faults>>

SourceGoesLive ==
    source.state = "connecting" /\ SourceBecomes([source EXCEPT !.state = "live"])
SourceDrops ==
    source.state # "reconnecting" /\ SourceBecomes([source EXCEPT !.state = "reconnecting"])
SourceReconnects ==
    /\ source.state = "reconnecting" /\ source.generation < MaxGenerations
    /\ SourceBecomes([state |-> "connecting", generation |-> source.generation + 1,
                      sequence |-> 0])

\* handleObservation of the next event of the live source.  It becomes a cue
\* if there is a map and the event is one (fresh telemetry, same map, projected).
Observe(projects) ==
    LET n        == source.sequence + 1
        at       == Cursor(Runtime, source.generation)
        baseline == NewBaseline(Runtime, source.generation, FALSE)
        before   == IF baseline = None THEN [current EXCEPT !.seq = channelSeq] ELSE baseline
        known    == observed[1] = source.generation /\ n <= observed[2]
        cue      == IF ~known /\ Runtime.context > 0 /\ projects /\ before.cursor = at
                    THEN Message(before.seq + 1, at, n) ELSE None
    IN  /\ source.state = "live" /\ n <= MaxEvents
        /\ source' = [source EXCEPT !.sequence = n]
        /\ observed' = IF known THEN observed ELSE <<source.generation, n>>
        /\ Publish(baseline, cue)
        /\ rebased' = IF baseline = None THEN rebased ELSE Runtime.generation
        /\ UNCHANGED <<moments, lastState, open, pageVars, faults>>

\* The socket took the message.
Written(p) ==
    /\ sub[p] # None /\ sub[p].inFlight # None /\ Len(wire[p]) <= MaxWire
    /\ Subscribers([sub EXCEPT ![p] = Complete(@)])
    /\ UNCHANGED <<runtimeVars, laneVars, open, pageVars, faults>>

\* More than PROGRAM_CUE_PENDING_MAX_AGE_MS after the first n cues were queued.
TimePasses(p) ==
    /\ sub[p] # None
    /\ \E n \in (sub[p].late + 1)..Len(sub[p].queue) : sub' = [sub EXCEPT ![p].late = n]
    /\ UNCHANGED <<runtimeVars, laneVars, wire, open, pageVars, faults>>

-----------------------------------------------------------------------------
(* The page *)

\* Messages of the socket before it are still handled.
ConnectingHearsOldSocket(p) ==
    /\ state' = [state EXCEPT ![p] = "connecting"]
    /\ acceptance' = [acceptance EXCEPT ![p] = NewAcceptance]
    /\ sub' = [sub EXCEPT ![p] = None] /\ open' = [open EXCEPT ![p] = FALSE]
    /\ UNCHANGED wire

\* connect, from start, from the reconnect timer or from a resubscription:
\* a new socket and a new acceptance.
Connecting(p) ==
    /\ state' = [state EXCEPT ![p] = "connecting"]
    /\ acceptance' = [acceptance EXCEPT ![p] = NewAcceptance]
    /\ sub' = [sub EXCEPT ![p] = None] /\ open' = [open EXCEPT ![p] = FALSE]
    /\ wire' = [wire EXCEPT ![p] = <<>>]

Connect(p) ==
    /\ state[p] \in {"idle", "reconnecting"}
    /\ Connecting(p)
    /\ UNCHANGED <<runtimeVars, laneVars, picture, joined, shown, faults>>

\* The transport subscribes the socket, whose first message is the baseline.
Attach(p) ==
    /\ state[p] = "connecting"
    /\ open' = [open EXCEPT ![p] = TRUE]
    /\ state' = [state EXCEPT ![p] = "awaiting-baseline"]
    /\ joined' = [joined EXCEPT ![p] = channelSeq]
    /\ Subscribers([sub EXCEPT ![p] = OfferBaseline(NewSubscriber, current)])
    /\ UNCHANGED <<runtimeVars, laneVars, acceptance, picture, shown, faults>>

\* acceptProgramCue
Verdict(a, m) ==
    IF a.baseline # None /\ a.baseline.cursor.producer # m.cursor.producer THEN "rejected"
    ELSE IF m.seq <= a.last THEN "ignored"
    ELSE IF IsBaseline(m) THEN "baseline"
    ELSE IF a.baseline = None THEN "ignored"
    ELSE IF a.baseline.cursor # m.cursor THEN "rejected"
    ELSE IF CueId(m) \in a.recent THEN "duplicate"
    ELSE "cue"

Accepted(a, m) ==
    CASE Verdict(a, m) = "baseline"            -> [baseline |-> m, last |-> m.seq, recent |-> {}]
      [] Verdict(a, m) \in {"cue", "duplicate"} ->
            [a EXCEPT !.last = m.seq, !.recent = @ \cup {CueId(m)}]
      [] OTHER                                 -> a

\* The cue belongs to the picture the page shows.
FitsPicture(p, m) ==
    /\ picture[p] # 0
    /\ moments[picture[p]].producer = m.cursor.producer
    /\ moments[picture[p]].context = m.cursor.context

\* handleMessage
Receives(p) ==
    LET m == Head(wire[p])
        a == acceptance[p]
        v == Verdict(a, m)
    IN  /\ state[p] \in {"awaiting-baseline", "live"} /\ wire[p] # <<>>
        /\ wire' = [wire EXCEPT ![p] = Tail(@)]
        /\ IF v = "rejected"
           THEN /\ state' = [state EXCEPT ![p] = "protocol-error"]
                /\ acceptance' = [acceptance EXCEPT ![p] = NewAcceptance]
                /\ open' = [open EXCEPT ![p] = FALSE] /\ sub' = [sub EXCEPT ![p] = None]
           ELSE /\ state' = [state EXCEPT ![p] = IF v = "baseline" THEN "live" ELSE @]
                /\ acceptance' = [acceptance EXCEPT ![p] = Accepted(a, m)]
                /\ UNCHANGED <<open, sub>>
        /\ shown' = [shown EXCEPT ![p] = IF v = "cue" /\ FitsPicture(p, m)
                                         THEN Append(@, m) ELSE @]
        /\ UNCHANGED <<runtimeVars, laneVars, picture, joined, faults>>

\* observeProgramSnapshot: the page's picture moves on, on the snapshot
\* channel; a change of continuity drops the socket and connects at once.
SeesSnapshot(p) ==
    \E i \in (picture[p] + 1)..Len(moments) :
        /\ picture' = [picture EXCEPT ![p] = i]
        /\ IF picture[p] # 0 /\ state[p] \notin {"idle", "protocol-error"}
           THEN Connecting(p)
           ELSE UNCHANGED <<state, acceptance, connVars>>
        /\ UNCHANGED <<runtimeVars, laneVars, joined, shown, faults>>

\* onclose and handleRetry
SeesClose(p) ==
    /\ state[p] \in {"awaiting-baseline", "live"} /\ ~open[p]
    /\ state' = [state EXCEPT ![p] = "reconnecting"]
    /\ acceptance' = [acceptance EXCEPT ![p] = NewAcceptance]
    /\ UNCHANGED <<runtimeVars, laneVars, connVars, picture, joined, shown, faults>>

-----------------------------------------------------------------------------
(* Faults *)

\* The connection breaks, or the server ends it; what was on its way may
\* still arrive.
Break(p) ==
    /\ open[p] /\ faults < MaxFaults
    /\ faults' = faults + 1
    /\ open' = [open EXCEPT ![p] = FALSE] /\ sub' = [sub EXCEPT ![p] = None]
    /\ UNCHANGED <<runtimeVars, laneVars, wire, pageVars>>

\* The companion dies and starts again as a new producer.
Restart ==
    LET r == [producer |-> Runtime.producer + 1, context |-> 0, generation |-> 0]
    IN  /\ faults < MaxFaults /\ Len(moments) < MaxMoments
        /\ faults' = faults + 1
        /\ moments' = Append(moments, r)
        /\ source' = [state |-> "connecting", generation |-> 0, sequence |-> 0]
        /\ observed' = <<0, 0>> /\ lastState' = "connecting" /\ rebased' = 0
        /\ current' = Message(1, Cursor(r, 0), 0) /\ channelSeq' = 1
        /\ sub' = [p \in Pages |-> None] /\ open' = [p \in Pages |-> FALSE]
        /\ UNCHANGED <<wire, pageVars>>

-----------------------------------------------------------------------------

PageStep(p) == Connect(p) \/ Attach(p) \/ Receives(p) \/ SeesClose(p) \/ SeesSnapshot(p)

Next ==
    \/ ContextChanges \/ TelemetryRestarts \/ Restart
    \/ SourceGoesLive \/ SourceDrops \/ SourceReconnects
    \/ \E projects \in BOOLEAN : Observe(projects)
    \/ \E p \in Pages : PageStep(p) \/ Written(p) \/ TimePasses(p) \/ Break(p)

Spec == Init /\ [][Next]_vars

\* Sockets take their messages and pages run; sources and faults need not act.
FairSpec == Spec /\ \A p \in Pages : WF_vars(PageStep(p)) /\ WF_vars(Written(p))

-----------------------------------------------------------------------------
(* Properties *)

\* The shape of the lane's state: no subscriber's queue exceeds the limit, and no
\* page shows a picture that was not published.
TypeOK ==
    /\ moments \in Seq([producer : Nat, context : Nat, generation : Nat])
    /\ source \in [state : {"connecting", "live", "reconnecting"},
                   generation : 0..MaxGenerations, sequence : 0..MaxEvents]
    /\ observed \in Nat \X Nat /\ rebased \in Nat
    /\ lastState \in {"connecting", "live", "reconnecting"}
    /\ current \in Messages /\ channelSeq \in Nat
    /\ \A p \in Pages :
          /\ sub[p] = None \/ (sub[p] \in Subscriber
                               /\ sub[p].late <= Len(sub[p].queue)
                               /\ Len(sub[p].queue) <= MaxPending)
          /\ wire[p] \in Seq(Messages) /\ open[p] \in BOOLEAN
          /\ state[p] \in {"idle", "connecting", "awaiting-baseline", "live",
                           "reconnecting", "protocol-error"}
          /\ acceptance[p].baseline \in Messages \cup {None} /\ acceptance[p].last \in Nat
          /\ picture[p] \in 0..Len(moments) /\ joined[p] \in Nat
          /\ shown[p] \in Seq(Messages)

\* One cue identity comes before another in the broadcast.
Before(a, b) ==
    \/ a[1] < b[1]
    \/ a[1] = b[1] /\ (a[2] < b[2] \/ (a[2] = b[2] /\ a[3] < b[3]))

\* A page emits each cue at most once and in the order of the broadcast,
\* across resubscriptions, broken sockets and restarts of the companion.
CuesOnceInOrder ==
    \A p \in Pages : \A i, j \in DOMAIN shown[p] :
        i < j => Before(CueId(shown[p][i]), CueId(shown[p][j]))

\* The rejections of acceptProgramCue end a page's lane for good.  This
\* producer never causes one, whatever it drops, clears or restarts.
NeverProtocolError == \A p \in Pages : state[p] # "protocol-error"

\* Between two events the lane's baseline names the map, session and source
\* generation that the next cue will carry.
BaselineIsCurrent ==
    current.cursor = Cursor(Runtime, source.generation) /\ rebased = Runtime.generation

\* What holds of the lane and of its pages at all times (program-cue-publisher.ts drain,
\* program-cue-acceptance.ts acceptProgramCue, program-cue-coordinator.ts).
LaneInv == TypeOK /\ CuesOnceInOrder /\ NeverProtocolError /\ BaselineIsCurrent

\* A page emits nothing that was published before it subscribed.
NoReplay ==
    [][\A p \in Pages : shown'[p] # shown[p] => Last(shown'[p]).seq > joined[p]]_vars

\* When the faults end, every page ends up in the lane of the current baseline.
EveryPageIsLive ==
    \A p \in Pages :
        <>[](state[p] = "live" /\ acceptance[p].baseline.cursor = current.cursor)
=============================================================================
