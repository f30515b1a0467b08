---------------------------- MODULE QualificationRun ----------------------------
(***************************************************************************)
(* The evidence of a qualification run: the markers an operator sets while *)
(* one demo is played, the next execution is started, CS2 is opened again  *)
(* and a second demo is played (qualification/controller.ts, evidence.ts), *)
(* and the two verdicts over them, that of the page while the run goes on  *)
(* (evaluateChecks) and that of the evidence afterwards                    *)
(* (scripts/qualification/evidence/scenario.mjs and checks.mjs).           *)
(*                                                                         *)
(* Every frame and every marker takes the next stamp of the companion's    *)
(* monotonic clock, which starts anew with each process; stamps are so     *)
(* fine that those of two processes never coincide.  The sequence          *)
(* numbers of frames and of the runtime grow with these stamps and are     *)
(* left out, as are the marker cs2-closed and the check of the silence,    *)
(* the rotation of the recorder, the checkpoints of the hosts, the profile *)
(* of objective timing, and the frames of the capture, which holds all     *)
(* that are accepted.                                                      *)
(***************************************************************************)
EXTENDS Integers, Sequences

CONSTANTS
    MaxTransitions,     \* DEBUG_RECENT_TRANSITIONS_MAX
    QualMaps            \* map names, without "none"

\* Bounds of the exploration, no part of the program.
CONSTANTS
    MaxQualFrames,      \* frames that are no disturbance
    MaxDisturbances,    \* further frames, silences, failing writes, controlled restarts and
                        \* further requests for the next execution, together
    MaxUnderWay         \* writes at a time

Kinds == {"demo-a-live", "cs2-reopened", "demo-b-live"}
LiveKinds == {"demo-a-live", "demo-b-live"}     \* QUALIFICATION_LIVE_MARKER_KINDS

ASSUME QualAssumption ==
    MaxTransitions \in Nat \ {0} /\ QualMaps # {} /\ "none" \notin QualMaps
ASSUME QualBounds == {MaxQualFrames, MaxDisturbances, MaxUnderWay} \subseteq Nat

VARIABLES
    service,        \* [process, now, generation, epoch, map, telemetry, silent]
    accepted,       \* programSource.lastAccepted: [at, epoch, mapResets], or NotAccepted; epoch
                    \* and mapResets, of the moment it came, are no part of it
    transitions,    \* recentTransitions, of which map_execution_changed
    lastFreshness,
    markers,        \* in memory, and after each completed write the same in scenario.jsonl
    writes,         \* writeChain: [marker, next]
    outcome         \* final-runtime.json: [fresh, transitions], or NotEnded

\* No variables of the program.
VARIABLES
    mapResets,      \* resets of the map execution so far
    seen            \* [frames, disturbances, stale]; stale: a page was told so

qualVars == <<service, accepted, transitions, lastFreshness, markers, writes, outcome, mapResets,
              seen>>

NotAccepted == [at |-> -1]
NotEnded == [fresh |-> "not ended"]
NoReset == [accepted |-> FALSE]

Disturbance ==
    /\ seen.disturbances < MaxDisturbances
    /\ seen' = [seen EXCEPT !.disturbances = @ + 1]

\* The stamps of process p are p - 1, p - 1 + Processes, p - 1 + 2 * Processes and so on, so those
\* of two processes never coincide.
Processes == MaxDisturbances + 1
Tick == service.now + Processes

QualInit ==
    /\ service = [process |-> 1, now |-> 0, generation |-> 0, epoch |-> 0, map |-> "none",
                  telemetry |-> FALSE, silent |-> FALSE]
    /\ accepted = NotAccepted /\ transitions = <<>> /\ lastFreshness = "none"
    /\ markers = <<>> /\ writes = <<>> /\ outcome = NotEnded
    /\ mapResets = 0
    /\ seen = [frames |-> 0, disturbances |-> 0, stale |-> FALSE]

-----------------------------------------------------------------------------
(* The runtime *)

FreshnessOfSource ==     \* Mutant: it does not matter whether the telemetry was cleared.
    IF service.epoch = 0 THEN "awaiting" ELSE IF service.silent THEN "stale" ELSE "fresh"

\* getProgramSourceFreshness
Freshness == IF ~service.telemetry THEN "awaiting" ELSE IF service.silent THEN "stale" ELSE "fresh"

LastTransitions(ts) ==
    IF Len(ts) > MaxTransitions THEN SubSeq(ts, Len(ts) - MaxTransitions + 1, Len(ts)) ELSE ts

Changed(reason, at, from) ==
    transitions' = LastTransitions(Append(transitions,
        [reason |-> reason, at |-> at, from |-> from, to |-> from + 1, process |-> service.process,
         generation |-> service'.generation]))

\* The frame names another map than the one known.
OtherMap(map) == map # "none" /\ service.map \notin {"none", map}

\* dispatchObservation: a frame after silence advances the generation, the first map and every
\* other map the epoch.  A frame may be without a map block, map = "none", and leaves both alone.
FrameArrives(map) ==
    /\ outcome = NotEnded
    /\ IF seen.frames < MaxQualFrames THEN seen' = [seen EXCEPT !.frames = @ + 1] ELSE Disturbance
    /\ service' = [service EXCEPT !.now = Tick, !.telemetry = TRUE, !.silent = FALSE,
                       !.map = IF map = "none" THEN @ ELSE map,
                       !.generation = IF service.silent THEN @ + 1 ELSE @,
                       !.epoch = IF (@ = 0 /\ map # "none") \/ OtherMap(map) THEN @ + 1 ELSE @]
    /\ accepted' = [at |-> Tick, epoch |-> service'.epoch, mapResets |-> mapResets]
    /\ IF service.epoch > 0 /\ OtherMap(map)
       THEN Changed("observed-map-name-change", Tick, service.epoch)
       ELSE UNCHANGED transitions
    /\ UNCHANGED <<lastFreshness, markers, writes, outcome, mapResets>>

\* Nothing comes for longer than staleAfterMs.
FallsSilent ==
    /\ outcome = NotEnded /\ accepted # NotAccepted /\ ~service.silent
    /\ Disturbance
    /\ service' = [service EXCEPT !.silent = TRUE]
    /\ UNCHANGED <<accepted, transitions, lastFreshness, markers, writes, outcome, mapResets>>

-----------------------------------------------------------------------------
(* Markers *)

\* recordMarker up to its await; mapResets is no part of the marker.
Marker(kind, phase, reset, count) ==
    [kind |-> kind, phase |-> phase, at |-> service'.now, process |-> service.process,
     epoch |-> service'.epoch, generation |-> service.generation, freshness |-> Freshness',
     observation |-> accepted, reset |-> reset, mapResets |-> count]

Records(kind, phase, reset, next) ==
    /\ service' = [service EXCEPT !.now = Tick]
    /\ writes' = Append(writes, [marker |-> Marker(kind, phase, reset, mapResets), next |-> next])

\* The operator sets every other marker once, or again when its write failed.
Requested(kind) ==
    {i \in 1..Len(markers) : markers[i].kind = kind} # {}
        \/ {i \in 1..Len(writes) : writes[i].marker.kind = kind} # {}

Request == outcome = NotEnded /\ Len(writes) < MaxUnderWay

\* POST /qualification/marker.
OperatorMarks(kind) ==
    /\ Request /\ ~Requested(kind)
    /\ kind \in LiveKinds => Freshness = "fresh" /\ accepted # NotAccepted
    /\ Records(kind, "none", NoReset, [then |-> "answer"])
    /\ UNCHANGED <<accepted, transitions, lastFreshness, markers, outcome, mapResets, seen>>

\* POST /qualification/next-map-execution: beforeEpoch is read before the marker is written.
AsksForNextExecution ==
    /\ Request
    /\ IF Requested("next-execution") THEN Disturbance ELSE UNCHANGED seen
    /\ Records("next-execution", "before", NoReset, [then |-> "reset", beforeEpoch |-> service.epoch])
    /\ UNCHANGED <<accepted, transitions, lastFreshness, markers, outcome, mapResets>>

\* The companion reports its final runtime and ends, when the writes under way are done.
Ends == outcome' = [fresh |-> Freshness, transitions |-> transitions]

\* observeFreshness, and after it the answer.
Observes(then) ==
    /\ IF Freshness = "stale" /\ lastFreshness # "stale"
       THEN /\ Request
            /\ Records("runtime-stale", "none", NoReset, [then |-> then])
            /\ UNCHANGED <<lastFreshness, outcome, seen>>
       ELSE /\ outcome = NotEnded
            /\ lastFreshness' = Freshness
            /\ seen' = [seen EXCEPT !.stale = @ \/ Freshness = "stale"]
            /\ IF then = "finish" THEN Ends ELSE UNCHANGED outcome
            /\ UNCHANGED <<service, writes>>
    /\ UNCHANGED <<accepted, transitions, markers, mapResets>>

\* GET /qualification/status and POST /qualification/finish.
PageAsksForStatus == Observes("status")
OperatorFinishes == Observes("finish")

-----------------------------------------------------------------------------
(* The write chain *)

\* resetMapExecution, onAcceptedMapReset, and the marker with the evidence of the reset.  It
\* is refused as long as no map is known, and recorded all the same.
ResetsMapExecution(beforeEpoch) ==
    LET ok == service.epoch > 0
        epoch == IF ok THEN service.epoch + 1 ELSE 0
        telemetry == service.telemetry /\ ~ok
        evidence == [accepted |-> ok, previousEpoch |-> beforeEpoch, epoch |-> epoch,
                     cleared |-> ~telemetry]
    IN  /\ service' = [service EXCEPT !.now = Tick, !.epoch = epoch, !.telemetry = telemetry]
        /\ mapResets' = IF ok THEN mapResets + 1 ELSE mapResets
        /\ IF ok THEN Changed("explicit-reset", Tick, service.epoch) ELSE UNCHANGED transitions
        /\ UNCHANGED accepted
        /\ writes' = Append(Tail(writes),
               [marker |-> Marker("next-execution", "after", evidence, mapResets'),
                next |-> [then |-> "answer"]])

\* The line is appended to the file, and then the marker to memory.
MarkerIsWritten ==
    /\ writes # <<>>
    /\ markers' = Append(markers, Head(writes).marker)
    /\ LET next == Head(writes).next IN
       /\ IF next.then = "reset" THEN ResetsMapExecution(next.beforeEpoch)
          ELSE /\ writes' = Tail(writes)
               /\ UNCHANGED <<service, accepted, transitions, mapResets>>
       /\ IF next.then \in {"status", "finish"}
          THEN lastFreshness' = "stale" /\ seen' = [seen EXCEPT !.stale = TRUE]
          ELSE UNCHANGED <<lastFreshness, seen>>
       /\ IF next.then = "finish" /\ outcome = NotEnded THEN Ends ELSE UNCHANGED outcome

\* The request is answered with an error and nothing follows from it.
MarkerIsNotWritten ==
    /\ writes # <<>>
    /\ Disturbance
    /\ writes' = Tail(writes)
    /\ UNCHANGED <<service, accepted, transitions, lastFreshness, markers, outcome, mapResets>>

-----------------------------------------------------------------------------
(* The end of a process *)

\* Exit code 75: the supervisor starts another process over the same run, which reads the
\* file.  Its clock starts anew, at less or more than where the old one was, and the outbox
\* may have kept the epoch and the map for it.
ServiceRestarts(now, epoch) ==
    /\ outcome = NotEnded /\ writes = <<>>
    /\ Disturbance
    /\ now \in {service.process, service.now + 1} /\ epoch \in {0, service.epoch}
    /\ service' = [process |-> service.process + 1, now |-> now, generation |-> 0,
                   epoch |-> epoch, map |-> IF epoch = 0 THEN "none" ELSE service.map,
                   telemetry |-> FALSE, silent |-> FALSE]
    /\ accepted' = NotAccepted /\ transitions' = <<>> /\ lastFreshness' = "none"
    /\ UNCHANGED <<markers, writes, outcome, mapResets>>

-----------------------------------------------------------------------------
(* The checks that the page and the evidence share *)

Is(kind, phase) == {i \in 1..Len(markers) : markers[i].kind = kind /\ markers[i].phase = phase}
Found(kind, phase) == Is(kind, phase) # {}
FirstIndex(kind, phase) == CHOOSE i \in Is(kind, phase) : \A j \in Is(kind, phase) : i <= j
First(kind, phase) == markers[FirstIndex(kind, phase)]

Before == First("next-execution", "before")
After == First("next-execution", "after")
Asked == Found("next-execution", "before")
Answered == Found("next-execution", "after")

\* resetPassed and markerResetPassed
ResetPassed ==
    /\ Asked /\ Answered
    /\ After.epoch > Before.epoch
    /\ After.generation = Before.generation /\ After.process = Before.process
    /\ After.reset.accepted
    /\ After.reset.previousEpoch = Before.epoch /\ After.reset.epoch = After.epoch
    /\ After.reset.cleared

\* observedMapBoundaryPassed
BoundaryPassed(marker, ts) ==
    \E i \in 1..Len(ts) :
        /\ ts[i].reason = "observed-map-name-change"
        /\ ts[i].from = After.epoch /\ ts[i].to = marker.epoch
        /\ ts[i].process = marker.process /\ ts[i].generation = marker.generation
        /\ ts[i].at > After.at /\ ts[i].at < marker.observation.at

InSecondExecution(marker, ts) ==
    /\ Answered
    /\ marker.observation.at > After.at
    /\ marker.epoch = After.epoch \/ BoundaryPassed(marker, ts)

-----------------------------------------------------------------------------
(* The verdict of the page *)

LiveProductionChain ==
    /\ Found("demo-a-live", "none")
    /\ LET marker == First("demo-a-live", "none") IN
       /\ marker.freshness = "fresh" /\ marker.epoch > 0
       /\ Asked => marker.at < Before.at /\ marker.observation.at < Before.at

LiveDemoBRecovery ==
    /\ Found("cs2-reopened", "none") /\ ResetPassed /\ Found("demo-b-live", "none")
    /\ LET marker == First("demo-b-live", "none") IN
       /\ marker.freshness = "fresh"
       /\ Answered /\ marker.at > After.at
       /\ InSecondExecution(marker, outcome.transitions)
    /\ outcome.fresh = "fresh"

(* The verdict of the evidence *)

\* readScenario: stamps that go back make the whole run unreadable.
Readable == \A i, j \in 1..Len(markers) : i < j => markers[i].at <= markers[j].at

\* A frame that arrived before the reset was asked for, if the marker that names it did.
FinalProductionChain ==
    /\ Found("demo-a-live", "none")
    /\ Asked => /\ FirstIndex("demo-a-live", "none") < FirstIndex("next-execution", "before")
                /\ First("demo-a-live", "none").observation.at < Before.at

\* hasOrderedMarkers: next-execution, cs2-reopened, demo-b-live.
ReopenedBeforeB ==
    \E i, j, k \in 1..Len(markers) :
        /\ i < j /\ j < k
        /\ markers[i].kind = "next-execution" /\ markers[j].kind = "cs2-reopened"
        /\ markers[k].kind = "demo-b-live"

FinalDemoBRecovery ==
    /\ ReopenedBeforeB /\ ResetPassed
    /\ FirstIndex("demo-b-live", "none") > FirstIndex("next-execution", "after")
    /\ InSecondExecution(First("demo-b-live", "none"), outcome.transitions)
    /\ outcome.fresh = "fresh"

QualNext ==
    \/ \E m \in QualMaps \cup {"none"} : FrameArrives(m)
    \/ FallsSilent
    \/ \E k \in Kinds : OperatorMarks(k)
    \/ AsksForNextExecution
    \/ PageAsksForStatus
    \/ MarkerIsWritten
    \/ MarkerIsNotWritten
    \/ \E now \in {service.process, service.now + 1}, epoch \in {0, service.epoch} :
           ServiceRestarts(now, epoch)
    \/ OperatorFinishes

QualSpec == QualInit /\ [][QualNext]_qualVars

-----------------------------------------------------------------------------
(* Properties *)

QualTypeOK ==
    /\ service.process \in 1..MaxDisturbances + 1
    /\ {service.epoch, service.generation, mapResets} \subseteq Nat
    /\ Len(transitions) <= MaxTransitions
    /\ \A i \in 1..Len(writes) : writes[i].next.then \in {"answer", "reset", "status", "finish"}
    /\ outcome.fresh \in {"not ended", "awaiting", "fresh", "stale"}

\* A live marker names a frame of the very map execution it names, whatever resets are under way
\* when it is asked for: what a reset cleared is not taken for the next demo (controller.ts:704,
\* evidence.ts:201).
LiveMarkersShowTheirExecution ==
    \A i \in 1..Len(markers) : markers[i].kind \in LiveKinds =>
        /\ markers[i].observation.mapResets = markers[i].mapResets
        /\ markers[i].observation.epoch = markers[i].epoch

\* Once a page was told that the data are stale there is a marker that says so, although the
\* pages ask while another answer waits for its write (evidence.ts observeFreshness).
StaleIsRecorded == seen.stale => Found("runtime-stale", "none")

Ended == outcome # NotEnded /\ writes = <<>> /\ Readable

\* The page and the evidence, which compute the checks on their own, agree in the end up to one
\* difference: the page takes a first demo if and only if the evidence does and its marker names
\* a map execution, which the evidence does not ask for (controller.ts:231, checks.mjs:133) and a
\* marker set before any frame named a map does not.  The evidence accepts no second demo the
\* page does not (controller.ts evaluateChecks, checks.mjs checksFrom).
VerdictsAgree ==
    Ended => /\ LiveProductionChain <=>
                   FinalProductionChain /\ First("demo-a-live", "none").epoch > 0
             /\ FinalDemoBRecovery => LiveDemoBRecovery

\* A second demo that passes is one that was played after the reset whose evidence it names, across
\* overlapping requests, failing writes and restarts of the service (checks.mjs:117).
SecondDemoIsNew ==
    Ended /\ FinalDemoBRecovery =>
        LET marker == First("demo-b-live", "none") IN
        marker.observation.mapResets >= After.mapResets /\ After.mapResets > 0

\* What holds of the evidence of a run at all times.
QualificationInv ==
    QualTypeOK /\ LiveMarkersShowTheirExecution /\ StaleIsRecorded /\ VerdictsAgree /\ SecondDemoIsNew
=============================================================================
