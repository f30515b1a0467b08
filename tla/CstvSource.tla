------------------------------- MODULE CstvSource -------------------------------
(***************************************************************************)
(* One CSTV source: the manager that connects to the broadcast, starts     *)
(* over after a failure, and stops (telemetry/cstv-source-manager.ts), and *)
(* the session each attempt creates (telemetry-cstv/src/session.ts).       *)
(*                                                                         *)
(* The parser is external: it syncs, emits events, and ends each of its    *)
(* two calls at any time and in any way; what it still had decoded may     *)
(* arrive after the attempt is over.  Left out: diagnostics, ticks and     *)
(* clock samples, the health listeners.                                    *)
(***************************************************************************)
EXTENDS Integers, Sequences, SequencesExt

CONSTANTS MaxRecent,                        \* CSTV_RECENT_GAME_EVENTS_MAX
          BackoffSteps,                     \* the length of CSTV_RECONNECT_BACKOFF_MS
          MaxCstvGenerations, MaxCstvEvents \* bounds

ASSUME CstvAssumption == {MaxRecent, BackoffSteps} \subseteq Nat \ {0}
ASSUME CstvBounds == MaxCstvGenerations \in Nat \ {0} /\ MaxCstvEvents \in Nat

VARIABLES
    cstvSource,     \* [state, generation, next, tries, started]: tries is reconnectAttempt
    reconnect,      \* [scheduled, pending, step]: the flag, the timer, its index of the backoff
    attempt,        \* activeAttempt: "none", "starting" or "running"
    stopRequested,
    recent,         \* recentGameEvents: [generation, sequence]
    heard,          \* the last event the live listeners were given
    parsers         \* [generation -> events emitted], for each parser that may still call back

cstvVars == <<cstvSource, reconnect, attempt, stopRequested, recent, heard, parsers>>

NothingHeard == [generation |-> 0, sequence |-> -1]

CstvInit ==
    /\ cstvSource = [state |-> "stopped", generation |-> 0, next |-> 0, tries |-> 0, started |-> FALSE]
    /\ reconnect = [scheduled |-> FALSE, pending |-> FALSE, step |-> 0]
    /\ attempt = "none"
    /\ stopRequested = FALSE
    /\ recent = <<>> /\ heard = NothingHeard
    /\ parsers = <<>>

-----------------------------------------------------------------------------
IsCurrentGeneration(g) == ~stopRequested /\ cstvSource.generation = g

\* isCurrent, for the attempt of a generation; there is one session for each.
IsCurrent(g) == ~stopRequested /\ cstvSource.generation = g

\* scheduleReconnect, from a source that is not stopping: at and flag are the source and the
\* timer it is called with.
ScheduleReconnect(at, flag) ==
    IF flag.scheduled
    THEN cstvSource' = at /\ reconnect' = flag
    ELSE /\ cstvSource' = [at EXCEPT !.state = "reconnecting", !.tries = @ + 1,
                                 !.next = at.generation + 1]
         /\ reconnect' = [scheduled |-> TRUE, pending |-> TRUE,
                          step |-> IF at.tries < BackoffSteps THEN at.tries + 1 ELSE BackoffSteps]

\* connect: the parser's start() is under way, or the parser could not be created.
ConnectSource(at, flag) ==
    LET connecting == [at EXCEPT !.generation = at.next, !.state = "connecting"] IN
    \/ /\ cstvSource' = connecting
       /\ reconnect' = flag
       /\ attempt' = "starting"
       /\ parsers' = [g \in DOMAIN parsers \cup {at.next} |->
                         IF g = at.next THEN 0 ELSE parsers[g]]
    \/ ScheduleReconnect(connecting, flag) /\ UNCHANGED <<attempt, parsers>>

SourceStarts ==
    /\ ~cstvSource.started /\ ~stopRequested
    /\ ConnectSource([cstvSource EXCEPT !.started = TRUE], reconnect)
    /\ UNCHANGED <<stopRequested, recent, heard>>

TimerFires ==
    /\ reconnect.pending /\ cstvSource.generation < MaxCstvGenerations
    /\ ConnectSource(cstvSource, [reconnect EXCEPT !.pending = FALSE, !.scheduled = FALSE])
    /\ UNCHANGED <<stopRequested, recent, heard>>

\* The parser of an attempt that is over may have decoded more than it has emitted.
AttemptIsOver ==
    /\ attempt' = "none"
    /\ \/ UNCHANGED parsers
       \/ parsers' = [h \in DOMAIN parsers \ {cstvSource.generation} |-> parsers[h]]

\* runAttempt after session.start(): ready, or timeout, cancelled or an error.
StartEnds ==
    /\ attempt = "starting"
    /\ IF ~IsCurrent(cstvSource.generation)
       THEN AttemptIsOver /\ UNCHANGED <<cstvSource, reconnect>>
       ELSE \/ /\ cstvSource' = [cstvSource EXCEPT !.state = "live"]
               /\ attempt' = "running"
               /\ UNCHANGED <<reconnect, parsers>>
            \/ ScheduleReconnect(cstvSource, reconnect) /\ AttemptIsOver
    /\ UNCHANGED <<stopRequested, recent, heard>>

\* runAttempt after session.run(): the broadcast is complete, or was lost.
RunEnds ==
    /\ attempt = "running"
    /\ AttemptIsOver
    /\ IF ~IsCurrent(cstvSource.generation)
       THEN UNCHANGED <<cstvSource, reconnect>>
       ELSE \/ cstvSource' = [cstvSource EXCEPT !.state = "ended"] /\ UNCHANGED reconnect
            \/ ScheduleReconnect(cstvSource, reconnect)
    /\ UNCHANGED <<stopRequested, recent, heard>>

\* handleSync: the broadcast is there, so the next failure starts with the shortest wait.
ParserSyncs(g) ==
    /\ IsCurrentGeneration(g)
    /\ cstvSource' = [cstvSource EXCEPT !.tries = 0]
    /\ UNCHANGED <<reconnect, attempt, stopRequested, recent, heard, parsers>>

\* Mutant: events are taken from any parser.
ParserEmitsAnyway(g) ==
    LET event == [generation |-> g, sequence |-> parsers[g]] IN
    /\ FoldFunction(+, 0, parsers) < MaxCstvEvents
    /\ parsers' = [parsers EXCEPT ![g] = @ + 1]
    /\ recent' = (IF Len(recent) < MaxRecent THEN recent ELSE Tail(recent)) \o <<event>>
    /\ heard' = IF cstvSource.state = "live" THEN event ELSE heard
    /\ UNCHANGED <<cstvSource, reconnect, attempt, stopRequested>>

\* onEvent of the session, then handleObservation.
ParserEmits(g) ==
    LET event == [generation |-> g, sequence |-> parsers[g]] IN
    /\ FoldFunction(+, 0, parsers) < MaxCstvEvents
    /\ parsers' = [parsers EXCEPT ![g] = @ + 1]
    /\ IF ~IsCurrentGeneration(g)
       THEN UNCHANGED <<recent, heard>>
       ELSE /\ recent' = (IF Len(recent) < MaxRecent THEN recent ELSE Tail(recent)) \o <<event>>
            /\ heard' = IF cstvSource.state = "live" THEN event ELSE heard
    /\ UNCHANGED <<cstvSource, reconnect, attempt, stopRequested>>

\* stop, which then waits for the attempt.
SourceStops ==
    /\ ~stopRequested
    /\ stopRequested' = TRUE
    /\ reconnect' = [reconnect EXCEPT !.scheduled = FALSE, !.pending = FALSE]
    /\ cstvSource' = [cstvSource EXCEPT !.state = "stopped"]
    /\ UNCHANGED <<attempt, recent, heard, parsers>>

CstvNext ==
    \/ SourceStarts \/ TimerFires \/ StartEnds \/ RunEnds \/ SourceStops
    \/ \E g \in DOMAIN parsers : ParserSyncs(g) \/ ParserEmits(g)

CstvSpec == CstvInit /\ [][CstvNext]_cstvVars

-----------------------------------------------------------------------------
(* Properties *)

CstvEvents == [generation : 0..MaxCstvGenerations, sequence : Nat]

CstvTypeOK ==
    /\ cstvSource.state \in {"connecting", "live", "reconnecting", "ended", "stopped"}
    /\ cstvSource.generation \in 0..MaxCstvGenerations
    /\ cstvSource.next \in cstvSource.generation..(cstvSource.generation + 1)
    /\ reconnect.step \in 0..BackoffSteps
    /\ attempt \in {"none", "starting", "running"}
    /\ recent \in Seq(CstvEvents) /\ Len(recent) <= MaxRecent
    /\ heard \in CstvEvents \cup {NothingHeard}

\* A source that was started, not stopped, and did not come to the end of its broadcast is
\* never given up: an attempt of this generation is under way, or the timer of the next one is
\* set, and never both (connect 217-260, scheduleReconnect 364-379).
NeverGivenUp ==
    cstvSource.started /\ ~stopRequested /\ cstvSource.state # "ended" =>
        /\ (attempt = "none") <=> reconnect.pending
        /\ cstvSource.state = "reconnecting" <=> reconnect.pending
        /\ cstvSource.state = "live" <=> attempt = "running"

\* A source that was stopped stays so: no attempt that settles later revives it, and no timer
\* is left to (stop 142-153, isCurrent 288-290).
StoppedForGood == stopRequested => cstvSource.state = "stopped" /\ ~reconnect.pending

\* The recent events are one stream: no event of an abandoned parser between those of the next,
\* none twice and none left out (handleObservation, session.ts onEvent).
RecentIsOneStream ==
    \A i \in 1..(Len(recent) - 1) :
        LET a == recent[i]
            b == recent[i + 1]
        IN  \/ b.generation = a.generation /\ b.sequence = a.sequence + 1
            \/ b.generation > a.generation /\ b.sequence = 0

\* What holds of a source at all times (cstv-source-manager.ts).
CstvInv == CstvTypeOK /\ NeverGivenUp /\ StoppedForGood /\ RecentIsOneStream
=============================================================================
