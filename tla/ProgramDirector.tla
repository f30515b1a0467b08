---------------------------- MODULE ProgramDirector ----------------------------
(***************************************************************************)
(* Which scene the show wants, and when: the choreography of the programme *)
(* director (program-scenes/director.ts) over a match whose phases, clock  *)
(* and telemetry it only observes.  The scene controller is reduced to one *)
(* request that ends, well or not, after a time that OBS may take; module  *)
(* ProgramScenes models it in full.                                        *)
(*                                                                         *)
(* Time passes in units; the director ticks at least once in each.  The    *)
(* timings are constants, and the model is checked with small ones.        *)
(*                                                                         *)
(* What the director remembers belongs to one execution of a map, which it *)
(* knows by a key: a silence of the telemetry, another live session, a     *)
(* lost assignment or another match change the key, and with it the memory *)
(* goes.  The keys are numbered here.                                      *)
(*                                                                         *)
(* Left out: the displayed recommendation, the pause of the BP clock,      *)
(* overtime, which is live play without a halftime, and two losses (of the *)
(* match, its assignment, the telemetry or the trust in them) at a time.   *)
(***************************************************************************)
EXTENDS Integers

CONSTANT Timings    \* DEFAULT_PROGRAM_TIMINGS

\* Bounds and the speed of OBS, no part of the program.
CONSTANTS SeriesLength, FreezeLength, SwitchTime, MaxInterventions

ASSUME DirectorAssumption ==
    Timings \in [{"bpFinal", "intro", "shortIntro", "hudLead", "halftimeLead", "mapResult",
                  "warmupFinal"} -> Nat]
ASSUME DirectorBounds ==
    /\ {SeriesLength, FreezeLength} \subseteq Nat \ {0}
    /\ {SwitchTime, MaxInterventions} \subseteq Nat

VARIABLES
    onAir,       \* the active scene
    reveal,      \* of the BP: "hidden", "revealing", "shown"
    cues,        \* [key, warmupPlayed, introStarted, introFinished, halftimeSeen, resultShown]:
                 \* key is mapKey, and its context is matchKey
    pace,        \* [scene, elapsed, warmup, since, intro]: the scene timed, its elapsed time,
                 \* warmupFinalElapsed, the time since the last tick, introDurationMs
    control,     \* [manual, failed, was]: was is wasProduction
    request      \* the request in flight, or NoRequest; current says that it carries the
                 \* generation of now

\* What the director looks at, and what has happened, for the bounds and the properties.
VARIABLES
    match,       \* [map, stage, seconds, paused, lost, confirmed, half, bpReady, context,
                 \* execution]: seconds left of a freeze, or gone since a result was confirmed in
                 \* calm; the number of the match context and that of the execution
    producing,   \* production(): live or hidden
    calm,        \* nothing disturbed the director since this map's first freeze began
    played,      \* what went on air by itself in this execution, as far as it matters, and
                 \* whether the BP did in this context
    interventions

choreography == <<onAir, reveal, cues, pace, control, request>>
surroundings == <<match, producing>>
directorVars == <<choreography, surroundings, calm, played, interventions>>

NoScene == "none"
NoRequest == [target |-> NoScene]

\* The phases of one map: map.phase, round.phase and the score at half time.
Stages == {"warmup", "first freeze", "live", "halftime", "second freeze", "over"}
Freezes == {"first freeze", "second freeze"}

\* What may be missing: trust in the context or the identities, frames of the game, the map of
\* the series that is played, the match.
Losses == {"trust", "telemetry", "assignment", "context"}

Safe == match.lost = "nothing"

\* contextKey and executionKey: no map of the series is current when it is not known which, or
\* when the series is over.
Key ==
    [context |-> IF match.lost = "context" THEN 0 ELSE match.context,
     execution |-> match.execution,
     assigned |-> match.lost # "assignment" /\ ~(match.confirmed /\ match.map = SeriesLength)]

NoKey == [context |-> 0, execution |-> 0, assigned |-> FALSE]

FreshCues(key, warmup) ==
    [key |-> key, warmupPlayed |-> warmup, introStarted |-> FALSE, introFinished |-> FALSE,
     halftimeSeen |-> FALSE, resultShown |-> FALSE]

DirectorInit ==
    /\ onAir = "waiting" /\ reveal = "hidden"
    /\ cues = FreshCues(NoKey, FALSE)
    /\ pace = [scene |-> "waiting", elapsed |-> 0, warmup |-> 0, since |-> 0,
               intro |-> Timings.intro]
    /\ control = [manual |-> FALSE, failed |-> FALSE, was |-> FALSE]
    /\ request = NoRequest
    /\ \E ready \in BOOLEAN :
       match = [map |-> 1, stage |-> "warmup", seconds |-> 0, paused |-> FALSE,
               lost |-> "nothing", confirmed |-> FALSE, half |-> FALSE, bpReady |-> ready,
               context |-> 1, execution |-> 1]
    /\ producing = FALSE
    /\ calm = FALSE /\ played = {} /\ interventions = 0

-----------------------------------------------------------------------------
(* What a tick decides *)

\* isRegulationHalftime: the intermission, or a pause while the score is still twelve.
IsHalftime == match.stage = "halftime" \/ (match.stage = "second freeze" /\ match.paused)

Remaining == IF match.stage \in Freezes /\ ~match.paused THEN match.seconds ELSE 0

\* The first freeze of a map, as long as the HUD need not be up yet.
FirstFreeze(c) ==
    /\ match.stage = "first freeze" /\ match.seconds > 0
    /\ ~c.introFinished
    /\ Remaining > Timings.hudLead

Summary == IF match.map = SeriesLength THEN "match_result" ELSE "intermap"

\* The second half is played out from the halftime scene.
LeavingHalftime(c) == c.halftimeSeen /\ onAir = "halftime"

OpeningTarget(c, elapsed) ==
    IF c.introStarted
    THEN CASE onAir = "matchup" -> IF elapsed >= pace.intro THEN "gameplay" ELSE NoScene
           [] onAir = "bp" ->
                IF elapsed >= Timings.bpFinal \/ Remaining <= Timings.intro + Timings.hudLead
                THEN "matchup" ELSE NoScene
           [] OTHER -> NoScene
    ELSE LET budget == Remaining - Timings.hudLead IN
         IF budget >= Timings.bpFinal + Timings.intro /\ match.bpReady THEN "bp"
         ELSE IF budget >= Timings.shortIntro THEN "matchup"
         ELSE "gameplay"

\* What should be on air, given the cues and the times of this tick.
Target(c, elapsed, warmup) ==
    CASE match.stage = "over" /\ match.confirmed ->
           IF ~c.resultShown THEN "map_result"
           ELSE IF onAir = "map_result" /\ elapsed >= Timings.mapResult THEN Summary
           ELSE NoScene
      [] match.stage # "over" /\ IsHalftime -> "halftime"
      [] match.stage # "over" /\ ~IsHalftime /\ LeavingHalftime(c) ->
           IF match.stage = "live" \/ Remaining \in 1..Timings.halftimeLead
           THEN "gameplay" ELSE NoScene
      [] match.stage = "warmup" /\ ~LeavingHalftime(c) ->
           IF ~c.warmupPlayed /\ match.bpReady THEN "bp"
           ELSE IF onAir = "bp" /\ reveal = "shown" /\ warmup >= Timings.warmupFinal
           THEN "waiting" ELSE NoScene
      [] match.stage \in {"live"} \cup Freezes /\ ~IsHalftime /\ ~LeavingHalftime(c) ->
           IF FirstFreeze(c) THEN OpeningTarget(c, elapsed) ELSE "gameplay"
      [] OTHER -> NoScene

\* Mutant: that the opening is over is not kept.
NotedHalftime(c, target, manual) == [c EXCEPT !.halftimeSeen = @ \/ IsHalftime]

\* The cues a tick takes note of before it asks for a scene.
Noted(c, target, manual) ==
    [c EXCEPT !.halftimeSeen = @ \/ IsHalftime,
              !.introFinished = @ \/ /\ target = "gameplay" /\ ~manual
                                     /\ ~LeavingHalftime(c)]

\* What a scene that is on air, by request or already, ticks off.
Reached(c, target, final) ==
    [c EXCEPT !.introStarted = @ \/ target = "matchup" \/ final,
              !.warmupPlayed = @ \/ (target = "bp" /\ ~final),
              !.resultShown = @ \/ target = "map_result"]

SameContext == cues.key.context = Key.context

\* A new execution starts with fresh cues, but the warmup BP is played once a context; the
\* halftime scene still on air in the second half's freeze says that there was a halftime.
CuesOfThisExecution ==
    LET c == IF cues.key = Key THEN cues ELSE FreshCues(Key, SameContext /\ cues.warmupPlayed) IN
    [c EXCEPT !.halftimeSeen = @ \/ /\ onAir = "halftime" /\ ~match.paused
                                    /\ match.stage = "second freeze"]

-----------------------------------------------------------------------------
(* Ticks *)

\* A time is only compared with some of the timings: counting stops at the longest of them.
Counted(time, timings) ==
    IF \E t \in timings : time <= Timings[t] THEN time ELSE time - 1

TickAsks(c, sofar, warmedup, manual) ==
    LET elapsed == Counted(sofar + (IF manual \/ match.paused THEN 0 ELSE pace.since),
                           {"bpFinal", "intro", "shortIntro", "mapResult"})
        warmup == Counted(warmedup + (IF /\ match.stage = "warmup" /\ ~manual /\ onAir = "bp"
                                         /\ reveal = "shown" /\ (c.warmupPlayed \/ ~match.bpReady)
                                      THEN pace.since ELSE 0),
                          {"warmupFinal"})
        target == Target(c, elapsed, warmup)
        final == target = "bp" /\ match.stage # "warmup"
        noted == Noted(c, target, manual)
        timed == [pace EXCEPT !.scene = onAir, !.elapsed = elapsed, !.warmup = warmup,
                              !.since = 0,
                              !.intro = IF target # "matchup" THEN @
                                        ELSE IF Remaining >= Timings.intro + Timings.hudLead
                                        THEN Timings.intro ELSE Timings.shortIntro]
    IN  IF target = NoScene \/ manual
        THEN cues' = noted /\ pace' = timed /\ UNCHANGED <<request, reveal>>
        ELSE IF target = onAir
        THEN /\ cues' = Reached(noted, target, final)
             /\ pace' = [timed EXCEPT !.elapsed = IF cues' # noted \/ final THEN 0 ELSE @]
             /\ reveal' = IF final THEN "shown" ELSE reveal
             /\ UNCHANGED request
        ELSE /\ cues' = noted /\ pace' = timed
             /\ request' = [target |-> target, final |-> final, key |-> Key,
                            current |-> TRUE, age |-> 0]
             /\ reveal' = IF final THEN "shown"
                          ELSE IF target = "bp" /\ reveal = "hidden" THEN "revealing" ELSE reveal

\* A pause holds the picture, unless it is the halftime.
Holds(c) == ~Safe \/ (match.paused /\ ~IsHalftime /\ ~c.halftimeSeen)

\* tick: entering production resumes; a failure stops everything but a manual hold.
DirectorTick ==
    /\ request = NoRequest
    /\ LET started == producing /\ ~control.was
           manual == control.manual /\ ~started
           failed == control.failed /\ ~started
           c == CuesOfThisExecution
           sofar == IF cues.key # Key \/ onAir # pace.scene THEN 0 ELSE pace.elapsed
           warmedup == IF SameContext THEN pace.warmup ELSE 0
       IN  /\ control' = [manual |-> manual, failed |-> failed, was |-> producing]
           /\ IF ~producing \/ (failed /\ ~manual)
              THEN pace' = [pace EXCEPT !.since = 0] /\ UNCHANGED <<cues, request, reveal>>
              ELSE IF Holds(c)
              THEN /\ cues' = c
                   /\ pace' = [pace EXCEPT !.since = 0, !.scene = onAir, !.elapsed = sofar,
                                           !.warmup = warmedup]
                   /\ UNCHANGED <<request, reveal>>
              ELSE TickAsks(c, sofar, warmedup, manual)
    /\ UNCHANGED <<onAir, surroundings, calm, played, interventions>>

Intervention == interventions < MaxInterventions /\ interventions' = interventions + 1

\* valid() and the scene's own conditions.
RequestIsValid ==
    /\ ~control.manual
    /\ request.current
    /\ producing /\ Safe
    /\ request.key = Key
    /\ request.target = "matchup" => /\ match.stage = "first freeze"
                                     /\ Remaining >= Timings.hudLead + Timings.shortIntro
    /\ request.target = "halftime" => IsHalftime

\* What must not come twice by itself, and the HUD, which ends the opening.
Memorable(req) ==
    IF req.final THEN {} ELSE {req.target} \cap {"bp", "gameplay", "map_result"}

RequestSucceeds ==
    /\ request # NoRequest /\ RequestIsValid
    /\ onAir' = request.target
    /\ reveal' = IF onAir = "bp" THEN "hidden" ELSE reveal
    /\ played' = played \cup Memorable(request)
    /\ cues' = Reached(cues, request.target, request.final)
    /\ pace' = [pace EXCEPT !.scene = request.target, !.elapsed = 0,
                            !.warmup = IF request.target = "bp" /\ ~request.final THEN 0 ELSE @]
    /\ request' = NoRequest
    /\ UNCHANGED <<control, surroundings, calm, interventions>>

\* It is no longer valid, or OBS does not do it.  The scene controller ends the reveal.
RequestFails ==
    /\ request # NoRequest
    /\ RequestIsValid => Intervention
    /\ ~RequestIsValid => UNCHANGED interventions
    /\ reveal' = IF request.target = "bp" /\ onAir # "bp" THEN "hidden" ELSE reveal
    /\ control' = [control EXCEPT !.failed = @ \/ ~control.manual]
    /\ request' = NoRequest
    /\ UNCHANGED <<onAir, cues, pace, surroundings, calm, played>>

-----------------------------------------------------------------------------
(* The operator, the match and the clock *)

\* Mutant: the generation is not advanced.
NotSuperseded == request

\* generation++
Superseded == IF request = NoRequest THEN request ELSE [request EXCEPT !.current = FALSE]

\* hold, with the operator's own take unless a request is still in the way of it.
OperatorHolds(s) ==
    /\ Intervention
    /\ control' = [control EXCEPT !.manual = TRUE]
    /\ request' = Superseded
    /\ IF request = NoRequest
       THEN onAir' = s /\ reveal' = IF onAir = "bp" THEN "hidden"
                                    ELSE IF s = "bp" THEN "revealing" ELSE reveal
       ELSE UNCHANGED <<onAir, reveal>>
    /\ calm' = FALSE
    /\ UNCHANGED <<cues, pace, surroundings, played>>

OperatorResumes ==
    /\ IF control.manual \/ control.failed THEN UNCHANGED interventions ELSE Intervention
    /\ control' = [control EXCEPT !.manual = FALSE, !.failed = FALSE]
    /\ request' = Superseded
    /\ pace' = [pace EXCEPT !.since = 0]
    /\ calm' = FALSE
    /\ UNCHANGED <<onAir, reveal, cues, surroundings, played>>

ProductionStartsOrEnds ==
    /\ producing => Intervention
    /\ ~producing => UNCHANGED interventions
    /\ producing' = ~producing
    /\ calm' = FALSE
    /\ UNCHANGED <<choreography, match, played>>

\* What went on air is forgotten with the execution or the context it belongs to.
SomethingIsLost(what) ==
    /\ Safe /\ Intervention
    /\ match' = [match EXCEPT !.lost = what]
    /\ played' = CASE what = "context" -> {}
                   [] what = "assignment" -> played \cap {"bp"}
                   [] OTHER -> played
    /\ calm' = FALSE
    /\ UNCHANGED <<choreography, producing>>

\* The context is fresh or the identities fit again, the operator assigns the map anew, the
\* match is bound again and its progress restored: all is as it was.
LossEnds ==
    /\ match.lost \in {"trust", "assignment", "context"}
    /\ match' = [match EXCEPT !.lost = "nothing"]
    /\ calm' = FALSE
    /\ UNCHANGED <<choreography, producing, played, interventions>>

\* The first frame after a silence, which may have ended before anybody called it stale, a
\* reset of the map or of the live session, another map of the series for this execution.
ExecutionIsRenewed ==
    /\ match.lost # "context"
    /\ IF Safe THEN Intervention ELSE UNCHANGED interventions
    /\ match' = [match EXCEPT !.lost = "nothing", !.execution = @ + 1]
    /\ played' = played \cap {"bp"}
    /\ calm' = FALSE
    /\ UNCHANGED <<choreography, producing>>

\* Another match, or this one with other entrants or maps, of which nothing is confirmed yet.
ContextIsReplaced ==
    /\ IF Safe THEN Intervention ELSE UNCHANGED interventions
    /\ \E map \in 1..SeriesLength, ready \in BOOLEAN :
       match' = [match EXCEPT !.lost = "nothing", !.map = map, !.bpReady = ready,
                              !.confirmed = FALSE,
                              !.seconds = IF match.stage = "over" THEN 0 ELSE @,
                              !.context = @ + 1, !.execution = @ + 1]
    /\ played' = {}
    /\ calm' = FALSE
    /\ UNCHANGED <<choreography, producing>>

MatchPausesOrGoesOn ==
    /\ ~match.paused => Intervention /\ match.stage \in {"live"} \cup Freezes
    /\ match.paused => UNCHANGED interventions
    /\ match' = [match EXCEPT !.paused = ~@]
    /\ calm' = FALSE
    /\ UNCHANGED <<choreography, producing, played>>

\* The director works by itself and has nothing under way.
Undisturbed ==
    /\ producing /\ control.was /\ ~control.manual /\ ~control.failed
    /\ Safe /\ ~match.paused /\ request = NoRequest

MatchMovesTo(stage, seconds) ==
    /\ match' = [match EXCEPT !.stage = stage, !.seconds = seconds,
                            !.half = @ \/ stage = "halftime"]
    /\ UNCHANGED <<choreography, producing, played, interventions>>

FirstFreezeBegins ==
    /\ match.stage = "warmup"
    /\ MatchMovesTo("first freeze", FreezeLength)
    /\ calm' = Undisturbed

HalftimeBegins ==
    /\ match.stage = "live" /\ ~match.half /\ ~match.paused
    /\ MatchMovesTo("halftime", 0)
    /\ UNCHANGED calm

SecondFreezeBegins ==
    /\ match.stage = "halftime"
    /\ MatchMovesTo("second freeze", Timings.halftimeLead + 1)
    /\ UNCHANGED calm

PlayedMapEnds ==
    /\ match.stage = "live" /\ ~match.paused
    /\ MatchMovesTo("over", 0)
    /\ UNCHANGED calm

\* SeriesProgress takes the result; that of the last map leaves no current map, another key.
ResultIsConfirmed ==
    /\ match.stage = "over" /\ ~match.confirmed
    /\ match' = [match EXCEPT !.confirmed = TRUE]
    /\ played' = IF match.map = SeriesLength THEN played \cap {"bp"} ELSE played
    /\ calm' = Undisturbed
    /\ UNCHANGED <<choreography, producing, interventions>>

NextMapBegins ==
    /\ match.stage = "over" /\ match.confirmed /\ match.map < SeriesLength
    /\ match' = [match EXCEPT !.map = @ + 1, !.stage = "warmup", !.seconds = 0,
                              !.confirmed = FALSE, !.half = FALSE, !.execution = @ + 1]
    /\ played' = played \cap {"bp"}
    /\ calm' = FALSE
    /\ UNCHANGED <<choreography, producing, interventions>>

\* When a confirmed result must have given way, if each switch takes SwitchTime: the switch to
\* the result, its time and the switch after it.  The unit before the director sees the result
\* is made up for: the tick after a switch counts the unit in which the switch ended.
ResultDeadline == SwitchTime + Timings.mapResult + SwitchTime

\* A unit of time in which the director has ticked, or has had a request on its way that OBS
\* answers within SwitchTime.
TimePasses ==
    /\ IF request = NoRequest THEN pace.since = 0 ELSE request.age < SwitchTime
    /\ pace' = [pace EXCEPT !.since = 1]
    /\ request' = IF request = NoRequest THEN request ELSE [request EXCEPT !.age = @ + 1]
    /\ reveal' = IF reveal = "revealing" THEN "shown" ELSE reveal
    /\ match' = IF match.stage \in Freezes /\ ~match.paused
                THEN [match EXCEPT !.seconds = @ - 1,
                                   !.stage = IF match.seconds = 1 THEN "live" ELSE @]
                ELSE IF match.confirmed /\ calm /\ match.seconds <= ResultDeadline
                THEN [match EXCEPT !.seconds = @ + 1]
                ELSE match
    /\ UNCHANGED <<onAir, cues, control, producing, calm, played, interventions>>

-----------------------------------------------------------------------------
DirectorNext ==
    \/ DirectorTick \/ RequestSucceeds \/ RequestFails \/ TimePasses
    \/ \E s \in {"waiting", "bp", "gameplay"} : OperatorHolds(s)
    \/ OperatorResumes \/ ProductionStartsOrEnds
    \/ \E what \in Losses : SomethingIsLost(what)
    \/ LossEnds \/ ExecutionIsRenewed \/ ContextIsReplaced \/ MatchPausesOrGoesOn
    \/ FirstFreezeBegins \/ HalftimeBegins \/ SecondFreezeBegins \/ PlayedMapEnds
    \/ ResultIsConfirmed \/ NextMapBegins

DirectorSpec == DirectorInit /\ [][DirectorNext]_directorVars

-----------------------------------------------------------------------------
(* Properties *)

\* Types, and: cues are those of an execution that there was, an opening that is over had begun or
\* was skipped for good, and no request outlives a hold.
DirectorTypeOK ==
    /\ cues.key.execution \in 0..match.execution /\ match.map \in 1..SeriesLength
    /\ match.lost \in {"nothing"} \cup Losses
    /\ match.stage \in Stages /\ match.seconds \in Nat
    /\ ~match.confirmed => (match.stage \in Freezes <=> match.seconds > 0)
    /\ reveal \in {"hidden", "revealing", "shown"}
    /\ pace.since \in 0..1 /\ {pace.elapsed, pace.warmup} \subseteq Nat
    /\ request # NoRequest => /\ control.manual => ~request.current
                              /\ request.age \in 0..SwitchTime
                              /\ request.key = cues.key

\* What the two deadlines below need of the timings and of OBS: two switches fit into the lead of
\* the HUD (nine seconds, director.ts:8), a look and a switch into the freeze, and a result is shown.
PromptSwitches ==
    /\ SwitchTime >= 1 /\ 2 * SwitchTime <= Timings.hudLead
    /\ SwitchTime + 2 <= FreezeLength
    /\ Timings.mapResult >= 1

\* The first round begins under the HUD: whatever the opening was, and however long OBS takes
\* for each switch, gameplay is on air when the freeze is over, unless the director was
\* disturbed or stopped (director.ts:199, 210-226).
HudIsUpWhenLive ==
    calm /\ match.stage = "live" /\ ~control.failed /\ ~match.half => onAir = "gameplay"

\* What is played once is not played again by itself while the director knows the execution for
\* the same: no opening after the HUD of this execution, no second result of it, no second reveal
\* in the warmup of this context (director.ts:200, 166-171, 186; the keys: 74-84, 110-125).
NothingIsPlayedTwice ==
    [][RequestSucceeds =>
         LET s == request.target IN
         /\ s = "matchup" \/ request.final => "gameplay" \notin played
         /\ s = "map_result" => s \notin played
         /\ s = "bp" /\ ~request.final => s \notin played]_directorVars

\* A confirmed result gives way to the summary of the match or of the break, by itself and in
\* time, unless the director was disturbed or stopped (director.ts:166-175).
ResultGivesWay ==
    calm /\ match.confirmed /\ match.seconds > ResultDeadline /\ ~control.failed
        => onAir = Summary

\* What the audience may rely on at all times (director.ts tick).
DirectorInv == DirectorTypeOK /\ HudIsUpWhenLive /\ ResultGivesWay
=============================================================================
