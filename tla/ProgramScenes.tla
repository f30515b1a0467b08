---------------------------- MODULE ProgramScenes ----------------------------
(***************************************************************************)
(* Which scene is on air: the scene controller (program-scenes/            *)
(* controller.ts), what the director adds to it (director.ts: hold,        *)
(* resume, one request in flight, the failure latch), the BP reveal that a *)
(* switch to BP starts (bp/controller.ts), the OBS adapter (obs/adapter.ts)*)
(* and the switch it carries out (obs/reconcile.ts), and the production    *)
(* mode (program-scenes/production.ts).                                    *)
(*                                                                         *)
(* Takes are worked off one after the other.  A take waits for OBS, and    *)
(* while it waits the operator may decide again, the match or the          *)
(* telemetry may change, the reveal goes on, and OBS may be slow: a call   *)
(* that timed out may still be carried out later.                          *)
(*                                                                         *)
(* Which scene the director wants, and when, is not modelled here: it may  *)
(* ask for any.  A scene is available or blocked; the reasons are one set. *)
(***************************************************************************)
EXTENDS Integers, Sequences, FiniteSets

CONSTANT Scenes   \* the ids; "waiting" and "bp" are special

\* Bounds of the exploration, no part of the program.
CONSTANTS MaxTakes, MaxSceneChanges, MaxObsFaults

ASSUME ScenesAssumption == {"waiting", "bp"} \subseteq Scenes
ASSUME ScenesBounds == {MaxTakes, MaxSceneChanges, MaxObsFaults} \subseteq Nat

VARIABLES
    scene,       \* active
    sceneRev,    \* revision
    takes,       \* the queue of takes; the head is running
    phase,       \* of the head: "queued", "ready" (OBS not asked yet), "calling", "on air",
                 \* "rolling back"
    aborted,     \* the signal of the automatic switch
    prepared,    \* preparedBpRevision, or 0
    director,    \* [manual, generation, failed, inFlight]
    mode,        \* the production mode
    available,   \* the scenes that are not blocked
    execution,   \* what executionKey() names: the map being played
    bp,          \* the BP session: [state, rev], and who began this reveal
    obs          \* the scene OBS shows

\* What may still come from OBS, and what has happened, for the properties and the bounds.
VARIABLES
    late,        \* scenes of calls that timed out and may still be carried out
    apart,       \* OBS was moved, or left, without a take
    tally        \* [takes, changes, faults]

sceneVars == <<scene, sceneRev, takes, phase, aborted, prepared, director, mode, available,
               execution, bp, obs, late, apart, tally>>

FreeDirector == [manual |-> FALSE, generation |-> 0, failed |-> FALSE, inFlight |-> FALSE]

ScenesInit ==
    /\ scene = "waiting" /\ sceneRev = 1
    /\ takes = <<>> /\ phase = "queued" /\ aborted = FALSE /\ prepared = 0
    /\ director = FreeDirector
    /\ mode = "preparation"
    /\ available = Scenes
    /\ execution = 1
    /\ bp = [state |-> "hidden", rev |-> 1, by |-> "nobody"]
    /\ obs \in Scenes
    /\ late = {} /\ apart = (obs # "waiting")
    /\ tally = [takes |-> 0, changes |-> 0, faults |-> 0]

OnProduction == mode # "preparation"
Running == takes # <<>> /\ phase # "queued"
Counts(what, max) == tally[what] < max /\ tally' = [tally EXCEPT ![what] = @ + 1]

-----------------------------------------------------------------------------
(* The director's side *)

Hold == [director EXCEPT !.manual = TRUE, !.generation = @ + 1]
Resumed == [director EXCEPT !.manual = FALSE, !.failed = FALSE, !.generation = @ + 1]

\* A tick that asks for another scene: at most one request, none after a failure,
\* none in a manual hold.
DirectorTakes(s, final) ==
    /\ Counts("takes", MaxTakes)
    /\ OnProduction
    /\ ~director.inFlight /\ ~director.failed /\ ~director.manual
    /\ s # scene
    /\ final => s = "bp"
    /\ takes' = Append(takes, [auto |-> TRUE, scene |-> s, rev |-> sceneRev, seen |-> scene,
                               final |-> final, gen |-> director.generation,
                               key |-> execution])
    /\ director' = [director EXCEPT !.inFlight = TRUE]
    /\ UNCHANGED <<scene, sceneRev, phase, aborted, prepared, mode, available, execution, bp,
                   obs, late, apart>>

\* valid(): the request of the director still stands.
StillWanted(take) ==
    take.auto => /\ ~director.manual
                 /\ take.gen = director.generation
                 /\ OnProduction
                 /\ take.key = execution

-----------------------------------------------------------------------------
(* Commands *)

\* select: the page that knows the current revision takes over from the director.
OperatorTakes(s) ==
    /\ Counts("takes", MaxTakes)
    /\ takes' = Append(takes, [auto |-> FALSE, scene |-> s, rev |-> sceneRev, seen |-> scene,
                               final |-> FALSE, gen |-> 0, key |-> 0])
    /\ director' = Hold
    /\ aborted' = (aborted \/ (Running /\ Head(takes).auto))
    /\ UNCHANGED <<scene, sceneRev, phase, prepared, mode, available, execution, bp, obs, late,
                   apart>>

ResumeAutomatic ==
    /\ Counts("changes", MaxSceneChanges)
    /\ director' = Resumed
    /\ sceneRev' = sceneRev + 1
    /\ UNCHANGED <<scene, takes, phase, aborted, prepared, mode, available, execution, bp, obs,
                   late, apart>>

\* Mutant: the revision stays.
ForceSceneSilently(s) ==
    /\ Counts("changes", MaxSceneChanges)
    /\ director' = Hold
    /\ aborted' = (aborted \/ (Running /\ Head(takes).auto))
    /\ scene' = s
    /\ apart' = (s # obs)
    /\ bp' = [bp EXCEPT !.by = "nobody"]
    /\ UNCHANGED <<sceneRev, takes, phase, prepared, mode, available, execution, obs, late>>

\* forceScene, used by the rehearsal: OBS is not asked.
ForceScene(s) ==
    /\ Counts("changes", MaxSceneChanges)
    /\ director' = Hold
    /\ aborted' = (aborted \/ (Running /\ Head(takes).auto))
    /\ scene' = s
    /\ sceneRev' = sceneRev + 1
    /\ apart' = (s # obs)
    /\ bp' = [bp EXCEPT !.by = "nobody"]
    /\ UNCHANGED <<takes, phase, prepared, mode, available, execution, obs, late>>

\* Going live, hiding, and the end of a production after its take of "waiting".  The
\* director's first tick of a production resumes automatic mode.
ChangeMode(m) ==
    /\ Counts("changes", MaxSceneChanges)
    /\ <<mode, m>> \in {<<"preparation", "live">>, <<"hidden", "live">>, <<"live", "hidden">>,
                        <<"live", "preparation">>, <<"hidden", "preparation">>}
    /\ mode' = m
    /\ director' = IF mode = "preparation" THEN Resumed ELSE director
    /\ UNCHANGED <<scene, sceneRev, takes, phase, aborted, prepared, available, execution, bp,
                   obs, late, apart>>

\* The match context, the telemetry or the series block or free a scene; a new map begins.
SceneBlocked(s) ==
    /\ Counts("changes", MaxSceneChanges)
    /\ s # "waiting"
    /\ available' = IF s \in available THEN available \ {s} ELSE available \cup {s}
    /\ UNCHANGED <<scene, sceneRev, takes, phase, aborted, prepared, director, mode, execution,
                   bp, obs, late, apart>>

NewExecution ==
    /\ Counts("changes", MaxSceneChanges)
    /\ execution' = execution + 1
    /\ UNCHANGED <<scene, sceneRev, takes, phase, aborted, prepared, director, mode, available,
                   bp, obs, late, apart>>

-----------------------------------------------------------------------------
(* The BP session *)

Reveal(by, final) ==
    [state |-> "playing", rev |-> bp.rev + (IF final THEN 2 ELSE 1), by |-> by]
Hidden == [state |-> "hidden", rev |-> bp.rev + 1, by |-> "nobody"]

\* finishSceneExit
BpEnds == IF bp.state = "hidden" THEN bp ELSE Hidden

\* play and hide, by the operator.
BpCommand ==
    /\ Counts("changes", MaxSceneChanges)
    /\ bp.state # "hiding"
    /\ bp' = IF bp.state = "hidden" THEN Reveal("operator", FALSE)
             ELSE [state |-> "hiding", rev |-> bp.rev + 1, by |-> "operator"]
    /\ UNCHANGED <<scene, sceneRev, takes, phase, aborted, prepared, director, mode, available,
                   execution, obs, late, apart>>

\* The picks and bans change: the reveal starts over.
BpDataChanges ==
    /\ Counts("changes", MaxSceneChanges)
    /\ bp' = Hidden
    /\ UNCHANGED <<scene, sceneRev, takes, phase, aborted, prepared, director, mode, available,
                   execution, obs, late, apart>>

\* The hiding ends.
BpTime ==
    /\ bp.state = "hiding"
    /\ bp' = Hidden
    /\ UNCHANGED <<scene, sceneRev, takes, phase, aborted, prepared, director, mode, available,
                   execution, obs, late, apart, tally>>

-----------------------------------------------------------------------------
(* A take *)

Take == Head(takes)

\* Mutant: no finally.
DirectorHearsOfSuccess(ok) ==
    director' = IF Take.auto /\ ok THEN [director EXCEPT !.inFlight = FALSE] ELSE director

\* The director hears of its request: a refusal that is not the operator's doing stops it.
DirectorHears(ok) ==
    director' = IF Take.auto
                THEN [director EXCEPT !.inFlight = FALSE,
                                      !.failed = @ \/ (~ok /\ ~director.manual)]
                ELSE director

TakeEnds(ok) == takes' = Tail(takes) /\ phase' = "queued" /\ aborted' = FALSE
                /\ prepared' = 0 /\ DirectorHears(ok)

StartTake ==
    /\ takes # <<>> /\ phase = "queued"
    /\ IF ~StillWanted(Take) \/ Take.rev # sceneRev \/ Take.scene \notin available
       THEN TakeEnds(FALSE) /\ UNCHANGED bp
       ELSE IF Take.scene = scene
       THEN TakeEnds(TRUE) /\ UNCHANGED bp
       ELSE /\ phase' = "ready"
            /\ IF Take.scene = "bp" /\ bp.state = "hidden"
               THEN bp' = Reveal("take", Take.final) /\ prepared' = bp'.rev
               ELSE /\ bp' = IF Take.scene = "bp" /\ Take.final
                             THEN Reveal(bp.by, FALSE) ELSE bp
                    /\ UNCHANGED prepared
            /\ UNCHANGED <<takes, aborted, director>>
    /\ UNCHANGED <<scene, sceneRev, mode, available, execution, obs, late, apart, tally>>

\* Mutant: the director's own conditions are checked only at the start.
StillCurrentRevision ==
    ~aborted /\ Take.rev = sceneRev /\ Take.scene \in available

\* assertCurrent() of the switch.
StillCurrentTake ==
    /\ ~aborted
    /\ StillWanted(Take) /\ Take.rev = sceneRev /\ Take.scene \in available

\* The calls that prepare the switch, with their checks; the last one before the
\* request to OBS goes out ...
CallObs ==
    /\ takes # <<>> /\ phase = "ready"
    /\ phase' = IF StillCurrentTake THEN "calling" ELSE "rolling back"
    /\ UNCHANGED <<scene, sceneRev, takes, aborted, prepared, director, mode, available,
                   execution, bp, obs, late, apart, tally>>

\* ... and OBS moves.
ObsSwitches ==
    /\ takes # <<>> /\ phase = "calling"
    /\ obs' = Take.scene
    /\ phase' = "on air"
    /\ UNCHANGED <<scene, sceneRev, takes, aborted, prepared, director, mode, available,
                   execution, bp, late, apart, tally>>

\* OBS refuses, is gone, or does not answer in time; then the call may be carried out later.
ObsFails(later) ==
    /\ takes # <<>> /\ phase \in {"ready", "calling", "on air"}
    /\ Counts("faults", MaxObsFaults)
    /\ later => phase = "calling"
    /\ late' = IF later THEN late \cup {Take.scene} ELSE late
    /\ phase' = "rolling back"
    /\ UNCHANGED <<scene, sceneRev, takes, aborted, prepared, director, mode, available,
                   execution, bp, obs, apart>>

\* Mutant: a take refused at the end does not put OBS back.
CommitTakeOrLeave ==
    /\ takes # <<>> /\ phase = "on air"
    /\ IF StillCurrentTake /\ obs = Take.scene
       THEN /\ bp' = IF scene = "bp" THEN BpEnds ELSE bp
            /\ scene' = Take.scene
            /\ sceneRev' = sceneRev + 1
            /\ apart' = (late # {})
            /\ TakeEnds(TRUE)
       ELSE /\ TakeEnds(FALSE)
            /\ UNCHANGED <<scene, sceneRev, bp, apart>>
    /\ UNCHANGED <<mode, available, execution, obs, late, tally>>

\* The fade has ended and OBS says what it shows; the controller looks at everything again.
CommitTake ==
    /\ takes # <<>> /\ phase = "on air"
    /\ IF StillCurrentTake /\ obs = Take.scene
       THEN /\ bp' = IF scene = "bp" THEN BpEnds ELSE bp
            /\ scene' = Take.scene
            /\ sceneRev' = sceneRev + 1
            /\ apart' = (late # {})
            /\ TakeEnds(TRUE)
       ELSE /\ phase' = "rolling back"
            /\ UNCHANGED <<scene, sceneRev, takes, aborted, prepared, director, bp, apart>>
    /\ UNCHANGED <<mode, available, execution, obs, late, tally>>

\* OBS goes back to the active scene, by a cut, and a reveal begun for this take ends.
\* Nothing is done about a rollback that fails.
RollBack(works) ==
    /\ takes # <<>> /\ phase = "rolling back"
    /\ IF works THEN obs' = scene /\ apart' = (late # {}) /\ UNCHANGED tally
       ELSE Counts("faults", MaxObsFaults) /\ apart' = (apart \/ obs # scene) /\ UNCHANGED obs
    /\ bp' = IF prepared # 0 /\ bp.rev = prepared THEN BpEnds ELSE bp
    /\ TakeEnds(FALSE)
    /\ UNCHANGED <<scene, sceneRev, mode, available, execution, late>>

\* A call given up is carried out after all.
LateSwitch ==
    /\ late # {}
    /\ \E s \in late : obs' = s /\ late' = late \ {s} /\ apart' = (apart \/ s # scene \/ Running)
    /\ UNCHANGED <<scene, sceneRev, takes, phase, aborted, prepared, director, mode, available,
                   execution, bp, tally>>

\* repair, between two calls of the adapter's queue: OBS is set up again and shows the
\* active scene.
Repair ==
    /\ Counts("changes", MaxSceneChanges)
    /\ phase \notin {"calling", "on air"}
    /\ obs' = scene
    /\ apart' = (late # {})
    /\ UNCHANGED <<scene, sceneRev, takes, phase, aborted, prepared, director, mode, available,
                   execution, bp, late>>

-----------------------------------------------------------------------------
TakeRuns == \/ StartTake \/ CallObs \/ ObsSwitches \/ CommitTake
            \/ \E later \in BOOLEAN : ObsFails(later)
            \/ \E works \in BOOLEAN : RollBack(works)

ScenesNext ==
    \/ \E s \in Scenes : \/ \E final \in BOOLEAN : DirectorTakes(s, final)
                         \/ OperatorTakes(s)
                         \/ ForceScene(s)
                         \/ SceneBlocked(s)
    \/ ResumeAutomatic \/ NewExecution
    \/ \E m \in {"preparation", "live", "hidden"} : ChangeMode(m)
    \/ BpCommand \/ BpDataChanges \/ BpTime
    \/ TakeRuns \/ LateSwitch \/ Repair

\* Every wait of a take has a timeout.
ScenesFairness == WF_sceneVars(TakeRuns)

ScenesSpec == ScenesInit /\ [][ScenesNext]_sceneVars /\ ScenesFairness

-----------------------------------------------------------------------------
(* Properties *)

\* Types, and: the director has a request in flight exactly while one is queued, and only
\* one; a take under way is at the head of the queue.
ScenesTypeOK ==
    /\ scene \in Scenes /\ obs \in Scenes /\ late \subseteq Scenes /\ available \subseteq Scenes
    /\ "waiting" \in available
    /\ {sceneRev, prepared, execution, bp.rev} \subseteq Nat
    /\ phase \in {"queued", "ready", "calling", "on air", "rolling back"}
    /\ phase # "queued" => takes # <<>>
    /\ prepared # 0 => Running /\ Take.scene = "bp"
    /\ mode \in {"preparation", "live", "hidden"}
    /\ bp.state \in {"hidden", "playing", "hiding"}
    /\ Cardinality({i \in DOMAIN takes : takes[i].auto}) = IF director.inFlight THEN 1 ELSE 0

Commits == takes # <<>> /\ phase = "on air" /\ scene' # scene /\ takes' = Tail(takes)

\* The scene the system calls active is the one OBS shows, whenever nothing is under way and
\* OBS was not moved behind its back (controller.ts:139-186): a take that is refused at the
\* last moment, or fails halfway, leaves nothing of it on air.
OnAirIsActive == takes = <<>> /\ late = {} /\ ~apart => obs = scene

\* Whatever goes on air by a request of the director was still wanted when it did: no hold, no
\* end of the production and no new map came while OBS was asked (director.ts:265-275).
AutomaticIsStillWanted ==
    [][Commits /\ Take.auto => /\ ~director.manual /\ OnProduction
                               /\ Take.key = execution]_sceneVars

\* What goes on air replaces the scene that was active when it was decided (controller.ts:129,
\* 174), although other takes and a rehearsal may have come between.
TakesReplaceWhatWasSeen == [][Commits => scene = Take.seen]_sceneVars

\* A reveal begun by a switch to BP lives no longer than BP is on air or about to be
\* (controller.ts:144, 182); a rehearsal that forces a scene does not look after it.
BpOffAirIsHidden ==
    bp.by = "take" => scene = "bp" \/ (Running /\ Take.scene = "bp")

\* The director hears of every request, whatever becomes of it (director.ts:294), so that it
\* can go on.
RequestsAreAnswered == director.inFlight ~> ~director.inFlight

\* What holds of the scenes at all times (controller.ts selectSerial).
ScenesInv == ScenesTypeOK /\ OnAirIsActive /\ BpOffAirIsHidden
=============================================================================
