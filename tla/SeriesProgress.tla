--------------------------- MODULE SeriesProgress ---------------------------
(***************************************************************************)
(* The series result the companion keeps by itself: which real map         *)
(* execution fills which slot of the map plan, and who won it              *)
(* (packages/core/src/series-progress/reducer.ts), fed by the runtime      *)
(* (apps/companion/src/runtime/program-runtime.ts) and saved in a          *)
(* checkpoint file (series-progress/checkpoint-store.ts).                  *)
(*                                                                         *)
(* The game server plays one map execution after another and posts frames  *)
(* that may be lost.  The runtime numbers the executions it can tell apart *)
(* with an epoch: a new epoch for each change of map NAME.  The reducer    *)
(* binds the epoch to a slot, or waits for the operator when the map is    *)
(* not the planned one, and freezes the slot's winner on a game-over frame *)
(* whose sides are proven.  The companion may crash, lose saves, or have   *)
(* its match context taken away and given back.                            *)
(*                                                                         *)
(* Left out, because no decision about slots reads it: the round history   *)
(* of a slot, issues other than operator_bind_applied, the fixture mode.   *)
(***************************************************************************)
EXTENDS Integers, Sequences, FiniteSets

CONSTANTS
    Plan,           \* the planned map names, in order (canonical names)
    Spare,          \* names of maps outside the plan
    NoName,         \* no map name known
    RequiredWins,   \* requiredSeriesWins(format)
    Entrants,       \* the two entrants
    Nobody,         \* no winner
    None,           \* no progress, no checkpoint, no telemetry
    ContinuityKept  \* a restart recovers the epoch and map name of the outbox

\* Bounds of the exploration, no part of the program.
CONSTANTS
    MaxMaps,    \* executions the game server plays
    MaxOffPlan, \* slots still to be played before the one being played, and maps outside the
                \* plan, together
    MaxFaults,  \* crashes, failed saves and unbindings, together
    MaxQueued,  \* checkpoints waiting for the file
    ResetEpoch  \* the epoch of the one execution that is reset

Slots == DOMAIN Plan
Names == {Plan[s] : s \in Slots} \cup Spare

ASSUME PlanAssumption == Plan \in Seq(Names) /\ Plan # <<>> /\ NoName \notin Names
ASSUME EntrantsAssumption == Cardinality(Entrants) = 2 /\ Nobody \notin Entrants
ASSUME WinsAssumption == RequiredWins \in 1..Len(Plan)
ASSUME SeriesBounds == {MaxMaps, MaxOffPlan, MaxFaults, MaxQueued, ResetEpoch} \subseteq Nat

\* Each execution opens an epoch and so does a reset.
Epochs == 0..(MaxMaps + ResetEpoch)

VARIABLES
    plays,      \* the real executions so far: [slot, name, winner], 0 = no slot
    runtime,    \* RuntimeState: [epoch, name, telemetry, awaiting]
    progress,   \* this.seriesProgress
    saving,     \* checkpoints queued for the file
    disk,       \* the checkpoint file
    up,
    crashes, unbinds, lostSaves

vars == <<plays, runtime, progress, saving, disk, up, crashes, unbinds, lostSaves>>

MoreFaults == crashes + unbinds + lostSaves < MaxFaults

-----------------------------------------------------------------------------
(* The real series.  winner = Nobody while the map is being played.        *)

MapPlay == [slot : Slots \cup {0}, name : Names, winner : Entrants \cup {Nobody}]
World == plays[Len(plays)]
Finished == {i \in DOMAIN plays : plays[i].winner # Nobody}
FilledSlots == {plays[i].slot : i \in Finished}
RealWins(e) == Cardinality({i \in Finished : plays[i].slot # 0 /\ plays[i].winner = e})
SeriesOver == \E e \in Entrants : RealWins(e) >= RequiredWins

\* The next map: a slot on its planned map or on a spare one, in any order,
\* or a warm-up that is no part of the series and never finishes.  No map of
\* a series is played twice.  A companion that runs all along sees at least
\* one frame of each execution, which lasts much longer than any gap.
MapStarts(slot, name) ==
    /\ Len(plays) < MaxMaps
    /\ IF slot = 0 THEN name \in Spare
       ELSE slot \notin FilledSlots /\ ~SeriesOver /\ name \in {Plan[slot]} \cup Spare
    /\ \A i \in DOMAIN plays : plays[i].name # name
    /\ Cardinality({s \in 1..(slot - 1) : s \notin FilledSlots})
         + Cardinality(Spare \cap ({name} \cup {plays[i].name : i \in DOMAIN plays})) <= MaxOffPlan
    /\ plays # <<>> /\ World.slot # 0 => World.winner # Nobody
    /\ plays # <<>> /\ up => runtime.telemetry # None /\ runtime.telemetry.play = Len(plays)
    /\ plays' = Append(plays, [slot |-> slot, name |-> name, winner |-> Nobody])
    /\ UNCHANGED <<runtime, progress, saving, disk, up, crashes, unbinds, lostSaves>>

\* Its game-over screen stays until the next map starts.
MapEnds(e) ==
    /\ plays # <<>> /\ World.slot # 0 /\ World.winner = Nobody
    /\ plays' = [plays EXCEPT ![Len(plays)].winner = e]
    /\ UNCHANGED <<runtime, progress, saving, disk, up, crashes, unbinds, lostSaves>>

-----------------------------------------------------------------------------
(* Runtime map state *)

\* telemetry.play is the execution the frame shows; only the properties and
\* the operator's knowledge read it.
Frame == [name : Names \cup {NoName}, winner : Entrants \cup {Nobody}, play : 1..MaxMaps]
Runtime == [epoch : Epochs, name : Names \cup {NoName},
            telemetry : Frame \cup {None}, awaiting : BOOLEAN]
FreshRuntime == [epoch |-> 0, name |-> NoName, telemetry |-> None, awaiting |-> FALSE]

\* nextMapState: the first name opens epoch 1, another name the next epoch.
MapState(r, name) ==
    IF name = NoName \/ name = r.name THEN [epoch |-> r.epoch, name |-> r.name]
    ELSE [epoch |-> r.epoch + 1, name |-> name]

\* A frame without a map section keeps epoch and name.
AcceptFrame(r, frame) ==
    LET map == MapState(r, frame.name)
    IN  [epoch |-> map.epoch, name |-> map.name, telemetry |-> frame, awaiting |-> FALSE]

AdvanceSource(r) == [r EXCEPT !.telemetry = None]

\* seriesObservation: after a restart with a recovered epoch no name is
\* reported before the first frame.
Observed(r) ==
    LET ended == r.telemetry # None /\ r.telemetry.winner # Nobody
    IN  [epoch  |-> r.epoch,
         name   |-> IF r.awaiting THEN NoName
                    ELSE IF r.telemetry # None /\ r.telemetry.name # NoName
                         THEN r.telemetry.name ELSE r.name,
         ended  |-> ended,
         winner |-> IF ended THEN r.telemetry.winner ELSE Nobody,
         play   |-> IF ended THEN r.telemetry.play ELSE 0]

-----------------------------------------------------------------------------
(* The reducer *)

Status == {"pending", "current", "completed", "not_played"}
\* evidence: the execution whose game-over froze the slot (history only).
Slot == [status : Status, epoch : Epochs, winner : Entrants \cup {Nobody},
         evidence : 0..MaxMaps]
Progress == [slots : [Slots -> Slot], current : Slots \cup {0},
             binding : {"bound", "unbound", "needs_operator"},
             asserted : SUBSET (Slots \X (Epochs))]

ASSUME NoneAssumption == None \notin Frame \cup Progress

EmptySlot == [status |-> "pending", epoch |-> 0, winner |-> Nobody, evidence |-> 0]

Completed(p) == {s \in Slots : p.slots[s].status = "completed"}
Playable(p) == {s \in Slots : p.slots[s].status \in {"pending", "current"}}
Score(p, e) == Cardinality({s \in Completed(p) : p.slots[s].winner = e})
SeriesWon(p) == \E e \in Entrants : Score(p, e) >= RequiredWins
FirstOf(S) == CHOOSE s \in S : \A t \in S : s <= t

SetCurrentMap(p, slot, epoch) ==
    [p EXCEPT !.slots = [s \in Slots |->
                  IF s = slot THEN [p.slots[s] EXCEPT !.status = "current", !.epoch = epoch]
                  ELSE IF p.slots[s].status = "current"
                       THEN [p.slots[s] EXCEPT !.status = "pending"] ELSE p.slots[s]],
              !.current = slot, !.binding = "bound"]

\* The execution already has its slot: the bound one on its planned map, or
\* one the operator bound to this epoch.
AlreadyBound(p, obs) ==
    /\ p.current # 0
    /\ LET slot == p.slots[p.current] IN
       \/ /\ Plan[p.current] = obs.name
          /\ \/ slot.status = "completed"
             \/ slot.status = "current" /\ slot.epoch = obs.epoch
       \/ slot.epoch = obs.epoch /\ <<p.current, obs.epoch>> \in p.asserted

EnsureBindingGuesses(p, obs) ==
    IF obs.name = NoName \/ SeriesWon(p) \/ AlreadyBound(p, obs) \/ Playable(p) = {} THEN p
    ELSE SetCurrentMap(p, FirstOf(Playable(p)), obs.epoch)

EnsureBinding(p, obs) ==
    LET candidates == {s \in Playable(p) : Plan[s] = obs.name}
    IN  IF obs.name = NoName \/ SeriesWon(p) \/ AlreadyBound(p, obs) \/ Playable(p) = {}
        THEN p
        ELSE IF candidates = {FirstOf(Playable(p))}
             THEN SetCurrentMap(p, FirstOf(Playable(p)), obs.epoch)
             ELSE [p EXCEPT !.current = 0, !.binding = "needs_operator"]

\* mapForEpoch: the slot this epoch plays, at most one.
SlotsOfEpoch(p, epoch) ==
    {s \in Slots : p.slots[s].status = "current" /\ p.slots[s].epoch = epoch}

\* decides: the map is over, both scores are there, they differ, and the sides
\* are proven for the current source generation and epoch.
EndMap(p, obs, decides) ==
    IF ~decides \/ SlotsOfEpoch(p, obs.epoch) = {} THEN p
    ELSE LET s == FirstOf(SlotsOfEpoch(p, obs.epoch))
         IN  [p EXCEPT !.slots[s] = [status |-> "completed", epoch |-> @.epoch,
                                     winner |-> obs.winner, evidence |-> obs.play]]

\* resetCurrentMap: the bound slot, while it is open, starts again under the new epoch.
ResetCurrentMap(p, epoch) ==
    IF p.current = 0 \/ p.current \notin Playable(p) THEN p
    ELSE [p EXCEPT !.slots[p.current] = [EmptySlot EXCEPT !.status = "current", !.epoch = epoch],
                   !.binding = "bound"]

ApplySeriesCompletion(p) ==
    IF ~SeriesWon(p) THEN p
    ELSE [p EXCEPT !.slots = [s \in Slots |->
                       IF s \in Playable(p) THEN [p.slots[s] EXCEPT !.status = "not_played"]
                       ELSE p.slots[s]],
                   !.current = 0, !.binding = "bound"]

\* syncSeriesProgress.  The map_ended and map_execution_changed events of a
\* frame repeat what the observation says and change nothing more.
Sync(p, obs, decides) ==
    LET bound == EnsureBinding(p, obs)
    IN  ApplySeriesCompletion(IF obs.ended THEN EndMap(bound, obs, decides) ELSE bound)

\* createSeriesProgress: upstream may already name results of finished maps.
CreateSeriesProgress(known) ==
    ApplySeriesCompletion(
        [slots |-> [s \in Slots |->
             IF \E i \in known : plays[i].slot = s
             THEN LET i == CHOOSE i \in known : plays[i].slot = s
                  IN  [status |-> "completed", epoch |-> 0, winner |-> plays[i].winner,
                       evidence |-> i]
             ELSE EmptySlot],
         current |-> 0, binding |-> "unbound", asserted |-> {}])

-----------------------------------------------------------------------------
(* ProgramRuntime *)

Persist(p) ==
    /\ saving' = IF p = progress THEN saving ELSE Append(saving, p)
    /\ Len(saving') <= MaxQueued

\* dispatchObservation: a frame after a silence longer than staleAfterMs
\* first advances the source; each part ends in synchronizeSeriesProgress.
GsiFrame(late, hasMap, decides) ==
    /\ up /\ plays # <<>>
    /\ late => runtime.telemetry # None
    /\ LET frame   == [name   |-> IF hasMap THEN World.name ELSE NoName,
                       winner |-> IF hasMap THEN World.winner ELSE Nobody,
                       play   |-> Len(plays)]
           before  == IF late THEN AdvanceSource(runtime) ELSE runtime
           after   == AcceptFrame(before, frame)
           renewed == IF late THEN Sync(progress, Observed(before), FALSE) ELSE progress
       IN  /\ decides => frame.winner # Nobody
           /\ runtime' = after
           /\ IF progress = None THEN UNCHANGED <<progress, saving>>
              ELSE /\ progress' = Sync(renewed, Observed(after), decides)
                   /\ Persist(progress')
    /\ UNCHANGED <<plays, disk, up, crashes, unbinds, lostSaves>>

\* reset-map-execution: the runtime drops the frame and opens an epoch under the same name.  The
\* operator asks for it on a qualification page that shows the game's frames; asked for after a
\* restart and before the first frame, it gives the new epoch to the slot of the checkpoint,
\* whatever its map, because resetCurrentMap compares no names.
ResetMapExecution ==
    /\ up /\ runtime.epoch # 0 /\ runtime.epoch = ResetEpoch
    /\ runtime.telemetry # None
    /\ runtime' = [runtime EXCEPT !.epoch = @ + 1, !.telemetry = None]
    /\ IF progress = None THEN UNCHANGED <<progress, saving>>
       ELSE /\ progress' = ApplySeriesCompletion(
                               ResetCurrentMap(EnsureBinding(progress, Observed(runtime')),
                                               runtime'.epoch))
            /\ Persist(progress')
    /\ UNCHANGED <<plays, disk, up, crashes, unbinds, lostSaves>>

\* A refresh of the same match context synchronizes with the last frame, by
\* now perhaps of an earlier execution.
Refresh(decides) ==
    /\ up /\ progress # None
    /\ decides => Observed(runtime).ended
    /\ progress' = Sync(progress, Observed(runtime), decides)
    /\ Persist(progress')
    /\ UNCHANGED <<plays, runtime, disk, up, crashes, unbinds, lostSaves>>

\* bind-current-map-execution-to-series-map.  The operator acts when asked
\* to, on the execution the last frame showed, and names its real slot.
OperatorBinds(decides) ==
    /\ up /\ progress # None
    /\ progress.binding = "needs_operator"
    /\ decides => Observed(runtime).ended
    /\ runtime.telemetry # None /\ runtime.telemetry.play = Len(plays) /\ World.slot # 0
    /\ LET synced == Sync(progress, Observed(runtime), decides)
           slot   == World.slot
           bound  == IF slot \in Playable(synced) /\ runtime.name # NoName /\ ~SeriesWon(synced)
                     THEN [SetCurrentMap(synced, slot, runtime.epoch) EXCEPT
                               !.asserted = @ \cup {<<slot, runtime.epoch>>}]
                     ELSE synced
           obs    == Observed(runtime)
       IN  progress' = ApplySeriesCompletion(
                           IF obs.ended THEN EndMap(bound, obs, decides) ELSE bound)
    /\ Persist(progress')
    /\ UNCHANGED <<plays, runtime, disk, up, crashes, unbinds, lostSaves>>

\* The match context goes away: the progress in memory goes with it.
Unbind ==
    /\ up /\ progress # None /\ MoreFaults
    /\ progress' = None
    /\ unbinds' = unbinds + 1
    /\ UNCHANGED <<plays, runtime, saving, disk, up, crashes, lostSaves>>

BindIgnoringCheckpoint(known, decides) ==
    /\ up /\ progress = None
    /\ known \subseteq Finished /\ 0 \notin {plays[i].slot : i \in known}
    /\ decides => Observed(runtime).ended
    /\ progress' = Sync(CreateSeriesProgress(known), Observed(runtime), decides)
    /\ saving' = Append(saving, progress') /\ Len(saving') <= MaxQueued
    /\ UNCHANGED <<plays, runtime, disk, up, crashes, unbinds, lostSaves>>

\* setMatchContextBinding of the match: the checkpoint if there is one, else
\* what upstream knows, and then one synchronization.
Bind(known, decides) ==
    /\ up /\ progress = None
    /\ known \subseteq Finished /\ 0 \notin {plays[i].slot : i \in known}
    /\ decides => Observed(runtime).ended
    /\ disk # None => known = {}
    /\ LET initial == IF disk = None THEN CreateSeriesProgress(known) ELSE disk
       IN  /\ progress' = Sync(initial, Observed(runtime), decides)
           /\ saving' = IF disk = None \/ progress' # initial
                        THEN Append(saving, progress') ELSE saving
           /\ Len(saving') <= MaxQueued
    /\ UNCHANGED <<plays, runtime, disk, up, crashes, unbinds, lostSaves>>

\* JsonSeriesProgressCheckpointStore.save: in order, one at a time; a failed
\* write is only reported.
SaveEnds(written) ==
    /\ up /\ saving # <<>>
    /\ ~written => MoreFaults
    /\ saving' = Tail(saving)
    /\ disk' = IF written THEN Head(saving) ELSE disk
    /\ lostSaves' = IF written THEN lostSaves ELSE lostSaves + 1
    /\ UNCHANGED <<plays, runtime, progress, up, crashes, unbinds>>

Crash ==
    /\ up /\ MoreFaults
    /\ up' = FALSE /\ crashes' = crashes + 1
    /\ progress' = None /\ saving' = <<>>
    /\ runtime' = [runtime EXCEPT !.telemetry = None]
    /\ UNCHANGED <<plays, disk, unbinds, lostSaves>>

\* restoreDeliveryContinuity gives the new process the old epoch and name,
\* when the outbox has them for this match and revision.
Restart ==
    /\ ~up
    /\ up' = TRUE
    /\ runtime' = IF ContinuityKept /\ runtime.epoch # 0
                  THEN [runtime EXCEPT !.awaiting = TRUE] ELSE FreshRuntime
    /\ UNCHANGED <<plays, progress, saving, disk, crashes, unbinds, lostSaves>>

Init ==
    /\ plays = <<>> /\ runtime = FreshRuntime /\ progress = None
    /\ saving = <<>> /\ disk = None /\ up = TRUE
    /\ crashes = 0 /\ unbinds = 0 /\ lostSaves = 0

Next ==
    \/ \E slot \in Slots \cup {0}, name \in Names : MapStarts(slot, name)
    \/ \E e \in Entrants : MapEnds(e)
    \/ \E late, hasMap, decides \in BOOLEAN : GsiFrame(late, hasMap, decides)
    \/ \E decides \in BOOLEAN : Refresh(decides) \/ OperatorBinds(decides)
    \/ Unbind \/ ResetMapExecution
    \/ \E known \in SUBSET Finished, decides \in BOOLEAN : Bind(known, decides)
    \/ \E written \in BOOLEAN : SaveEnds(written)
    \/ Crash \/ Restart

Spec == Init /\ [][Next]_vars

-----------------------------------------------------------------------------
(* Properties *)

\* The shape of the state: a slot, in memory or in the checkpoint, has one of the
\* declared statuses, an epoch that was issued and a winner only when completed.
TypeOK ==
    /\ plays \in Seq(MapPlay) /\ Len(plays) <= MaxMaps
    /\ runtime \in Runtime
    /\ progress \in Progress \cup {None}
    /\ saving \in Seq(Progress)
    /\ disk \in Progress \cup {None}
    /\ up \in BOOLEAN
    /\ {crashes, unbinds, lostSaves} \subseteq Nat /\ crashes + unbinds + lostSaves <= MaxFaults

\* Every frozen result is the result of the execution really played for that
\* slot: no frame of another map, late, repeated or replayed after a restart,
\* fills it (reducer.ts ensureBinding, mapForEpoch, endMap).
ResultsAreReal ==
    progress # None =>
        \A s \in Completed(progress) :
            LET i == progress.slots[s].evidence
            IN  i \in Finished /\ plays[i].slot = s /\ plays[i].winner = progress.slots[s].winner

\* While the series waits for the operator, no slot takes in what the
\* unplanned map reports: it "fails closed" (docs/decisions/0003:12,
\* docs/product.md:116; reducer.ts ensureBinding against mapForEpoch).
PausedSeriesTakesNothing ==
    progress # None /\ progress.binding = "needs_operator" =>
        SlotsOfEpoch(progress, runtime.epoch) = {}

\* What holds of a series' slots at all times (reducer.ts ensureBinding, mapForEpoch, endMap).
SeriesInv == TypeOK /\ ResultsAreReal /\ PausedSeriesTakesNothing

\* The same in terms of results: while the binding needs the operator, before
\* and after a step, the step freezes no slot.
PausedSeriesNeverScores ==
    [][progress # None /\ progress' # None
       /\ progress.binding = "needs_operator" /\ progress'.binding = "needs_operator"
       => Completed(progress') = Completed(progress)]_vars

\* While a match stays bound, a frozen result is never reopened or rescored,
\* whatever frames, binds and reloads follow (reducer.ts setCurrentMap, endMap).
FrozenResultsStay ==
    [][progress # None /\ progress' # None =>
           \A s \in Completed(progress) : progress'.slots[s] = progress.slots[s]]_vars

\* The file never forgets a result it once held, through failed saves, crashes
\* and the binding after them, as long as no context was taken away with a save
\* still queued (checkpoint-store.ts, program-runtime.ts synchronizeSeriesProgress).
CheckpointKeepsResults ==
    [][disk # None /\ unbinds = 0 =>
           \A s \in Completed(disk) : disk'.slots[s] = disk.slots[s]]_vars

\* In memory and in the file (reducer.ts endMap, checkpoint-store.ts save).
ResultsStay == FrozenResultsStay /\ CheckpointKeepsResults
=============================================================================
