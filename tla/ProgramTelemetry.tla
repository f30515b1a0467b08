-------------------------- MODULE ProgramTelemetry --------------------------
(***************************************************************************)
(* The runtime reducer behind the programme picture: what a stream of GSI  *)
(* frames, some of them lost, says about rounds, damage and the bomb       *)
(* (packages/core/src/runtime: reducer.ts, continuity.ts, transitions.ts,  *)
(* player-stats.ts, objective-timing.ts; app.ts dispatchObservation).      *)
(*                                                                         *)
(* A frame is a picture of the game at one moment.  The companion numbers  *)
(* frames as it receives them, so a frame lost on the way leaves NO gap in *)
(* the numbers; one the adapter refuses does.  A silence longer than       *)
(* staleAfterMs starts a new source generation.                            *)
(*                                                                         *)
(* Assumed of the game: a whole freezetime or live phase lasts longer than *)
(* staleAfterMs, the over phase may not; a phase that frames arrive in is  *)
(* shown by one with a round section, except over.  One player stands for  *)
(* all.  Left out: start money, the plant and explosion durations, the     *)
(* limit of 64 players, and the classifier's refusals (a live source       *)
(* numbers upwards and every input carries the current generation).        *)
(***************************************************************************)
EXTENDS Integers, Sequences

CONSTANTS None

\* Bounds of the exploration, no part of the program.
CONSTANTS
    MaxMaps, MaxRounds, MaxPlays, MaxDamage,
    MaxBreaks   \* source generations and resets of the execution, together

ASSUME TelemetryBounds ==
    {MaxMaps, MaxPlays} \subseteq Nat \ {0} /\ {MaxRounds, MaxDamage, MaxBreaks} \subseteq Nat

VARIABLES
    game,       \* [map, round, phase, damage, bomb]: the real game
    plays,      \* damage dealt in each round played so far, the last one running
    heard,      \* an accepted frame fell into this phase
    shown,      \* ... one with a round section
    silent,     \* a whole freezetime or live phase passed unheard
    skipped,    \* a number went to a frame the adapter refused
    state,      \* RuntimeState: [generation, accepted, epoch, name, telemetry]
    stats,      \* RuntimeState.playerStats
    anchor,     \* objectiveTiming.explosionAnchor: the play whose bomb it times
    started,    \* history: plays named by round_started, in order
    ended,      \* history: plays named by round_ended, in order
    counted,    \* history: plays the statistics of this epoch count, in order
    resets

world == <<game, plays>>
hearing == <<heard, shown, silent, skipped>>
reduced == <<state, stats, anchor, started, ended, counted>>
vars == <<world, hearing, reduced, resets>>

Phases == {"freezetime", "live", "over"}
Bombs == {"carried", "planted", "defusing", "gone"}
ThisPlay == Len(plays)
MoreBreaks == state.generation + resets < MaxBreaks

-----------------------------------------------------------------------------
(* The game *)

\* Leaving a phase.  Frames that came in it have shown it.
PhaseEnds ==
    /\ heard /\ game.phase # "over" => shown
    /\ heard' = FALSE /\ shown' = FALSE
    /\ silent' = (silent \/ (~heard /\ game.phase # "over" /\ state.accepted # None))
    /\ UNCHANGED <<skipped, reduced, resets>>

GoesLive ==
    /\ game.phase = "freezetime"
    /\ game' = [game EXCEPT !.phase = "live"]
    /\ UNCHANGED plays
    /\ PhaseEnds

RoundOver ==
    /\ game.phase = "live"
    /\ game' = [game EXCEPT !.phase = "over", !.bomb = "gone"]
    /\ UNCHANGED plays
    /\ PhaseEnds

\* The next round, or the same one again after a restart of the round.
NextRound(round) ==
    /\ Len(plays) < MaxPlays
    /\ \/ game.phase = "over" /\ round = game.round + 1 /\ round < MaxRounds
       \/ game.phase = "live" /\ round = game.round
    /\ game' = [game EXCEPT !.round = round, !.phase = "freezetime",
                            !.damage = 0, !.bomb = "carried"]
    /\ plays' = Append(plays, 0)
    /\ PhaseEnds

\* Changing the map takes longer than staleAfterMs.
NextMap ==
    /\ game.phase = "over" /\ game.map < MaxMaps /\ Len(plays) < MaxPlays
    /\ game.round = MaxRounds - 1      \* a bound: maps end after their last round
    /\ game' = [map |-> game.map + 1, round |-> 0, phase |-> "freezetime",
                damage |-> 0, bomb |-> "carried"]
    /\ plays' = Append(plays, 0)
    /\ heard' = FALSE /\ shown' = FALSE /\ silent' = (state.accepted # None)
    /\ UNCHANGED <<skipped, reduced, resets>>

Damages ==
    /\ game.phase = "live" /\ game.damage < MaxDamage
    /\ game' = [game EXCEPT !.damage = @ + 1]
    /\ plays' = [plays EXCEPT ![ThisPlay] = @ + 1]
    /\ UNCHANGED <<hearing, reduced, resets>>

BombMoves(bomb) ==
    /\ game.phase = "live"
    /\ <<game.bomb, bomb>> \in {<<"carried", "planted">>, <<"planted", "defusing">>,
                                <<"defusing", "planted">>}
    /\ game' = [game EXCEPT !.bomb = bomb]
    /\ UNCHANGED <<plays, hearing, reduced, resets>>

-----------------------------------------------------------------------------
(* player-stats.ts *)

NoHint == 0 - 1
EmptyStats(epoch) == [epoch |-> epoch, rounds |-> 0, damage |-> 0, current |-> None]

CurrentRound == [hint : NoHint..MaxRounds, phase : Phases, eligible : BOOLEAN,
                 invalidated : BOOLEAN, evidence : BOOLEAN, damage : 0..MaxDamage]

\* What is kept of a frame: RuntimeState.programTelemetry.
Picture == [phase : Phases \cup {"unknown"}, players : BOOLEAN, damage : 0..MaxDamage]

ASSUME NoneAssumption ==
    None \notin 0..(MaxMaps + MaxPlays + MaxBreaks) \cup CurrentRound \cup Picture

InvalidateRound(r) ==
    IF r = None THEN None
    ELSE [r EXCEPT !.eligible = FALSE, !.invalidated = TRUE, !.evidence = FALSE, !.damage = 0]
Invalidate(s) == [s EXCEPT !.current = InvalidateRound(@)]

SameHint(r, hint) == r.hint = NoHint \/ hint = NoHint \/ r.hint = hint
RoundEndHint(r, hint) == SameHint(r, hint) \/ hint = r.hint + 1

\* The round the frame continues: a hint that moved breaks it, and so does a
\* freezetime after another phase.
Continued(r, frame) ==
    IF r = None \/ frame.phase = "unknown" THEN r
    ELSE IF frame.phase = "over"
    THEN IF RoundEndHint(r, frame.hint) THEN r ELSE InvalidateRound(r)
    ELSE IF ~SameHint(r, frame.hint)
    THEN IF frame.phase = "freezetime" THEN None ELSE InvalidateRound(r)
    ELSE IF frame.phase = "freezetime" /\ r.phase # "freezetime" THEN None ELSE r

Opened(frame, healthy) ==
    LET invalidated == ~healthy \/ ~frame.players \/ frame.phase = "live"
    IN  [hint |-> frame.hint, phase |-> frame.phase, eligible |-> FALSE,
         invalidated |-> invalidated, evidence |-> ~invalidated /\ frame.players, damage |-> 0]

Updated(r, frame, healthy) ==
    LET invalidated == r.invalidated \/ ~healthy \/ ~frame.players
        promotes == /\ ~invalidated /\ r.phase = "freezetime" /\ frame.phase = "live"
                    /\ r.evidence /\ SameHint(r, frame.hint)
    IN  [hint |-> r.hint, phase |-> IF frame.phase = "unknown" THEN r.phase ELSE frame.phase,
         eligible |-> promotes \/ (r.eligible /\ ~invalidated),
         invalidated |-> invalidated, evidence |-> ~invalidated /\ r.evidence,
         damage |-> IF invalidated THEN 0
                    ELSE IF frame.damage > r.damage THEN frame.damage ELSE r.damage]

Counts(r) == r # None /\ r.eligible /\ r.evidence /\ ~r.invalidated

\* reduceMapPlayerStats, up to the addition of a finished round.
RoundAfter(s, frame, epoch, continuity) ==
    LET fresh   == s.epoch # epoch
        healthy == fresh \/ continuity \in {"baseline", "contiguous"}
        kept    == IF fresh THEN None
                   ELSE Continued(IF healthy THEN s.current ELSE InvalidateRound(s.current), frame)
        round   == IF kept = None /\ frame.phase \in {"freezetime", "live"}
                   THEN Opened(frame, healthy) ELSE kept
    IN  IF round = None THEN None ELSE Updated(round, frame, healthy)

ReduceStats(s, frame, epoch, continuity) ==
    LET base  == IF s.epoch # epoch THEN EmptyStats(epoch) ELSE s
        round == RoundAfter(s, frame, epoch, continuity)
    IN  IF frame.phase # "over" THEN [base EXCEPT !.current = round]
        ELSE IF Counts(round)
        THEN [base EXCEPT !.rounds = @ + 1, !.damage = @ + round.damage, !.current = None]
        ELSE [base EXCEPT !.current = None]

-----------------------------------------------------------------------------
(* objective-timing.ts and transitions.ts *)

\* A planted frame with a countdown sets the anchor; without one, and while
\* the countdown is the defuser's, a contiguous frame keeps it.
ReduceAnchor(previous, frame, continuity, sameEpoch) ==
    LET retained == IF continuity = "contiguous" /\ sameEpoch THEN previous ELSE None
    IN  IF frame.phase = "over" THEN None
        ELSE CASE frame.bomb = "planted"  -> IF frame.countdown THEN ThisPlay ELSE retained
               [] frame.bomb = "defusing" -> retained
               [] OTHER                   -> None

\* buildTelemetryTransitions: an edge between two frames that follow each
\* other, of one generation and of one established map execution.
Edge(before, frame, epoch, continuity, from, to) ==
    /\ continuity = "contiguous"
    /\ before.telemetry # None
    /\ before.epoch > 0 /\ before.epoch = epoch
    /\ before.telemetry.phase = from /\ frame.phase = to

-----------------------------------------------------------------------------
(* Inputs *)

\* What a frame tells; the section it lacks is unknown.
FrameOf(lacks, countdown, endHint) ==
    [name      |-> IF lacks = "map" THEN None ELSE game.map,
     phase     |-> IF lacks = "round" THEN "unknown" ELSE game.phase,
     hint      |-> IF lacks = "map" THEN NoHint
                   ELSE IF game.phase = "over" THEN game.round + endHint ELSE game.round,
     players   |-> lacks # "allplayers",
     damage    |-> IF lacks = "allplayers" THEN 0 ELSE game.damage,
     bomb      |-> IF lacks = "bomb" THEN "unknown" ELSE game.bomb,
     countdown |-> countdown]

AdvanceKeepingRound(s) ==
    [state |-> [s EXCEPT !.generation = @ + 1, !.telemetry = None],
     stats |-> stats, anchor |-> None]

\* reduceGenerationAdvance: the cursor stays, the frame and the anchor go,
\* the running round no longer counts.
AdvanceGeneration(s) ==
    [state |-> [s EXCEPT !.generation = @ + 1, !.telemetry = None],
     stats |-> Invalidate(stats), anchor |-> None]

\* classifyProgramTelemetry: numbers that a refused frame broke are a gap.
Classified ==
    IF state.accepted = None THEN "baseline"
    ELSE IF skipped THEN "gap-resync" ELSE "contiguous"

\* nextMapState: the first name establishes the map, another one replaces it.
NextEpoch(s, name) ==
    IF name = None \/ name = s.name THEN s.epoch ELSE s.epoch + 1

\* reduceProgramTelemetry, after the advance a late frame causes.
ObserveFrame(frame, late) ==
    /\ late => state.accepted # None /\ MoreBreaks
    /\ silent => late
    /\ LET before == IF late THEN AdvanceGeneration(state)
                     ELSE [state |-> state, stats |-> stats, anchor |-> anchor]
           continuity == Classified
           epoch == NextEpoch(state, frame.name)
           edge(from, to) == Edge(before.state, frame, epoch, continuity, from, to)
           after == ReduceStats(before.stats, frame, epoch, continuity)
           known == IF before.stats.epoch = epoch THEN counted ELSE <<>>
       IN  /\ state' = [before.state EXCEPT
                            !.accepted = before.state.generation, !.epoch = epoch,
                            !.name = IF frame.name = None THEN @ ELSE frame.name,
                            !.telemetry = [phase |-> frame.phase, players |-> frame.players,
                                           damage |-> frame.damage]]
           /\ stats' = after
           /\ anchor' = ReduceAnchor(before.anchor, frame, continuity, epoch = state.epoch)
           /\ started' = IF edge("freezetime", "live") THEN Append(started, ThisPlay) ELSE started
           /\ ended' = IF edge("live", "over") THEN Append(ended, ThisPlay) ELSE ended
           /\ counted' = IF frame.phase = "over"
                            /\ Counts(RoundAfter(before.stats, frame, epoch, continuity))
                         THEN Append(known, ThisPlay) ELSE known
    /\ heard' = TRUE /\ shown' = (shown \/ frame.phase # "unknown")
    /\ silent' = FALSE /\ skipped' = FALSE
    /\ UNCHANGED <<world, resets>>

\* The section a frame may lack; one without the bomb reads as carried does.
Lacking == {"nothing", "map", "round", "allplayers"}
           \cup IF game.bomb \in {"planted", "defusing"} THEN {"bomb"} ELSE {}

GsiFrame ==
    \E lacks \in Lacking, late \in BOOLEAN :
        \E countdown \in IF game.bomb = "planted" /\ lacks # "bomb" THEN BOOLEAN ELSE {FALSE},
           endHint \in IF game.phase = "over" /\ lacks # "map" THEN {0, 1} ELSE {0} :
            ObserveFrame(FrameOf(lacks, countdown, endHint), late)

\* gsi-ingress gives the frame a number, then the adapter refuses it.
FrameRefused ==
    /\ state.accepted # None /\ ~skipped
    /\ skipped' = TRUE
    /\ UNCHANGED <<world, heard, shown, silent, reduced, resets>>

\* reduceMapReset: a new epoch on the same map, at any moment.
ResetExecution ==
    /\ state.epoch > 0 /\ MoreBreaks
    /\ resets' = resets + 1
    /\ state' = [state EXCEPT !.epoch = @ + 1, !.telemetry = None]
    /\ stats' = EmptyStats(state.epoch + 1)
    /\ anchor' = None /\ counted' = <<>>
    /\ UNCHANGED <<world, hearing, started, ended>>

Init ==
    /\ game = [map |-> 1, round |-> 0, phase |-> "freezetime", damage |-> 0, bomb |-> "carried"]
    /\ plays = <<0>>
    /\ heard = FALSE /\ shown = FALSE /\ silent = FALSE /\ skipped = FALSE
    /\ state = [generation |-> 0, accepted |-> None, epoch |-> 0, name |-> None,
                telemetry |-> None]
    /\ stats = EmptyStats(0) /\ anchor = None
    /\ started = <<>> /\ ended = <<>> /\ counted = <<>>
    /\ resets = 0

Next ==
    \/ GoesLive \/ RoundOver \/ NextMap \/ Damages
    \/ \E round \in 0..MaxRounds : NextRound(round)
    \/ \E bomb \in Bombs : BombMoves(bomb)
    \/ GsiFrame \/ FrameRefused \/ ResetExecution

Spec == Init /\ [][Next]_vars

-----------------------------------------------------------------------------
(* Properties *)

\* The shape of the reducer's state: epochs are counted once per map and reset, and
\* no round or damage is counted that a play could not have had.
TypeOK ==
    /\ game \in [map : 1..MaxMaps, round : 0..MaxRounds, phase : Phases,
                 damage : 0..MaxDamage, bomb : Bombs]
    /\ plays \in Seq(0..MaxDamage) /\ Len(plays) \in 1..MaxPlays
    /\ {heard, shown, silent, skipped} \subseteq BOOLEAN
    /\ state \in [generation : 0..MaxBreaks, accepted : {None} \cup 0..MaxBreaks,
                  epoch : 0..(MaxMaps + MaxBreaks), name : {None} \cup 1..MaxMaps,
                  telemetry : {None} \cup Picture]
    /\ stats \in [epoch : 0..(MaxMaps + MaxBreaks), rounds : 0..MaxPlays,
                  damage : 0..(MaxPlays * MaxDamage), current : {None} \cup CurrentRound]
    /\ anchor \in {None} \cup 1..MaxPlays
    /\ {started, ended, counted} \subseteq Seq(1..MaxPlays)
    /\ resets \in 0..MaxBreaks

Distinct(s) == \A i, j \in DOMAIN s : s[i] = s[j] => i = j

\* The damage dealt in the plays of s together.
DamageIn(s, dealt) ==
    LET sum[i \in 0..Len(s)] == IF i = 0 THEN 0 ELSE sum[i - 1] + dealt[s[i]]
    IN  sum[Len(s)]

\* The damage behind completedAdr is exactly what was dealt in the rounds it
\* is divided by, and no round is counted twice: a round seen with a hole in
\* it, from its middle, or run together with another one never counts
\* (player-stats.ts reduceMapPlayerStats).
AdrIsExact ==
    /\ Distinct(counted) /\ stats.rounds = Len(counted)
    /\ stats.damage = DamageIn(counted, plays)

\* The damage shown for the running round is that round's own, as of the last
\* frame that showed a phase, never a remainder of the round before or of the
\* attempt the server took back (player-stats.ts copyPlayerDamage, getPlayerCurrentRoundDamage).
LiveDamageIsThisRound ==
    stats.current # None /\ stats.current.evidence /\ ~stats.current.invalidated
    /\ state.telemetry # None /\ state.telemetry.phase # "unknown"
    => stats.current.damage = state.telemetry.damage

\* round_started and round_ended name each round played at most once
\* (transitions.ts buildTelemetryTransitions).
RoundEdgesOnce == Distinct(started) /\ Distinct(ended)

\* The explosion clock never runs on another round's bomb (objective-timing.ts
\* reduceObjectiveTiming).
AnchorIsThisBomb == anchor # None /\ heard => anchor = ThisPlay

\* What holds of the statistics, the edges and the clock at all times, whatever frames are lost,
\* refused or reset (player-stats.ts, transitions.ts, objective-timing.ts).
TelemetryInv ==
    /\ TypeOK /\ AdrIsExact /\ LiveDamageIsThisRound
    /\ RoundEdgesOnce /\ AnchorIsThisBomb
=============================================================================
