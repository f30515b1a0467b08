-------------------------- MODULE IdentityLineup --------------------------
(***************************************************************************)
(* Who is on the server: the identity of the observed players against the  *)
(* bound match (core/src/identity/resolve.ts, side-mapping.ts) and the     *)
(* stable lineup of the programme (active-lineup.ts), both recomputed by   *)
(* the projection coordinator from the telemetry the runtime holds.        *)
(*                                                                         *)
(* A frame is what the programme source says of the players: for each how  *)
(* it is listed, and whether the list can be trusted.  A list is keyed by  *)
(* the player, so that no player is listed twice.  Left out: issues and    *)
(* wording, ordering, the local override of the candidates (never given by *)
(* the companion), starters, and the cap on the extras.                    *)
(***************************************************************************)
EXTENDS Integers, FiniteSets

CONSTANTS
    SourcePlayers,      \* what the source may list
    Steam64s,           \* those of them with a Steam64; the others are bots
    SideSize,           \* five
    MatchContexts,      \* contexts that may be bound: [match, a, b], the Steam64s by entrant
    Frames,             \* [coverage, readable, entry, ctName, otherMap]
    NoContext,
    NoFrame,
    MaxSourceGeneration,
    MaxMapEpoch

ASSUME IdentityAssumption ==
    /\ IsFiniteSet(SourcePlayers) /\ Steam64s \subseteq SourcePlayers
    /\ SideSize \in Nat \ {0}
    /\ \A c \in MatchContexts : c.a \cup c.b \subseteq Steam64s
    /\ NoContext \notin MatchContexts

\* A list whose coverage is "present" was read (telemetry-gsi/src/adapter.ts:30).
ASSUME FramesAssumption ==
    /\ Frames \subseteq [coverage : {"present", "degraded", "absent"}, readable : BOOLEAN,
                         entry : [SourcePlayers -> {"CT", "T", "aside", "gone"}],
                         ctName : {"a", "b", "none"}, otherMap : BOOLEAN]
    /\ \A f \in Frames : f.coverage = "present" => f.readable
    /\ NoFrame \notin Frames

VARIABLES
    boundContext,       \* the context of the binding, or NoContext
    sourceGeneration,
    mapEpoch,
    heldFrame,          \* programTelemetry, of the current generation, or NoFrame
    unreadEvidence,     \* the held frame is not the one of lastIdentityEvidence
    identity,           \* [state, generation, epoch, players, sides]
    lineup,             \* [state, generation, epoch, members]
    \* No variables of the program:
    lastClear,          \* the last frame with a complete list in this generation, map and context
    lastExact           \* the sides in the last frame that showed two full sides, on this map

identityVars == <<boundContext, sourceGeneration, mapEpoch, heldFrame, unreadEvidence, identity,
                  lineup, lastClear, lastExact>>

Sides == {"CT", "T"}
BothEntrants == {"a", "b"}
NoPlayers == [p \in {} |-> "no player"]

-----------------------------------------------------------------------------
(* The identity *)

UnknownSides == [a |-> "unknown", b |-> "unknown"]

Resolution(state, generation, epoch, players, sides) ==
    [state |-> state, generation |-> generation, epoch |-> epoch, players |-> players,
     sides |-> sides]

UnboundIdentity == Resolution("unbound", 0, 0, NoPlayers, UnknownSides)
FreshIdentity == Resolution("resolving", 0, 0, NoPlayers, UnknownSides)

Roster(c, e) == IF e = "a" THEN c.a ELSE c.b

Listed(f) == {p \in SourcePlayers : f.entry[p] # "gone"}
ObservedSide(f, p) == IF f.entry[p] \in Sides THEN f.entry[p] ELSE "unknown"
OnSide(f, side) == {p \in SourcePlayers : f.entry[p] = side}

\* The listed players whom the rosters know.
CurrentlyResolved(c, f) ==
    [p \in Listed(f) \cap (c.a \cup c.b) |-> [side |-> ObservedSide(f, p), current |-> TRUE]]

SidesSeen(c, f, e) == {f.entry[p] : p \in Roster(c, e)} \cap Sides

NamedSide(f, e) == IF f.ctName = e THEN "CT" ELSE "T"

\* The sides players are seen on, else what the map calls its sides, else what was known.
EntrySide(c, f, e, known) ==
    CASE Cardinality(SidesSeen(c, f, e)) = 1 -> CHOOSE side \in Sides : side \in SidesSeen(c, f, e)
      [] Cardinality(SidesSeen(c, f, e)) > 1 -> "unknown"
      [] SidesSeen(c, f, e) = {} /\ f.ctName \in BothEntrants -> NamedSide(f, e)
      [] SidesSeen(c, f, e) = {} /\ f.ctName \notin BothEntrants -> known[e]

SideMapping(c, f, known) == [e \in BothEntrants |-> EntrySide(c, f, e, known)]

SidesComplete(sides) == sides.a # "unknown" /\ sides.b # "unknown" /\ sides.a # sides.b

Contradicts(c, f, sides) ==
    \/ f.otherMap
    \/ \E e \in BothEntrants : Cardinality(SidesSeen(c, f, e)) > 1
    \/ sides.a # "unknown" /\ sides.a = sides.b
    \/ c.a \cap c.b # {}

ObservedFiveVsFive(f) ==
    /\ f.coverage = "present"
    /\ Listed(f) = OnSide(f, "CT") \cup OnSide(f, "T")
    /\ \A side \in Sides : Cardinality(OnSide(f, side)) = SideSize

CanonicalFiveVsFive(c, f, sides) ==
    /\ ObservedFiveVsFive(f)
    /\ Listed(f) \subseteq c.a \cup c.b
    /\ \A e \in BothEntrants : Cardinality(Listed(f) \cap Roster(c, e)) = SideSize
    /\ SidesComplete(sides)

Retained(players) == [p \in DOMAIN players |-> [players[p] EXCEPT !.current = FALSE]]

Merged(current, previous) ==
    [p \in DOMAIN current \cup DOMAIN previous |->
        IF p \in DOMAIN current THEN current[p] ELSE [previous[p] EXCEPT !.current = FALSE]]

\* resolveIdentity: what the held frame makes of the previous resolution.
ResolveIdentity(c, f, generation, epoch, previous) ==
    LET compatible == previous.generation = generation /\ previous.epoch = epoch
        known == IF compatible THEN previous.players ELSE NoPlayers
        sides == SideMapping(c, f, IF compatible THEN previous.sides ELSE UnknownSides)
        contradicted == Contradicts(c, f, sides)
        current == CurrentlyResolved(c, f)
        players == IF ObservedFiveVsFive(f) \/ contradicted THEN current ELSE Merged(current, known)
        held(state) ==
            Resolution(state, generation, epoch, Retained(previous.players), previous.sides)
        found(state) == Resolution(state, generation, epoch, players, sides)
    IN CASE ~f.readable /\ DOMAIN known = {} ->
              Resolution("resolving", generation, epoch, NoPlayers, UnknownSides)
         [] ~f.readable /\ DOMAIN known # {} ->
              held(IF previous.state \in {"mismatch", "matched"} THEN previous.state
                   ELSE "degraded")
         [] f.readable /\ contradicted -> found("mismatch")
         [] /\ f.readable /\ ~contradicted
            /\ f.coverage = "degraded" /\ previous.state = "matched" /\ DOMAIN known # {} ->
              held("matched")
         [] /\ f.readable /\ ~contradicted
            /\ ~(f.coverage = "degraded" /\ previous.state = "matched" /\ DOMAIN known # {}) ->
              found(IF CanonicalFiveVsFive(c, f, sides) THEN "matched" ELSE "degraded")

\* capabilities.canonicalTeamBranding
Branded(i) ==
    \/ i.state = "matched"
    \/ /\ i.state = "degraded" /\ SidesComplete(i.sides)
       /\ boundContext # NoContext
       /\ \A e \in BothEntrants : DOMAIN i.players \cap Roster(boundContext, e) # {}

-----------------------------------------------------------------------------
(* The lineup *)

Lineup(state, generation, epoch, members) ==
    [state |-> state, generation |-> generation, epoch |-> epoch, members |-> members]

EmptyLineup(generation, epoch) == Lineup("resolving", generation, epoch, NoPlayers)

MembersOn(l, side) == {p \in DOMAIN l.members : l.members[p].side = side}

IsBaseline(l) == \A side \in Sides : Cardinality(MembersOn(l, side)) = SideSize

ExactCandidates(f) ==
    /\ f.coverage = "present"
    /\ \A side \in Sides : Cardinality(OnSide(f, side)) = SideSize /\ OnSide(f, side) \subseteq Steam64s

\* Mutant: a torn list moves the members it shows.
RetainPreviousAsListed(l, f, generation, epoch, evidence) ==
    Lineup("degraded", generation, epoch,
           [p \in DOMAIN l.members |->
               IF f # NoFrame /\ f.readable /\ p \in Listed(f)
               THEN [side |-> ObservedSide(f, p), evidence |-> evidence, observed |-> TRUE]
               ELSE [side |-> l.members[p].side, evidence |-> "retained", observed |-> FALSE]])

\* retainPrevious: the members stay, on the sides they had; what is observed is of this frame.
RetainPrevious(l, f, generation, epoch, evidence) ==
    Lineup("degraded", generation, epoch,
           [p \in DOMAIN l.members |->
               IF f # NoFrame /\ f.readable /\ p \in Listed(f)
               THEN [side |-> l.members[p].side, evidence |-> evidence, observed |-> TRUE]
               ELSE [side |-> l.members[p].side, evidence |-> "retained", observed |-> FALSE]])

CoverageOf(f) == IF f = NoFrame THEN "absent" ELSE f.coverage

ResolveLineup(f, generation, epoch, previous) ==
    IF f # NoFrame /\ ExactCandidates(f)
    THEN Lineup("complete", generation, epoch,
                [p \in OnSide(f, "CT") \cup OnSide(f, "T") |->
                    [side |-> f.entry[p], evidence |-> "current", observed |-> TRUE]])
    ELSE IF previous.epoch = epoch /\ IsBaseline(previous)
    THEN RetainPrevious(previous, f, generation, epoch,
                        IF CoverageOf(f) = "present" THEN "current" ELSE "retained")
    ELSE Lineup(IF CoverageOf(f) = "degraded" THEN "degraded" ELSE "resolving",
                generation, epoch, NoPlayers)

-----------------------------------------------------------------------------
(* The coordinator *)

\* Mutant: a frame that was read already proves nothing any more.
CoordinatedFromNewFrames(c, f, generation, epoch, previous, unread) ==
    IF c = NoContext THEN UnboundIdentity
    ELSE IF f = NoFrame \/ ~unread THEN FreshIdentity
    ELSE ResolveIdentity(c, f, generation, epoch, previous)

\* The coordinator's resolveIdentity over the runtime it reads: context c, frame f and the clocks.
CoordinatedIdentity(c, f, generation, epoch, previous, unread) ==
    IF c = NoContext THEN UnboundIdentity
    ELSE IF f = NoFrame THEN FreshIdentity
    ELSE IF ~unread /\ (previous.generation # generation \/ previous.epoch # epoch)
    THEN FreshIdentity
    ELSE ResolveIdentity(c, f, generation, epoch, previous)

\* refresh, after the runtime or the binding has become what the primed variables say.
RefreshFrom(previousIdentity, previousLineup, unread) ==
    /\ identity' = CoordinatedIdentity(boundContext', heldFrame', sourceGeneration', mapEpoch',
                                       previousIdentity, unread)
    /\ lineup' = ResolveLineup(heldFrame', sourceGeneration', mapEpoch', previousLineup)
    /\ unreadEvidence' = (unread /\ (boundContext' = NoContext \/ heldFrame' = NoFrame))
    /\ lastExact' = IF heldFrame' # NoFrame /\ ExactCandidates(heldFrame')
                    THEN [p \in OnSide(heldFrame', "CT") \cup OnSide(heldFrame', "T") |->
                              heldFrame'.entry[p]]
                    ELSE IF lineup'.epoch = previousLineup.epoch /\ previousLineup.members # NoPlayers
                    THEN lastExact
                    ELSE NoPlayers

IdentityInit ==
    /\ boundContext = NoContext
    /\ sourceGeneration = 0 /\ mapEpoch = 0
    /\ heldFrame = NoFrame
    /\ unreadEvidence = TRUE
    /\ identity = UnboundIdentity
    /\ lineup = EmptyLineup(0, 0)
    /\ lastClear = NoFrame
    /\ lastExact = NoPlayers

\* An accepted frame of the current generation; the first named map and each change of the name
\* begin a map epoch.
FrameAccepted(f, otherName) ==
    /\ otherName => mapEpoch < MaxMapEpoch
    /\ mapEpoch' = IF otherName THEN mapEpoch + 1 ELSE mapEpoch
    /\ heldFrame' = f
    /\ UNCHANGED <<boundContext, sourceGeneration>>
    /\ RefreshFrom(identity, lineup, TRUE)
    /\ lastClear' = IF f.coverage = "present" THEN f ELSE IF otherName THEN NoFrame ELSE lastClear

\* reduceGenerationAdvance
GenerationAdvances ==
    /\ sourceGeneration < MaxSourceGeneration
    /\ sourceGeneration' = sourceGeneration + 1
    /\ heldFrame' = NoFrame
    /\ UNCHANGED <<boundContext, mapEpoch>>
    /\ RefreshFrom(identity, lineup, unreadEvidence)
    /\ lastClear' = NoFrame

\* reduceMapReset
MapExecutionReset ==
    /\ mapEpoch > 0 /\ mapEpoch < MaxMapEpoch
    /\ mapEpoch' = mapEpoch + 1
    /\ heldFrame' = NoFrame
    /\ UNCHANGED <<boundContext, sourceGeneration>>
    /\ RefreshFrom(identity, lineup, unreadEvidence)
    /\ lastClear' = NoFrame

\* setMatchContextBinding with a context that was loaded, be it the same again; the lineup
\* survives another revision of its match.
BindContext(c) ==
    /\ boundContext' = c
    /\ UNCHANGED <<sourceGeneration, mapEpoch, heldFrame>>
    /\ RefreshFrom(FreshIdentity,
                   IF boundContext # NoContext /\ boundContext.match # c.match
                   THEN EmptyLineup(sourceGeneration, mapEpoch) ELSE lineup,
                   TRUE)
    /\ lastClear' = IF heldFrame # NoFrame /\ heldFrame.coverage = "present" THEN heldFrame
                    ELSE NoFrame

UnbindContext ==
    /\ boundContext # NoContext
    /\ boundContext' = NoContext
    /\ UNCHANGED <<sourceGeneration, mapEpoch, heldFrame>>
    /\ RefreshFrom(UnboundIdentity, EmptyLineup(sourceGeneration, mapEpoch), TRUE)
    /\ lastClear' = NoFrame

\* A refresh with nothing new: a stale deadline, an operator's command, another freshness.
RefreshAgain ==
    /\ UNCHANGED <<boundContext, sourceGeneration, mapEpoch, heldFrame, lastClear>>
    /\ RefreshFrom(identity, lineup, unreadEvidence)

IdentityNext ==
    \/ \E f \in Frames, otherName \in BOOLEAN : FrameAccepted(f, otherName)
    \/ GenerationAdvances
    \/ MapExecutionReset
    \/ \E c \in MatchContexts : BindContext(c)
    \/ UnbindContext
    \/ RefreshAgain

IdentitySpec == IdentityInit /\ [][IdentityNext]_identityVars

-----------------------------------------------------------------------------
(* Properties *)

\* Only a complete list proves who plays: two full sides, each of one entrant, on this map, under
\* this context and in this generation of the source; frames that came later without a complete
\* list may keep the proof but not make it.
MatchedIsProven ==
    identity.state = "matched" =>
        /\ lastClear # NoFrame
        /\ \E side \in Sides :
              /\ OnSide(lastClear, side) \subseteq boundContext.a
              /\ OnSide(lastClear, IF side = "CT" THEN "T" ELSE "CT") \subseteq boundContext.b
              /\ identity.sides.a = side
        /\ Cardinality(Listed(lastClear)) = 2 * SideSize

\* A team's name is never shown on a side where a complete list has a player of the other team.
BrandIsOnItsSide ==
    Branded(identity) =>
        /\ SidesComplete(identity.sides)
        /\ heldFrame # NoFrame /\ heldFrame.coverage = "present" =>
              \A e \in BothEntrants : \A p \in Roster(boundContext, e) :
                  heldFrame.entry[p] \in Sides => heldFrame.entry[p] = identity.sides[e]

\* The lineup shows the two sides of the last frame that had them in full on this map, however
\* many torn frames, reconnects of the source and revisions of the context came since; and of the
\* missing members nothing is shown as observed.
LineupIsLastExact ==
    /\ lineup.epoch = mapEpoch
    /\ [p \in DOMAIN lineup.members |-> lineup.members[p].side] = lastExact
    /\ lineup.members # NoPlayers => IsBaseline(lineup)
    /\ \A p \in DOMAIN lineup.members :
          lineup.members[p].observed => heldFrame # NoFrame /\ heldFrame.entry[p] # "gone"
    /\ lineup.state = "complete" =>
          \A p \in DOMAIN lineup.members : lineup.members[p].evidence = "current"

\* The rails and the brands agree: who is proven to play for an entrant stands on its side.
RailsMatchBrands ==
    identity.state = "matched" =>
        \A e \in BothEntrants : \A p \in DOMAIN lineup.members \cap Roster(boundContext, e) :
            lineup.members[p].side = identity.sides[e]

IdentityInv ==
    MatchedIsProven /\ BrandIsOnItsSide /\ LineupIsLastExact /\ RailsMatchBrands

\* Refreshing again what was read changes nothing: a deadline that fires between two frames, or a
\* command, neither revokes an identity nor tears the lineup.
RefreshIsIdempotent == [][RefreshAgain => UNCHANGED identityVars]_identityVars
=============================================================================
