--------------------------- MODULE EventSourceProofs ---------------------------
(***************************************************************************)
(* Proofs about the way of an event to the programme's pages: the CSTV     *)
(* source and the replay that stands in for it, and the cue lane that      *)
(* takes the event to a page.  For every number of pages, reconnections,   *)
(* events, frames and seeks, and for every limit of a queue.               *)
(***************************************************************************)
EXTENDS ProgramCueLane, CstvSource, ReplaySession, SequenceTheorems, TLAPS

-----------------------------------------------------------------------------
(* The replay session *)

Rebuild == [number : Nat, target : ReplayFrames]

ReplayTypes ==
    /\ cursor \in [index : Int, playing : BOOLEAN, seeking : BOOLEAN, failed : BOOLEAN,
                   disposed : BOOLEAN]
    /\ seekNumber \in Nat /\ rebuilds \subseteq Rebuild
    /\ timeline \in [at : ReplayFrames, due : Int]
    /\ asked \in [by : {"none", "clock", "seek"}, target : ReplayFrames]

\* A seek has a number of its own, and no later one is under way.
SeeksAreNumbered ==
    /\ \A r \in rebuilds : r.number <= seekNumber
    /\ \A r, q \in rebuilds : r.number = q.number => r = q

\* Who moves the cursor: the clock while it plays, else the last seek.
CursorHasOneDriver ==
    /\ cursor.playing => asked.by = "clock"
    /\ cursor.disposed => ~cursor.playing /\ ~cursor.seeking
    /\ asked.by = "seek" =>
         \A r \in rebuilds : r.number = seekNumber => r.target = asked.target

RInv == /\ ReplayTypes /\ ReplayTypeOK /\ SeeksAreNumbered /\ CursorHasOneDriver
        /\ LastSeekDecides

LEMMA InitRInv == ReplayInit => RInv
<1> 0 \in ReplayFrames
    BY ReplayAssumption DEF ReplayFrames
<1> QED BY DEF ReplayInit, RInv, ReplayTypes, ReplayTypeOK, SeeksAreNumbered,
               CursorHasOneDriver, LastSeekDecides, Rebuild

LEMMA PlayRInv == ASSUME RInv, Play PROVE RInv'
<1>1. /\ ~cursor.disposed /\ ~cursor.playing /\ cursor.index \in ReplayFrames /\ timers = 0
      /\ cursor' = [cursor EXCEPT !.playing = TRUE, !.failed = FALSE]
      /\ timers' = timers + 1 /\ timeline' = [at |-> cursor.index, due |-> cursor.index + 1]
      /\ asked' = [asked EXCEPT !.by = "clock"]
      /\ UNCHANGED <<seekNumber, rebuilds>>
    BY DEF Play, RInv, ReplayTypes, ReplayTypeOK
<1>2. ReplayTypes'
    <2>1. cursor' \in [index : Int, playing : BOOLEAN, seeking : BOOLEAN, failed : BOOLEAN,
                       disposed : BOOLEAN]
        BY <1>1 DEF RInv, ReplayTypes
    <2>2. asked' \in [by : {"none", "clock", "seek"}, target : ReplayFrames]
        BY <1>1 DEF RInv, ReplayTypes
    <2>3. timeline' \in [at : ReplayFrames, due : Int]
        BY <1>1 DEF ReplayFrames
    <2> QED BY <1>1, <2>1, <2>2, <2>3 DEF RInv, ReplayTypes
<1>3. ReplayTypeOK'
    BY <1>1 DEF RInv, ReplayTypes, ReplayTypeOK
<1>4. SeeksAreNumbered' /\ CursorHasOneDriver' /\ LastSeekDecides'
    BY <1>1 DEF RInv, ReplayTypes, SeeksAreNumbered, CursorHasOneDriver, LastSeekDecides
<1> QED BY <1>2, <1>3, <1>4 DEF RInv

LEMMA PauseRInv == ASSUME RInv, Pause PROVE RInv'
BY DEF Pause, CancelTimer, RInv, ReplayTypes, ReplayTypeOK, SeeksAreNumbered,
       CursorHasOneDriver, LastSeekDecides

LEMMA ClockRInv == ASSUME RInv, ClockAdvances PROVE RInv'
BY ReplayAssumption DEF ClockAdvances, RInv, ReplayTypes, ReplayTypeOK, SeeksAreNumbered,
       CursorHasOneDriver, LastSeekDecides, ReplayFrames

\* A due frame is one of the recording: the clock stops at its end.
LEMMA FrameRInv == ASSUME RInv, FrameIsDue PROVE RInv'
<1> DEFINE target == IF timeline.at > cursor.index THEN timeline.at ELSE cursor.index
           goesOn == cursor.playing /\ target < LastFrame
<1>1. cursor.playing /\ timers = 1 /\ ~cursor.disposed /\ asked.by = "clock"
    BY DEF FrameIsDue, RInv, ReplayTypeOK, CursorHasOneDriver, ReplayTypes
<1>2. target \in ReplayFrames
    BY <1>1 DEF RInv, ReplayTypes, ReplayTypeOK
<1>3. /\ cursor' = [cursor EXCEPT !.index = target, !.playing = goesOn]
      /\ timeline' = IF goesOn THEN [timeline EXCEPT !.due = target + 1] ELSE timeline
      /\ timers' = IF goesOn THEN timers ELSE timers - 1
      /\ UNCHANGED <<seekNumber, rebuilds, asked, playCount>> /\ goesOn \in BOOLEAN
    BY <1>1 DEF FrameIsDue
<1> HIDE DEF target, goesOn
<1>4. ReplayTypes'
    <2>1. target \in Int /\ target + 1 \in Int
        BY <1>2 DEF ReplayFrames
    <2>2. cursor' \in [index : Int, playing : BOOLEAN, seeking : BOOLEAN, failed : BOOLEAN,
                       disposed : BOOLEAN]
        BY <1>3, <2>1 DEF RInv, ReplayTypes
    <2>3. timeline' \in [at : ReplayFrames, due : Int]
        BY <1>3, <2>1 DEF RInv, ReplayTypes
    <2> QED BY <1>3, <2>2, <2>3 DEF RInv, ReplayTypes
<1>5. ReplayTypeOK'
    BY <1>1, <1>2, <1>3 DEF RInv, ReplayTypes, ReplayTypeOK
<1>6. SeeksAreNumbered' /\ CursorHasOneDriver' /\ LastSeekDecides'
    BY <1>1, <1>3 DEF RInv, ReplayTypes, SeeksAreNumbered, CursorHasOneDriver, LastSeekDecides
<1> QED BY <1>4, <1>5, <1>6 DEF RInv

LEMMA SeekRInv == ASSUME RInv, NEW target \in ReplayFrames, Seek(target) PROVE RInv'
<1>1. /\ seekNumber' = seekNumber + 1 /\ seekNumber \in Nat
      /\ rebuilds' = rebuilds \cup {[number |-> seekNumber + 1, target |-> target]}
      /\ \A r \in rebuilds : r.number # seekNumber + 1 /\ r.number <= seekNumber + 1
    BY DEF Seek, RInv, ReplayTypes, SeeksAreNumbered, Rebuild
<1>2. ReplayTypes'
    <2>1. rebuilds' \subseteq Rebuild /\ seekNumber' \in Nat
        <3>1. [number |-> seekNumber + 1, target |-> target] \in Rebuild
            BY <1>1 DEF Rebuild
        <3> QED BY <1>1, <3>1 DEF RInv, ReplayTypes
    <2>2. /\ cursor' \in [index : Int, playing : BOOLEAN, seeking : BOOLEAN, failed : BOOLEAN,
                          disposed : BOOLEAN]
          /\ timeline' = timeline
        BY DEF Seek, RInv, ReplayTypes
    <2>3. asked' \in [by : {"none", "clock", "seek"}, target : ReplayFrames]
        BY DEF Seek
    <2> QED BY <2>1, <2>2, <2>3 DEF RInv, ReplayTypes
<1>3. ReplayTypeOK'
    <2>1. /\ cursor'.disposed = cursor.disposed /\ cursor'.index = cursor.index
          /\ ~cursor'.playing /\ timers' = 0 /\ ~cursor.disposed
        BY DEF Seek, CancelTimer, RInv, ReplayTypes
    <2>2. \E r \in rebuilds' : r.number = seekNumber'
        <3>1. [number |-> seekNumber + 1, target |-> target] \in rebuilds'
            BY <1>1
        <3> QED BY <1>1, <3>1
    <2> QED BY <2>1, <2>2 DEF RInv, ReplayTypeOK
<1>4. SeeksAreNumbered'
    BY <1>1 DEF RInv, SeeksAreNumbered
<1>5. CursorHasOneDriver' /\ LastSeekDecides'
    BY <1>1 DEF Seek, RInv, ReplayTypes, CursorHasOneDriver, LastSeekDecides
<1> QED BY <1>2, <1>3, <1>4, <1>5 DEF RInv

LEMMA RebuildRInv == ASSUME RInv, NEW seek \in rebuilds, RebuildEnds(seek) PROVE RInv'
<1>1. seek \in Rebuild /\ rebuilds' \subseteq rebuilds
    BY DEF RebuildEnds, RInv, ReplayTypes
<1>2. CASE cursor.disposed \/ seek.number # seekNumber
    <2>1. UNCHANGED <<cursor, seekNumber, timers, timeline, asked>>
        BY <1>2 DEF RebuildEnds
    <2>2. ReplayTypeOK'
        BY <1>2, <2>1 DEF RebuildEnds, RInv, ReplayTypes, ReplayTypeOK, CursorHasOneDriver
    <2> QED BY <1>1, <2>1, <2>2 DEF RInv, ReplayTypes, SeeksAreNumbered, CursorHasOneDriver,
                                    LastSeekDecides
<1>3. CASE ~cursor.disposed /\ seek.number = seekNumber
    <2>1. \/ cursor' = [cursor EXCEPT !.index = seek.target, !.seeking = FALSE]
          \/ cursor' = [cursor EXCEPT !.seeking = FALSE, !.failed = TRUE]
        BY <1>3 DEF RebuildEnds
    <2>2. UNCHANGED <<seekNumber, timers, timeline, asked>>
        BY DEF RebuildEnds
    <2>3. ReplayTypes' /\ ReplayTypeOK'
        <3>1. seek.target \in ReplayFrames /\ seek.target \in Int
            BY <1>1 DEF Rebuild, ReplayFrames
        <3>2. cursor' \in [index : Int, playing : BOOLEAN, seeking : BOOLEAN, failed : BOOLEAN,
                           disposed : BOOLEAN]
            BY <2>1, <3>1 DEF RInv, ReplayTypes
        <3>3. /\ cursor'.playing = cursor.playing /\ ~cursor'.seeking
              /\ ~cursor'.disposed /\ cursor'.index \in {cursor.index, seek.target}
            BY <1>3, <2>1 DEF RInv, ReplayTypes
        <3>4. ReplayTypes'
            BY <1>1, <2>2, <3>2 DEF RInv, ReplayTypes
        <3>5. ReplayTypeOK'
            BY <1>3, <2>2, <3>1, <3>3 DEF RInv, ReplayTypeOK
        <3> QED BY <3>4, <3>5
    <2>4. SeeksAreNumbered' /\ CursorHasOneDriver'
        BY <1>1, <1>3, <2>1, <2>2 DEF RInv, ReplayTypes, SeeksAreNumbered, CursorHasOneDriver
    <2>5. LastSeekDecides'
        BY <1>1, <1>3, <2>1, <2>2 DEF RInv, ReplayTypes, CursorHasOneDriver, LastSeekDecides
    <2> QED BY <2>3, <2>4, <2>5 DEF RInv
<1> QED BY <1>2, <1>3

LEMMA AbortRInv == ASSUME RInv, AbortSeek PROVE RInv'
<1>1. /\ cursor' = [cursor EXCEPT !.playing = FALSE, !.seeking = FALSE] /\ timers' = 0
      /\ asked' = [asked EXCEPT !.by = "none"] /\ seekNumber' = seekNumber + 1
      /\ UNCHANGED <<rebuilds, timeline>> /\ seekNumber \in Nat
    BY DEF AbortSeek, CancelTimer, RInv, ReplayTypes
<1>2. \A r \in rebuilds : r.number <= seekNumber + 1
    BY <1>1 DEF RInv, ReplayTypes, SeeksAreNumbered, Rebuild
<1>3. ReplayTypes'
    <2>1. cursor' \in [index : Int, playing : BOOLEAN, seeking : BOOLEAN, failed : BOOLEAN,
                       disposed : BOOLEAN]
        BY <1>1 DEF RInv, ReplayTypes
    <2>2. asked' \in [by : {"none", "clock", "seek"}, target : ReplayFrames]
        BY <1>1 DEF RInv, ReplayTypes
    <2>3. timeline' = timeline /\ rebuilds' = rebuilds /\ seekNumber' \in Nat
        BY <1>1
    <2> QED BY <2>1, <2>2, <2>3 DEF RInv, ReplayTypes
<1>4. ReplayTypeOK'
    BY <1>1 DEF RInv, ReplayTypes, ReplayTypeOK
<1>5. SeeksAreNumbered' /\ CursorHasOneDriver' /\ LastSeekDecides'
    BY <1>1, <1>2 DEF RInv, ReplayTypes, SeeksAreNumbered, CursorHasOneDriver, LastSeekDecides
<1> QED BY <1>3, <1>4, <1>5 DEF RInv

LEMMA DisposeRInv == ASSUME RInv, Dispose PROVE RInv'
<1>1. \A r \in rebuilds : r.number # seekNumber + 1 /\ r.number <= seekNumber + 1
    BY DEF RInv, ReplayTypes, SeeksAreNumbered, Rebuild
<1> QED BY <1>1 DEF Dispose, CancelTimer, RInv, ReplayTypes, ReplayTypeOK, SeeksAreNumbered,
                    CursorHasOneDriver, LastSeekDecides

\* However plays, pauses, seeks and late rebuilds follow each other, the cursor is in the
\* recording, has one timer while it plays, and shows the last seek (session.ts).
THEOREM ReplayFollowsLastSeek == ReplaySpec => []ReplayInv
<1>1. RInv /\ [ReplayNext]_replayVars => RInv'
    <2> SUFFICES ASSUME RInv, [ReplayNext]_replayVars PROVE RInv'
        OBVIOUS
    <2>1. CASE UNCHANGED replayVars
        BY <2>1 DEF replayVars, RInv, ReplayTypes, ReplayTypeOK, SeeksAreNumbered,
                    CursorHasOneDriver, LastSeekDecides
    <2> QED BY <2>1, PlayRInv, PauseRInv, ClockRInv, FrameRInv, SeekRInv, RebuildRInv, AbortRInv,
               DisposeRInv DEF ReplayNext
<1>2. RInv => ReplayInv
    BY DEF RInv, ReplayInv
<1> QED BY <1>1, <1>2, InitRInv, PTL DEF ReplaySpec

-----------------------------------------------------------------------------
(* The CSTV source *)

CstvTypes ==
    /\ cstvSource \in [state : {"connecting", "live", "reconnecting", "ended", "stopped"},
                       generation : 0..MaxCstvGenerations, next : Nat, tries : Nat,
                       started : BOOLEAN]
    /\ reconnect \in [scheduled : BOOLEAN, pending : BOOLEAN, step : 0..BackoffSteps]
    /\ attempt \in {"none", "starting", "running"} /\ stopRequested \in BOOLEAN

\* The flag is the timer; it waits for the next generation of a source that goes on.
TimerIsOfNext ==
    /\ reconnect.scheduled = reconnect.pending
    /\ reconnect.pending =>
         /\ cstvSource.next = cstvSource.generation + 1
         /\ cstvSource.started /\ ~stopRequested /\ cstvSource.state # "ended"

\* Before it starts and after its broadcast ended, a source has no attempt.
RestingHasNoAttempt ==
    /\ ~cstvSource.started => cstvSource.next = cstvSource.generation
    /\ ~cstvSource.started \/ (cstvSource.state = "ended" /\ ~stopRequested) => attempt = "none"

\* Each parser is of a generation there was, and counts its events from zero.
ParsersAreOfGenerations ==
    \A g \in DOMAIN parsers : g \in 0..cstvSource.generation /\ parsers[g] \in Nat

\* Of the parser whose events are taken every event is in the stream.
StreamIsCurrent ==
    LET g    == cstvSource.generation
        last == recent[Len(recent)]
    IN  /\ recent # <<>> => last.generation <= g
        /\ ~stopRequested /\ g \in DOMAIN parsers =>
             IF recent # <<>> /\ last.generation = g
             THEN parsers[g] = last.sequence + 1 ELSE parsers[g] = 0
        /\ ~cstvSource.started => DOMAIN parsers = {} /\ recent = <<>>

Follows(a, b) ==
    \/ b.generation = a.generation /\ b.sequence = a.sequence + 1
    \/ b.generation > a.generation /\ b.sequence = 0

OneStream(s) == \A i \in 1..(Len(s) - 1) : Follows(s[i], s[i + 1])

Remembered(s, e) == (IF Len(s) < MaxRecent THEN s ELSE Tail(s)) \o <<e>>

\* The oldest of a full list makes room for the event that follows the last.
LEMMA StreamExtends ==
    ASSUME NEW S, NEW s \in Seq(S), NEW e \in S, OneStream(s), Len(s) <= MaxRecent,
           s # <<>> => Follows(s[Len(s)], e),
           NEW r, r = Remembered(s, e)
    PROVE  /\ r \in Seq(S) /\ Len(r) <= MaxRecent /\ OneStream(r)
           /\ r # <<>> /\ r[Len(r)] = e
<1>1. MaxRecent \in Nat /\ MaxRecent > 0
    BY CstvAssumption
<1> DEFINE t == IF Len(s) < MaxRecent THEN s ELSE Tail(s)
<1>2. /\ t \in Seq(S) /\ Len(t) < MaxRecent /\ OneStream(t)
      /\ t # <<>> => Follows(t[Len(t)], e)
    <2>1. CASE Len(s) < MaxRecent
        BY <2>1
    <2>2. CASE ~(Len(s) < MaxRecent)
        <3>1. /\ t = Tail(s) /\ Len(s) = MaxRecent /\ s # <<>> /\ Len(s) \in Nat
            BY <1>1, <2>2
        <3> HIDE DEF t
        <3>2. t \in Seq(S) /\ Len(t) = Len(s) - 1 /\ \A i \in 1..Len(t) : t[i] = s[i + 1]
            BY <1>1, <3>1
        <3>3. OneStream(t)
            <4> SUFFICES ASSUME NEW i \in 1..(Len(t) - 1) PROVE Follows(t[i], t[i + 1])
                BY DEF OneStream
            <4>1. /\ i \in 1..Len(t) /\ i + 1 \in 1..Len(t) /\ i + 1 \in 1..(Len(s) - 1)
                BY <3>1, <3>2
            <4>2. t[i] = s[i + 1] /\ t[i + 1] = s[(i + 1) + 1]
                BY <3>2, <4>1
            <4> QED BY <4>1, <4>2 DEF OneStream
        <3>4. t # <<>> => t[Len(t)] = s[Len(s)]
            <4> SUFFICES ASSUME t # <<>> PROVE t[Len(t)] = s[Len(s)]
                OBVIOUS
            <4>1. Len(t) \in 1..Len(t) /\ Len(t) + 1 = Len(s)
                BY <3>1, <3>2
            <4> QED BY <3>2, <4>1
        <3> QED BY <1>1, <3>1, <3>2, <3>3, <3>4
    <2> QED BY <2>1, <2>2
<1>3. r = t \o <<e>>
    BY DEF Remembered
<1> HIDE DEF t
<1>4. /\ r \in Seq(S) /\ Len(r) = Len(t) + 1 /\ Len(t) \in Nat /\ r[Len(t) + 1] = e
      /\ \A i \in 1..Len(t) : r[i] = t[i]
    <2>1. t \in Seq(S) /\ Len(t) \in Nat
        BY <1>2
    <2>2. <<e>> \in Seq(S) /\ Len(<<e>>) = 1 /\ <<e>>[1] = e
        OBVIOUS
    <2>3. r = Append(t, e)
        BY <1>2, <1>3, AppendIsConcat
    <2> DEFINE u == Append(t, e)
    <2>4. /\ u \in Seq(S) /\ Len(u) = Len(t) + 1 /\ u[Len(t) + 1] = e
          /\ \A i \in 1..Len(t) : u[i] = t[i]
        BY <2>1, AppendProperties
    <2>5. r = u
        BY <2>3
    <2> HIDE DEF u
    <2> QED BY <2>1, <2>4, <2>5
<1>5. OneStream(r)
    <2> SUFFICES ASSUME NEW i \in 1..(Len(r) - 1) PROVE Follows(r[i], r[i + 1])
        BY DEF OneStream
    <2>1. CASE i < Len(t)
        <3>1. i \in 1..(Len(t) - 1) /\ i \in 1..Len(t) /\ i + 1 \in 1..Len(t)
            BY <1>4, <2>1
        <3> QED BY <1>2, <1>4, <3>1 DEF OneStream
    <2>2. CASE ~(i < Len(t))
        <3>1. i = Len(t) /\ i \in 1..Len(t) /\ t # <<>>
            BY <1>2, <1>4, <2>2
        <3> QED BY <1>2, <1>4, <3>1
    <2> QED BY <2>1, <2>2
<1> QED BY <1>1, <1>2, <1>4, <1>5

LEMMA RecentOneStream == RecentIsOneStream <=> OneStream(recent)
BY DEF RecentIsOneStream, OneStream, Follows

\* A source that tries again: the timer of the next generation is set, whatever state it was in.
LEMMA ScheduleType ==
    ASSUME NEW at, NEW flag, ScheduleReconnect(at, flag), ~flag.scheduled,
           at \in [state : {"connecting", "live", "reconnecting", "ended", "stopped"},
                   generation : 0..MaxCstvGenerations, next : Nat, tries : Nat, started : BOOLEAN]
    PROVE  /\ cstvSource' \in [state : {"connecting", "live", "reconnecting", "ended", "stopped"},
                       generation : 0..MaxCstvGenerations, next : Nat, tries : Nat,
                       started : BOOLEAN]
           /\ cstvSource'.state = "reconnecting" /\ cstvSource'.generation = at.generation
           /\ cstvSource'.next = at.generation + 1 /\ cstvSource'.started = at.started
           /\ reconnect' \in [scheduled : BOOLEAN, pending : BOOLEAN, step : 0..BackoffSteps]
           /\ reconnect'.scheduled /\ reconnect'.pending
<1>1. /\ cstvSource' = [at EXCEPT !.state = "reconnecting", !.tries = @ + 1,
                                 !.next = at.generation + 1]
      /\ reconnect' = [scheduled |-> TRUE, pending |-> TRUE,
                       step |-> IF at.tries < BackoffSteps THEN at.tries + 1 ELSE BackoffSteps]
    BY DEF ScheduleReconnect
<1>2. BackoffSteps \in Nat /\ at.tries \in Nat /\ at.generation \in Nat
    BY CstvAssumption, CstvBounds
<1>3. (IF at.tries < BackoffSteps THEN at.tries + 1 ELSE BackoffSteps) \in 0..BackoffSteps
    BY <1>2
<1>4. reconnect' \in [scheduled : BOOLEAN, pending : BOOLEAN, step : 0..BackoffSteps]
      /\ reconnect'.scheduled /\ reconnect'.pending
    BY <1>1, <1>3
<1>5. at.tries + 1 \in Nat /\ at.generation + 1 \in Nat
    BY <1>2
<1>6. /\ cstvSource'.state = "reconnecting" /\ cstvSource'.generation = at.generation
      /\ cstvSource'.next = at.generation + 1 /\ cstvSource'.started = at.started
    BY <1>1
<1>7. cstvSource' \in [state : {"connecting", "live", "reconnecting", "ended", "stopped"},
                       generation : 0..MaxCstvGenerations, next : Nat, tries : Nat,
                       started : BOOLEAN]
    BY <1>1, <1>5
<1> QED BY <1>4, <1>6, <1>7

\* The control of the source: what its state, its timer and its attempt say of each other.
ControlInv ==
    /\ CstvTypes /\ cstvSource.next \in cstvSource.generation..(cstvSource.generation + 1)
    /\ TimerIsOfNext /\ RestingHasNoAttempt /\ NeverGivenUp /\ StoppedForGood

\* The events it took: how they relate to the parser that has the turn.
StreamInv ==
    /\ recent \in Seq(CstvEvents) /\ Len(recent) <= MaxRecent
    /\ heard \in CstvEvents \cup {NothingHeard}
    /\ ParsersAreOfGenerations /\ StreamIsCurrent /\ OneStream(recent)

SourceInv == ControlInv /\ StreamInv

LEMMA InitSourceInv == CstvInit => SourceInv
<1> SUFFICES ASSUME CstvInit PROVE SourceInv
    OBVIOUS
<1>1. /\ 0 \in 0..MaxCstvGenerations /\ 0 \in 0..BackoffSteps /\ MaxRecent >= 0
      /\ <<>> \in Seq(CstvEvents) /\ Len(<<>>) = 0
    BY CstvAssumption, CstvBounds
<1>2. ControlInv
    <2>1. CstvTypes
        BY <1>1 DEF CstvInit, CstvTypes
    <2>2. cstvSource.next \in cstvSource.generation..(cstvSource.generation + 1)
        BY DEF CstvInit
    <2>3. TimerIsOfNext /\ RestingHasNoAttempt /\ NeverGivenUp /\ StoppedForGood
        BY DEF CstvInit, TimerIsOfNext, RestingHasNoAttempt, NeverGivenUp, StoppedForGood
    <2> QED BY <2>1, <2>2, <2>3 DEF ControlInv
<1>3. StreamInv
    <2>1. recent = <<>> /\ heard = NothingHeard /\ DOMAIN parsers = {}
        BY DEF CstvInit
    <2>2. ParsersAreOfGenerations /\ StreamIsCurrent
        BY <2>1 DEF ParsersAreOfGenerations, StreamIsCurrent
    <2>3. OneStream(recent)
        BY <2>1, <1>1 DEF OneStream
    <2> QED BY <1>1, <2>1, <2>2, <2>3 DEF StreamInv
<1> QED BY <1>2, <1>3 DEF SourceInv

-----------------------------------------------------------------------------
(* The control of the source, action by action *)

\* What scheduling does of a source that holds no timer, in either of the two calls.
LEMMA ConnectControl ==
    ASSUME CstvTypes, ~stopRequested, stopRequested' = stopRequested, attempt = "none",
           NEW at \in [state : {"connecting", "live", "reconnecting", "ended", "stopped"},
                       generation : 0..MaxCstvGenerations, next : 0..MaxCstvGenerations,
                       tries : Nat, started : BOOLEAN],
           NEW flag \in [scheduled : BOOLEAN, pending : BOOLEAN, step : 0..BackoffSteps],
           at.started, ~flag.scheduled, ~flag.pending, ConnectSource(at, flag)
    PROVE  ControlInv' /\ cstvSource'.generation = at.next /\ cstvSource'.started
<1> DEFINE connecting == [at EXCEPT !.generation = at.next, !.state = "connecting"]
<1>1. /\ connecting \in [state : {"connecting", "live", "reconnecting", "ended", "stopped"},
                         generation : 0..MaxCstvGenerations, next : Nat, tries : Nat,
                         started : BOOLEAN]
      /\ connecting.generation = at.next /\ connecting.next = at.next
      /\ connecting.state = "connecting" /\ connecting.started
    <2>1. at.next \in Nat /\ at.next \in 0..MaxCstvGenerations
        BY CstvBounds
    <2>2. connecting \in [state : {"connecting", "live", "reconnecting", "ended", "stopped"},
                          generation : 0..MaxCstvGenerations, next : 0..MaxCstvGenerations,
                          tries : Nat, started : BOOLEAN]
        BY <2>1
    <2>3. /\ connecting.generation = at.next /\ connecting.next = at.next
          /\ connecting.state = "connecting" /\ connecting.started
        OBVIOUS
    <2> HIDE DEF connecting
    <2> QED BY <2>1, <2>2, <2>3
<1>2. \/ cstvSource' = connecting /\ reconnect' = flag /\ attempt' = "starting"
      \/ ScheduleReconnect(connecting, flag) /\ attempt' = attempt
    BY DEF ConnectSource
<1>3. at.next \in Nat
    BY CstvBounds
<1> HIDE DEF connecting
<1>4. CASE cstvSource' = connecting /\ reconnect' = flag /\ attempt' = "starting"
    <2>1. CstvTypes'
        BY <1>1, <1>4 DEF CstvTypes
    <2>2. cstvSource'.next \in cstvSource'.generation..(cstvSource'.generation + 1)
        BY <1>1, <1>3, <1>4
    <2>3. TimerIsOfNext' /\ RestingHasNoAttempt' /\ NeverGivenUp' /\ StoppedForGood'
        BY <1>1, <1>4 DEF TimerIsOfNext, RestingHasNoAttempt, NeverGivenUp, StoppedForGood
    <2> QED BY <1>1, <1>4, <2>1, <2>2, <2>3 DEF ControlInv
<1>5. CASE ScheduleReconnect(connecting, flag) /\ attempt' = attempt
    <2>1. /\ cstvSource' \in [state : {"connecting", "live", "reconnecting", "ended", "stopped"},
                       generation : 0..MaxCstvGenerations, next : Nat, tries : Nat,
                       started : BOOLEAN]
          /\ cstvSource'.state = "reconnecting" /\ cstvSource'.generation = at.next
          /\ cstvSource'.next = at.next + 1 /\ cstvSource'.started
          /\ reconnect' \in [scheduled : BOOLEAN, pending : BOOLEAN, step : 0..BackoffSteps]
          /\ reconnect'.scheduled /\ reconnect'.pending
        BY <1>1, <1>5, ScheduleType
    <2>2. CstvTypes'
        BY <2>1, <1>5 DEF CstvTypes
    <2>3. cstvSource'.next \in cstvSource'.generation..(cstvSource'.generation + 1)
        BY <2>1, <1>3
    <2>4. TimerIsOfNext' /\ RestingHasNoAttempt' /\ NeverGivenUp' /\ StoppedForGood'
        BY <2>1, <1>5 DEF TimerIsOfNext, RestingHasNoAttempt, NeverGivenUp, StoppedForGood
    <2> QED BY <2>1, <2>2, <2>3, <2>4 DEF ControlInv
<1> QED BY <1>2, <1>4, <1>5

LEMMA StartControl ==
    ASSUME ControlInv, SourceStarts
    PROVE  ControlInv' /\ cstvSource'.generation = cstvSource.generation /\ cstvSource'.started
<1> DEFINE at == [cstvSource EXCEPT !.started = TRUE]
<1>1. /\ ~cstvSource.started /\ ~stopRequested /\ stopRequested' = stopRequested
      /\ ConnectSource(at, reconnect)
    BY DEF SourceStarts
<1>2. CstvTypes /\ TimerIsOfNext /\ RestingHasNoAttempt
    BY DEF ControlInv
<1>3. /\ attempt = "none" /\ cstvSource.next = cstvSource.generation
      /\ ~reconnect.scheduled /\ ~reconnect.pending
    BY <1>1, <1>2 DEF CstvTypes, TimerIsOfNext, RestingHasNoAttempt
<1>4. reconnect \in [scheduled : BOOLEAN, pending : BOOLEAN, step : 0..BackoffSteps]
    BY <1>2 DEF CstvTypes
<1>5. /\ at \in [state : {"connecting", "live", "reconnecting", "ended", "stopped"},
                 generation : 0..MaxCstvGenerations, next : 0..MaxCstvGenerations,
                 tries : Nat, started : BOOLEAN]
      /\ at.started /\ at.next = cstvSource.generation
    BY <1>2, <1>3 DEF CstvTypes
<1> HIDE DEF at
<1> QED BY <1>1, <1>2, <1>3, <1>4, <1>5, ConnectControl

LEMMA TimerControl ==
    ASSUME ControlInv, TimerFires
    PROVE  /\ ControlInv' /\ cstvSource'.generation = cstvSource.generation + 1
           /\ cstvSource'.started
<1> DEFINE flag == [reconnect EXCEPT !.pending = FALSE, !.scheduled = FALSE]
<1>1. /\ reconnect.pending /\ cstvSource.generation < MaxCstvGenerations
      /\ stopRequested' = stopRequested /\ ConnectSource(cstvSource, flag)
    BY DEF TimerFires
<1>2. CstvTypes /\ TimerIsOfNext /\ NeverGivenUp /\ StoppedForGood
    BY DEF ControlInv
<1>3. /\ cstvSource.next = cstvSource.generation + 1 /\ cstvSource.started /\ ~stopRequested
      /\ attempt = "none"
    BY <1>1, <1>2 DEF TimerIsOfNext, NeverGivenUp, StoppedForGood
<1>4. cstvSource.next \in 0..MaxCstvGenerations
    BY <1>1, <1>2, <1>3, CstvBounds DEF CstvTypes
<1>5. cstvSource \in [state : {"connecting", "live", "reconnecting", "ended", "stopped"},
                 generation : 0..MaxCstvGenerations, next : 0..MaxCstvGenerations,
                 tries : Nat, started : BOOLEAN]
    BY <1>2, <1>4 DEF CstvTypes
<1>6. /\ flag \in [scheduled : BOOLEAN, pending : BOOLEAN, step : 0..BackoffSteps]
      /\ ~flag.scheduled /\ ~flag.pending
    BY <1>2 DEF CstvTypes
<1> HIDE DEF flag
<1> QED BY <1>1, <1>2, <1>3, <1>5, <1>6, ConnectControl

\* An attempt that is over while the source is not stopping, and is scheduled again.
LEMMA AgainControl ==
    ASSUME ControlInv, attempt # "none", ~stopRequested, stopRequested' = stopRequested,
           attempt' = "none", ScheduleReconnect(cstvSource, reconnect)
    PROVE  ControlInv' /\ cstvSource'.generation = cstvSource.generation /\ cstvSource'.started
<1>1. CstvTypes /\ TimerIsOfNext /\ RestingHasNoAttempt /\ NeverGivenUp /\ StoppedForGood
    BY DEF ControlInv
<1>2. cstvSource.started /\ cstvSource.state # "ended"
    BY <1>1 DEF CstvTypes, RestingHasNoAttempt
<1>3. ~reconnect.pending /\ ~reconnect.scheduled
    BY <1>1, <1>2 DEF CstvTypes, TimerIsOfNext, NeverGivenUp, StoppedForGood
<1>4. cstvSource \in [state : {"connecting", "live", "reconnecting", "ended", "stopped"},
                      generation : 0..MaxCstvGenerations, next : Nat, tries : Nat,
                      started : BOOLEAN]
    BY <1>1 DEF CstvTypes
<1>5. /\ cstvSource' \in [state : {"connecting", "live", "reconnecting", "ended", "stopped"},
                       generation : 0..MaxCstvGenerations, next : Nat, tries : Nat,
                       started : BOOLEAN]
      /\ cstvSource'.state = "reconnecting" /\ cstvSource'.generation = cstvSource.generation
      /\ cstvSource'.next = cstvSource.generation + 1 /\ cstvSource'.started = cstvSource.started
      /\ reconnect' \in [scheduled : BOOLEAN, pending : BOOLEAN, step : 0..BackoffSteps]
      /\ reconnect'.scheduled /\ reconnect'.pending
    BY <1>3, <1>4, ScheduleType
<1>6. CstvTypes'
    BY <1>1, <1>5 DEF CstvTypes
<1>7. cstvSource'.next \in cstvSource'.generation..(cstvSource'.generation + 1)
    BY <1>4, <1>5, CstvBounds
<1>8. TimerIsOfNext' /\ RestingHasNoAttempt' /\ NeverGivenUp' /\ StoppedForGood'
    BY <1>2, <1>5 DEF TimerIsOfNext, RestingHasNoAttempt, NeverGivenUp, StoppedForGood
<1> QED BY <1>2, <1>5, <1>6, <1>7, <1>8 DEF ControlInv

LEMMA StartEndsControl ==
    ASSUME ControlInv, StartEnds
    PROVE  /\ ControlInv' /\ cstvSource'.generation = cstvSource.generation
           /\ cstvSource'.started = cstvSource.started
<1>1. /\ CstvTypes /\ TimerIsOfNext /\ RestingHasNoAttempt /\ NeverGivenUp /\ StoppedForGood
      /\ cstvSource.next \in cstvSource.generation..(cstvSource.generation + 1)
    BY DEF ControlInv
<1>2. attempt = "starting" /\ stopRequested' = stopRequested
    BY DEF StartEnds
<1>3. cstvSource.started
    BY <1>1, <1>2 DEF RestingHasNoAttempt
<1>4. CASE stopRequested
    <2>1. attempt' = "none" /\ cstvSource' = cstvSource /\ reconnect' = reconnect
        BY <1>4 DEF StartEnds, IsCurrent, AttemptIsOver
    <2>2. CstvTypes'
        BY <1>1, <1>2, <2>1 DEF CstvTypes
    <2>3. TimerIsOfNext' /\ RestingHasNoAttempt' /\ NeverGivenUp' /\ StoppedForGood'
        BY <1>1, <1>2, <1>4, <2>1 DEF TimerIsOfNext, RestingHasNoAttempt, NeverGivenUp,
           StoppedForGood
    <2> QED BY <1>1, <2>1, <2>2, <2>3 DEF ControlInv
<1>5. CASE ~stopRequested /\ ScheduleReconnect(cstvSource, reconnect) /\ attempt' = "none"
    BY <1>2, <1>3, <1>5, AgainControl
<1>6. CASE /\ ~stopRequested /\ cstvSource' = [cstvSource EXCEPT !.state = "live"]
           /\ attempt' = "running" /\ reconnect' = reconnect
    <2>1. /\ cstvSource'.state = "live" /\ cstvSource'.generation = cstvSource.generation
          /\ cstvSource'.next = cstvSource.next /\ cstvSource'.started = cstvSource.started
        BY <1>1, <1>6 DEF CstvTypes
    <2>2. CstvTypes'
        BY <1>1, <1>2, <1>6 DEF CstvTypes
    <2>3. ~reconnect.pending
        BY <1>1, <1>2, <1>3, <1>6 DEF CstvTypes, RestingHasNoAttempt, NeverGivenUp, StoppedForGood
    <2>4. TimerIsOfNext' /\ RestingHasNoAttempt' /\ NeverGivenUp'
        BY <1>1, <1>3, <1>6, <2>1, <2>3 DEF TimerIsOfNext, RestingHasNoAttempt, NeverGivenUp
    <2>5. StoppedForGood'
        BY <1>2, <1>6 DEF StoppedForGood
    <2> QED BY <1>1, <2>1, <2>2, <2>4, <2>5 DEF ControlInv
<1> QED
    <2>1. ~stopRequested =>
            \/ ScheduleReconnect(cstvSource, reconnect) /\ attempt' = "none"
            \/ /\ cstvSource' = [cstvSource EXCEPT !.state = "live"]
               /\ attempt' = "running" /\ reconnect' = reconnect
        BY DEF StartEnds, IsCurrent, AttemptIsOver
    <2> QED BY <1>4, <1>5, <1>6, <2>1

LEMMA RunEndsControl ==
    ASSUME ControlInv, RunEnds
    PROVE  /\ ControlInv' /\ cstvSource'.generation = cstvSource.generation
           /\ cstvSource'.started = cstvSource.started
<1>1. /\ CstvTypes /\ TimerIsOfNext /\ RestingHasNoAttempt /\ NeverGivenUp /\ StoppedForGood
      /\ cstvSource.next \in cstvSource.generation..(cstvSource.generation + 1)
    BY DEF ControlInv
<1>2. attempt = "running" /\ stopRequested' = stopRequested /\ attempt' = "none"
    BY DEF RunEnds, AttemptIsOver
<1>3. cstvSource.started
    BY <1>1, <1>2 DEF RestingHasNoAttempt
<1>4. CASE stopRequested
    <2>1. cstvSource' = cstvSource /\ reconnect' = reconnect
        BY <1>4 DEF RunEnds, IsCurrent
    <2>2. CstvTypes'
        BY <1>1, <1>2, <2>1 DEF CstvTypes
    <2>3. TimerIsOfNext' /\ RestingHasNoAttempt' /\ NeverGivenUp' /\ StoppedForGood'
        BY <1>1, <1>2, <1>4, <2>1 DEF TimerIsOfNext, RestingHasNoAttempt, NeverGivenUp,
           StoppedForGood
    <2> QED BY <1>1, <2>1, <2>2, <2>3 DEF ControlInv
<1>5. CASE ~stopRequested /\ ScheduleReconnect(cstvSource, reconnect)
    BY <1>2, <1>3, <1>5, AgainControl
<1>6. CASE /\ ~stopRequested /\ cstvSource' = [cstvSource EXCEPT !.state = "ended"]
           /\ reconnect' = reconnect
    <2>1. /\ cstvSource'.state = "ended" /\ cstvSource'.generation = cstvSource.generation
          /\ cstvSource'.next = cstvSource.next /\ cstvSource'.started = cstvSource.started
        BY <1>1, <1>6 DEF CstvTypes
    <2>2. CstvTypes'
        BY <1>1, <1>2, <1>6 DEF CstvTypes
    <2>3. ~reconnect.pending
        BY <1>1, <1>2, <1>3, <1>6 DEF CstvTypes, RestingHasNoAttempt, NeverGivenUp, StoppedForGood
    <2>4. TimerIsOfNext' /\ RestingHasNoAttempt' /\ NeverGivenUp' /\ StoppedForGood'
        BY <1>1, <1>2, <1>3, <1>6, <2>1, <2>3
           DEF TimerIsOfNext, RestingHasNoAttempt, NeverGivenUp, StoppedForGood
    <2> QED BY <1>1, <2>1, <2>2, <2>4 DEF ControlInv
<1> QED
    <2>1. ~stopRequested => \/ ScheduleReconnect(cstvSource, reconnect)
                            \/ /\ cstvSource' = [cstvSource EXCEPT !.state = "ended"]
                               /\ reconnect' = reconnect
        BY DEF RunEnds, IsCurrent
    <2> QED BY <1>4, <1>5, <1>6, <2>1

LEMMA StopControl ==
    ASSUME ControlInv, SourceStops
    PROVE  /\ ControlInv' /\ cstvSource'.generation = cstvSource.generation
           /\ cstvSource'.started = cstvSource.started
<1>1. /\ CstvTypes /\ TimerIsOfNext /\ RestingHasNoAttempt
      /\ cstvSource.next \in cstvSource.generation..(cstvSource.generation + 1)
    BY DEF ControlInv
<1>2. /\ stopRequested' = TRUE /\ attempt' = attempt
      /\ reconnect' = [reconnect EXCEPT !.scheduled = FALSE, !.pending = FALSE]
      /\ cstvSource' = [cstvSource EXCEPT !.state = "stopped"]
    BY DEF SourceStops
<1>3. /\ cstvSource'.state = "stopped" /\ cstvSource'.generation = cstvSource.generation
      /\ cstvSource'.next = cstvSource.next /\ cstvSource'.started = cstvSource.started
      /\ reconnect'.scheduled = FALSE /\ reconnect'.pending = FALSE
    BY <1>1, <1>2 DEF CstvTypes
<1>4. CstvTypes'
    BY <1>1, <1>2 DEF CstvTypes
<1>5. TimerIsOfNext' /\ RestingHasNoAttempt' /\ NeverGivenUp' /\ StoppedForGood'
    BY <1>1, <1>2, <1>3 DEF TimerIsOfNext, RestingHasNoAttempt, NeverGivenUp, StoppedForGood
<1> QED BY <1>1, <1>3, <1>4, <1>5 DEF ControlInv

LEMMA SyncControl ==
    ASSUME ControlInv, NEW g, ParserSyncs(g)
    PROVE  /\ ControlInv' /\ cstvSource'.generation = cstvSource.generation
           /\ cstvSource'.started = cstvSource.started
<1>1. /\ CstvTypes /\ TimerIsOfNext /\ RestingHasNoAttempt /\ NeverGivenUp /\ StoppedForGood
      /\ cstvSource.next \in cstvSource.generation..(cstvSource.generation + 1)
    BY DEF ControlInv
<1>2. /\ cstvSource' = [cstvSource EXCEPT !.tries = 0]
      /\ UNCHANGED <<reconnect, attempt, stopRequested>>
    BY DEF ParserSyncs
<1>3. /\ cstvSource'.state = cstvSource.state /\ cstvSource'.next = cstvSource.next
      /\ cstvSource'.generation = cstvSource.generation
      /\ cstvSource'.started = cstvSource.started
    BY <1>1, <1>2 DEF CstvTypes
<1>4. CstvTypes'
    BY <1>1, <1>2 DEF CstvTypes
<1>5. TimerIsOfNext' /\ RestingHasNoAttempt' /\ NeverGivenUp' /\ StoppedForGood'
    BY <1>1, <1>2, <1>3 DEF TimerIsOfNext, RestingHasNoAttempt, NeverGivenUp, StoppedForGood
<1> QED BY <1>1, <1>3, <1>4, <1>5 DEF ControlInv

-----------------------------------------------------------------------------
(* The stream of its events *)

\* A step that hands nothing to the listeners: parsers may be dropped, and the one of a new
\* generation starts at its first event.
LEMMA StreamMoves ==
    ASSUME ControlInv, StreamInv, UNCHANGED <<recent, heard>>,
           cstvSource'.generation \in Nat, cstvSource'.generation >= cstvSource.generation,
           ~stopRequested' => ~stopRequested,
           ~cstvSource'.started => ~cstvSource.started,
           \A g \in DOMAIN parsers' :
               \/ g \in DOMAIN parsers /\ parsers'[g] = parsers[g]
               \/ /\ g = cstvSource'.generation /\ parsers'[g] = 0 /\ cstvSource'.started
                  /\ cstvSource.started => g > cstvSource.generation
    PROVE  StreamInv'
<1>1. /\ recent \in Seq(CstvEvents) /\ ParsersAreOfGenerations /\ StreamIsCurrent
      /\ cstvSource.generation \in Nat
    BY CstvBounds DEF StreamInv, ControlInv, CstvTypes
<1> DEFINE last == recent[Len(recent)]
<1>2. recent # <<>> => last.generation \in Nat /\ last.sequence \in Nat
    <2> SUFFICES ASSUME recent # <<>> PROVE last \in CstvEvents
        BY CstvBounds DEF CstvEvents
    <2>1. Len(recent) \in 1..Len(recent)
        BY <1>1
    <2> QED BY <1>1, <2>1
<1>3. ParsersAreOfGenerations'
    <2> SUFFICES ASSUME NEW g \in DOMAIN parsers'
                 PROVE  g \in 0..cstvSource'.generation /\ parsers'[g] \in Nat
        BY DEF ParsersAreOfGenerations
    <2>1. CASE g \in DOMAIN parsers /\ parsers'[g] = parsers[g]
        BY <1>1, <2>1 DEF ParsersAreOfGenerations
    <2>2. CASE g = cstvSource'.generation /\ parsers'[g] = 0
        BY <2>2
    <2> QED BY <2>1, <2>2
<1>4. StreamIsCurrent'
    <2>1. recent' # <<>> => last.generation <= cstvSource'.generation
        BY <1>1, <1>2 DEF StreamIsCurrent
    <2>2. ~cstvSource'.started => DOMAIN parsers' = {} /\ recent' = <<>>
        BY <1>1 DEF StreamIsCurrent
    <2>3. ASSUME ~stopRequested', cstvSource'.generation \in DOMAIN parsers'
          PROVE  IF recent' # <<>> /\ last.generation = cstvSource'.generation
                 THEN parsers'[cstvSource'.generation] = last.sequence + 1
                 ELSE parsers'[cstvSource'.generation] = 0
        <3> DEFINE g == cstvSource'.generation
        <3>1. CASE g \in DOMAIN parsers /\ parsers'[g] = parsers[g]
            <4>1. g = cstvSource.generation
                BY <1>1, <3>1 DEF ParsersAreOfGenerations
            <4> QED BY <1>1, <2>3, <3>1, <4>1 DEF StreamIsCurrent
        <3>2. CASE /\ g = cstvSource'.generation /\ parsers'[g] = 0
                   /\ cstvSource.started => g > cstvSource.generation
            <4>1. recent # <<>> => last.generation < g
                BY <1>1, <1>2, <3>2 DEF StreamIsCurrent
            <4> QED BY <1>2, <3>2, <4>1
        <3> QED BY <2>3, <3>1, <3>2
    <2>4. recent'[Len(recent')] = last
        OBVIOUS
    <2> HIDE DEF last
    <2> QED BY <2>1, <2>2, <2>3, <2>4 DEF StreamIsCurrent
<1> QED BY <1>3, <1>4 DEF StreamInv

\* Of a connection the parsers are those there were and, if it began, the one of its generation.
LEMMA ConnectParsers ==
    ASSUME NEW at, NEW flag, ConnectSource(at, flag), NEW g \in DOMAIN parsers'
    PROVE  \/ g \in DOMAIN parsers /\ parsers'[g] = parsers[g]
           \/ g = at.next /\ parsers'[g] = 0
BY DEF ConnectSource

LEMMA OverParsers ==
    ASSUME AttemptIsOver, NEW g \in DOMAIN parsers'
    PROVE  g \in DOMAIN parsers /\ parsers'[g] = parsers[g]
BY DEF AttemptIsOver

\* The next event of the parser that has the turn follows the last there is.
LEMMA EmitStream ==
    ASSUME SourceInv, NEW g \in DOMAIN parsers, ParserEmits(g)
    PROVE  SourceInv'
<1> DEFINE event == [generation |-> g, sequence |-> parsers[g]]
           last  == recent[Len(recent)]
<1>1. /\ parsers' = [parsers EXCEPT ![g] = @ + 1]
      /\ UNCHANGED <<cstvSource, reconnect, attempt, stopRequested>>
      /\ IF ~IsCurrentGeneration(g)
         THEN UNCHANGED <<recent, heard>>
         ELSE /\ recent' = (IF Len(recent) < MaxRecent THEN recent ELSE Tail(recent)) \o <<event>>
              /\ heard' = IF cstvSource.state = "live" THEN event ELSE heard
    BY DEF ParserEmits
<1>2. /\ recent \in Seq(CstvEvents) /\ ParsersAreOfGenerations /\ StreamIsCurrent
      /\ Len(recent) <= MaxRecent /\ OneStream(recent) /\ heard \in CstvEvents \cup {NothingHeard}
      /\ cstvSource.generation \in 0..MaxCstvGenerations /\ cstvSource.generation \in Nat
    BY CstvBounds DEF SourceInv, StreamInv, ControlInv, CstvTypes
<1>3. ControlInv'
    BY <1>1 DEF SourceInv, ControlInv, CstvTypes, TimerIsOfNext, RestingHasNoAttempt,
       NeverGivenUp, StoppedForGood
<1>4. /\ DOMAIN parsers' = DOMAIN parsers /\ parsers'[g] = parsers[g] + 1
      /\ \A h \in DOMAIN parsers \ {g} : parsers'[h] = parsers[h]
      /\ g \in 0..cstvSource.generation /\ parsers[g] \in Nat
    BY <1>1, <1>2 DEF ParsersAreOfGenerations
<1>5. ParsersAreOfGenerations'
    BY <1>1, <1>2, <1>4 DEF ParsersAreOfGenerations
<1>6. CASE ~IsCurrentGeneration(g)
    <2>1. UNCHANGED <<recent, heard>> /\ (~stopRequested => cstvSource.generation # g)
        BY <1>1, <1>6 DEF IsCurrentGeneration
    <2>2. StreamIsCurrent'
        BY <1>1, <1>2, <1>4, <2>1 DEF StreamIsCurrent
    <2> QED BY <1>2, <1>3, <1>5, <2>1, <2>2 DEF SourceInv, StreamInv
<1>7. CASE IsCurrentGeneration(g)
    <2>1. ~stopRequested /\ cstvSource.generation = g
        BY <1>7 DEF IsCurrentGeneration
    <2>2. event \in CstvEvents /\ event.generation = g /\ event.sequence = parsers[g]
        <3>1. g \in 0..MaxCstvGenerations
            BY <1>2, <2>1
        <3>2. event \in CstvEvents
            BY <1>4, <3>1 DEF CstvEvents
        <3> QED BY <3>2
    <2>3. recent # <<>> => Follows(last, event)
        <3> SUFFICES ASSUME recent # <<>> PROVE Follows(last, event)
            OBVIOUS
        <3>1. last \in CstvEvents
            <4>1. Len(recent) \in 1..Len(recent)
                BY <1>2
            <4> QED BY <1>2, <4>1
        <3>2. last.generation \in Nat /\ last.generation <= g
            BY <1>2, <2>1, <3>1, CstvBounds DEF CstvEvents, StreamIsCurrent
        <3>3. IF last.generation = g THEN parsers[g] = last.sequence + 1 ELSE parsers[g] = 0
            BY <1>2, <2>1 DEF StreamIsCurrent
        <3> HIDE DEF last, event
        <3> QED BY <1>2, <1>4, <2>2, <3>2, <3>3 DEF Follows
    <2>4. /\ recent' = (IF Len(recent) < MaxRecent THEN recent ELSE Tail(recent)) \o <<event>>
          /\ heard' = IF cstvSource.state = "live" THEN event ELSE heard
        BY <1>1, <1>7
    <2> HIDE DEF event
    <2>5. /\ recent' \in Seq(CstvEvents) /\ Len(recent') <= MaxRecent /\ OneStream(recent')
          /\ recent' # <<>> /\ recent'[Len(recent')] = event
        <3>1. /\ recent \in Seq(CstvEvents) /\ event \in CstvEvents /\ OneStream(recent)
              /\ Len(recent) <= MaxRecent /\ (recent # <<>> => Follows(recent[Len(recent)], event))
            BY <1>2, <2>2, <2>3
        <3> DEFINE r == recent'
        <3>2. r = Remembered(recent, event)
            BY <2>4 DEF Remembered
        <3> HIDE DEF r, last
        <3>3. /\ r \in Seq(CstvEvents) /\ Len(r) <= MaxRecent /\ OneStream(r)
              /\ r # <<>> /\ r[Len(r)] = event
            BY <3>1, <3>2, StreamExtends, ZenonT(30)
        <3> QED BY <3>3 DEF r
    <2>6. heard' \in CstvEvents \cup {NothingHeard}
        BY <1>2, <2>2, <2>4
    <2>7. cstvSource.started
        BY <1>2 DEF StreamIsCurrent
    <2>8. StreamIsCurrent'
        BY <1>1, <1>2, <1>4, <2>1, <2>2, <2>5, <2>7 DEF StreamIsCurrent
    <2> QED BY <1>3, <1>5, <2>5, <2>6, <2>8 DEF SourceInv, StreamInv
<1> QED BY <1>6, <1>7

\* What holds of a source at all times, whatever it lost and however often: it is not given up
\* while there is something to connect to, and its recent events are one stream.
THEOREM SourceIsNeverGivenUp == CstvSpec => []CstvInv
<1>1. SourceInv /\ [CstvNext]_cstvVars => SourceInv'
    <2> SUFFICES ASSUME SourceInv, [CstvNext]_cstvVars PROVE SourceInv'
        OBVIOUS
    <2>1. ControlInv /\ StreamInv /\ CstvTypes /\ TimerIsOfNext /\ cstvSource.generation \in Nat
        BY CstvBounds DEF SourceInv, ControlInv, CstvTypes
    <2>2. CASE SourceStarts
        <3>1. /\ ControlInv' /\ cstvSource'.generation = cstvSource.generation
              /\ cstvSource'.started /\ UNCHANGED <<recent, heard, stopRequested>>
              /\ ~cstvSource.started /\ cstvSource.next = cstvSource.generation
            BY <2>1, <2>2, StartControl DEF SourceStarts, ControlInv, RestingHasNoAttempt
        <3>2. ConnectSource([cstvSource EXCEPT !.started = TRUE], reconnect)
              /\ [cstvSource EXCEPT !.started = TRUE].next = cstvSource.next
            BY <2>1, <2>2 DEF SourceStarts, CstvTypes
        <3>3. \A g \in DOMAIN parsers' : \/ g \in DOMAIN parsers /\ parsers'[g] = parsers[g]
                                         \/ g = cstvSource.generation /\ parsers'[g] = 0
            BY <3>1, <3>2, ConnectParsers
        <3>4. StreamInv'
            BY <2>1, <3>1, <3>3, StreamMoves
        <3> QED BY <3>1, <3>4 DEF SourceInv
    <2>3. CASE TimerFires
        <3>1. /\ ControlInv' /\ cstvSource'.generation = cstvSource.generation + 1
              /\ cstvSource'.started /\ UNCHANGED <<recent, heard, stopRequested>>
              /\ cstvSource.next = cstvSource.generation + 1
            BY <2>1, <2>3, TimerControl DEF TimerFires, TimerIsOfNext
        <3>2. ConnectSource(cstvSource, [reconnect EXCEPT !.pending = FALSE, !.scheduled = FALSE])
            BY <2>3 DEF TimerFires
        <3>3. \A g \in DOMAIN parsers' : \/ g \in DOMAIN parsers /\ parsers'[g] = parsers[g]
                                         \/ g = cstvSource'.generation /\ parsers'[g] = 0
            BY <3>1, <3>2, ConnectParsers
        <3>4. cstvSource'.generation \in Nat /\ cstvSource'.generation > cstvSource.generation
            BY <2>1, <3>1
        <3>5. StreamInv'
            BY <2>1, <3>1, <3>3, <3>4, StreamMoves
        <3> QED BY <3>1, <3>5 DEF SourceInv
    <2>4. CASE StartEnds
        <3>1. /\ ControlInv' /\ cstvSource'.generation = cstvSource.generation
              /\ cstvSource'.started = cstvSource.started
              /\ UNCHANGED <<recent, heard, stopRequested>>
            BY <2>1, <2>4, StartEndsControl DEF StartEnds
        <3>2. AttemptIsOver \/ parsers' = parsers
            BY <2>4 DEF StartEnds
        <3>3. \A g \in DOMAIN parsers' : g \in DOMAIN parsers /\ parsers'[g] = parsers[g]
            BY <3>2, OverParsers
        <3>4. StreamInv'
            BY <2>1, <3>1, <3>3, StreamMoves
        <3> QED BY <3>1, <3>4 DEF SourceInv
    <2>5. CASE RunEnds
        <3>1. /\ ControlInv' /\ cstvSource'.generation = cstvSource.generation
              /\ cstvSource'.started = cstvSource.started
              /\ UNCHANGED <<recent, heard, stopRequested>>
            BY <2>1, <2>5, RunEndsControl DEF RunEnds
        <3>2. AttemptIsOver
            BY <2>5 DEF RunEnds
        <3>3. \A g \in DOMAIN parsers' : g \in DOMAIN parsers /\ parsers'[g] = parsers[g]
            BY <3>2, OverParsers
        <3>4. StreamInv'
            BY <2>1, <3>1, <3>3, StreamMoves
        <3> QED BY <3>1, <3>4 DEF SourceInv
    <2>6. CASE SourceStops
        <3>1. /\ ControlInv' /\ cstvSource'.generation = cstvSource.generation
              /\ cstvSource'.started = cstvSource.started
              /\ UNCHANGED <<recent, heard, parsers>> /\ stopRequested'
            BY <2>1, <2>6, StopControl DEF SourceStops
        <3>2. StreamInv'
            BY <2>1, <3>1, StreamMoves
        <3> QED BY <3>1, <3>2 DEF SourceInv
    <2>7. ASSUME NEW g \in DOMAIN parsers, ParserSyncs(g) PROVE SourceInv'
        <3>1. /\ ControlInv' /\ cstvSource'.generation = cstvSource.generation
              /\ cstvSource'.started = cstvSource.started
              /\ UNCHANGED <<recent, heard, parsers, stopRequested>>
            BY <2>1, <2>7, SyncControl DEF ParserSyncs
        <3>2. StreamInv'
            BY <2>1, <3>1, StreamMoves
        <3> QED BY <3>1, <3>2 DEF SourceInv
    <2>8. CASE UNCHANGED cstvVars
        BY <2>8 DEF cstvVars, SourceInv, ControlInv, CstvTypes, TimerIsOfNext,
                    RestingHasNoAttempt, NeverGivenUp, StoppedForGood, StreamInv,
                    ParsersAreOfGenerations,
                    StreamIsCurrent
    <2> QED BY <2>2, <2>3, <2>4, <2>5, <2>6, <2>7, <2>8, EmitStream DEF CstvNext
<1>2. SourceInv => CstvInv
    <2> SUFFICES ASSUME SourceInv PROVE CstvInv
        OBVIOUS
    <2>1. CstvTypeOK
        BY DEF SourceInv, ControlInv, StreamInv, CstvTypes, CstvTypeOK
    <2>2. NeverGivenUp /\ StoppedForGood /\ RecentIsOneStream
        BY RecentOneStream DEF SourceInv, ControlInv, StreamInv
    <2> QED BY <2>1, <2>2 DEF CstvInv
<1> QED BY <1>1, <1>2, InitSourceInv, PTL DEF CstvSpec


-----------------------------------------------------------------------------
(* The cue lane: messages and their order *)

Ids == Nat \X Nat \X Nat

IsCue(m) == ~IsBaseline(m)
NoLater(a, b) == a = b \/ Before(a, b)

\* Of two messages of one socket, the first was published before the second.
Earlier(a, b) == a.seq < b.seq /\ (IsCue(a) /\ IsCue(b) => Before(CueId(a), CueId(b)))

LEMMA BeforeIsOrder ==
    ASSUME NEW a \in Ids, NEW b \in Ids, NEW c \in Ids
    PROVE  /\ Before(a, b) /\ Before(b, c) => Before(a, c)
           /\ NoLater(a, b) /\ NoLater(b, c) => NoLater(a, c)
           /\ NoLater(a, b) /\ Before(b, c) => Before(a, c)
<1>1. a[1] \in Nat /\ a[2] \in Nat /\ a[3] \in Nat /\ b[1] \in Nat /\ b[2] \in Nat /\ b[3] \in Nat
      /\ c[1] \in Nat /\ c[2] \in Nat /\ c[3] \in Nat
    BY DEF Ids
<1>2. Before(a, b) /\ Before(b, c) => Before(a, c)
    BY <1>1 DEF Before
<1> QED BY <1>2 DEF NoLater

LEMMA IdOfMessage == \A m \in Messages : CueId(m) \in Ids /\ m.seq \in Nat
BY DEF CueId, Messages, Ids

\* What the page hears next: w is on the wire, a accepted so far.
SentCursor(w, a) == IF w = <<>> THEN a.baseline.cursor ELSE w[Len(w)].cursor

\* On the wire: in order, newer than what was accepted, of one producer, and each cue under the
\* cursor of the message before it.
WireOK(w, a, hears, j) ==
    /\ \A i, k \in 1..Len(w) :
          i < k => Earlier(w[i], w[k]) /\ w[i].cursor.producer = w[k].cursor.producer
    /\ \A i \in 1..Len(w) :
          /\ a.last < w[i].seq
          /\ a.baseline # None => w[i].cursor.producer = a.baseline.cursor.producer
          /\ IsCue(w[i]) =>
               /\ hears => w[i].seq > j
               /\ i > 1 => w[i].cursor = w[i - 1].cursor
               /\ i = 1 /\ a.baseline # None => w[1].cursor = a.baseline.cursor
    /\ w # <<>> /\ hears /\ a.baseline = None => IsBaseline(w[1])

\* What was shown is in order, before what is on the wire; f is the newest identity.
ShownOK(sh, w, f) ==
    /\ \A i, k \in 1..Len(sh) : i < k => Before(CueId(sh[i]), CueId(sh[k]))
    /\ \A i \in 1..Len(sh) : NoLater(CueId(sh[i]), f)
    /\ \A k \in 1..Len(w) : IsCue(w[k]) =>
          /\ NoLater(CueId(w[k]), f)
          /\ \A i \in 1..Len(sh) : Before(CueId(sh[i]), CueId(w[k]))

\* m comes after all that was sent to the page.
Ahead(s, w, a, m) ==
    /\ a.last < m.seq
    /\ s.inFlight # None => s.inFlight.seq < m.seq
    /\ \A k \in 1..Len(w) : Earlier(w[k], m)

\* A queued cue is under the current baseline, which was sent or waits before it.
QueuedOK(s, w, a, sh, j, cur, top, f, m) ==
    /\ IsCue(m) /\ m.cursor = cur.cursor /\ m.seq <= top /\ m.seq > j
    /\ Ahead(s, w, a, m) /\ NoLater(CueId(m), f)
    /\ s.reset # None => s.reset.seq < m.seq
    /\ \A k \in 1..Len(sh) : Before(CueId(sh[k]), CueId(m))

SubPre(s, w, a, sh, j, cur, top, f) ==
    /\ s \in Subscriber /\ s.late <= Len(s.queue) /\ Len(s.queue) <= MaxPending
    /\ a.last <= top /\ j <= top
    /\ s.inFlight # None => s.inFlight.seq <= top
    /\ \A i \in 1..Len(w) : w[i].seq <= top /\ w[i].cursor.producer = cur.cursor.producer
    /\ w = <<>> => a.baseline # None
    /\ a.baseline # None => a.baseline.cursor.producer = cur.cursor.producer
    /\ s.reset # None => s.reset = cur /\ Ahead(s, w, a, cur)
    /\ s.reset = None => SentCursor(w, a) = cur.cursor
    /\ \A i \in 1..Len(s.queue) : QueuedOK(s, w, a, sh, j, cur, top, f, s.queue[i])
    /\ \A i, k \in 1..Len(s.queue) : i < k => Earlier(s.queue[i], s.queue[k])

SubOK(s, w, a, sh, j, cur, top, f) ==
    SubPre(s, w, a, sh, j, cur, top, f) /\ (s.reset # None => s.inFlight # None)

\* A page that hears, with what was sent to it and what waits.
LaneAt(s, w, a, sh, j, cur, top, f) ==
    SubOK(s, w, a, sh, j, cur, top, f) /\ WireOK(w, a, TRUE, j) /\ ShownOK(sh, w, f)

Acceptances == [baseline : Messages \cup {None}, last : Nat, recent : SUBSET Ids]

-----------------------------------------------------------------------------
(* The cue lane: what happens to one page *)

\* m is sent.
LEMMA SendKeepsWire ==
    ASSUME NEW w \in Seq(Messages), NEW a \in Acceptances, NEW j \in Nat, NEW m \in Messages,
           WireOK(w, a, TRUE, j),
           a.last < m.seq, \A k \in 1..Len(w) : Earlier(w[k], m),
           \A k \in 1..Len(w) : w[k].cursor.producer = m.cursor.producer,
           a.baseline # None => a.baseline.cursor.producer = m.cursor.producer,
           IsCue(m) => m.seq > j /\ m.cursor = SentCursor(w, a) /\ (w = <<>> => a.baseline # None)
    PROVE  WireOK(Append(w, m), a, TRUE, j) /\ SentCursor(Append(w, m), a) = m.cursor
<1> DEFINE v == Append(w, m)
<1>1. /\ Len(v) = Len(w) + 1 /\ Len(w) \in Nat /\ v[Len(v)] = m /\ v # <<>>
      /\ \A i \in 1..Len(w) : v[i] = w[i]
    <2>1. Len(w) \in Nat /\ m \in Messages
        OBVIOUS
    <2>2. Len(v) = Len(w) + 1 /\ v[Len(w) + 1] = m
        OBVIOUS
    <2>3. ASSUME NEW i \in 1..Len(w) PROVE v[i] = w[i]
        OBVIOUS
    <2>4. v # <<>>
        OBVIOUS
    <2> QED BY <2>1, <2>2, <2>3, <2>4
<1>2. \A i \in 1..Len(v) : i \in 1..Len(w) \/ (i = Len(v) /\ v[i] = m)
    BY <1>1
<1>3. w = <<>> <=> Len(w) = 0
    OBVIOUS
<1> HIDE DEF v
<1>4. ASSUME NEW i \in 1..Len(v), NEW k \in 1..Len(v), i < k
      PROVE  Earlier(v[i], v[k]) /\ v[i].cursor.producer = v[k].cursor.producer
    <2>1. i \in 1..Len(w)
        BY <1>1, <1>2, <1>4
    <2> QED BY <1>1, <1>2, <1>4, <2>1 DEF WireOK
<1>5. ASSUME NEW i \in 1..Len(v)
      PROVE  /\ a.last < v[i].seq
             /\ a.baseline # None => v[i].cursor.producer = a.baseline.cursor.producer
             /\ IsCue(v[i]) =>
                  /\ TRUE => v[i].seq > j
                  /\ i > 1 => v[i].cursor = v[i - 1].cursor
                  /\ i = 1 /\ a.baseline # None => v[1].cursor = a.baseline.cursor
    <2>1. CASE i \in 1..Len(w)
        <3>1. i > 1 => i - 1 \in 1..Len(w)
            BY <1>1, <2>1
        <3> QED BY <1>1, <2>1, <3>1 DEF WireOK
    <2>2. CASE i = Len(v)
        <3>1. i > 1 => i - 1 = Len(w) /\ i - 1 \in 1..Len(w)
            BY <1>1, <2>2
        <3>2. i = 1 => w = <<>>
            BY <1>1, <1>3, <2>2
        <3> QED BY <1>1, <1>3, <2>2, <3>1, <3>2 DEF SentCursor
    <2> QED BY <1>2, <2>1, <2>2
<1>6. a.baseline = None => IsBaseline(v[1])
    <2>1. CASE w = <<>>
        BY <1>1, <1>3, <2>1 DEF IsCue
    <2>2. CASE w # <<>>
        <3>1. 1 \in 1..Len(w)
            BY <1>1, <1>3, <2>2
        <3> QED BY <1>1, <2>2, <3>1 DEF WireOK
    <2> QED BY <2>1, <2>2
<1>7. WireOK(v, a, TRUE, j)
    BY <1>4, <1>5, <1>6 DEF WireOK
<1>8. SentCursor(v, a) = m.cursor
    BY <1>1 DEF SentCursor
<1> QED BY <1>7, <1>8 DEF v

LEMMA SendKeepsShown ==
    ASSUME NEW w \in Seq(Messages), NEW sh \in Seq(Messages), NEW f \in Ids, NEW m \in Messages,
           ShownOK(sh, w, f),
           IsCue(m) => /\ NoLater(CueId(m), f)
                       /\ \A i \in 1..Len(sh) : Before(CueId(sh[i]), CueId(m))
    PROVE  ShownOK(sh, Append(w, m), f)
<1>1. \A k \in 1..Len(Append(w, m)) :
         \/ k \in 1..Len(w) /\ Append(w, m)[k] = w[k]
         \/ Append(w, m)[k] = m
    OBVIOUS
<1> QED BY <1>1 DEF ShownOK

\* The newest identity grows.
LEMMA ShownStays ==
    ASSUME NEW w \in Seq(Messages), NEW sh \in Seq(Messages), NEW f \in Ids, NEW g \in Ids,
           NoLater(f, g), ShownOK(sh, w, f)
    PROVE  ShownOK(sh, w, g)
<1>1. \A i \in 1..Len(sh) : CueId(sh[i]) \in Ids
    BY IdOfMessage
<1>2. \A k \in 1..Len(w) : CueId(w[k]) \in Ids
    BY IdOfMessage
<1> QED BY <1>1, <1>2, BeforeIsOrder DEF ShownOK

\* What is left of a sequence when its first n elements are gone.
LEMMA RestOfSequence ==
    ASSUME NEW S, NEW q \in Seq(S), NEW n \in Nat, n <= Len(q)
    PROVE  /\ SubSeq(q, n + 1, Len(q)) \in Seq(S)
           /\ Len(SubSeq(q, n + 1, Len(q))) = Len(q) - n
           /\ \A i \in 1..(Len(q) - n) :
                 SubSeq(q, n + 1, Len(q))[i] = q[n + i] /\ n + i \in 1..Len(q)
<1> DEFINE from == n + 1
           to   == Len(q)
           r    == SubSeq(q, from, to)
<1>1. from \in Int /\ to \in Int /\ \A i \in from..to : q[i] \in S
    OBVIOUS
<1>2. to \in Nat /\ from \in Nat /\ from = n + 1 /\ n <= to
    OBVIOUS
<1> HIDE DEF from, to
<1>3. /\ r \in Seq(S)
      /\ Len(r) = IF from <= to THEN to - from + 1 ELSE 0
      /\ \A i \in 1..(to - from + 1) : r[i] = q[from + i - 1]
    BY <1>1, SubSeqProperties
<1> HIDE DEF r
<1>4. Len(r) = to - n /\ to - from + 1 = to - n
    BY <1>2, <1>3
<1>5. ASSUME NEW i \in 1..(to - n) PROVE r[i] = q[n + i] /\ n + i \in 1..to
    <2>1. from + i - 1 = n + i /\ n + i \in 1..to
        BY <1>2, <1>5
    <2> QED BY <1>3, <1>4, <2>1
<1> QED BY <1>3, <1>4, <1>5 DEF r, from, to

\* drain begins a delivery, if it can.
LEMMA DrainKeeps ==
    ASSUME NEW s, NEW w \in Seq(Messages), NEW a \in Acceptances, NEW sh \in Seq(Messages),
           NEW j \in Nat, NEW cur \in Messages, NEW top \in Nat, NEW f \in Ids,
           IsBaseline(cur), cur.seq <= top,
           SubPre(s, w, a, sh, j, cur, top, f), WireOK(w, a, TRUE, j), ShownOK(sh, w, f),
           s.inFlight = None
    PROVE  LaneAt(Drain(s), Wired(s, Drain(s), w), a, sh, j, cur, top, f)
<1> DEFINE t == Drain(s)
           v == Wired(s, t, w)
<1>0. s \in Subscriber /\ s.queue \in Seq(Messages) /\ Len(s.queue) \in Nat /\ s.late \in Nat
      /\ s.late <= Len(s.queue) /\ Len(s.queue) <= MaxPending /\ MaxPending \in Nat
    BY MaxPendingAssumption DEF SubPre, Subscriber
<1>a. \A i \in 1..Len(w) : w[i] \in Messages
    OBVIOUS
<1>b. cur.seq \in Nat /\ IsBaseline(cur) /\ ~IsCue(cur) /\ cur # None
    BY NoMessageAssumption DEF Messages, IsCue
<1>1. CASE s.reset # None
    <2>1. /\ t.inFlight = cur /\ t.reset = None /\ t.queue = s.queue /\ t.late = s.late
          /\ t \in Subscriber
        BY <1>0, <1>1 DEF Drain, SubPre, Subscriber
    <2> HIDE DEF t
    <2>2. v = Append(w, cur)
        BY <2>1, <1>b, NoMessageAssumption DEF Wired
    <2> HIDE DEF v
    <2>22. v \in Seq(Messages) /\ v # <<>> /\ Len(v) = Len(w) + 1 /\ v[Len(w) + 1] = cur
           /\ \A k \in 1..Len(w) : v[k] = w[k]
        BY <2>2
    <2>3. Ahead(s, w, a, cur) /\ cur.seq <= top
        BY <1>1 DEF SubPre
    <2>4. WireOK(v, a, TRUE, j) /\ SentCursor(v, a) = cur.cursor
        <3>1. a.last < cur.seq /\ \A k \in 1..Len(w) : Earlier(w[k], cur)
            BY <2>3 DEF Ahead
        <3>2. /\ \A k \in 1..Len(w) : w[k].cursor.producer = cur.cursor.producer
              /\ a.baseline # None => a.baseline.cursor.producer = cur.cursor.producer
            BY DEF SubPre
        <3> QED BY SendKeepsWire, <2>2, <3>1, <3>2, <1>b
    <2>5. ShownOK(sh, v, f)
        BY SendKeepsShown, <2>2, <1>b
    <2>6. \A k \in 1..Len(v) : (k \in 1..Len(w) /\ v[k] = w[k]) \/ v[k] = cur
        BY <2>22
    <2>7. ASSUME NEW i \in 1..Len(t.queue)
          PROVE  QueuedOK(t, v, a, sh, j, cur, top, f, t.queue[i])
        <3>1. QueuedOK(s, w, a, sh, j, cur, top, f, t.queue[i]) /\ cur.seq < t.queue[i].seq
            BY <1>1, <2>1 DEF SubPre, QueuedOK
        <3>2. \A k \in 1..Len(v) : Earlier(v[k], t.queue[i])
            BY <2>6, <3>1, <1>b DEF QueuedOK, Ahead, Earlier
        <3> QED BY <2>1, <3>1, <3>2 DEF QueuedOK, Ahead
    <2>8. \A i \in 1..Len(v) : v[i].seq <= top /\ v[i].cursor.producer = cur.cursor.producer
        BY <2>3, <2>6 DEF SubPre
    <2>9. SubOK(t, v, a, sh, j, cur, top, f)
        BY <1>0, <2>1, <2>22, <2>3, <2>4, <2>7, <2>8 DEF SubPre, SubOK
    <2> QED BY <2>4, <2>5, <2>9 DEF LaneAt, t, v
<1>2. CASE s.reset = None /\ HasYoungCue(s)
    <2> DEFINE n == s.late + 1
               m == s.queue[n]
               q == t.queue
    <2>1. n \in 1..Len(s.queue) /\ m \in Messages
        <3>1. n \in 1..Len(s.queue)
            BY <1>0, <1>2 DEF HasYoungCue
        <3> HIDE DEF n
        <3> QED BY <1>0, <3>1
    <2>2. t \in Subscriber /\ t.inFlight = m /\ t.reset = None /\ t.late = 0
          /\ q = SubSeq(s.queue, s.late + 2, Len(s.queue))
        <3>1. SubSeq(s.queue, s.late + 2, Len(s.queue)) \in Seq(Messages)
            BY <1>0
        <3> QED BY <1>0, <1>2, <2>1, <3>1 DEF Drain, SendCue, Subscriber
    <2> HIDE DEF t
    <2>3. /\ q \in Seq(Messages) /\ Len(q) = Len(s.queue) - n
          /\ \A i \in 1..Len(q) : q[i] = s.queue[n + i] /\ n + i \in 1..Len(s.queue)
        <3>1. n \in Nat /\ n <= Len(s.queue) /\ n + 1 = s.late + 2
            BY <1>0, <2>1 DEF n
        <3> HIDE DEF n
        <3>2. q = SubSeq(s.queue, n + 1, Len(s.queue)) /\ s.queue \in Seq(Messages)
            BY <1>0, <2>2, <3>1
        <3> DEFINE sq == s.queue
        <3>3. /\ SubSeq(sq, n + 1, Len(sq)) \in Seq(Messages)
              /\ Len(SubSeq(sq, n + 1, Len(sq))) = Len(sq) - n
              /\ \A i \in 1..(Len(sq) - n) :
                    SubSeq(sq, n + 1, Len(sq))[i] = sq[n + i] /\ n + i \in 1..Len(sq)
            <4> HIDE DEF sq
            <4>1. sq \in Seq(Messages) /\ n <= Len(sq)
                BY <3>1, <3>2 DEF sq
            <4> QED BY <3>1, <4>1, RestOfSequence
        <3> QED BY <3>2, <3>3
    <2>4. QueuedOK(s, w, a, sh, j, cur, top, f, m) /\ m # None /\ m.seq \in Nat
          /\ m.cursor = cur.cursor
        BY <2>1, NoMessageAssumption DEF SubPre, QueuedOK, Messages
    <2> HIDE DEF m
    <2>5. v = Append(w, m)
        BY <2>2, <2>4, NoMessageAssumption DEF Wired
    <2> HIDE DEF v
    <2>55. v \in Seq(Messages) /\ v # <<>> /\ Len(v) = Len(w) + 1 /\ v[Len(w) + 1] = m
           /\ \A k \in 1..Len(w) : v[k] = w[k]
        BY <2>1, <2>5
    <2> HIDE DEF q, n
    <2>6. WireOK(v, a, TRUE, j) /\ SentCursor(v, a) = m.cursor
        <3>1. a.last < m.seq /\ \A k \in 1..Len(w) : Earlier(w[k], m)
            BY <2>4 DEF Ahead, QueuedOK
        <3>2. /\ \A k \in 1..Len(w) : w[k].cursor.producer = m.cursor.producer
              /\ a.baseline # None => a.baseline.cursor.producer = m.cursor.producer
            BY <2>4 DEF SubPre
        <3>3. m.seq > j /\ m.cursor = SentCursor(w, a) /\ (w = <<>> => a.baseline # None)
            BY <1>2, <2>4 DEF SubPre, QueuedOK
        <3> QED BY SendKeepsWire, <2>1, <2>5, <3>1, <3>2, <3>3
    <2>7. ShownOK(sh, v, f)
        BY SendKeepsShown, <2>1, <2>4, <2>5 DEF QueuedOK
    <2>8. \A k \in 1..Len(v) : (k \in 1..Len(w) /\ v[k] = w[k]) \/ v[k] = m
        BY <2>55
    <2>9. ASSUME NEW i \in 1..Len(q)
          PROVE  QueuedOK(t, v, a, sh, j, cur, top, f, q[i])
        <3>1. QueuedOK(s, w, a, sh, j, cur, top, f, q[i]) /\ Earlier(m, q[i])
            <4>1. n + i \in 1..Len(s.queue) /\ q[i] = s.queue[n + i] /\ n < n + i
                BY <2>1, <2>3
            <4> QED BY <4>1, <2>1 DEF SubPre, m
        <3>2. \A k \in 1..Len(v) : Earlier(v[k], q[i])
            BY <2>8, <3>1 DEF QueuedOK, Ahead
        <3> QED BY <2>2, <3>1, <3>2 DEF QueuedOK, Ahead, Earlier
    <2>10. ASSUME NEW i \in 1..Len(q), NEW k \in 1..Len(q), i < k
           PROVE  Earlier(q[i], q[k])
        <3>1. n + i \in 1..Len(s.queue) /\ n + k \in 1..Len(s.queue)
              /\ q[i] = s.queue[n + i] /\ q[k] = s.queue[n + k]
            BY <2>3
        <3>2. n + i < n + k
            BY <1>0, <2>1, <2>10 DEF n
        <3> QED BY <3>1, <3>2 DEF SubPre
    <2>11. \A i \in 1..Len(v) : v[i].seq <= top /\ v[i].cursor.producer = cur.cursor.producer
        BY <2>4, <2>8 DEF SubPre, QueuedOK
    <2>12. 0 <= Len(q) /\ Len(q) <= MaxPending /\ Len(q) \in Nat
        BY <1>0, <2>1, <2>3
    <2>13. SubOK(t, v, a, sh, j, cur, top, f)
        BY <2>2, <2>4, <2>55, <2>6, <2>9, <2>10, <2>11, <2>12 DEF SubPre, SubOK, QueuedOK, q
    <2> QED BY <2>6, <2>7, <2>13 DEF LaneAt, t, v
<1>3. CASE s.reset = None /\ ~HasYoungCue(s)
    <2>1. t \in Subscriber /\ t.inFlight = None /\ t.reset = None /\ t.late = 0 /\ t.queue = <<>>
        <3>1. <<>> \in Seq(Messages) /\ 0 \in Nat
            OBVIOUS
        <3>2. t = [s EXCEPT !.queue = <<>>, !.late = 0]
            BY <1>3 DEF Drain
        <3> QED BY <1>0, <1>3, <3>1, <3>2 DEF Subscriber
    <2> HIDE DEF t
    <2>2. v = w
        BY <2>1 DEF Wired
    <2> HIDE DEF t, v
    <2>3. SubOK(t, v, a, sh, j, cur, top, f)
        BY <1>0, <1>3, <2>1, <2>2 DEF SubPre, SubOK
    <2> QED BY <2>2, <2>3 DEF LaneAt, t, v
<1> QED BY <1>1, <1>2, <1>3

\* The socket took the message: the next one, if there is one, is sent.
LEMMA CompleteKeeps ==
    ASSUME NEW s, NEW w \in Seq(Messages), NEW a \in Acceptances, NEW sh \in Seq(Messages),
           NEW j \in Nat, NEW cur \in Messages, NEW top \in Nat, NEW f \in Ids,
           IsBaseline(cur), cur.seq <= top, s.inFlight # None,
           LaneAt(s, w, a, sh, j, cur, top, f)
    PROVE  LaneAt(Complete(s), Wired(s, Complete(s), w), a, sh, j, cur, top, f)
<1> DEFINE c == [s EXCEPT !.inFlight = None]
           d == Drain(c)
<1>0. s \in Subscriber /\ s # None /\ s.inFlight \in Messages /\ s.inFlight.seq \in Nat
    <2>1. s \in Subscriber
        BY DEF LaneAt, SubOK, SubPre
    <2> QED BY <2>1, NoMessageAssumption DEF Subscriber, Messages
<1>1. /\ c \in Subscriber /\ c.inFlight = None /\ c.reset = s.reset /\ c.queue = s.queue
      /\ c.late = s.late
    BY <1>0 DEF Subscriber
<1> HIDE DEF c
<1>2. SubPre(c, w, a, sh, j, cur, top, f)
    <2>1. Ahead(s, w, a, cur) => Ahead(c, w, a, cur)
        BY <1>1 DEF Ahead
    <2>2. \A m : QueuedOK(s, w, a, sh, j, cur, top, f, m) => QueuedOK(c, w, a, sh, j, cur, top, f, m)
        BY <1>1 DEF Ahead, QueuedOK
    <2> QED BY <1>1, <2>1, <2>2 DEF LaneAt, SubOK, SubPre
<1>3. LaneAt(d, Wired(c, d, w), a, sh, j, cur, top, f)
    BY <1>1, <1>2, DrainKeeps DEF LaneAt
<1>4. d.inFlight # None => d.inFlight # s.inFlight
    <2>1. c.reset # None => c.reset.seq # s.inFlight.seq
        BY <1>0, <1>1 DEF LaneAt, SubOK, SubPre, Ahead
    <2>2. ASSUME HasYoungCue(c) PROVE c.queue[c.late + 1].seq # s.inFlight.seq
        <3>1. c.late + 1 \in 1..Len(s.queue)
            BY <1>1, <2>2 DEF HasYoungCue, Subscriber
        <3>2. QueuedOK(s, w, a, sh, j, cur, top, f, s.queue[c.late + 1])
            BY <3>1 DEF LaneAt, SubOK, SubPre
        <3> QED BY <1>0, <1>1, <3>2 DEF QueuedOK, Ahead
    <2>3. \/ c.reset # None /\ d.inFlight = c.reset
          \/ HasYoungCue(c) /\ d.inFlight = c.queue[c.late + 1]
          \/ d.inFlight = None
        BY <1>1 DEF Drain, SendCue, Subscriber
    <2> QED BY <2>1, <2>2, <2>3
<1>5. Wired(s, d, w) = Wired(c, d, w)
    <2>1. c # None
        BY <1>1, NoMessageAssumption
    <2> QED BY <1>0, <1>1, <1>4, <2>1 DEF Wired
<1> QED BY <1>3, <1>5 DEF Complete, c, d

\* A baseline replaces what waits.
LEMMA BaselineKeeps ==
    ASSUME NEW s, NEW w \in Seq(Messages), NEW a \in Acceptances, NEW sh \in Seq(Messages),
           NEW j \in Nat, NEW cur \in Messages, NEW top \in Nat, NEW f \in Ids, NEW m \in Messages,
           LaneAt(s, w, a, sh, j, cur, top, f),
           IsBaseline(m), top < m.seq, m.cursor.producer = cur.cursor.producer
    PROVE  LaneAt(OfferBaseline(s, m), Wired(s, OfferBaseline(s, m), w), a, sh, j, m, m.seq, f)
<1> DEFINE c == [s EXCEPT !.queue = <<>>, !.late = 0, !.reset = m]
<1>0. s \in Subscriber /\ s # None /\ s.inFlight \in Messages \cup {None}
    <2>1. s \in Subscriber
        BY DEF LaneAt, SubOK, SubPre
    <2> QED BY <2>1, NoMessageAssumption DEF Subscriber
<1>1. c \in Subscriber /\ c.inFlight = s.inFlight /\ c.reset = m /\ c.queue = <<>> /\ c.late = 0
    <2>1. <<>> \in Seq(Messages) /\ 0 \in Nat
        OBVIOUS
    <2> QED BY <1>0, <2>1 DEF Subscriber
<1>2. m.seq \in Nat /\ m # None /\ ~IsCue(m) /\ Len(<<>>) = 0 /\ \A i \in 1..0 : FALSE
    BY NoMessageAssumption DEF Messages, IsCue
<1>3. MaxPending \in Nat
    BY MaxPendingAssumption
<1>4. \A i \in 1..Len(w) : w[i].seq \in Nat
    BY IdOfMessage
<1>5. c.inFlight # None => c.inFlight.seq \in Nat
    BY <1>0, <1>1 DEF Messages
<1>55. a.last \in Nat
    BY DEF Acceptances
<1> HIDE DEF c
<1>6. Ahead(c, w, a, m)
    <2>1. a.last < m.seq /\ (c.inFlight # None => c.inFlight.seq < m.seq)
        BY <1>1, <1>2, <1>5, <1>55 DEF LaneAt, SubOK, SubPre
    <2>2. \A k \in 1..Len(w) : Earlier(w[k], m)
        BY <1>2, <1>4 DEF LaneAt, SubOK, SubPre, Earlier
    <2> QED BY <2>1, <2>2 DEF Ahead
<1>7. SubPre(c, w, a, sh, j, m, m.seq, f)
    <2>1. a.last <= m.seq /\ j <= m.seq /\ (c.inFlight # None => c.inFlight.seq <= m.seq)
        BY <1>1, <1>2, <1>5, <1>55 DEF LaneAt, SubOK, SubPre
    <2>2. /\ \A i \in 1..Len(w) : w[i].seq <= m.seq /\ w[i].cursor.producer = m.cursor.producer
          /\ w = <<>> => a.baseline # None
          /\ a.baseline # None => a.baseline.cursor.producer = m.cursor.producer
        BY <1>2, <1>4 DEF LaneAt, SubOK, SubPre
    <2> QED BY <1>1, <1>2, <1>3, <1>6, <2>1, <2>2 DEF SubPre
<1>8. CASE s.inFlight = None
    <2>1. LaneAt(Drain(c), Wired(c, Drain(c), w), a, sh, j, m, m.seq, f)
        <3>1. m.seq <= m.seq
            BY <1>2
        <3>2. WireOK(w, a, TRUE, j) /\ ShownOK(sh, w, f)
            BY DEF LaneAt
        <3> QED BY <1>1, <1>2, <1>7, <1>8, <3>1, <3>2, DrainKeeps
    <2>2. Wired(s, Drain(c), w) = Wired(c, Drain(c), w)
        BY <1>0, <1>1, NoMessageAssumption DEF Wired
    <2> QED BY <2>1, <2>2 DEF OfferBaseline, c
<1>9. CASE s.inFlight # None
    <2>1. Drain(c) = c
        BY <1>1, <1>9 DEF Drain
    <2>2. Wired(s, c, w) = w
        BY <1>0, <1>1, NoMessageAssumption DEF Wired
    <2>3. LaneAt(c, w, a, sh, j, m, m.seq, f)
        BY <1>1, <1>7, <1>9 DEF LaneAt, SubOK
    <2> QED BY <2>1, <2>2, <2>3 DEF OfferBaseline, c
<1> QED BY <1>8, <1>9

\* The channel and the source move on.
LEMMA LaterKeeps ==
    ASSUME NEW s, NEW w \in Seq(Messages), NEW a \in Acceptances, NEW sh \in Seq(Messages),
           NEW j \in Nat, NEW cur \in Messages, NEW top \in Nat, NEW f \in Ids,
           LaneAt(s, w, a, sh, j, cur, top, f),
           NEW last \in Nat, NEW g \in Ids, top <= last, NoLater(f, g)
    PROVE  LaneAt(s, w, a, sh, j, cur, last, g)
<1>1. s \in Subscriber /\ s.queue \in Seq(Messages) /\ s.inFlight \in Messages \cup {None}
    BY DEF LaneAt, SubOK, SubPre, Subscriber
<1>2. (s.inFlight # None => s.inFlight.seq <= last) /\ a.last <= last /\ j <= last
    <2>1. s.inFlight # None => s.inFlight.seq \in Nat
        BY <1>1, IdOfMessage
    <2>2. a.last \in Nat
        BY DEF Acceptances
    <2> QED BY <2>1, <2>2 DEF LaneAt, SubOK, SubPre
<1>3. \A i \in 1..Len(w) : w[i].seq <= last /\ w[i].cursor.producer = cur.cursor.producer
    <2>1. \A i \in 1..Len(w) : w[i].seq \in Nat
        BY IdOfMessage
    <2> QED BY <2>1 DEF LaneAt, SubOK, SubPre
<1>4. ASSUME NEW i \in 1..Len(s.queue)
      PROVE  QueuedOK(s, w, a, sh, j, cur, last, g, s.queue[i])
    <2> DEFINE m == s.queue[i]
    <2>1. m \in Messages /\ CueId(m) \in Ids /\ m.seq \in Nat
        BY <1>1, <1>4, IdOfMessage
    <2>2. QueuedOK(s, w, a, sh, j, cur, top, f, m)
        BY <1>4 DEF LaneAt, SubOK, SubPre
    <2> HIDE DEF m
    <2>3. NoLater(CueId(m), g)
        BY <2>1, <2>2, BeforeIsOrder DEF QueuedOK
    <2>4. m.seq <= last
        BY <2>1, <2>2 DEF QueuedOK
    <2>5. QueuedOK(s, w, a, sh, j, cur, last, g, m)
        BY <2>2, <2>3, <2>4 DEF QueuedOK
    <2> QED BY <2>5 DEF m
<1>5. SubOK(s, w, a, sh, j, cur, last, g)
    BY <1>2, <1>3, <1>4 DEF LaneAt, SubOK, SubPre
<1>6. ShownOK(sh, w, g)
    BY ShownStays DEF LaneAt
<1> QED BY <1>5, <1>6 DEF LaneAt

\* The oldest cue gives way when the queue is full.
LEMMA RoomIsMade ==
    ASSUME NEW s \in Subscriber, s.late <= Len(s.queue), Len(s.queue) <= MaxPending
    PROVE  /\ MakeRoom(s) \in Subscriber
           /\ MakeRoom(s).inFlight = s.inFlight /\ MakeRoom(s).reset = s.reset
           /\ MakeRoom(s).late <= Len(MakeRoom(s).queue) /\ Len(MakeRoom(s).queue) < MaxPending
           /\ \E e \in {0, 1} : \A i \in 1..Len(MakeRoom(s).queue) :
                 i + e \in 1..Len(s.queue) /\ MakeRoom(s).queue[i] = s.queue[i + e]
<1> DEFINE r == MakeRoom(s)
           q == s.queue
<1>1. q \in Seq(Messages) /\ Len(q) \in Nat /\ s.late \in Nat /\ s.late <= Len(q)
      /\ MaxPending \in Nat /\ MaxPending # 0
    BY MaxPendingAssumption DEF Subscriber
<1>2. CASE Len(q) < MaxPending
    <2>1. r = s
        BY <1>2 DEF MakeRoom
    <2>2. \A i \in 1..Len(q) : i + 0 \in 1..Len(q) /\ q[i] = q[i + 0]
        BY <1>1
    <2> QED BY <1>1, <1>2, <2>1, <2>2
<1>3. CASE ~(Len(q) < MaxPending)
    <2>1. q # <<>> /\ Len(q) = MaxPending
        BY <1>1, <1>3
    <2>2. Tail(q) \in Seq(Messages) /\ Len(Tail(q)) = Len(q) - 1
          /\ \A i \in 1..Len(Tail(q)) : Tail(q)[i] = q[i + 1]
        BY <1>1, <2>1, HeadTailProperties
    <2> DEFINE n == IF s.late = 0 THEN 0 ELSE s.late - 1
    <2>3. n \in Nat /\ n <= Len(q) - 1
        BY <1>1, <2>1
    <2>4. r = [s EXCEPT !.queue = Tail(q), !.late = n]
        BY <1>3 DEF MakeRoom
    <2> HIDE DEF n, q
    <2>5. r \in Subscriber /\ r.inFlight = s.inFlight /\ r.reset = s.reset /\ r.late = n
          /\ r.queue = Tail(q)
        BY <2>2, <2>3, <2>4 DEF Subscriber
    <2> HIDE DEF r
    <2>6. \A i \in 1..Len(r.queue) : i + 1 \in 1..Len(q) /\ r.queue[i] = q[i + 1]
        BY <1>1, <2>2, <2>5
    <2> QED BY <1>1, <2>1, <2>2, <2>3, <2>5, <2>6 DEF r, q
<1> QED BY <1>2, <1>3

\* A cue is sent, or waits behind the others.
LEMMA CueKeeps ==
    ASSUME NEW s, NEW w \in Seq(Messages), NEW a \in Acceptances, NEW sh \in Seq(Messages),
           NEW j \in Nat, NEW cur \in Messages, NEW top \in Nat, NEW f \in Ids, NEW m \in Messages,
           LaneAt(s, w, a, sh, j, cur, top, f),
           IsCue(m), top < m.seq, m.cursor = cur.cursor, Before(f, CueId(m)),
           IsBaseline(cur), cur.seq <= top
    PROVE  LaneAt(OfferCue(s, m), Wired(s, OfferCue(s, m), w), a, sh, j, cur, m.seq, CueId(m))
<1> DEFINE g == CueId(m)
           t == OfferCue(s, m)
           q == s.queue
<1>0. /\ s \in Subscriber /\ s # None /\ s.inFlight \in Messages \cup {None}
      /\ s.reset \in Messages \cup {None} /\ q \in Seq(Messages) /\ m # None
    <2>1. s \in Subscriber
        BY DEF LaneAt, SubOK, SubPre
    <2> QED BY <2>1, NoMessageAssumption DEF Subscriber
<1>1. g \in Ids /\ m.seq \in Nat /\ a.last \in Nat /\ cur.seq \in Nat
    BY IdOfMessage DEF Acceptances
<1>2. LaneAt(s, w, a, sh, j, cur, m.seq, g)
    <2>1. NoLater(f, g) /\ top <= m.seq
        BY <1>1 DEF NoLater
    <2> HIDE DEF g
    <2> QED BY <1>1, <2>1, LaterKeeps
<1>3. \A k \in 1..Len(sh) : Before(CueId(sh[k]), g)
    <2>1. \A k \in 1..Len(sh) : CueId(sh[k]) \in Ids
        BY IdOfMessage
    <2> QED BY <1>1, <2>1, BeforeIsOrder DEF LaneAt, ShownOK
<1>4. ASSUME NEW x \in Messages, x.seq <= top, IsCue(x) => NoLater(CueId(x), f)
      PROVE  Earlier(x, m)
    <2>1. CueId(x) \in Ids /\ x.seq \in Nat
        BY IdOfMessage
    <2> QED BY <1>1, <1>4, <2>1, BeforeIsOrder DEF Earlier
<1>5. \A k \in 1..Len(w) : Earlier(w[k], m)
    <2>1. \A k \in 1..Len(w) : w[k] \in Messages
        OBVIOUS
    <2> QED BY <1>4, <2>1 DEF LaneAt, SubOK, SubPre, ShownOK
<1>6. \A i \in 1..Len(q) : Earlier(q[i], m)
    <2>1. \A i \in 1..Len(q) : q[i] \in Messages
        BY <1>0
    <2> QED BY <1>4, <2>1 DEF LaneAt, SubOK, SubPre, QueuedOK
<1>7. a.last < m.seq /\ m.seq > j /\ (s.inFlight # None => s.inFlight.seq < m.seq)
    <2>1. s.inFlight # None => s.inFlight.seq \in Nat
        BY <1>0, IdOfMessage
    <2> QED BY <1>1, <2>1 DEF LaneAt, SubOK, SubPre
<1>8. s.reset # None => s.reset.seq < m.seq
    BY <1>1 DEF LaneAt, SubOK, SubPre
<1> HIDE DEF g
<1>9. CASE s.inFlight = None /\ s.reset = None /\ q = <<>>
    <2> DEFINE v == Append(w, m)
    <2>1. t = [s EXCEPT !.inFlight = m]
        BY <1>9 DEF OfferCue
    <2>2. t \in Subscriber /\ t.inFlight = m /\ t.reset = None /\ t.queue = <<>> /\ t.late = s.late
        BY <1>0, <1>9, <2>1 DEF Subscriber
    <2> HIDE DEF t
    <2>3. Wired(s, t, w) = v
        BY <1>0, <1>9, <2>2, NoMessageAssumption DEF Wired
    <2>4. v \in Seq(Messages) /\ v # <<>>
          /\ \A k \in 1..Len(v) : (k \in 1..Len(w) /\ v[k] = w[k]) \/ v[k] = m
        OBVIOUS
    <2> HIDE DEF v
    <2>5. WireOK(v, a, TRUE, j) /\ SentCursor(v, a) = m.cursor
        <3>1. /\ \A k \in 1..Len(w) : w[k].cursor.producer = m.cursor.producer
              /\ a.baseline # None => a.baseline.cursor.producer = m.cursor.producer
              /\ m.cursor = SentCursor(w, a) /\ (w = <<>> => a.baseline # None)
              /\ WireOK(w, a, TRUE, j)
            BY <1>9 DEF LaneAt, SubOK, SubPre
        <3> QED BY SendKeepsWire, <1>5, <1>7, <3>1 DEF v
    <2>6. ShownOK(sh, v, g)
        <3>1. ShownOK(sh, w, g) /\ NoLater(CueId(m), g)
            BY <1>2 DEF LaneAt, NoLater, g
        <3>2. \A i \in 1..Len(sh) : Before(CueId(sh[i]), CueId(m))
            BY <1>3 DEF g
        <3> QED BY SendKeepsShown, <1>1, <3>1, <3>2 DEF v
    <2>7. \A i \in 1..Len(v) : v[i].seq <= m.seq /\ v[i].cursor.producer = cur.cursor.producer
        <3>1. \A k \in 1..Len(w) : w[k].seq <= m.seq /\ w[k].cursor.producer = cur.cursor.producer
            BY <1>2 DEF LaneAt, SubOK, SubPre
        <3>2. m.seq <= m.seq
            BY <1>1
        <3> QED BY <2>4, <3>1, <3>2
    <2>8. Len(<<>>) = 0 /\ (\A i \in 1..0 : FALSE) /\ MaxPending \in Nat
        BY MaxPendingAssumption
    <2>9. SubOK(t, v, a, sh, j, cur, m.seq, g)
        BY <1>1, <1>2, <1>9, <2>2, <2>4, <2>5, <2>7, <2>8 DEF LaneAt, SubOK, SubPre
    <2> QED BY <2>3, <2>5, <2>6, <2>9 DEF LaneAt, t, g
<1>10. CASE ~(s.inFlight = None /\ s.reset = None /\ q = <<>>)
    <2> DEFINE r == MakeRoom(s)
               rq == r.queue
               tq == Append(rq, m)
    <2>1. /\ r \in Subscriber /\ r.inFlight = s.inFlight /\ r.reset = s.reset
          /\ r.late <= Len(rq) /\ Len(rq) < MaxPending
        BY <1>0, RoomIsMade DEF LaneAt, SubOK, SubPre
    <2>2. PICK e \in {0, 1} : \A i \in 1..Len(rq) : i + e \in 1..Len(q) /\ rq[i] = q[i + e]
        BY <1>0, RoomIsMade DEF LaneAt, SubOK, SubPre
    <2>3. t = [r EXCEPT !.queue = tq]
        BY <1>10 DEF OfferCue
    <2> HIDE DEF r
    <2>4. rq \in Seq(Messages) /\ Len(rq) \in Nat /\ r.late \in Nat
        BY <2>1 DEF Subscriber
    <2> HIDE DEF rq
    <2>5. /\ tq \in Seq(Messages) /\ Len(tq) = Len(rq) + 1
          /\ \A i \in 1..Len(tq) :
                \/ i \in 1..Len(rq) /\ tq[i] = rq[i]
                \/ i = Len(rq) + 1 /\ tq[i] = m
        BY <2>4
    <2> HIDE DEF tq
    <2>6. t \in Subscriber /\ t.inFlight = s.inFlight /\ t.reset = s.reset /\ t.late = r.late
          /\ t.queue = tq
        BY <2>1, <2>3, <2>5 DEF Subscriber
    <2> HIDE DEF t
    <2>7. Wired(s, t, w) = w
        BY <1>0, <2>6 DEF Wired
    <2>8. QueuedOK(t, w, a, sh, j, cur, m.seq, g, m)
        BY <1>1, <1>3, <1>5, <1>7, <1>8, <2>6 DEF QueuedOK, Ahead, NoLater, g
    <2>9. ASSUME NEW i \in 1..Len(tq)
          PROVE  QueuedOK(t, w, a, sh, j, cur, m.seq, g, tq[i])
        <3>1. CASE i \in 1..Len(rq) /\ tq[i] = rq[i]
            <4>1. i + e \in 1..Len(q) /\ tq[i] = q[i + e]
                BY <2>2, <3>1
            <4>2. QueuedOK(s, w, a, sh, j, cur, m.seq, g, tq[i])
                BY <1>2, <4>1 DEF LaneAt, SubOK, SubPre
            <4> QED BY <2>6, <4>2 DEF QueuedOK, Ahead
        <3> QED BY <2>5, <2>8, <2>9, <3>1
    <2>10. ASSUME NEW i \in 1..Len(tq), NEW k \in 1..Len(tq), i < k
           PROVE  Earlier(tq[i], tq[k])
        <3>1. i \in 1..Len(rq) /\ tq[i] = rq[i]
            BY <2>4, <2>5, <2>10
        <3>2. i + e \in 1..Len(q) /\ tq[i] = q[i + e]
            BY <2>2, <3>1
        <3>3. CASE k \in 1..Len(rq) /\ tq[k] = rq[k]
            <4>1. k + e \in 1..Len(q) /\ tq[k] = q[k + e] /\ i + e < k + e
                BY <2>2, <2>10, <3>3
            <4> QED BY <3>2, <4>1 DEF LaneAt, SubOK, SubPre
        <3>4. CASE tq[k] = m
            BY <1>6, <3>2, <3>4
        <3> QED BY <2>5, <3>3, <3>4
    <2>11. Ahead(s, w, a, cur) => Ahead(t, w, a, cur)
        BY <2>6 DEF Ahead
    <2>12. t.late <= Len(tq) /\ Len(tq) <= MaxPending
        BY <2>1, <2>4, <2>5, <2>6, MaxPendingAssumption
    <2>13. SubOK(t, w, a, sh, j, cur, m.seq, g)
        BY <1>2, <2>6, <2>9, <2>10, <2>11, <2>12 DEF LaneAt, SubOK, SubPre
    <2> QED BY <1>2, <2>7, <2>13 DEF LaneAt, t, g
<1> QED BY <1>9, <1>10

\* The page takes the next message: it is a baseline, or a cue under the baseline before it.
LEMMA HearKeepsWire ==
    ASSUME NEW w \in Seq(Messages), NEW a \in Acceptances, NEW sh \in Seq(Messages),
           NEW j \in Nat, NEW f \in Ids,
           WireOK(w, a, TRUE, j), ShownOK(sh, w, f), w # <<>>
    PROVE  /\ Accepted(a, Head(w)) \in Acceptances
           /\ Accepted(a, Head(w)).last = Head(w).seq /\ Accepted(a, Head(w)).baseline # None
           /\ Accepted(a, Head(w)).baseline.cursor = Head(w).cursor
           /\ Verdict(a, Head(w)) \in {"baseline", "cue", "duplicate"}
           /\ Verdict(a, Head(w)) = "cue" => IsCue(Head(w)) /\ Head(w).seq > j
           /\ WireOK(Tail(w), Accepted(a, Head(w)), TRUE, j)
           /\ ShownOK(sh, Tail(w), f)
           /\ IsCue(Head(w)) => ShownOK(Append(sh, Head(w)), Tail(w), f)
<1> DEFINE m == Head(w)
           b == Accepted(a, m)
           t == Tail(w)
<1>1. /\ m = w[1] /\ m \in Messages /\ t \in Seq(Messages) /\ Len(t) = Len(w) - 1
      /\ Len(w) \in Nat /\ Len(w) # 0 /\ 1 \in 1..Len(w)
      /\ \A i \in 1..Len(t) : t[i] = w[i + 1]
    BY HeadTailProperties
<1> HIDE DEF m, t
<1>2. \A i \in 1..Len(t) : i + 1 \in 1..Len(w) /\ 1 < i + 1 /\ t[i] = w[i + 1] /\ i + 1 - 1 = i
    BY <1>1
<1>3. m # None /\ CueId(m) \in Ids /\ m.seq \in Nat /\ a.last \in Nat /\ a.recent \subseteq Ids
      /\ a.baseline \in Messages \cup {None} /\ a.last < m.seq
    BY <1>1, NoMessageAssumption, IdOfMessage DEF Acceptances, WireOK
<1>4. IsCue(m) => a.baseline # None /\ m.cursor = a.baseline.cursor /\ m.seq > j
    BY <1>1 DEF WireOK, IsCue
<1>5. /\ Verdict(a, m) \in {"baseline", "cue", "duplicate"}
      /\ Verdict(a, m) = "baseline" <=> IsBaseline(m)
    <2>1. a.baseline # None => m.cursor.producer = a.baseline.cursor.producer
        BY <1>1 DEF WireOK
    <2>2. ~(m.seq <= a.last)
        BY <1>3
    <2> QED BY <1>4, <2>1, <2>2 DEF Verdict, IsCue
<1>6. {} \in SUBSET Ids /\ a.recent \cup {CueId(m)} \in SUBSET Ids
    BY <1>3
<1>8. b \in Acceptances /\ b.last = m.seq /\ b.baseline # None /\ b.baseline.cursor = m.cursor
    <2>1. CASE IsBaseline(m)
        <3>1. b = [baseline |-> m, last |-> m.seq, recent |-> {}]
            BY <1>5, <2>1 DEF Accepted
        <3> QED BY <1>1, <1>3, <1>6, <3>1 DEF Acceptances
    <2>2. CASE ~IsBaseline(m)
        <3>1. b = [a EXCEPT !.last = m.seq, !.recent = @ \cup {CueId(m)}]
            BY <1>5, <2>2 DEF Accepted
        <3> DEFINE r == a.recent \cup {CueId(m)}
        <3>2. b = [a EXCEPT !.last = m.seq, !.recent = r] /\ r \in SUBSET Ids
            BY <1>6, <3>1
        <3> HIDE DEF b, r
        <3> QED BY <1>1, <1>3, <1>4, <2>2, <3>2 DEF Acceptances, IsCue
    <2> QED BY <2>1, <2>2
<1> HIDE DEF b
<1>9. WireOK(t, b, TRUE, j)
    <2>1. ASSUME NEW i \in 1..Len(t), NEW k \in 1..Len(t), i < k
          PROVE  Earlier(t[i], t[k]) /\ t[i].cursor.producer = t[k].cursor.producer
        <3>1. i + 1 < k + 1
            BY <2>1
        <3> QED BY <1>2, <3>1 DEF WireOK
    <2>2. ASSUME NEW i \in 1..Len(t)
          PROVE  /\ b.last < t[i].seq
                 /\ b.baseline # None => t[i].cursor.producer = b.baseline.cursor.producer
                 /\ IsCue(t[i]) =>
                      /\ TRUE => t[i].seq > j
                      /\ i > 1 => t[i].cursor = t[i - 1].cursor
                      /\ i = 1 /\ b.baseline # None => t[1].cursor = b.baseline.cursor
        <3>1. m.seq < t[i].seq /\ m.cursor.producer = t[i].cursor.producer
            <4>1. Earlier(w[1], w[i + 1]) /\ w[1].cursor.producer = w[i + 1].cursor.producer
                BY <1>1, <1>2 DEF WireOK
            <4> QED BY <1>1, <1>2, <4>1 DEF Earlier
        <3>2. IsCue(t[i]) => t[i].seq > j /\ t[i].cursor = w[i].cursor
            BY <1>2 DEF WireOK
        <3>3. i > 1 => i - 1 \in 1..Len(t) /\ t[i - 1] = w[i]
            <4>1. i > 1 => i - 1 \in 1..Len(t) /\ i - 1 + 1 = i
                BY <1>1
            <4> QED BY <1>1, <4>1
        <3>4. i = 1 => w[i] = m
            BY <1>1
        <3> QED BY <1>8, <3>1, <3>2, <3>3, <3>4
    <2> QED BY <1>8, <2>1, <2>2 DEF WireOK
<1>10. ShownOK(sh, t, f)
    BY <1>2 DEF ShownOK
<1>11. ASSUME IsCue(m) PROVE ShownOK(Append(sh, m), t, f)
    <2> DEFINE v == Append(sh, m)
    <2>1. Len(v) = Len(sh) + 1 /\ Len(sh) \in Nat
          /\ \A i \in 1..Len(v) : \/ i \in 1..Len(sh) /\ v[i] = sh[i]
                                  \/ i = Len(sh) + 1 /\ v[i] = m
        BY <1>1
    <2> HIDE DEF v
    <2>2. NoLater(CueId(m), f) /\ \A i \in 1..Len(sh) : Before(CueId(sh[i]), CueId(m))
        BY <1>1, <1>11 DEF ShownOK
    <2>3. \A k \in 1..Len(t) : IsCue(t[k]) =>
             /\ NoLater(CueId(t[k]), f) /\ Before(CueId(m), CueId(t[k]))
             /\ \A i \in 1..Len(sh) : Before(CueId(sh[i]), CueId(t[k]))
        <3>1. \A k \in 1..Len(t) : Earlier(m, t[k])
            BY <1>1, <1>2 DEF WireOK
        <3> QED BY <1>11, <3>1, <1>10 DEF ShownOK, Earlier
    <2>4. ASSUME NEW i \in 1..Len(v), NEW k \in 1..Len(v), i < k
          PROVE  Before(CueId(v[i]), CueId(v[k]))
        <3>1. i \in 1..Len(sh) /\ v[i] = sh[i]
            BY <2>1, <2>4
        <3> QED BY <2>1, <2>2, <2>4, <3>1, <1>10 DEF ShownOK
    <2>5. \A i \in 1..Len(v) : NoLater(CueId(v[i]), f)
        BY <2>1, <2>2, <1>10 DEF ShownOK
    <2>6. \A k \in 1..Len(t) : IsCue(t[k]) => \A i \in 1..Len(v) : Before(CueId(v[i]), CueId(t[k]))
        BY <2>1, <2>3
    <2>7. ShownOK(v, t, f)
        BY <2>3, <2>4, <2>5, <2>6 DEF ShownOK
    <2> QED BY <2>7 DEF v
<1> QED BY <1>4, <1>5, <1>8, <1>9, <1>10, <1>11 DEF b, m, t, IsCue

LEMMA HearKeeps ==
    ASSUME NEW s, NEW w \in Seq(Messages), NEW a \in Acceptances, NEW sh \in Seq(Messages),
           NEW j \in Nat, NEW cur \in Messages, NEW top \in Nat, NEW f \in Ids,
           LaneAt(s, w, a, sh, j, cur, top, f), w # <<>>,
           NEW b \in Acceptances, NEW v \in Seq(Messages),
           b.last = Head(w).seq, b.baseline # None, b.baseline.cursor = Head(w).cursor,
           v = sh \/ (IsCue(Head(w)) /\ v = Append(sh, Head(w)))
    PROVE  SubOK(s, Tail(w), b, v, j, cur, top, f)
<1> DEFINE m == Head(w)
           t == Tail(w)
<1>1. /\ m = w[1] /\ m \in Messages /\ t \in Seq(Messages) /\ Len(t) = Len(w) - 1
      /\ Len(w) \in Nat /\ Len(w) # 0 /\ 1 \in 1..Len(w)
      /\ \A i \in 1..Len(t) : t[i] = w[i + 1]
    BY HeadTailProperties
<1> HIDE DEF m, t
<1>2. \A i \in 1..Len(t) : i + 1 \in 1..Len(w) /\ t[i] = w[i + 1]
    BY <1>1
<1>3. ASSUME NEW x, Ahead(s, w, a, x) PROVE Ahead(s, t, b, x) /\ Earlier(m, x)
    BY <1>1, <1>2, <1>3 DEF Ahead, Earlier, m
<1>4. \A k \in 1..Len(v) : (k \in 1..Len(sh) /\ v[k] = sh[k]) \/ (IsCue(m) /\ v[k] = m)
    BY <1>1 DEF m
<1>5. ASSUME NEW x, QueuedOK(s, w, a, sh, j, cur, top, f, x)
      PROVE  QueuedOK(s, t, b, v, j, cur, top, f, x)
    <2>1. Ahead(s, t, b, x) /\ Earlier(m, x) /\ IsCue(x)
        BY <1>3, <1>5 DEF QueuedOK
    <2>2. \A k \in 1..Len(v) : Before(CueId(v[k]), CueId(x))
        BY <1>4, <1>5, <2>1 DEF QueuedOK, Earlier
    <2> QED BY <1>5, <2>1, <2>2 DEF QueuedOK
<1>6. SentCursor(t, b) = SentCursor(w, a)
    <2>1. CASE t = <<>>
        <3>1. Len(w) = 1
            BY <1>1, <2>1
        <3> QED BY <1>1, <2>1, <3>1 DEF SentCursor, m
    <2>2. CASE t # <<>>
        <3>1. Len(t) \in 1..Len(t) /\ Len(t) + 1 = Len(w)
            BY <1>1, <2>2
        <3> QED BY <1>1, <2>2, <3>1 DEF SentCursor
    <2> QED BY <2>1, <2>2
<1>7. /\ b.last <= top /\ b.baseline.cursor.producer = cur.cursor.producer
      /\ \A i \in 1..Len(t) : t[i].seq <= top /\ t[i].cursor.producer = cur.cursor.producer
    BY <1>1, <1>2 DEF LaneAt, SubOK, SubPre, m
<1> QED BY <1>3, <1>5, <1>6, <1>7 DEF LaneAt, SubOK, SubPre, t

-----------------------------------------------------------------------------
(* The cue lane: its invariant *)

Hearing == {"awaiting-baseline", "live"}

Frontier == <<Runtime.producer, source.generation, source.sequence>>

LaneOK ==
    /\ moments \in Seq([producer : Nat, context : Nat, generation : Nat]) /\ moments # <<>>
    /\ source \in [state : {"connecting", "live", "reconnecting"},
                   generation : 0..MaxGenerations, sequence : 0..MaxEvents]
    /\ observed \in Nat \X Nat /\ rebased \in Nat
    /\ lastState \in {"connecting", "live", "reconnecting"}
    /\ current \in Messages /\ channelSeq \in Nat
    /\ IsBaseline(current) /\ current.seq <= channelSeq /\ current.seq # 0
    /\ BaselineIsCurrent

PageTyped(p) ==
    /\ wire[p] \in Seq(Messages) /\ open[p] \in BOOLEAN
    /\ state[p] \in {"idle", "connecting", "awaiting-baseline", "live", "reconnecting"}
    /\ acceptance[p] \in Acceptances
    /\ picture[p] \in 0..Len(moments) /\ joined[p] \in Nat /\ shown[p] \in Seq(Messages)

PageOK(p) ==
    /\ PageTyped(p)
    /\ state[p] = "connecting" => wire[p] = <<>> /\ acceptance[p] = NewAcceptance /\ sub[p] = None
    /\ WireOK(wire[p], acceptance[p], state[p] \in Hearing, joined[p])
    /\ ShownOK(shown[p], wire[p], Frontier)
    /\ sub[p] # None =>
          /\ state[p] \in Hearing /\ open[p]
          /\ SubOK(sub[p], wire[p], acceptance[p], shown[p], joined[p], current, channelSeq, Frontier)

LaneTyped ==
    /\ sub = [p \in Pages |-> sub[p]] /\ wire = [p \in Pages |-> wire[p]]
    /\ open = [p \in Pages |-> open[p]] /\ state = [p \in Pages |-> state[p]]
    /\ acceptance = [p \in Pages |-> acceptance[p]] /\ picture = [p \in Pages |-> picture[p]]
    /\ joined = [p \in Pages |-> joined[p]] /\ shown = [p \in Pages |-> shown[p]]

LaneIInv == LaneOK /\ LaneTyped /\ \A p \in Pages : PageOK(p)

-----------------------------------------------------------------------------
(* The cue lane: its steps *)

LEMMA FrontierTyped ==
    ASSUME LaneOK
    PROVE  /\ Runtime \in [producer : Nat, context : Nat, generation : Nat]
           /\ Frontier \in Ids /\ source.generation \in Nat /\ source.sequence \in Nat
           /\ current.cursor = Cursor(Runtime, source.generation)
           /\ current.cursor.producer = Runtime.producer
           /\ current.seq \in Nat /\ current # None
<1>1. Len(moments) \in 1..Len(moments)
    BY DEF LaneOK
<1>2. Runtime = moments[Len(moments)]
    BY DEF Runtime, Last
<1>3. Runtime \in [producer : Nat, context : Nat, generation : Nat]
    <2> DEFINE T == [producer : Nat, context : Nat, generation : Nat]
    <2>1. moments \in Seq(T)
        BY DEF LaneOK
    <2> HIDE DEF T
    <2>2. moments[Len(moments)] \in T
        BY <1>1, <2>1
    <2> QED BY <1>2, <2>2 DEF T
<1>4. source.generation \in Nat /\ source.sequence \in Nat
    BY DEF LaneOK
<1> QED BY <1>3, <1>4, NoMessageAssumption DEF LaneOK, Frontier, Ids, BaselineIsCurrent, Cursor,
   Messages

LEMMA LaneInit == Init => LaneIInv
<1> SUFFICES ASSUME Init PROVE LaneIInv
    OBVIOUS
<1> DEFINE r == [producer |-> 1, context |-> 0, generation |-> 0]
<1>1. Len(<<r>>) = 1 /\ <<r>>[1] = r /\ <<r>> # <<>>
      /\ <<r>> \in Seq([producer : Nat, context : Nat, generation : Nat])
    OBVIOUS
<1> HIDE DEF r
<1>2. moments = <<r>> /\ Runtime = r /\ Len(moments) = 1
    BY <1>1 DEF Init, Runtime, Last, r
<1>3. Cursor(r, 0) = [producer |-> 1, context |-> 0, generation |-> 0]
    BY DEF Cursor, r
<1>4. LaneOK
    BY <1>1, <1>2, <1>3, LaneBounds DEF Init, LaneOK, BaselineIsCurrent, Message, Messages,
       IsBaseline, r
<1>5. LaneTyped
    BY DEF Init, LaneTyped
<1>6. ASSUME NEW p \in Pages PROVE PageOK(p)
    <2>1. /\ <<>> \in Seq(Messages) /\ Len(<<>>) = 0 /\ \A i \in 1..0 : FALSE
        OBVIOUS
    <2>2. NewAcceptance \in Acceptances
        BY DEF NewAcceptance, Acceptances
    <2>3. PageTyped(p)
        BY <1>2, <2>1, <2>2 DEF Init, PageTyped
    <2>4. WireOK(<<>>, NewAcceptance, FALSE, 0) /\ ShownOK(<<>>, <<>>, Frontier)
        BY <2>1 DEF WireOK, ShownOK
    <2>5. (state[p] \in Hearing) = FALSE
        BY DEF Init, Hearing
    <2> QED BY <2>3, <2>4, <2>5 DEF Init, PageOK
<1> QED BY <1>4, <1>5, <1>6 DEF LaneIInv

\* A page that a step leaves alone.
LEMMA PageStays ==
    ASSUME NEW q, PageOK(q), LaneOK,
           sub'[q] = sub[q], wire'[q] = wire[q], open'[q] = open[q], state'[q] = state[q],
           acceptance'[q] = acceptance[q], picture'[q] = picture[q], joined'[q] = joined[q],
           shown'[q] = shown[q],
           UNCHANGED <<runtimeVars, current, channelSeq>>
    PROVE  PageOK(q)'
<1>1. Frontier' = Frontier
    BY DEF Frontier, Runtime, runtimeVars
<1>2. PageTyped(q)'
    BY DEF PageOK, PageTyped, runtimeVars
<1> QED BY <1>1, <1>2 DEF PageOK

\* The lane of a page that hears.
LEMMA PageHears ==
    ASSUME NEW p, PageOK(p), sub[p] # None
    PROVE  /\ LaneAt(sub[p], wire[p], acceptance[p], shown[p], joined[p], current, channelSeq, Frontier)
           /\ state[p] \in Hearing /\ state[p] # "connecting" /\ PageTyped(p) /\ open[p]
           /\ sub[p] \in Subscriber
<1>1. state[p] \in Hearing
    BY DEF PageOK
<1>2. WireOK(wire[p], acceptance[p], TRUE, joined[p])
    <2>1. (state[p] \in Hearing) = TRUE
        BY <1>1
    <2> QED BY <2>1 DEF PageOK
<1> QED BY <1>1, <1>2 DEF PageOK, LaneAt, Hearing, SubOK, SubPre

\* What a step leaves of it.
LEMMA HearingPage ==
    ASSUME NEW p, PageTyped(p)', state'[p] \in Hearing, open'[p],
           LaneAt(sub'[p], wire'[p], acceptance'[p], shown'[p], joined'[p], current', channelSeq',
                  Frontier')
    PROVE  PageOK(p)'
<1>1. (state'[p] \in Hearing) = TRUE /\ state'[p] # "connecting"
    BY DEF Hearing
<1> QED BY <1>1 DEF PageOK, LaneAt

LEMMA WiredIsTyped ==
    ASSUME NEW s, NEW d \in Subscriber, NEW w \in Seq(Messages)
    PROVE  Wired(s, d, w) \in Seq(Messages)
BY DEF Wired, Subscriber

\* A baseline or a cue is published.
LEMMA PublishKeeps ==
    ASSUME LaneIInv, UNCHANGED <<open, pageVars>>,
           NEW b \in Messages \cup {None}, NEW c \in Messages \cup {None}, Publish(b, c),
           Frontier' \in Ids, NoLater(Frontier, Frontier'),
           Len(moments') \in Nat, Len(moments) <= Len(moments'),
           b # None => /\ IsBaseline(b) /\ b.seq = channelSeq + 1
                       /\ b.cursor.producer = current.cursor.producer,
           c # None => /\ b = None /\ IsCue(c) /\ c.seq = channelSeq + 1
                       /\ c.cursor = current.cursor /\ Before(Frontier, CueId(c))
                       /\ CueId(c) = Frontier'
    PROVE  LaneTyped' /\ \A p \in Pages : PageOK(p)'
<1>0. LaneOK /\ LaneTyped /\ channelSeq \in Nat /\ current \in Messages /\ Frontier \in Ids
      /\ IsBaseline(current) /\ current.seq <= channelSeq
    BY FrontierTyped DEF LaneIInv, LaneOK
<1>1. LaneTyped'
    BY <1>0 DEF LaneTyped, Publish, Subscribers, pageVars
<1>2. ASSUME NEW p \in Pages PROVE PageOK(p)'
    <2>1. PageOK(p) /\ PageTyped(p)
        BY DEF LaneIInv, PageOK
    <2>2. /\ wire[p] \in Seq(Messages) /\ acceptance[p] \in Acceptances /\ shown[p] \in Seq(Messages)
          /\ joined[p] \in Nat
        BY <2>1 DEF PageTyped
    <2>3. ASSUME wire'[p] \in Seq(Messages) PROVE PageTyped(p)'
        <3>1. Len(moments) \in Nat
            BY <1>0 DEF LaneOK
        <3> QED BY <2>1, <2>3, <3>1 DEF PageTyped, pageVars
    <2>4. /\ sub'[p] = IF sub[p] = None THEN None ELSE Offered(Offered(sub[p], b), c)
          /\ wire'[p] = Wired(sub[p], sub'[p], wire[p])
        BY DEF Publish, Subscribers
    <2>5. CASE sub[p] = None
        <3>1. sub'[p] = None /\ wire'[p] = wire[p]
            BY <2>4, <2>5 DEF Wired
        <3>2. ShownOK(shown[p], wire[p], Frontier')
            BY <1>0, <2>1, <2>2, ShownStays DEF PageOK
        <3> QED BY <2>1, <2>2, <2>3, <2>5, <3>1, <3>2 DEF PageOK, pageVars
    <2>6. CASE sub[p] # None
        <3> DEFINE s == sub[p]
                   w == wire[p]
                   a == acceptance[p]
                   sh == shown[p]
                   j == joined[p]
                   t == sub'[p]
                   v == wire'[p]
        <3>1. LaneAt(s, w, a, sh, j, current, channelSeq, Frontier) /\ state[p] \in Hearing
              /\ s \in Subscriber /\ open[p]
            BY <2>1, <2>6, PageHears
        <3>2. t = Offered(Offered(s, b), c) /\ v = Wired(s, t, w)
            BY <2>4, <2>6
        <3> HIDE DEF s, w, a, sh, j, t, v
        <3>3. w \in Seq(Messages) /\ a \in Acceptances /\ sh \in Seq(Messages) /\ j \in Nat
            BY <2>2 DEF w, a, sh, j
        <3>4. LaneAt(t, v, a, sh, j, current', channelSeq', Frontier')
            <4>1. CASE b = None /\ c = None
                <5>1. t = s /\ v = w /\ current' = current /\ channelSeq' = channelSeq
                    BY <3>2, <4>1 DEF Offered, Publish, Wired
                <5> QED BY <1>0, <3>1, <3>3, <5>1, LaterKeeps
            <4>2. CASE b # None
                <5>1. c = None
                    BY <4>2
                <5>2. t = OfferBaseline(s, b) /\ current' = b /\ channelSeq' = b.seq
                    BY <3>2, <4>2, <5>1 DEF Offered, Publish
                <5>3. channelSeq < b.seq /\ b \in Messages /\ b.seq \in Nat
                    BY <1>0, <4>2, IdOfMessage
                <5>4. LaneAt(t, v, a, sh, j, b, b.seq, Frontier)
                    BY <1>0, <3>1, <3>2, <3>3, <4>2, <5>2, <5>3, BaselineKeeps
                <5>5. t \in Subscriber /\ v \in Seq(Messages) /\ b.seq <= b.seq
                    BY <3>2, <3>3, <5>3, <5>4, WiredIsTyped DEF LaneAt, SubOK, SubPre
                <5> QED BY <1>0, <3>3, <5>2, <5>3, <5>4, <5>5, LaterKeeps
            <4>3. CASE c # None
                <5>1. b = None /\ c \in Messages
                    BY <4>3
                <5>2. t = OfferCue(s, c) /\ current' = current /\ channelSeq' = c.seq
                    BY <3>2, <4>3, <5>1 DEF Offered, Publish, IsCue
                <5>3. channelSeq < c.seq
                    BY <1>0, <4>3
                <5> QED BY <1>0, <3>1, <3>2, <3>3, <4>3, <5>1, <5>2, <5>3, CueKeeps
            <4> QED BY <4>1, <4>2, <4>3
        <3>5. v \in Seq(Messages)
            BY <3>2, <3>3, <3>4, WiredIsTyped DEF LaneAt, SubOK, SubPre
        <3>6. PageTyped(p)'
            BY <2>3, <3>5 DEF v
        <3> QED BY <3>1, <3>4, <3>6, HearingPage DEF t, v, a, sh, j, pageVars
    <2> QED BY <2>5, <2>6
<1> QED BY <1>1, <1>2

RuntimeMoment == [producer : Nat, context : Nat, generation : Nat]

LEMMA RebaseKeeps ==
    ASSUME LaneIInv, NEW r \in RuntimeMoment, NEW g \in Nat, NEW force \in BOOLEAN,
           Rebase(r, g, force), r.producer = Runtime.producer, UNCHANGED <<open, pageVars>>,
           moments' \in Seq(RuntimeMoment), moments' # <<>>, Len(moments) <= Len(moments'),
           Runtime' = r, source'.generation = g,
           source' \in [state : {"connecting", "live", "reconnecting"},
                        generation : 0..MaxGenerations, sequence : 0..MaxEvents],
           UNCHANGED observed, lastState' \in {"connecting", "live", "reconnecting"},
           g = source.generation => source'.sequence = source.sequence,
           source.generation <= g
    PROVE  LaneIInv'
<1>0. /\ LaneOK /\ channelSeq \in Nat /\ current \in Messages /\ IsBaseline(current)
      /\ current.seq <= channelSeq /\ current.seq # 0 /\ current.seq \in Nat /\ rebased \in Nat
      /\ current.cursor.producer = Runtime.producer /\ Frontier \in Ids
      /\ source.generation \in Nat /\ source.sequence \in Nat
    BY FrontierTyped DEF LaneIInv, LaneOK
<1> DEFINE b == NewBaseline(r, g, force)
           m == Message(channelSeq + 1, Cursor(r, g), 0)
<1>1. /\ m \in Messages /\ IsBaseline(m) /\ m.seq = channelSeq + 1 /\ m.cursor = Cursor(r, g)
      /\ m.cursor.producer = r.producer /\ m # None
    <2>1. m \in Messages /\ IsBaseline(m) /\ m.seq = channelSeq + 1 /\ m.cursor = Cursor(r, g)
          /\ m.cursor.producer = r.producer
        <3> DEFINE c == Cursor(r, g)
        <3>1. c \in [producer : Nat, context : Nat, generation : Nat] /\ c.producer = r.producer
            BY DEF Cursor, RuntimeMoment
        <3>2. m = [seq |-> channelSeq + 1, cursor |-> c, cue |-> 0]
            BY DEF Message
        <3> HIDE DEF c, m
        <3>3. channelSeq + 1 \in Nat
            BY <1>0
        <3> QED BY <3>1, <3>2, <3>3 DEF Messages, IsBaseline, c
    <2> HIDE DEF m
    <2> QED BY <2>1, NoMessageAssumption
<1>2. b = m \/ (b = None /\ current.cursor = Cursor(r, g) /\ r.generation = rebased)
    BY DEF NewBaseline
<1>3. Publish(b, None) /\ rebased' = IF b = None THEN rebased ELSE r.generation
    BY DEF Rebase
<1> HIDE DEF b, m
<1>4. Frontier' \in Ids /\ NoLater(Frontier, Frontier')
    <2>1. source'.generation \in Nat /\ source'.sequence \in Nat
        BY LaneBounds
    <2>2. Frontier' = <<r.producer, g, source'.sequence>>
        BY DEF Frontier
    <2>3. r.producer \in Nat /\ Frontier = <<r.producer, source.generation, source.sequence>>
        BY DEF Frontier, RuntimeMoment
    <2>4. CASE g = source.generation
        BY <2>1, <2>2, <2>3, <2>4 DEF Ids, NoLater
    <2>5. CASE g # source.generation
        <3>1. source.generation < g
            BY <1>0, <2>5
        <3> QED BY <2>1, <2>2, <2>3, <3>1 DEF Ids, NoLater, Before
    <2> QED BY <2>4, <2>5
<1>5. LaneTyped' /\ \A p \in Pages : PageOK(p)'
    <2>1. Len(moments') \in Nat /\ b \in Messages \cup {None} /\ None \in Messages \cup {None}
        BY <1>1, <1>2
    <2>2. b # None => /\ IsBaseline(b) /\ b.seq = channelSeq + 1
                      /\ b.cursor.producer = current.cursor.producer
        BY <1>0, <1>1, <1>2
    <2> QED BY <1>3, <1>4, <2>1, <2>2, PublishKeeps
<1>6. LaneOK'
    <2>1. /\ current' = IF b # None THEN b ELSE current
          /\ channelSeq' = IF b # None THEN b.seq ELSE channelSeq
        BY <1>3 DEF Publish
    <2>2. /\ current' \in Messages /\ IsBaseline(current') /\ channelSeq' \in Nat
          /\ current'.seq <= channelSeq' /\ current'.seq # 0 /\ rebased' \in Nat
          /\ current'.cursor = Cursor(r, g) /\ rebased' = r.generation
        <3>1. CASE b = m
            <4>1. current' = m /\ channelSeq' = m.seq /\ rebased' = r.generation
                BY <1>1, <1>3, <2>1, <3>1
            <4>2. r.generation \in Nat /\ m.seq \in Nat /\ m.seq # 0 /\ m.seq <= m.seq
                BY <1>0, <1>1 DEF RuntimeMoment
            <4> QED BY <1>1, <4>1, <4>2
        <3>2. CASE b = None /\ current.cursor = Cursor(r, g) /\ r.generation = rebased
            BY <1>0, <1>3, <2>1, <3>2
        <3> QED BY <1>2, <3>1, <3>2
    <2>3. BaselineIsCurrent'
        BY <2>2 DEF BaselineIsCurrent
    <2> QED BY <1>0, <2>2, <2>3 DEF LaneOK, RuntimeMoment, IsBaseline
<1> QED BY <1>5, <1>6 DEF LaneIInv

LEMMA RuntimeMovesKeeps ==
    ASSUME LaneIInv, NEW r \in RuntimeMoment, r.producer = Runtime.producer, RuntimeMoves(r)
    PROVE  LaneIInv'
<1>0. LaneOK /\ source.generation \in Nat /\ moments \in Seq(RuntimeMoment)
    BY FrontierTyped DEF LaneIInv, LaneOK, RuntimeMoment
<1>1. moments' = Append(moments, r)
    BY DEF RuntimeMoves
<1>2. moments' \in Seq(RuntimeMoment) /\ moments' # <<>> /\ Len(moments) <= Len(moments')
      /\ moments'[Len(moments')] = r
    BY <1>0, <1>1
<1>3. Runtime' = r
    BY <1>2 DEF Runtime, Last
<1>4. source' = source /\ UNCHANGED <<observed, lastState, open, pageVars>>
      /\ Rebase(r, source.generation, FALSE)
    BY DEF RuntimeMoves
<1>5. /\ source' \in [state : {"connecting", "live", "reconnecting"},
                      generation : 0..MaxGenerations, sequence : 0..MaxEvents]
      /\ lastState' \in {"connecting", "live", "reconnecting"} /\ FALSE \in BOOLEAN
      /\ source.generation <= source.generation
    BY <1>0, <1>4 DEF LaneOK
<1> QED BY <1>0, <1>2, <1>3, <1>4, <1>5, RebaseKeeps

LEMMA SourceBecomesKeeps ==
    ASSUME LaneIInv,
           NEW s \in [state : {"connecting", "live", "reconnecting"},
                      generation : 0..MaxGenerations, sequence : 0..MaxEvents],
           SourceBecomes(s), source.generation <= s.generation,
           s.generation = source.generation => s.sequence = source.sequence
    PROVE  LaneIInv'
<1>0. LaneOK /\ Runtime \in RuntimeMoment /\ moments \in Seq(RuntimeMoment)
    BY FrontierTyped DEF LaneIInv, LaneOK, RuntimeMoment
<1>1. moments' = moments /\ Runtime' = Runtime /\ Len(moments) <= Len(moments) /\ moments # <<>>
    BY <1>0 DEF SourceBecomes, Runtime, LaneOK
<1> DEFINE force == lastState = "live" /\ s.state # "live"
<1>2. /\ Rebase(Runtime, s.generation, force) /\ force \in BOOLEAN
      /\ source' = s /\ lastState' = s.state /\ UNCHANGED <<observed, open, pageVars>>
    BY DEF SourceBecomes
<1>3. s.generation \in Nat /\ s.state \in {"connecting", "live", "reconnecting"}
    BY LaneBounds
<1> HIDE DEF force
<1> QED BY <1>0, <1>1, <1>2, <1>3, RebaseKeeps

LEMMA ObserveKeeps ==
    ASSUME LaneIInv, NEW projects \in BOOLEAN, Observe(projects)
    PROVE  LaneIInv'
<1>0. /\ LaneOK /\ channelSeq \in Nat /\ current \in Messages /\ IsBaseline(current)
      /\ current.seq <= channelSeq /\ current.seq \in Nat /\ rebased \in Nat
      /\ current.cursor = Cursor(Runtime, source.generation) /\ rebased = Runtime.generation
      /\ Runtime \in RuntimeMoment /\ Frontier \in Ids /\ observed \in Nat \X Nat
      /\ source.generation \in Nat /\ source.sequence \in Nat
    BY FrontierTyped DEF LaneIInv, LaneOK, BaselineIsCurrent, RuntimeMoment
<1> DEFINE n == source.sequence + 1
           at == Cursor(Runtime, source.generation)
           m  == Message(channelSeq + 1, at, n)
<1>1. NewBaseline(Runtime, source.generation, FALSE) = None
    BY <1>0 DEF NewBaseline
<1>2. /\ n <= MaxEvents /\ source' = [source EXCEPT !.sequence = n]
      /\ observed' = observed \/ observed' = <<source.generation, n>>
      /\ rebased' = rebased /\ UNCHANGED <<moments, lastState, open, pageVars>>
    BY <1>1 DEF Observe
<1>22. Publish(None, m) \/ Publish(None, None)
    <2> DEFINE before == [current EXCEPT !.seq = channelSeq]
               publishes == ~(observed[1] = source.generation /\ n <= observed[2])
                            /\ Runtime.context > 0 /\ projects /\ before.cursor = at
    <2>1. Publish(None, IF publishes THEN Message(before.seq + 1, at, n) ELSE None)
        BY <1>1 DEF Observe
    <2>2. before.seq = channelSeq
        BY <1>0 DEF Messages
    <2> HIDE DEF before, publishes
    <2> QED BY <2>1, <2>2
<1>3. /\ m \in Messages /\ IsCue(m) /\ m.seq = channelSeq + 1 /\ m.cursor = current.cursor
      /\ CueId(m) = <<Runtime.producer, source.generation, n>> /\ m # None
    <2>1. /\ m \in Messages /\ IsCue(m) /\ m.seq = channelSeq + 1 /\ m.cursor = current.cursor
          /\ CueId(m) = <<Runtime.producer, source.generation, n>>
        BY <1>0 DEF Message, Messages, Cursor, IsBaseline, IsCue, CueId, RuntimeMoment
    <2> HIDE DEF m
    <2> QED BY <2>1, NoMessageAssumption
<1>4. /\ source' \in [state : {"connecting", "live", "reconnecting"},
                      generation : 0..MaxGenerations, sequence : 0..MaxEvents]
      /\ source'.generation = source.generation /\ source'.sequence = n
    <2>1. n \in 0..MaxEvents
        BY <1>0, <1>2, LaneBounds
    <2> HIDE DEF n
    <2> QED BY <1>0, <1>2, <2>1 DEF LaneOK
<1>5. Runtime' = Runtime
    BY <1>2 DEF Runtime
<1>6. Frontier' = <<Runtime.producer, source.generation, n>> /\ Frontier' \in Ids
      /\ Before(Frontier, Frontier') /\ NoLater(Frontier, Frontier')
    BY <1>0, <1>4, <1>5 DEF Frontier, Ids, Before, NoLater, RuntimeMoment
<1> HIDE DEF m, at
<1>7. Len(moments') \in Nat /\ Len(moments) <= Len(moments') /\ moments' = moments
    BY <1>0, <1>2 DEF LaneOK
<1>8. LaneTyped' /\ \A p \in Pages : PageOK(p)'
    <2>1. CASE Publish(None, m)
        BY <1>2, <1>3, <1>6, <1>7, <2>1, PublishKeeps
    <2>2. CASE Publish(None, None)
        BY <1>2, <1>6, <1>7, <2>2, PublishKeeps
    <2> QED BY <1>22, <2>1, <2>2
<1>9. current' = current /\ channelSeq' \in Nat /\ channelSeq <= channelSeq'
    BY <1>0, <1>22, <1>3 DEF Publish
<1>10. observed' \in Nat \X Nat
    BY <1>0, <1>2
<1>11. BaselineIsCurrent'
    BY <1>0, <1>2, <1>4, <1>5, <1>9 DEF BaselineIsCurrent
<1>12. LaneOK'
    <2>1. /\ current.seq <= channelSeq' /\ rebased' \in Nat
          /\ lastState' \in {"connecting", "live", "reconnecting"}
        <3>1. current.seq <= channelSeq'
            BY <1>0, <1>9
        <3>2. rebased' \in Nat /\ lastState' = lastState
            BY <1>0, <1>2
        <3>3. lastState \in {"connecting", "live", "reconnecting"}
            BY <1>0 DEF LaneOK
        <3> QED BY <3>1, <3>2, <3>3
    <2>2. moments' \in Seq([producer : Nat, context : Nat, generation : Nat]) /\ moments' # <<>>
        BY <1>0, <1>7 DEF LaneOK
    <2>3. current' \in Messages /\ IsBaseline(current') /\ current.seq # 0
        BY <1>0, <1>9 DEF LaneOK
    <2> QED BY <1>4, <1>9, <1>10, <1>11, <2>1, <2>2, <2>3 DEF LaneOK, IsBaseline
<1> QED BY <1>8, <1>12 DEF LaneIInv

\* A step of one page.
LEMMA OnePage ==
    ASSUME LaneIInv, NEW p \in Pages, LaneTyped', UNCHANGED <<runtimeVars, laneVars>>,
           \A q \in Pages : q # p =>
              /\ sub'[q] = sub[q] /\ wire'[q] = wire[q] /\ open'[q] = open[q] /\ state'[q] = state[q]
              /\ acceptance'[q] = acceptance[q] /\ picture'[q] = picture[q]
              /\ joined'[q] = joined[q] /\ shown'[q] = shown[q],
           PageOK(p)'
    PROVE  LaneIInv'
<1>1. LaneOK /\ LaneOK'
    BY DEF LaneIInv, LaneOK, BaselineIsCurrent, Runtime, runtimeVars, laneVars
<1>2. ASSUME NEW q \in Pages PROVE PageOK(q)'
    <2>1. CASE q # p
        <3>1. PageOK(q)
            BY DEF LaneIInv
        <3> QED BY <1>1, <2>1, <3>1, PageStays DEF laneVars
    <2> QED BY <2>1
<1> QED BY <1>1, <1>2 DEF LaneIInv

LEMMA SamePlace ==
    ASSUME UNCHANGED <<runtimeVars, laneVars>>
    PROVE  Frontier' = Frontier /\ current' = current /\ channelSeq' = channelSeq /\ moments' = moments
BY DEF Frontier, Runtime, runtimeVars, laneVars

\* A new socket: nothing is on its way, nothing was accepted.
LEMMA ConnectingKeeps ==
    ASSUME LaneIInv, NEW p \in Pages, Connecting(p), UNCHANGED <<runtimeVars, laneVars, joined, shown>>,
           NEW i \in 0..Len(moments), picture' = [picture EXCEPT ![p] = i]
    PROVE  LaneIInv'
<1>1. LaneTyped /\ PageOK(p) /\ PageTyped(p)
    BY DEF LaneIInv, PageOK
<1>2. /\ state'[p] = "connecting" /\ acceptance'[p] = NewAcceptance /\ sub'[p] = None
      /\ open'[p] = FALSE /\ wire'[p] = <<>> /\ picture'[p] = i
    BY <1>1 DEF Connecting, LaneTyped
<1>3. LaneTyped'
    BY <1>1 DEF Connecting, LaneTyped
<1>4. \A q \in Pages : q # p =>
        /\ sub'[q] = sub[q] /\ wire'[q] = wire[q] /\ open'[q] = open[q] /\ state'[q] = state[q]
        /\ acceptance'[q] = acceptance[q] /\ picture'[q] = picture[q]
        /\ joined'[q] = joined[q] /\ shown'[q] = shown[q]
    BY <1>1 DEF Connecting, LaneTyped
<1>5. PageOK(p)'
    <2>1. <<>> \in Seq(Messages) /\ Len(<<>>) = 0 /\ \A k \in 1..0 : FALSE
        OBVIOUS
    <2>2. NewAcceptance \in Acceptances
        BY DEF NewAcceptance, Acceptances
    <2>3. PageTyped(p)'
        BY <1>1, <1>2, <2>1, <2>2, SamePlace DEF PageTyped
    <2>4. WireOK(<<>>, NewAcceptance, FALSE, joined[p]) /\ ShownOK(shown[p], <<>>, Frontier)
        BY <1>1, <2>1 DEF PageOK, WireOK, ShownOK
    <2>5. (state'[p] \in Hearing) = FALSE
        BY <1>2 DEF Hearing
    <2> QED BY <1>2, <2>3, <2>4, <2>5, SamePlace DEF PageOK
<1> QED BY <1>3, <1>4, <1>5, OnePage

LEMMA ConnectKeeps ==
    ASSUME LaneIInv, NEW p \in Pages, Connect(p)
    PROVE  LaneIInv'
<1>1. picture' = [picture EXCEPT ![p] = picture[p]] /\ picture[p] \in 0..Len(moments)
    BY DEF Connect, LaneIInv, LaneTyped, PageOK, PageTyped
<1> QED BY <1>1, ConnectingKeeps DEF Connect

LEMMA SeesSnapshotKeeps ==
    ASSUME LaneIInv, NEW p \in Pages, SeesSnapshot(p)
    PROVE  LaneIInv'
<1>1. LaneTyped /\ PageOK(p) /\ PageTyped(p) /\ Len(moments) \in Nat
    BY DEF LaneIInv, PageOK, LaneOK
<1>2. PICK i \in (picture[p] + 1)..Len(moments) :
         /\ picture' = [picture EXCEPT ![p] = i]
         /\ Connecting(p) \/ UNCHANGED <<state, acceptance, connVars>>
         /\ UNCHANGED <<runtimeVars, laneVars, joined, shown, faults>>
    BY DEF SeesSnapshot
<1>3. i \in 0..Len(moments)
    BY <1>1 DEF PageTyped
<1>4. CASE Connecting(p)
    BY <1>2, <1>3, <1>4, ConnectingKeeps
<1>5. CASE UNCHANGED <<state, acceptance, connVars>>
    <2>1. LaneTyped' /\ picture'[p] = i
        BY <1>1, <1>2, <1>5 DEF LaneTyped, connVars
    <2>2. \A q \in Pages : q # p =>
            /\ sub'[q] = sub[q] /\ wire'[q] = wire[q] /\ open'[q] = open[q] /\ state'[q] = state[q]
            /\ acceptance'[q] = acceptance[q] /\ picture'[q] = picture[q]
            /\ joined'[q] = joined[q] /\ shown'[q] = shown[q]
        BY <1>1, <1>2, <1>5 DEF LaneTyped, connVars
    <2>3. PageTyped(p)'
        BY <1>1, <1>2, <1>3, <1>5, <2>1, SamePlace DEF PageTyped, connVars
    <2>4. PageOK(p)'
        BY <1>1, <1>2, <1>5, <2>3, SamePlace DEF PageOK, connVars
    <2> QED BY <1>2, <2>1, <2>2, <2>4, OnePage
<1> QED BY <1>2, <1>4, <1>5

\* What was on its way to a closed socket is never heard.
LEMMA SeesCloseKeeps ==
    ASSUME LaneIInv, NEW p \in Pages, SeesClose(p)
    PROVE  LaneIInv'
<1>1. LaneTyped /\ PageOK(p) /\ PageTyped(p)
    BY DEF LaneIInv, PageOK
<1>2. /\ state'[p] = "reconnecting" /\ acceptance'[p] = NewAcceptance /\ LaneTyped'
      /\ UNCHANGED <<runtimeVars, laneVars, connVars, picture, joined, shown>>
    BY <1>1 DEF SeesClose, LaneTyped, connVars
<1>3. \A q \in Pages : q # p =>
        /\ sub'[q] = sub[q] /\ wire'[q] = wire[q] /\ open'[q] = open[q] /\ state'[q] = state[q]
        /\ acceptance'[q] = acceptance[q] /\ picture'[q] = picture[q]
        /\ joined'[q] = joined[q] /\ shown'[q] = shown[q]
    BY <1>1 DEF SeesClose, LaneTyped, connVars
<1>4. NewAcceptance \in Acceptances
    BY DEF NewAcceptance, Acceptances
<1>5. PageTyped(p)'
    BY <1>1, <1>2, <1>4, SamePlace DEF PageTyped, connVars
<1>6. WireOK(wire[p], NewAcceptance, FALSE, joined[p])
    <2>1. \A k \in 1..Len(wire[p]) : wire[p][k].seq \in Nat
        BY <1>1, IdOfMessage DEF PageTyped
    <2>2. acceptance[p].last \in Nat
        BY <1>1 DEF PageTyped, Acceptances
    <2> QED BY <1>1, <2>1, <2>2 DEF PageOK, WireOK, NewAcceptance
<1>7. (state'[p] \in Hearing) = FALSE
    BY <1>2 DEF Hearing
<1>8. sub[p] = None
    BY <1>1 DEF SeesClose, PageOK
<1>9. PageOK(p)'
    BY <1>1, <1>2, <1>5, <1>6, <1>7, <1>8, SamePlace DEF PageOK, connVars
<1> QED BY <1>2, <1>3, <1>9, OnePage

\* The first message of a subscription is the current baseline.
LEMMA AttachKeeps ==
    ASSUME LaneIInv, NEW p \in Pages, Attach(p)
    PROVE  LaneIInv'
<1> DEFINE s == OfferBaseline(NewSubscriber, current)
           f == Frontier
<1>1. /\ LaneOK /\ LaneTyped /\ PageOK(p) /\ PageTyped(p)
      /\ current \in Messages /\ channelSeq \in Nat /\ IsBaseline(current) /\ current.seq \in Nat
      /\ current.seq <= channelSeq /\ current.seq # 0 /\ Frontier \in Ids /\ current # None
    BY FrontierTyped DEF LaneIInv, PageOK, LaneOK
<1>2. /\ s.inFlight = current /\ s.reset = None /\ s.queue = <<>> /\ s.late = 0 /\ s \in Subscriber
    <2>1. <<>> \in Seq(Messages) /\ 0 \in Nat
        OBVIOUS
    <2>2. s = [inFlight |-> current, reset |-> None, queue |-> <<>>, late |-> 0]
        BY <1>1 DEF OfferBaseline, NewSubscriber, Drain
    <2> QED BY <1>1, <2>1, <2>2 DEF Subscriber
<1> HIDE DEF s
<1>3. /\ state[p] = "connecting" /\ wire[p] = <<>> /\ acceptance[p] = NewAcceptance /\ sub[p] = None
    BY <1>1 DEF Attach, PageOK
<1>4. /\ state'[p] = "awaiting-baseline" /\ joined'[p] = channelSeq /\ open'[p] = TRUE
      /\ sub'[p] = s /\ wire'[p] = Wired(sub[p], s, wire[p])
    BY <1>1 DEF Attach, LaneTyped, Subscribers, s
<1>5. wire'[p] = <<current>>
    <2>1. s # None
        BY <1>2, NoMessageAssumption
    <2> QED BY <1>1, <1>2, <1>3, <1>4, <2>1 DEF Wired
<1>6. LaneTyped' /\ UNCHANGED <<runtimeVars, laneVars, acceptance, picture, shown>>
    BY <1>1 DEF Attach, LaneTyped, Subscribers
<1>7. ASSUME NEW q \in Pages, q # p
      PROVE  /\ sub'[q] = sub[q] /\ wire'[q] = wire[q] /\ open'[q] = open[q] /\ state'[q] = state[q]
             /\ acceptance'[q] = acceptance[q] /\ picture'[q] = picture[q]
             /\ joined'[q] = joined[q] /\ shown'[q] = shown[q]
    <2>1. sub'[q] = sub[q] /\ wire'[q] = Wired(sub[q], sub[q], wire[q])
        BY <1>1, <1>7 DEF Attach, LaneTyped, Subscribers
    <2> QED BY <1>1, <1>6, <1>7, <2>1 DEF Attach, LaneTyped, Wired
<1>8. PageOK(p)'
    <2> DEFINE w == <<current>>
               a == NewAcceptance
    <2>1. w \in Seq(Messages) /\ w # <<>> /\ Len(w) = 1 /\ w[1] = current /\ w[Len(w)] = current
          /\ \A i \in 1..Len(w) : i = 1 /\ w[i] = current
        BY <1>1
    <2>2. Len(<<>>) = 0 /\ \A i \in 1..0 : FALSE
        OBVIOUS
    <2>3. a.last = 0 /\ a.baseline = None /\ ~IsCue(current) /\ MaxPending \in Nat
        BY <1>1, MaxPendingAssumption DEF NewAcceptance, IsCue
    <2> HIDE DEF w, a
    <2>4. PageTyped(p)'
        BY <1>1, <1>4, <1>5, <1>6, <2>1, SamePlace DEF PageTyped, w
    <2>5. WireOK(w, a, TRUE, channelSeq)
        BY <1>1, <2>1, <2>3 DEF WireOK
    <2>6. ShownOK(shown[p], w, Frontier)
        BY <1>1, <2>1, <2>3 DEF PageOK, ShownOK
    <2>7. SubOK(s, w, a, shown[p], channelSeq, current, channelSeq, Frontier)
        BY <1>1, <1>2, <2>1, <2>2, <2>3 DEF SubOK, SubPre, SentCursor
    <2>8. LaneAt(s, w, a, shown[p], channelSeq, current, channelSeq, Frontier)
        BY <2>5, <2>6, <2>7 DEF LaneAt
    <2>9. state'[p] \in Hearing
        BY <1>4 DEF Hearing
    <2> QED BY <1>3, <1>4, <1>5, <1>6, <2>4, <2>8, <2>9, SamePlace, HearingPage DEF w, a
<1> QED BY <1>6, <1>7, <1>8, OnePage

\* The page takes a message, and shows it if it is a cue of its picture.
LEMMA ReceivesKeeps ==
    ASSUME LaneIInv, NEW p \in Pages, Receives(p)
    PROVE  /\ LaneIInv'
           /\ shown'[p] = shown[p] \/ (shown'[p] = Append(shown[p], Head(wire[p]))
                                       /\ Head(wire[p]).seq > joined[p])
           /\ \A q \in Pages : q # p => shown'[q] = shown[q]
<1> DEFINE w == wire[p]
           a == acceptance[p]
           sh == shown[p]
           j == joined[p]
           f == Frontier
           m == Head(w)
           b == Accepted(a, m)
<1>1. /\ LaneOK /\ LaneTyped /\ PageOK(p) /\ PageTyped(p) /\ state[p] \in Hearing /\ w # <<>>
      /\ f \in Ids /\ current \in Messages /\ channelSeq \in Nat
    BY FrontierTyped DEF LaneIInv, PageOK, LaneOK, Receives, Hearing
<1>2. w \in Seq(Messages) /\ a \in Acceptances /\ sh \in Seq(Messages) /\ j \in Nat
    BY <1>1 DEF PageTyped
<1>3. WireOK(w, a, TRUE, j) /\ ShownOK(sh, w, f)
    <2>1. (state[p] \in Hearing) = TRUE
        BY <1>1
    <2> QED BY <1>1, <2>1 DEF PageOK
<1> HIDE DEF f
<1>4. /\ b \in Acceptances /\ b.last = m.seq /\ b.baseline # None /\ b.baseline.cursor = m.cursor
      /\ Verdict(a, m) \in {"baseline", "cue", "duplicate"}
      /\ Verdict(a, m) = "cue" => IsCue(m) /\ m.seq > j
      /\ WireOK(Tail(w), b, TRUE, j) /\ ShownOK(sh, Tail(w), f)
      /\ IsCue(m) => ShownOK(Append(sh, m), Tail(w), f)
    <2> HIDE DEF w, a, sh, j
    <2> QED BY <1>1, <1>2, <1>3, HearKeepsWire
<1>5. /\ m \in Messages /\ Tail(w) \in Seq(Messages)
    <2> HIDE DEF w
    <2> QED BY <1>1, <1>2, HeadTailProperties
<1>6. /\ wire' = [wire EXCEPT ![p] = Tail(@)]
      /\ state' = [state EXCEPT ![p] = IF Verdict(a, m) = "baseline" THEN "live" ELSE @]
      /\ acceptance' = [acceptance EXCEPT ![p] = b]
      /\ shown' = [shown EXCEPT ![p] = IF Verdict(a, m) = "cue" /\ FitsPicture(p, m)
                                       THEN Append(@, m) ELSE @]
      /\ UNCHANGED <<open, sub, runtimeVars, laneVars, picture, joined>>
    BY <1>4 DEF Receives
<1>7. /\ wire'[p] = Tail(w) /\ acceptance'[p] = b /\ sub'[p] = sub[p] /\ open'[p] = open[p]
      /\ state'[p] \in {state[p], "live"} /\ joined'[p] = j /\ picture'[p] = picture[p]
      /\ shown'[p] = sh \/ (shown'[p] = Append(sh, m) /\ IsCue(m) /\ m.seq > j)
    BY <1>1, <1>4, <1>6 DEF LaneTyped
<1>8. LaneTyped'
    BY <1>1, <1>6 DEF LaneTyped
<1>9. \A q \in Pages : q # p =>
        /\ sub'[q] = sub[q] /\ wire'[q] = wire[q] /\ open'[q] = open[q] /\ state'[q] = state[q]
        /\ acceptance'[q] = acceptance[q] /\ picture'[q] = picture[q]
        /\ joined'[q] = joined[q] /\ shown'[q] = shown[q]
    BY <1>1, <1>6 DEF LaneTyped
<1>10. state'[p] \in Hearing /\ (state'[p] \in Hearing) = TRUE /\ state'[p] # "connecting"
    BY <1>1, <1>7 DEF Hearing
<1>11. shown'[p] \in Seq(Messages)
    <2>1. Append(sh, m) \in Seq(Messages)
        <3> HIDE DEF sh, m
        <3> QED BY <1>2, <1>5
    <2> QED BY <1>2, <1>7, <2>1
<1>12. ShownOK(shown'[p], Tail(w), f)
    BY <1>4, <1>7
<1>13. PageTyped(p)'
    BY <1>1, <1>4, <1>5, <1>6, <1>7, <1>10, <1>11, SamePlace DEF PageTyped, Hearing
<1>14. ASSUME sub[p] # None
       PROVE  SubOK(sub[p], Tail(w), b, shown'[p], j, current, channelSeq, f)
    <2>1. LaneAt(sub[p], w, a, sh, j, current, channelSeq, f)
        BY <1>1, <1>14, PageHears DEF f
    <2> DEFINE v == shown'[p]
    <2>2. v \in Seq(Messages) /\ (v = sh \/ (IsCue(m) /\ v = Append(sh, m)))
        BY <1>7, <1>11
    <2> HIDE DEF v, w, a, sh, j, b
    <2>3. b.last = Head(w).seq /\ b.baseline # None /\ b.baseline.cursor = Head(w).cursor
          /\ b \in Acceptances
        BY <1>4
    <2>4. SubOK(sub[p], Tail(w), b, v, j, current, channelSeq, f)
        BY <1>1, <1>2, <2>1, <2>2, <2>3, HearKeeps
    <2> QED BY <2>4 DEF v
<1>15. PageOK(p)'
    <2>1. Frontier' = f /\ current' = current /\ channelSeq' = channelSeq
        BY <1>6, SamePlace DEF f
    <2>2. sub[p] # None => open[p]
        BY <1>1 DEF PageOK
    <2> HIDE DEF w, a, sh, j, b, m
    <2> QED BY <1>4, <1>7, <1>10, <1>12, <1>13, <1>14, <2>1, <2>2 DEF PageOK
<1>16. LaneIInv'
    BY <1>6, <1>8, <1>9, <1>15, OnePage
<1> QED BY <1>7, <1>9, <1>16

LEMMA WrittenKeeps ==
    ASSUME LaneIInv, NEW p \in Pages, Written(p)
    PROVE  LaneIInv'
<1> DEFINE t == Complete(sub[p])
           v == wire'[p]
<1>1. /\ LaneOK /\ LaneTyped /\ PageOK(p) /\ PageTyped(p) /\ Frontier \in Ids
      /\ current \in Messages /\ channelSeq \in Nat /\ IsBaseline(current) /\ current.seq <= channelSeq
      /\ sub[p] # None /\ sub[p].inFlight # None
    BY FrontierTyped DEF LaneIInv, PageOK, LaneOK, Written
<1>2. /\ wire[p] \in Seq(Messages) /\ acceptance[p] \in Acceptances /\ shown[p] \in Seq(Messages)
      /\ joined[p] \in Nat
    BY <1>1 DEF PageTyped
<1>3. LaneAt(sub[p], wire[p], acceptance[p], shown[p], joined[p], current, channelSeq, Frontier)
      /\ state[p] \in Hearing /\ open[p]
    BY <1>1, PageHears
<1>4. /\ sub'[p] = t /\ v = Wired(sub[p], t, wire[p]) /\ LaneTyped'
      /\ UNCHANGED <<runtimeVars, laneVars, open, state, acceptance, picture, joined, shown>>
    BY <1>1 DEF Written, Subscribers, LaneTyped, pageVars
<1>5. LaneAt(t, v, acceptance[p], shown[p], joined[p], current, channelSeq, Frontier)
    BY <1>1, <1>2, <1>3, <1>4, CompleteKeeps
<1>6. ASSUME NEW q \in Pages, q # p
      PROVE  /\ sub'[q] = sub[q] /\ wire'[q] = wire[q] /\ open'[q] = open[q] /\ state'[q] = state[q]
             /\ acceptance'[q] = acceptance[q] /\ picture'[q] = picture[q]
             /\ joined'[q] = joined[q] /\ shown'[q] = shown[q]
    <2>1. sub'[q] = sub[q] /\ wire'[q] = Wired(sub[q], sub[q], wire[q])
        BY <1>1, <1>6 DEF Written, LaneTyped, Subscribers
    <2> QED BY <1>4, <2>1 DEF Wired
<1> HIDE DEF t, v
<1>7. v \in Seq(Messages)
    BY <1>2, <1>4, <1>5, WiredIsTyped DEF LaneAt, SubOK, SubPre
<1>8. PageTyped(p)'
    BY <1>1, <1>4, <1>7, SamePlace DEF PageTyped, v
<1>9. PageOK(p)'
    BY <1>3, <1>4, <1>5, <1>8, SamePlace, HearingPage DEF v
<1> QED BY <1>4, <1>6, <1>9, OnePage

LEMMA TimePassesKeeps ==
    ASSUME LaneIInv, NEW p \in Pages, TimePasses(p)
    PROVE  LaneIInv'
<1>1. /\ LaneTyped /\ PageOK(p) /\ PageTyped(p) /\ sub[p] # None
      /\ sub[p] \in Subscriber /\ SubOK(sub[p], wire[p], acceptance[p], shown[p], joined[p], current,
                                        channelSeq, Frontier)
    BY DEF LaneIInv, PageOK, TimePasses, SubOK, SubPre
<1>2. PICK n \in (sub[p].late + 1)..Len(sub[p].queue) : sub' = [sub EXCEPT ![p].late = n]
    BY DEF TimePasses
<1> DEFINE s == sub[p]
           t == sub'[p]
<1>3. n \in Nat /\ n <= Len(s.queue)
    BY <1>1 DEF Subscriber
<1>4. t = [s EXCEPT !.late = n]
    BY <1>1, <1>2 DEF LaneTyped
<1> HIDE DEF t, s
<1>5. /\ t \in Subscriber /\ t.inFlight = s.inFlight /\ t.reset = s.reset /\ t.queue = s.queue
      /\ t.late = n
    BY <1>1, <1>3, <1>4 DEF Subscriber, s
<1>6. SubOK(t, wire[p], acceptance[p], shown[p], joined[p], current, channelSeq, Frontier)
    <2>1. \A m : Ahead(s, wire[p], acceptance[p], m) => Ahead(t, wire[p], acceptance[p], m)
        BY <1>5 DEF Ahead
    <2>2. \A m : QueuedOK(s, wire[p], acceptance[p], shown[p], joined[p], current, channelSeq,
                          Frontier, m)
              => QueuedOK(t, wire[p], acceptance[p], shown[p], joined[p], current, channelSeq,
                          Frontier, m)
        BY <1>5, <2>1 DEF QueuedOK
    <2> QED BY <1>1, <1>3, <1>5, <2>1, <2>2 DEF SubOK, SubPre, s
<1>7. LaneTyped' /\ UNCHANGED <<runtimeVars, laneVars, wire, open, pageVars>>
    BY <1>1, <1>2 DEF TimePasses, LaneTyped, pageVars
<1>8. \A q \in Pages : q # p =>
        /\ sub'[q] = sub[q] /\ wire'[q] = wire[q] /\ open'[q] = open[q] /\ state'[q] = state[q]
        /\ acceptance'[q] = acceptance[q] /\ picture'[q] = picture[q]
        /\ joined'[q] = joined[q] /\ shown'[q] = shown[q]
    BY <1>1, <1>2, <1>7 DEF LaneTyped, pageVars
<1>9. PageTyped(p)'
    BY <1>1, <1>7, SamePlace DEF PageTyped, pageVars
<1>10. PageOK(p)'
    BY <1>1, <1>6, <1>7, <1>9, SamePlace DEF PageOK, pageVars, t
<1> QED BY <1>7, <1>8, <1>10, OnePage

LEMMA BreakKeeps ==
    ASSUME LaneIInv, NEW p \in Pages, Break(p)
    PROVE  LaneIInv'
<1>1. LaneTyped /\ PageOK(p) /\ PageTyped(p)
    BY DEF LaneIInv, PageOK
<1>2. /\ open'[p] = FALSE /\ sub'[p] = None /\ LaneTyped'
      /\ UNCHANGED <<runtimeVars, laneVars, wire, pageVars>>
    BY <1>1 DEF Break, LaneTyped, pageVars
<1>3. \A q \in Pages : q # p =>
        /\ sub'[q] = sub[q] /\ wire'[q] = wire[q] /\ open'[q] = open[q] /\ state'[q] = state[q]
        /\ acceptance'[q] = acceptance[q] /\ picture'[q] = picture[q]
        /\ joined'[q] = joined[q] /\ shown'[q] = shown[q]
    BY <1>1 DEF Break, LaneTyped, pageVars
<1>4. PageTyped(p)'
    BY <1>1, <1>2, SamePlace DEF PageTyped, pageVars
<1>5. PageOK(p)'
    BY <1>1, <1>2, <1>4, SamePlace DEF PageOK, pageVars
<1> QED BY <1>2, <1>3, <1>5, OnePage

\* The companion starts again: its pages hear what was on its way to them, and no more.
LEMMA RestartKeeps ==
    ASSUME LaneIInv, Restart
    PROVE  LaneIInv'
<1> DEFINE r == [producer |-> Runtime.producer + 1, context |-> 0, generation |-> 0]
<1>1. LaneOK /\ LaneTyped /\ Frontier \in Ids /\ Runtime \in RuntimeMoment
      /\ moments \in Seq(RuntimeMoment)
    BY FrontierTyped DEF LaneIInv, LaneOK, RuntimeMoment
<1>2. r \in RuntimeMoment /\ r.producer = Runtime.producer + 1 /\ r.context = 0 /\ r.generation = 0
    BY <1>1 DEF RuntimeMoment
<1>3. /\ moments' = Append(moments, r)
      /\ source' = [state |-> "connecting", generation |-> 0, sequence |-> 0]
      /\ observed' = <<0, 0>> /\ lastState' = "connecting" /\ rebased' = 0
      /\ current' = Message(1, Cursor(r, 0), 0) /\ channelSeq' = 1
      /\ sub' = [p \in Pages |-> None] /\ open' = [p \in Pages |-> FALSE]
      /\ UNCHANGED <<wire, pageVars>>
    BY DEF Restart
<1> HIDE DEF r
<1>4. moments' \in Seq(RuntimeMoment) /\ moments' # <<>> /\ moments'[Len(moments')] = r
      /\ Len(moments) \in Nat /\ Len(moments') = Len(moments) + 1
    BY <1>1, <1>2, <1>3
<1>5. Runtime' = r
    BY <1>4 DEF Runtime, Last
<1>6. LaneOK'
    <2>1. current' \in Messages /\ IsBaseline(current') /\ current'.seq = 1
          /\ current'.cursor = Cursor(r, 0)
        BY <1>2, <1>3 DEF Message, Messages, IsBaseline, Cursor, RuntimeMoment
    <2>2. BaselineIsCurrent'
        BY <1>2, <1>3, <1>5, <2>1 DEF BaselineIsCurrent
    <2>3. source' \in [state : {"connecting", "live", "reconnecting"},
                       generation : 0..MaxGenerations, sequence : 0..MaxEvents]
        BY <1>3, LaneBounds
    <2>4. moments' \in Seq([producer : Nat, context : Nat, generation : Nat]) /\ moments' # <<>>
        BY <1>4 DEF RuntimeMoment
    <2>5. /\ observed' \in Nat \X Nat /\ rebased' \in Nat /\ channelSeq' = 1
          /\ lastState' \in {"connecting", "live", "reconnecting"}
        BY <1>3
    <2> QED BY <2>1, <2>2, <2>3, <2>4, <2>5 DEF LaneOK, IsBaseline
<1>7. LaneTyped'
    BY <1>1, <1>3 DEF LaneTyped, pageVars
<1>8. Frontier' \in Ids /\ NoLater(Frontier, Frontier')
    <2>1. Frontier' = <<Runtime.producer + 1, 0, 0>> /\ Runtime.producer \in Nat
        BY <1>1, <1>2, <1>3, <1>5 DEF Frontier, RuntimeMoment
    <2> QED BY <2>1 DEF Frontier, Ids, NoLater, Before
<1>9. ASSUME NEW p \in Pages PROVE PageOK(p)'
    <2>1. PageOK(p) /\ PageTyped(p)
        BY DEF LaneIInv, PageOK
    <2>2. wire[p] \in Seq(Messages) /\ shown[p] \in Seq(Messages)
        BY <2>1 DEF PageTyped
    <2>3. sub'[p] = None /\ open'[p] = FALSE
        BY <1>3
    <2>4. PageTyped(p)'
        BY <1>3, <1>4, <2>1, <2>3 DEF PageTyped, pageVars
    <2>5. ShownOK(shown[p], wire[p], Frontier')
        BY <1>1, <1>8, <2>1, <2>2, ShownStays DEF PageOK
    <2> QED BY <1>3, <2>1, <2>3, <2>4, <2>5 DEF PageOK, pageVars
<1> QED BY <1>6, <1>7, <1>9 DEF LaneIInv

LEMMA LaneStutters ==
    ASSUME LaneIInv, UNCHANGED vars
    PROVE  LaneIInv'
<1>1. LaneOK' /\ LaneTyped' /\ UNCHANGED <<runtimeVars, laneVars>>
    BY DEF LaneIInv, LaneOK, LaneTyped, BaselineIsCurrent, Runtime, vars, runtimeVars, laneVars,
           connVars, pageVars
<1>2. ASSUME NEW p \in Pages PROVE PageOK(p)'
    <2>1. PageOK(p) /\ LaneOK
        BY DEF LaneIInv
    <2> QED BY <1>1, <2>1, PageStays DEF vars, connVars, pageVars, laneVars
<1> QED BY <1>1, <1>2 DEF LaneIInv

LEMMA LaneNext == LaneIInv /\ [Next]_vars => LaneIInv'
<1> SUFFICES ASSUME LaneIInv, [Next]_vars PROVE LaneIInv'
    OBVIOUS
<1>1. CASE ContextChanges \/ TelemetryRestarts
    <2>1. /\ [Runtime EXCEPT !.context = @ + 1] \in RuntimeMoment
          /\ [Runtime EXCEPT !.generation = @ + 1] \in RuntimeMoment
          /\ [Runtime EXCEPT !.context = @ + 1].producer = Runtime.producer
          /\ [Runtime EXCEPT !.generation = @ + 1].producer = Runtime.producer
        <3>1. Runtime \in RuntimeMoment
            BY FrontierTyped DEF LaneIInv, RuntimeMoment
        <3> QED BY <3>1 DEF RuntimeMoment
    <2> QED BY <1>1, <2>1, RuntimeMovesKeeps DEF ContextChanges, TelemetryRestarts
<1>2. CASE SourceGoesLive \/ SourceDrops \/ SourceReconnects
    <2> DEFINE T == [state : {"connecting", "live", "reconnecting"},
                     generation : 0..MaxGenerations, sequence : 0..MaxEvents]
    <2>1. source \in T /\ source.generation \in Nat
        BY FrontierTyped DEF LaneIInv, LaneOK
    <2>2. /\ [source EXCEPT !.state = "live"] \in T /\ [source EXCEPT !.state = "reconnecting"] \in T
          /\ \A x \in {"live", "reconnecting"} :
                /\ [source EXCEPT !.state = x].generation = source.generation
                /\ [source EXCEPT !.state = x].sequence = source.sequence
        BY <2>1
    <2>3. CASE SourceGoesLive \/ SourceDrops
        BY <2>1, <2>2, <2>3, SourceBecomesKeeps DEF SourceGoesLive, SourceDrops
    <2>4. CASE SourceReconnects
        <3> DEFINE x == [state |-> "connecting", generation |-> source.generation + 1, sequence |-> 0]
        <3>1. x \in T /\ x.generation = source.generation + 1 /\ SourceBecomes(x)
            BY <2>1, <2>4, LaneBounds DEF SourceReconnects
        <3> HIDE DEF x
        <3>2. source.generation <= x.generation /\ x.generation # source.generation
            BY <2>1, <3>1
        <3> QED BY <3>1, <3>2, SourceBecomesKeeps
    <2> QED BY <1>2, <2>3, <2>4
<1>3. CASE Restart
    BY <1>3, RestartKeeps
<1>4. CASE \E projects \in BOOLEAN : Observe(projects)
    BY <1>4, ObserveKeeps
<1>5. ASSUME NEW p \in Pages, PageStep(p) \/ Written(p) \/ TimePasses(p) \/ Break(p)
      PROVE  LaneIInv'
    BY <1>5, ConnectKeeps, AttachKeeps, ReceivesKeeps, SeesCloseKeeps, SeesSnapshotKeeps,
       WrittenKeeps,
       TimePassesKeeps, BreakKeeps DEF PageStep
<1>6. CASE UNCHANGED vars
    BY <1>6, LaneStutters
<1> QED BY <1>1, <1>2, <1>3, <1>4, <1>5, <1>6 DEF Next

LEMMA LaneIInvImpliesLaneInv == LaneIInv => LaneInv
<1> SUFFICES ASSUME LaneIInv PROVE LaneInv
    OBVIOUS
<1>1. LaneOK /\ \A p \in Pages : PageOK(p) /\ PageTyped(p)
    BY DEF LaneIInv, PageOK
<1>2. TypeOK
    <2>1. ASSUME NEW p \in Pages
          PROVE  /\ sub[p] = None \/ (sub[p] \in Subscriber
                                      /\ sub[p].late <= Len(sub[p].queue)
                                      /\ Len(sub[p].queue) <= MaxPending)
                 /\ wire[p] \in Seq(Messages) /\ open[p] \in BOOLEAN
                 /\ state[p] \in {"idle", "connecting", "awaiting-baseline", "live",
                                  "reconnecting", "protocol-error"}
                 /\ acceptance[p].baseline \in Messages \cup {None} /\ acceptance[p].last \in Nat
                 /\ picture[p] \in 0..Len(moments) /\ joined[p] \in Nat
                 /\ shown[p] \in Seq(Messages)
        <3>1. PageOK(p) /\ PageTyped(p)
            BY <1>1
        <3>2. acceptance[p].baseline \in Messages \cup {None} /\ acceptance[p].last \in Nat
            BY <3>1 DEF PageTyped, Acceptances
        <3> QED BY <3>1, <3>2 DEF PageOK, PageTyped, SubOK, SubPre
    <2> QED BY <1>1, <2>1 DEF LaneOK, TypeOK
<1>3. CuesOnceInOrder
    <2>1. ASSUME NEW p \in Pages, NEW i \in DOMAIN shown[p], NEW k \in DOMAIN shown[p], i < k
          PROVE  Before(CueId(shown[p][i]), CueId(shown[p][k]))
        <3>1. shown[p] \in Seq(Messages) /\ ShownOK(shown[p], wire[p], Frontier)
            BY <1>1 DEF PageOK, PageTyped
        <3>2. DOMAIN shown[p] = 1..Len(shown[p])
            BY <3>1
        <3> QED BY <2>1, <3>1, <3>2 DEF ShownOK
    <2> QED BY <2>1 DEF CuesOnceInOrder
<1>4. NeverProtocolError
    BY <1>1 DEF PageTyped, NeverProtocolError
<1> QED BY <1>1, <1>2, <1>3, <1>4 DEF LaneInv, LaneOK

\* A cue that a page emits was published after it subscribed.
LEMMA EmitsNewCues ==
    ASSUME LaneIInv, [Next]_vars, NEW p \in Pages, shown'[p] # shown[p]
    PROVE  Last(shown'[p]).seq > joined[p]
<1>1. PageOK(p) /\ PageTyped(p) /\ LaneTyped
    BY DEF LaneIInv, PageOK
<1>2. CASE \E q \in Pages : Receives(q)
    <2>1. PICK q \in Pages : Receives(q)
        BY <1>2
    <2>2. q = p /\ wire[p] # <<>>
        BY <2>1, ReceivesKeeps DEF Receives
    <2> DEFINE m == Head(wire[p])
    <2>3. m \in Messages /\ shown'[p] = Append(shown[p], m) /\ m.seq > joined[p]
          /\ shown[p] \in Seq(Messages)
        BY <1>1, <2>1, <2>2, ReceivesKeeps, HeadTailProperties DEF PageTyped
    <2> HIDE DEF m
    <2>4. shown'[p][Len(shown'[p])] = m
        BY <2>3
    <2> QED BY <2>3, <2>4 DEF Last
<1>3. CASE ~(\E q \in Pages : Receives(q))
    <2>1. UNCHANGED shown
        BY <1>3 DEF Next, vars, pageVars, PageStep, ContextChanges, TelemetryRestarts, RuntimeMoves,
              Restart, SourceGoesLive, SourceDrops, SourceReconnects, SourceBecomes, Observe,
              Connect, Attach, SeesClose, SeesSnapshot, Written, TimePasses, Break
    <2> QED BY <2>1
<1> QED BY <1>2, <1>3

\* A page emits each cue at most once and in the order of the broadcast, no rejection ends a page's
\* lane, the baseline names the runtime and the source of the next cue, and no queue exceeds its limit
\* (program-cue-publisher.ts drain, offerBaseline, offerCue; program-cue-acceptance.ts acceptProgramCue;
\* program-cue-coordinator.ts handleObservation): for every number of pages, faults and queued cues.
THEOREM CuesAreSound == Spec => []LaneInv
<1>1. Init => LaneIInv
    BY LaneInit
<1>2. LaneIInv /\ [Next]_vars => LaneIInv'
    BY LaneNext
<1>3. LaneIInv => LaneInv
    BY LaneIInvImpliesLaneInv
<1> QED BY <1>1, <1>2, <1>3, PTL DEF Spec

\* A page emits nothing that was published before it subscribed (program-cue-publisher.ts attach: the
\* first message of a subscription is the current baseline, whatever was sent before it).
THEOREM NothingIsReplayed == Spec => NoReplay
<1>1. Init => LaneIInv
    BY LaneInit
<1>2. LaneIInv /\ [Next]_vars => LaneIInv'
    BY LaneNext
<1>3. LaneIInv /\ [Next]_vars =>
         [\A p \in Pages : shown'[p] # shown[p] => Last(shown'[p]).seq > joined[p]]_vars
    BY EmitsNewCues
<1> QED BY <1>1, <1>2, <1>3, PTL DEF Spec, NoReplay
=============================================================================
