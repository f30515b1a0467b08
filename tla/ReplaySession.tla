------------------------------ MODULE ReplaySession ------------------------------
(***************************************************************************)
(* A replay of a recorded match (packages/replay/src/session.ts): a cursor*)
(* over frames, played by a timer that follows a clock, or moved by a seek*)
(* that rebuilds a frame and may be overtaken by the next one.           *)
(*                                                                       *)
(* Frames are one unit of time apart, and the timeline counts in frames. *)
(* Left out: the events, the speed, the presentation revision.           *)
(***************************************************************************)
EXTENDS Integers

CONSTANTS LastFrame, MaxSeeks, MaxPlays   \* the last two are bounds

ASSUME ReplayAssumption == LastFrame \in Nat
ASSUME ReplayBounds == {MaxSeeks, MaxPlays} \subseteq Nat

VARIABLES
    cursor,      \* [index, playing, seeking, failed, disposed]: the snapshot
    seekNumber,  \* generation
    rebuilds,    \* the seeks whose rebuild is under way: [number, target]
    timers,      \* how many timers are set
    timeline,    \* [at, due]: the frame the playback clock has come to, and the timer waits for
    asked,       \* [by, target]: what the cursor follows; no variable of the program
    playCount    \* for the bound

replayVars == <<cursor, seekNumber, rebuilds, timers, timeline, asked, playCount>>

ReplayFrames == 0..LastFrame

ReplayInit ==
    /\ cursor = [index |-> 0, playing |-> FALSE, seeking |-> FALSE, failed |-> FALSE,
                 disposed |-> FALSE]
    /\ seekNumber = 0 /\ rebuilds = {}
    /\ timers = 0 /\ timeline = [at |-> 0, due |-> 0]
    /\ asked = [by |-> "none", target |-> 0]
    /\ playCount = 0

CancelTimer == timers' = 0

Play ==
    /\ ~cursor.disposed /\ cursor.index < LastFrame /\ ~cursor.playing
    /\ playCount < MaxPlays /\ playCount' = playCount + 1
    /\ cursor' = [cursor EXCEPT !.playing = TRUE, !.failed = FALSE]
    /\ timers' = timers + 1
    /\ timeline' = [at |-> cursor.index, due |-> cursor.index + 1]
    /\ asked' = [asked EXCEPT !.by = "clock"]
    /\ UNCHANGED <<seekNumber, rebuilds>>

Pause ==
    /\ ~cursor.disposed /\ cursor.playing
    /\ CancelTimer
    /\ cursor' = [cursor EXCEPT !.playing = FALSE]
    /\ UNCHANGED <<seekNumber, rebuilds, timeline, asked, playCount>>

ClockAdvances ==
    /\ cursor.playing /\ timeline.at < LastFrame
    /\ timeline' = [timeline EXCEPT !.at = @ + 1]
    /\ UNCHANGED <<cursor, seekNumber, rebuilds, timers, asked, playCount>>

\* The callback of scheduleNextFrame: late, it skips frames.
FrameIsDue ==
    /\ timers > 0 /\ timeline.at >= timeline.due
    /\ LET target == IF timeline.at > cursor.index THEN timeline.at ELSE cursor.index
           goesOn == cursor.playing /\ target < LastFrame
       IN  /\ cursor' = IF cursor.playing
                        THEN [cursor EXCEPT !.index = target, !.playing = goesOn] ELSE cursor
           /\ timeline' = IF goesOn THEN [timeline EXCEPT !.due = target + 1] ELSE timeline
           /\ timers' = IF goesOn THEN timers ELSE timers - 1
    /\ UNCHANGED <<seekNumber, rebuilds, asked, playCount>>

\* seekCaptureIndex, and what ends in it: restart, the seeks to a time or an event, the steps.
Seek(target) ==
    /\ ~cursor.disposed /\ seekNumber < MaxSeeks
    /\ seekNumber' = seekNumber + 1
    /\ rebuilds' = rebuilds \cup {[number |-> seekNumber', target |-> target]}
    /\ CancelTimer
    /\ cursor' = [cursor EXCEPT !.playing = FALSE, !.seeking = TRUE, !.failed = FALSE]
    /\ asked' = [by |-> "seek", target |-> target]
    /\ UNCHANGED <<timeline, playCount>>

\* Mutant: a rebuild that was overtaken is shown.
RebuildEndsAnyway(seek) ==
    /\ rebuilds' = rebuilds \ {seek}
    /\ cursor' = [cursor EXCEPT !.index = seek.target, !.seeking = FALSE]
    /\ UNCHANGED <<seekNumber, timers, timeline, asked, playCount>>

\* The rebuilt frame is there, or the rebuild failed (an aborted one may do either).
RebuildEnds(seek) ==
    /\ rebuilds' = rebuilds \ {seek}
    /\ IF cursor.disposed \/ seek.number # seekNumber
       THEN UNCHANGED cursor
       ELSE \/ cursor' = [cursor EXCEPT !.index = seek.target, !.seeking = FALSE]
            \/ cursor' = [cursor EXCEPT !.seeking = FALSE, !.failed = TRUE]
    /\ UNCHANGED <<seekNumber, timers, timeline, asked, playCount>>

\* abort
AbortSeek ==
    /\ ~cursor.disposed /\ seekNumber < MaxSeeks
    /\ seekNumber' = seekNumber + 1
    /\ CancelTimer
    /\ cursor' = [cursor EXCEPT !.playing = FALSE, !.seeking = FALSE]
    /\ asked' = [asked EXCEPT !.by = "none"]
    /\ UNCHANGED <<rebuilds, timeline, playCount>>

\* dispose; the snapshot that is left has no frame.
Dispose ==
    /\ ~cursor.disposed
    /\ seekNumber' = seekNumber + 1
    /\ CancelTimer
    /\ cursor' = [index |-> -1, playing |-> FALSE, seeking |-> FALSE, failed |-> FALSE,
                  disposed |-> TRUE]
    /\ UNCHANGED <<rebuilds, timeline, asked, playCount>>

ReplayNext ==
    \/ Play \/ Pause \/ ClockAdvances \/ FrameIsDue \/ AbortSeek \/ Dispose
    \/ \E target \in ReplayFrames : Seek(target)
    \/ \E seek \in rebuilds : RebuildEnds(seek)

\* Time goes on and the timer fires.
ReplaySpec == ReplayInit /\ [][ReplayNext]_replayVars

-----------------------------------------------------------------------------
(* Properties *)

\* Types, and: a playing session has exactly one timer, any other has none, however plays,
\* pauses and seeks follow each other; and a seek the page waits for is under way.
ReplayTypeOK ==
    /\ IF cursor.disposed THEN cursor.index = -1 ELSE cursor.index \in ReplayFrames
    /\ timers = IF cursor.playing THEN 1 ELSE 0
    /\ cursor.seeking => \E seek \in rebuilds : seek.number = seekNumber

\* When the last of overlapping seeks is over, its frame is shown or it says that it failed:
\* no rebuild that was overtaken comes after it (session.ts:150, 164).
LastSeekDecides ==
    asked.by = "seek" /\ ~cursor.seeking /\ ~cursor.failed /\ ~cursor.disposed
        => cursor.index = asked.target

\* A session that was disposed is at no frame again, although rebuilds end in it later
\* (session.ts:209-224): ReplayTypeOK says so of its index.
ReplayInv == ReplayTypeOK /\ LastSeekDecides
=============================================================================
