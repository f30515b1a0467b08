--------------------------- MODULE StaleDeadline ---------------------------
(***************************************************************************)
(* The deadlines of the picture (projection-coordinator.ts,                *)
(* scheduleStaleDeadline and handleStaleDeadline): a frame is published    *)
(* when it comes, and one timer sees to it that the picture is published   *)
(* again when the bomb's clock may no longer run on and when the frame     *)
(* has become stale, although nothing comes any more.                      *)
(*                                                                         *)
(* A frame is its number, when it came and whether it has a running        *)
(* clock.  The timer may fire early by as much as clocks differ, and late  *)
(* by any time.                                                            *)
(***************************************************************************)
EXTENDS Integers

CONSTANTS
    StaleAfter,         \* policy.staleAfterMs
    Leases,             \* what policy.objectiveClockLeaseMs may be
    Horizon,            \* the time at which the exploration ends
    MaxFramesShown,     \* accepted frames
    NoTimer

ASSUME StaleAssumption ==
    /\ StaleAfter \in Nat /\ Leases \subseteq Nat \ {0}
    /\ Horizon \in Nat /\ MaxFramesShown \in Nat

\* No timer is none of the timers.
ASSUME NoTimerAssumption == NoTimer \notin [number : Nat, deadline : Nat, due : Nat]

VARIABLES
    time,
    lease,
    held,               \* the telemetry the runtime holds: [number, at, clock], number 0 if none
    pictureTimer,       \* staleTimer: [number, deadline, due], or NoTimer
    stalePublished,     \* stalePublishedKey, 0 if undefined
    suppressed,         \* staleSuppressedUntilNewFrame
    pictured,           \* of current.program: [number, status, clock]
    framesShown,        \* frames so far
    timerRefreshes      \* no variable of the program: refreshes by the timer for this frame

staleVars == <<time, lease, held, pictureTimer, stalePublished, suppressed, pictured, framesShown,
               timerRefreshes>>

NoHeld == [number |-> 0, at |-> 0, clock |-> FALSE]

Earlier(a, b) == IF a < b THEN a ELSE b
Later(a, b) == IF a > b THEN a ELSE b

-----------------------------------------------------------------------------
(* Publication *)

Status(h) ==
    IF h.number = 0 THEN "awaiting" ELSE IF time - h.at > StaleAfter THEN "stale" ELSE "fresh"

ClockRuns(h) == h.clock /\ Status(h) = "fresh" /\ time - h.at <= lease

\* A deadline of the frame h: armed anew unless this one is armed already.
ArmedFor(t, h, deadline) ==
    IF t # NoTimer /\ t.number = h.number /\ t.deadline = deadline THEN t
    ELSE [number |-> h.number, deadline |-> deadline, due |-> Later(time, deadline)]

\* scheduleStaleDeadline: the timer t becomes what the picture of h, just published, needs.
Scheduled(t, h, isSuppressed, published) ==
    LET stale == h.at + StaleAfter
        over == h.at + lease
        already == published = h.number
    IN IF h.number = 0 \/ isSuppressed THEN NoTimer
       ELSE IF already /\ time >= stale /\ (ClockRuns(h) => time >= over) THEN NoTimer
       ELSE ArmedFor(t, h, IF ~ClockRuns(h) THEN stale
                           ELSE IF already THEN over ELSE Earlier(stale, over))

\* refresh, with the timer t, after h, isSuppressed and published have become so.
Refreshed(t, h, isSuppressed, published) ==
    /\ pictured' = [number |-> h.number, status |-> Status(h), clock |-> ClockRuns(h)]
    /\ pictureTimer' = Scheduled(t, h, isSuppressed, published)
    /\ held' = h
    /\ suppressed' = isSuppressed
    /\ stalePublished' = IF h.number = 0 THEN 0 ELSE published

-----------------------------------------------------------------------------
(* What happens *)

StaleInit ==
    /\ time = 0
    /\ lease \in Leases
    /\ held = NoHeld
    /\ pictureTimer = NoTimer
    /\ stalePublished = 0
    /\ suppressed = FALSE
    /\ pictured = [number |-> 0, status |-> "awaiting", clock |-> FALSE]
    /\ framesShown = 0
    /\ timerRefreshes = 0

\* afterRuntimeMutation with an accepted frame.  The exploration leaves it the time to become
\* stale.
FrameIsShown(clock) ==
    /\ framesShown < MaxFramesShown
    /\ time + StaleAfter + 2 <= Horizon
    /\ framesShown' = framesShown + 1
    /\ Refreshed(pictureTimer, [number |-> framesShown + 1, at |-> time, clock |-> clock], FALSE,
                 stalePublished)
    /\ timerRefreshes' = 0
    /\ UNCHANGED <<time, lease>>

\* afterRuntimeMutation with the reset of the map execution or an advance of the generation.
TelemetryIsCleared ==
    /\ held.number # 0
    /\ Refreshed(NoTimer, NoHeld, TRUE, 0)
    /\ timerRefreshes' = 0
    /\ UNCHANGED <<time, lease, framesShown>>

\* refresh for another reason: the context, an operator's command.
RefreshedForAnotherReason ==
    /\ Refreshed(pictureTimer, held, suppressed, stalePublished)
    /\ UNCHANGED <<time, lease, framesShown, timerRefreshes>>

\* handleStaleDeadline, when it is not yet past the deadline: clocks differ by one unit.
DeadlineIsNotYetPast ==
    /\ pictureTimer # NoTimer
    /\ time + 1 >= pictureTimer.due /\ time <= pictureTimer.deadline
    /\ pictureTimer' = [pictureTimer EXCEPT !.due = pictureTimer.deadline + 1]
    /\ UNCHANGED <<time, lease, held, stalePublished, suppressed, pictured, framesShown, timerRefreshes>>

\* Mutant: the first deadline says that the frame is stale, whichever deadline it is.
DeadlineIsPastAtOnce ==
    /\ pictureTimer # NoTimer
    /\ time >= pictureTimer.due /\ time > pictureTimer.deadline
    /\ Refreshed(NoTimer, held, suppressed, held.number)
    /\ timerRefreshes' = timerRefreshes + 1
    /\ UNCHANGED <<time, lease, framesShown>>

\* handleStaleDeadline past the deadline: first the clock is taken off the picture, and only a
\* deadline that finds no such clock says that the frame is stale.
DeadlineIsPast ==
    /\ pictureTimer # NoTimer
    /\ time >= pictureTimer.due /\ time > pictureTimer.deadline
    /\ IF pictured.clock /\ time > held.at + lease
       THEN Refreshed(NoTimer, held, suppressed, stalePublished)
       ELSE Refreshed(NoTimer, held, suppressed, held.number)
    /\ timerRefreshes' = timerRefreshes + 1
    /\ UNCHANGED <<time, lease, framesShown>>

MomentPasses ==
    /\ time < Horizon
    /\ time' = time + 1
    /\ UNCHANGED <<lease, held, pictureTimer, stalePublished, suppressed, pictured, framesShown,
                   timerRefreshes>>

StaleNext ==
    \/ \E clock \in BOOLEAN : FrameIsShown(clock)
    \/ TelemetryIsCleared
    \/ RefreshedForAnotherReason
    \/ DeadlineIsNotYetPast
    \/ DeadlineIsPast
    \/ MomentPasses

\* A timer that is due fires, and time goes on; nothing is assumed of frames.
StaleFairness ==
    WF_staleVars(DeadlineIsNotYetPast) /\ WF_staleVars(DeadlineIsPast) /\ WF_staleVars(MomentPasses)

StaleSpec == StaleInit /\ [][StaleNext]_staleVars /\ StaleFairness

-----------------------------------------------------------------------------
(* Properties *)

\* The picture is of the frame the runtime holds.  As long as it says that this frame is fresh a
\* timer will look at it no later than one unit after that ends, and as long as it shows a running
\* clock no later than one unit after the lease.
FreshnessIsWatched ==
    /\ pictured.number = held.number
    /\ pictured.status = "fresh" =>
          /\ pictureTimer # NoTimer
          /\ pictureTimer.number = held.number
          /\ pictureTimer.due <= held.at + StaleAfter + 1
    /\ pictured.clock =>
          pictureTimer.due <= held.at + Earlier(lease, StaleAfter) + 1

\* A source that is silent leaves the companion quiet: a frame is published again at most twice,
\* once for its clock and once because it is stale, and then no timer is armed any more.  A timer
\* is never that of another frame, or of one already marked stale: what handleStaleDeadline does
\* then (lines 659-662 and 686) is unreachable.
SilenceIsQuiet ==
    /\ timerRefreshes <= 2
    /\ pictureTimer # NoTimer => pictureTimer.number = held.number
    /\ held.number # 0 /\ stalePublished = held.number =>
          pictureTimer = NoTimer /\ pictured.status = "stale"
    /\ held.number = 0 => pictureTimer = NoTimer

\* Once the picture of a frame was stale, or without its clock, nothing but another frame makes it
\* fresh again or lets the clock run.
StaleStaysStale ==
    [][pictured'.number = pictured.number =>
          /\ pictured.status = "stale" => pictured'.status = "stale"
          /\ ~pictured.clock => ~pictured'.clock]_staleVars

\* A frame nothing follows is shown as stale in the end.
SilenceIsShown ==
    \A n \in 1..MaxFramesShown :
        pictured.number = n ~> (pictured.status = "stale" \/ pictured.number # n)

PictureTellsItsAge == [](FreshnessIsWatched /\ SilenceIsQuiet) /\ StaleStaysStale /\ SilenceIsShown
=============================================================================
