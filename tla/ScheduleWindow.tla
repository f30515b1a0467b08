----------------------------- MODULE ScheduleWindow -----------------------------
(***************************************************************************)
(* The schedule of the coming matches for one requested window of time:    *)
(* match-context/schedule-window-controller.ts over its durable copy in    *)
(* schedule-window-store.ts.  Refreshes overlap; each commits, or falls    *)
(* back to what is known, as a job of one serial queue.                    *)
(*                                                                         *)
(* A loaded schedule is told apart by the generation of the refresh that   *)
(* loaded it.  Left out: the text of the diagnostics, a file that cannot   *)
(* be parsed (it counts as absent), and a restart, which only forgets the  *)
(* memory.                                                                 *)
(***************************************************************************)
EXTENDS Integers, Sequences

CONSTANTS
    ScheduleRequests,      \* competition and window: ScheduleWindowRequest
    MaxGenerations         \* bound on refreshes and clearings together

ASSUME ScheduleAssumption == MaxGenerations \in Nat

VARIABLES
    shownWindow,        \* currentBinding: [request, fresh, made], or NoWindow
    refreshGeneration,
    refreshes,          \* by generation: [request, stage]
    refreshQueue,       \* commitQueue: the generations with a job, in order
    windowFile,         \* the durable copy: [request, made], or NoFile
    wantedRequest       \* what was last asked for and not cleared, or NotAsked; no variable
                        \* of the program

scheduleVars == <<shownWindow, refreshGeneration, refreshes, refreshQueue, windowFile,
                  wantedRequest>>

NoWindow == [made |-> 0]
NoFile == [made |-> -1]
NotAsked == "not asked"

Generations == 1..MaxGenerations
NotStarted == [stage |-> "not started"]
JobStages == {"commit", "writing", "written", "not written", "fallback", "reading"}

ScheduleInit ==
    /\ shownWindow = NoWindow
    /\ refreshGeneration = 0
    /\ refreshes = [g \in Generations |-> NotStarted]
    /\ refreshQueue = <<>>
    /\ windowFile = NoFile
    /\ wantedRequest = NotAsked

-----------------------------------------------------------------------------
(* Requests *)

\* clearCurrent
ClearCurrent ==
    /\ refreshGeneration < MaxGenerations
    /\ refreshGeneration' = refreshGeneration + 1
    /\ shownWindow' = NoWindow
    /\ wantedRequest' = NotAsked
    /\ UNCHANGED <<refreshes, refreshQueue, windowFile>>

\* refresh forgets the window of another request at once.
WindowFor(r) == IF shownWindow # NoWindow /\ shownWindow.request # r THEN NoWindow
                ELSE shownWindow

RefreshWindow(r) ==
    /\ refreshGeneration < MaxGenerations
    /\ refreshGeneration' = refreshGeneration + 1
    /\ refreshes' = [refreshes EXCEPT ![refreshGeneration + 1] =
                        [request |-> r, stage |-> "loading"]]
    /\ shownWindow' = WindowFor(r)
    /\ wantedRequest' = r
    /\ UNCHANGED <<refreshQueue, windowFile>>

\* source.load answers: with the schedule, or not with a valid one for this request.
LoadEnds(g) ==
    /\ refreshes[g].stage = "loading"
    /\ \E job \in {"commit", "fallback"} :
         refreshes' = [refreshes EXCEPT ![g].stage = job]
    /\ refreshQueue' = Append(refreshQueue, g)
    /\ UNCHANGED <<shownWindow, refreshGeneration, windowFile, wantedRequest>>

\* A valid schedule that cannot be converted ends the refresh without a job.
ScheduleConversionFails(g) ==
    /\ refreshes[g].stage = "loading"
    /\ refreshes' = [refreshes EXCEPT ![g].stage = "done"]
    /\ UNCHANGED <<shownWindow, refreshGeneration, refreshQueue, windowFile, wantedRequest>>

-----------------------------------------------------------------------------
(* Jobs of the serial queue *)

\* Mutant: a commit looks at its generation only before it writes.
AnyRefreshIsCurrent(g) == refreshes[g].stage # "commit" \/ g = refreshGeneration

\* isCurrent
RefreshIsCurrent(g) == g = refreshGeneration

RefreshRuns(g, stage) ==
    /\ refreshQueue # <<>> /\ g = Head(refreshQueue)
    /\ refreshes[g].stage = stage

RefreshMovesTo(g, stage) ==
    /\ refreshes' = [refreshes EXCEPT ![g].stage = stage]
    /\ UNCHANGED refreshQueue

RefreshEndsNow(g) ==
    /\ refreshes' = [refreshes EXCEPT ![g].stage = "done"]
    /\ refreshQueue' = Tail(refreshQueue)

\* A superseded commit ends; otherwise the store begins to write beside the file.
CommitBegins(g) ==
    /\ RefreshRuns(g, "commit")
    /\ IF RefreshIsCurrent(g) THEN RefreshMovesTo(g, "writing") ELSE RefreshEndsNow(g)
    /\ UNCHANGED <<shownWindow, refreshGeneration, windowFile, wantedRequest>>

\* replaceDurableJson: canCommit and the rename are one synchronous step.
FileIsReplaced(g) ==
    /\ RefreshRuns(g, "writing")
    /\ IF RefreshIsCurrent(g)
       THEN /\ windowFile' = [request |-> refreshes[g].request, made |-> g]
            /\ RefreshMovesTo(g, "written")
       ELSE RefreshEndsNow(g) /\ UNCHANGED windowFile
    /\ UNCHANGED <<shownWindow, refreshGeneration, wantedRequest>>

WindowWriteFails(g) ==
    /\ RefreshRuns(g, "writing")
    /\ RefreshMovesTo(g, "not written")
    /\ UNCHANGED <<shownWindow, refreshGeneration, windowFile, wantedRequest>>

\* The window is shown whether or not it could be kept, unless superseded meanwhile.
CommitEnds(g) ==
    /\ RefreshRuns(g, "written") \/ RefreshRuns(g, "not written")
    /\ shownWindow' = IF RefreshIsCurrent(g)
                      THEN [request |-> refreshes[g].request, fresh |-> TRUE, made |-> g]
                      ELSE shownWindow
    /\ RefreshEndsNow(g)
    /\ UNCHANGED <<refreshGeneration, windowFile, wantedRequest>>

MemoryHas(r) == shownWindow # NoWindow /\ shownWindow.request = r

\* useFallback: what is in memory for this request stays, stale; else the file is read.
FallbackBegins(g) ==
    /\ RefreshRuns(g, "fallback")
    /\ IF ~RefreshIsCurrent(g)
       THEN RefreshEndsNow(g) /\ UNCHANGED shownWindow
       ELSE IF MemoryHas(refreshes[g].request)
            THEN shownWindow' = [shownWindow EXCEPT !.fresh = FALSE] /\ RefreshEndsNow(g)
            ELSE RefreshMovesTo(g, "reading") /\ UNCHANGED shownWindow
    /\ UNCHANGED <<refreshGeneration, windowFile, wantedRequest>>

FallbackIsRead(g) ==
    /\ RefreshRuns(g, "reading")
    /\ shownWindow' = IF /\ RefreshIsCurrent(g)
                         /\ windowFile # NoFile /\ windowFile.request = refreshes[g].request
                      THEN [request |-> windowFile.request, fresh |-> FALSE,
                            made |-> windowFile.made]
                      ELSE shownWindow
    /\ RefreshEndsNow(g)
    /\ UNCHANGED <<refreshGeneration, windowFile, wantedRequest>>

ScheduleJob(g) ==
    \/ CommitBegins(g) \/ FileIsReplaced(g) \/ WindowWriteFails(g) \/ CommitEnds(g)
    \/ FallbackBegins(g) \/ FallbackIsRead(g)

ScheduleNext ==
    \/ ClearCurrent
    \/ \E r \in ScheduleRequests : RefreshWindow(r)
    \/ \E g \in Generations : LoadEnds(g) \/ ScheduleConversionFails(g) \/ ScheduleJob(g)

\* A load ends by the source's timeout, a file operation ends.
ScheduleSpec == ScheduleInit /\ [][ScheduleNext]_scheduleVars

-----------------------------------------------------------------------------
(* Properties *)

Loaded == [request : ScheduleRequests, made : Generations]

\* Types, and: exactly the refreshes that have a job to do are in the queue, each once.
ScheduleTypeOK ==
    /\ refreshGeneration \in 0..MaxGenerations
    /\ \A g \in Generations :
         IF g > refreshGeneration THEN refreshes[g] = NotStarted
         ELSE \/ refreshes[g] = NotStarted
              \/ refreshes[g] \in [request : ScheduleRequests,
                                   stage : {"loading", "done"} \cup JobStages]
    /\ windowFile \in Loaded \cup {NoFile}
    /\ shownWindow \in [request : ScheduleRequests, fresh : BOOLEAN, made : Generations]
                            \cup {NoWindow}
    /\ \A g \in Generations : refreshes[g].stage \in JobStages <=>
         \E i \in DOMAIN refreshQueue : refreshQueue[i] = g
    /\ \A i, j \in DOMAIN refreshQueue : refreshQueue[i] = refreshQueue[j] => i = j

\* The window on show is that of the last request, whatever older refreshes still do, and
\* after clearCurrent there is none until the next request (schedule-window-controller.ts:87).
ShownWindowIsWanted == shownWindow # NoWindow => shownWindow.request = wantedRequest

\* A failing refresh falls back to the best that is known: what is shown is never replaced by
\* an older schedule of the same window (schedule-window-controller.ts:175-206).
WindowNeverGoesBack ==
    [][shownWindow # NoWindow /\ shownWindow'.made > 0 =>
         shownWindow'.made >= shownWindow.made]_scheduleVars

\* What holds of the schedule on show, whatever older refreshes still do
\* (schedule-window-controller.ts:87-206).
ScheduleSound == [](ScheduleTypeOK /\ ShownWindowIsWanted) /\ WindowNeverGoesBack
=============================================================================
