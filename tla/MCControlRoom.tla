--------------------------- MODULE MCControlRoom ---------------------------
(***************************************************************************)
(* Four parts that wait for something, in one run: the scenes, the HUD     *)
(* configuration, the age of the picture and the capture recorder.  They   *)
(* share no variable, so the part in focus moves and the others stay as    *)
(* they were: interleaving them would add states and no behaviour of any   *)
(* part.                                                                   *)
(***************************************************************************)
EXTENDS ProgramScenes, HudConfig, StaleDeadline, CaptureRecorder

VARIABLE focus

roomVars == <<focus, sceneVars, hudVars, staleVars, vars>>

RoomInit ==
    /\ focus \in {"scenes", "hud", "age", "capture"}
    /\ ScenesInit /\ HudInit /\ StaleInit /\ Init
    /\ focus # "scenes" => obs = "waiting"
    /\ focus # "age" => lease = 2

RoomNext ==
    /\ UNCHANGED focus
    /\ \/ focus = "scenes" /\ ScenesNext /\ UNCHANGED <<hudVars, staleVars, vars>>
       \/ focus = "hud" /\ HudNext /\ UNCHANGED <<sceneVars, staleVars, vars>>
       \/ focus = "age" /\ StaleNext /\ UNCHANGED <<sceneVars, hudVars, vars>>
       \/ focus = "capture" /\ Next /\ UNCHANGED <<sceneVars, hudVars, staleVars>>

\* The fairness of each part.  Nothing of the scenes and the capture that must happen can
\* happen in their initial states, so that they are fair out of focus too; the page that polls,
\* and time, are not.
RoomFairness ==
    /\ ScenesFairness
    /\ FinalizeFairness /\ WF_vars(ReferenceWritten \/ ReferenceFails)
    /\ WF_hudVars(focus = "hud" /\ (CommitHudBegins \/ HudFileIsReplaced \/ CommitHudEnds))
    /\ WF_hudVars(focus = "hud" /\ PollIsServed)
    /\ WF_hudVars(focus = "hud" /\ PollArrives)
    /\ WF_hudVars(focus = "hud" /\ MutationIsAnswered)
    /\ WF_staleVars(DeadlineIsNotYetPast) /\ WF_staleVars(DeadlineIsPast)
    /\ WF_staleVars(focus = "age" /\ MomentPasses)

RoomSpec == RoomInit /\ [][RoomNext]_roomVars /\ RoomFairness
=============================================================================
