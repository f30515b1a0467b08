----------------------------- MODULE MCOutside -----------------------------
(***************************************************************************)
(* What the companion shares with others, in one run: the right to be the  *)
(* source of a match, with RivalHub and another device; the schedule and   *)
(* the match context, with RivalHub, the operator's pages and the files;   *)
(* and one product directory, with the desktop that starts and stops it.   *)
(* The parts share no variable, so the one in focus moves and the others   *)
(* stay as they were.                                                      *)
(***************************************************************************)
EXTENDS RivalHubLink, ScheduleWindow, MatchContext, DesktopSession

VARIABLE focus

MCRequestBudget == [refresh |-> 2, select |-> 1, decide |-> 1, library |-> 1, rehearsal |-> 1]

outsideVars == <<focus, linkVars, scheduleVars, contextVars, desktopVars>>

OutsideInit ==
    /\ focus \in {"link", "schedule", "context", "desktop"}
    /\ LinkInit /\ ScheduleInit /\ ContextInit /\ DesktopInit
    /\ focus # "context" => lkg = NoBinding

OutsideNext ==
    /\ UNCHANGED focus
    /\ \/ focus = "link" /\ LinkNext /\ UNCHANGED <<scheduleVars, contextVars, desktopVars>>
       \/ focus = "schedule" /\ ScheduleNext /\ UNCHANGED <<linkVars, contextVars, desktopVars>>
       \/ focus = "context" /\ ContextNext /\ UNCHANGED <<linkVars, scheduleVars, desktopVars>>
       \/ focus = "desktop" /\ DesktopNext /\ UNCHANGED <<linkVars, scheduleVars, contextVars>>

\* Without a source there is nothing to upload, so that the link is fair out of focus too.
OutsideSpec == OutsideInit /\ [][OutsideNext]_outsideVars /\ LinkFairness
=============================================================================
