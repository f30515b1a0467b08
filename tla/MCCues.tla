-------------------------------- MODULE MCCues --------------------------------
(***************************************************************************)
(* The way of an event to the programme's pages, in one run: the CSTV      *)
(* source it comes from, or the replay that stands in for it, and the cue  *)
(* lane that takes it to a page.  The three share no variable, so the part *)
(* in focus moves and the others stay as they were.  A source that         *)
(* reconnects, or a runtime that changes, forever would never let a page   *)
(* settle: MaxMoments and MaxGenerations end that.                         *)
(***************************************************************************)
EXTENDS ProgramCueLane, CstvSource, ReplaySession

VARIABLE focus

cuesVars == <<focus, vars, cstvVars, replayVars>>

CuesInit ==
    /\ focus \in {"lane", "source", "replay"}
    /\ Init /\ CstvInit /\ ReplayInit

CuesNext ==
    /\ UNCHANGED focus
    /\ \/ focus = "lane" /\ Next /\ UNCHANGED <<cstvVars, replayVars>>
       \/ focus = "source" /\ CstvNext /\ UNCHANGED <<vars, replayVars>>
       \/ focus = "replay" /\ ReplayNext /\ UNCHANGED <<vars, cstvVars>>

CuesFairness ==
    \A p \in Pages :
        WF_vars(focus = "lane" /\ PageStep(p)) /\ WF_vars(focus = "lane" /\ Written(p))

\* EveryPageIsLive of the lane that moves (program-cue-client.ts): when the faults end, every page
\* ends up in the lane of the current baseline.
EveryPageGoesLive == focus = "lane" => EveryPageIsLive

CuesSpec == CuesInit /\ [][CuesNext]_cuesVars /\ CuesFairness
=============================================================================
