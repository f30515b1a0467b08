------------------------- MODULE MCProgramTelemetry -------------------------
(***************************************************************************)
(* What becomes of the frames of the game, in one run: what the            *)
(* programme's telemetry counts in them, what a qualification run proves   *)
(* with them, and what the director puts on air for them.  The three share *)
(* no variable, so the one in focus moves and the others stay as they      *)
(* were.                                                                   *)
(***************************************************************************)
EXTENDS ProgramTelemetry, QualificationRun, ProgramDirector, TLC

VARIABLE focus

MapSymmetry == Permutations(QualMaps)

MCTimings == [bpFinal |-> 1, intro |-> 2, shortIntro |-> 1, hudLead |-> 2, halftimeLead |-> 1,
              mapResult |-> 1, warmupFinal |-> 1]

\* OBS is as prompt as the director's deadlines need.
ASSUME MCPromptSwitches == PromptSwitches

evidenceVars == <<focus, vars, qualVars, directorVars>>

EvidenceInit ==
    /\ focus \in {"telemetry", "qualification", "director"}
    /\ Init /\ QualInit /\ DirectorInit
    /\ focus # "director" => match.bpReady

\* A bound: the last play is not of a round that is restarted.
LastPlayIsNew == Len(plays') = MaxPlays => Len(plays) = MaxPlays \/ game.phase = "over"

EvidenceNext ==
    /\ UNCHANGED focus
    /\ \/ focus = "telemetry" /\ Next /\ LastPlayIsNew /\ UNCHANGED <<qualVars, directorVars>>
       \/ focus = "qualification" /\ QualNext /\ UNCHANGED <<vars, directorVars>>
       \/ focus = "director" /\ DirectorNext /\ UNCHANGED <<vars, qualVars>>

EvidenceSpec == EvidenceInit /\ [][EvidenceNext]_evidenceVars
=============================================================================
