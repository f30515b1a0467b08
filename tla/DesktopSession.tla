----------------------------- MODULE DesktopSession -----------------------------
(***************************************************************************)
(* One product directory and the processes that come and go over it:       *)
(* desktop hosts (apps/desktop/src-tauri/src/main.rs), the supervisor each *)
(* launch spawns (scripts/qualification/product-runtime.mjs), the          *)
(* Companion a supervisor may start, and stop commands.  They meet in the  *)
(* port, in data/runtime.json, in the Windows job of a launch and in the   *)
(* named event that tells a desktop its runtime was stopped.               *)
(*                                                                         *)
(* A launch, its supervisor and its Companion share one number; number 0   *)
(* is nobody, and among the stop commands it is Mizar.exe --stop.  All     *)
(* launches run the same artifact.  Time limits are choices: what has one  *)
(* may end at any time.  Left out: the logs, the windows and the browser.  *)
(***************************************************************************)
EXTENDS Integers

CONSTANTS
    MaxLaunches,          \* bound on launches
    MaxStopCommands,      \* bound on Mizar.exe --stop
    MaxDesktopFaults,     \* bound on crashes, late health answers, failed terminations
    MaxDisturbances       \* bound on stop commands and faults together

ASSUME DesktopAssumption ==
    {MaxLaunches, MaxStopCommands, MaxDesktopFaults, MaxDisturbances} \subseteq Nat

VARIABLES
    host,          \* by launch: where its host process is
    outcome,       \* by launch: how start_gui's closure ended
    job,           \* by launch: its RuntimeJob
    supervisor,    \* by launch
    companion,     \* by launch
    port,          \* the Companion that listens on PRODUCT_PORT
    runtimeFile,   \* the launch data/runtime.json describes
    stops,         \* by command: [stage, target]
    exitSignal,    \* the event of the desktop that is alive: ExitSignal
    borrowed,      \* by launch: the Companion that listened when it was launched
    spent          \* [commands, faults] so far; it and borrowed are no variables of the program

hosts == <<host, outcome, job, exitSignal, borrowed>>
runtimeVars == <<supervisor, companion, port, runtimeFile>>
desktopVars == <<hosts, runtimeVars, stops, spent>>

Launches == 1..MaxLaunches
NoLaunch == 0
Commands == Launches \cup {NoLaunch}
NoStop == [stage |-> "none", target |-> NoLaunch]

DesktopInit ==
    /\ host = [l \in Launches |-> "none"] /\ outcome = [l \in Launches |-> "pending"]
    /\ job = [l \in Launches |-> "empty"] /\ exitSignal = FALSE
    /\ supervisor = [l \in Launches |-> "none"] /\ companion = [l \in Launches |-> "none"]
    /\ port = NoLaunch /\ runtimeFile = NoLaunch
    /\ stops = [c \in Commands |-> NoStop]
    /\ borrowed = [l \in Launches |-> NoLaunch] /\ spent = [commands |-> 0, faults |-> 0]

\* A bound.
MoreDisturbances == spent.faults + spent.commands < MaxDisturbances

Fault ==
    /\ spent.faults < MaxDesktopFaults /\ MoreDisturbances
    /\ spent' = [spent EXCEPT !.faults = @ + 1]

-----------------------------------------------------------------------------
(* The processes below a host *)

Alive == {"starting", "listening", "stopping", "finalizing"}
SupervisorAlive == {"pipe", "verifying", "probing", "recording", "waiting", "watching", "removing"}

\* The supervisors in K and the Companions in C are terminated from outside, which closes their
\* port and leaves every file as it is.
Terminated(K, C) ==
    /\ supervisor' = [l \in Launches |->
            IF l \in K /\ supervisor[l] \in SupervisorAlive THEN "gone" ELSE supervisor[l]]
    /\ companion' = [l \in Launches |->
            IF l \in C /\ companion[l] \in Alive THEN "dead" ELSE companion[l]]
    /\ port' = IF port \in C THEN NoLaunch ELSE port
    /\ UNCHANGED runtimeFile

SupervisorGoes(l, stage) == supervisor' = [supervisor EXCEPT ![l] = stage]

\* awaitDesktopStart: the control pipe timed out or was closed.
PipeCloses(l) ==
    /\ supervisor[l] = "pipe"
    /\ SupervisorGoes(l, "gone")
    /\ UNCHANGED <<hosts, companion, port, runtimeFile, stops, spent>>

\* verifyPayload, then healthAt: a runtime of this artifact is reused and the supervisor ends.
SupervisorLooks(l) ==
    /\ supervisor[l] = "verifying"
    /\ \/ port # NoLaunch /\ SupervisorGoes(l, "gone") /\ UNCHANGED spent
       \/ port = NoLaunch /\ SupervisorGoes(l, "probing") /\ UNCHANGED spent
       \/ port # NoLaunch /\ Fault /\ SupervisorGoes(l, "probing")
    /\ UNCHANGED <<hosts, companion, port, runtimeFile, stops>>

\* portAvailable, then the Companion is spawned; a busy port ends the supervisor.
SupervisorSpawns(l) ==
    /\ supervisor[l] = "probing"
    /\ IF port # NoLaunch THEN SupervisorGoes(l, "gone") /\ UNCHANGED companion
       ELSE /\ SupervisorGoes(l, "recording")
            /\ companion' = [companion EXCEPT ![l] = "starting"]
    /\ UNCHANGED <<hosts, port, runtimeFile, stops, spent>>

SupervisorRecords(l) ==
    /\ supervisor[l] = "recording"
    /\ SupervisorGoes(l, "waiting")
    /\ runtimeFile' = l
    /\ UNCHANGED <<hosts, companion, port, stops, spent>>

\* sameRuntime with the instance this supervisor started.
SupervisorSeesReady(l) ==
    /\ supervisor[l] = "waiting" /\ port = l
    /\ SupervisorGoes(l, "watching")
    /\ UNCHANGED <<hosts, companion, port, runtimeFile, stops, spent>>

\* The Companion exited, or was not ready in time and is killed.
SupervisorEnds(l) ==
    /\ \/ supervisor[l] \in {"waiting", "watching"} /\ companion[l] \notin Alive
       \/ supervisor[l] = "waiting"
    /\ companion' = [companion EXCEPT ![l] = IF @ \in Alive THEN "dead" ELSE @]
    /\ port' = IF port = l THEN NoLaunch ELSE port
    /\ SupervisorGoes(l, "removing")
    /\ UNCHANGED <<hosts, runtimeFile, stops, spent>>

\* finally: the state file is removed, whatever launch it describes.
SupervisorCleansUp(l) ==
    /\ supervisor[l] = "removing"
    /\ SupervisorGoes(l, "gone")
    /\ runtimeFile' = NoLaunch
    /\ UNCHANGED <<hosts, companion, port, stops, spent>>

SupervisorStep(l) ==
    \/ PipeCloses(l) \/ SupervisorLooks(l) \/ SupervisorSpawns(l) \/ SupervisorRecords(l)
    \/ SupervisorSeesReady(l) \/ SupervisorEnds(l) \/ SupervisorCleansUp(l)

\* app.listen: the port is taken, or taken already and the Companion exits.
CompanionListens(l) ==
    /\ companion[l] = "starting"
    /\ companion' = [companion EXCEPT ![l] = IF port = NoLaunch THEN "listening" ELSE "dead"]
    /\ port' = IF port = NoLaunch THEN l ELSE port
    /\ UNCHANGED <<hosts, supervisor, runtimeFile, stops, spent>>

\* app.close stops listening first; the onClose hook then closes the outputs and the recorder.
CompanionCloses(l) ==
    /\ companion[l] = "stopping"
    /\ companion' = [companion EXCEPT ![l] = "finalizing"]
    /\ port' = NoLaunch
    /\ UNCHANGED <<hosts, supervisor, runtimeFile, stops, spent>>

\* The hooks are done, or the watchdog ends the process.
CompanionEnds(l) ==
    /\ companion[l] = "finalizing"
    /\ companion' = [companion EXCEPT ![l] = "dead"]
    /\ UNCHANGED <<hosts, supervisor, port, runtimeFile, stops, spent>>

CompanionCrashes(l) ==
    /\ companion[l] \in Alive /\ Fault
    /\ companion' = [companion EXCEPT ![l] = "dead"]
    /\ port' = IF port = l THEN NoLaunch ELSE port
    /\ UNCHANGED <<hosts, supervisor, runtimeFile, stops>>

-----------------------------------------------------------------------------
(* Stop commands: product-runtime.mjs --stop *)

StopGoes(c, stage) == stops' = [stops EXCEPT ![c].stage = stage]
StopEnds(c, how) == stops' = [stops EXCEPT ![c] = [stage |-> how, target |-> NoLaunch]]

\* stopProduct reads the state file once.
StopReads(c) ==
    /\ stops[c].stage = "reading"
    /\ stops' = [stops EXCEPT ![c] =
            [stage |-> IF runtimeFile = NoLaunch THEN "failed" ELSE "asking", target |-> runtimeFile]]
    /\ UNCHANGED <<hosts, runtimeVars, spent>>

\* healthAt and the request with the token of that instance: another runtime is not stopped.
StopAsks(c) ==
    /\ stops[c].stage = "asking"
    /\ IF port = stops[c].target
       THEN /\ StopGoes(c, "waiting")
            /\ companion' = [companion EXCEPT ![port] = "stopping"]
       ELSE StopEnds(c, "failed") /\ UNCHANGED companion
    /\ UNCHANGED <<hosts, supervisor, port, runtimeFile, spent>>

\* The instance no longer answers, or not in time.
StopReturns(c) ==
    /\ stops[c].stage = "waiting"
    /\ \/ port # stops[c].target /\ UNCHANGED spent
       \/ port = stops[c].target /\ Fault
    /\ StopEnds(c, "stopped")
    /\ UNCHANGED <<hosts, runtimeVars>>

\* No answer to the request, 35 seconds of waiting, or the 40 of stop_runtime.
StopGivesUp(c) ==
    /\ stops[c].stage \in {"reading", "asking", "waiting"}
    /\ StopEnds(c, "failed")
    /\ UNCHANGED <<hosts, runtimeVars, spent>>

StopStep(c) == StopReads(c) \/ StopAsks(c) \/ StopReturns(c) \/ StopGivesUp(c)

CliStops ==
    /\ stops[NoLaunch].stage = "none" /\ spent.commands < MaxStopCommands
    /\ MoreDisturbances
    /\ stops' = [stops EXCEPT ![NoLaunch].stage = "reading"]
    /\ spent' = [spent EXCEPT !.commands = @ + 1]
    /\ UNCHANGED <<hosts, runtimeVars>>

HostAlive == {"spawned", "assigned", "waiting", "ready", "running", "cleanup", "stopping",
              "terminating"}
DesktopIsUp == \E l \in Launches : host[l] \in HostAlive

\* stop_runtime: only a stop that succeeded is told to the desktop, if there is one.
CliEnds ==
    /\ stops[NoLaunch].stage \in {"stopped", "failed"}
    /\ exitSignal' = (exitSignal \/ (stops[NoLaunch].stage = "stopped" /\ DesktopIsUp))
    /\ stops' = [stops EXCEPT ![NoLaunch] = NoStop]
    /\ UNCHANGED <<host, outcome, job, borrowed, runtimeVars, spent>>

-----------------------------------------------------------------------------
(* The host: main, start_gui *)

HostGoes(l, stage) == host' = [host EXCEPT ![l] = stage]

\* What a host knows goes with it.
HostIsGone(l, how) ==
    /\ HostGoes(l, how)
    /\ outcome' = [outcome EXCEPT ![l] = "pending"]
    /\ borrowed' = [borrowed EXCEPT ![l] = NoLaunch]

HostFails(l) == HostGoes(l, "cleanup") /\ outcome' = [outcome EXCEPT ![l] = "failed"]

Unlaunched(l) ==
    /\ host[l] = "none" /\ supervisor[l] = "none"
    /\ \A k \in 1..l-1 : supervisor[k] # "none"

\* Mizar.exe: DesktopMutex lets one desktop in; its supervisor waits at the pipe.
DesktopStarts(l) ==
    /\ Unlaunched(l) /\ ~DesktopIsUp
    /\ HostGoes(l, "spawned")
    /\ SupervisorGoes(l, "pipe")
    /\ exitSignal' = FALSE
    /\ borrowed' = [borrowed EXCEPT ![l] = port]
    /\ UNCHANGED <<outcome, job, companion, port, runtimeFile, stops, spent>>

\* Mizar.exe --no-browser takes no mutex and makes no job.
HeadlessStarts(l) ==
    /\ Unlaunched(l)
    /\ SupervisorGoes(l, "verifying")
    /\ UNCHANGED <<hosts, companion, port, runtimeFile, stops, spent>>

\* Mutant: the supervisor is released before the job holds it.
AssignsAfterRelease(l) ==
    /\ host[l] = "spawned" /\ supervisor[l] = "pipe"
    /\ HostGoes(l, "assigned") /\ SupervisorGoes(l, "verifying")
    /\ UNCHANGED <<outcome, job, exitSignal, borrowed, companion, port, runtimeFile,
                   stops, spent>>

\* job.assign.
HostAssigns(l) ==
    /\ host[l] = "spawned"
    /\ \/ HostGoes(l, "assigned") /\ job' = [job EXCEPT ![l] = "kills"] /\ UNCHANGED outcome
       \/ HostFails(l) /\ UNCHANGED job
    /\ UNCHANGED <<exitSignal, borrowed, runtimeVars, stops, spent>>

\* The line on the pipe lets the supervisor go on; the pipe may have closed.
HostReleases(l) ==
    /\ host[l] = "assigned"
    /\ IF supervisor[l] = "pipe"
       THEN HostGoes(l, "waiting") /\ SupervisorGoes(l, "verifying") /\ UNCHANGED outcome
       ELSE HostFails(l) /\ UNCHANGED supervisor
    /\ UNCHANGED <<job, exitSignal, borrowed, companion, port, runtimeFile, stops, spent>>

\* wait_for_runtime: any Companion of this artifact will do; the supervisor's exit, or 35
\* seconds, end the wait.
HostWaits(l) ==
    /\ host[l] = "waiting"
    /\ \/ port # NoLaunch /\ HostGoes(l, "ready") /\ UNCHANGED outcome
       \/ HostFails(l)
    /\ UNCHANGED <<job, exitSignal, borrowed, runtimeVars, stops, spent>>

\* webview_preflight, setup and build; RunEvent::Ready spares the runtime from now on.
HostIsReady(l) ==
    /\ host[l] = "ready"
    /\ \/ /\ HostGoes(l, "running")
          /\ job' = [job EXCEPT ![l] = IF @ = "kills" THEN "spares" ELSE @]
          /\ UNCHANGED outcome
       \/ HostFails(l) /\ UNCHANGED job
    /\ UNCHANGED <<exitSignal, borrowed, runtimeVars, stops, spent>>

\* The user or the exit signal ends the event loop, or a panic does.
HostLeaves(l, how) ==
    /\ HostGoes(l, "cleanup") /\ outcome' = [outcome EXCEPT ![l] = how]
    /\ UNCHANGED <<job, exitSignal, borrowed, runtimeVars, stops, spent>>

UserExits(l) == host[l] = "running" /\ \E how \in {"ok", "failed"} : HostLeaves(l, how)
SignalExits(l) == host[l] = "running" /\ exitSignal /\ HostLeaves(l, "ok")

\* Mutant: whatever runtime the file describes is taken for this launch's.
AnyRuntimeIsOwned(l) == runtimeFile # NoLaunch

\* runtime_owned
RuntimeOwned(l) == runtimeFile = l

\* A failed start stops only its own runtime, an explicit exit any runtime of this artifact.
HostCleansUp(l) ==
    /\ host[l] = "cleanup"
    /\ IF RuntimeOwned(l) \/ (outcome[l] = "ok" /\ port # NoLaunch)
       THEN HostGoes(l, "stopping") /\ StopGoes(l, "reading")
       ELSE HostGoes(l, "terminating") /\ UNCHANGED stops
    /\ UNCHANGED <<outcome, job, exitSignal, borrowed, runtimeVars, spent>>

HostStops(l) ==
    /\ host[l] = "stopping" /\ stops[l].stage \in {"stopped", "failed"}
    /\ HostGoes(l, "terminating")
    /\ exitSignal' = (exitSignal \/ stops[l].stage = "stopped")
    /\ UNCHANGED <<outcome, job, borrowed, runtimeVars, stops, spent>>

\* What TerminateJobObject reaches besides the supervisor: what it spawned.
InTheJob(l) == IF job[l] = "empty" THEN {} ELSE {l}

\* job.terminate, drop(job), and child.kill for a supervisor that is left.  When terminate fails,
\* dropping a job that still kills on close does the same; of one that spares its processes,
\* only the supervisor is ended, and the Companion lives on.
HostTerminates(l) ==
    /\ host[l] = "terminating"
    /\ HostIsGone(l, "ended")
    /\ \/ /\ Terminated({l}, InTheJob(l))
          /\ job' = [job EXCEPT ![l] = "empty"]
          /\ UNCHANGED spent
       \/ /\ job[l] = "spares" /\ Fault
          /\ Terminated({l}, {})
          /\ UNCHANGED job
    /\ stops' = [stops EXCEPT ![l] = NoStop]
    /\ UNCHANGED exitSignal

\* The host process dies: the handle of the job is closed with it.
HostDies(l) ==
    /\ host[l] \in HostAlive /\ Fault
    /\ HostIsGone(l, "died")
    /\ LET taken == IF job[l] = "kills" THEN {l} ELSE {} IN Terminated(taken, taken)
    /\ UNCHANGED <<job, exitSignal, stops>>

HostStep(l) ==
    \/ HostAssigns(l) \/ HostReleases(l) \/ HostWaits(l) \/ HostIsReady(l)
    \/ SignalExits(l) \/ HostCleansUp(l) \/ HostStops(l) \/ HostTerminates(l)

DesktopNext ==
    \/ \E l \in Launches :
         \/ DesktopStarts(l) \/ HeadlessStarts(l)
         \/ HostStep(l) \/ UserExits(l) \/ HostDies(l)
         \/ SupervisorStep(l)
         \/ CompanionListens(l) \/ CompanionCloses(l) \/ CompanionEnds(l) \/ CompanionCrashes(l)
    \/ \E c \in Commands : StopStep(c)
    \/ CliStops \/ CliEnds

DesktopSpec == DesktopInit /\ [][DesktopNext]_desktopVars

-----------------------------------------------------------------------------
(* Properties *)

HostStages == HostAlive \cup {"none", "ended", "died"}
StopStages == {"none", "reading", "asking", "waiting", "stopped", "failed"}

\* Types, and: the port is held by the Companion that serves, one at a time.
DesktopTypeOK ==
    /\ host \in [Launches -> HostStages]
    /\ outcome \in [Launches -> {"pending", "ok", "failed"}]
    /\ job \in [Launches -> {"empty", "kills", "spares"}]
    /\ exitSignal \in BOOLEAN
    /\ borrowed \in [Launches -> Commands] /\ runtimeFile \in Commands
    /\ supervisor \in [Launches -> SupervisorAlive \cup {"none", "gone"}]
    /\ companion \in [Launches -> Alive \cup {"none", "dead"}]
    /\ port \in Commands
    /\ \A l \in Launches : companion[l] \in {"listening", "stopping"} <=> port = l
    /\ stops \in [Commands -> [stage : StopStages, target : Commands]]
    /\ spent \in [commands : 0..MaxStopCommands, faults : 0..MaxDesktopFaults]

\* The mutex lets one desktop in at a time.
OneDesktop ==
    \A l, k \in Launches : host[l] \in HostAlive /\ host[k] \in HostAlive => l = k

\* A desktop that failed, ended or died leaves no Companion of its own behind, whatever else
\* went wrong.  The exceptions come after RunEvent::Ready only: a host that dies then, and one
\* whose TerminateJobObject fails, leave the job with the runtime spared (ADR-0015 section 3,
\* main.rs:1088, windows_startup.rs:93).
NoOrphans ==
    \A l \in Launches :
        host[l] \in {"ended", "died"} /\ job[l] # "spares" => companion[l] \notin Alive

DesktopInv == DesktopTypeOK /\ OneDesktop /\ NoOrphans

\* A start that fails never stops the runtime it found when it began, even if that runtime
\* went away meanwhile and its file was overwritten (main.rs:1068, product.md:299).
RollbackSparesBorrowed ==
    [][\A l \in Launches :
         /\ outcome[l] = "failed"
         /\ stops[l].stage = "asking" /\ stops'[l].stage = "waiting"
         => stops[l].target # borrowed[l]]_desktopVars

\* What ADR-0015 says of an explicit exit: it asks for a graceful stop, waits a bounded time for
\* it, and terminates what is left.  A Companion that is closing is terminated only when the
\* stop did not succeed.
GracefulStopIsAwaited ==
    [][\A l \in Launches :
         /\ companion[l] = "finalizing" /\ companion'[l] = "dead"
         /\ host[l] = "terminating" /\ host'[l] = "ended"
         => stops[l].stage # "stopped"]_desktopVars
=============================================================================
