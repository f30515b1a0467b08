---------------------------- MODULE OutsideProofs ----------------------------
(***************************************************************************)
(* Proofs about what surrounds the programme.  The desktop: for every      *)
(* number of launches, stop commands and faults, one desktop at a time,    *)
(* no Companion that outlives the launch it belongs to, and a start that   *)
(* fails never stops the runtime it found.  The connection to RivalHub:    *)
(* for every number of pairings, operations, claims and faults, a source   *)
(* was granted to this device, a late release spares the source of a newer *)
(* claim, and a late schedule replaces no newer one.                       *)
(***************************************************************************)
EXTENDS DesktopSession, RivalHubLink, TLAPS

-----------------------------------------------------------------------------
(* The desktop: the inductive invariant *)

Serving == {"listening", "stopping"}
Past == {"finalizing", "dead"}
HasSpawned == {"recording", "waiting", "watching", "removing", "gone"}
Stops == [stage : StopStages, target : Commands]

HostTypes ==
    /\ host \in [Launches -> HostStages]
    /\ outcome \in [Launches -> {"pending", "ok", "failed"}]
    /\ job \in [Launches -> {"empty", "kills", "spares"}]
    /\ exitSignal \in BOOLEAN
    /\ borrowed \in [Launches -> Commands]

RuntimeTypes ==
    /\ runtimeFile \in Commands /\ port \in Commands
    /\ supervisor \in [Launches -> SupervisorAlive \cup {"none", "gone"}]
    /\ companion \in [Launches -> Alive \cup {"none", "dead"}]

StopTypes ==
    /\ stops \in [Commands -> Stops]
    /\ spent \in [commands : 0..MaxStopCommands, faults : 0..MaxDesktopFaults]

DesktopTypes == HostTypes /\ RuntimeTypes /\ StopTypes

\* The port belongs to the Companion that serves.
PortInv == \A l \in Launches : companion[l] \in Serving <=> port = l

\* A supervisor spawns its Companion once, before it writes the file.
SpawnInv ==
    \A l \in Launches :
        /\ companion[l] # "none" => supervisor[l] \in HasSpawned
        /\ runtimeFile = l \/ supervisor[l] = "recording" => companion[l] # "none"

\* Until the job of a launch holds its supervisor, that one has not passed the pipe, and once
\* the host and what the job kills are gone, it has ended or never passed it.
JobInv ==
    \A l \in Launches :
        /\ host[l] = "assigned" => job[l] # "empty"
        /\ host[l] # "none" /\ job[l] = "empty" =>
              supervisor[l] \in {"none", "pipe", "gone"} /\ companion[l] \notin Alive
        /\ host[l] \in {"ended", "died"} /\ job[l] # "spares" =>
              supervisor[l] \in {"none", "pipe", "gone"} /\ companion[l] \notin Alive

\* A launch gives a stop command only when it cleans up, and after a failed start only when
\* its own supervisor had spawned a Companion.
StopInv ==
    /\ \A l \in Launches :
          stops[l].stage # "none" =>
              /\ host[l] \in {"stopping", "terminating", "died"}
              /\ outcome[l] = "failed" => companion[l] # "none"
    /\ \A c \in Commands : stops[c].stage \in {"asking", "waiting"} => stops[c].target # NoLaunch

\* The Companion a launch found is the one it found: it serves or it is past, and it is past
\* once the launch has a Companion of its own.
BorrowInv ==
    \A l \in Launches :
        borrowed[l] # NoLaunch =>
            /\ companion[borrowed[l]] \in Serving \cup Past
            /\ companion[l] # "none" => companion[borrowed[l]] \in Past

DesktopIInv ==
    /\ DesktopTypes /\ PortInv /\ SpawnInv /\ OneDesktop /\ JobInv /\ StopInv /\ BorrowInv

LEMMA LaunchFacts ==
    /\ NoLaunch \notin Launches /\ Commands = Launches \cup {NoLaunch}
    /\ \A l \in Launches : l # NoLaunch
BY DEF Launches, NoLaunch, Commands

LEMMA InitDesktopInv == DesktopInit => DesktopIInv
<1> SUFFICES ASSUME DesktopInit PROVE DesktopIInv
    OBVIOUS
<1>1. NoStop \in Stops /\ NoStop.stage = "none" /\ NoLaunch \in Commands
    BY LaunchFacts DEF NoStop, Stops, StopStages
<1>2. HostTypes
    BY <1>1 DEF DesktopInit, HostTypes, HostStages
<1>3. RuntimeTypes
    BY <1>1 DEF DesktopInit, RuntimeTypes
<1>4. spent \in [commands : 0..MaxStopCommands, faults : 0..MaxDesktopFaults]
    <2>1. MaxStopCommands \in Nat /\ MaxDesktopFaults \in Nat
        BY DesktopAssumption
    <2>2. 0 \in 0..MaxStopCommands /\ 0 \in 0..MaxDesktopFaults
        BY <2>1
    <2> QED BY <2>2 DEF DesktopInit
<1>5. StopTypes
    BY <1>1, <1>4 DEF DesktopInit, StopTypes
<1>6. PortInv /\ SpawnInv
    BY LaunchFacts DEF DesktopInit, PortInv, SpawnInv, Serving
<1>7. OneDesktop /\ JobInv
    BY DEF DesktopInit, OneDesktop, JobInv, HostAlive
<1>8. StopInv
    <2>1. \A c \in Commands : stops[c].stage = "none"
        BY <1>1 DEF DesktopInit
    <2> QED BY <2>1, LaunchFacts DEF StopInv
<1>9. BorrowInv
    BY DEF DesktopInit, BorrowInv
<1> QED BY <1>2, <1>3, <1>5, <1>6, <1>7, <1>8, <1>9 DEF DesktopIInv, DesktopTypes

LEMMA FaultTypes ==
    ASSUME StopTypes, Fault
    PROVE  spent' \in [commands : 0..MaxStopCommands, faults : 0..MaxDesktopFaults]
<1>1. MaxStopCommands \in Nat /\ MaxDesktopFaults \in Nat
    BY DesktopAssumption
<1>2. spent \in [commands : 0..MaxStopCommands, faults : 0..MaxDesktopFaults]
    BY DEF StopTypes
<1>3. spent.faults + 1 \in 0..MaxDesktopFaults
    <2>1. spent.faults \in 0..MaxDesktopFaults /\ spent.faults < MaxDesktopFaults
        BY <1>2 DEF Fault
    <2> QED BY <1>1, <2>1
<1>4. spent' = [spent EXCEPT !.faults = spent.faults + 1]
    BY DEF Fault
<1> QED BY <1>2, <1>3, <1>4

-----------------------------------------------------------------------------
(* Steps of a host that leave the processes below it alone *)

LEMMA HostInv ==
    ASSUME DesktopIInv, NEW l \in Launches, NEW stage \in HostAlive,
           host[l] \in {"spawned", "assigned", "waiting", "ready", "running"},
           HostGoes(l, stage),
           outcome' \in [Launches -> {"pending", "ok", "failed"}],
           \A k \in Launches \ {l} : outcome'[k] = outcome[k],
           job' \in [Launches -> {"empty", "kills", "spares"}],
           \A k \in Launches \ {l} : job'[k] = job[k],
           job'[l] = "empty" => job[l] = "empty" /\ stage # "assigned",
           UNCHANGED <<exitSignal, borrowed, runtimeVars, stops, spent>>
    PROVE  DesktopIInv'
<1>1. /\ HostTypes /\ RuntimeTypes /\ StopTypes /\ PortInv /\ SpawnInv /\ OneDesktop /\ JobInv
      /\ StopInv /\ BorrowInv
      /\ UNCHANGED <<supervisor, companion, port, runtimeFile>>
    BY DEF DesktopIInv, DesktopTypes, runtimeVars
<1>2. /\ host' \in [Launches -> HostStages] /\ host'[l] = stage
      /\ \A k \in Launches \ {l} : host'[k] = host[k]
    BY <1>1 DEF HostTypes, HostGoes, HostStages
<1>3. DesktopTypes'
    BY <1>1, <1>2 DEF DesktopTypes, HostTypes, RuntimeTypes, StopTypes
<1>4. PortInv' /\ SpawnInv' /\ BorrowInv'
    BY <1>1 DEF PortInv, SpawnInv, BorrowInv
<1>5. host[l] \in HostAlive
    BY DEF HostAlive
<1>6. OneDesktop'
    BY <1>1, <1>2, <1>5 DEF OneDesktop
<1>7. JobInv'
    <2> SUFFICES ASSUME NEW k \in Launches
        PROVE /\ host'[k] = "assigned" => job'[k] # "empty"
              /\ host'[k] # "none" /\ job'[k] = "empty" =>
                    supervisor[k] \in {"none", "pipe", "gone"} /\ companion[k] \notin Alive
              /\ host'[k] \in {"ended", "died"} /\ job'[k] # "spares" =>
                    supervisor[k] \in {"none", "pipe", "gone"} /\ companion[k] \notin Alive
        BY <1>1 DEF JobInv
    <2>1. CASE k = l
        BY <1>1, <1>2, <2>1 DEF JobInv, HostAlive
    <2>2. CASE k # l
        BY <1>1, <1>2, <2>2 DEF JobInv
    <2> QED BY <2>1, <2>2
<1>8. StopInv'
    <2>1. stops[l].stage = "none"
        BY <1>1 DEF StopInv
    <2> QED BY <1>1, <1>2, <2>1 DEF StopInv
<1> QED BY <1>3, <1>4, <1>6, <1>7, <1>8 DEF DesktopIInv

LEMMA HostStepsInv ==
    ASSUME DesktopIInv, NEW l \in Launches,
           \/ HostAssigns(l) \/ HostWaits(l) \/ HostIsReady(l) \/ SignalExits(l) \/ UserExits(l)
    PROVE  DesktopIInv'
<1>1. HostTypes /\ JobInv
    BY DEF DesktopIInv, DesktopTypes
<1>2. CASE HostAssigns(l)
    <2>1. CASE HostGoes(l, "assigned") /\ job' = [job EXCEPT ![l] = "kills"] /\ UNCHANGED outcome
        <3>1. /\ job' \in [Launches -> {"empty", "kills", "spares"}] /\ job'[l] = "kills"
              /\ \A k \in Launches \ {l} : job'[k] = job[k]
            BY <1>1, <2>1 DEF HostTypes
        <3> QED BY <1>1, <1>2, <2>1, <3>1, HostInv DEF HostTypes, HostAssigns, HostAlive
    <2>2. CASE HostFails(l) /\ UNCHANGED job
        <3>1. /\ outcome' \in [Launches -> {"pending", "ok", "failed"}]
              /\ \A k \in Launches \ {l} : outcome'[k] = outcome[k]
              /\ HostGoes(l, "cleanup")
            BY <1>1, <2>2 DEF HostTypes, HostFails
        <3> QED BY <1>1, <1>2, <2>2, <3>1, HostInv DEF HostTypes, HostAssigns, HostAlive
    <2> QED BY <1>2, <2>1, <2>2 DEF HostAssigns
<1>3. CASE HostWaits(l)
    <2>1. CASE HostGoes(l, "ready") /\ UNCHANGED outcome
        BY <1>1, <1>3, <2>1, HostInv DEF HostTypes, HostWaits, HostAlive
    <2>2. CASE HostFails(l)
        <3>1. /\ outcome' \in [Launches -> {"pending", "ok", "failed"}]
              /\ \A k \in Launches \ {l} : outcome'[k] = outcome[k]
              /\ HostGoes(l, "cleanup")
            BY <1>1, <2>2 DEF HostTypes, HostFails
        <3> QED BY <1>1, <1>3, <3>1, HostInv DEF HostTypes, HostWaits, HostAlive
    <2> QED BY <1>3, <2>1, <2>2 DEF HostWaits
<1>4. CASE HostIsReady(l)
    <2>1. CASE /\ HostGoes(l, "running")
               /\ job' = [job EXCEPT ![l] = IF @ = "kills" THEN "spares" ELSE @]
               /\ UNCHANGED outcome
        <3>1. /\ job' \in [Launches -> {"empty", "kills", "spares"}]
              /\ job'[l] = "empty" => job[l] = "empty"
              /\ \A k \in Launches \ {l} : job'[k] = job[k]
            BY <1>1, <2>1 DEF HostTypes
        <3> QED BY <1>1, <1>4, <2>1, <3>1, HostInv DEF HostTypes, HostIsReady, HostAlive
    <2>2. CASE HostFails(l) /\ UNCHANGED job
        <3>1. /\ outcome' \in [Launches -> {"pending", "ok", "failed"}]
              /\ \A k \in Launches \ {l} : outcome'[k] = outcome[k]
              /\ HostGoes(l, "cleanup")
            BY <1>1, <2>2 DEF HostTypes, HostFails
        <3> QED BY <1>1, <1>4, <2>2, <3>1, HostInv DEF HostTypes, HostIsReady, HostAlive
    <2> QED BY <1>4, <2>1, <2>2 DEF HostIsReady
<1>5. CASE SignalExits(l) \/ UserExits(l)
    <2>1. PICK how \in {"ok", "failed"} : HostLeaves(l, how) /\ host[l] = "running"
        BY <1>5 DEF SignalExits, UserExits
    <2>2. /\ outcome' \in [Launches -> {"pending", "ok", "failed"}]
          /\ \A k \in Launches \ {l} : outcome'[k] = outcome[k]
          /\ HostGoes(l, "cleanup")
        BY <1>1, <2>1 DEF HostTypes, HostLeaves
    <2> QED BY <1>1, <2>1, <2>2, HostInv DEF HostTypes, HostLeaves, HostAlive
<1> QED BY <1>2, <1>3, <1>4, <1>5


-----------------------------------------------------------------------------
(* Steps of one supervisor and its Companion *)

\* All of them: the Companion only goes forward, and once the launch has one, it was started
\* when the port was free.
LEMMA LaunchMoves ==
    ASSUME DesktopIInv, NEW l \in Launches, UNCHANGED hosts, StopTypes',
           RuntimeTypes',
           \A k \in Launches \ {l} : /\ supervisor'[k] = supervisor[k]
                                     /\ companion'[k] = companion[k]
                                     /\ port' = k <=> port = k
                                     /\ runtimeFile' = k => runtimeFile = k,
           companion'[l] \in Serving <=> port' = l,
           companion'[l] # "none" => supervisor'[l] \in HasSpawned,
           runtimeFile' = l \/ supervisor'[l] = "recording" => companion'[l] # "none",
           companion[l] \in Serving => companion'[l] \in Serving \cup Past,
           companion[l] \in Past => companion'[l] \in Past,
           supervisor[l] \in {"none", "pipe", "gone"} /\ companion[l] \notin Alive =>
               supervisor'[l] \in {"none", "pipe", "gone"} /\ companion'[l] \notin Alive,
           companion'[l] # "none" /\ companion[l] = "none" => port = NoLaunch
    PROVE  DesktopTypes' /\ PortInv' /\ SpawnInv' /\ OneDesktop' /\ JobInv' /\ BorrowInv'
<1>1. /\ HostTypes /\ RuntimeTypes /\ PortInv /\ SpawnInv /\ OneDesktop /\ JobInv /\ BorrowInv
      /\ UNCHANGED <<host, outcome, job, exitSignal, borrowed>>
    BY DEF DesktopIInv, DesktopTypes, hosts
<1>2. DesktopTypes'
    BY <1>1 DEF DesktopTypes, HostTypes
<1>3. OneDesktop'
    BY <1>1 DEF OneDesktop
<1>4. PortInv'
    <2> SUFFICES ASSUME NEW k \in Launches PROVE companion'[k] \in Serving <=> port' = k
        BY DEF PortInv
    <2>1. CASE k = l
        BY <2>1
    <2>2. CASE k # l
        BY <1>1, <2>2 DEF PortInv
    <2> QED BY <2>1, <2>2
<1>5. SpawnInv'
    <2> SUFFICES ASSUME NEW k \in Launches
        PROVE /\ companion'[k] # "none" => supervisor'[k] \in HasSpawned
              /\ runtimeFile' = k \/ supervisor'[k] = "recording" => companion'[k] # "none"
        BY DEF SpawnInv
    <2>1. CASE k = l
        BY <2>1
    <2>2. CASE k # l
        BY <1>1, <2>2 DEF SpawnInv
    <2> QED BY <2>1, <2>2
<1>6. JobInv'
    <2> SUFFICES ASSUME NEW k \in Launches
        PROVE /\ host[k] = "assigned" => job[k] # "empty"
              /\ host[k] # "none" /\ job[k] = "empty" =>
                    supervisor'[k] \in {"none", "pipe", "gone"} /\ companion'[k] \notin Alive
              /\ host[k] \in {"ended", "died"} /\ job[k] # "spares" =>
                    supervisor'[k] \in {"none", "pipe", "gone"} /\ companion'[k] \notin Alive
        BY <1>1 DEF JobInv
    <2>1. CASE k = l
        BY <1>1, <2>1 DEF JobInv
    <2>2. CASE k # l
        BY <1>1, <2>2 DEF JobInv
    <2> QED BY <2>1, <2>2
<1>7. BorrowInv'
    <2> SUFFICES ASSUME NEW k \in Launches, borrowed[k] # NoLaunch
        PROVE /\ companion'[borrowed[k]] \in Serving \cup Past
              /\ companion'[k] # "none" => companion'[borrowed[k]] \in Past
        BY <1>1 DEF BorrowInv
    <2>1. borrowed[k] \in Launches
        BY <1>1, LaunchFacts DEF HostTypes
    <2>2. /\ companion[borrowed[k]] \in Serving \cup Past
          /\ companion[k] # "none" => companion[borrowed[k]] \in Past
        BY <1>1 DEF BorrowInv
    <2>3. /\ companion'[borrowed[k]] \in Serving \cup Past
          /\ companion[borrowed[k]] \in Past => companion'[borrowed[k]] \in Past
        BY <2>1, <2>2
    <2>4. companion'[k] # "none" => companion[borrowed[k]] \in Past
        <3>1. CASE companion[k] # "none"
            BY <2>2, <3>1
        <3>2. CASE companion[k] = "none" /\ k = l /\ companion'[k] # "none"
            <4>1. port # borrowed[k]
                BY <3>2
            <4>2. companion[borrowed[k]] \notin Serving
                BY <1>1, <2>1, <4>1 DEF PortInv
            <4> QED BY <2>2, <4>2
        <3> QED BY <3>1, <3>2
    <2> QED BY <2>3, <2>4
<1> QED BY <1>2, <1>3, <1>4, <1>5, <1>6, <1>7

\* A Companion that was spawned stays so, and a stop command without a change keeps its facts.
LEMMA StopsStay ==
    ASSUME DesktopIInv, UNCHANGED <<hosts, stops>>,
           \A k \in Launches : companion[k] # "none" => companion'[k] # "none"
    PROVE  StopInv'
<1>1. StopInv /\ UNCHANGED <<host, outcome, stops>>
    BY DEF DesktopIInv, hosts
<1> QED BY <1>1 DEF StopInv

\* A step of a supervisor that leaves its Companion alone.
LEMMA SupervisorMoves ==
    ASSUME DesktopIInv, NEW l \in Launches, NEW stage,
           stage \in SupervisorAlive \cup {"gone"}, stage # "recording", SupervisorGoes(l, stage),
           supervisor[l] \notin {"none", "pipe", "gone"} \/ stage = "gone",
           companion[l] # "none" => stage \in HasSpawned,
           spent' \in [commands : 0..MaxStopCommands, faults : 0..MaxDesktopFaults],
           runtimeFile' \in {runtimeFile, NoLaunch, l},
           runtimeFile' = l => companion[l] # "none",
           UNCHANGED <<hosts, companion, port, stops>>
    PROVE  DesktopIInv'
<1>1. HostTypes /\ RuntimeTypes /\ StopTypes /\ PortInv /\ SpawnInv
    BY DEF DesktopIInv, DesktopTypes
<1>2. /\ supervisor' \in [Launches -> SupervisorAlive \cup {"none", "gone"}]
      /\ supervisor'[l] = stage
      /\ \A k \in Launches \ {l} : supervisor'[k] = supervisor[k]
    BY <1>1 DEF RuntimeTypes, SupervisorGoes
<1>3. RuntimeTypes'
    BY <1>1, <1>2, LaunchFacts DEF RuntimeTypes
<1>4. StopTypes'
    BY <1>1 DEF StopTypes
<1>5. StopInv'
    BY StopsStay
<1>6. \A k \in Launches \ {l} : /\ supervisor'[k] = supervisor[k]
                                /\ companion'[k] = companion[k]
                                /\ port' = k <=> port = k
                                /\ runtimeFile' = k => runtimeFile = k
    BY <1>2, LaunchFacts
<1>7. /\ companion'[l] \in Serving <=> port' = l
      /\ companion'[l] # "none" => supervisor'[l] \in HasSpawned
      /\ runtimeFile' = l \/ supervisor'[l] = "recording" => companion'[l] # "none"
    BY <1>1, <1>2 DEF PortInv
<1>8. /\ supervisor[l] \in {"none", "pipe", "gone"} /\ companion[l] \notin Alive =>
             supervisor'[l] \in {"none", "pipe", "gone"} /\ companion'[l] \notin Alive
      /\ companion'[l] = companion[l]
    BY <1>2
<1>9. DesktopTypes' /\ PortInv' /\ SpawnInv' /\ OneDesktop' /\ JobInv' /\ BorrowInv'
    BY <1>3, <1>4, <1>6, <1>7, <1>8, LaunchMoves
<1> QED BY <1>5, <1>9 DEF DesktopIInv

\* A step of a Companion that runs, and of its supervisor with it.
LEMMA CompanionMoves ==
    ASSUME DesktopIInv, NEW l \in Launches, NEW stage,
           stage \in Alive \cup {"dead"}, stage # "starting",
           companion[l] \in Alive \cup {"dead"},
           companion' = [companion EXCEPT ![l] = stage],
           companion[l] \in Past => stage \in Past,
           companion[l] = "dead" => stage = "dead",
           port' \in {port, NoLaunch, l}, port' # port => port \in {NoLaunch, l},
           stage \in Serving <=> port' = l,
           supervisor' = supervisor
              \/ (supervisor[l] \notin {"none", "pipe", "gone"} /\ SupervisorGoes(l, "removing")),
           spent' \in [commands : 0..MaxStopCommands, faults : 0..MaxDesktopFaults],
           stops' \in [Commands -> Stops],
           UNCHANGED <<hosts, runtimeFile>>
    PROVE  /\ DesktopTypes' /\ PortInv' /\ SpawnInv' /\ OneDesktop' /\ JobInv' /\ BorrowInv'
           /\ UNCHANGED stops => DesktopIInv'
<1>1. HostTypes /\ RuntimeTypes /\ PortInv /\ SpawnInv
    BY DEF DesktopIInv, DesktopTypes
<1>2. /\ companion' \in [Launches -> Alive \cup {"none", "dead"}] /\ companion'[l] = stage
      /\ \A k \in Launches \ {l} : companion'[k] = companion[k]
    BY <1>1 DEF RuntimeTypes
<1>3. /\ supervisor' \in [Launches -> SupervisorAlive \cup {"none", "gone"}]
      /\ supervisor'[l] = supervisor[l]
            \/ (supervisor[l] \notin {"none", "pipe", "gone"} /\ supervisor'[l] = "removing")
      /\ \A k \in Launches \ {l} : supervisor'[k] = supervisor[k]
    BY <1>1 DEF RuntimeTypes, SupervisorGoes, SupervisorAlive
<1>4. port' \in Commands
    BY <1>1, LaunchFacts DEF RuntimeTypes
<1>5. RuntimeTypes' /\ StopTypes'
    BY <1>1, <1>2, <1>3, <1>4 DEF RuntimeTypes, StopTypes
<1>6. \A k \in Launches \ {l} : /\ supervisor'[k] = supervisor[k]
                                /\ companion'[k] = companion[k]
                                /\ port' = k <=> port = k
                                /\ runtimeFile' = k => runtimeFile = k
    BY <1>2, <1>3, LaunchFacts
<1>7. companion[l] # "none" /\ stage # "none" /\ supervisor[l] \in HasSpawned
    BY <1>1 DEF Alive, SpawnInv
<1>8. supervisor'[l] \in HasSpawned
    BY <1>3, <1>7 DEF HasSpawned
<1>9. companion[l] \in Serving => stage \in Serving \cup Past
    BY DEF Alive, Serving, Past
<1>10. supervisor[l] \in {"none", "pipe", "gone"} /\ companion[l] \notin Alive =>
          supervisor'[l] \in {"none", "pipe", "gone"} /\ companion'[l] \notin Alive
    BY <1>2, <1>3 DEF Alive
<1>11. DesktopTypes' /\ PortInv' /\ SpawnInv' /\ OneDesktop' /\ JobInv' /\ BorrowInv'
    BY <1>2, <1>5, <1>6, <1>7, <1>8, <1>9, <1>10, LaunchMoves
<1>12. UNCHANGED stops => StopInv'
    BY <1>2, <1>7, StopsStay
<1> QED BY <1>11, <1>12 DEF DesktopIInv


LEMMA SupervisorStepsInv ==
    ASSUME DesktopIInv, NEW l \in Launches, SupervisorStep(l)
    PROVE  DesktopIInv'
<1>1. HostTypes /\ RuntimeTypes /\ StopTypes /\ PortInv /\ SpawnInv /\ BorrowInv
    BY DEF DesktopIInv, DesktopTypes
<1>2. spent \in [commands : 0..MaxStopCommands, faults : 0..MaxDesktopFaults]
    BY <1>1 DEF StopTypes
<1>3. CASE PipeCloses(l)
    BY <1>1, <1>2, <1>3, SupervisorMoves DEF PipeCloses, SpawnInv, HasSpawned
<1>4. CASE SupervisorLooks(l)
    <2>1. spent' \in [commands : 0..MaxStopCommands, faults : 0..MaxDesktopFaults]
        BY <1>1, <1>2, <1>4, FaultTypes DEF SupervisorLooks
    <2>2. companion[l] = "none" /\ runtimeFile # l
        BY <1>1, <1>4 DEF SupervisorLooks, SpawnInv, HasSpawned
    <2>3. CASE SupervisorGoes(l, "gone")
        BY <1>4, <2>1, <2>2, <2>3, SupervisorMoves DEF SupervisorLooks
    <2>4. CASE SupervisorGoes(l, "probing")
        BY <1>4, <2>1, <2>2, <2>4, SupervisorMoves DEF SupervisorLooks, SupervisorAlive
    <2> QED BY <1>4, <2>3, <2>4 DEF SupervisorLooks
<1>5. CASE SupervisorSpawns(l)
    <2>1. companion[l] = "none" /\ runtimeFile # l
        BY <1>1, <1>5 DEF SupervisorSpawns, SpawnInv, HasSpawned
    <2>2. CASE port # NoLaunch
        BY <1>2, <1>5, <2>1, <2>2, SupervisorMoves DEF SupervisorSpawns
    <2>3. CASE port = NoLaunch
        <3>1. /\ SupervisorGoes(l, "recording")
              /\ companion' = [companion EXCEPT ![l] = "starting"]
              /\ UNCHANGED <<hosts, port, runtimeFile, stops, spent>>
              /\ supervisor[l] = "probing"
            BY <1>5, <2>3 DEF SupervisorSpawns
        <3>2. /\ companion' \in [Launches -> Alive \cup {"none", "dead"}]
              /\ companion'[l] = "starting"
              /\ \A k \in Launches \ {l} : companion'[k] = companion[k]
            BY <1>1, <3>1 DEF RuntimeTypes, Alive
        <3>3. /\ supervisor' \in [Launches -> SupervisorAlive \cup {"none", "gone"}]
              /\ supervisor'[l] = "recording"
              /\ \A k \in Launches \ {l} : supervisor'[k] = supervisor[k]
            BY <1>1, <3>1 DEF RuntimeTypes, SupervisorGoes, SupervisorAlive
        <3>4. RuntimeTypes' /\ StopTypes'
            BY <1>1, <3>1, <3>2, <3>3 DEF RuntimeTypes, StopTypes
        <3>5. \A k \in Launches \ {l} : /\ supervisor'[k] = supervisor[k]
                                        /\ companion'[k] = companion[k]
                                        /\ port' = k <=> port = k
                                        /\ runtimeFile' = k => runtimeFile = k
            BY <3>1, <3>2, <3>3
        <3>6. companion'[l] \in Serving <=> port' = l
            BY <2>3, <3>1, <3>2, LaunchFacts DEF Serving
        <3>7. companion[l] \notin Serving /\ companion[l] \notin Past
            BY <2>1 DEF Serving, Past
        <3>8. supervisor'[l] \in HasSpawned
            BY <3>3 DEF HasSpawned
        <3>9. DesktopTypes' /\ PortInv' /\ SpawnInv' /\ OneDesktop' /\ JobInv' /\ BorrowInv'
            BY <2>3, <3>1, <3>2, <3>4, <3>5, <3>6, <3>7, <3>8, LaunchMoves
        <3>10. StopInv'
            BY <3>1, <3>2, StopsStay
        <3> QED BY <3>9, <3>10 DEF DesktopIInv
    <2> QED BY <2>2, <2>3
<1>6. CASE SupervisorRecords(l)
    BY <1>1, <1>2, <1>6, SupervisorMoves
       DEF SupervisorRecords, SpawnInv, HasSpawned, SupervisorAlive
<1>7. CASE SupervisorSeesReady(l)
    <2>1. runtimeFile = l => companion[l] # "none"
        BY <1>1 DEF SpawnInv
    <2> QED BY <1>2, <1>7, <2>1, SupervisorMoves
            DEF SupervisorSeesReady, HasSpawned, SupervisorAlive
<1>8. CASE SupervisorEnds(l)
    <2>1. /\ supervisor[l] \in {"waiting", "watching"} /\ SupervisorGoes(l, "removing")
          /\ port' = IF port = l THEN NoLaunch ELSE port
          /\ UNCHANGED <<hosts, runtimeFile, stops, spent>>
        BY <1>8 DEF SupervisorEnds
    <2>2. CASE companion[l] \in Alive \cup {"dead"}
        <3>1. companion' = [companion EXCEPT ![l] = "dead"]
            BY <1>8, <2>2 DEF SupervisorEnds
        <3>2. port' \in {port, NoLaunch, l} /\ (port' # port => port \in {NoLaunch, l})
              /\ port' # l /\ "dead" \notin Serving /\ "dead" \in Past
            BY <2>1, LaunchFacts DEF Serving, Past
        <3>3. stops' \in [Commands -> Stops] /\ spent' = spent /\ stops' = stops
            BY <1>1, <2>1 DEF StopTypes
        <3> QED BY <1>2, <2>1, <2>2, <3>1, <3>2, <3>3, CompanionMoves
    <2>3. CASE companion[l] = "none"
        <3>1. companion' = companion
            BY <1>1, <1>8, <2>3 DEF SupervisorEnds, Alive, RuntimeTypes
        <3>2. port' = port
            BY <1>1, <2>1, <2>3 DEF PortInv, Serving
        <3>3. runtimeFile # l
            BY <1>1, <2>3 DEF SpawnInv
        <3> QED BY <1>2, <2>1, <2>3, <3>1, <3>2, <3>3, SupervisorMoves DEF SupervisorAlive
    <2> QED BY <1>1, <2>2, <2>3 DEF RuntimeTypes
<1>9. CASE SupervisorCleansUp(l)
    BY <1>2, <1>9, LaunchFacts, SupervisorMoves DEF SupervisorCleansUp, HasSpawned
<1> QED BY <1>3, <1>4, <1>5, <1>6, <1>7, <1>8, <1>9 DEF SupervisorStep

LEMMA CompanionStepsInv ==
    ASSUME DesktopIInv, NEW l \in Launches,
           \/ CompanionListens(l) \/ CompanionCloses(l) \/ CompanionEnds(l) \/ CompanionCrashes(l)
    PROVE  DesktopIInv'
<1>1. RuntimeTypes /\ StopTypes /\ PortInv
    BY DEF DesktopIInv, DesktopTypes
<1>2. /\ spent \in [commands : 0..MaxStopCommands, faults : 0..MaxDesktopFaults]
      /\ stops \in [Commands -> Stops]
    BY <1>1 DEF StopTypes
<1>3. CASE CompanionListens(l)
    <2>1. CASE port = NoLaunch
        <3>1. /\ companion[l] = "starting"
              /\ companion' = [companion EXCEPT ![l] = "listening"] /\ port' = l
              /\ UNCHANGED <<hosts, supervisor, runtimeFile, stops, spent>>
            BY <1>3, <2>1 DEF CompanionListens
        <3>2. "starting" \notin Past /\ "listening" \in Serving /\ "listening" \in Alive
              /\ "starting" \in Alive
            BY DEF Past, Serving, Alive
        <3> QED BY <1>2, <2>1, <3>1, <3>2, CompanionMoves
    <2>2. CASE port # NoLaunch
        <3>1. /\ companion[l] = "starting"
              /\ companion' = [companion EXCEPT ![l] = "dead"] /\ port' = port
              /\ UNCHANGED <<hosts, supervisor, runtimeFile, stops, spent>>
            BY <1>3, <2>2 DEF CompanionListens
        <3>2. /\ "starting" \notin Past /\ "dead" \notin Serving /\ "starting" \in Alive
              /\ "starting" \notin Serving /\ "dead" \in Past
            BY DEF Past, Serving, Alive
        <3>3. port # l
            BY <1>1, <3>1, <3>2 DEF PortInv
        <3> QED BY <1>2, <3>1, <3>2, <3>3, CompanionMoves
    <2> QED BY <2>1, <2>2
<1>4. CASE CompanionCloses(l)
    <2>1. /\ companion[l] = "stopping"
          /\ companion' = [companion EXCEPT ![l] = "finalizing"] /\ port' = NoLaunch
          /\ UNCHANGED <<hosts, supervisor, runtimeFile, stops, spent>>
        BY <1>4 DEF CompanionCloses
    <2>2. /\ "stopping" \notin Past /\ "finalizing" \notin Serving /\ "stopping" \in Alive
          /\ "stopping" \in Serving /\ "finalizing" \in Alive
        BY DEF Past, Serving, Alive
    <2>3. port = l /\ port' # l
        BY <1>1, <2>1, <2>2, LaunchFacts DEF PortInv
    <2> QED BY <1>2, <2>1, <2>2, <2>3, CompanionMoves
<1>5. CASE CompanionEnds(l)
    <2>1. /\ companion[l] = "finalizing"
          /\ companion' = [companion EXCEPT ![l] = "dead"] /\ port' = port
          /\ UNCHANGED <<hosts, supervisor, runtimeFile, stops, spent>>
        BY <1>5 DEF CompanionEnds
    <2>2. /\ "dead" \in Past /\ "finalizing" \notin Serving /\ "finalizing" \in Alive
          /\ "dead" \notin Serving
        BY DEF Past, Serving, Alive
    <2>3. port # l
        BY <1>1, <2>1, <2>2 DEF PortInv
    <2> QED BY <1>2, <2>1, <2>2, <2>3, CompanionMoves
<1>6. CASE CompanionCrashes(l)
    <2>1. /\ companion[l] \in Alive /\ Fault
          /\ companion' = [companion EXCEPT ![l] = "dead"]
          /\ port' = IF port = l THEN NoLaunch ELSE port
          /\ UNCHANGED <<hosts, supervisor, runtimeFile, stops>>
        BY <1>6 DEF CompanionCrashes
    <2>2. spent' \in [commands : 0..MaxStopCommands, faults : 0..MaxDesktopFaults]
        BY <1>1, <2>1, FaultTypes
    <2>3. "dead" \in Past /\ "dead" \notin Serving
        BY DEF Past, Serving
    <2>4. port' \in {port, NoLaunch, l} /\ (port' # port => port \in {NoLaunch, l}) /\ port' # l
        BY <2>1, LaunchFacts
    <2> QED BY <1>2, <2>1, <2>2, <2>3, <2>4, CompanionMoves
<1> QED BY <1>3, <1>4, <1>5, <1>6


-----------------------------------------------------------------------------
(* Stop commands *)

\* A step of one stop command that leaves everything else alone, but for what a desktop is told.
LEMMA StopMoves ==
    ASSUME DesktopIInv, NEW c \in Commands, NEW stop \in Stops,
           stops' = [stops EXCEPT ![c] = stop],
           c \in Launches /\ stop.stage # "none" => stops[c].stage # "none",
           stop.stage \in {"asking", "waiting"} => stop.target # NoLaunch,
           spent' \in [commands : 0..MaxStopCommands, faults : 0..MaxDesktopFaults],
           exitSignal' \in BOOLEAN,
           UNCHANGED <<host, outcome, job, borrowed, runtimeVars>>
    PROVE  DesktopIInv'
<1>1. /\ HostTypes /\ RuntimeTypes /\ StopTypes /\ PortInv /\ SpawnInv /\ OneDesktop /\ JobInv
      /\ StopInv /\ BorrowInv
      /\ UNCHANGED <<host, outcome, job, borrowed, supervisor, companion, port, runtimeFile>>
    BY DEF DesktopIInv, DesktopTypes, runtimeVars
<1>2. /\ stops' \in [Commands -> Stops] /\ stops'[c] = stop
      /\ \A d \in Commands \ {c} : stops'[d] = stops[d]
    BY <1>1 DEF StopTypes
<1>3. DesktopTypes'
    BY <1>1, <1>2 DEF DesktopTypes, HostTypes, RuntimeTypes, StopTypes
<1>4. PortInv' /\ SpawnInv' /\ OneDesktop' /\ JobInv' /\ BorrowInv'
    BY <1>1 DEF PortInv, SpawnInv, OneDesktop, JobInv, BorrowInv
<1>5. StopInv'
    <2>1. ASSUME NEW l \in Launches, stops'[l].stage # "none"
          PROVE  /\ host[l] \in {"stopping", "terminating", "died"}
                 /\ outcome[l] = "failed" => companion[l] # "none"
        <3>1. stops[l].stage # "none"
            BY <1>2, <2>1, LaunchFacts
        <3> QED BY <1>1, <3>1 DEF StopInv
    <2>2. ASSUME NEW d \in Commands, stops'[d].stage \in {"asking", "waiting"}
          PROVE  stops'[d].target # NoLaunch
        BY <1>1, <1>2, <2>2 DEF StopInv
    <2> QED BY <1>1, <2>1, <2>2 DEF StopInv
<1> QED BY <1>3, <1>4, <1>5 DEF DesktopIInv

LEMMA StopStepsInv ==
    ASSUME DesktopIInv, NEW c \in Commands, StopStep(c)
    PROVE  DesktopIInv'
<1>1. HostTypes /\ RuntimeTypes /\ StopTypes /\ PortInv /\ StopInv
    BY DEF DesktopIInv, DesktopTypes
<1>2. /\ stops \in [Commands -> Stops] /\ stops[c] \in Stops /\ exitSignal \in BOOLEAN
      /\ stops[c].target \in Commands
      /\ spent \in [commands : 0..MaxStopCommands, faults : 0..MaxDesktopFaults]
    BY <1>1 DEF StopTypes, HostTypes, Stops
<1>3. ASSUME UNCHANGED hosts
      PROVE  UNCHANGED <<host, outcome, job, borrowed>> /\ exitSignal' \in BOOLEAN
    BY <1>2, <1>3 DEF hosts
<1>4. \A how \in {"failed", "stopped"} : [stage |-> how, target |-> NoLaunch] \in Stops
    BY LaunchFacts DEF Stops, StopStages
<1>5. CASE StopReads(c)
    <2> DEFINE stop == [stage |-> IF runtimeFile = NoLaunch THEN "failed" ELSE "asking",
                        target |-> runtimeFile]
    <2>1. stop \in Stops /\ (stop.stage \in {"asking", "waiting"} => stop.target # NoLaunch)
        BY <1>1 DEF RuntimeTypes, Stops, StopStages
    <2>2. stops' = [stops EXCEPT ![c] = stop] /\ stops[c].stage = "reading"
          /\ UNCHANGED <<hosts, runtimeVars, spent>>
        BY <1>5 DEF StopReads
    <2> HIDE DEF stop
    <2> QED BY <1>2, <1>3, <2>1, <2>2, StopMoves
<1>6. CASE StopAsks(c)
    <2>1. CASE port = stops[c].target
        <3>1. /\ stops' = [stops EXCEPT ![c].stage = "waiting"] /\ stops[c].stage = "asking"
              /\ companion' = [companion EXCEPT ![port] = "stopping"]
              /\ UNCHANGED <<hosts, supervisor, port, runtimeFile, spent>>
            BY <1>6, <2>1 DEF StopAsks, StopGoes
        <3>2. port \in Launches
            BY <1>1, <1>2, <2>1, <3>1, LaunchFacts DEF StopInv
        <3>3. companion[port] \in Serving
            BY <1>1, <3>2 DEF PortInv
        <3>4. /\ stops' \in [Commands -> Stops]
              /\ \A d \in Commands : /\ stops'[d].stage # "none" => stops[d].stage # "none"
                                     /\ stops'[d].target = stops[d].target
                                     /\ d # c => stops'[d] = stops[d]
            BY <1>2, <3>1 DEF Stops, StopStages
        <3>5. /\ companion[port] \in Alive /\ companion[port] \notin Past
              /\ companion[port] # "dead" /\ "stopping" \in Serving /\ "stopping" \in Alive
            BY <3>3 DEF Serving, Past, Alive
        <3>6. DesktopTypes' /\ PortInv' /\ SpawnInv' /\ OneDesktop' /\ JobInv' /\ BorrowInv'
            BY <1>2, <3>1, <3>2, <3>4, <3>5, CompanionMoves
        <3>7. StopInv'
            <4>1. UNCHANGED <<host, outcome>>
                BY <3>1 DEF hosts
            <4>2. \A l \in Launches : companion[l] # "none" => companion'[l] # "none"
                BY <1>1, <3>1, <3>2 DEF RuntimeTypes
            <4>3. \A l \in Launches : stops'[l].stage # "none" => stops[l].stage # "none"
                BY <3>4, LaunchFacts
            <4>4. ASSUME NEW d \in Commands, stops'[d].stage \in {"asking", "waiting"}
                  PROVE  stops'[d].target # NoLaunch
                BY <1>1, <3>1, <3>4, <4>4 DEF StopInv
            <4> QED BY <1>1, <4>1, <4>2, <4>3, <4>4 DEF StopInv
        <3> QED BY <3>6, <3>7 DEF DesktopIInv
    <2>2. CASE port # stops[c].target
        <3>1. /\ stops' = [stops EXCEPT ![c] = [stage |-> "failed", target |-> NoLaunch]]
              /\ UNCHANGED <<hosts, runtimeVars, spent>> /\ stops[c].stage = "asking"
            BY <1>6, <2>2 DEF StopAsks, StopEnds, runtimeVars
        <3> QED BY <1>2, <1>3, <1>4, <3>1, StopMoves
    <2> QED BY <2>1, <2>2
<1>7. CASE StopReturns(c)
    <2>1. spent' \in [commands : 0..MaxStopCommands, faults : 0..MaxDesktopFaults]
        BY <1>1, <1>2, <1>7, FaultTypes DEF StopReturns
    <2>2. /\ stops' = [stops EXCEPT ![c] = [stage |-> "stopped", target |-> NoLaunch]]
          /\ UNCHANGED <<hosts, runtimeVars>> /\ stops[c].stage = "waiting"
        BY <1>7 DEF StopReturns, StopEnds
    <2> QED BY <1>2, <1>3, <1>4, <2>1, <2>2, StopMoves
<1>8. CASE StopGivesUp(c)
    <2>1. /\ stops' = [stops EXCEPT ![c] = [stage |-> "failed", target |-> NoLaunch]]
          /\ UNCHANGED <<hosts, runtimeVars, spent>> /\ stops[c].stage # "none"
        BY <1>8 DEF StopGivesUp, StopEnds
    <2> QED BY <1>2, <1>3, <1>4, <2>1, StopMoves
<1> QED BY <1>5, <1>6, <1>7, <1>8 DEF StopStep

LEMMA CliInv ==
    ASSUME DesktopIInv, CliStops \/ CliEnds
    PROVE  DesktopIInv'
<1>1. HostTypes /\ StopTypes /\ StopInv /\ NoLaunch \in Commands /\ NoLaunch \notin Launches
    BY LaunchFacts DEF DesktopIInv, DesktopTypes
<1>2. /\ stops \in [Commands -> Stops] /\ stops[NoLaunch] \in Stops /\ exitSignal \in BOOLEAN
      /\ spent \in [commands : 0..MaxStopCommands, faults : 0..MaxDesktopFaults]
    BY <1>1 DEF StopTypes, HostTypes
<1>3. CASE CliStops
    <2> DEFINE stop == [stops[NoLaunch] EXCEPT !.stage = "reading"]
    <2>1. stop \in Stops /\ stop.stage = "reading"
        BY <1>2 DEF Stops, StopStages
    <2>2. stops' = [stops EXCEPT ![NoLaunch] = stop]
          /\ UNCHANGED <<host, outcome, job, borrowed, exitSignal, runtimeVars>>
        BY <1>3 DEF CliStops, hosts
    <2>3. spent' \in [commands : 0..MaxStopCommands, faults : 0..MaxDesktopFaults]
        <3>1. MaxStopCommands \in Nat
            BY DesktopAssumption
        <3>2. spent.commands \in 0..MaxStopCommands /\ spent.commands < MaxStopCommands
            BY <1>2, <1>3 DEF CliStops
        <3>3. spent.commands + 1 \in 0..MaxStopCommands
            BY <3>1, <3>2
        <3>4. spent' = [spent EXCEPT !.commands = spent.commands + 1]
            BY <1>3 DEF CliStops
        <3> QED BY <1>2, <3>3, <3>4
    <2> HIDE DEF stop
    <2> QED BY <1>1, <1>2, <2>1, <2>2, <2>3, StopMoves
<1>4. CASE CliEnds
    <2>1. NoStop \in Stops /\ NoStop.stage = "none"
        BY <1>1 DEF NoStop, Stops, StopStages
    <2>2. stops' = [stops EXCEPT ![NoLaunch] = NoStop]
          /\ UNCHANGED <<host, outcome, job, borrowed, runtimeVars, spent>>
          /\ exitSignal' \in BOOLEAN
        BY <1>2, <1>4 DEF CliEnds
    <2> QED BY <1>1, <1>2, <2>1, <2>2, StopMoves
<1> QED BY <1>3, <1>4


-----------------------------------------------------------------------------
(* Steps of a host that reach its supervisor, its Companion or its stop command *)

\* All of them: what a Companion may undergo is its end, and what a launch finds is the
\* Companion at the port.
LEMMA HostReaches ==
    ASSUME DesktopIInv, NEW l \in Launches, HostTypes', RuntimeTypes', StopTypes',
           \A k \in Launches \ {l} : /\ host'[k] = host[k] /\ outcome'[k] = outcome[k]
                                     /\ job'[k] = job[k] /\ borrowed'[k] = borrowed[k]
                                     /\ supervisor'[k] = supervisor[k]
                                     /\ companion'[k] = companion[k]
                                     /\ port' = k <=> port = k,
           \A c \in Commands \ {l} : stops'[c] = stops[c],
           UNCHANGED runtimeFile,
           companion'[l] = companion[l] \/ (companion[l] \in Alive /\ companion'[l] = "dead"),
           companion'[l] \in Serving <=> port' = l,
           host'[l] \in HostAlive => host[l] \in HostAlive \/ ~DesktopIsUp,
           companion[l] # "none" => supervisor'[l] \in HasSpawned,
           supervisor'[l] = "recording" => supervisor[l] = "recording",
           host'[l] = "assigned" => job'[l] # "empty",
           \/ host'[l] # "none" /\ job'[l] = "empty"
           \/ host'[l] \in {"ended", "died"} /\ job'[l] # "spares"
           => supervisor'[l] \in {"none", "pipe", "gone"} /\ companion'[l] \notin Alive,
           stops'[l].stage # "none" =>
               /\ host'[l] \in {"stopping", "terminating", "died"}
               /\ outcome'[l] = "failed" => companion'[l] # "none",
           stops'[l].stage \in {"asking", "waiting"} => stops'[l].target # NoLaunch,
           borrowed'[l] \in {borrowed[l], NoLaunch}
              \/ (borrowed'[l] = port /\ companion[l] = "none")
    PROVE  DesktopIInv'
<1>1. /\ HostTypes /\ RuntimeTypes /\ StopTypes /\ PortInv /\ SpawnInv /\ OneDesktop /\ JobInv
      /\ StopInv /\ BorrowInv
    BY DEF DesktopIInv, DesktopTypes
<1>2. DesktopTypes'
    BY DEF DesktopTypes
<1>3. PortInv'
    <2> SUFFICES ASSUME NEW k \in Launches PROVE companion'[k] \in Serving <=> port' = k
        BY DEF PortInv
    <2>1. CASE k = l
        BY <2>1
    <2>2. CASE k # l
        BY <1>1, <2>2 DEF PortInv
    <2> QED BY <2>1, <2>2
<1>4. \A k \in Launches : /\ companion[k] # "none" <=> companion'[k] # "none"
                          /\ companion[k] \in Past => companion'[k] \in Past
                          /\ companion[k] \in Serving => companion'[k] \in Serving \cup Past
    <2> SUFFICES ASSUME NEW k \in Launches
        PROVE /\ companion[k] # "none" <=> companion'[k] # "none"
              /\ companion[k] \in Past => companion'[k] \in Past
              /\ companion[k] \in Serving => companion'[k] \in Serving \cup Past
        OBVIOUS
    <2>1. CASE companion'[k] = companion[k]
        BY <2>1
    <2>2. CASE companion[k] \in Alive /\ companion'[k] = "dead"
        BY <2>2 DEF Alive, Past
    <2> QED BY <2>1, <2>2
<1>5. SpawnInv'
    <2> SUFFICES ASSUME NEW k \in Launches
        PROVE /\ companion'[k] # "none" => supervisor'[k] \in HasSpawned
              /\ runtimeFile = k \/ supervisor'[k] = "recording" => companion'[k] # "none"
        BY DEF SpawnInv
    <2>1. CASE k = l
        BY <1>1, <1>4, <2>1 DEF SpawnInv
    <2>2. CASE k # l
        BY <1>1, <2>2 DEF SpawnInv
    <2> QED BY <2>1, <2>2
<1>6. OneDesktop'
    <2> SUFFICES ASSUME NEW j \in Launches, NEW k \in Launches,
                        host'[j] \in HostAlive, host'[k] \in HostAlive
        PROVE j = k
        BY DEF OneDesktop
    <2>1. CASE host[l] \in HostAlive
        BY <1>1, <2>1 DEF OneDesktop
    <2>2. CASE host'[l] \in HostAlive /\ ~DesktopIsUp
        BY <2>2 DEF DesktopIsUp
    <2>3. CASE host'[l] \notin HostAlive
        BY <1>1, <2>3 DEF OneDesktop
    <2> QED BY <2>1, <2>2, <2>3
<1>7. JobInv'
    <2> SUFFICES ASSUME NEW k \in Launches
        PROVE /\ host'[k] = "assigned" => job'[k] # "empty"
              /\ host'[k] # "none" /\ job'[k] = "empty" =>
                    supervisor'[k] \in {"none", "pipe", "gone"} /\ companion'[k] \notin Alive
              /\ host'[k] \in {"ended", "died"} /\ job'[k] # "spares" =>
                    supervisor'[k] \in {"none", "pipe", "gone"} /\ companion'[k] \notin Alive
        BY DEF JobInv
    <2>1. CASE k = l
        BY <2>1
    <2>2. CASE k # l
        BY <1>1, <2>2 DEF JobInv
    <2> QED BY <2>1, <2>2
<1>8. StopInv'
    <2>1. ASSUME NEW k \in Launches, stops'[k].stage # "none"
          PROVE  /\ host'[k] \in {"stopping", "terminating", "died"}
                 /\ outcome'[k] = "failed" => companion'[k] # "none"
        <3>1. CASE k = l
            BY <2>1, <3>1
        <3>2. CASE k # l
            BY <1>1, <2>1, <3>2, LaunchFacts DEF StopInv
        <3> QED BY <3>1, <3>2
    <2>2. ASSUME NEW c \in Commands, stops'[c].stage \in {"asking", "waiting"}
          PROVE  stops'[c].target # NoLaunch
        <3>1. CASE c = l
            BY <2>2, <3>1
        <3>2. CASE c # l
            BY <1>1, <2>2, <3>2 DEF StopInv
        <3> QED BY <3>1, <3>2
    <2> QED BY <2>1, <2>2 DEF StopInv
<1>9. BorrowInv'
    <2> SUFFICES ASSUME NEW k \in Launches, borrowed'[k] # NoLaunch
        PROVE /\ companion'[borrowed'[k]] \in Serving \cup Past
              /\ companion'[k] # "none" => companion'[borrowed'[k]] \in Past
        BY DEF BorrowInv
    <2>1. borrowed'[k] \in Launches
        BY LaunchFacts DEF HostTypes
    <2>2. CASE borrowed'[k] = borrowed[k]
        BY <1>1, <1>4, <2>1, <2>2 DEF BorrowInv
    <2>3. CASE borrowed'[k] = port /\ companion[k] = "none"
        BY <1>1, <1>4, <2>1, <2>3 DEF PortInv
    <2> QED BY <2>2, <2>3
<1> QED BY <1>2, <1>3, <1>5, <1>6, <1>7, <1>8, <1>9 DEF DesktopIInv


LEMMA TerminatedFacts ==
    ASSUME RuntimeTypes, PortInv, SpawnInv, NEW l \in Launches,
           NEW K \in SUBSET {l}, NEW C \in SUBSET {l}, Terminated(K, C)
    PROVE  /\ RuntimeTypes' /\ UNCHANGED runtimeFile
           /\ \A k \in Launches \ {l} : /\ supervisor'[k] = supervisor[k]
                                        /\ companion'[k] = companion[k]
                                        /\ port' = k <=> port = k
           /\ companion'[l] = companion[l] \/ (companion[l] \in Alive /\ companion'[l] = "dead")
           /\ companion'[l] \in Serving <=> port' = l
           /\ companion[l] # "none" => supervisor'[l] \in HasSpawned
           /\ supervisor'[l] = "recording" => supervisor[l] = "recording"
           /\ supervisor'[l] = supervisor[l] \/ supervisor'[l] = "gone"
           /\ l \in K => supervisor'[l] \in {"none", "pipe", "gone"}
           /\ l \in C => companion'[l] \notin Alive
<1>1. /\ \A k \in Launches : supervisor'[k] =
             IF k \in K /\ supervisor[k] \in SupervisorAlive THEN "gone" ELSE supervisor[k]
      /\ \A k \in Launches : companion'[k] =
             IF k \in C /\ companion[k] \in Alive THEN "dead" ELSE companion[k]
      /\ port' = IF port \in C THEN NoLaunch ELSE port
      /\ UNCHANGED runtimeFile
    BY DEF Terminated
<1>2. supervisor' \in [Launches -> SupervisorAlive \cup {"none", "gone"}]
    <2>1. \A k \in Launches : supervisor'[k] \in SupervisorAlive \cup {"none", "gone"}
        BY <1>1 DEF RuntimeTypes
    <2> QED BY <2>1 DEF Terminated
<1>3. companion' \in [Launches -> Alive \cup {"none", "dead"}]
    <2>1. \A k \in Launches : companion'[k] \in Alive \cup {"none", "dead"}
        BY <1>1 DEF RuntimeTypes
    <2> QED BY <2>1 DEF Terminated
<1>4. RuntimeTypes'
    BY <1>1, <1>2, <1>3, LaunchFacts DEF RuntimeTypes
<1>5. \A k \in Launches \ {l} : /\ supervisor'[k] = supervisor[k]
                                /\ companion'[k] = companion[k]
                                /\ port' = k <=> port = k
    BY <1>1, LaunchFacts
<1>6. /\ companion'[l] = companion[l] \/ (companion[l] \in Alive /\ companion'[l] = "dead")
      /\ supervisor'[l] = supervisor[l] \/ supervisor'[l] = "gone"
    BY <1>1
<1>7. companion'[l] \in Serving <=> port' = l
    <2>1. CASE l \in C
        <3>1. port' # l
            BY <1>1, <2>1, LaunchFacts
        <3>2. companion'[l] \notin Alive
            BY <1>1, <2>1 DEF Alive
        <3> QED BY <3>1, <3>2 DEF Serving, Alive
    <2>2. CASE l \notin C
        BY <1>1, <2>2 DEF PortInv
    <2> QED BY <2>1, <2>2
<1>8. companion[l] # "none" => supervisor'[l] \in HasSpawned
    BY <1>6 DEF SpawnInv, HasSpawned
<1>9. l \in K => supervisor'[l] \in {"none", "pipe", "gone"}
    BY <1>1 DEF RuntimeTypes
<1>10. l \in C => companion'[l] \notin Alive
    BY <1>1 DEF Alive
<1> QED BY <1>1, <1>4, <1>5, <1>6, <1>7, <1>8, <1>9, <1>10

LEMMA HostEndsInv ==
    ASSUME DesktopIInv, NEW l \in Launches, HostTerminates(l) \/ HostDies(l)
    PROVE  DesktopIInv'
<1>1. HostTypes /\ RuntimeTypes /\ StopTypes /\ PortInv /\ SpawnInv /\ JobInv /\ StopInv
    BY DEF DesktopIInv, DesktopTypes
<1>2. ASSUME NEW how, how \in {"ended", "died"}, HostIsGone(l, how)
      PROVE  /\ host' \in [Launches -> HostStages] /\ host'[l] = how /\ how \notin HostAlive
             /\ outcome' \in [Launches -> {"pending", "ok", "failed"}] /\ outcome'[l] = "pending"
             /\ borrowed' \in [Launches -> Commands] /\ borrowed'[l] = NoLaunch
             /\ \A k \in Launches \ {l} : /\ host'[k] = host[k] /\ outcome'[k] = outcome[k]
                                          /\ borrowed'[k] = borrowed[k]
    BY <1>1, <1>2, LaunchFacts DEF HostTypes, HostIsGone, HostGoes, HostStages, HostAlive
<1>3. CASE HostTerminates(l)
    <2>1. /\ host[l] = "terminating" /\ HostIsGone(l, "ended")
          /\ stops' = [stops EXCEPT ![l] = NoStop] /\ UNCHANGED exitSignal
        BY <1>3 DEF HostTerminates
    <2>2. PICK reached \in SUBSET {l} :
             /\ Terminated({l}, reached)
             /\ job' \in [Launches -> {"empty", "kills", "spares"}]
             /\ \A k \in Launches \ {l} : job'[k] = job[k]
             /\ job'[l] # "spares" => reached = InTheJob(l)
             /\ spent' \in [commands : 0..MaxStopCommands, faults : 0..MaxDesktopFaults]
        <3>1. CASE /\ Terminated({l}, InTheJob(l)) /\ UNCHANGED spent
                   /\ job' = [job EXCEPT ![l] = "empty"]
            <4>1. InTheJob(l) \in SUBSET {l}
                BY DEF InTheJob
            <4> QED BY <1>1, <3>1, <4>1 DEF HostTypes, StopTypes
        <3>2. CASE /\ job[l] = "spares" /\ Fault /\ Terminated({l}, {}) /\ UNCHANGED job
            BY <1>1, <3>2, FaultTypes DEF HostTypes
        <3> QED BY <1>3, <3>1, <3>2 DEF HostTerminates
    <2>3. NoStop \in Stops /\ NoStop.stage = "none"
        BY LaunchFacts DEF NoStop, Stops, StopStages
    <2>4. /\ stops' \in [Commands -> Stops] /\ stops'[l].stage = "none"
          /\ \A c \in Commands \ {l} : stops'[c] = stops[c]
        BY <1>1, <2>1, <2>3, LaunchFacts DEF StopTypes
    <2>5. HostTypes' /\ StopTypes'
        BY <1>1, <1>2, <2>1, <2>2, <2>4 DEF HostTypes, StopTypes
    <2>6. {l} \in SUBSET {l} /\ reached \in SUBSET {l}
        BY <2>2
    <2>7. job'[l] # "spares" => companion'[l] \notin Alive
        <3>1. CASE job[l] = "empty"
            <4>1. companion[l] \notin Alive
                BY <1>1, <2>1, <3>1 DEF JobInv
            <4>2. companion'[l] = companion[l] \/ companion'[l] = "dead"
                BY <1>1, <2>2, <2>6, TerminatedFacts
            <4> QED BY <4>1, <4>2 DEF Alive
        <3>2. CASE job[l] # "empty" /\ job'[l] # "spares"
            BY <1>1, <2>2, <2>6, <3>2, TerminatedFacts DEF InTheJob
        <3> QED BY <3>1, <3>2
    <2>8. supervisor'[l] \in {"none", "pipe", "gone"}
        BY <1>1, <2>2, <2>6, TerminatedFacts
    <2>11. job'[l] = "empty" => job'[l] # "spares"
        OBVIOUS
    <2>9. /\ RuntimeTypes' /\ UNCHANGED runtimeFile
          /\ \A k \in Launches \ {l} : /\ supervisor'[k] = supervisor[k]
                                       /\ companion'[k] = companion[k]
                                       /\ port' = k <=> port = k
          /\ companion'[l] = companion[l] \/ (companion[l] \in Alive /\ companion'[l] = "dead")
          /\ companion'[l] \in Serving <=> port' = l
          /\ companion[l] # "none" => supervisor'[l] \in HasSpawned
          /\ supervisor'[l] = "recording" => supervisor[l] = "recording"
        BY <1>1, <2>2, <2>6, TerminatedFacts
    <2>10. /\ host'[l] = "ended" /\ "ended" \notin HostAlive /\ outcome'[l] = "pending"
          /\ borrowed'[l] = NoLaunch
          /\ \A k \in Launches \ {l} : /\ host'[k] = host[k] /\ outcome'[k] = outcome[k]
                                       /\ borrowed'[k] = borrowed[k]
        BY <1>2, <2>1
    <2> QED BY <2>2, <2>4, <2>5, <2>7, <2>8, <2>9, <2>10, <2>11, HostReaches
<1>4. CASE HostDies(l)
    <2> DEFINE taken == IF job[l] = "kills" THEN {l} ELSE {}
    <2>1. /\ host[l] \in HostAlive /\ Fault /\ HostIsGone(l, "died") /\ Terminated(taken, taken)
          /\ UNCHANGED <<job, exitSignal, stops>>
        BY <1>4 DEF HostDies
    <2>2. taken \in SUBSET {l}
        OBVIOUS
    <2>3. spent' \in [commands : 0..MaxStopCommands, faults : 0..MaxDesktopFaults]
        BY <1>1, <2>1, FaultTypes
    <2>4. HostTypes' /\ StopTypes'
        BY <1>1, <1>2, <2>1, <2>3 DEF HostTypes, StopTypes
    <2>5. job'[l] # "spares" =>
              supervisor'[l] \in {"none", "pipe", "gone"} /\ companion'[l] \notin Alive
        <3>1. CASE job[l] = "empty"
            <4>1. companion[l] \notin Alive /\ supervisor[l] \in {"none", "pipe", "gone"}
                BY <1>1, <2>1, <3>1 DEF JobInv, HostAlive
            <4>2. companion'[l] = companion[l] /\ supervisor'[l] = supervisor[l]
                BY <2>1, <3>1 DEF Terminated
            <4> QED BY <4>1, <4>2
        <3>2. CASE job[l] = "kills"
            <4>1. l \in taken
                BY <3>2
            <4> HIDE DEF taken
            <4> QED BY <1>1, <2>1, <2>2, <4>1, TerminatedFacts
        <3> QED BY <1>1, <2>1, <3>1, <3>2 DEF HostTypes
    <2>6. /\ stops'[l].stage \in {"asking", "waiting"} => stops'[l].target # NoLaunch
          /\ \A c \in Commands \ {l} : stops'[c] = stops[c]
        BY <1>1, <2>1, LaunchFacts DEF StopInv
    <2>7. \A k \in Launches \ {l} : job'[k] = job[k]
        BY <2>1
    <2> HIDE DEF taken
    <2>9. /\ RuntimeTypes' /\ UNCHANGED runtimeFile
          /\ \A k \in Launches \ {l} : /\ supervisor'[k] = supervisor[k]
                                       /\ companion'[k] = companion[k]
                                       /\ port' = k <=> port = k
          /\ companion'[l] = companion[l] \/ (companion[l] \in Alive /\ companion'[l] = "dead")
          /\ companion'[l] \in Serving <=> port' = l
          /\ companion[l] # "none" => supervisor'[l] \in HasSpawned
          /\ supervisor'[l] = "recording" => supervisor[l] = "recording"
        BY <1>1, <2>1, <2>2, TerminatedFacts
    <2>10. /\ host'[l] = "died" /\ "died" \notin HostAlive /\ outcome'[l] = "pending"
          /\ borrowed'[l] = NoLaunch
          /\ \A k \in Launches \ {l} : /\ host'[k] = host[k] /\ outcome'[k] = outcome[k]
                                       /\ borrowed'[k] = borrowed[k]
        BY <1>2, <2>1
    <2>11. job'[l] = "empty" => job'[l] # "spares"
        OBVIOUS
    <2>12. stops'[l].stage # "none" => host'[l] = "died" /\ outcome'[l] # "failed"
        BY <2>10
    <2> QED BY <2>4, <2>5, <2>6, <2>7, <2>9, <2>10, <2>11, <2>12, HostReaches
<1> QED BY <1>3, <1>4


\* The steps by which a host hands on to its supervisor or to its stop command.
LEMMA HostHandsOnInv ==
    ASSUME DesktopIInv, NEW l \in Launches,
           \/ HostReleases(l) \/ HostCleansUp(l) \/ HostStops(l)
           \/ DesktopStarts(l) \/ HeadlessStarts(l)
    PROVE  DesktopIInv'
<1>1. /\ HostTypes /\ RuntimeTypes /\ StopTypes /\ PortInv /\ SpawnInv /\ OneDesktop /\ JobInv
      /\ StopInv /\ BorrowInv
    BY DEF DesktopIInv, DesktopTypes
<1>2. ASSUME NEW stage, stage \in HostStages, HostGoes(l, stage)
      PROVE  /\ host' \in [Launches -> HostStages] /\ host'[l] = stage
             /\ \A k \in Launches \ {l} : host'[k] = host[k]
    BY <1>1, <1>2 DEF HostTypes, HostGoes
<1>3. ASSUME NEW stage, stage \in SupervisorAlive, SupervisorGoes(l, stage),
             UNCHANGED <<companion, port, runtimeFile>>
      PROVE  /\ RuntimeTypes' /\ supervisor'[l] = stage
             /\ \A k \in Launches \ {l} : supervisor'[k] = supervisor[k]
    BY <1>1, <1>3 DEF RuntimeTypes, SupervisorGoes
<1>4. companion[l] \in Serving <=> port = l
    BY <1>1 DEF PortInv
<1>5. companion[l] # "none" => supervisor[l] \in HasSpawned
    BY <1>1 DEF SpawnInv
<1>6. CASE HostReleases(l)
    <2>1. /\ host[l] = "assigned" /\ job[l] # "empty" /\ stops[l].stage = "none"
          /\ UNCHANGED <<job, exitSignal, borrowed, companion, port, runtimeFile, stops, spent>>
        BY <1>1, <1>6 DEF HostReleases, JobInv, StopInv
    <2>2. CASE supervisor[l] = "pipe"
        <3>1. HostGoes(l, "waiting") /\ SupervisorGoes(l, "verifying") /\ UNCHANGED outcome
            BY <1>6, <2>2 DEF HostReleases
        <3>2. /\ host' \in [Launches -> HostStages] /\ host'[l] = "waiting"
              /\ \A k \in Launches \ {l} : host'[k] = host[k]
            BY <1>2, <3>1 DEF HostStages, HostAlive
        <3>3. /\ RuntimeTypes' /\ supervisor'[l] = "verifying"
              /\ \A k \in Launches \ {l} : supervisor'[k] = supervisor[k]
            BY <1>3, <2>1, <3>1 DEF SupervisorAlive
        <3>4. HostTypes' /\ StopTypes'
            BY <1>1, <2>1, <3>1, <3>2 DEF HostTypes, StopTypes
        <3>5. companion[l] = "none"
            BY <1>5, <2>2 DEF HasSpawned
        <3>6. host[l] \in HostAlive
            BY <2>1 DEF HostAlive
        <3> QED BY <1>4, <2>1, <3>1, <3>2, <3>3, <3>4, <3>5, <3>6, HostReaches
    <2>3. CASE supervisor[l] # "pipe"
        <3>1. HostGoes(l, "cleanup") /\ outcome' = [outcome EXCEPT ![l] = "failed"]
              /\ UNCHANGED supervisor
            BY <1>6, <2>3 DEF HostReleases, HostFails
        <3>2. /\ host' \in [Launches -> HostStages] /\ host'[l] = "cleanup"
              /\ \A k \in Launches \ {l} : host'[k] = host[k]
            BY <1>2, <3>1 DEF HostStages, HostAlive
        <3>3. /\ outcome' \in [Launches -> {"pending", "ok", "failed"}]
              /\ \A k \in Launches \ {l} : outcome'[k] = outcome[k]
            BY <1>1, <3>1 DEF HostTypes
        <3>4. HostTypes' /\ StopTypes' /\ RuntimeTypes'
            BY <1>1, <2>1, <3>1, <3>2, <3>3 DEF HostTypes, StopTypes, RuntimeTypes
        <3>5. host[l] \in HostAlive
            BY <2>1 DEF HostAlive
        <3> QED BY <1>4, <1>5, <2>1, <3>1, <3>2, <3>3, <3>4, <3>5, HostReaches
    <2> QED BY <2>2, <2>3
<1>7. CASE HostCleansUp(l)
    <2>1. /\ host[l] = "cleanup" /\ host[l] \in HostAlive /\ stops[l].stage = "none"
          /\ UNCHANGED <<outcome, job, exitSignal, borrowed, runtimeVars, spent>>
          /\ job[l] = "empty" =>
                supervisor[l] \in {"none", "pipe", "gone"} /\ companion[l] \notin Alive
        BY <1>1, <1>7 DEF HostCleansUp, JobInv, StopInv, HostAlive
    <2>2. UNCHANGED <<supervisor, companion, port, runtimeFile>> /\ RuntimeTypes'
        BY <1>1, <2>1 DEF runtimeVars, RuntimeTypes
    <2>3. CASE RuntimeOwned(l) \/ (outcome[l] = "ok" /\ port # NoLaunch)
        <3>1. HostGoes(l, "stopping") /\ stops' = [stops EXCEPT ![l].stage = "reading"]
            BY <1>7, <2>3 DEF HostCleansUp, StopGoes
        <3>2. /\ host' \in [Launches -> HostStages] /\ host'[l] = "stopping"
              /\ \A k \in Launches \ {l} : host'[k] = host[k]
            BY <1>2, <3>1 DEF HostStages, HostAlive
        <3>3. /\ stops' \in [Commands -> Stops] /\ stops'[l].stage = "reading"
              /\ \A c \in Commands \ {l} : stops'[c] = stops[c]
            BY <1>1, <3>1, LaunchFacts DEF StopTypes, Stops, StopStages
        <3>4. outcome[l] = "failed" => companion[l] # "none"
            BY <1>1, <2>3 DEF RuntimeOwned, SpawnInv
        <3>5. HostTypes' /\ StopTypes'
            BY <1>1, <2>1, <3>2, <3>3 DEF HostTypes, StopTypes
        <3> QED BY <1>4, <1>5, <2>1, <2>2, <3>2, <3>3, <3>4, <3>5, HostReaches
    <2>4. CASE ~(RuntimeOwned(l) \/ (outcome[l] = "ok" /\ port # NoLaunch))
        <3>1. HostGoes(l, "terminating") /\ UNCHANGED stops
            BY <1>7, <2>4 DEF HostCleansUp
        <3>2. /\ host' \in [Launches -> HostStages] /\ host'[l] = "terminating"
              /\ \A k \in Launches \ {l} : host'[k] = host[k]
            BY <1>2, <3>1 DEF HostStages, HostAlive
        <3>3. HostTypes' /\ StopTypes'
            BY <1>1, <2>1, <3>1, <3>2 DEF HostTypes, StopTypes
        <3> QED BY <1>4, <1>5, <2>1, <2>2, <3>1, <3>2, <3>3, HostReaches
    <2> QED BY <2>3, <2>4
<1>8. CASE HostStops(l)
    <2>1. /\ host[l] = "stopping" /\ host[l] \in HostAlive
          /\ HostGoes(l, "terminating") /\ exitSignal' \in BOOLEAN
          /\ UNCHANGED <<outcome, job, borrowed, runtimeVars, stops, spent>>
          /\ job[l] = "empty" =>
                supervisor[l] \in {"none", "pipe", "gone"} /\ companion[l] \notin Alive
          /\ stops[l].stage # "none" => (outcome[l] = "failed" => companion[l] # "none")
          /\ stops[l].stage \notin {"asking", "waiting"}
        BY <1>1, <1>8 DEF HostStops, HostTypes, JobInv, StopInv, HostAlive
    <2>2. UNCHANGED <<supervisor, companion, port, runtimeFile>> /\ RuntimeTypes'
        BY <1>1, <2>1 DEF runtimeVars, RuntimeTypes
    <2>3. /\ host' \in [Launches -> HostStages] /\ host'[l] = "terminating"
          /\ \A k \in Launches \ {l} : host'[k] = host[k]
        BY <1>2, <2>1 DEF HostStages, HostAlive
    <2>4. HostTypes' /\ StopTypes'
        BY <1>1, <2>1, <2>3 DEF HostTypes, StopTypes
    <2> QED BY <1>4, <1>5, <2>1, <2>2, <2>3, <2>4, HostReaches
<1>9. CASE DesktopStarts(l)
    <2>1. /\ ~DesktopIsUp /\ host[l] = "none" /\ supervisor[l] = "none"
          /\ HostGoes(l, "spawned") /\ SupervisorGoes(l, "pipe") /\ exitSignal' = FALSE
          /\ borrowed' = [borrowed EXCEPT ![l] = port]
          /\ UNCHANGED <<outcome, job, companion, port, runtimeFile, stops, spent>>
          /\ stops[l].stage = "none"
        BY <1>1, <1>9 DEF DesktopStarts, Unlaunched, StopInv
    <2>2. /\ host' \in [Launches -> HostStages] /\ host'[l] = "spawned"
          /\ \A k \in Launches \ {l} : host'[k] = host[k]
        BY <1>2, <2>1 DEF HostStages, HostAlive
    <2>3. /\ RuntimeTypes' /\ supervisor'[l] = "pipe"
          /\ \A k \in Launches \ {l} : supervisor'[k] = supervisor[k]
        BY <1>3, <2>1 DEF SupervisorAlive
    <2>4. /\ borrowed' \in [Launches -> Commands] /\ borrowed'[l] = port
          /\ \A k \in Launches \ {l} : borrowed'[k] = borrowed[k]
        BY <1>1, <2>1 DEF HostTypes, RuntimeTypes
    <2>5. HostTypes' /\ StopTypes'
        BY <1>1, <2>1, <2>2, <2>4 DEF HostTypes, StopTypes
    <2>6. companion[l] = "none" /\ companion[l] \notin Alive
        BY <1>5, <2>1 DEF HasSpawned, Alive
    <2> QED BY <1>4, <2>1, <2>2, <2>3, <2>4, <2>5, <2>6, HostReaches
<1>10. CASE HeadlessStarts(l)
    <2>1. /\ host[l] = "none" /\ supervisor[l] = "none" /\ SupervisorGoes(l, "verifying")
          /\ UNCHANGED <<host, outcome, job, exitSignal, borrowed,
                         companion, port, runtimeFile, stops, spent>>
          /\ stops[l].stage = "none"
        BY <1>1, <1>10 DEF HeadlessStarts, Unlaunched, StopInv, hosts
    <2>2. /\ RuntimeTypes' /\ supervisor'[l] = "verifying"
          /\ \A k \in Launches \ {l} : supervisor'[k] = supervisor[k]
        BY <1>3, <2>1 DEF SupervisorAlive
    <2>3. HostTypes' /\ StopTypes'
        BY <1>1, <2>1 DEF HostTypes, StopTypes
    <2>4. companion[l] = "none"
        BY <1>5, <2>1 DEF HasSpawned
    <2>5. host'[l] = "none" /\ "none" \notin HostAlive
        BY <2>1 DEF HostAlive
    <2> QED BY <1>4, <2>1, <2>2, <2>3, <2>4, <2>5, HostReaches
<1> QED BY <1>6, <1>7, <1>8, <1>9, <1>10

-----------------------------------------------------------------------------
(* The desktop: the theorems *)

LEMMA DesktopIInvInductive == DesktopIInv /\ [DesktopNext]_desktopVars => DesktopIInv'
<1> SUFFICES ASSUME DesktopIInv, [DesktopNext]_desktopVars PROVE DesktopIInv'
    OBVIOUS
<1>1. CASE DesktopNext
    <2>1. ASSUME NEW l \in Launches,
                 \/ DesktopStarts(l) \/ HeadlessStarts(l)
                 \/ HostStep(l) \/ UserExits(l) \/ HostDies(l)
                 \/ SupervisorStep(l)
                 \/ CompanionListens(l) \/ CompanionCloses(l)
                 \/ CompanionEnds(l) \/ CompanionCrashes(l)
          PROVE  DesktopIInv'
        BY <2>1, HostStepsInv, HostHandsOnInv, HostEndsInv, SupervisorStepsInv, CompanionStepsInv
           DEF HostStep
    <2>2. ASSUME NEW c \in Commands, StopStep(c) PROVE DesktopIInv'
        BY <2>2, StopStepsInv
    <2> QED BY <1>1, <2>1, <2>2, CliInv DEF DesktopNext
<1>2. CASE UNCHANGED desktopVars
    BY <1>2 DEF desktopVars, hosts, runtimeVars, DesktopIInv, DesktopTypes, HostTypes,
                RuntimeTypes, StopTypes, PortInv, SpawnInv, OneDesktop, JobInv, StopInv, BorrowInv
<1> QED BY <1>1, <1>2

LEMMA DesktopIInvIsEnough == DesktopIInv => DesktopInv
<1> SUFFICES ASSUME DesktopIInv PROVE DesktopInv
    OBVIOUS
<1>1. DesktopTypeOK
    BY DEF DesktopIInv, DesktopTypes, HostTypes, RuntimeTypes, StopTypes, PortInv, Serving, Stops,
           DesktopTypeOK
<1>2. OneDesktop /\ NoOrphans
    BY DEF DesktopIInv, JobInv, NoOrphans
<1> QED BY <1>1, <1>2 DEF DesktopInv

\* For every number of launches, stop commands and faults: the mutex lets one desktop in at a
\* time, the port is held by the Companion that serves, and a desktop that failed, ended or
\* died leaves no Companion of its own, unless its job had been told to spare it and the host
\* died or could not terminate it (main.rs start_gui and RuntimeJob, product-runtime.mjs).
THEOREM DesktopIsSound == DesktopSpec => []DesktopInv
<1>1. DesktopInit => DesktopIInv
    BY InitDesktopInv
<1>2. DesktopIInv /\ [DesktopNext]_desktopVars => DesktopIInv'
    BY DesktopIInvInductive
<1>3. DesktopIInv => DesktopInv
    BY DesktopIInvIsEnough
<1> QED BY <1>1, <1>2, <1>3, PTL DEF DesktopSpec


\* The stop command a launch gives after its start failed asks a Companion that is not the one
\* the launch found.
LEMMA RollbackStep ==
    ASSUME DesktopIInv, [DesktopNext]_desktopVars, NEW l \in Launches, outcome[l] = "failed",
           stops[l].stage = "asking", stops'[l].stage = "waiting"
    PROVE  stops[l].target # borrowed[l]
<1>1. /\ HostTypes /\ RuntimeTypes /\ StopTypes /\ PortInv /\ StopInv /\ BorrowInv
      /\ l \in Commands /\ stops \in [Commands -> Stops]
    BY LaunchFacts DEF DesktopIInv, DesktopTypes, StopTypes
<1>2. companion[l] # "none" /\ stops[l].target # NoLaunch
    BY <1>1 DEF StopInv
<1>3. stops' # stops
    OBVIOUS
<1>4. PICK c \in Commands : StopAsks(c) /\ port = stops[c].target /\ StopGoes(c, "waiting")
    <2>1. DesktopNext
        BY <1>3 DEF desktopVars
    <2>2. ASSUME NEW k \in Launches,
                 DesktopStarts(k) \/ HeadlessStarts(k) \/ UserExits(k) \/ HostDies(k)
          PROVE  FALSE
        BY <1>3, <2>2 DEF DesktopStarts, HeadlessStarts, UserExits, HostDies, HostLeaves
    <2>3. ASSUME NEW k \in Launches, SupervisorStep(k) PROVE FALSE
        BY <1>3, <2>3 DEF SupervisorStep, PipeCloses, SupervisorLooks, SupervisorSpawns,
              SupervisorRecords, SupervisorSeesReady, SupervisorEnds, SupervisorCleansUp
    <2>4. ASSUME NEW k \in Launches, CompanionListens(k) \/ CompanionCloses(k)
                                     \/ CompanionEnds(k) \/ CompanionCrashes(k)
          PROVE  FALSE
        BY <1>3, <2>4 DEF CompanionListens, CompanionCloses, CompanionEnds, CompanionCrashes
    <2>5. ASSUME NEW k \in Launches, HostStep(k) PROVE FALSE
        <3>1. HostCleansUp(k) \/ HostTerminates(k)
            BY <1>3, <2>5 DEF HostStep, HostAssigns, HostReleases, HostWaits, HostIsReady,
                  SignalExits, HostLeaves, HostStops
        <3>2. stops'[l] = stops[l] \/ stops'[l].stage = "reading" \/ stops'[l].stage = "none"
            BY <1>1, <1>3, <3>1, LaunchFacts
               DEF HostCleansUp, HostTerminates, StopGoes, NoStop, Stops
        <3> QED BY <3>2
    <2>6. ~CliStops /\ ~CliEnds
        <3>1. l # NoLaunch
            BY LaunchFacts
        <3> QED BY <1>1, <3>1 DEF CliStops, CliEnds
    <2>7. PICK c \in Commands : StopStep(c)
        BY <2>1, <2>2, <2>3, <2>4, <2>5, <2>6 DEF DesktopNext
    <2>8. StopAsks(c) /\ port = stops[c].target /\ StopGoes(c, "waiting")
        BY <1>1, <2>7 DEF StopStep, StopReads, StopAsks, StopReturns, StopGivesUp, StopEnds, Stops
    <2> QED BY <2>8
<1>5. c = l
    BY <1>1, <1>4 DEF StopGoes
<1>6. CASE borrowed[l] = NoLaunch
    BY <1>2, <1>6
<1>7. CASE borrowed[l] # NoLaunch
    <2>1. borrowed[l] \in Launches /\ companion[borrowed[l]] \in Past
        BY <1>1, <1>2, <1>7, LaunchFacts DEF HostTypes, BorrowInv
    <2>2. port # borrowed[l]
        BY <1>1, <2>1 DEF PortInv, Serving, Past
    <2> QED BY <1>4, <1>5, <2>2
<1> QED BY <1>6, <1>7

\* For every number of launches, stop commands and faults, a start that fails never stops the
\* runtime it found when it began (main.rs:1068): when it has a Companion of its own, the one it
\* found has closed the port for good.
THEOREM RollbackSparesTheFoundRuntime == DesktopSpec => RollbackSparesBorrowed
<1>1. DesktopInit => DesktopIInv
    BY InitDesktopInv
<1>2. DesktopIInv /\ [DesktopNext]_desktopVars => DesktopIInv'
    BY DesktopIInvInductive
<1>3. DesktopIInv /\ [DesktopNext]_desktopVars =>
          [\A l \in Launches :
             /\ outcome[l] = "failed"
             /\ stops[l].stage = "asking" /\ stops'[l].stage = "waiting"
             => stops[l].target # borrowed[l]]_desktopVars
    BY RollbackStep
<1> QED BY <1>1, <1>2, <1>3, PTL DEF DesktopSpec, RollbackSparesBorrowed

-----------------------------------------------------------------------------
(* The connection to RivalHub: the inductive invariant *)

UnderWay == {"sent", "answered", "given up"}
LinkOps == {"claim", "release", "re-pair", "release and disconnect", "disconnect", "schedule"}
Devices == 0..MaxPairings
LinkSources == {NoSource} \cup [rev : Nat \ {0}, claim : LinkCallNumbers]
CallOver == [stage |-> "over"]
LinkCallsUnderWay ==
    [op : LinkOps, stage : UnderWay, installation : Devices, source : LinkSources,
     takeover : BOOLEAN, number : Nat, answer : {"none", "granted", "refused", "ok"}, rev : Nat]

Uploads ==
    {NoUpload} \cup [stage : {"sent", "ok", "forbidden"},
                     under : [owner : Devices, rev : 1..authority.rev]]

Awaited(c) == linkCalls[c].stage \in UnderWay

LinkTypes ==
    /\ pairings \in 1..MaxPairings /\ installation \in Devices
    /\ linkSource \in LinkSources
    /\ scheduleAsked \in Nat
    /\ scheduleCache \in [installation : Devices, asked : 0..scheduleAsked]
    /\ linkCalls \in [LinkCallNumbers -> {NotCalled, CallOver} \cup LinkCallsUnderWay]
    /\ authority \in [owner : OtherDevice..MaxPairings, rev : Nat]
    /\ upload \in Uploads

\* A source was granted by a claim that has been answered.
WasGranted(source) ==
    source # NoSource => source.rev <= authority.rev /\ linkCalls[source.claim] = CallOver

\* What an operation under way knows of its source, and what the answer it has is worth.
CallInv(c) ==
    /\ WasGranted(linkCalls[c].source)
    /\ linkCalls[c].op = "re-pair" => linkCalls[c].number \in Devices
    /\ linkCalls[c].op = "schedule" =>
         linkCalls[c].number \in 1..scheduleAsked /\ linkCalls[c].number # scheduleCache.asked
    /\ linkCalls[c].stage = "answered" /\ linkCalls[c].answer = "granted" =>
         linkCalls[c].rev \in 1..authority.rev
    /\ linkCalls[c].op \in Releasing =>
         /\ linkCalls[c].source # NoSource /\ linkCalls[c].installation # Nobody
         /\ linkCalls[c].source = linkSource => linkCalls[c].installation = installation
         /\ linkCalls[c].stage = "answered" /\ linkCalls[c].answer = "ok" =>
              ~Grants(linkCalls[c].installation, linkCalls[c].source)

SchedulesDiffer ==
    \A c, d \in LinkCallNumbers :
        /\ Awaited(c) /\ linkCalls[c].op = "schedule"
        /\ Awaited(d) /\ linkCalls[d].op = "schedule"
        /\ linkCalls[c].number = linkCalls[d].number
        => c = d

LinkIInv ==
    /\ LinkTypes
    /\ WasGranted(linkSource)
    /\ \A c \in LinkCallNumbers : Awaited(c) => CallInv(c)
    /\ SchedulesDiffer

-----------------------------------------------------------------------------
(* The connection to RivalHub: a step changes one operation at most *)

LEMMA AwaitedCall ==
    ASSUME LinkTypes, NEW c \in LinkCallNumbers
    PROVE  /\ Awaited(c) => linkCalls[c] \in LinkCallsUnderWay /\ linkCalls[c] # CallOver
           /\ ~Awaited(c) => linkCalls[c] \in {NotCalled, CallOver}
           /\ NotCalled # CallOver
<1>1. linkCalls[c] \in {NotCalled, CallOver} \cup LinkCallsUnderWay
    BY DEF LinkTypes
<1>2. NotCalled.stage = "not called" /\ CallOver.stage = "over"
    BY DEF NotCalled, CallOver
<1>3. \A call \in LinkCallsUnderWay : call.stage \in UnderWay
    BY DEF LinkCallsUnderWay
<1> QED BY <1>1, <1>2, <1>3 DEF Awaited, UnderWay

LEMMA SourceFacts ==
    ASSUME NEW source \in LinkSources, source # NoSource
    PROVE  source.claim \in LinkCallNumbers /\ source.rev \in Nat \ {0}
BY DEF LinkSources

LEMMA WasGrantedStays ==
    ASSUME LinkTypes, LinkTypes', authority.rev <= authority'.rev, NEW c,
           c \in LinkCallNumbers => linkCalls[c] # CallOver,
           \A d \in LinkCallNumbers : d # c => linkCalls'[d] = linkCalls[d],
           NEW source \in LinkSources, WasGranted(source)
    PROVE  source # NoSource => source.rev <= authority'.rev /\ linkCalls'[source.claim] = CallOver
<1> SUFFICES ASSUME source # NoSource
             PROVE  source.rev <= authority'.rev /\ linkCalls'[source.claim] = CallOver
    OBVIOUS
<1>1. source.claim \in LinkCallNumbers /\ source.rev \in Nat
    BY SourceFacts
<1>2. source.rev <= authority.rev /\ linkCalls[source.claim] = CallOver
    BY DEF WasGranted
<1>3. authority.rev \in Nat /\ authority'.rev \in Nat
    BY DEF LinkTypes
<1> QED BY <1>1, <1>2, <1>3

\* c is the operation the step changes, or no operation at all.
LEMMA OneCallMoves ==
    ASSUME LinkIInv, LinkTypes', NEW c,
           c \in LinkCallNumbers => linkCalls[c] # CallOver,
           \A d \in LinkCallNumbers : d # c => linkCalls'[d] = linkCalls[d],
           authority.rev <= authority'.rev,
           authority'.rev = authority.rev => authority'.owner \in {authority.owner, Nobody},
           installation' = installation \/ linkSource' = NoSource,
           \/ linkSource' \in {NoSource, linkSource}
           \/ /\ c \in LinkCallNumbers /\ linkSource'.claim = c
              /\ linkCalls'[c] = CallOver /\ linkSource'.rev <= authority'.rev,
           scheduleAsked <= scheduleAsked',
           \/ scheduleCache'.asked \in {0, scheduleCache.asked}
           \/ /\ c \in LinkCallNumbers /\ Awaited(c) /\ linkCalls[c].op = "schedule"
              /\ scheduleCache'.asked = linkCalls[c].number,
           c \in LinkCallNumbers /\ Awaited(c)' => CallInv(c)',
           c \in LinkCallNumbers /\ Awaited(c)' /\ linkCalls'[c].op = "schedule" =>
             \/ linkCalls'[c].number = scheduleAsked + 1
             \/ /\ Awaited(c) /\ linkCalls[c].op = "schedule"
                /\ linkCalls[c].number = linkCalls'[c].number
    PROVE  LinkIInv'
<1> USE DEF LinkIInv
<1>1. /\ authority.rev \in Nat /\ authority'.rev \in Nat
      /\ scheduleAsked \in Nat /\ scheduleAsked' \in Nat
      /\ linkSource \in LinkSources /\ linkSource' \in LinkSources
    BY DEF LinkTypes
<1>2. WasGranted(linkSource)'
  <2>1. CASE linkSource' \in {NoSource, linkSource}
      BY <2>1, <1>1, WasGrantedStays DEF WasGranted
  <2>2. CASE linkSource' \notin {NoSource, linkSource}
      BY <2>2 DEF WasGranted
  <2> QED BY <2>1, <2>2
<1>3. ASSUME NEW d \in LinkCallNumbers, d # c, Awaited(d)'
      PROVE  /\ CallInv(d)' /\ Awaited(d) /\ CallInv(d) /\ linkCalls'[d] = linkCalls[d]
             /\ linkCalls[d] \in LinkCallsUnderWay
  <2>1. linkCalls'[d] = linkCalls[d] /\ Awaited(d)
      BY <1>3 DEF Awaited
  <2>2. linkCalls[d] \in LinkCallsUnderWay /\ CallInv(d)
      BY <2>1, AwaitedCall
  <2> DEFINE call == linkCalls[d]
  <2>3. call.source \in LinkSources /\ call.number \in Nat /\ call.rev \in Nat
      BY <2>2 DEF LinkCallsUnderWay
  <2>4. WasGranted(linkCalls[d].source)'
    <3>1. WasGranted(call.source)
        BY <2>2 DEF CallInv
    <3>2. call.source # NoSource =>
             call.source.rev <= authority'.rev /\ linkCalls'[call.source.claim] = CallOver
        BY <2>3, <3>1, WasGrantedStays
    <3> QED BY <2>1, <3>2 DEF WasGranted
  <2>5. call.op = "schedule" =>
           call.number \in 1..scheduleAsked' /\ call.number # scheduleCache'.asked
    <3>1. CASE scheduleCache'.asked \in {0, scheduleCache.asked}
        BY <1>1, <2>2, <2>3, <3>1 DEF CallInv
    <3>2. CASE /\ c \in LinkCallNumbers /\ Awaited(c) /\ linkCalls[c].op = "schedule"
               /\ scheduleCache'.asked = linkCalls[c].number
        BY <1>1, <1>3, <2>1, <2>2, <2>3, <3>2 DEF CallInv, SchedulesDiffer
    <3> QED BY <3>1, <3>2
  <2>6. call.stage = "answered" /\ call.answer = "granted" => call.rev \in 1..authority'.rev
      BY <1>1, <2>2, <2>3 DEF CallInv
  <2>7. ASSUME call.op \in Releasing
        PROVE  /\ call.source # NoSource /\ call.installation # Nobody
               /\ call.source = linkSource' => call.installation = installation'
               /\ call.stage = "answered" /\ call.answer = "ok" =>
                    authority' # [owner |-> call.installation, rev |-> call.source.rev]
    <3>1. /\ call.source # NoSource /\ call.installation # Nobody
          /\ call.source = linkSource => call.installation = installation
          /\ call.stage = "answered" /\ call.answer = "ok" =>
               authority # [owner |-> call.installation, rev |-> call.source.rev]
          /\ call.source.rev <= authority.rev /\ linkCalls[call.source.claim] = CallOver
        BY <2>2, <2>7 DEF CallInv, WasGranted, Grants
    <3>2. call.source = linkSource' => call.installation = installation'
        BY <2>3, <3>1, SourceFacts
    <3>3. call.source.rev \in Nat
        BY <2>3, <3>1, SourceFacts
    <3>4. /\ authority = [owner |-> authority.owner, rev |-> authority.rev]
          /\ authority' = [owner |-> authority'.owner, rev |-> authority'.rev]
        BY DEF LinkTypes
    <3>5. call.stage = "answered" /\ call.answer = "ok" =>
             authority' # [owner |-> call.installation, rev |-> call.source.rev]
      <4> DEFINE i == call.installation
                 r == call.source.rev
      <4> HIDE DEF i, r
      <4>1. /\ authority = [owner |-> i, rev |-> r] <=> authority.owner = i /\ authority.rev = r
            /\ authority' = [owner |-> i, rev |-> r] => authority'.owner = i /\ authority'.rev = r
          BY <3>4
      <4>2. /\ i # Nobody /\ r <= authority.rev /\ r \in Nat
            /\ call.stage = "answered" /\ call.answer = "ok" => authority # [owner |-> i, rev |-> r]
          BY <3>1, <3>3 DEF i, r
      <4>3. call.stage = "answered" /\ call.answer = "ok" => authority' # [owner |-> i, rev |-> r]
        <5> SUFFICES ASSUME call.stage = "answered", call.answer = "ok",
                            authority' = [owner |-> i, rev |-> r]
                     PROVE  FALSE
            OBVIOUS
        <5>1. authority'.rev = authority.rev
            BY <1>1, <4>1, <4>2
        <5> QED BY <4>1, <4>2, <5>1
      <4> QED BY <4>3 DEF i, r
    <3> QED BY <3>1, <3>2, <3>5
  <2>8. call.op = "re-pair" => call.number \in Devices
      BY <2>2 DEF CallInv
  <2>9. CallInv(d)'
      BY <2>1, <2>4, <2>5, <2>6, <2>7, <2>8 DEF CallInv, Grants
  <2> QED BY <2>1, <2>2, <2>9
<1>4. SchedulesDiffer'
  <2> SUFFICES ASSUME NEW a \in LinkCallNumbers, NEW b \in LinkCallNumbers,
                      Awaited(a)', linkCalls'[a].op = "schedule",
                      Awaited(b)', linkCalls'[b].op = "schedule",
                      linkCalls'[a].number = linkCalls'[b].number
               PROVE  a = b
      BY DEF SchedulesDiffer
  <2>1. \A d \in LinkCallNumbers :
           d # c /\ Awaited(d)' /\ linkCalls'[d].op = "schedule" =>
              /\ Awaited(d) /\ linkCalls[d].op = "schedule"
              /\ linkCalls[d].number = linkCalls'[d].number
              /\ linkCalls[d].number \in 1..scheduleAsked
      BY <1>3 DEF CallInv
  <2>2. \A k \in 1..scheduleAsked : k # scheduleAsked + 1
      BY <1>1
  <2> QED BY <2>1, <2>2 DEF SchedulesDiffer
<1> QED BY <1>2, <1>3, <1>4

LEMMA OneCallChanges ==
    ASSUME LinkTypes, NEW c \in LinkCallNumbers, NEW call,
           call \in {NotCalled, CallOver} \cup LinkCallsUnderWay,
           linkCalls' = [linkCalls EXCEPT ![c] = call]
    PROVE  /\ linkCalls' \in [LinkCallNumbers -> {NotCalled, CallOver} \cup LinkCallsUnderWay]
           /\ linkCalls'[c] = call
           /\ \A d \in LinkCallNumbers : d # c => linkCalls'[d] = linkCalls[d]
<1>1. linkCalls \in [LinkCallNumbers -> {NotCalled, CallOver} \cup LinkCallsUnderWay]
    BY DEF LinkTypes
<1> DEFINE S == {NotCalled, CallOver} \cup LinkCallsUnderWay
<1>2. linkCalls \in [LinkCallNumbers -> S] /\ call \in S
    BY <1>1
<1> HIDE DEF S
<1>3. /\ linkCalls' \in [LinkCallNumbers -> S] /\ linkCalls'[c] = call
      /\ \A d \in LinkCallNumbers : d # c => linkCalls'[d] = linkCalls[d]
    BY <1>2
<1> QED BY <1>3 DEF S

\* Steps of the other device, of an upload, and of the operator that change no operation.
LEMMA QuietLink ==
    ASSUME LinkIInv, LinkTypes', UNCHANGED linkCalls,
           authority.rev <= authority'.rev,
           authority'.rev = authority.rev => authority'.owner \in {authority.owner, Nobody},
           installation' = installation \/ linkSource' = NoSource,
           linkSource' \in {NoSource, linkSource},
           UNCHANGED <<scheduleAsked, scheduleCache>>
    PROVE  LinkIInv'
<1>1. 0 \notin LinkCallNumbers
    BY DEF LinkCallNumbers
<1>2. scheduleAsked <= scheduleAsked'
    BY DEF LinkIInv, LinkTypes
<1> QED BY <1>1, <1>2, OneCallMoves

\* A step that only begins an operation.
LEMMA CallBegins ==
    ASSUME LinkIInv, NEW op, op \in LinkOps, NEW takeover \in BOOLEAN, NEW number \in Nat,
           Call(op, takeover, number), installation # Nobody,
           op \in Releasing => linkSource # NoSource,
           op = "re-pair" => number \in Devices,
           op = "schedule" => number = scheduleAsked + 1 /\ scheduleAsked' = scheduleAsked + 1,
           op # "schedule" => scheduleAsked' = scheduleAsked,
           op = "re-pair" => pairings < MaxPairings /\ pairings' = pairings + 1,
           op # "re-pair" => pairings' = pairings,
           UNCHANGED <<installation, linkSource, scheduleCache, authority, upload>>
    PROVE  LinkIInv'
<1> DEFINE call == [op |-> op, stage |-> "sent", installation |-> installation,
                    source |-> IF op \in Releasing THEN linkSource ELSE NoSource,
                    takeover |-> takeover, number |-> number, answer |-> "none", rev |-> 0]
<1>1. PICK c \in LinkCallNumbers :
         linkCalls[c] = NotCalled /\ linkCalls' = [linkCalls EXCEPT ![c] = call]
    BY DEF Call
<1>2. /\ LinkTypes /\ installation \in Devices /\ linkSource \in LinkSources
      /\ scheduleAsked \in Nat /\ NoSource \in LinkSources
      /\ scheduleCache.asked \in 0..scheduleAsked /\ pairings \in 1..MaxPairings
      /\ authority.rev \in Nat /\ MaxPairings \in Nat
    BY LinkBounds DEF LinkIInv, LinkTypes, LinkSources
<1>3. /\ call \in LinkCallsUnderWay /\ call.op = op /\ call.stage = "sent" /\ call.number = number
      /\ call.installation = installation
      /\ call.source = IF op \in Releasing THEN linkSource ELSE NoSource
    BY <1>2 DEF LinkCallsUnderWay, UnderWay
<1> HIDE DEF call
<1>4. /\ linkCalls' \in [LinkCallNumbers -> {NotCalled, CallOver} \cup LinkCallsUnderWay]
      /\ linkCalls'[c] = call
      /\ \A d \in LinkCallNumbers : d # c => linkCalls'[d] = linkCalls[d]
    BY <1>1, <1>2, <1>3, OneCallChanges
<1>5. scheduleAsked' \in Nat /\ scheduleAsked <= scheduleAsked' /\ pairings' \in 1..MaxPairings
  <2>1. /\ scheduleAsked' \in {scheduleAsked, scheduleAsked + 1}
        /\ pairings' \in {pairings, pairings + 1}
      OBVIOUS
  <2>2. pairings' # pairings => pairings < MaxPairings
      OBVIOUS
  <2> QED BY <1>2, <2>1, <2>2
<1>6. LinkTypes'
  <2>1. scheduleCache \in [installation : Devices, asked : 0..scheduleAsked']
      BY <1>2, <1>5 DEF LinkTypes
  <2>2. upload \in Uploads'
      BY <1>2 DEF LinkTypes, Uploads
  <2> QED BY <1>2, <1>4, <1>5, <2>1, <2>2 DEF LinkTypes
<1>7. linkCalls[c] # CallOver
    BY <1>1, <1>2, AwaitedCall
<1>8. CallInv(c)'
  <2>1. WasGranted(linkSource) /\ WasGranted(NoSource)
      BY DEF LinkIInv, WasGranted
  <2>2. WasGranted(call.source)
      BY <1>3, <2>1
  <2>3. call.source \in LinkSources
      BY <1>2, <1>3
  <2>4. authority.rev <= authority'.rev
      BY <1>2
  <2>5. call.source # NoSource =>
           call.source.rev <= authority'.rev /\ linkCalls'[call.source.claim] = CallOver
      BY <1>2, <1>4, <1>6, <1>7, <2>2, <2>3, <2>4, WasGrantedStays
  <2>6. op = "schedule" => number \in 1..scheduleAsked' /\ number # scheduleCache.asked
      BY <1>2
  <2> QED BY <1>3, <1>4, <2>5, <2>6 DEF CallInv, WasGranted, Releasing
<1>9. authority.rev <= authority'.rev
    BY <1>2
<1> QED BY <1>3, <1>4, <1>5, <1>6, <1>7, <1>8, <1>9, OneCallMoves

\* A step that ends an operation, whatever it makes of the connection.
LEMMA CallEnds ==
    ASSUME LinkIInv, NEW c \in LinkCallNumbers, Awaited(c), CallIsOver(c),
           UNCHANGED <<pairings, scheduleAsked, upload>>,
           authority' \in [owner : OtherDevice..MaxPairings, rev : Nat],
           authority.rev <= authority'.rev,
           authority'.rev = authority.rev => authority'.owner \in {authority.owner, Nobody},
           installation' \in Devices, linkSource' \in LinkSources,
           scheduleCache' \in [installation : Devices, asked : 0..scheduleAsked],
           installation' = installation \/ linkSource' = NoSource,
           \/ linkSource' \in {NoSource, linkSource}
           \/ linkSource'.claim = c /\ linkSource'.rev <= authority'.rev,
           \/ scheduleCache'.asked \in {0, scheduleCache.asked}
           \/ linkCalls[c].op = "schedule" /\ scheduleCache'.asked = linkCalls[c].number
    PROVE  LinkIInv'
<1>1. /\ LinkTypes /\ scheduleAsked \in Nat /\ authority.rev \in Nat
    BY DEF LinkIInv, LinkTypes
<1>2. /\ linkCalls' \in [LinkCallNumbers -> {NotCalled, CallOver} \cup LinkCallsUnderWay]
      /\ linkCalls'[c] = CallOver
      /\ \A d \in LinkCallNumbers : d # c => linkCalls'[d] = linkCalls[d]
  <2>1. linkCalls' = [linkCalls EXCEPT ![c] = CallOver]
      BY DEF CallIsOver, CallOver
  <2> QED BY <1>1, <2>1, OneCallChanges
<1>3. linkCalls[c] # CallOver
    BY <1>1, AwaitedCall
<1>4. ~Awaited(c)'
  <2>1. linkCalls'[c].stage = "over"
      BY <1>2 DEF CallOver
  <2> QED BY <2>1 DEF Awaited, UnderWay
<1>5. LinkTypes'
  <2>1. upload \in Uploads'
      BY <1>1 DEF LinkTypes, Uploads
  <2> QED BY <1>1, <1>2, <2>1 DEF LinkTypes
<1>6. scheduleAsked <= scheduleAsked'
    BY <1>1
<1> QED BY <1>2, <1>3, <1>4, <1>5, <1>6, OneCallMoves

\* A step that takes an operation further, and leaves what the connection knows alone.
LEMMA CallGoesOn ==
    ASSUME LinkIInv, NEW c \in LinkCallNumbers, Awaited(c), NEW call \in LinkCallsUnderWay,
           linkCalls' = [linkCalls EXCEPT ![c] = call],
           UNCHANGED <<installation, pairings, scheduleAsked, scheduleCache, upload>>,
           linkSource' \in {NoSource, linkSource},
           authority' \in [owner : OtherDevice..MaxPairings, rev : Nat],
           authority.rev <= authority'.rev,
           authority'.rev = authority.rev => authority'.owner \in {authority.owner, Nobody},
           call.source = linkCalls[c].source, call.number = linkCalls[c].number,
           call.op \in {"disconnect", linkCalls[c].op},
           call.stage = "answered" /\ call.answer = "granted" => call.rev \in 1..authority'.rev,
           call.op \in Releasing =>
              /\ call.installation = linkCalls[c].installation
              /\ call.stage = "answered" /\ call.answer = "ok" =>
                    authority' # [owner |-> call.installation, rev |-> call.source.rev]
    PROVE  LinkIInv'
<1>1. /\ LinkTypes /\ scheduleAsked \in Nat /\ authority.rev \in Nat /\ authority'.rev \in Nat
      /\ CallInv(c) /\ NoSource \in LinkSources
    BY DEF LinkIInv, LinkTypes, LinkSources
<1>2. /\ linkCalls' \in [LinkCallNumbers -> {NotCalled, CallOver} \cup LinkCallsUnderWay]
      /\ linkCalls'[c] = call
      /\ \A d \in LinkCallNumbers : d # c => linkCalls'[d] = linkCalls[d]
    BY <1>1, OneCallChanges
<1>3. linkCalls[c] # CallOver /\ linkCalls[c] \in LinkCallsUnderWay
    BY <1>1, AwaitedCall
<1>4. LinkTypes'
  <2>1. upload \in Uploads'
      BY <1>1 DEF LinkTypes, Uploads
  <2>2. linkSource' \in LinkSources
      BY <1>1 DEF LinkTypes
  <2> QED BY <1>1, <1>2, <2>1, <2>2 DEF LinkTypes
<1>5. CallInv(c)'
  <2>1. call.source \in LinkSources /\ WasGranted(call.source)
      BY <1>1, <1>3 DEF CallInv, LinkCallsUnderWay
  <2>2. call.source # NoSource =>
           call.source.rev <= authority'.rev /\ linkCalls'[call.source.claim] = CallOver
      BY <1>1, <1>2, <1>3, <1>4, <2>1, WasGrantedStays
  <2>3. call.op \in Releasing => /\ call.op = linkCalls[c].op
                                 /\ call.source # NoSource /\ call.installation # Nobody
                                 /\ call.source = linkSource => call.installation = installation
      BY <1>1 DEF CallInv, Releasing
  <2>4. call.op = "re-pair" => call.number \in Devices
      BY <1>1 DEF CallInv
  <2>5. call.op = "schedule" =>
           call.number \in 1..scheduleAsked /\ call.number # scheduleCache.asked
      BY <1>1 DEF CallInv
  <2> QED BY <1>2, <2>2, <2>3, <2>4, <2>5 DEF CallInv, WasGranted, Grants
<1>6. scheduleAsked <= scheduleAsked'
    BY <1>1
<1>7. call.op = "schedule" => linkCalls[c].op = "schedule"
    OBVIOUS
<1> QED BY <1>1, <1>2, <1>3, <1>4, <1>5, <1>6, <1>7, OneCallMoves

-----------------------------------------------------------------------------
(* The connection to RivalHub: every step *)

LEMMA ServedMoves ==
    ASSUME LinkTypes, NEW call \in LinkCallsUnderWay, NEW answer, Served(call, answer),
           answer \in {"granted", "refused", "ok"}
    PROVE  /\ authority' \in [owner : OtherDevice..MaxPairings, rev : Nat]
           /\ authority.rev <= authority'.rev
           /\ authority'.rev = authority.rev => authority'.owner \in {authority.owner, Nobody}
           /\ answer = "granted" => authority'.rev \in 1..authority'.rev
           /\ call.op \in Releasing /\ answer = "ok" /\ call.installation # Nobody
              /\ call.source # NoSource =>
                 authority' # [owner |-> call.installation, rev |-> call.source.rev]
<1>1. /\ authority.owner \in OtherDevice..MaxPairings /\ authority.rev \in Nat
      /\ authority = [owner |-> authority.owner, rev |-> authority.rev]
      /\ MaxPairings \in Nat
      /\ call.installation \in OtherDevice..MaxPairings /\ call.op \in LinkOps
    BY LinkBounds DEF LinkTypes, LinkCallsUnderWay, Devices, OtherDevice
<1>2. Nobody \in OtherDevice..MaxPairings
    BY <1>1 DEF Nobody, OtherDevice
<1>3. CASE call.op = "claim"
  <2>1. \/ /\ answer = "granted"
           /\ authority' = [owner |-> call.installation, rev |-> authority.rev + 1]
        \/ answer = "refused" /\ authority' = authority
      BY <1>3 DEF Served, GrantTo, Releasing
  <2>2. CASE authority' = authority
      BY <1>1, <1>3, <2>1, <2>2 DEF Releasing
  <2>3. CASE authority' = [owner |-> call.installation, rev |-> authority.rev + 1]
    <3>1. authority'.rev = authority.rev + 1 /\ authority'.owner = call.installation
        BY <2>3
    <3>2. call.op \notin Releasing
        BY <1>3 DEF Releasing
    <3> QED BY <1>1, <2>3, <3>1, <3>2
  <2> QED BY <2>1, <2>2, <2>3
<1>4. CASE call.op \in Releasing
  <2>1. CASE Grants(call.installation, call.source)
    <3>1. authority' = [authority EXCEPT !.owner = Nobody] /\ answer = "ok"
        BY <1>4, <2>1 DEF Served, Releasing
    <3>2. authority'.owner = Nobody /\ authority'.rev = authority.rev
          /\ authority' = [owner |-> Nobody, rev |-> authority.rev]
        BY <1>1, <3>1
    <3>3. authority' = [owner |-> call.installation, rev |-> call.source.rev]
             => authority'.owner = call.installation
        OBVIOUS
    <3> QED BY <1>1, <1>2, <3>1, <3>2, <3>3
  <2>2. CASE ~Grants(call.installation, call.source)
    <3>1. authority' = authority /\ answer \in {"ok", "refused"}
        BY <1>4, <2>2 DEF Served, Releasing
    <3>2. call.source # NoSource =>
             authority # [owner |-> call.installation, rev |-> call.source.rev]
        BY <2>2 DEF Grants
    <3> QED BY <1>1, <3>1, <3>2
  <2> QED BY <2>1, <2>2
<1>5. CASE call.op \in {"disconnect", "schedule"}
  <2>1. authority' \in {authority, [authority EXCEPT !.owner = Nobody]} /\ answer = "ok"
      BY <1>5 DEF Served, FreedFrom, Releasing
  <2>2. authority' \in {authority, [owner |-> Nobody, rev |-> authority.rev]}
      BY <1>1, <2>1
  <2>3. call.op \notin Releasing /\ answer # "granted"
      BY <1>5, <2>1 DEF Releasing
  <2>4. CASE authority' = authority
      BY <1>1, <2>3, <2>4
  <2>5. CASE authority' = [owner |-> Nobody, rev |-> authority.rev]
    <3>1. authority'.rev = authority.rev /\ authority'.owner = Nobody
        BY <2>5
    <3> QED BY <1>1, <1>2, <2>3, <2>5, <3>1
  <2> QED BY <2>2, <2>4, <2>5
<1> QED BY <1>1, <1>3, <1>4, <1>5 DEF LinkOps, Releasing

LEMMA BeginInv ==
    ASSUME LinkIInv,
           (\E takeover \in BOOLEAN : Claim(takeover)) \/ Release \/ Disconnect \/ AskSchedule
    PROVE  LinkIInv'
<1>1. 0 \in Nat /\ FALSE \in BOOLEAN /\ scheduleAsked + 1 \in Nat
    BY DEF LinkIInv, LinkTypes
<1>2. ASSUME NEW takeover \in BOOLEAN, Claim(takeover) PROVE LinkIInv'
    BY <1>1, <1>2, CallBegins DEF Claim, link, LinkOps, Releasing, Nobody
<1>3. CASE Release
    BY <1>1, <1>3, CallBegins DEF Release, link, LinkOps, Releasing, Nobody
<1>4. CASE Disconnect
  <2>1. CASE linkSource = NoSource
      BY <1>1, <1>4, <2>1, CallBegins DEF Disconnect, link, LinkOps, Releasing, Nobody
  <2>2. CASE linkSource # NoSource
      BY <1>1, <1>4, <2>2, CallBegins DEF Disconnect, link, LinkOps, Releasing, Nobody
  <2> QED BY <2>1, <2>2
<1>5. CASE AskSchedule
    BY <1>1, <1>5, CallBegins DEF AskSchedule, LinkOps, Releasing, Nobody
<1> QED BY <1>2, <1>3, <1>4, <1>5

LEMMA PairingInv == ASSUME LinkIInv, PairingIsAuthorised PROVE LinkIInv'
<1>1. /\ LinkTypes /\ pairings \in 1..MaxPairings /\ MaxPairings \in Nat /\ installation \in Devices
    BY LinkBounds DEF LinkIInv, LinkTypes
<1>2. pairings + 1 \in Devices /\ pairings + 1 \in Nat /\ pairings + 1 \in 1..MaxPairings
    BY <1>1 DEF PairingIsAuthorised, Devices
<1>3. CASE linkSource = NoSource \/ installation = 0
  <2>1. /\ installation' = pairings + 1 /\ linkSource' = NoSource /\ pairings' = pairings + 1
        /\ UNCHANGED <<scheduleAsked, scheduleCache, linkCalls, authority, upload>>
      BY <1>3 DEF PairingIsAuthorised, PairedAs
  <2>2. LinkTypes'
    <3>1. upload' \in Uploads'
        BY <1>1, <2>1 DEF LinkTypes, Uploads
    <3> QED BY <1>1, <1>2, <2>1, <3>1 DEF LinkTypes, LinkSources
  <2>3. authority.rev <= authority'.rev
      BY <1>1, <2>1 DEF LinkTypes
  <2> QED BY <2>1, <2>2, <2>3, QuietLink
<1>4. CASE ~(linkSource = NoSource \/ installation = 0)
    BY <1>2, <1>4, CallBegins DEF PairingIsAuthorised, LinkOps, Releasing, Nobody
<1> QED BY <1>3, <1>4

LEMMA UploadInv ==
    ASSUME LinkIInv, \/ UploadBegins \/ RivalHubServesUpload \/ UploadIsAnswered \/ UploadTimesOut
                     \/ OtherDeviceClaims \/ OtherDeviceReleases
    PROVE  LinkIInv'
<1>1. /\ LinkTypes /\ authority.rev \in Nat /\ authority.owner \in OtherDevice..MaxPairings
      /\ installation \in Devices /\ linkSource \in LinkSources /\ MaxPairings \in Nat
      /\ NoSource \in LinkSources
    BY LinkBounds DEF LinkIInv, LinkTypes, LinkSources
<1>2. ASSUME UNCHANGED <<linkCalls, installation, pairings, scheduleAsked, scheduleCache>>,
             UNCHANGED authority,
             linkSource' \in {NoSource, linkSource},
             upload' \in Uploads
      PROVE  LinkIInv'
  <2>1. LinkTypes'
      BY <1>1, <1>2 DEF LinkTypes, Uploads
  <2>2. authority.rev <= authority'.rev
      BY <1>1, <1>2
  <2> QED BY <1>2, <2>1, <2>2, QuietLink
<1>3. ASSUME UNCHANGED <<linkCalls, link, upload>>,
             authority' \in [owner : OtherDevice..MaxPairings, rev : Nat],
             authority.rev <= authority'.rev,
             authority'.rev = authority.rev => authority'.owner \in {authority.owner, Nobody}
      PROVE  LinkIInv'
  <2>1. LinkTypes'
    <3>1. upload \in Uploads'
        BY <1>1, <1>3 DEF LinkTypes, Uploads
    <3> QED BY <1>1, <1>3, <3>1 DEF LinkTypes, link
  <2> QED BY <1>3, <2>1, QuietLink DEF link
<1>4. CASE UploadBegins
  <2>1. linkSource.rev \in 1..authority.rev
    <3>1. linkSource # NoSource /\ WasGranted(linkSource)
        BY <1>4 DEF UploadBegins, LinkIInv
    <3> QED BY <1>1, <3>1, SourceFacts DEF WasGranted
  <2>2. upload' = [stage |-> "sent", under |-> [owner |-> installation, rev |-> linkSource.rev]]
      BY <1>4 DEF UploadBegins
  <2> QED BY <1>1, <1>2, <1>4, <2>1, <2>2 DEF UploadBegins, link, Uploads
<1>5. CASE RivalHubServesUpload
  <2>1. upload # NoUpload
      BY <1>5 DEF RivalHubServesUpload, NoUpload
  <2>2. upload' \in Uploads
      BY <1>1, <1>5, <2>1 DEF RivalHubServesUpload, LinkTypes, Uploads
  <2> QED BY <1>1, <1>2, <1>5, <2>2 DEF RivalHubServesUpload, link
<1>6. CASE UploadIsAnswered
    BY <1>2, <1>6 DEF UploadIsAnswered, Uploads
<1>7. CASE UploadTimesOut
    BY <1>2, <1>7 DEF UploadTimesOut, link, Uploads
<1>8. CASE OtherDeviceClaims
  <2>1. authority' = [owner |-> OtherDevice, rev |-> authority.rev + 1]
      BY <1>8 DEF OtherDeviceClaims, GrantTo
  <2>2. OtherDevice \in OtherDevice..MaxPairings
      BY <1>1 DEF OtherDevice
  <2> QED BY <1>1, <1>3, <1>8, <2>1, <2>2 DEF OtherDeviceClaims
<1>9. CASE OtherDeviceReleases
  <2>1. authority' = [owner |-> Nobody, rev |-> authority.rev]
      BY <1>1, <1>9 DEF OtherDeviceReleases, FreedFrom, LinkTypes
  <2>2. Nobody \in OtherDevice..MaxPairings
      BY <1>1 DEF OtherDevice, Nobody
  <2> QED BY <1>1, <1>3, <1>9, <2>1, <2>2 DEF OtherDeviceReleases
<1> QED BY <1>4, <1>5, <1>6, <1>7, <1>8, <1>9

LEMMA ServesInv == ASSUME LinkIInv, NEW c \in LinkCallNumbers, RivalHubServes(c) PROVE LinkIInv'
<1> DEFINE old == linkCalls[c]
<1>1. /\ LinkTypes /\ Awaited(c) /\ CallInv(c) /\ old \in LinkCallsUnderWay
      /\ UNCHANGED <<installation, pairings, linkSource, scheduleAsked, scheduleCache, upload>>
  <2>1. LinkTypes /\ Awaited(c)
      BY DEF LinkIInv, RivalHubServes, Awaited, UnderWay
  <2> QED BY <2>1, AwaitedCall DEF LinkIInv, RivalHubServes, link
<1>2. PICK answer : /\ answer \in {"granted", "refused", "ok"} /\ Served(linkCalls[c], answer)
                    /\ linkCalls' = [linkCalls EXCEPT ![c] =
                         IF @.stage = "sent"
                         THEN [@ EXCEPT !.stage = "answered", !.answer = answer, !.takeover = FALSE,
                                        !.rev = IF answer = "granted" THEN authority'.rev ELSE 0]
                         ELSE [stage |-> "over"]]
    BY DEF RivalHubServes
<1>3. /\ authority' \in [owner : OtherDevice..MaxPairings, rev : Nat]
      /\ authority.rev <= authority'.rev
      /\ authority'.rev = authority.rev => authority'.owner \in {authority.owner, Nobody}
      /\ answer = "granted" => authority'.rev \in 1..authority'.rev
      /\ old.op \in Releasing /\ answer = "ok" /\ old.installation # Nobody
         /\ old.source # NoSource =>
            authority' # [owner |-> old.installation, rev |-> old.source.rev]
    BY <1>1, <1>2, ServedMoves
<1>4. CASE old.stage = "sent"
  <2> DEFINE rev == IF answer = "granted" THEN authority'.rev ELSE 0
             call == [old EXCEPT !.stage = "answered", !.answer = answer, !.takeover = FALSE,
                                 !.rev = rev]
  <2>1. linkCalls' = [linkCalls EXCEPT ![c] = call]
      BY <1>2, <1>4
  <2>2. rev \in Nat /\ (answer = "granted" => rev \in 1..authority'.rev)
      BY <1>3
  <2> HIDE DEF rev
  <2>3. /\ call \in LinkCallsUnderWay /\ call.op = old.op /\ call.source = old.source
        /\ call.number = old.number /\ call.installation = old.installation
        /\ call.answer = answer /\ call.rev = rev
      BY <1>1, <1>2, <2>2 DEF LinkCallsUnderWay, UnderWay
  <2> HIDE DEF call
  <2>4. call.op \in Releasing => /\ old.source # NoSource /\ old.installation # Nobody
      BY <1>1, <2>3 DEF CallInv
  <2> QED BY <1>1, <1>3, <2>1, <2>2, <2>3, <2>4, CallGoesOn
<1>5. CASE old.stage # "sent"
  <2>1. CallIsOver(c)
      BY <1>2, <1>5 DEF CallIsOver
  <2>2. /\ installation' \in Devices /\ linkSource' \in LinkSources
        /\ scheduleCache' \in [installation : Devices, asked : 0..scheduleAsked]
      BY <1>1 DEF LinkTypes
  <2> QED BY <1>1, <1>3, <2>1, <2>2, CallEnds
<1> QED BY <1>4, <1>5

\* What the steps below share: an operation under way, and RivalHub unmoved.
LEMMA AnswerFacts ==
    ASSUME LinkIInv, NEW c \in LinkCallNumbers, Awaited(c), UNCHANGED authority
    PROVE  /\ linkCalls[c] \in LinkCallsUnderWay /\ CallInv(c)
           /\ installation \in Devices /\ linkSource \in LinkSources /\ NoSource \in LinkSources
           /\ scheduleCache \in [installation : Devices, asked : 0..scheduleAsked]
           /\ Nobody \in Devices /\ scheduleAsked \in Nat
           /\ authority' \in [owner : OtherDevice..MaxPairings, rev : Nat]
           /\ authority.rev <= authority'.rev
           /\ authority'.owner \in {authority.owner, Nobody}
<1>1. LinkTypes
    BY DEF LinkIInv
<1> QED BY <1>1, LinkBounds, AwaitedCall DEF LinkIInv, LinkTypes, LinkSources, Devices, Nobody

\* The source an operation ends with is the one it released, or none, or the one before.
LEMMA PairingEnds ==
    ASSUME LinkIInv, NEW c \in LinkCallNumbers, Awaited(c), linkCalls[c].op = "re-pair",
           PairingTakesEffect(c), UNCHANGED <<upload, authority>>
    PROVE  LinkIInv'
<1>1. linkCalls[c].number \in Devices
    BY AnswerFacts DEF CallInv
<1>2. /\ CallIsOver(c) /\ installation' \in Devices /\ linkSource' = NoSource
      /\ UNCHANGED <<pairings, scheduleAsked, scheduleCache>>
    BY <1>1 DEF PairingTakesEffect, PairedAs
<1> QED BY <1>2, AnswerFacts, CallEnds

LEMMA ReleaseGoesOn ==
    ASSUME LinkIInv, NEW c \in LinkCallNumbers, Awaited(c),
           NEW i \in Devices, NEW answer, answer \in {linkCalls[c].answer, "none"},
           linkCalls' = [linkCalls EXCEPT ![c] = [@ EXCEPT !.op = "disconnect", !.stage = "sent",
                                                   !.installation = i, !.answer = answer]],
           UNCHANGED <<installation, pairings, scheduleAsked, scheduleCache, upload, authority>>,
           linkSource' \in {NoSource, linkSource}
    PROVE  LinkIInv'
<1> DEFINE old == linkCalls[c]
           call == [old EXCEPT !.op = "disconnect", !.stage = "sent", !.installation = i,
                               !.answer = answer]
<1>1. old \in LinkCallsUnderWay
    BY AnswerFacts
<1>2. linkCalls' = [linkCalls EXCEPT ![c] = call]
    OBVIOUS
<1>3. /\ call \in LinkCallsUnderWay /\ call.op = "disconnect" /\ call.stage = "sent"
      /\ call.source = old.source /\ call.number = old.number
    BY <1>1 DEF LinkCallsUnderWay, LinkOps, UnderWay
<1> HIDE DEF call
<1>4. "disconnect" \notin Releasing
    BY DEF Releasing
<1>5. /\ authority' \in [owner : OtherDevice..MaxPairings, rev : Nat]
      /\ authority.rev <= authority'.rev
      /\ authority'.owner \in {authority.owner, Nobody}
    BY AnswerFacts
<1>6. /\ call.op \in {"disconnect", old.op} /\ call.stage # "answered"
      /\ call.op \notin Releasing
    BY <1>3, <1>4
<1> HIDE DEF old
<1> QED BY <1>2, <1>3, <1>5, <1>6, CallGoesOn DEF old

LEMMA AnswerInv == ASSUME LinkIInv, NEW c \in LinkCallNumbers, CallIsAnswered(c) PROVE LinkIInv'
<1>1. /\ Awaited(c) /\ UNCHANGED <<pairings, scheduleAsked, upload, authority>>
      /\ linkCalls[c].stage = "answered"
    BY DEF CallIsAnswered, ClaimIsAnswered, ReleaseIsAnswered, RePairIsReleased, PairingTakesEffect,
           PairedAs, DisconnectIsReleased, GoesOnToDisconnect, DisconnectIsAnswered,
           ScheduleIsAnswered, Answered, Awaited, UnderWay
<1>2. CASE ClaimIsAnswered(c)
  <2>1. linkSource' \in LinkSources /\
        (linkSource' = NoSource \/ (linkSource'.claim = c /\ linkSource'.rev <= authority'.rev))
    <3>1. CASE linkCalls[c].answer = "granted"
      <4>1. linkCalls[c].rev \in 1..authority.rev /\ authority.rev \in Nat
          BY <1>1, <3>1, AnswerFacts DEF CallInv, LinkIInv, LinkTypes
      <4>2. linkSource' = [rev |-> linkCalls[c].rev, claim |-> c]
          BY <1>2, <3>1 DEF ClaimIsAnswered, SourceOfClaim
      <4> QED BY <1>1, <4>1, <4>2 DEF LinkSources
    <3>2. CASE linkCalls[c].answer # "granted"
        BY <1>1, <1>2, <3>2, AnswerFacts DEF ClaimIsAnswered, SourceOfClaim
    <3> QED BY <3>1, <3>2
  <2>2. CallIsOver(c) /\ UNCHANGED <<installation, scheduleCache>>
      BY <1>2 DEF ClaimIsAnswered
  <2> QED BY <1>1, <2>1, <2>2, AnswerFacts, CallEnds
<1>3. CASE ReleaseIsAnswered(c)
  <2>1. /\ CallIsOver(c) /\ UNCHANGED <<installation, scheduleCache>>
        /\ linkSource' \in {NoSource, linkSource}
      BY <1>3 DEF ReleaseIsAnswered
  <2> QED BY <1>1, <2>1, AnswerFacts, CallEnds
<1>4. CASE RePairIsReleased(c)
    BY <1>1, <1>4, PairingEnds DEF RePairIsReleased, Answered
<1>5. CASE DisconnectIsReleased(c)
  <2>1. /\ UNCHANGED <<installation, scheduleCache>> /\ linkSource' \in {NoSource, linkSource}
      BY <1>5 DEF DisconnectIsReleased, GoesOnToDisconnect
  <2>2. CASE installation = 0
    <3>1. CallIsOver(c)
        BY <1>5, <2>2 DEF DisconnectIsReleased, GoesOnToDisconnect, ThenDisconnects
    <3> QED BY <1>1, <2>1, <3>1, AnswerFacts, CallEnds
  <2>3. CASE installation # 0
    <3>1. linkCalls[c] \in LinkCallsUnderWay
        BY <1>1, AnswerFacts
    <3>2. linkCalls' = [linkCalls EXCEPT ![c] = [@ EXCEPT !.op = "disconnect", !.stage = "sent",
                            !.installation = installation, !.answer = "none"]]
        BY <1>5, <2>3, <3>1 DEF DisconnectIsReleased, GoesOnToDisconnect, ThenDisconnects,
                                LinkCallsUnderWay
    <3> QED BY <1>1, <2>1, <3>2, AnswerFacts, ReleaseGoesOn
  <2> QED BY <2>2, <2>3
<1>6. CASE DisconnectIsAnswered(c)
  <2>1. /\ CallIsOver(c) /\ installation' = Nobody /\ linkSource' = NoSource
        /\ scheduleCache' = NoSchedule
      BY <1>6 DEF DisconnectIsAnswered, Nobody
  <2>2. scheduleCache' \in [installation : Devices, asked : 0..scheduleAsked]
        /\ scheduleCache'.asked = 0
      BY <1>1, <2>1, AnswerFacts DEF NoSchedule, Nobody
  <2> QED BY <1>1, <2>1, <2>2, AnswerFacts, CallEnds
<1>7. CASE ScheduleIsAnswered(c)
  <2>1. /\ CallIsOver(c) /\ UNCHANGED <<installation, linkSource>> /\ linkCalls[c].op = "schedule"
      BY <1>7 DEF ScheduleIsAnswered, Answered
  <2>2. \/ scheduleCache' = scheduleCache
        \/ scheduleCache' = [installation |-> installation, asked |-> linkCalls[c].number]
      BY <1>7 DEF ScheduleIsAnswered
  <2>3. linkCalls[c].number \in 0..scheduleAsked
      BY <1>1, <2>1, AnswerFacts DEF CallInv
  <2>4. /\ scheduleCache' \in [installation : Devices, asked : 0..scheduleAsked]
        /\ scheduleCache'.asked \in {scheduleCache.asked, linkCalls[c].number}
      BY <1>1, <2>2, <2>3, AnswerFacts
  <2> QED BY <1>1, <2>1, <2>4, AnswerFacts, CallEnds
<1> QED BY <1>2, <1>3, <1>4, <1>5, <1>6, <1>7 DEF CallIsAnswered

LEMMA TimeOutInv == ASSUME LinkIInv, NEW c \in LinkCallNumbers, CallTimesOut(c) PROVE LinkIInv'
<1> DEFINE old == linkCalls[c]
<1>1. Awaited(c) /\ UNCHANGED <<upload, authority>>
    BY DEF CallTimesOut, Awaited, UnderWay
<1>2. old \in LinkCallsUnderWay /\ old.installation \in Devices
    BY <1>1, AnswerFacts DEF LinkCallsUnderWay
<1>3. CASE old.op = "re-pair"
    BY <1>1, <1>3, PairingEnds DEF CallTimesOut
<1>4. CASE old.op = "release and disconnect"
  <2>1. ThenDisconnects(c) /\ UNCHANGED link
      BY <1>4 DEF CallTimesOut
  <2>2. CASE installation = 0
    <3>1. CallIsOver(c)
        BY <2>1, <2>2 DEF ThenDisconnects
    <3> QED BY <1>1, <2>1, <3>1, AnswerFacts, CallEnds DEF link
  <2>3. CASE installation # 0
    <3>1. linkCalls' = [linkCalls EXCEPT ![c] = [@ EXCEPT !.op = "disconnect", !.stage = "sent",
                            !.installation = installation, !.answer = "none"]]
        BY <1>2, <2>1, <2>3 DEF ThenDisconnects, LinkCallsUnderWay
    <3>2. installation \in Devices
        BY <1>1, AnswerFacts
    <3> QED BY <1>1, <2>1, <3>1, <3>2, ReleaseGoesOn DEF link
  <2> QED BY <2>2, <2>3
<1>5. CASE old.op \notin {"re-pair", "release and disconnect"}
  <2>1. UNCHANGED link
      BY <1>5 DEF CallTimesOut
  <2>2. CASE CallIsOver(c)
      BY <1>1, <2>1, <2>2, AnswerFacts, CallEnds DEF link
  <2>3. CASE linkCalls' = [linkCalls EXCEPT ![c].stage = "given up"]
    <3> DEFINE call == [old EXCEPT !.stage = "given up"]
    <3>1. linkCalls' = [linkCalls EXCEPT ![c] = call]
        BY <2>3
    <3>2. /\ call \in LinkCallsUnderWay /\ call.op = old.op /\ call.stage = "given up"
          /\ call.source = old.source /\ call.number = old.number
          /\ call.installation = old.installation
        BY <1>2 DEF LinkCallsUnderWay, UnderWay
    <3> HIDE DEF call
    <3> QED BY <1>1, <2>1, <3>1, <3>2, AnswerFacts, CallGoesOn DEF link
  <2> QED BY <1>5, <2>2, <2>3 DEF CallTimesOut
<1> QED BY <1>3, <1>4, <1>5

LEMMA LinkInductive == LinkIInv /\ [LinkNext]_linkVars => LinkIInv'
<1> SUFFICES ASSUME LinkIInv, [LinkNext]_linkVars PROVE LinkIInv'
    OBVIOUS
<1>1. CASE UNCHANGED linkVars
    BY <1>1 DEF LinkIInv, LinkTypes, Uploads, WasGranted, CallInv, Awaited, SchedulesDiffer, Grants,
                linkVars, link
<1>2. CASE LinkNext
    BY <1>2, BeginInv, PairingInv, UploadInv, ServesInv, AnswerInv, TimeOutInv DEF LinkNext
<1> QED BY <1>1, <1>2

LEMMA LinkStarts == LinkInit => LinkIInv
<1> SUFFICES ASSUME LinkInit PROVE LinkIInv
    OBVIOUS
<1>1. \A c \in LinkCallNumbers : ~Awaited(c)
    BY DEF LinkInit, Awaited, NotCalled, UnderWay
<1>2. LinkTypes
  <2>1. MaxPairings \in Nat \ {0}
      BY LinkBounds
  <2> QED BY <2>1 DEF LinkInit, LinkTypes, LinkSources, NoSchedule, Uploads, Devices, Nobody,
     OtherDevice
<1>3. WasGranted(linkSource)
    BY DEF LinkInit, WasGranted
<1> QED BY <1>1, <1>2, <1>3 DEF LinkIInv, SchedulesDiffer

LEMMA LinkImplies == LinkIInv => LinkTypeOK
<1> SUFFICES ASSUME LinkIInv PROVE LinkTypeOK
    OBVIOUS
<1>1. /\ LinkTypes /\ installation \in 0..MaxPairings
      /\ authority.owner \in OtherDevice..MaxPairings /\ authority.rev \in Nat
      /\ linkSource \in LinkSources
      /\ scheduleCache.asked \in 0..scheduleAsked /\ scheduleCache.installation \in 0..MaxPairings
    BY DEF LinkIInv, LinkTypes, Devices
<1>2. ASSUME linkSource # NoSource
      PROVE  linkSource.rev \in 1..authority.rev /\ linkCalls[linkSource.claim].stage = "over"
  <2>1. WasGranted(linkSource) /\ CallOver.stage = "over"
      BY DEF LinkIInv, CallOver
  <2> QED BY <1>1, <1>2, <2>1, SourceFacts DEF WasGranted
<1>3. upload # NoUpload => upload.under.rev \in 1..authority.rev
    BY <1>1 DEF LinkTypes, Uploads
<1>4. ASSUME NEW c \in LinkCallNumbers
      PROVE  linkCalls[c].stage \in {"not called", "sent", "answered", "given up", "over"}
  <2>1. CASE Awaited(c)
      BY <2>1 DEF Awaited, UnderWay
  <2>2. CASE ~Awaited(c)
    <3>1. linkCalls[c] \in {NotCalled, CallOver}
        BY <1>1, <2>2, AwaitedCall
    <3>2. NotCalled.stage = "not called" /\ CallOver.stage = "over"
        BY DEF NotCalled, CallOver
    <3> QED BY <3>1, <3>2
  <2> QED BY <2>1, <2>2
<1> QED BY <1>1, <1>2, <1>3, <1>4 DEF LinkTypeOK

LEMMA ReleaseIsLate ==
    ASSUME LinkIInv, NEW c \in LinkCallNumbers, ReleaseIsAnswered(c), linkSource' # linkSource
    PROVE  ~Grants(installation, linkSource)
<1>1. /\ linkCalls[c].op \in Releasing /\ linkCalls[c].stage = "answered"
      /\ linkCalls[c].answer = "ok" /\ linkCalls[c].source = linkSource
    BY DEF ReleaseIsAnswered, SourceIsGone, Answered, Releasing
<1>2. CallInv(c)
    BY <1>1 DEF LinkIInv, Awaited, UnderWay
<1> QED BY <1>1, <1>2 DEF CallInv

LEMMA CacheIsNewer ==
    ASSUME LinkIInv, [LinkNext]_linkVars, scheduleCache' # scheduleCache, scheduleCache'.asked > 0
    PROVE  scheduleCache'.asked > scheduleCache.asked /\ scheduleCache'.installation = installation
<1>1. NoSchedule.asked = 0
    BY DEF NoSchedule
<1>2. PICK c \in LinkCallNumbers : ScheduleIsAnswered(c)
  <2>1. ~UNCHANGED scheduleCache
      OBVIOUS
  <2>2. /\ ~UNCHANGED linkVars
        /\ ~(\E takeover \in BOOLEAN : Claim(takeover))
        /\ ~Release /\ ~Disconnect /\ ~AskSchedule /\ ~PairingIsAuthorised
      BY <2>1 DEF linkVars, link, Claim, Release, Disconnect, AskSchedule, PairingIsAuthorised,
         PairedAs
  <2>3. /\ ~UploadBegins /\ ~RivalHubServesUpload /\ ~UploadIsAnswered /\ ~UploadTimesOut
        /\ ~OtherDeviceClaims /\ ~OtherDeviceReleases
      BY <2>1 DEF link, UploadBegins, RivalHubServesUpload, UploadIsAnswered, UploadTimesOut,
                  OtherDeviceClaims, OtherDeviceReleases
  <2>4. ASSUME NEW c \in LinkCallNumbers
        PROVE  /\ ~RivalHubServes(c) /\ ~ClaimIsAnswered(c) /\ ~ReleaseIsAnswered(c)
               /\ ~RePairIsReleased(c) /\ ~DisconnectIsReleased(c) /\ ~DisconnectIsAnswered(c)
    <3>1. ~RivalHubServes(c) /\ ~ClaimIsAnswered(c) /\ ~ReleaseIsAnswered(c)
        BY <2>1 DEF link, RivalHubServes, ClaimIsAnswered, ReleaseIsAnswered
    <3>2. ~RePairIsReleased(c) /\ ~DisconnectIsReleased(c)
        BY <2>1 DEF RePairIsReleased, PairingTakesEffect, PairedAs, DisconnectIsReleased,
                    GoesOnToDisconnect
    <3>3. ~DisconnectIsAnswered(c)
        BY <1>1 DEF DisconnectIsAnswered
    <3> QED BY <3>1, <3>2, <3>3
  <2>5. ASSUME NEW c \in LinkCallNumbers PROVE ~CallTimesOut(c)
    <3>1. CASE linkCalls[c].op = "re-pair"
        BY <2>1, <3>1 DEF CallTimesOut, PairingTakesEffect, PairedAs
    <3>2. CASE linkCalls[c].op # "re-pair"
        BY <2>1, <3>2 DEF CallTimesOut, link
    <3> QED BY <3>1, <3>2
  <2> QED BY <2>2, <2>3, <2>4, <2>5 DEF LinkNext, CallIsAnswered
<1>3. /\ linkCalls[c].op = "schedule" /\ linkCalls[c].stage = "answered"
      /\ linkCalls[c].number = scheduleAsked
      /\ scheduleCache' = [installation |-> installation, asked |-> linkCalls[c].number]
    BY <1>2 DEF ScheduleIsAnswered, ScheduleIsWanted, Answered
<1>4. /\ linkCalls[c].number # scheduleCache.asked /\ scheduleCache.asked \in 0..scheduleAsked
      /\ scheduleAsked \in Nat
    BY <1>3 DEF LinkIInv, LinkTypes, CallInv, Awaited, UnderWay
<1> QED BY <1>3, <1>4

\* Every source was granted by RivalHub to this device, an upload was sent under such a grant, a
\* release answered late clears no source that RivalHub still grants, and the schedule on show
\* only gets newer, whatever is late, lost or timed out (rivalhub-connection.ts:250-255, 304-359).
THEOREM LinkIsSound == LinkSpec => LinkSound
<1>1. LinkInit => LinkIInv
    BY LinkStarts
<1>2. LinkIInv /\ [LinkNext]_linkVars => LinkIInv'
    BY LinkInductive
<1>3. LinkIInv => LinkTypeOK
    BY LinkImplies
<1>4. LinkIInv /\ [LinkNext]_linkVars =>
        [\A c \in LinkCallNumbers :
           ReleaseIsAnswered(c) /\ linkSource' # linkSource
              => ~Grants(installation, linkSource)]_linkVars
    BY ReleaseIsLate
<1>5. LinkIInv /\ [LinkNext]_linkVars =>
        [scheduleCache' # scheduleCache /\ scheduleCache'.asked > 0
           => /\ scheduleCache'.asked > scheduleCache.asked
              /\ scheduleCache'.installation = installation]_linkVars
    BY CacheIsNewer
<1> QED BY <1>1, <1>2, <1>3, <1>4, <1>5, PTL
        DEF LinkSpec, LinkSound, ReleaseSparesNewerClaim, ScheduleOnlyGetsNewer
=============================================================================
