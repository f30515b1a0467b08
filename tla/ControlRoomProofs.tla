-------------------------- MODULE ControlRoomProofs --------------------------
(***************************************************************************)
(* Proofs about what the operator's room shows and keeps.  The schedule    *)
(* window: for every number of refreshes, of requests and of clearings,    *)
(* what is on show is of the last request and is never replaced by an      *)
(* older schedule.  The HUD configuration: the document is what its file   *)
(* would bring back, an editor waits exactly for its own mutation, and a   *)
(* poll leaves a changed draft alone.  The match context: for every set of *)
(* matches and every order of loads, saves, library jobs, write failures   *)
(* and deaths, the newest request stays, a decision replaces what it was   *)
(* made on, and a restart brings back what was saved last.  The age of the *)
(* picture: for every lease and every order of frames, timers and          *)
(* refreshes, a fresh picture has a timer that ends it in time.            *)
(***************************************************************************)
EXTENDS ScheduleWindow, HudConfig, MatchContext, StaleDeadline, SequenceTheorems, TLAPS

-----------------------------------------------------------------------------
(* Sequences without repetition *)

IsHeldBy(q, g) == \E i \in DOMAIN q : q[i] = g
HasNoRepetition(q) == \A i, j \in DOMAIN q : q[i] = q[j] => i = j

LEMMA AppendHolds ==
    ASSUME NEW S, NEW q \in Seq(S), NEW g \in S, HasNoRepetition(q), ~IsHeldBy(q, g),
           NEW p, p = Append(q, g)
    PROVE  /\ p \in Seq(S) /\ HasNoRepetition(p)
           /\ \A h : IsHeldBy(p, h) <=> IsHeldBy(q, h) \/ h = g
           /\ q # <<>> => p # <<>> /\ Head(p) = Head(q)
<1>1. /\ p \in Seq(S) /\ Len(q) \in Nat /\ Len(p) = Len(q) + 1 /\ p[Len(q) + 1] = g
      /\ \A i \in 1..Len(q) : p[i] = q[i]
      /\ DOMAIN q = 1..Len(q) /\ DOMAIN p = 1..Len(p) /\ p # <<>>
    BY AppendProperties
<1>2. \A i \in DOMAIN p : i \in DOMAIN q \/ i = Len(q) + 1
    BY <1>1
<1>3. \A i \in DOMAIN q : i \in DOMAIN p /\ i # Len(q) + 1
    BY <1>1
<1>4. Len(q) + 1 \in DOMAIN p
    BY <1>1
<1>5. HasNoRepetition(p)
    <2> SUFFICES ASSUME NEW i \in DOMAIN p, NEW j \in DOMAIN p, p[i] = p[j] PROVE i = j
        BY DEF HasNoRepetition
    <2>1. CASE i \in DOMAIN q /\ j \in DOMAIN q
        BY <1>1, <2>1 DEF HasNoRepetition
    <2>2. CASE i = Len(q) + 1 /\ j = Len(q) + 1
        BY <2>2
    <2>3. ~(i \in DOMAIN q /\ j = Len(q) + 1) /\ ~(j \in DOMAIN q /\ i = Len(q) + 1)
        BY <1>1 DEF IsHeldBy
    <2> QED BY <1>2, <2>1, <2>2, <2>3
<1>6. \A h : IsHeldBy(p, h) <=> IsHeldBy(q, h) \/ h = g
    BY <1>1, <1>2, <1>3, <1>4 DEF IsHeldBy
<1>7. q # <<>> => Head(p) = Head(q)
    <2> SUFFICES ASSUME q # <<>> PROVE Head(p) = Head(q)
        OBVIOUS
    <2>1. 1 \in 1..Len(q) /\ Head(q) = q[1] /\ Head(p) = p[1]
        BY <1>1
    <2> QED BY <1>1, <2>1
<1> QED BY <1>1, <1>5, <1>6, <1>7

LEMMA AppendIsHeld ==
    ASSUME NEW S, NEW q \in Seq(S), NEW g \in S, NEW h
    PROVE  IsHeldBy(Append(q, g), h) <=> IsHeldBy(q, h) \/ h = g
<1> DEFINE p == Append(q, g)
<1>1. /\ Len(q) \in Nat /\ Len(p) = Len(q) + 1 /\ p[Len(q) + 1] = g
      /\ \A i \in 1..Len(q) : p[i] = q[i]
      /\ DOMAIN q = 1..Len(q) /\ DOMAIN p = 1..Len(p)
    BY AppendProperties
<1> HIDE DEF p
<1>2. /\ \A i \in DOMAIN p : i \in DOMAIN q \/ i = Len(q) + 1
      /\ \A i \in DOMAIN q : i \in DOMAIN p
      /\ Len(q) + 1 \in DOMAIN p
    BY <1>1
<1>3. IsHeldBy(p, h) <=> IsHeldBy(q, h) \/ h = g
    BY <1>1, <1>2 DEF IsHeldBy
<1> QED BY <1>3 DEF p

LEMMA TailHolds ==
    ASSUME NEW S, NEW q \in Seq(S), q # <<>>, HasNoRepetition(q), NEW p, p = Tail(q)
    PROVE  /\ p \in Seq(S) /\ HasNoRepetition(p) /\ Head(q) \in S /\ IsHeldBy(q, Head(q))
           /\ \A h : IsHeldBy(p, h) <=> IsHeldBy(q, h) /\ h # Head(q)
<1>1. /\ p \in Seq(S) /\ Len(q) \in Nat \ {0} /\ Len(p) = Len(q) - 1
      /\ \A i \in 1..Len(p) : p[i] = q[i + 1]
      /\ DOMAIN q = 1..Len(q) /\ DOMAIN p = 1..Len(p)
    BY HeadTailProperties
<1>2. Head(q) = q[1] /\ Head(q) \in S /\ 1 \in DOMAIN q
    BY <1>1
<1>3. \A i \in DOMAIN p : i + 1 \in DOMAIN q /\ i + 1 # 1 /\ i \in Int
    BY <1>1
<1>4. \A i \in DOMAIN q : i = 1 \/ (i - 1 \in DOMAIN p /\ (i - 1) + 1 = i)
    BY <1>1
<1>5. HasNoRepetition(p)
    <2> SUFFICES ASSUME NEW i \in DOMAIN p, NEW j \in DOMAIN p, p[i] = p[j] PROVE i = j
        BY DEF HasNoRepetition
    <2>1. q[i + 1] = q[j + 1] /\ i + 1 \in DOMAIN q /\ j + 1 \in DOMAIN q
        BY <1>1, <1>3
    <2>2. i + 1 = j + 1
        BY <2>1 DEF HasNoRepetition
    <2> QED BY <1>3, <2>2
<1>6. ASSUME NEW h PROVE IsHeldBy(p, h) <=> IsHeldBy(q, h) /\ h # Head(q)
    <2>1. ASSUME IsHeldBy(p, h) PROVE IsHeldBy(q, h) /\ h # Head(q)
        <3>1. PICK i \in DOMAIN p : p[i] = h
            BY <2>1 DEF IsHeldBy
        <3>2. q[i + 1] = h /\ i + 1 \in DOMAIN q /\ i + 1 # 1
            BY <1>1, <1>3, <3>1
        <3> QED BY <1>2, <3>2 DEF IsHeldBy, HasNoRepetition
    <2>2. ASSUME IsHeldBy(q, h), h # Head(q) PROVE IsHeldBy(p, h)
        <3>1. PICK i \in DOMAIN q : q[i] = h
            BY <2>2 DEF IsHeldBy
        <3>2. i - 1 \in DOMAIN p /\ (i - 1) + 1 = i
            BY <1>2, <1>4, <2>2, <3>1
        <3>3. p[i - 1] = q[i]
            BY <1>1, <3>2
        <3> QED BY <3>1, <3>2, <3>3 DEF IsHeldBy
    <2> QED BY <2>1, <2>2
<1> QED BY <1>1, <1>2, <1>5, <1>6 DEF IsHeldBy

-----------------------------------------------------------------------------
(* The schedule window: the inductive invariant *)

Started == [request : ScheduleRequests, stage : {"loading", "done"} \cup JobStages]
Shown == [request : ScheduleRequests, fresh : BOOLEAN, made : Generations]

WindowTypes ==
    /\ refreshGeneration \in 0..MaxGenerations
    /\ refreshes \in [Generations -> Started \cup {NotStarted}]
    /\ windowFile \in Loaded \cup {NoFile}
    /\ shownWindow \in Shown \cup {NoWindow}
    /\ refreshQueue \in Seq(Generations)

\* Exactly the refreshes with a job are in the queue, each once.
QueueIsOfJobs ==
    /\ HasNoRepetition(refreshQueue)
    /\ \A g \in Generations : refreshes[g].stage \in JobStages <=> IsHeldBy(refreshQueue, g)
    /\ \A g \in Generations : refreshes[g] # NotStarted => g <= refreshGeneration

\* Only the first job of the queue has begun.
OneJobRuns ==
    \A g \in Generations :
        refreshes[g].stage \in {"writing", "written", "not written", "reading"} =>
            refreshQueue # <<>> /\ g = Head(refreshQueue)

\* Nothing there is was made by a refresh that is yet to come.
MadeBefore ==
    /\ shownWindow # NoWindow => shownWindow.made <= refreshGeneration
    /\ windowFile # NoFile => windowFile.made <= refreshGeneration

\* The newest refresh, if it is one and not a clearing, is what is wanted; while it reads the
\* file there is nothing on show.
NewestIsWanted ==
    \A g \in Generations :
        g = refreshGeneration /\ refreshes[g] # NotStarted =>
            /\ refreshes[g].request = wantedRequest
            /\ refreshes[g].stage = "reading" => shownWindow = NoWindow

ScheduleInv == /\ WindowTypes /\ QueueIsOfJobs /\ OneJobRuns /\ MadeBefore /\ NewestIsWanted
               /\ ShownWindowIsWanted

LEMMA GenerationsAreNat == \A g \in Generations : g \in Nat /\ g >= 1 /\ g <= MaxGenerations
BY ScheduleAssumption DEF Generations

LEMMA NothingIsDistinct ==
    /\ \A w \in Shown : w # NoWindow /\ w.made >= 1 /\ w.made \in Nat
    /\ \A w \in Loaded : w # NoFile
    /\ \A x \in Started : x # NotStarted /\ x.stage # "not started"
    /\ NotStarted.stage = "not started" /\ NotStarted.stage \notin JobStages
    /\ NoWindow.made = 0
    /\ \A g \in Generations : g \in Nat /\ g >= 1 /\ g <= MaxGenerations
<1>1. \A g \in Generations : g \in Nat /\ g >= 1 /\ g <= MaxGenerations
    BY ScheduleAssumption DEF Generations
<1>2. \A w \in Shown : w.made \in Generations
    BY DEF Shown
<1>3. \A w \in Loaded : w.made \in Generations
    BY DEF Loaded
<1>4. NoWindow.made = 0 /\ NoFile.made = -1
    BY DEF NoWindow, NoFile
<1>5. \A x \in Started : x.stage \in {"loading", "done"} \cup JobStages
    BY DEF Started
<1>6. NotStarted.stage = "not started" /\ NotStarted.stage \notin JobStages
    BY DEF NotStarted, JobStages
<1>7. \A x \in Started : x.stage # "not started"
    BY <1>5 DEF JobStages
<1>8. \A w \in Shown : w # NoWindow /\ w.made >= 1 /\ w.made \in Nat
    BY <1>1, <1>2, <1>4
<1>9. \A w \in Loaded : w # NoFile
    BY <1>1, <1>3, <1>4
<1> QED BY <1>1, <1>4, <1>6, <1>7, <1>8, <1>9

LEMMA InitScheduleInv == ScheduleInit => ScheduleInv
<1> SUFFICES ASSUME ScheduleInit PROVE ScheduleInv
    OBVIOUS
<1>1. 0 \in 0..MaxGenerations /\ <<>> \in Seq(Generations) /\ DOMAIN <<>> = {}
    BY ScheduleAssumption
<1>2. WindowTypes
    BY <1>1 DEF ScheduleInit, WindowTypes
<1>3. QueueIsOfJobs /\ OneJobRuns
    BY <1>1, NothingIsDistinct
       DEF ScheduleInit, QueueIsOfJobs, OneJobRuns, HasNoRepetition, IsHeldBy
<1>4. MadeBefore /\ NewestIsWanted /\ ShownWindowIsWanted
    BY DEF ScheduleInit, MadeBefore, NewestIsWanted, ShownWindowIsWanted
<1> QED BY <1>2, <1>3, <1>4 DEF ScheduleInv

LEMMA ClearInv == ASSUME ScheduleInv, ClearCurrent PROVE ScheduleInv'
<1>1. /\ WindowTypes /\ QueueIsOfJobs /\ OneJobRuns /\ MadeBefore
      /\ refreshGeneration < MaxGenerations /\ refreshGeneration' = refreshGeneration + 1
      /\ shownWindow' = NoWindow /\ wantedRequest' = NotAsked
      /\ UNCHANGED <<refreshes, refreshQueue, windowFile>>
    BY DEF ScheduleInv, ClearCurrent
<1>2. /\ refreshGeneration \in Nat /\ refreshGeneration' \in 0..MaxGenerations
      /\ refreshGeneration' \in Nat
    BY <1>1, ScheduleAssumption DEF WindowTypes
<1>3. WindowTypes'
    BY <1>1, <1>2 DEF WindowTypes
<1>4. \A g \in Generations : refreshes[g] # NotStarted => g < refreshGeneration'
    BY <1>1, <1>2, GenerationsAreNat DEF QueueIsOfJobs
<1>5. QueueIsOfJobs'
    BY <1>1, <1>2, <1>4, GenerationsAreNat DEF QueueIsOfJobs
<1>6. OneJobRuns'
    BY <1>1 DEF OneJobRuns
<1>7. MadeBefore'
    <2>1. windowFile # NoFile => windowFile.made \in Generations
        BY <1>1 DEF WindowTypes, Loaded
    <2> QED BY <1>1, <1>2, <2>1, GenerationsAreNat DEF MadeBefore
<1>8. NewestIsWanted'
    BY <1>1, <1>2, <1>4, GenerationsAreNat DEF NewestIsWanted
<1>9. ShownWindowIsWanted'
    BY <1>1 DEF ShownWindowIsWanted
<1> QED BY <1>3, <1>5, <1>6, <1>7, <1>8, <1>9 DEF ScheduleInv

LEMMA RefreshInv == ASSUME ScheduleInv, NEW r \in ScheduleRequests, RefreshWindow(r)
                    PROVE  ScheduleInv'
<1>1. /\ WindowTypes /\ QueueIsOfJobs /\ OneJobRuns /\ MadeBefore
      /\ refreshGeneration < MaxGenerations /\ refreshGeneration' = refreshGeneration + 1
      /\ refreshes' = [refreshes EXCEPT ![refreshGeneration + 1] =
                          [request |-> r, stage |-> "loading"]]
      /\ shownWindow' = WindowFor(r) /\ wantedRequest' = r
      /\ UNCHANGED <<refreshQueue, windowFile>>
    BY DEF ScheduleInv, RefreshWindow
<1> DEFINE n == refreshGeneration + 1
           new == [request |-> r, stage |-> "loading"]
<1>2. /\ refreshGeneration \in Nat /\ n \in 0..MaxGenerations /\ n \in Generations /\ n \in Nat
    BY <1>1, ScheduleAssumption DEF WindowTypes, Generations
<1>3. /\ new \in Started /\ new.stage = "loading" /\ new.request = r /\ new # NotStarted
    <2>1. new \in Started
        BY DEF Started
    <2> QED BY <2>1, NothingIsDistinct
<1> HIDE DEF new
<1>4. /\ refreshes' \in [Generations -> Started \cup {NotStarted}] /\ refreshes'[n] = new
      /\ \A g \in Generations \ {n} : refreshes'[g] = refreshes[g]
    <2>1. refreshes' = [refreshes EXCEPT ![n] = new]
        BY <1>1 DEF new
    <2> QED BY <1>1, <1>2, <1>3, <2>1 DEF WindowTypes
<1>5. shownWindow' \in {shownWindow, NoWindow}
    BY <1>1 DEF WindowFor
<1>6. WindowTypes'
    BY <1>1, <1>2, <1>4, <1>5 DEF WindowTypes
<1>7. /\ ~(n <= refreshGeneration) /\ refreshes[n] = NotStarted
      /\ \A g \in Generations : refreshes[g] # NotStarted => g < n /\ g # n
    BY <1>1, <1>2, GenerationsAreNat DEF QueueIsOfJobs
<1>8. QueueIsOfJobs'
    <2>1. ~IsHeldBy(refreshQueue, n)
        BY <1>1, <1>2, <1>7, NothingIsDistinct DEF QueueIsOfJobs
    <2>2. \A g \in Generations : refreshes'[g].stage \in JobStages <=> IsHeldBy(refreshQueue', g)
        BY <1>1, <1>3, <1>4, <2>1 DEF QueueIsOfJobs, JobStages
    <2>3. \A g \in Generations : refreshes'[g] # NotStarted => g <= n
        BY <1>2, <1>4, <1>7, GenerationsAreNat
    <2> QED BY <1>1, <2>2, <2>3 DEF QueueIsOfJobs
<1>9. OneJobRuns'
    BY <1>1, <1>3, <1>4 DEF OneJobRuns
<1>10. MadeBefore'
    <2>1. windowFile # NoFile => windowFile.made \in Generations
        BY <1>1 DEF WindowTypes, Loaded
    <2>2. shownWindow # NoWindow => shownWindow.made \in Generations
        BY <1>1 DEF WindowTypes, Shown
    <2> QED BY <1>1, <1>2, <1>5, <2>1, <2>2, GenerationsAreNat DEF MadeBefore
<1>11. NewestIsWanted'
    BY <1>1, <1>3, <1>4, <1>7 DEF NewestIsWanted
<1>12. ShownWindowIsWanted'
    BY <1>1 DEF WindowFor, ShownWindowIsWanted
<1> QED BY <1>6, <1>8, <1>9, <1>10, <1>11, <1>12 DEF ScheduleInv

\* A refresh that is under way moves to another stage.
LEMMA StageMoves ==
    ASSUME WindowTypes, NEW g \in Generations, refreshes[g] # NotStarted,
           NEW stage \in {"loading", "done"} \cup JobStages,
           refreshes' = [refreshes EXCEPT ![g].stage = stage]
    PROVE  /\ refreshes' \in [Generations -> Started \cup {NotStarted}]
           /\ refreshes'[g].stage = stage /\ refreshes'[g].request = refreshes[g].request
           /\ refreshes'[g] # NotStarted
           /\ \A h \in Generations \ {g} : refreshes'[h] = refreshes[h]
<1>1. refreshes \in [Generations -> Started \cup {NotStarted}] /\ refreshes[g] \in Started
    BY DEF WindowTypes
<1> DEFINE new == [refreshes[g] EXCEPT !.stage = stage]
<1>2. new \in Started /\ new.stage = stage /\ new.request = refreshes[g].request
    BY <1>1 DEF Started
<1>3. refreshes' = [refreshes EXCEPT ![g] = new]
    OBVIOUS
<1>4. new # NotStarted
    BY <1>2, NothingIsDistinct
<1> HIDE DEF new
<1> QED BY <1>1, <1>2, <1>3, <1>4

LEMMA LoadInv ==
    ASSUME ScheduleInv, NEW g \in Generations, LoadEnds(g) \/ ScheduleConversionFails(g)
    PROVE  ScheduleInv'
<1>1. /\ WindowTypes /\ QueueIsOfJobs /\ OneJobRuns /\ MadeBefore /\ NewestIsWanted
      /\ ShownWindowIsWanted /\ refreshes[g].stage = "loading"
      /\ UNCHANGED <<shownWindow, refreshGeneration, windowFile, wantedRequest>>
    BY DEF ScheduleInv, LoadEnds, ScheduleConversionFails
<1>2. refreshes[g] # NotStarted /\ refreshQueue \in Seq(Generations)
    BY <1>1, NothingIsDistinct DEF WindowTypes
<1>3. ~IsHeldBy(refreshQueue, g)
    BY <1>1 DEF QueueIsOfJobs, JobStages
<1>4. PICK stage :
         /\ stage \in {"commit", "fallback", "done"}
         /\ refreshes' = [refreshes EXCEPT ![g].stage = stage]
         /\ refreshQueue' = IF stage = "done" THEN refreshQueue ELSE Append(refreshQueue, g)
    <2>1. CASE ScheduleConversionFails(g)
        BY <2>1 DEF ScheduleConversionFails
    <2>2. CASE LoadEnds(g)
        BY <2>2 DEF LoadEnds
    <2> QED BY <2>1, <2>2
<1>5. stage \in {"loading", "done"} \cup JobStages
    BY <1>4 DEF JobStages
<1>6. /\ refreshes' \in [Generations -> Started \cup {NotStarted}]
      /\ refreshes'[g].stage = stage /\ refreshes'[g].request = refreshes[g].request
      /\ refreshes'[g] # NotStarted
      /\ \A h \in Generations \ {g} : refreshes'[h] = refreshes[h]
    BY <1>1, <1>2, <1>4, <1>5, StageMoves
<1>7. /\ refreshQueue' \in Seq(Generations) /\ HasNoRepetition(refreshQueue')
      /\ \A h : IsHeldBy(refreshQueue', h) <=>
                   IsHeldBy(refreshQueue, h) \/ (h = g /\ stage # "done")
      /\ refreshQueue # <<>> => refreshQueue' # <<>> /\ Head(refreshQueue') = Head(refreshQueue)
    <2>1. HasNoRepetition(refreshQueue)
        BY <1>1 DEF QueueIsOfJobs
    <2>2. CASE stage = "done"
        BY <1>2, <1>4, <2>1, <2>2
    <2>3. CASE stage # "done"
        <3> DEFINE p == refreshQueue'
        <3>1. p = Append(refreshQueue, g)
            BY <1>4, <2>3
        <3> HIDE DEF p
        <3>2. /\ p \in Seq(Generations) /\ HasNoRepetition(p)
              /\ \A h : IsHeldBy(p, h) <=> IsHeldBy(refreshQueue, h) \/ h = g
              /\ refreshQueue # <<>> => p # <<>> /\ Head(p) = Head(refreshQueue)
            <4>1. refreshQueue \in Seq(Generations) /\ g \in Generations
                BY <1>2
            <4>2. p \in Seq(Generations) /\ HasNoRepetition(p)
                BY <1>3, <2>1, <3>1, <4>1, AppendHolds, ZenonT(30)
            <4>3. ASSUME NEW h
                  PROVE  IsHeldBy(p, h) <=> IsHeldBy(refreshQueue, h) \/ h = g
                <5>1. IsHeldBy(Append(refreshQueue, g), h) <=> IsHeldBy(refreshQueue, h) \/ h = g
                    BY <4>1, AppendIsHeld
                <5> QED BY <3>1, <5>1
            <4>4. refreshQueue # <<>> => p # <<>> /\ Head(p) = Head(refreshQueue)
                BY <1>3, <2>1, <3>1, <4>1, AppendHolds
            <4> QED BY <4>2, <4>3, <4>4
        <3>3. \A h : IsHeldBy(p, h) <=> IsHeldBy(refreshQueue, h) \/ (h = g /\ stage # "done")
            BY <2>3, <3>2
        <3> QED BY <3>2, <3>3 DEF p
    <2> QED BY <2>2, <2>3
<1>8. WindowTypes'
    BY <1>1, <1>6, <1>7 DEF WindowTypes
<1>9. QueueIsOfJobs'
    <2>1. \A h \in Generations : refreshes'[h].stage \in JobStages <=> IsHeldBy(refreshQueue', h)
        BY <1>1, <1>3, <1>4, <1>6, <1>7 DEF QueueIsOfJobs, JobStages
    <2>2. \A h \in Generations : refreshes'[h] # NotStarted => h <= refreshGeneration
        BY <1>1, <1>2, <1>6 DEF QueueIsOfJobs
    <2> QED BY <1>1, <1>7, <2>1, <2>2 DEF QueueIsOfJobs
<1>10. OneJobRuns'
    BY <1>1, <1>4, <1>6, <1>7 DEF OneJobRuns
<1>11. NewestIsWanted'
    BY <1>1, <1>2, <1>4, <1>6 DEF NewestIsWanted
<1>12. MadeBefore' /\ ShownWindowIsWanted'
    BY <1>1 DEF MadeBefore, ShownWindowIsWanted
<1> QED BY <1>8, <1>9, <1>10, <1>11, <1>12 DEF ScheduleInv

-----------------------------------------------------------------------------
(* The jobs of the schedule window *)

\* The running job goes on, or makes room for the next.
JobMoves(g, stage) ==
    /\ refreshes' = [refreshes EXCEPT ![g].stage = stage]
    /\ refreshQueue' = IF stage = "done" THEN Tail(refreshQueue) ELSE refreshQueue

LEMMA JobInv ==
    ASSUME ScheduleInv, NEW g \in Generations, refreshQueue # <<>>, g = Head(refreshQueue),
           NEW stage \in {"done"} \cup JobStages, JobMoves(g, stage),
           stage = "reading" => shownWindow' = NoWindow,
           UNCHANGED <<refreshGeneration, wantedRequest>>,
           windowFile' \in Loaded \cup {NoFile}, shownWindow' \in Shown \cup {NoWindow},
           windowFile' # NoFile => windowFile'.made <= refreshGeneration,
           shownWindow' # NoWindow => shownWindow'.made <= refreshGeneration,
           shownWindow' # NoWindow => shownWindow'.request = wantedRequest
    PROVE  ScheduleInv'
PROOF
<1>1. /\ WindowTypes /\ QueueIsOfJobs /\ OneJobRuns /\ NewestIsWanted
      /\ refreshQueue \in Seq(Generations) /\ HasNoRepetition(refreshQueue)
    BY DEF ScheduleInv, WindowTypes, QueueIsOfJobs
<1>2. IsHeldBy(refreshQueue, g)
    BY <1>1, TailHolds
<1>3. refreshes[g] # NotStarted
    BY <1>1, <1>2, NothingIsDistinct DEF QueueIsOfJobs
<1>4. /\ refreshes' \in [Generations -> Started \cup {NotStarted}]
      /\ refreshes'[g].stage = stage /\ refreshes'[g].request = refreshes[g].request
      /\ refreshes'[g] # NotStarted
      /\ \A h \in Generations \ {g} : refreshes'[h] = refreshes[h]
    BY <1>1, <1>3, StageMoves DEF JobMoves
<1>5. /\ refreshQueue' \in Seq(Generations) /\ HasNoRepetition(refreshQueue')
      /\ \A h : IsHeldBy(refreshQueue', h) <=>
                   IsHeldBy(refreshQueue, h) /\ (h # g \/ stage # "done")
      /\ stage # "done" => refreshQueue' = refreshQueue
    <2>1. CASE stage # "done"
        BY <1>1, <2>1 DEF JobMoves
    <2>2. CASE stage = "done"
        <3> DEFINE p == refreshQueue'
        <3>1. p = Tail(refreshQueue)
            BY <2>2 DEF JobMoves
        <3> HIDE DEF p
        <3>2. /\ p \in Seq(Generations) /\ HasNoRepetition(p)
              /\ \A h : IsHeldBy(p, h) <=> IsHeldBy(refreshQueue, h) /\ h # Head(refreshQueue)
            BY <1>1, <3>1, TailHolds
        <3> QED BY <2>2, <3>2 DEF p
    <2> QED BY <2>1, <2>2
<1>6. WindowTypes'
    BY <1>1, <1>4, <1>5 DEF WindowTypes
<1>7. QueueIsOfJobs'
    <2>1. \A h \in Generations : refreshes'[h].stage \in JobStages <=> IsHeldBy(refreshQueue', h)
        BY <1>1, <1>2, <1>4, <1>5 DEF QueueIsOfJobs, JobStages
    <2>2. \A h \in Generations : refreshes'[h] # NotStarted => h <= refreshGeneration
        BY <1>1, <1>3, <1>4 DEF QueueIsOfJobs
    <2> QED BY <1>5, <2>1, <2>2 DEF QueueIsOfJobs
<1>8. OneJobRuns'
    BY <1>1, <1>4, <1>5 DEF OneJobRuns
<1>9. NewestIsWanted'
    <2> SUFFICES ASSUME NEW h \in Generations, h = refreshGeneration, refreshes'[h] # NotStarted
                 PROVE  /\ refreshes'[h].request = wantedRequest
                        /\ refreshes'[h].stage = "reading" => shownWindow' = NoWindow
        BY DEF NewestIsWanted
    <2>1. CASE h = g
        BY <1>1, <1>3, <1>4, <2>1 DEF NewestIsWanted
    <2>2. CASE h # g
        BY <1>1, <1>4, <2>2 DEF NewestIsWanted, OneJobRuns
    <2> QED BY <2>1, <2>2
<1>10. MadeBefore' /\ ShownWindowIsWanted'
    BY DEF MadeBefore, ShownWindowIsWanted
<1> QED BY <1>6, <1>7, <1>8, <1>9, <1>10 DEF ScheduleInv

WindowIsNotOlder ==
    shownWindow # NoWindow /\ shownWindow' # NoWindow => shownWindow'.made >= shownWindow.made

LEMMA ScheduleJobInv ==
    ASSUME ScheduleInv, NEW g \in Generations, ScheduleJob(g)
    PROVE  ScheduleInv' /\ WindowIsNotOlder
<1>1. /\ WindowTypes /\ QueueIsOfJobs /\ MadeBefore /\ NewestIsWanted /\ ShownWindowIsWanted
      /\ windowFile \in Loaded \cup {NoFile} /\ shownWindow \in Shown \cup {NoWindow}
      /\ refreshGeneration \in Nat /\ g \in Nat
    BY ScheduleAssumption, GenerationsAreNat DEF ScheduleInv, WindowTypes
<1>2. refreshQueue # <<>> /\ g = Head(refreshQueue) /\ refreshes[g].stage \in JobStages
    BY DEF ScheduleJob, CommitBegins, FileIsReplaced, WindowWriteFails, CommitEnds,
           FallbackBegins, FallbackIsRead, RefreshRuns, JobStages
<1>3. refreshes[g] # NotStarted /\ g <= refreshGeneration
    BY <1>1, <1>2, NothingIsDistinct DEF QueueIsOfJobs
<1>4. refreshes[g].request \in ScheduleRequests
    BY <1>1, <1>3 DEF WindowTypes, Started
<1>5. UNCHANGED <<refreshGeneration, wantedRequest>>
    BY DEF ScheduleJob, CommitBegins, FileIsReplaced, WindowWriteFails, CommitEnds,
           FallbackBegins, FallbackIsRead
<1>6. shownWindow # NoWindow => shownWindow.made \in Nat /\ shownWindow.made <= refreshGeneration
    BY <1>1, NothingIsDistinct DEF MadeBefore
<1>7. windowFile # NoFile => windowFile.made <= refreshGeneration
    BY <1>1 DEF MadeBefore
<1>8. shownWindow # NoWindow => shownWindow.request = wantedRequest
    BY <1>1 DEF ShownWindowIsWanted
<1>9. g = refreshGeneration => /\ refreshes[g].request = wantedRequest
                               /\ refreshes[g].stage = "reading" => shownWindow = NoWindow
    BY <1>1, <1>3 DEF NewestIsWanted
<1>10. {"writing", "written", "not written", "reading"} \subseteq {"done"} \cup JobStages
    BY DEF JobStages
\* A job that leaves alone what is on show and what is kept.
<1>11. ASSUME NEW stage, stage \in {"writing", "not written", "done"}, JobMoves(g, stage),
              UNCHANGED <<shownWindow, windowFile>>
       PROVE  ScheduleInv' /\ WindowIsNotOlder
    <2>1. stage \in {"done"} \cup JobStages /\ stage # "reading"
        BY <1>10, <1>11
    <2>2. ScheduleInv'
        BY <1>1, <1>2, <1>5, <1>6, <1>7, <1>8, <1>11, <2>1, JobInv
    <2>3. WindowIsNotOlder
        <3>1. shownWindow' = shownWindow
            BY <1>11
        <3>2. shownWindow # NoWindow => shownWindow.made \in Nat
            BY <1>6
        <3>3. shownWindow # NoWindow => shownWindow.made >= shownWindow.made
            BY <3>2
        <3> QED BY <3>1, <3>3 DEF WindowIsNotOlder
    <2> QED BY <2>2, <2>3
<1>12. CASE CommitBegins(g)
    <2>1. (JobMoves(g, "writing") \/ JobMoves(g, "done")) /\ UNCHANGED <<shownWindow, windowFile>>
        BY <1>12 DEF CommitBegins, RefreshMovesTo, RefreshEndsNow, JobMoves
    <2> QED BY <1>11, <2>1
<1>13. CASE WindowWriteFails(g)
    <2>1. JobMoves(g, "not written") /\ UNCHANGED <<shownWindow, windowFile>>
        BY <1>13 DEF WindowWriteFails, RefreshMovesTo, JobMoves
    <2> QED BY <1>11, <2>1
<1>14. CASE FileIsReplaced(g)
    <2>1. CASE RefreshIsCurrent(g)
        <3>1. /\ windowFile' = [request |-> refreshes[g].request, made |-> g]
              /\ JobMoves(g, "written") /\ shownWindow' = shownWindow
            BY <1>14, <2>1 DEF FileIsReplaced, RefreshMovesTo, JobMoves
        <3>2. windowFile' \in Loaded \cup {NoFile} /\ windowFile'.made = g
            BY <1>4, <3>1 DEF Loaded
        <3>3. ScheduleInv'
            BY <1>1, <1>2, <1>3, <1>5, <1>6, <1>8, <1>10, <3>1, <3>2, JobInv
        <3> QED BY <1>6, <3>1, <3>3 DEF WindowIsNotOlder
    <2>2. CASE ~RefreshIsCurrent(g)
        <3>1. JobMoves(g, "done") /\ UNCHANGED <<shownWindow, windowFile>>
            BY <1>14, <2>2 DEF FileIsReplaced, RefreshEndsNow, JobMoves
        <3> QED BY <1>11, <3>1
    <2> QED BY <2>1, <2>2
<1>15. CASE CommitEnds(g)
    <2>1. JobMoves(g, "done") /\ windowFile' = windowFile
        BY <1>15 DEF CommitEnds, RefreshEndsNow, JobMoves
    <2>2. CASE RefreshIsCurrent(g)
        <3>1. /\ shownWindow' = [request |-> refreshes[g].request, fresh |-> TRUE, made |-> g]
              /\ g = refreshGeneration
            BY <1>15, <2>2 DEF CommitEnds, RefreshIsCurrent
        <3>2. /\ shownWindow' \in Shown \cup {NoWindow} /\ shownWindow'.made = g
              /\ shownWindow'.request = wantedRequest
            BY <1>4, <1>9, <3>1 DEF Shown
        <3>3. ScheduleInv'
            BY <1>1, <1>2, <1>3, <1>5, <1>7, <1>10, <2>1, <3>2, JobInv
        <3>4. shownWindow # NoWindow => shownWindow'.made >= shownWindow.made
            BY <1>1, <1>6, <3>1, <3>2
        <3> QED BY <3>3, <3>4 DEF WindowIsNotOlder
    <2>3. CASE ~RefreshIsCurrent(g)
        <3>1. shownWindow' = shownWindow
            BY <1>15, <2>3 DEF CommitEnds
        <3> QED BY <1>11, <2>1, <3>1
    <2> QED BY <2>2, <2>3
<1>16. CASE FallbackBegins(g)
    <2>1. CASE ~RefreshIsCurrent(g)
        <3>1. JobMoves(g, "done") /\ UNCHANGED <<shownWindow, windowFile>>
            BY <1>16, <2>1 DEF FallbackBegins, RefreshEndsNow, JobMoves
        <3> QED BY <1>11, <3>1
    <2>2. CASE RefreshIsCurrent(g) /\ MemoryHas(refreshes[g].request)
        <3>1. /\ shownWindow' = [shownWindow EXCEPT !.fresh = FALSE] /\ shownWindow # NoWindow
              /\ JobMoves(g, "done") /\ windowFile' = windowFile
            BY <1>16, <2>2 DEF FallbackBegins, MemoryHas, RefreshEndsNow, JobMoves
        <3>2. /\ shownWindow' \in Shown \cup {NoWindow} /\ shownWindow'.made = shownWindow.made
              /\ shownWindow'.request = shownWindow.request
            BY <1>1, <3>1 DEF Shown
        <3>3. ScheduleInv'
            BY <1>1, <1>2, <1>5, <1>6, <1>7, <1>8, <1>10, <3>1, <3>2, JobInv
        <3> QED BY <1>6, <3>1, <3>2, <3>3 DEF WindowIsNotOlder
    <2>3. CASE RefreshIsCurrent(g) /\ ~MemoryHas(refreshes[g].request)
        <3>1. JobMoves(g, "reading") /\ UNCHANGED <<shownWindow, windowFile>>
            BY <1>16, <2>3 DEF FallbackBegins, RefreshMovesTo, JobMoves
        <3>2. shownWindow = NoWindow
            BY <1>8, <1>9, <2>3 DEF RefreshIsCurrent, MemoryHas
        <3>3. ScheduleInv'
            BY <1>1, <1>2, <1>5, <1>7, <1>10, <3>1, <3>2, JobInv
        <3> QED BY <3>2, <3>3 DEF WindowIsNotOlder
    <2> QED BY <2>1, <2>2, <2>3
<1>17. CASE FallbackIsRead(g)
    <2>1. JobMoves(g, "done") /\ windowFile' = windowFile /\ refreshes[g].stage = "reading"
        BY <1>17 DEF FallbackIsRead, RefreshEndsNow, RefreshRuns, JobMoves
    <2>2. CASE /\ RefreshIsCurrent(g)
               /\ windowFile # NoFile /\ windowFile.request = refreshes[g].request
        <3>1. /\ shownWindow' = [request |-> windowFile.request, fresh |-> FALSE,
                                 made |-> windowFile.made]
              /\ g = refreshGeneration /\ shownWindow = NoWindow
            BY <1>9, <1>17, <2>1, <2>2 DEF FallbackIsRead, RefreshIsCurrent
        <3>2. /\ shownWindow' \in Shown \cup {NoWindow} /\ shownWindow'.made = windowFile.made
              /\ shownWindow'.request = wantedRequest
            BY <1>1, <1>9, <2>2, <3>1 DEF Shown, Loaded
        <3>3. ScheduleInv'
            BY <1>1, <1>2, <1>5, <1>7, <1>10, <2>1, <2>2, <3>2, JobInv
        <3> QED BY <3>1, <3>3 DEF WindowIsNotOlder
    <2>3. CASE ~(/\ RefreshIsCurrent(g)
                 /\ windowFile # NoFile /\ windowFile.request = refreshes[g].request)
        <3>1. shownWindow' = shownWindow
            BY <1>17, <2>3 DEF FallbackIsRead
        <3> QED BY <1>11, <2>1, <3>1
    <2> QED BY <2>2, <2>3
<1> QED BY <1>12, <1>13, <1>14, <1>15, <1>16, <1>17 DEF ScheduleJob

\* The window on show is that of the last request and never goes back to an older schedule of
\* it, however refreshes overlap, fail, fall back to the file or are superseded.
THEOREM ScheduleIsSound == ScheduleSpec => ScheduleSound
<1>1. ScheduleInv /\ [ScheduleNext]_scheduleVars => ScheduleInv'
    <2> SUFFICES ASSUME ScheduleInv, [ScheduleNext]_scheduleVars PROVE ScheduleInv'
        OBVIOUS
    <2>1. CASE UNCHANGED scheduleVars
        BY <2>1 DEF scheduleVars, ScheduleInv, WindowTypes, QueueIsOfJobs, OneJobRuns,
                    MadeBefore, NewestIsWanted, ShownWindowIsWanted
    <2> QED BY <2>1, ClearInv, RefreshInv, LoadInv, ScheduleJobInv DEF ScheduleNext
<1>2. ScheduleInv => ScheduleTypeOK /\ ShownWindowIsWanted
    <2> SUFFICES ASSUME ScheduleInv PROVE ScheduleTypeOK
        BY DEF ScheduleInv
    <2>1. WindowTypes /\ QueueIsOfJobs
        BY DEF ScheduleInv
    <2>2. ASSUME NEW g \in Generations
          PROVE IF g > refreshGeneration THEN refreshes[g] = NotStarted
                ELSE \/ refreshes[g] = NotStarted
                     \/ refreshes[g] \in [request : ScheduleRequests,
                                          stage : {"loading", "done"} \cup JobStages]
        <3>1. g \in Nat /\ refreshGeneration \in Nat
            BY <2>1, GenerationsAreNat, ScheduleAssumption DEF WindowTypes
        <3>2. g > refreshGeneration => refreshes[g] = NotStarted
            BY <2>1, <3>1 DEF QueueIsOfJobs
        <3> QED BY <2>1, <3>2 DEF WindowTypes, Started
    <2> QED BY <2>1, <2>2 DEF ScheduleTypeOK, WindowTypes, QueueIsOfJobs, HasNoRepetition,
                              IsHeldBy, Shown
<1>3. ScheduleInv /\ [ScheduleNext]_scheduleVars =>
        [shownWindow # NoWindow /\ shownWindow'.made > 0 =>
            shownWindow'.made >= shownWindow.made]_scheduleVars
    <2> SUFFICES ASSUME ScheduleInv, ScheduleNext, shownWindow # NoWindow, shownWindow'.made > 0
                 PROVE  shownWindow'.made >= shownWindow.made
        OBVIOUS
    <2>1. shownWindow' # NoWindow
        <3>1. NoWindow.made = 0
            BY NothingIsDistinct
        <3> QED BY <3>1
    <2>2. shownWindow' = shownWindow => shownWindow'.made >= shownWindow.made
        <3>1. shownWindow.made \in Nat
            BY NothingIsDistinct DEF ScheduleInv, WindowTypes
        <3> QED BY <3>1
    <2>3. ASSUME NEW r \in ScheduleRequests, RefreshWindow(r)
          PROVE  shownWindow'.made >= shownWindow.made
        BY <2>1, <2>2, <2>3 DEF RefreshWindow, WindowFor
    <2>4. ASSUME NEW g \in Generations, LoadEnds(g) \/ ScheduleConversionFails(g)
          PROVE  shownWindow'.made >= shownWindow.made
        BY <2>2, <2>4 DEF LoadEnds, ScheduleConversionFails
    <2>5. ~ClearCurrent
        BY <2>1 DEF ClearCurrent
    <2> QED BY <2>1, <2>3, <2>4, <2>5, ScheduleJobInv DEF ScheduleNext, WindowIsNotOlder
<1> QED BY <1>1, <1>2, <1>3, InitScheduleInv, PTL
           DEF ScheduleSpec, ScheduleSound, WindowNeverGoesBack

-----------------------------------------------------------------------------
(* The HUD configuration: the inductive invariant *)

HudMutations == [page : BOOLEAN, kind : HudKinds \cup {Activation}, value : HudContents,
                 expected : HudDocuments, from : HudContents]
HudReplies == [result : {"ok", "conflict"}, kind : HudKinds \cup {Activation},
               document : HudDocuments]
              \cup [result : {"failed"}, kind : HudKinds \cup {Activation, Nothing},
                    document : HudDocuments]
HudPages == [seen : HudDocuments, drafts : HudResources, bases : [HudKinds -> HudDocuments],
             conflicts : [HudKinds -> BOOLEAN], committed : HudKinds \cup {Nothing},
             busy : BOOLEAN]

StoreTypes ==
    /\ hudDocument \in HudDocuments /\ hudFile \in HudDocuments
    /\ hudJobs \in Seq(HudMutations)
    /\ hudStep \in {"ready", "writing", "written"}
    /\ hudStep # "ready" => hudJobs # <<>>
EditorTypes ==
    /\ hudAnswer \in HudReplies \cup {NoAnswer}
    /\ hudPage \in HudPages
    /\ hudPoll \in HudDocuments \cup {NoPoll}
    /\ editedFrom \in HudResources

\* The page's own mutations in the queue q.
OwnIn(q) == \E i \in DOMAIN q : q[i].page
OneOwnIn(q) == \A i, j \in DOMAIN q : q[i].page /\ q[j].page => i = j

\* The page's mutation is queued or answered, never both, and the page knows that it waits.
OneMutation ==
    /\ OneOwnIn(hudJobs)
    /\ OwnIn(hudJobs) => hudAnswer = NoAnswer
    /\ hudPage.busy <=> OwnIn(hudJobs) \/ hudAnswer # NoAnswer

\* The file runs ahead of the document by the mutation just written, and by nothing else.
FileIsAhead ==
    hudFile = IF hudStep = "written" THEN Candidate(HudJob) ELSE hudDocument

HudIInv == StoreTypes /\ EditorTypes /\ OneMutation /\ FileIsAhead

LEMMA AppendOwn ==
    ASSUME NEW S, NEW q \in Seq(S), NEW job \in S, NEW p, p = Append(q, job)
    PROVE  /\ p \in Seq(S) /\ p # <<>>
           /\ OwnIn(p) <=> OwnIn(q) \/ job.page
           /\ OneOwnIn(q) /\ ~(OwnIn(q) /\ job.page) => OneOwnIn(p)
           /\ q # <<>> => Head(p) = Head(q)
<1>1. /\ p \in Seq(S) /\ Len(q) \in Nat /\ Len(p) = Len(q) + 1 /\ p[Len(q) + 1] = job
      /\ \A i \in 1..Len(q) : p[i] = q[i]
      /\ DOMAIN q = 1..Len(q) /\ DOMAIN p = 1..Len(p) /\ p # <<>>
    BY AppendProperties
<1>2. /\ \A i \in DOMAIN p : i \in DOMAIN q \/ i = Len(q) + 1
      /\ \A i \in DOMAIN q : i \in DOMAIN p /\ p[i] = q[i]
      /\ Len(q) + 1 \in DOMAIN p
    BY <1>1
<1>3. OwnIn(p) <=> OwnIn(q) \/ job.page
    BY <1>1, <1>2 DEF OwnIn
<1>4. ASSUME OneOwnIn(q), ~(OwnIn(q) /\ job.page) PROVE OneOwnIn(p)
    <2> SUFFICES ASSUME NEW i \in DOMAIN p, NEW j \in DOMAIN p, p[i].page, p[j].page
                 PROVE  i = j
        BY DEF OneOwnIn
    <2>1. CASE i \in DOMAIN q /\ j \in DOMAIN q
        BY <1>2, <1>4, <2>1 DEF OneOwnIn
    <2>2. CASE i = Len(q) + 1 /\ j = Len(q) + 1
        BY <2>2
    <2>3. ~(i \in DOMAIN q /\ j = Len(q) + 1) /\ ~(j \in DOMAIN q /\ i = Len(q) + 1)
        BY <1>1, <1>2, <1>4 DEF OwnIn
    <2> QED BY <1>2, <2>1, <2>2, <2>3
<1>5. q # <<>> => Head(p) = Head(q)
    <2> SUFFICES ASSUME q # <<>> PROVE Head(p) = Head(q)
        OBVIOUS
    <2>1. 1 \in 1..Len(q) /\ Head(q) = q[1] /\ Head(p) = p[1]
        BY <1>1
    <2> QED BY <1>1, <2>1
<1> QED BY <1>1, <1>3, <1>4, <1>5

LEMMA TailOwn ==
    ASSUME NEW S, NEW q \in Seq(S), q # <<>>, OneOwnIn(q), NEW p, p = Tail(q)
    PROVE  /\ p \in Seq(S) /\ OneOwnIn(p) /\ Head(q) \in S
           /\ Head(q).page => OwnIn(q) /\ ~OwnIn(p)
           /\ ~Head(q).page => (OwnIn(p) <=> OwnIn(q))
<1>1. /\ p \in Seq(S) /\ Len(q) \in Nat \ {0} /\ Len(p) = Len(q) - 1
      /\ \A i \in 1..Len(p) : p[i] = q[i + 1]
      /\ DOMAIN q = 1..Len(q) /\ DOMAIN p = 1..Len(p)
    BY HeadTailProperties
<1>2. Head(q) = q[1] /\ Head(q) \in S /\ 1 \in DOMAIN q
    BY <1>1
<1>3. \A i \in DOMAIN p : i + 1 \in DOMAIN q /\ i + 1 # 1 /\ i \in Int /\ p[i] = q[i + 1]
    BY <1>1
<1>4. \A i \in DOMAIN q : i = 1 \/ (i - 1 \in DOMAIN p /\ p[i - 1] = q[i])
    BY <1>1
<1>5. OneOwnIn(p)
    <2> SUFFICES ASSUME NEW i \in DOMAIN p, NEW j \in DOMAIN p, p[i].page, p[j].page
                 PROVE  i = j
        BY DEF OneOwnIn
    <2>1. i + 1 = j + 1
        BY <1>3 DEF OneOwnIn
    <2> QED BY <1>3, <2>1
<1>6. ASSUME Head(q).page PROVE OwnIn(q) /\ ~OwnIn(p)
    <2>1. OwnIn(q)
        BY <1>2, <1>6 DEF OwnIn
    <2>2. ASSUME NEW i \in DOMAIN p, p[i].page PROVE FALSE
        BY <1>2, <1>3, <1>6, <2>2 DEF OneOwnIn
    <2> QED BY <2>1, <2>2 DEF OwnIn
<1>7. ASSUME ~Head(q).page PROVE OwnIn(p) <=> OwnIn(q)
    BY <1>2, <1>3, <1>4, <1>7 DEF OwnIn
<1> QED BY <1>1, <1>2, <1>5, <1>6, <1>7

LEMMA InitHudInv == HudInit => HudIInv
<1> SUFFICES ASSUME HudInit PROVE HudIInv
    OBVIOUS
<1>1. FirstResources \in HudResources
    BY HudAssumption DEF FirstResources, HudResources
<1>2. FirstDocument \in HudDocuments
    BY <1>1 DEF FirstDocument, HudDocuments
<1>3. StoreTypes
    BY <1>2 DEF HudInit, StoreTypes
<1>4. EditorTypes
    <2>1. hudPage \in HudPages
        BY <1>1, <1>2 DEF HudInit, HudPages
    <2> QED BY <1>1, <2>1 DEF HudInit, EditorTypes
<1>5. OneMutation /\ FileIsAhead
    <2>1. DOMAIN <<>> = {} /\ hudJobs = <<>> /\ hudAnswer = NoAnswer /\ hudPage.busy = FALSE
          /\ hudStep = "ready" /\ hudFile = hudDocument
        BY DEF HudInit
    <2> QED BY <2>1 DEF OneMutation, FileIsAhead, OwnIn, OneOwnIn
<1> QED BY <1>3, <1>4, <1>5 DEF HudIInv

LEMMA CandidateIsDocument ==
    ASSUME hudDocument \in HudDocuments, NEW job \in HudMutations
    PROVE  Candidate(job) \in HudDocuments
<1>1. /\ hudDocument.saved \in HudResources /\ hudDocument.onAir \in HudResources
      /\ job.value \in HudContents /\ job.kind \in HudKinds \cup {Activation}
    BY DEF HudDocuments, HudMutations
<1>2. CASE job.kind = Activation
    BY <1>1, <1>2 DEF Candidate, HudDocuments
<1>3. CASE job.kind # Activation
    <2>1. [hudDocument.saved EXCEPT ![job.kind] = job.value] \in HudResources
        BY <1>1, <1>3 DEF HudResources
    <2> DEFINE saved == [hudDocument.saved EXCEPT ![job.kind] = job.value]
    <2>2. Candidate(job) = [hudDocument EXCEPT !.saved = saved]
        BY <1>3 DEF Candidate
    <2> HIDE DEF saved
    <2> QED BY <1>1, <2>1, <2>2 DEF HudDocuments, saved
<1> QED BY <1>2, <1>3

\* The first mutation of the queue is answered.
LEMMA AnswerInv ==
    ASSUME StoreTypes, EditorTypes, OneMutation, hudJobs # <<>>,
           NEW result \in {"ok", "conflict", "failed"}, NEW document \in HudDocuments,
           HudAnswers(result, document), HudJobIsDone, UNCHANGED <<hudPage, hudPoll, editedFrom>>
    PROVE  /\ EditorTypes' /\ OneMutation'
           /\ hudJobs' \in Seq(HudMutations) /\ hudStep' = "ready"
PROOF
<1>1. /\ hudJobs \in Seq(HudMutations) /\ OneOwnIn(hudJobs) /\ hudJobs' = Tail(hudJobs)
      /\ hudStep' = "ready"
    BY DEF StoreTypes, OneMutation, HudJobIsDone
<1>2. /\ hudJobs' \in Seq(HudMutations) /\ OneOwnIn(hudJobs') /\ HudJob \in HudMutations
      /\ HudJob.page => OwnIn(hudJobs) /\ ~OwnIn(hudJobs')
      /\ ~HudJob.page => (OwnIn(hudJobs') <=> OwnIn(hudJobs))
    <2> DEFINE p == hudJobs'
    <2>1. p = Tail(hudJobs)
        BY <1>1
    <2> HIDE DEF p
    <2>2. /\ p \in Seq(HudMutations) /\ OneOwnIn(p) /\ Head(hudJobs) \in HudMutations
          /\ Head(hudJobs).page => OwnIn(hudJobs) /\ ~OwnIn(p)
          /\ ~Head(hudJobs).page => (OwnIn(p) <=> OwnIn(hudJobs))
        BY <1>1, <2>1, TailOwn
    <2> QED BY <2>2 DEF p, HudJob
<1>3. HudJob.kind \in HudKinds \cup {Activation} /\ HudJob.page \in BOOLEAN
    BY <1>2 DEF HudMutations
<1> DEFINE reply == [result |-> result, kind |-> HudJob.kind, document |-> document]
<1>4. reply \in HudReplies /\ reply # NoAnswer
    <2>1. reply \in HudReplies
        BY <1>3 DEF HudReplies
    <2>2. reply.result = result /\ NoAnswer.result = "none"
        BY DEF NoAnswer
    <2> QED BY <2>1, <2>2
<1>5. hudAnswer' = IF HudJob.page THEN reply ELSE hudAnswer
    BY DEF HudAnswers
<1> HIDE DEF reply
<1>6. EditorTypes'
    BY <1>4, <1>5 DEF EditorTypes
<1>7. OneMutation'
    <2>1. CASE HudJob.page
        BY <1>2, <1>4, <1>5, <2>1 DEF OneMutation
    <2>2. CASE ~HudJob.page
        BY <1>2, <1>5, <2>2 DEF OneMutation
    <2> QED BY <2>1, <2>2
<1> QED BY <1>1, <1>2, <1>6, <1>7

LEMMA CommitInv ==
    ASSUME HudIInv, CommitHudBegins \/ HudFileIsReplaced \/ CommitHudEnds \/ HudWriteFails
    PROVE  HudIInv'
<1>1. /\ StoreTypes /\ EditorTypes /\ OneMutation /\ FileIsAhead
      /\ hudDocument \in HudDocuments /\ hudFile \in HudDocuments
      /\ UNCHANGED <<hudPage, hudPoll, editedFrom>>
    BY DEF HudIInv, StoreTypes, CommitHudBegins, HudFileIsReplaced, CommitHudEnds,
           HudWriteFails, hudEditor
<1>2. hudJobs # <<>>
    BY <1>1 DEF StoreTypes, CommitHudBegins, HudFileIsReplaced, CommitHudEnds, HudWriteFails
<1>3. Candidate(HudJob) \in HudDocuments
    <2>1. HudJob \in HudMutations
        BY <1>1, <1>2, TailOwn DEF StoreTypes, OneMutation, HudJob
    <2> QED BY <1>1, <2>1, CandidateIsDocument
\* The mutation is answered.
<1>4. ASSUME NEW result \in {"ok", "conflict", "failed"}, NEW document \in HudDocuments,
             HudAnswers(result, document), HudJobIsDone,
             hudDocument' \in HudDocuments, hudFile' = hudDocument', hudFile' \in HudDocuments
      PROVE  HudIInv'
    <2>1. /\ EditorTypes' /\ OneMutation'
          /\ hudJobs' \in Seq(HudMutations) /\ hudStep' = "ready"
        BY <1>1, <1>2, <1>4, AnswerInv
    <2>2. StoreTypes' /\ FileIsAhead'
        BY <1>4, <2>1 DEF StoreTypes, FileIsAhead
    <2> QED BY <2>1, <2>2 DEF HudIInv
<1>5. CASE CommitHudBegins
    <2>1. hudStep = "ready" /\ UNCHANGED <<hudDocument, hudFile>> /\ hudFile = hudDocument
        BY <1>1, <1>5 DEF CommitHudBegins, FileIsAhead
    <2>2. CASE HudJob.expected = hudDocument
        <3>1. hudStep' = "writing" /\ UNCHANGED <<hudJobs, hudAnswer>>
            BY <1>5, <2>2 DEF CommitHudBegins
        <3> QED BY <1>1, <1>2, <2>1, <3>1
                DEF HudIInv, StoreTypes, EditorTypes, OneMutation, FileIsAhead
    <2>3. CASE HudJob.expected # hudDocument
        <3>1. HudAnswers("conflict", hudDocument) /\ HudJobIsDone
            BY <1>5, <2>3 DEF CommitHudBegins
        <3> QED BY <1>1, <1>4, <2>1, <3>1
    <2> QED BY <2>2, <2>3
<1>6. CASE HudFileIsReplaced
    <2>1. /\ hudFile' = Candidate(HudJob) /\ hudStep' = "written"
          /\ UNCHANGED <<hudDocument, hudJobs, hudAnswer>>
        BY <1>6 DEF HudFileIsReplaced
    <2>2. Candidate(HudJob)' = Candidate(HudJob)
        BY <2>1 DEF Candidate, HudJob
    <2>3. FileIsAhead'
        BY <2>1, <2>2 DEF FileIsAhead
    <2>4. StoreTypes' /\ EditorTypes' /\ OneMutation'
        BY <1>1, <1>2, <1>3, <2>1 DEF StoreTypes, EditorTypes, OneMutation
    <2> QED BY <2>3, <2>4 DEF HudIInv
<1>7. CASE CommitHudEnds
    <2>1. /\ hudDocument' = Candidate(HudJob) /\ hudFile' = hudFile
          /\ HudAnswers("ok", Candidate(HudJob)) /\ HudJobIsDone /\ hudStep = "written"
        BY <1>7 DEF CommitHudEnds
    <2>2. hudFile = Candidate(HudJob)
        BY <1>1, <2>1 DEF FileIsAhead
    <2> QED BY <1>1, <1>3, <1>4, <2>1, <2>2
<1>8. CASE HudWriteFails
    <2>1. /\ UNCHANGED <<hudDocument, hudFile>> /\ hudStep = "writing"
          /\ HudAnswers("failed", hudDocument) /\ HudJobIsDone
        BY <1>8 DEF HudWriteFails
    <2>2. hudFile = hudDocument
        BY <1>1, <2>1 DEF FileIsAhead
    <2> QED BY <1>1, <1>4, <2>1, <2>2
<1> QED BY <1>5, <1>6, <1>7, <1>8

LEMMA RestartInv == ASSUME HudIInv, HudCompanionRestarts PROVE HudIInv'
<1>1. /\ StoreTypes /\ EditorTypes /\ OneMutation
      /\ hudDocument' = hudFile /\ hudFile' = hudFile /\ hudJobs' = <<>> /\ hudStep' = "ready"
      /\ hudPoll' = NoPoll /\ UNCHANGED <<hudPage, editedFrom>>
    BY DEF HudIInv, HudCompanionRestarts
<1> DEFINE reply == [result |-> "failed", kind |-> Nothing, document |-> hudDocument]
<1>2. hudAnswer' = IF OwnIn(hudJobs) THEN reply ELSE hudAnswer
    BY DEF HudCompanionRestarts, OwnIn
<1>3. reply \in HudReplies /\ reply # NoAnswer
    <2>1. reply \in HudReplies
        BY <1>1 DEF HudReplies, StoreTypes
    <2>2. reply.result = "failed" /\ NoAnswer.result = "none"
        BY DEF NoAnswer
    <2> QED BY <2>1, <2>2
<1> HIDE DEF reply
<1>4. <<>> \in Seq(HudMutations) /\ ~OwnIn(<<>>) /\ OneOwnIn(<<>>)
    BY DEF OwnIn, OneOwnIn
<1>5. StoreTypes' /\ EditorTypes' /\ FileIsAhead'
    BY <1>1, <1>2, <1>3, <1>4 DEF StoreTypes, EditorTypes, FileIsAhead
<1>6. OneMutation'
    BY <1>1, <1>2, <1>3, <1>4 DEF OneMutation
<1> QED BY <1>5, <1>6 DEF HudIInv

\* A mutation enters the queue; it is the page's when the page begins to wait for it.
LEMMA SubmitInv ==
    ASSUME HudIInv, NEW job \in HudMutations, Submit(job), UNCHANGED <<hudPoll, editedFrom>>,
           IF job.page THEN ~hudPage.busy /\ hudPage' = [hudPage EXCEPT !.busy = TRUE]
           ELSE hudPage' = hudPage
    PROVE  HudIInv'
<1>1. /\ StoreTypes /\ EditorTypes /\ OneMutation /\ FileIsAhead
      /\ hudJobs \in Seq(HudMutations) /\ hudPage \in HudPages
      /\ hudJobs' = Append(hudJobs, job)
      /\ UNCHANGED <<hudDocument, hudFile, hudStep, hudAnswer, hudPoll, editedFrom>>
    BY DEF HudIInv, StoreTypes, EditorTypes, Submit
<1> DEFINE p == hudJobs'
<1>2. p = Append(hudJobs, job)
    BY <1>1
<1> HIDE DEF p
<1>3. /\ p \in Seq(HudMutations) /\ p # <<>>
      /\ OwnIn(p) <=> OwnIn(hudJobs) \/ job.page
      /\ OneOwnIn(hudJobs) /\ ~(OwnIn(hudJobs) /\ job.page) => OneOwnIn(p)
      /\ hudJobs # <<>> => Head(p) = Head(hudJobs)
    BY <1>1, <1>2, AppendOwn
<1>4. hudPage' \in HudPages /\ (hudPage'.busy <=> hudPage.busy \/ job.page)
    BY <1>1 DEF HudPages
<1>5. StoreTypes' /\ EditorTypes'
    BY <1>1, <1>3, <1>4 DEF StoreTypes, EditorTypes, p
<1>6. OneMutation'
    <2>1. job.page => ~hudPage.busy
        OBVIOUS
    <2>2. OneOwnIn(p) /\ (OwnIn(p) => hudAnswer = NoAnswer)
        BY <1>1, <1>3, <2>1 DEF OneMutation
    <2>3. hudPage'.busy <=> OwnIn(p) \/ hudAnswer # NoAnswer
        BY <1>1, <1>3, <1>4 DEF OneMutation
    <2> QED BY <1>1, <2>2, <2>3 DEF OneMutation, p
<1>7. FileIsAhead'
    <2>1. hudStep = "written" => Candidate(HudJob)' = Candidate(HudJob)
        BY <1>1, <1>3 DEF Candidate, HudJob, StoreTypes, p
    <2> QED BY <1>1, <2>1 DEF FileIsAhead
<1> QED BY <1>5, <1>6, <1>7 DEF HudIInv

\* The page or the poll changes, and nothing that is waited for.
LEMMA PageInv ==
    ASSUME HudIInv, UNCHANGED hudStore,
           hudPage' \in HudPages, hudPoll' \in HudDocuments \cup {NoPoll},
           editedFrom' \in HudResources,
           \/ hudAnswer' = hudAnswer /\ hudPage'.busy = hudPage.busy
           \/ hudAnswer # NoAnswer /\ hudAnswer' = NoAnswer /\ ~hudPage'.busy
    PROVE  HudIInv'
<1>1. StoreTypes /\ EditorTypes /\ OneMutation /\ FileIsAhead
    BY DEF HudIInv
<1>2. UNCHANGED <<hudDocument, hudFile, hudJobs, hudStep>>
    BY DEF hudStore
<1>3. StoreTypes' /\ FileIsAhead'
    BY <1>1, <1>2 DEF StoreTypes, FileIsAhead, Candidate, HudJob
<1>4. EditorTypes'
    BY <1>1 DEF EditorTypes
<1>5. OneMutation'
    <2>1. OwnIn(hudJobs') = OwnIn(hudJobs) /\ OneOwnIn(hudJobs') = OneOwnIn(hudJobs)
        BY <1>2
    <2> QED BY <1>1, <2>1 DEF OneMutation
<1> QED BY <1>3, <1>4, <1>5 DEF HudIInv

LEMMA MergedIsPage ==
    ASSUME NEW page \in HudPages, NEW next \in HudDocuments
    PROVE  Merged(page, next) \in HudPages /\ Merged(page, next).busy = page.busy
<1> DEFINE changed(k) == page.seen.saved[k] # next.saved[k]
           follows(k) == Follows(page, next, k)
           drafts == [k \in HudKinds |-> IF follows(k) THEN next.saved[k] ELSE page.drafts[k]]
           conflicts == [k \in HudKinds |-> IF follows(k) THEN FALSE
                                            ELSE page.conflicts[k] \/ changed(k)]
           bases == [k \in HudKinds |-> IF follows(k) \/ ~changed(k) THEN next
                                        ELSE page.bases[k]]
<1>1. Merged(page, next) = [page EXCEPT !.seen = next, !.committed = Nothing, !.drafts = drafts,
                                        !.conflicts = conflicts, !.bases = bases]
    BY DEF Merged, HudPages
<1>2. /\ page.drafts \in HudResources /\ page.bases \in [HudKinds -> HudDocuments]
      /\ page.conflicts \in [HudKinds -> BOOLEAN] /\ next.saved \in HudResources
    BY DEF HudPages, HudDocuments
<1>3. drafts \in HudResources
    BY <1>2 DEF HudResources
<1>4. bases \in [HudKinds -> HudDocuments]
    BY <1>2
<1>5. conflicts \in [HudKinds -> BOOLEAN]
    BY <1>2
<1> HIDE DEF drafts, conflicts, bases
<1> QED BY <1>1, <1>3, <1>4, <1>5 DEF HudPages

LEMMA TakesDocumentTypes ==
    ASSUME NEW page \in HudPages, NEW next \in HudDocuments, editedFrom \in HudResources,
           TakesDocument(page, next)
    PROVE  /\ hudPage' \in HudPages /\ hudPage'.busy = page.busy
           /\ editedFrom' \in HudResources
<1>1. CASE next = page.seen
    BY <1>1 DEF TakesDocument
<1>2. CASE next # page.seen
    <2>1. /\ hudPage' = Merged(page, next)
          /\ editedFrom' = [k \in HudKinds |-> IF Follows(page, next, k) THEN next.saved[k]
                                                ELSE editedFrom[k]]
        BY <1>2 DEF TakesDocument
    <2>2. next.saved \in HudResources
        BY DEF HudDocuments
    <2>3. editedFrom' \in HudResources
        BY <2>1, <2>2 DEF HudResources
    <2> QED BY <2>1, <2>3, MergedIsPage
<1> QED BY <1>1, <1>2

LEMMA AnsweredInv == ASSUME HudIInv, MutationIsAnswered PROVE HudIInv'
<1>1. /\ hudPage \in HudPages /\ editedFrom \in HudResources
      /\ hudPoll' = hudPoll /\ hudPoll \in HudDocuments \cup {NoPoll} /\ UNCHANGED hudStore
      /\ hudAnswer # NoAnswer /\ hudAnswer' = NoAnswer /\ hudAnswer \in HudReplies
    BY DEF HudIInv, EditorTypes, MutationIsAnswered
<1> DEFINE page == [hudPage EXCEPT !.busy = FALSE]
           kind == hudAnswer.kind
           document == hudAnswer.document
<1>2. page \in HudPages /\ ~page.busy /\ page.drafts \in HudResources
      /\ page.conflicts \in [HudKinds -> BOOLEAN]
    BY <1>1 DEF HudPages
<1>3. document \in HudDocuments /\ document.saved \in HudResources
    BY <1>1 DEF HudReplies, HudDocuments
<1>4. /\ hudAnswer.result \in {"ok", "conflict", "failed"}
      /\ hudAnswer.result # "failed" => kind \in HudKinds \cup {Activation}
    BY <1>1 DEF HudReplies
<1> HIDE DEF page
<1>5. SUFFICES hudPage' \in HudPages /\ ~hudPage'.busy /\ editedFrom' \in HudResources
    BY <1>1, PageInv
<1>6. CASE hudAnswer.result = "ok" /\ kind = Activation
    <2> DEFINE clean == [page EXCEPT !.committed = Nothing]
    <2>1. TakesDocument(clean, document)
        BY <1>6 DEF MutationIsAnswered, page
    <2>2. clean \in HudPages /\ clean.busy = page.busy
        BY <1>2 DEF HudPages
    <2> HIDE DEF clean
    <2> QED BY <1>1, <1>2, <1>3, <2>1, <2>2, TakesDocumentTypes
<1>7. CASE hudAnswer.result = "ok" /\ kind # Activation
    <2> DEFINE content == document.saved[kind]
               drafts == [page.drafts EXCEPT ![kind] = content]
               committed == [page EXCEPT !.drafts = drafts, !.committed = kind]
    <2>1. IF document = page.seen
          THEN /\ hudPage' = committed
               /\ editedFrom' = [editedFrom EXCEPT ![kind] = content]
          ELSE TakesDocument(committed, document)
        BY <1>7 DEF MutationIsAnswered, page
    <2>2. kind \in HudKinds /\ content \in HudContents
        BY <1>3, <1>4, <1>7 DEF HudResources
    <2>3. /\ drafts \in HudResources
          /\ [editedFrom EXCEPT ![kind] = content] \in HudResources
        BY <1>1, <1>2, <2>2 DEF HudResources
    <2> HIDE DEF drafts, content
    <2>4. committed \in HudPages /\ committed.busy = page.busy
        BY <1>2, <2>2, <2>3 DEF HudPages
    <2> HIDE DEF committed
    <2> QED BY <1>1, <1>2, <1>3, <2>1, <2>3, <2>4, TakesDocumentTypes
<1>8. CASE hudAnswer.result = "conflict"
    <2>1. /\ hudPage' = IF kind = Activation THEN page ELSE [page EXCEPT !.conflicts[kind] = TRUE]
          /\ editedFrom' = editedFrom
        BY <1>8 DEF MutationIsAnswered, page
    <2> DEFINE conflicts == [page.conflicts EXCEPT ![kind] = TRUE]
    <2>2. kind # Activation =>
             /\ conflicts \in [HudKinds -> BOOLEAN]
             /\ hudPage' = [page EXCEPT !.conflicts = conflicts]
        BY <1>2, <1>4, <1>8, <2>1
    <2> HIDE DEF conflicts
    <2> QED BY <1>1, <1>2, <2>1, <2>2 DEF HudPages
<1>9. CASE hudAnswer.result = "failed"
    <2>1. hudPage' = page /\ editedFrom' = editedFrom
        BY <1>9 DEF MutationIsAnswered, page
    <2> QED BY <1>1, <1>2, <2>1
<1> QED BY <1>4, <1>6, <1>7, <1>8, <1>9

LEMMA SavesInv ==
    ASSUME HudIInv, NEW k \in HudKinds,
           SavesDraft(k) \/ \E c \in HudContents : OtherPageSaves(k, c)
    PROVE  HudIInv'
<1>1. /\ hudPage \in HudPages /\ hudPage.seen \in HudDocuments /\ hudPage.drafts[k] \in HudContents
      /\ hudPage.bases[k] \in HudDocuments /\ editedFrom[k] \in HudContents
      /\ hudDocument \in HudDocuments /\ hudDocument.saved[k] \in HudContents
    BY DEF HudIInv, StoreTypes, EditorTypes, HudPages, HudDocuments, HudResources
<1>2. CASE SavesDraft(k)
    <2> DEFINE job == [page |-> TRUE, kind |-> k, value |-> hudPage.drafts[k],
                       expected |-> hudPage.bases[k], from |-> editedFrom[k]]
    <2>1. /\ Submit(job) /\ UNCHANGED <<hudPoll, editedFrom>>
          /\ ~hudPage.busy /\ hudPage' = [hudPage EXCEPT !.busy = TRUE]
        BY <1>2 DEF SavesDraft
    <2>2. job \in HudMutations /\ job.page
        BY <1>1 DEF HudMutations
    <2> HIDE DEF job
    <2> QED BY <2>1, <2>2, SubmitInv
<1>3. ASSUME NEW c \in HudContents, OtherPageSaves(k, c) PROVE HudIInv'
    <2> DEFINE job == [page |-> FALSE, kind |-> k, value |-> c,
                       expected |-> hudDocument, from |-> hudDocument.saved[k]]
    <2>1. Submit(job) /\ UNCHANGED <<hudPoll, editedFrom, hudPage>>
        BY <1>3 DEF OtherPageSaves, hudEditor
    <2>2. job \in HudMutations /\ ~job.page
        BY <1>1 DEF HudMutations
    <2> HIDE DEF job
    <2> QED BY <2>1, <2>2, SubmitInv
<1> QED BY <1>2, <1>3

LEMMA ActivatesInv == ASSUME HudIInv, ActivatesPreset PROVE HudIInv'
<1> DEFINE job == [page |-> TRUE, kind |-> Activation, value |-> FirstContent,
                   expected |-> hudPage.seen, from |-> FirstContent]
<1>1. /\ Submit(job) /\ UNCHANGED <<hudPoll, editedFrom>>
      /\ ~hudPage.busy /\ hudPage' = [hudPage EXCEPT !.busy = TRUE]
    BY DEF ActivatesPreset
<1>2. job \in HudMutations /\ job.page
    BY HudAssumption DEF HudMutations, HudIInv, EditorTypes, HudPages
<1> HIDE DEF job
<1> QED BY <1>1, <1>2, SubmitInv

LEMMA EditorInv ==
    ASSUME HudIInv,
           \/ PollIsServed \/ PollArrives \/ PollIsLost
           \/ \E k \in HudKinds : \/ DiscardsDraft(k)
                                  \/ \E c \in HudContents : EditsDraft(k, c)
    PROVE  HudIInv'
<1>1. /\ hudPage \in HudPages /\ editedFrom \in HudResources
      /\ hudPoll \in HudDocuments \cup {NoPoll} /\ hudDocument \in HudDocuments
      /\ hudPage.seen \in HudDocuments /\ hudPage.drafts \in HudResources
      /\ hudPage.bases \in [HudKinds -> HudDocuments]
      /\ hudPage.conflicts \in [HudKinds -> BOOLEAN]
    BY DEF HudIInv, StoreTypes, EditorTypes, HudPages
<1>2. hudPage.seen.saved \in HudResources
    BY <1>1 DEF HudDocuments
<1>3. CASE PollIsServed
    BY <1>1, <1>3, PageInv DEF PollIsServed
<1>4. CASE PollArrives
    <2>1. /\ hudPoll \in HudDocuments /\ TakesDocument(hudPage, hudPoll) /\ hudPoll' = NoPoll
          /\ UNCHANGED <<hudStore, hudAnswer>>
        BY <1>1, <1>4 DEF PollArrives
    <2>2. /\ hudPage' \in HudPages /\ hudPage'.busy = hudPage.busy /\ editedFrom' \in HudResources
        BY <1>1, <2>1, TakesDocumentTypes
    <2> QED BY <2>1, <2>2, PageInv
<1>5. CASE PollIsLost
    BY <1>1, <1>5, PageInv DEF PollIsLost
<1>6. ASSUME NEW k \in HudKinds, DiscardsDraft(k) PROVE HudIInv'
    <2> DEFINE saved == hudPage.seen.saved[k]
               drafts == [hudPage.drafts EXCEPT ![k] = saved]
               conflicts == [hudPage.conflicts EXCEPT ![k] = FALSE]
               bases == [hudPage.bases EXCEPT ![k] = hudPage.seen]
    <2>1. /\ hudPage' = [hudPage EXCEPT !.drafts = drafts, !.conflicts = conflicts,
                                        !.bases = bases]
          /\ editedFrom' = [editedFrom EXCEPT ![k] = saved]
          /\ UNCHANGED <<hudStore, hudAnswer, hudPoll>>
        BY <1>1, <1>6 DEF DiscardsDraft, HudPages
    <2>2. /\ drafts \in HudResources /\ [editedFrom EXCEPT ![k] = saved] \in HudResources
        BY <1>1, <1>2 DEF HudResources
    <2>3. conflicts \in [HudKinds -> BOOLEAN] /\ bases \in [HudKinds -> HudDocuments]
        BY <1>1
    <2> HIDE DEF saved, drafts, conflicts, bases
    <2>4. hudPage' \in HudPages /\ hudPage'.busy = hudPage.busy
        BY <1>1, <2>1, <2>2, <2>3 DEF HudPages
    <2> QED BY <1>1, <2>1, <2>2, <2>4, PageInv
<1>7. ASSUME NEW k \in HudKinds, NEW c \in HudContents, EditsDraft(k, c) PROVE HudIInv'
    <2> DEFINE drafts == [hudPage.drafts EXCEPT ![k] = c]
    <2>1. /\ hudPage' = [hudPage EXCEPT !.drafts = drafts]
          /\ UNCHANGED <<hudStore, hudAnswer, hudPoll, editedFrom>>
        BY <1>7 DEF EditsDraft
    <2>2. drafts \in HudResources
        BY <1>1 DEF HudResources
    <2> HIDE DEF drafts
    <2>3. hudPage' \in HudPages /\ hudPage'.busy = hudPage.busy
        BY <1>1, <2>1, <2>2 DEF HudPages
    <2> QED BY <1>1, <2>1, <2>3, PageInv
<1> QED BY <1>3, <1>4, <1>5, <1>6, <1>7

LEMMA HudIInvInductive == HudIInv /\ [HudNext]_hudVars => HudIInv'
<1> SUFFICES ASSUME HudIInv, [HudNext]_hudVars PROVE HudIInv'
    OBVIOUS
<1>1. CASE UNCHANGED hudVars
    <2>1. UNCHANGED <<hudStore, hudPage, hudPoll, hudAnswer, editedFrom>>
        BY <1>1 DEF hudVars, hudEditor
    <2>2. EditorTypes
        BY DEF HudIInv
    <2> QED BY <2>1, <2>2, PageInv DEF EditorTypes
<1> QED BY <1>1, CommitInv, RestartInv, AnsweredInv, SavesInv, ActivatesInv, EditorInv DEF HudNext

\* The document is what a restart would bring back, except while a mutation is being taken, and
\* the page waits exactly while its one mutation is queued or its answer under way.
THEOREM DocumentIsKept == HudSpec => []HudInv
<1>1. HudIInv => HudInv
    <2> SUFFICES ASSUME HudIInv PROVE HudInv
        OBVIOUS
    <2>1. FileIsDocument
        BY DEF HudIInv, FileIsAhead, FileIsDocument
    <2>2. hudPage \in HudPages /\ StoreTypes /\ OneMutation
        BY DEF HudIInv, EditorTypes
    <2> DEFINE own == {i \in DOMAIN hudJobs : hudJobs[i].page}
    <2>3. \A i, j \in own : i = j
        BY <2>2 DEF OneMutation, OneOwnIn
    <2>4. own # {} <=> OwnIn(hudJobs)
        BY DEF OwnIn
    <2>5. hudPage.busy <=> own # {} \/ hudAnswer # NoAnswer
        BY <2>2, <2>4 DEF OneMutation
    <2> HIDE DEF own
    <2>6. /\ hudPage.seen \in HudDocuments /\ hudPage.drafts \in HudResources
          /\ \A k \in HudKinds : hudPage.bases[k] \in HudDocuments
          /\ hudPage.conflicts \in [HudKinds -> BOOLEAN]
          /\ hudPage.committed \in HudKinds \cup {Nothing}
        BY <2>2 DEF HudPages
    <2>7. HudTypeOK
        BY <2>2, <2>3, <2>5, <2>6 DEF HudTypeOK, StoreTypes, own
    <2> QED BY <2>1, <2>7 DEF HudInv
<1> QED BY <1>1, InitHudInv, HudIInvInductive, PTL DEF HudSpec

\* A poll leaves a draft the operator has changed as it is.
THEOREM DraftsSurvivePolls == HudSpec => DirtyDraftsSurvivePolls
<1>1. ASSUME HudIInv, PollArrives, hudPage.committed = Nothing, NEW k \in HudKinds, Dirty(k)
      PROVE  hudPage'.drafts[k] = hudPage.drafts[k]
    <2>1. TakesDocument(hudPage, hudPoll)
        BY <1>1 DEF PollArrives
    <2>2. hudPage \in HudPages
        BY <1>1 DEF HudIInv, EditorTypes
    <2>3. ~Follows(hudPage, hudPoll, k)
        BY <1>1, HudKindsAssumption DEF Follows, Dirty
    <2>4. CASE hudPoll = hudPage.seen
        BY <2>1, <2>4 DEF TakesDocument
    <2>5. CASE hudPoll # hudPage.seen
        <3>1. hudPage' = Merged(hudPage, hudPoll)
            BY <2>1, <2>5 DEF TakesDocument
        <3> DEFINE drafts == [j \in HudKinds |-> IF Follows(hudPage, hudPoll, j)
                                                THEN hudPoll.saved[j] ELSE hudPage.drafts[j]]
        <3>2. hudPage'.drafts = drafts
            BY <2>2, <3>1 DEF Merged, HudPages
        <3> QED BY <2>3, <3>2
    <2> QED BY <2>4, <2>5
<1>2. HudIInv /\ [HudNext]_hudVars =>
        [PollArrives /\ hudPage.committed = Nothing =>
            \A k \in HudKinds : Dirty(k) => hudPage'.drafts[k] = hudPage.drafts[k]]_hudVars
    BY <1>1
<1> QED BY <1>2, InitHudInv, HudIInvInductive, PTL DEF HudSpec, DirtyDraftsSurvivePolls

-----------------------------------------------------------------------------
(* The match context: the inductive invariant *)

SelectionKinds == {"select", "overlay", "confirm", "fallback"}
RefreshKinds == {"stage", "restage"}
LibraryKinds == {"create", "import", "pick", "save", "event"}
SaveSteps == {"writing", "written", "failed"}

Manifests == ManifestsOf(Matches)
Bindings == BindingsOf(Matches)
Libraries == LibrariesOf(Matches)
SaveJobs == [kind : Saves, gen : Nat, cand : Nat, rev : Nat, candidate : Nat,
             of : Manifests, seen : Bindings, by : Nat]
RefreshJobs == [kind : RefreshKinds, gen : Nat, match : Matches, of : Manifests, by : Nat]
FallbackJobs == [kind : {"fallback"}, gen : Nat, match : Matches, by : Nat]
StaleJobs == [kind : {"stale"}, gen : Nat, match : Matches]
ContextJobs == SaveJobs \cup RefreshJobs \cup FallbackJobs \cup StaleJobs
ContextLoads == [kind : {"select", "stage", "restage"}, match : Matches, from : Origins,
                 gen : Nat, by : Nat]
LibraryTasks == [kind : LibraryKinds, match : Matches \cup {NoBinding}, event : Nat, by : Nat]
Candidates == [of : Manifests, by : Nat]
Envelopes == [of : Manifests, at : Nat]

JobsOf(queue) == {queue[i] : i \in DOMAIN queue}

MemoryTypes ==
    /\ activeBinding \in Bindings
    /\ bindingRev \in Nat /\ selection \in Nat
    /\ acquisition \in Nat \X Nat /\ acquisition[2] \in {0, acquisition[1]}
    /\ staged # NoBinding => staged \in Candidates /\ staged.of.from = "online"

\* What a save or a candidate may be about.
Sourced(job) ==
    /\ job.kind = "select" => job.of.from # "local"
    /\ job.kind \in {"stage", "restage", "confirm"} => job.of.from = "online"

ControllerTypes ==
    /\ loads \subseteq ContextLoads /\ \A load \in loads : load.from # "local"
    /\ commits \in Seq(ContextJobs) /\ \A job \in JobsOf(commits) : Sourced(job)
    /\ commitStep \in {"down", "ready", "reading"} \cup SaveSteps
    /\ lkg # NoBinding => lkg \in Envelopes

LibraryTypes ==
    /\ library \in Libraries /\ libraryFile \in Libraries
    /\ libraryJobs \in Seq(LibraryTasks) /\ libraryStep \in {"ready", "writing", "written"}
    /\ \A job \in JobsOf(libraryJobs) : job.kind # "event" => job.match \in Matches

TallyTypes ==
    /\ clock \in Nat /\ stamp \in [lkg : Nat, library : Nat] /\ requests \in Nat
    /\ shown \in [by : Nat, at : Nat]

ContextTypes == MemoryTypes /\ ControllerTypes /\ LibraryTypes /\ TallyTypes

\* The head of a queue is what its step says, and a companion that is down does nothing.
HeadInv ==
    /\ commitStep = "down" => /\ commits = <<>> /\ loads = {} /\ activeBinding = NoBinding
                              /\ libraryJobs = <<>> /\ libraryStep = "ready"
    /\ commitStep \in SaveSteps => commits # <<>> /\ Head(commits).kind \in Saves
    /\ commitStep = "reading" => commits # <<>> /\ Head(commits).kind = "fallback"
    /\ libraryStep # "ready" => libraryJobs # <<>> /\ LibraryAccepts(Head(libraryJobs))
    /\ libraryStep = "written" \/ commitStep = "down" \/ library = libraryFile

-----------------------------------------------------------------------------
(* The match context: queues and records *)

LEMMA QueueFacts ==
    ASSUME NEW S, NEW queue \in Seq(S)
    PROVE  /\ \A job \in JobsOf(queue) : job \in S
           /\ \A e : /\ JobsOf(Append(queue, e)) = JobsOf(queue) \cup {e}
                     /\ Append(queue, e) # <<>>
                     /\ queue # <<>> => Head(Append(queue, e)) = Head(queue)
           /\ \A e \in S : Append(queue, e) \in Seq(S)
           /\ queue # <<>> =>
                 /\ Head(queue) \in S /\ Tail(queue) \in Seq(S) /\ Tail(queue) # queue
                 /\ JobsOf(queue) = {Head(queue)} \cup JobsOf(Tail(queue))
<1>1. \A e : /\ JobsOf(Append(queue, e)) = JobsOf(queue) \cup {e}
             /\ Append(queue, e) # <<>>
             /\ queue # <<>> => Head(Append(queue, e)) = Head(queue)
  <2> SUFFICES ASSUME NEW e
               PROVE  /\ JobsOf(Append(queue, e)) = JobsOf(queue) \cup {e}
                      /\ Append(queue, e) # <<>>
                      /\ queue # <<>> => Head(Append(queue, e)) = Head(queue)
      OBVIOUS
  <2> DEFINE longer == Append(queue, e)
  <2>1. /\ DOMAIN longer = 1..(Len(queue) + 1) /\ DOMAIN queue = 1..Len(queue) /\ Len(queue) \in Nat
        /\ \A i \in 1..Len(queue) : longer[i] = queue[i]
        /\ longer[Len(queue) + 1] = e /\ Len(longer) = Len(queue) + 1
      OBVIOUS
  <2>2. \A x : x \in JobsOf(longer) <=> x \in JobsOf(queue) \cup {e}
      BY <2>1 DEF JobsOf
  <2>3. queue # <<>> => 1 \in 1..Len(queue) /\ Head(queue) = queue[1] /\ Head(longer) = longer[1]
      BY <2>1
  <2> QED BY <2>1, <2>2, <2>3
<1>2. ASSUME queue # <<>>
      PROVE  /\ Head(queue) \in S /\ Tail(queue) \in Seq(S) /\ Tail(queue) # queue
             /\ JobsOf(queue) = {Head(queue)} \cup JobsOf(Tail(queue))
  <2> DEFINE rest == Tail(queue)
  <2>1. /\ rest \in Seq(S) /\ Len(rest) = Len(queue) - 1 /\ Head(queue) = queue[1]
        /\ DOMAIN queue = 1..Len(queue) /\ DOMAIN rest = 1..(Len(queue) - 1)
        /\ Len(queue) \in Nat /\ Len(queue) > 0 /\ Head(queue) \in S
        /\ \A i \in 1..(Len(queue) - 1) : rest[i] = queue[i + 1]
      BY <1>2
  <2> HIDE DEF rest
  <2>2. \A x : x \in JobsOf(queue) => x \in {Head(queue)} \cup JobsOf(rest)
    <3>1. \A i \in 1..Len(queue) :
             i = 1 \/ (i - 1 \in 1..(Len(queue) - 1) /\ rest[i - 1] = queue[i])
        BY <2>1
    <3>2. \A i \in 1..Len(queue) : i = 1 \/ \E k \in 1..(Len(queue) - 1) : rest[k] = queue[i]
        BY <3>1
    <3>3. /\ \A x : x \in JobsOf(queue) <=> \E i \in 1..Len(queue) : queue[i] = x
          /\ \A x : x \in JobsOf(rest) <=> \E k \in 1..(Len(queue) - 1) : rest[k] = x
        BY <2>1 DEF JobsOf
    <3>4. queue[1] = Head(queue)
        BY <2>1
    <3> QED BY <3>2, <3>3, <3>4
  <2>3. \A x : x \in {Head(queue)} \cup JobsOf(rest) => x \in JobsOf(queue)
    <3>1. \A i \in 1..(Len(queue) - 1) : i + 1 \in 1..Len(queue) /\ rest[i] = queue[i + 1]
        BY <2>1
    <3> QED BY <2>1, <3>1 DEF JobsOf
  <2>4. rest # queue
      BY <2>1
  <2>5. JobsOf(queue) = {Head(queue)} \cup JobsOf(rest)
      BY <2>2, <2>3
  <2> QED BY <2>1, <2>4, <2>5 DEF rest
<1>3. \A i \in DOMAIN queue : queue[i] \in S
    OBVIOUS
<1>4. \A job \in JobsOf(queue) : job \in S
    BY <1>3 DEF JobsOf
<1>5. \A e \in S : Append(queue, e) \in Seq(S)
    OBVIOUS
<1> QED BY <1>1, <1>2, <1>4, <1>5

LEMMA JobShapes ==
    ASSUME NEW job \in ContextJobs
    PROVE  /\ job.gen \in Nat
           /\ job.kind \in Saves => job \in SaveJobs
           /\ job.kind \in RefreshKinds => job \in RefreshJobs
           /\ job.kind = "fallback" => job \in FallbackJobs
           /\ job.kind = "stale" => job \in StaleJobs
           /\ job.kind \in Saves \cup RefreshKinds \cup {"fallback", "stale"}
BY DEF ContextJobs, SaveJobs, RefreshJobs, FallbackJobs, StaleJobs, Saves, RefreshKinds

LEMMA CommittedJob ==
    ASSUME ContextTypes, commits # <<>>
    PROVE  /\ Head(commits) \in ContextJobs /\ Head(commits) \in JobsOf(commits)
           /\ Sourced(Head(commits)) /\ Head(commits).gen \in Nat
           /\ Tail(commits) \in Seq(ContextJobs) /\ JobsOf(Tail(commits)) \subseteq JobsOf(commits)
           /\ JobsOf(commits) = {Head(commits)} \cup JobsOf(Tail(commits))
<1>1. commits \in Seq(ContextJobs)
    BY DEF ContextTypes, ControllerTypes
<1>2. /\ Head(commits) \in ContextJobs /\ Tail(commits) \in Seq(ContextJobs)
      /\ JobsOf(commits) = {Head(commits)} \cup JobsOf(Tail(commits))
    BY <1>1, QueueFacts
<1> QED BY <1>2, JobShapes DEF ContextTypes, ControllerTypes

LEMMA LibraryTask ==
    ASSUME ContextTypes, libraryJobs # <<>>
    PROVE  /\ Head(libraryJobs) \in LibraryTasks /\ Head(libraryJobs) \in JobsOf(libraryJobs)
           /\ Head(libraryJobs).kind # "event" => Head(libraryJobs).match \in Matches
           /\ Tail(libraryJobs) \in Seq(LibraryTasks) /\ Tail(libraryJobs) # libraryJobs
           /\ JobsOf(libraryJobs) = {Head(libraryJobs)} \cup JobsOf(Tail(libraryJobs))
<1>1. libraryJobs \in Seq(LibraryTasks)
    BY DEF ContextTypes, LibraryTypes
<1>2. /\ Head(libraryJobs) \in LibraryTasks /\ Tail(libraryJobs) \in Seq(LibraryTasks)
      /\ JobsOf(libraryJobs) = {Head(libraryJobs)} \cup JobsOf(Tail(libraryJobs))
      /\ Tail(libraryJobs) # libraryJobs
    BY <1>1, QueueFacts
<1> QED BY <1>2 DEF ContextTypes, LibraryTypes
-----------------------------------------------------------------------------
(* The match context: types *)

LEMMA BindingTypes ==
    /\ \A of \in Manifests, cached, fresh \in BOOLEAN : Binding(of, cached, fresh) \in Bindings
    /\ \A binding \in Bindings : binding # NoBinding =>
          /\ binding.of \in Manifests /\ [binding EXCEPT !.fresh = FALSE] \in Bindings
          /\ [binding EXCEPT !.fresh = TRUE] \in Bindings
    /\ NoBinding \in Bindings
BY DEF Bindings, BindingsOf, Binding, Manifests

LEMMA ManifestTypes ==
    ASSUME NEW m \in Matches, NEW from \in Origins, NEW mode \in Modes, NEW content \in Nat
    PROVE  /\ ManifestOf(m, from, mode, content) \in Manifests
           /\ ManifestOf(m, from, mode, content).from = from
           /\ ManifestOf(m, from, mode, content).mode = mode
           /\ ManifestOf(m, from, mode, content).match = m
           /\ ManifestOf(m, from, mode, content).content = content
BY DEF ManifestOf, Manifests, ManifestsOf

LEMMA LibraryAfterType ==
    ASSUME NEW job \in LibraryTasks, NEW at \in Nat, library \in Libraries,
           job.kind # "event" => job.match \in Matches
    PROVE  LibraryAfter(job, at) \in Libraries
<1>1. /\ job.kind \in LibraryKinds /\ job.by \in Nat
      /\ library \in [docs : [Matches -> Nat], selected : Matches \cup {NoBinding}, at : Nat,
                      event : Nat]
    BY DEF LibraryTasks, Libraries, LibrariesOf
<1>2. \A m \in Matches : [library.docs EXCEPT ![m] = job.by] \in [Matches -> Nat]
    BY <1>1
<1> QED BY <1>1, <1>2 DEF LibraryAfter, Libraries, LibrariesOf, LibraryKinds

LEMMA SetActiveTypes ==
    ASSUME MemoryTypes, NEW binding \in Bindings, SetActive(binding), selection' \in Nat
    PROVE  MemoryTypes'
BY DEF MemoryTypes, SetActive, Candidates

LEMMA CommitsGrow ==
    ASSUME ControllerTypes, NEW job \in ContextJobs, Sourced(job), commits' = Append(commits, job)
    PROVE  /\ commits' \in Seq(ContextJobs) /\ \A j \in JobsOf(commits') : Sourced(j)
<1>1. commits \in Seq(ContextJobs) /\ \A j \in JobsOf(commits) : Sourced(j)
    BY DEF ControllerTypes
<1>2. JobsOf(Append(commits, job)) = JobsOf(commits) \cup {job} /\ Append(commits, job) \in Seq(ContextJobs)
    BY <1>1, QueueFacts
<1> QED BY <1>1, <1>2

LEMMA ContextTypesInit == ContextInit => ContextTypes
<1> SUFFICES ASSUME ContextInit PROVE ContextTypes
    OBVIOUS
<1>1. EmptyLibrary \in Libraries
    BY DEF EmptyLibrary, Libraries, LibrariesOf
<1>2. /\ <<>> \in Seq(ContextJobs) /\ JobsOf(<<>>) = {} /\ <<>> \in Seq(LibraryTasks)
    BY DEF JobsOf
<1>3. lkg # NoBinding => lkg \in Envelopes
    BY ContextAssumption DEF ContextInit, Envelopes, Manifests, ManifestsOf, ManifestOf, Origins,
       Modes
<1> QED BY <1>1, <1>2, <1>3, BindingTypes DEF ContextInit, ContextTypes, MemoryTypes,
   ControllerTypes, LibraryTypes, TallyTypes

LEMMA RequestTypes == ASSUME ContextTypes, Request PROVE ContextTypes'
<1> USE DEF ContextTypes
<1>1. requests \in Nat /\ requests + 1 \in Nat /\ selection + 1 \in Nat
    BY DEF TallyTypes, MemoryTypes
<1>2. ASSUME NEW m \in Matches, StageOnlineMatch(m) \/ SelectOverLocal(m) PROVE ContextTypes'
  <2>1. MemoryTypes'
      BY <1>2 DEF StageOnlineMatch, SelectOverLocal, MemoryTypes
  <2>2. acquisition[1] + 1 \in Nat
      BY DEF MemoryTypes
  <2>3. loads' \subseteq ContextLoads /\ \A load \in loads' : load.from # "local"
      BY <1>1, <1>2, <2>2 DEF StageOnlineMatch, SelectOverLocal, ControllerTypes, ContextLoads,
         Origins
  <2>4. ControllerTypes' /\ LibraryTypes' /\ TallyTypes'
      BY <1>1, <1>2, <2>3 DEF StageOnlineMatch, SelectOverLocal, ControllerTypes, LibraryTypes,
         store, TallyTypes, Asked
  <2> QED BY <2>1, <2>4
<1>3. ASSUME NEW m \in Matches, SelectMatch(m) PROVE ContextTypes'
  <2>1. MemoryTypes'
      BY <1>1, <1>3, SetActiveTypes, BindingTypes DEF SelectMatch, MemoryTypes
  <2>2. loads' \subseteq ContextLoads /\ \A load \in loads' : load.from # "local"
      BY <1>1, <1>3 DEF SelectMatch, ControllerTypes, ContextLoads, Origins
  <2>3. ControllerTypes' /\ LibraryTypes' /\ TallyTypes'
      BY <1>1, <1>3, <2>2 DEF SelectMatch, ControllerTypes, LibraryTypes, store, TallyTypes, Asked,
         Shows
  <2> QED BY <2>1, <2>3
<1>4. ASSUME ActivatePending PROVE ContextTypes'
  <2> DEFINE job == [kind |-> "confirm", gen |-> selection + 1, cand |-> acquisition[1],
               rev |-> bindingRev, candidate |-> staged.by, of |-> staged.of,
               seen |-> activeBinding, by |-> requests + 1]
  <2>1. staged \in Candidates /\ staged.of.from = "online"
      BY <1>4 DEF ActivatePending, MemoryTypes
  <2>2. job \in ContextJobs /\ Sourced(job)
      BY <1>1, <2>1 DEF MemoryTypes, Candidates, ContextJobs, SaveJobs, Saves, Sourced
  <2>3. commits' = Append(commits, job)
      BY <1>4 DEF ActivatePending, Commit
  <2> HIDE DEF job
  <2>4. commits' \in Seq(ContextJobs) /\ \A j \in JobsOf(commits') : Sourced(j)
      BY <2>2, <2>3, CommitsGrow
  <2>5. MemoryTypes'
      BY <1>1, <1>4 DEF ActivatePending, MemoryTypes
  <2>6. ControllerTypes' /\ LibraryTypes' /\ TallyTypes'
      BY <1>1, <1>4, <2>4 DEF ActivatePending, ControllerTypes, LibraryTypes, store, TallyTypes,
         Asked
  <2> QED BY <2>5, <2>6
<1>5. ASSUME SaveBpOverlay PROVE ContextTypes'
  <2> DEFINE mode == IF IsStandalone(activeBinding) THEN "standalone" ELSE "bound-overlay"
             of == ManifestOf(MatchOf(activeBinding), "local", mode, requests + 1)
             job == [kind |-> "overlay", gen |-> selection + 1, cand |-> 0, rev |-> bindingRev,
                     candidate |-> 0, of |-> of, seen |-> activeBinding, by |-> requests + 1]
  <2>1. MatchOf(activeBinding) \in Matches
      BY <1>5, BindingTypes DEF SaveBpOverlay, MemoryTypes, MatchOf, Manifests, ManifestsOf
  <2>2. of \in Manifests
      BY <1>1, <2>1, ManifestTypes DEF Origins, Modes
  <2>3. commits' = Append(commits, job)
      BY <1>5 DEF SaveBpOverlay, Commit
  <2> HIDE DEF of
  <2>4. job \in ContextJobs /\ Sourced(job)
      BY <1>1, <2>2 DEF MemoryTypes, ContextJobs, SaveJobs, Saves, Sourced
  <2> HIDE DEF job
  <2>5. commits' \in Seq(ContextJobs) /\ \A j \in JobsOf(commits') : Sourced(j)
      BY <2>3, <2>4, CommitsGrow
  <2>6. MemoryTypes'
      BY <1>1, <1>5 DEF SaveBpOverlay, MemoryTypes
  <2>7. ControllerTypes' /\ LibraryTypes' /\ TallyTypes'
      BY <1>1, <1>5, <2>5 DEF SaveBpOverlay, ControllerTypes, LibraryTypes, store, TallyTypes, Asked
  <2> QED BY <2>6, <2>7
<1>6. ASSUME NEW kind, kind \in LibraryKinds, NEW m \in Matches \cup {NoBinding}, LibraryJob(kind, m),
             kind # "event" => m \in Matches
      PROVE  ContextTypes'
  <2> DEFINE job == [kind |-> kind, match |-> m, event |-> library.event, by |-> requests + 1]
  <2>1. library.event \in Nat
      BY DEF LibraryTypes, Libraries, LibrariesOf
  <2>2. job \in LibraryTasks /\ (job.kind # "event" => job.match \in Matches)
      BY <1>1, <1>6, <2>1 DEF LibraryTasks
  <2>3. libraryJobs' = Append(libraryJobs, job) /\ libraryJobs \in Seq(LibraryTasks)
      BY <1>6 DEF LibraryJob, LibraryTypes
  <2> HIDE DEF job
  <2>4. /\ libraryJobs' \in Seq(LibraryTasks)
        /\ JobsOf(libraryJobs') = JobsOf(libraryJobs) \cup {job}
      BY <2>2, <2>3, QueueFacts
  <2>5. LibraryTypes'
      BY <1>6, <2>2, <2>4 DEF LibraryJob, LibraryTypes
  <2>6. MemoryTypes' /\ ControllerTypes' /\ TallyTypes'
      BY <1>1, <1>6 DEF LibraryJob, memory, controller, MemoryTypes, ControllerTypes, TallyTypes,
         Asked
  <2> QED BY <2>5, <2>6
<1>7. ASSUME NEW m \in Matches, CreateLocalMatch(m) \/ SelectLocalMatch(m) \/ SaveFirstBp(m)
      PROVE  ContextTypes'
    BY <1>6, <1>7 DEF CreateLocalMatch, SelectLocalMatch, SaveFirstBp, LibraryKinds
<1>8. ASSUME SaveLocalMatch PROVE ContextTypes'
  <2>1. activeBinding # NoBinding
      BY <1>8 DEF SaveLocalMatch, IsLibraryMatch, IsStandalone, IsLocalBinding
  <2>2. MatchOf(activeBinding) \in Matches
      BY <2>1, BindingTypes DEF MemoryTypes, MatchOf, Manifests, ManifestsOf
  <2> QED BY <1>6, <1>8, <2>2 DEF SaveLocalMatch, LibraryKinds
<1>9. ASSUME SaveEvent PROVE ContextTypes'
    BY <1>6, <1>9 DEF SaveEvent, LibraryKinds
<1>10. ASSUME NEW m \in Matches, ActivateFixture(m) PROVE ContextTypes'
  <2>1. Binding(ManifestOf(m, "fixture", "bound-overlay", requests + 1), FALSE, TRUE) \in Bindings
      BY <1>1, ManifestTypes, BindingTypes DEF Origins, Modes
  <2>2. MemoryTypes'
      BY <1>1, <1>10, <2>1, SetActiveTypes DEF ActivateFixture
  <2> QED BY <1>1, <1>10, <2>2 DEF ActivateFixture, controller, store, ControllerTypes,
     LibraryTypes, TallyTypes, Asked, Shows
<1>11. ASSUME ClearActive PROVE ContextTypes'
  <2>1. MemoryTypes'
      BY <1>1, <1>11, BindingTypes DEF ClearActive, MemoryTypes
  <2> QED BY <1>1, <1>11, <2>1 DEF ClearActive, controller, store, ControllerTypes, LibraryTypes,
     TallyTypes, Asked, Shows
<1> QED BY <1>2, <1>3, <1>4, <1>5, <1>7, <1>8, <1>9, <1>10, <1>11 DEF Request

LEMMA LoadShape ==
    ASSUME ContextTypes, NEW load \in loads
    PROVE  /\ load.kind \in {"select", "stage", "restage"} /\ load.match \in Matches
           /\ load.from \in Origins /\ load.from # "local"
           /\ load.gen \in Nat /\ load.by \in Nat
BY DEF ContextTypes, ControllerTypes, ContextLoads

LEMMA AnswerTypes == ASSUME ContextTypes, Answer PROVE ContextTypes'
<1>1. PICK load \in loads : \/ \E r \in ManifestRevisions : LoadAnswers(load, r)
                            \/ LoadFails(load)
                            \/ ConversionFails(load)
    BY DEF Answer
<1>2. /\ load.kind \in {"select", "stage", "restage"} /\ load.match \in Matches
      /\ load.from \in Origins /\ load.from # "local" /\ load.gen \in Nat /\ load.by \in Nat
    BY LoadShape
<1>3. ASSUME /\ loads' = loads \ {load} /\ UNCHANGED <<activeBinding, bindingRev, selection, staged>>
             /\ acquisition' = acquisition \/ AcquisitionEnds(load.gen)
             /\ UNCHANGED <<commitStep, lkg, store, clock, stamp, tallies, shown, faults>>,
             commits' = commits \/ \E job \in ContextJobs : Sourced(job) /\ Commit(job)
      PROVE  ContextTypes'
  <2>1. commits' \in Seq(ContextJobs) /\ \A j \in JobsOf(commits') : Sourced(j)
      BY <1>3, CommitsGrow DEF ContextTypes, ControllerTypes, Commit
  <2>2. MemoryTypes'
      BY <1>3 DEF ContextTypes, MemoryTypes, AcquisitionEnds
  <2>3. ControllerTypes' /\ LibraryTypes' /\ TallyTypes'
      BY <1>3, <2>1 DEF ContextTypes, ControllerTypes, LibraryTypes, TallyTypes, store, tallies
  <2> QED BY <2>2, <2>3 DEF ContextTypes
<1>4. ASSUME StagingFails(load)
      PROVE  /\ acquisition' = acquisition \/ AcquisitionEnds(load.gen)
             /\ commits' = commits \/ \E job \in ContextJobs : Sourced(job) /\ Commit(job)
  <2> DEFINE job == [kind |-> "stale", gen |-> load.gen, match |-> load.match]
  <2>1. job \in ContextJobs /\ Sourced(job)
      BY <1>2 DEF ContextJobs, StaleJobs, Sourced
  <2>2. \/ Commit(job) /\ acquisition' = acquisition
        \/ commits' = commits /\ AcquisitionEnds(load.gen)
      BY <1>4 DEF StagingFails
  <2> QED BY <2>1, <2>2
<1>5. ASSUME NEW r \in ManifestRevisions, LoadAnswers(load, r) PROVE ContextTypes'
  <2>1. r \in Nat
      BY DEF ManifestRevisions
  <2>2. CASE load.kind = "select"
    <3> DEFINE of == ManifestOf(load.match, load.from, "bound-overlay", r)
               job == [kind |-> "select", gen |-> load.gen, cand |-> 0, rev |-> 0, candidate |-> 0,
                       of |-> of, seen |-> NoBinding, by |-> load.by]
    <3>1. of \in Manifests /\ of.from # "local"
        BY <1>2, <2>1, ManifestTypes DEF Modes
    <3>2. Commit(job) /\ acquisition' = acquisition
        BY <1>5, <2>2 DEF LoadAnswers
    <3> HIDE DEF of
    <3>3. job \in ContextJobs /\ Sourced(job)
        BY <1>2, <3>1, BindingTypes DEF ContextJobs, SaveJobs, Saves, Sourced
    <3> HIDE DEF job
    <3> QED BY <1>3, <1>5, <3>2, <3>3 DEF LoadAnswers
  <2>3. CASE load.kind # "select" /\ NewestRefresh(load.gen)
    <3> DEFINE of == ManifestOf(load.match, "online", "bound-overlay", r)
               job == [kind |-> load.kind, gen |-> load.gen, match |-> load.match, of |-> of,
                       by |-> load.by]
    <3>1. of \in Manifests /\ of.from = "online"
        BY <1>2, <2>1, ManifestTypes DEF Modes, Origins
    <3>2. Commit(job) /\ acquisition' = acquisition
        BY <1>5, <2>3 DEF LoadAnswers
    <3> HIDE DEF of
    <3>3. job \in ContextJobs /\ Sourced(job)
        BY <1>2, <2>3, <3>1 DEF ContextJobs, RefreshJobs, RefreshKinds, Sourced
    <3> HIDE DEF job
    <3> QED BY <1>3, <1>5, <3>2, <3>3 DEF LoadAnswers
  <2>4. CASE load.kind # "select" /\ ~NewestRefresh(load.gen)
    <3>1. StagingFails(load)
        BY <1>5, <2>4 DEF LoadAnswers
    <3> QED BY <1>3, <1>4, <1>5, <3>1 DEF LoadAnswers
  <2> QED BY <2>2, <2>3, <2>4
<1>6. ASSUME LoadFails(load) PROVE ContextTypes'
  <2> DEFINE job == [kind |-> "fallback", gen |-> load.gen, match |-> load.match, by |-> load.by]
  <2>1. job \in ContextJobs /\ Sourced(job)
      BY <1>2 DEF ContextJobs, FallbackJobs, Sourced
  <2>2. (Commit(job) /\ acquisition' = acquisition) \/ StagingFails(load)
      BY <1>6 DEF LoadFails
  <2> HIDE DEF job
  <2> QED BY <1>3, <1>4, <1>6, <2>1, <2>2 DEF LoadFails
<1>7. ASSUME ConversionFails(load) PROVE ContextTypes'
    BY <1>3, <1>7 DEF ConversionFails, memory
<1> QED BY <1>1, <1>5, <1>6, <1>7

LEMMA CommitTypes == ASSUME ContextTypes, HeadInv, CommitRuns PROVE ContextTypes'
<1> USE DEF ContextTypes
<1> DEFINE job == Head(commits)
<1>1. commits # <<>>
    BY DEF CommitRuns, BeginSave, ReplaceLkg, LkgWriteFails, FinishSave, FallBackToMemory,
       FallBackToFile, StageCandidate, MarkStale, Runs, HeadInv, SaveSteps
<1>2. /\ job \in ContextJobs /\ Sourced(job) /\ job.gen \in Nat
      /\ Tail(commits) \in Seq(ContextJobs) /\ \A j \in JobsOf(Tail(commits)) : Sourced(j)
      /\ commits \in Seq(ContextJobs) /\ \A j \in JobsOf(commits) : Sourced(j)
    BY <1>1, CommittedJob DEF ControllerTypes
<1>3. /\ job.kind \in Saves => job.of \in Manifests /\ job.by \in Nat
      /\ job.kind \in RefreshKinds => job.of \in Manifests /\ job.by \in Nat /\ job.match \in Matches
      /\ job.kind = "fallback" => job.by \in Nat /\ job.match \in Matches
    BY <1>2, JobShapes DEF SaveJobs, RefreshJobs, FallbackJobs
<1>4. lkg # NoBinding => lkg.of \in Manifests /\ lkg.at \in Nat
    BY DEF ControllerTypes, Envelopes
<1> HIDE DEF job
<1>5. ASSUME BeginSave \/ ReplaceLkg \/ LkgWriteFails PROVE ContextTypes'
  <2>1. lkg' # NoBinding => lkg' \in Envelopes
    <3>1. ReplaceLkg => job.kind \in Saves
        BY DEF ReplaceLkg, Runs, job
    <3>2. lkg' = lkg \/ (lkg' = [of |-> job.of, at |-> stamp.lkg] /\ job.kind \in Saves)
        BY <1>5, <3>1 DEF BeginSave, ReplaceLkg, LkgWriteFails, job
    <3>3. stamp.lkg \in Nat
        BY DEF TallyTypes
    <3> QED BY <1>3, <3>2, <3>3 DEF ControllerTypes, Envelopes
  <2>2. commits' \in {commits, Tail(commits)} /\ loads' = loads /\ commitStep' \in {"ready"} \cup SaveSteps
      BY <1>5 DEF BeginSave, ReplaceLkg, LkgWriteFails, Done, SaveSteps
  <2>3. ControllerTypes'
      BY <1>2, <2>1, <2>2 DEF ControllerTypes, SaveSteps
  <2>4. clock' \in Nat /\ stamp' \in [lkg : Nat, library : Nat]
      BY <1>5 DEF BeginSave, ReplaceLkg, LkgWriteFails, TallyTypes
  <2>5. MemoryTypes' /\ LibraryTypes' /\ TallyTypes'
      BY <1>5, <2>4 DEF BeginSave, ReplaceLkg, LkgWriteFails, MemoryTypes, LibraryTypes, TallyTypes,
         memory, store, tallies
  <2> QED BY <2>3, <2>5
<1>6. ASSUME commits' = Tail(commits), commitStep' = "ready", UNCHANGED <<loads, lkg>>
      PROVE  ControllerTypes'
    BY <1>2, <1>6 DEF ControllerTypes
<1>7. ASSUME FinishSave PROVE ContextTypes'
  <2>1. job.kind \in Saves
      BY <1>7 DEF FinishSave, HeadInv, SaveSteps, job
  <2>2. Binding(job.of, FALSE, TRUE) \in Bindings
      BY <1>3, <2>1, BindingTypes
  <2>3. /\ activeBinding' \in {activeBinding, Binding(job.of, FALSE, TRUE)}
        /\ bindingRev' \in {bindingRev, bindingRev + 1} /\ selection' = selection
        /\ acquisition' = acquisition \/ acquisition' = <<acquisition[1] + 1, 0>>
        /\ staged' \in {staged, NoBinding}
        /\ shown' = shown \/ shown' = [by |-> job.by, at |-> IF commitStep = "written" THEN stamp.lkg ELSE 0]
      BY <1>7 DEF FinishSave, Shows, job
  <2>4. MemoryTypes'
    <3>1. acquisition' \in Nat \X Nat /\ acquisition'[2] \in {0, acquisition'[1]}
        BY <2>3 DEF MemoryTypes
    <3>2. bindingRev' \in Nat /\ selection' \in Nat
        BY <2>3 DEF MemoryTypes
    <3>4. activeBinding \in Bindings
        BY DEF MemoryTypes
    <3>5. activeBinding' \in Bindings
        BY <2>2, <2>3, <3>4, Zenon
    <3>3. staged' # NoBinding => staged' \in Candidates /\ staged'.of.from = "online"
        BY <2>3 DEF MemoryTypes
    <3> QED BY <3>1, <3>2, <3>3, <3>5 DEF MemoryTypes
  <2>5. shown' \in [by : Nat, at : Nat]
      BY <1>3, <2>1, <2>3 DEF TallyTypes
  <2>6. ControllerTypes'
      BY <1>6, <1>7 DEF FinishSave, Done
  <2> QED BY <1>7, <2>4, <2>5, <2>6 DEF FinishSave, LibraryTypes, TallyTypes, store, tallies
<1>8. ASSUME FallBackToMemory PROVE ContextTypes'
  <2>1. job.kind = "fallback" /\ job.match \in Matches
      BY <1>3, <1>8 DEF FallBackToMemory, Runs, job
  <2>2. MemoryTypes'
    <3>1. \/ UNCHANGED memory
          \/ /\ MatchOf(activeBinding) = job.match /\ UNCHANGED selection
             /\ SetActive([activeBinding EXCEPT !.fresh = FALSE])
        BY <1>8 DEF FallBackToMemory, job
    <3>2. MatchOf(activeBinding) = job.match => activeBinding # NoBinding
        BY <2>1, ContextAssumption DEF MatchOf
    <3>3. activeBinding # NoBinding => [activeBinding EXCEPT !.fresh = FALSE] \in Bindings
        BY BindingTypes DEF MemoryTypes
    <3>4. CASE UNCHANGED memory
        BY <3>4 DEF memory, MemoryTypes
    <3>5. CASE SetActive([activeBinding EXCEPT !.fresh = FALSE]) /\ UNCHANGED selection
               /\ activeBinding # NoBinding
      <4>1. selection' \in Nat
          BY <3>5 DEF MemoryTypes
      <4> QED BY <3>3, <3>5, <4>1, SetActiveTypes
    <3> QED BY <3>1, <3>2, <3>4, <3>5
  <2>3. ControllerTypes'
    <3>1. CASE commits' = Tail(commits) /\ commitStep' = "ready"
        BY <1>6, <1>8, <3>1 DEF FallBackToMemory
    <3>2. CASE commits' = commits /\ commitStep' = "reading"
        BY <1>8, <3>2 DEF FallBackToMemory, ControllerTypes
    <3> QED BY <1>8, <3>1, <3>2 DEF FallBackToMemory, Done
  <2> QED BY <1>8, <2>2, <2>3 DEF FallBackToMemory, LibraryTypes, TallyTypes, store, tallies
<1>9. ASSUME FallBackToFile PROVE ContextTypes'
  <2>1. job.kind = "fallback" /\ job.match \in Matches /\ job.by \in Nat
      BY <1>3, <1>9 DEF FallBackToFile, Runs, job
  <2>2. \/ UNCHANGED <<memory, shown>>
        \/ /\ lkg # NoBinding /\ SetActive(Binding(lkg.of, TRUE, FALSE))
           /\ Shows(job.by, lkg.at) /\ UNCHANGED selection
      BY <1>9 DEF FallBackToFile, job
  <2>3. MemoryTypes' /\ shown' \in [by : Nat, at : Nat]
    <3>1. CASE UNCHANGED <<memory, shown>>
        BY <3>1 DEF memory, MemoryTypes, TallyTypes
    <3>2. CASE lkg # NoBinding /\ SetActive(Binding(lkg.of, TRUE, FALSE))
               /\ Shows(job.by, lkg.at) /\ UNCHANGED selection
      <4>1. Binding(lkg.of, TRUE, FALSE) \in Bindings /\ selection' \in Nat
          BY <1>4, <3>2, BindingTypes DEF MemoryTypes
      <4>2. MemoryTypes'
          BY <3>2, <4>1, SetActiveTypes
      <4> QED BY <1>4, <2>1, <3>2, <4>2 DEF Shows
    <3> QED BY <2>2, <3>1, <3>2
  <2>4. ControllerTypes'
      BY <1>6, <1>9 DEF FallBackToFile, Done
  <2> QED BY <1>9, <2>3, <2>4 DEF FallBackToFile, LibraryTypes, TallyTypes, store, tallies
<1>10. ASSUME StageCandidate PROVE ContextTypes'
  <2>1. job.kind \in RefreshKinds
      BY <1>10 DEF StageCandidate, Runs, RefreshKinds, job
  <2>2. job.of \in Manifests /\ job.by \in Nat /\ job.match \in Matches /\ job.of.from = "online"
      BY <1>2, <1>3, <2>1 DEF RefreshKinds, Sourced
  <2>3. /\ \/ UNCHANGED <<activeBinding, bindingRev>>
           \/ /\ activeBinding # NoBinding /\ activeBinding' = [activeBinding EXCEPT !.fresh = TRUE]
              /\ bindingRev' = bindingRev + 1
        /\ staged' = staged \/ staged' = [of |-> job.of, by |-> job.by]
        /\ \/ /\ acquisition' = acquisition
              /\ commits' = Append(Tail(commits), [kind |-> "stale", gen |-> job.gen, match |-> job.match])
           \/ commits' = Tail(commits) /\ AcquisitionEnds(job.gen)
      BY <1>10 DEF StageCandidate, IsOnline, job
  <2>4. activeBinding' \in Bindings /\ bindingRev' \in Nat
    <3>1. /\ activeBinding # NoBinding => [activeBinding EXCEPT !.fresh = TRUE] \in Bindings
          /\ activeBinding \in Bindings
        BY BindingTypes DEF MemoryTypes
    <3>2. activeBinding' \in Bindings
        BY <2>3, <3>1, Zenon
    <3>3. bindingRev' \in Nat
        BY <2>3 DEF MemoryTypes
    <3> QED BY <3>2, <3>3
  <2>5. MemoryTypes'
      BY <1>10, <2>2, <2>3, <2>4 DEF StageCandidate, MemoryTypes, AcquisitionEnds, Candidates
  <2>6. commits' \in Seq(ContextJobs) /\ \A j \in JobsOf(commits') : Sourced(j)
    <3> DEFINE stale == [kind |-> "stale", gen |-> job.gen, match |-> job.match]
    <3>1. stale \in ContextJobs /\ Sourced(stale)
        BY <1>2, <2>2 DEF ContextJobs, StaleJobs, Sourced
    <3> HIDE DEF stale
    <3>2. /\ Append(Tail(commits), stale) \in Seq(ContextJobs)
          /\ JobsOf(Append(Tail(commits), stale)) = JobsOf(Tail(commits)) \cup {stale}
        BY <1>2, <3>1, QueueFacts
    <3>3. commits' \in {Tail(commits), Append(Tail(commits), stale)}
        BY <2>3 DEF stale
    <3> QED BY <1>2, <3>1, <3>2, <3>3
  <2>7. ControllerTypes'
      BY <1>10, <2>6 DEF StageCandidate, ControllerTypes
  <2> QED BY <1>10, <2>5, <2>7 DEF StageCandidate, LibraryTypes, TallyTypes, store, tallies
<1>11. ASSUME MarkStale PROVE ContextTypes'
  <2>1. \/ UNCHANGED <<activeBinding, bindingRev>>
        \/ /\ activeBinding # NoBinding /\ activeBinding' = [activeBinding EXCEPT !.fresh = FALSE]
           /\ bindingRev' = bindingRev + 1
      BY <1>11 DEF MarkStale, IsOnline
  <2>2. activeBinding' \in Bindings /\ bindingRev' \in Nat
    <3>1. /\ activeBinding # NoBinding => [activeBinding EXCEPT !.fresh = FALSE] \in Bindings
          /\ activeBinding \in Bindings
        BY BindingTypes DEF MemoryTypes
    <3>2. activeBinding' \in Bindings
        BY <2>1, <3>1, Zenon
    <3>3. bindingRev' \in Nat
        BY <2>1 DEF MemoryTypes
    <3> QED BY <3>2, <3>3
  <2>3. MemoryTypes'
      BY <1>11, <2>2 DEF MarkStale, MemoryTypes, AcquisitionEnds
  <2>4. ControllerTypes'
      BY <1>6, <1>11 DEF MarkStale, Done
  <2> QED BY <1>11, <2>3, <2>4 DEF MarkStale, LibraryTypes, TallyTypes, store, tallies
<1> QED BY <1>5, <1>7, <1>8, <1>9, <1>10, <1>11 DEF CommitRuns

LEMMA ActivateLocalTypes ==
    ASSUME ContextTypes, NEW m \in Matches, NEW content \in Nat, NEW by \in Nat, NEW at \in Nat,
           ActivateLocal(m, content, by, at)
    PROVE  MemoryTypes' /\ shown' \in [by : Nat, at : Nat]
<1>1. Binding(ManifestOf(m, "local", "standalone", content), FALSE, TRUE) \in Bindings
    BY ManifestTypes, BindingTypes DEF Origins, Modes
<1>2. selection' \in Nat
    BY DEF ActivateLocal, ContextTypes, MemoryTypes
<1>3. SetActive(Binding(ManifestOf(m, "local", "standalone", content), FALSE, TRUE))
    BY DEF ActivateLocal
<1>4. MemoryTypes'
    BY <1>1, <1>2, <1>3, SetActiveTypes DEF ContextTypes
<1> QED BY <1>4 DEF ActivateLocal, Shows

LEMMA LibraryRunTypes == ASSUME ContextTypes, HeadInv, LibraryRuns PROVE ContextTypes'
<1> USE DEF ContextTypes
<1> DEFINE job == Head(libraryJobs)
<1>1. libraryJobs # <<>>
    BY DEF LibraryRuns, BeginLibraryJob, ReplaceLibrary, LibraryWriteFails, FinishLibraryJob,
       HeadInv
<1>2. /\ job \in LibraryTasks /\ (job.kind # "event" => job.match \in Matches)
      /\ libraryJobs \in Seq(LibraryTasks) /\ Tail(libraryJobs) \in Seq(LibraryTasks)
      /\ JobsOf(Tail(libraryJobs)) \subseteq JobsOf(libraryJobs)
    BY <1>1, LibraryTask DEF LibraryTypes
<1>3. job.by \in Nat
    BY <1>2 DEF LibraryTasks
<1> HIDE DEF job
<1>4. ASSUME BeginLibraryJob \/ LibraryWriteFails PROVE ContextTypes'
  <2>1. /\ libraryJobs' \in {libraryJobs, Tail(libraryJobs)} /\ UNCHANGED <<library, libraryFile>>
        /\ libraryStep' \in {"ready", "writing", "written"}
      BY <1>4 DEF BeginLibraryJob, LibraryWriteFails, LibraryTypes
  <2>2. LibraryTypes'
      BY <1>2, <2>1 DEF LibraryTypes
  <2>3. clock' \in Nat /\ stamp' \in [lkg : Nat, library : Nat]
      BY <1>4 DEF BeginLibraryJob, LibraryWriteFails, TallyTypes
  <2> QED BY <1>4, <2>2, <2>3 DEF BeginLibraryJob, LibraryWriteFails, MemoryTypes, ControllerTypes,
     TallyTypes, memory, controller, tallies
<1>5. ASSUME ReplaceLibrary PROVE ContextTypes'
  <2>1. libraryFile' \in Libraries
    <3>1. stamp.library \in Nat
        BY DEF TallyTypes
    <3>2. LibraryAfter(job, stamp.library) \in Libraries
        BY <1>2, <3>1, LibraryAfterType DEF LibraryTypes
    <3> QED BY <1>5, <3>2 DEF ReplaceLibrary, job
  <2> QED BY <1>5, <2>1 DEF ReplaceLibrary, MemoryTypes, ControllerTypes, LibraryTypes, TallyTypes,
     memory, controller, tallies
<1>6. ASSUME FinishLibraryJob PROVE ContextTypes'
  <2> DEFINE m == IF job.kind = "event" THEN libraryFile.selected ELSE job.match
  <2>1. \/ UNCHANGED <<memory, shown>>
        \/ /\ job.kind = "event" => m # NoBinding
           /\ ActivateLocal(m, libraryFile.docs[m], job.by, SelectedAt(libraryFile, m))
      BY <1>6 DEF FinishLibraryJob, job
  <2>2. MemoryTypes' /\ shown' \in [by : Nat, at : Nat]
    <3>1. CASE UNCHANGED <<memory, shown>>
        BY <3>1 DEF memory, MemoryTypes, TallyTypes
    <3>2. CASE /\ job.kind = "event" => m # NoBinding
               /\ ActivateLocal(m, libraryFile.docs[m], job.by, SelectedAt(libraryFile, m))
      <4>1. m \in Matches
          BY <1>2, <3>2 DEF LibraryTypes, Libraries, LibrariesOf
      <4> HIDE DEF m
      <4>2. libraryFile.docs[m] \in Nat /\ SelectedAt(libraryFile, m) \in Nat
          BY <4>1 DEF LibraryTypes, Libraries, LibrariesOf, SelectedAt
      <4> QED BY <1>3, <3>2, <4>1, <4>2, ActivateLocalTypes
    <3> QED BY <2>1, <3>1, <3>2
  <2>3. LibraryTypes'
      BY <1>2, <1>6 DEF FinishLibraryJob, LibraryTypes
  <2> QED BY <1>6, <2>2, <2>3 DEF FinishLibraryJob, ControllerTypes, TallyTypes, controller, tallies
<1> QED BY <1>4, <1>5, <1>6 DEF LibraryRuns

LEMMA EmptyQueues ==
    /\ <<>> \in Seq(ContextJobs) /\ <<>> \in Seq(LibraryTasks) /\ JobsOf(<<>>) = {}
    /\ EmptyLibrary \in Libraries
<1>1. EmptyLibrary \in Libraries
    BY DEF EmptyLibrary, Libraries, LibrariesOf
<1> QED BY <1>1 DEF JobsOf

LEMMA LifeTypes == ASSUME ContextTypes, HeadInv, CompanionDies \/ CompanionStarts PROVE ContextTypes'
<1> USE DEF ContextTypes
<1>1. CASE CompanionDies
  <2>1. MemoryTypes' /\ ControllerTypes'
      BY <1>1, EmptyQueues, BindingTypes DEF CompanionDies, MemoryTypes, ControllerTypes
  <2>2. LibraryTypes' /\ TallyTypes'
      BY <1>1, EmptyQueues DEF CompanionDies, LibraryTypes, TallyTypes, Shows, tallies
  <2> QED BY <2>1, <2>2
<1>2. CASE CompanionStarts
  <2>1. /\ libraryFile \in [docs : [Matches -> Nat], selected : Matches \cup {NoBinding}, at : Nat,
                            event : Nat]
        /\ clock + 1 \in Nat /\ (lkg # NoBinding => lkg.of \in Manifests /\ lkg.at \in Nat)
    <3>1. libraryFile \in Libraries /\ clock \in Nat
        BY DEF LibraryTypes, TallyTypes
    <3>2. lkg # NoBinding => lkg.of \in Manifests /\ lkg.at \in Nat
        BY DEF ControllerTypes, Envelopes
    <3> QED BY <3>1, <3>2 DEF Libraries, LibrariesOf
  <2>2. CASE ~LibraryGoesFirst /\ IsStandalone(Restored)
    <3> DEFINE m == lkg.of.match
    <3>1. lkg # NoBinding
        BY <2>2 DEF Restored, IsStandalone, IsLocalBinding
    <3>2. m \in Matches
        BY <2>1, <3>1 DEF Manifests, ManifestsOf
    <3>3. /\ libraryFile' \in {libraryFile, [libraryFile EXCEPT !.docs[m] = clock + 1, !.selected = m,
                                                               !.at = clock + 1]}
          /\ activeBinding' = Binding(ManifestOf(m, "local", "standalone", libraryFile'.docs[m]), FALSE, TRUE)
          /\ shown' = [by |-> 0, at |-> clock + 1] /\ clock' = clock + 1
        BY <1>2, <2>2 DEF CompanionStarts, Shows
    <3> HIDE DEF m
    <3>4. [libraryFile.docs EXCEPT ![m] = clock + 1] \in [Matches -> Nat]
        BY <2>1, <3>2
    <3>5. libraryFile' \in Libraries
        BY <2>1, <3>2, <3>3, <3>4 DEF Libraries, LibrariesOf
    <3>6. libraryFile'.docs[m] \in Nat
        BY <3>2, <3>5 DEF Libraries, LibrariesOf
    <3>7. activeBinding' \in Bindings
      <4> DEFINE of == ManifestOf(m, "local", "standalone", libraryFile'.docs[m])
      <4>1. of \in Manifests
          BY <3>2, <3>6, ManifestTypes DEF Origins, Modes
      <4> HIDE DEF of
      <4>2. Binding(of, FALSE, TRUE) \in Bindings
          BY <4>1, BindingTypes
      <4> QED BY <3>3, <4>2 DEF of
    <3>8. shown' \in [by : Nat, at : Nat] /\ clock' \in Nat
        BY <2>1, <3>3
    <3>9. MemoryTypes' /\ ControllerTypes'
        BY <1>2, <3>7 DEF CompanionStarts, MemoryTypes, ControllerTypes
    <3> QED BY <1>2, <3>5, <3>8, <3>9 DEF CompanionStarts, LibraryTypes, TallyTypes, tallies
  <2>3. CASE LibraryGoesFirst \/ ~IsStandalone(Restored)
    <3>1. Restored \in Bindings
      <4>1. CASE LibraryGoesFirst
        <5>1. libraryFile.selected \in Matches /\ libraryFile.docs[libraryFile.selected] \in Nat
            BY <2>1, <4>1 DEF LibraryGoesFirst
        <5> DEFINE of == ManifestOf(libraryFile.selected, "local", "standalone",
                                    libraryFile.docs[libraryFile.selected])
        <5>2. of \in Manifests
            BY <5>1, ManifestTypes DEF Origins, Modes
        <5>3. Restored = Binding(of, FALSE, TRUE)
            BY <4>1 DEF Restored
        <5> HIDE DEF of
        <5> QED BY <5>2, <5>3, BindingTypes
      <4>2. CASE ~LibraryGoesFirst
          BY <2>1, <4>2, BindingTypes DEF Restored
      <4> QED BY <4>1, <4>2
    <3>2. /\ activeBinding' = Restored /\ clock' = clock /\ libraryFile' = libraryFile
          /\ shown' = [by |-> 0, at |-> IF LibraryGoesFirst THEN libraryFile.at
                                        ELSE IF lkg = NoBinding THEN 0 ELSE lkg.at]
        BY <1>2, <2>3 DEF CompanionStarts, Shows
    <3>3. shown' \in [by : Nat, at : Nat]
        BY <2>1, <3>2
    <3>4. MemoryTypes'
        BY <1>2, <3>1, <3>2 DEF CompanionStarts, MemoryTypes
    <3>5. ControllerTypes' /\ LibraryTypes'
        BY <1>2, <3>2 DEF CompanionStarts, ControllerTypes, LibraryTypes
    <3>6. TallyTypes'
        BY <1>2, <3>2, <3>3 DEF CompanionStarts, TallyTypes, tallies
    <3> QED BY <3>4, <3>5, <3>6
  <2> QED BY <2>2, <2>3
<1> QED BY <1>1, <1>2

LEMMA ContextTypesKept == ASSUME ContextTypes, HeadInv, [ContextNext]_contextVars PROVE ContextTypes'
<1>1. CASE UNCHANGED contextVars
    BY <1>1 DEF contextVars, memory, controller, store, tallies, ContextTypes, MemoryTypes,
       ControllerTypes, LibraryTypes, TallyTypes
<1> QED BY <1>1, RequestTypes, AnswerTypes, CommitTypes, LibraryRunTypes, LifeTypes DEF ContextNext

-----------------------------------------------------------------------------
(* The match context: the heads of the queues *)

LEMMA LibraryHeadStays ==
    ASSUME ContextTypes, HeadInv, commitStep # "down", commitStep' # "down",
           UNCHANGED <<library, libraryFile, libraryStep>>,
           \/ libraryJobs' = libraryJobs
           \/ \E job : libraryJobs' = Append(libraryJobs, job)
    PROVE  /\ libraryStep' # "ready" => libraryJobs' # <<>> /\ LibraryAccepts(Head(libraryJobs))'
           /\ libraryStep' = "written" \/ commitStep' = "down" \/ library' = libraryFile'
<1>1. libraryJobs # <<>> => libraryJobs' # <<>> /\ Head(libraryJobs') = Head(libraryJobs)
    BY QueueFacts DEF ContextTypes, LibraryTypes
<1>2. ASSUME libraryStep' # "ready" PROVE libraryJobs' # <<>> /\ LibraryAccepts(Head(libraryJobs))'
  <2>1. libraryJobs # <<>> /\ LibraryAccepts(Head(libraryJobs))
      BY <1>2 DEF HeadInv
  <2>2. Head(libraryJobs') = Head(libraryJobs) /\ library' = library
      BY <1>1, <2>1
  <2>3. LibraryAccepts(Head(libraryJobs))' <=> LibraryAccepts(Head(libraryJobs))
      BY <2>2 DEF LibraryAccepts
  <2> QED BY <1>1, <2>1, <2>3
<1> QED BY <1>2 DEF HeadInv

LEMMA HeadStays ==
    ASSUME ContextTypes, HeadInv, commitStep # "down",
           UNCHANGED <<commitStep, library, libraryFile, libraryStep>>,
           commits' = commits \/ \E job : commits' = Append(commits, job),
           libraryJobs' = libraryJobs \/ \E job : libraryJobs' = Append(libraryJobs, job)
    PROVE  HeadInv'
<1>1. commits # <<>> => commits' # <<>> /\ Head(commits') = Head(commits)
    BY QueueFacts DEF ContextTypes, ControllerTypes
<1>2. /\ libraryStep' # "ready" => libraryJobs' # <<>> /\ LibraryAccepts(Head(libraryJobs))'
      /\ libraryStep' = "written" \/ commitStep' = "down" \/ library' = libraryFile'
    BY LibraryHeadStays
<1> QED BY <1>1, <1>2 DEF HeadInv, SaveSteps

LEMMA RequestHead == ASSUME ContextTypes, HeadInv, Request PROVE HeadInv'
<1>1. /\ commitStep # "down" /\ UNCHANGED <<commitStep, library, libraryFile, libraryStep>>
      /\ commits' = commits \/ \E job : commits' = Append(commits, job)
      /\ libraryJobs' = libraryJobs \/ \E job : libraryJobs' = Append(libraryJobs, job)
  <2>1. ASSUME NEW m, \/ StageOnlineMatch(m) \/ SelectOverLocal(m) \/ SelectMatch(m) \/ ActivateFixture(m)
                     \/ ClearActive
        PROVE  <1>1!:
      BY <2>1 DEF StageOnlineMatch, SelectOverLocal, SelectMatch, ActivateFixture, ClearActive,
         Asked, controller, store
  <2>2. ASSUME ActivatePending \/ SaveBpOverlay PROVE <1>1!:
      BY <2>2 DEF ActivatePending, SaveBpOverlay, Commit, Asked, store
  <2>3. ASSUME NEW kind, NEW m, LibraryJob(kind, m) PROVE <1>1!:
      BY <2>3 DEF LibraryJob, Asked, controller
  <2> QED BY <2>1, <2>2, <2>3 DEF Request, CreateLocalMatch, SelectLocalMatch, SaveFirstBp,
     SaveLocalMatch, SaveEvent
<1> QED BY <1>1, HeadStays

LEMMA AnswerHead == ASSUME ContextTypes, HeadInv, Answer PROVE HeadInv'
<1>1. PICK load \in loads : \/ \E r \in ManifestRevisions : LoadAnswers(load, r)
                            \/ LoadFails(load)
                            \/ ConversionFails(load)
    BY DEF Answer
<1>2. commitStep # "down"
    BY DEF HeadInv
<1>3. UNCHANGED <<commitStep, library, libraryFile, libraryStep, libraryJobs>>
    BY <1>1 DEF LoadAnswers, LoadFails, ConversionFails, store
<1>4. commits' = commits \/ \E job : commits' = Append(commits, job)
  <2>1. StagingFails(load) => <1>4!:
      BY DEF StagingFails, Commit
  <2>2. ASSUME NEW r, LoadAnswers(load, r) PROVE <1>4!:
    <3>1. CASE load.kind = "select"
        BY <2>2, <3>1 DEF LoadAnswers, Commit
    <3>2. CASE load.kind # "select" /\ NewestRefresh(load.gen)
        BY <2>2, <3>2 DEF LoadAnswers, Commit
    <3>3. CASE load.kind # "select" /\ ~NewestRefresh(load.gen)
        BY <2>1, <2>2, <3>3 DEF LoadAnswers
    <3> QED BY <3>1, <3>2, <3>3
  <2>3. LoadFails(load) \/ ConversionFails(load) => <1>4!:
      BY <2>1 DEF LoadFails, ConversionFails, Commit
  <2> QED BY <1>1, <2>2, <2>3
<1> QED BY <1>2, <1>3, <1>4, HeadStays

LEMMA CommitHead == ASSUME ContextTypes, HeadInv, CommitRuns PROVE HeadInv'
<1>1. UNCHANGED <<library, libraryFile, libraryStep, libraryJobs>>
    BY DEF CommitRuns, BeginSave, ReplaceLkg, LkgWriteFails, FinishSave, FallBackToMemory,
       FallBackToFile, StageCandidate, MarkStale, store
<1>2. commitStep # "down" /\ commitStep' # "down"
    BY DEF CommitRuns, BeginSave, ReplaceLkg, LkgWriteFails, FinishSave, FallBackToMemory,
       FallBackToFile, StageCandidate, MarkStale, Runs, Done
<1>3. /\ commitStep' \in SaveSteps => commits' # <<>> /\ Head(commits').kind \in Saves
      /\ commitStep' = "reading" => commits' # <<>> /\ Head(commits').kind = "fallback"
  <2>1. CASE BeginSave \/ ReplaceLkg \/ LkgWriteFails \/ FallBackToMemory
      BY <2>1 DEF BeginSave, ReplaceLkg, LkgWriteFails, FallBackToMemory, Runs, Done, SaveSteps
  <2>2. CASE FinishSave \/ FallBackToFile \/ StageCandidate \/ MarkStale
    <3>1. commitStep' = "ready"
        BY <2>2 DEF FinishSave, FallBackToFile, StageCandidate, MarkStale, Runs, Done
    <3> QED BY <3>1 DEF SaveSteps
  <2> QED BY <2>1, <2>2 DEF CommitRuns
<1>4. /\ libraryStep' # "ready" => libraryJobs' # <<>> /\ LibraryAccepts(Head(libraryJobs))'
      /\ libraryStep' = "written" \/ commitStep' = "down" \/ library' = libraryFile'
    BY <1>1, <1>2, LibraryHeadStays
<1> QED BY <1>2, <1>3, <1>4 DEF HeadInv

LEMMA LibraryHead == ASSUME ContextTypes, HeadInv, LibraryRuns PROVE HeadInv'
<1>1. UNCHANGED <<commits, commitStep>> /\ commitStep # "down"
    BY DEF LibraryRuns, BeginLibraryJob, ReplaceLibrary, LibraryWriteFails, FinishLibraryJob,
       controller, HeadInv
<1>2. ASSUME libraryStep' # "ready" PROVE libraryJobs' # <<>> /\ LibraryAccepts(Head(libraryJobs))'
  <2>1. libraryJobs # <<>> /\ LibraryAccepts(Head(libraryJobs)) /\ UNCHANGED <<library, libraryJobs>>
      BY <1>2 DEF LibraryRuns, BeginLibraryJob, ReplaceLibrary, LibraryWriteFails, FinishLibraryJob,
         HeadInv
  <2>2. LibraryAccepts(Head(libraryJobs))' <=> LibraryAccepts(Head(libraryJobs))
      BY <2>1 DEF LibraryAccepts
  <2> QED BY <2>1, <2>2
<1>3. libraryStep' = "written" \/ library' = libraryFile'
    BY <1>1 DEF LibraryRuns, BeginLibraryJob, ReplaceLibrary, LibraryWriteFails, FinishLibraryJob,
       HeadInv
<1> QED BY <1>1, <1>2, <1>3 DEF HeadInv, SaveSteps

LEMMA HeadKept == ASSUME ContextTypes, HeadInv, [ContextNext]_contextVars PROVE HeadInv'
<1>1. CASE UNCHANGED contextVars
  <2>1. UNCHANGED <<commits, loads, activeBinding, libraryJobs, commitStep, libraryStep, library, libraryFile>>
      BY <1>1 DEF contextVars, memory, controller, store
  <2>2. LibraryAccepts(Head(libraryJobs))' <=> LibraryAccepts(Head(libraryJobs))
      BY <2>1 DEF LibraryAccepts
  <2> QED BY <2>1, <2>2 DEF HeadInv
<1>2. CASE CompanionDies
    BY <1>2 DEF CompanionDies, HeadInv, SaveSteps, Shows
<1>3. CASE CompanionStarts
    BY <1>3 DEF CompanionStarts, HeadInv, SaveSteps
<1> QED BY <1>1, <1>2, <1>3, RequestHead, AnswerHead, CommitHead, LibraryHead DEF ContextNext

-----------------------------------------------------------------------------
(* The match context: what is still on its way *)

\* The selections and the refreshes that may yet be committed.
Selections == {load \in loads : load.kind = "select"}
              \cup {job \in JobsOf(commits) : job.kind \in SelectionKinds}
Refreshes == {load \in loads : load.kind # "select"}
             \cup {job \in JobsOf(commits) : job.kind \in RefreshKinds}

\* Only the newest selection has the current generation, and it is not older than what is
\* shown; no job of the library belongs to the same request.
SelectionInv ==
    /\ shown.by <= requests
    /\ \A s \in Selections :
          /\ s.gen <= selection /\ s.by \in 1..requests
          /\ s.gen = selection => s.by >= shown.by
          /\ \A job \in JobsOf(libraryJobs) : job.by # s.by
    /\ \A s, t \in Selections : s.gen = selection /\ t.gen = selection => s.by = t.by
    /\ \A job \in JobsOf(libraryJobs) : job.by \in 1..requests

CandidateInv ==
    /\ staged # NoBinding => staged.by \in 1..requests
    /\ \A r \in Refreshes :
          /\ r.gen <= acquisition[1] /\ r.by \in 1..requests
          /\ r.gen = acquisition[1] /\ staged # NoBinding => r.by >= staged.by
    /\ \A r, t \in Refreshes : r.gen = acquisition[1] /\ t.gen = acquisition[1] => r.by = t.by

LEMMA PendingShapes ==
    ASSUME ContextTypes
    PROVE  /\ \A s \in Selections : s.gen \in Nat /\ s.by \in Nat
           /\ \A r \in Refreshes : r.gen \in Nat /\ r.by \in Nat
           /\ \A job \in JobsOf(libraryJobs) : job.by \in Nat
<1>1. \A load \in loads : load.gen \in Nat /\ load.by \in Nat
    BY LoadShape
<1>2. \A job \in JobsOf(commits) : job \in ContextJobs
    BY QueueFacts DEF ContextTypes, ControllerTypes
<1>3. ASSUME NEW job \in JobsOf(commits), job.kind \in SelectionKinds \cup RefreshKinds
      PROVE  job.gen \in Nat /\ job.by \in Nat
    BY <1>2, <1>3, JobShapes DEF SelectionKinds, RefreshKinds, Saves, SaveJobs, RefreshJobs,
       FallbackJobs
<1>4. \A job \in JobsOf(libraryJobs) : job \in LibraryTasks
    BY QueueFacts DEF ContextTypes, LibraryTypes
<1> QED BY <1>1, <1>3, <1>4 DEF Selections, Refreshes, LibraryTasks

LEMMA PendingMoves ==
    ASSUME NEW L, NEW J, loads' \subseteq loads \cup L, JobsOf(commits') \subseteq JobsOf(commits) \cup J
    PROVE  /\ \A s \in Selections' : s \in Selections \/ (s \in L /\ s.kind = "select")
                                    \/ (s \in J /\ s.kind \in SelectionKinds)
           /\ \A r \in Refreshes' : r \in Refreshes \/ (r \in L /\ r.kind # "select")
                                   \/ (r \in J /\ r.kind \in RefreshKinds)
<1>1. /\ \A s : s \in Selections <=> \/ s \in loads /\ s.kind = "select"
                                     \/ s \in JobsOf(commits) /\ s.kind \in SelectionKinds
      /\ \A r : r \in Refreshes <=> \/ r \in loads /\ r.kind # "select"
                                    \/ r \in JobsOf(commits) /\ r.kind \in RefreshKinds
    BY DEF Selections, Refreshes
<1>2. /\ \A s : s \in Selections' => \/ s \in loads' /\ s.kind = "select"
                                     \/ s \in JobsOf(commits') /\ s.kind \in SelectionKinds
      /\ \A r : r \in Refreshes' => \/ r \in loads' /\ r.kind # "select"
                                    \/ r \in JobsOf(commits') /\ r.kind \in RefreshKinds
    BY DEF Selections, Refreshes
<1> QED BY <1>1, <1>2

LEMMA SelectionMoves ==
    ASSUME ContextTypes, ContextTypes', SelectionInv,
           selection' \in {selection, selection + 1}, requests' \in {requests, requests + 1},
           \A s \in Selections' :
              \/ \E t \in Selections : t.gen = s.gen /\ t.by = s.by
              \/ /\ s.gen = selection + 1 /\ s.by = requests + 1
                 /\ selection' = selection + 1 /\ requests' = requests + 1,
           \/ shown'.by \in {0, shown.by}
           \/ selection' = selection + 1 /\ shown'.by <= requests'
           \/ \E s \in Selections : s.gen = selection /\ s.by = shown'.by /\ selection' = selection,
           \A job \in JobsOf(libraryJobs') :
              \/ job \in JobsOf(libraryJobs)
              \/ job.by = requests + 1 /\ requests' = requests + 1 /\ selection' = selection
    PROVE  SelectionInv'
<1>1. /\ selection \in Nat /\ selection' \in Nat /\ requests \in Nat /\ requests' \in Nat
      /\ shown.by \in Nat /\ shown'.by \in Nat
    BY DEF ContextTypes, MemoryTypes, TallyTypes
<1>2. /\ \A s \in Selections : s.gen \in Nat /\ s.by \in Nat
      /\ \A job \in JobsOf(libraryJobs) : job.by \in Nat
    BY PendingShapes
<1>3. shown'.by <= requests'
    BY <1>1, <1>2 DEF SelectionInv
<1>4. \A job \in JobsOf(libraryJobs') : job.by \in 1..requests'
    BY <1>1, <1>2 DEF SelectionInv
<1>5. ASSUME NEW s \in Selections'
      PROVE  /\ s.gen <= selection' /\ s.by \in 1..requests'
             /\ s.gen = selection' => s.by >= shown'.by
             /\ \A job \in JobsOf(libraryJobs') : job.by # s.by
  <2>1. CASE \E t \in Selections : t.gen = s.gen /\ t.by = s.by
    <3>1. PICK t \in Selections : t.gen = s.gen /\ t.by = s.by
        BY <2>1
    <3>2. s.gen <= selection' /\ s.by \in 1..requests'
        BY <1>1, <1>2, <3>1 DEF SelectionInv
    <3>3. s.gen = selection' => s.by >= shown'.by
        BY <1>1, <1>2, <3>1 DEF SelectionInv
    <3>4. \A job \in JobsOf(libraryJobs') : job.by # s.by
        BY <1>1, <1>2, <3>1 DEF SelectionInv
    <3> QED BY <3>2, <3>3, <3>4
  <2>2. CASE s.gen = selection + 1 /\ s.by = requests + 1 /\ selection' = selection + 1 /\ requests' = requests + 1
    <3>1. \A job \in JobsOf(libraryJobs') : job.by # s.by
        BY <1>1, <1>2, <2>2 DEF SelectionInv
    <3> QED BY <1>1, <1>3, <2>2, <3>1
  <2> QED BY <2>1, <2>2
<1>6. \A s, t \in Selections' : s.gen = selection' /\ t.gen = selection' => s.by = t.by
  <2> SUFFICES ASSUME NEW s \in Selections', NEW t \in Selections', s.gen = selection', t.gen = selection'
               PROVE  s.by = t.by
      OBVIOUS
  <2> QED BY <1>1, <1>2 DEF SelectionInv
<1> QED BY <1>3, <1>4, <1>5, <1>6 DEF SelectionInv

LEMMA RefreshMoves ==
    ASSUME ContextTypes, ContextTypes', CandidateInv,
           acquisition'[1] \in {acquisition[1], acquisition[1] + 1}, requests' \in {requests, requests + 1},
           \A r \in Refreshes' :
              \/ \E t \in Refreshes : t.gen = r.gen /\ t.by = r.by
              \/ /\ r.gen = acquisition[1] + 1 /\ r.by = requests + 1
                 /\ acquisition'[1] = acquisition[1] + 1 /\ requests' = requests + 1,
           \/ staged' \in {NoBinding, staged}
           \/ /\ acquisition'[1] = acquisition[1]
              /\ \E r \in Refreshes : r.gen = acquisition[1] /\ staged'.by = r.by
    PROVE  CandidateInv'
<1>1. /\ acquisition[1] \in Nat /\ acquisition'[1] \in Nat /\ requests \in Nat /\ requests' \in Nat
      /\ staged # NoBinding => staged.by \in Nat
    BY DEF ContextTypes, MemoryTypes, TallyTypes, Candidates
<1>2. \A r \in Refreshes : r.gen \in Nat /\ r.by \in Nat
    BY PendingShapes
<1>3. staged' # NoBinding => staged'.by \in 1..requests'
    BY <1>1, <1>2 DEF CandidateInv
<1>4. ASSUME NEW r \in Refreshes'
      PROVE  /\ r.gen <= acquisition'[1] /\ r.by \in 1..requests'
             /\ r.gen = acquisition'[1] /\ staged' # NoBinding => r.by >= staged'.by
  <2>1. CASE \E t \in Refreshes : t.gen = r.gen /\ t.by = r.by
    <3>1. PICK t \in Refreshes : t.gen = r.gen /\ t.by = r.by
        BY <2>1
    <3>2. r.gen <= acquisition'[1] /\ r.by \in 1..requests'
        BY <1>1, <1>2, <3>1 DEF CandidateInv
    <3>3. r.gen = acquisition'[1] /\ staged' # NoBinding => r.by >= staged'.by
        BY <1>1, <1>2, <3>1 DEF CandidateInv
    <3> QED BY <3>2, <3>3
  <2>2. CASE /\ r.gen = acquisition[1] + 1 /\ r.by = requests + 1
             /\ acquisition'[1] = acquisition[1] + 1 /\ requests' = requests + 1
      BY <1>1, <1>3, <2>2
  <2> QED BY <2>1, <2>2
<1>5. \A r, t \in Refreshes' : r.gen = acquisition'[1] /\ t.gen = acquisition'[1] => r.by = t.by
  <2> SUFFICES ASSUME NEW r \in Refreshes', NEW t \in Refreshes', r.gen = acquisition'[1],
                      t.gen = acquisition'[1]
               PROVE  r.by = t.by
      OBVIOUS
  <2> QED BY <1>1, <1>2 DEF CandidateInv
<1> QED BY <1>3, <1>4, <1>5 DEF CandidateInv

\* Answers and commits make no request newer than it was.
LEMMA AnswerQueues ==
    ASSUME ContextTypes, Answer
    PROVE  /\ \A s \in Selections' : \E t \in Selections : t.gen = s.gen /\ t.by = s.by
           /\ \A r \in Refreshes' : \E t \in Refreshes : t.gen = r.gen /\ t.by = r.by
           /\ \A job \in JobsOf(commits') : job \in JobsOf(commits) \/ job.kind \notin {"overlay", "confirm"}
<1>1. PICK load \in loads : \/ \E r \in ManifestRevisions : LoadAnswers(load, r)
                            \/ LoadFails(load)
                            \/ ConversionFails(load)
    BY DEF Answer
<1>2. load.kind \in {"select", "stage", "restage"} /\ commits \in Seq(ContextJobs)
    BY LoadShape DEF ContextTypes, ControllerTypes
<1>3. loads' \subseteq loads
    BY <1>1 DEF LoadAnswers, LoadFails, ConversionFails
<1>4. \/ commits' = commits
      \/ \E job : /\ Commit(job)
                 /\ \/ job.kind = "stale"
                    \/ /\ load.kind = "select" /\ job.kind \in {"select", "fallback"}
                       /\ job.gen = load.gen /\ job.by = load.by
                    \/ /\ load.kind # "select" /\ job.kind = load.kind
                       /\ job.gen = load.gen /\ job.by = load.by
  <2>1. StagingFails(load) => commits' = commits \/ \E job : Commit(job) /\ job.kind = "stale"
    <3> DEFINE job == [kind |-> "stale", gen |-> load.gen, match |-> load.match]
    <3>1. job.kind = "stale"
        OBVIOUS
    <3>2. StagingFails(load) => commits' = commits \/ Commit(job)
        BY DEF StagingFails
    <3> HIDE DEF job
    <3> QED BY <3>1, <3>2
  <2>2. ASSUME NEW r, LoadAnswers(load, r) PROVE <1>4!:
    <3>1. CASE load.kind = "select"
      <4> DEFINE job == [kind |-> "select", gen |-> load.gen, cand |-> 0, rev |-> 0, candidate |-> 0,
                         of |-> ManifestOf(load.match, load.from, "bound-overlay", r),
                         seen |-> NoBinding, by |-> load.by]
      <4>1. Commit(job)
          BY <2>2, <3>1 DEF LoadAnswers
      <4>2. job.kind = "select" /\ job.gen = load.gen /\ job.by = load.by
          OBVIOUS
      <4> HIDE DEF job
      <4> QED BY <3>1, <4>1, <4>2
    <3>2. CASE load.kind # "select" /\ NewestRefresh(load.gen)
      <4> DEFINE job == [kind |-> load.kind, gen |-> load.gen, match |-> load.match,
                         of |-> ManifestOf(load.match, "online", "bound-overlay", r), by |-> load.by]
      <4>1. Commit(job)
          BY <2>2, <3>2 DEF LoadAnswers
      <4>2. job.kind = load.kind /\ job.gen = load.gen /\ job.by = load.by
          OBVIOUS
      <4> HIDE DEF job
      <4> QED BY <3>2, <4>1, <4>2
    <3>3. CASE load.kind # "select" /\ ~NewestRefresh(load.gen)
        BY <2>1, <2>2, <3>3 DEF LoadAnswers
    <3> QED BY <3>1, <3>2, <3>3
  <2>3. ASSUME LoadFails(load) PROVE <1>4!:
    <3>1. CASE load.kind = "select"
      <4> DEFINE job == [kind |-> "fallback", gen |-> load.gen, match |-> load.match, by |-> load.by]
      <4>1. Commit(job)
          BY <2>3, <3>1 DEF LoadFails
      <4>2. job.kind = "fallback" /\ job.gen = load.gen /\ job.by = load.by
          OBVIOUS
      <4> HIDE DEF job
      <4> QED BY <3>1, <4>1, <4>2
    <3>2. CASE load.kind # "select"
        BY <2>1, <2>3, <3>2 DEF LoadFails
    <3> QED BY <3>1, <3>2
  <2>4. ConversionFails(load) => commits' = commits
      BY DEF ConversionFails
  <2> QED BY <1>1, <2>2, <2>3, <2>4
<1>5. load.kind = "select" => load \in Selections
    BY DEF Selections
<1>6. load.kind # "select" => load \in Refreshes
    BY DEF Refreshes
<1>7. CASE commits' = commits
  <2>1. JobsOf(commits') \subseteq JobsOf(commits) \cup {} /\ loads' \subseteq loads \cup {}
      BY <1>3, <1>7
  <2>2. (\A s \in Selections' : s \in Selections) /\ (\A r \in Refreshes' : r \in Refreshes)
      BY <2>1, PendingMoves
  <2> QED BY <1>7, <2>2
<1>8. ASSUME NEW job, Commit(job),
             \/ job.kind = "stale"
             \/ /\ load.kind = "select" /\ job.kind \in {"select", "fallback"}
                /\ job.gen = load.gen /\ job.by = load.by
             \/ /\ load.kind # "select" /\ job.kind = load.kind
                /\ job.gen = load.gen /\ job.by = load.by
      PROVE  /\ \A s \in Selections' : \E t \in Selections : t.gen = s.gen /\ t.by = s.by
             /\ \A r \in Refreshes' : \E t \in Refreshes : t.gen = r.gen /\ t.by = r.by
             /\ \A j \in JobsOf(commits') : j \in JobsOf(commits) \/ j.kind \notin {"overlay", "confirm"}
  <2>1. JobsOf(commits') = JobsOf(commits) \cup {job}
      BY <1>2, <1>8, QueueFacts DEF Commit
  <2> DEFINE J == {job}
             none == {}
  <2>2. /\ JobsOf(commits') \subseteq JobsOf(commits) \cup J /\ loads' \subseteq loads \cup none
        /\ (\A j \in J : j = job) /\ \A l : l \notin none
      BY <1>3, <2>1
  <2> HIDE DEF J, none
  <2>3. /\ \A s \in Selections' : s \in Selections \/ (s = job /\ s.kind \in SelectionKinds)
        /\ \A r \in Refreshes' : r \in Refreshes \/ (r = job /\ r.kind \in RefreshKinds)
      BY <2>2, PendingMoves
  <2>4. job.kind \in SelectionKinds => load \in Selections /\ job.gen = load.gen /\ job.by = load.by
      BY <1>2, <1>5, <1>8 DEF SelectionKinds
  <2>5. job.kind \in RefreshKinds => load \in Refreshes /\ job.gen = load.gen /\ job.by = load.by
      BY <1>2, <1>6, <1>8 DEF RefreshKinds
  <2>6. job.kind \notin {"overlay", "confirm"}
      BY <1>2, <1>8
  <2> QED BY <2>1, <2>3, <2>4, <2>5, <2>6
<1> QED BY <1>4, <1>7, <1>8

LEMMA CommitQueues ==
    ASSUME ContextTypes, HeadInv, CommitRuns
    PROVE  /\ loads' = loads /\ commits # <<>>
           /\ \A s \in Selections' : s \in Selections
           /\ \A r \in Refreshes' : r \in Refreshes
           /\ \A job \in JobsOf(commits') : job \in JobsOf(commits) \/ job.kind = "stale"
<1> DEFINE stale == [kind |-> "stale", gen |-> Head(commits).gen, match |-> Head(commits).match]
<1>1. commits # <<>> /\ loads' = loads
    BY DEF CommitRuns, BeginSave, ReplaceLkg, LkgWriteFails, FinishSave, FallBackToMemory,
       FallBackToFile, StageCandidate, MarkStale, Runs, HeadInv, SaveSteps
<1>2. commits' \in {commits, Tail(commits), Append(Tail(commits), stale)}
    BY DEF CommitRuns, BeginSave, ReplaceLkg, LkgWriteFails, FinishSave, FallBackToMemory,
       FallBackToFile, StageCandidate, MarkStale, Done
<1>3. stale.kind = "stale"
    OBVIOUS
<1> HIDE DEF stale
<1>4. JobsOf(Tail(commits)) \subseteq JobsOf(commits) /\ Tail(commits) \in Seq(ContextJobs)
    BY <1>1, CommittedJob
<1>5. JobsOf(Append(Tail(commits), stale)) = JobsOf(Tail(commits)) \cup {stale}
    BY <1>4, QueueFacts
<1> DEFINE J == {stale}
           none == {}
<1>6. /\ JobsOf(commits') \subseteq JobsOf(commits) \cup J /\ loads' \subseteq loads \cup none
      /\ (\A j \in J : j = stale) /\ \A l : l \notin none
    BY <1>1, <1>2, <1>4, <1>5
<1> HIDE DEF J, none
<1>7. stale.kind \notin SelectionKinds /\ stale.kind \notin RefreshKinds
    BY <1>3 DEF SelectionKinds, RefreshKinds
<1>8. (\A s \in Selections' : s \in Selections) /\ (\A r \in Refreshes' : r \in Refreshes)
    BY <1>6, <1>7, PendingMoves
<1> QED BY <1>1, <1>3, <1>6, <1>8

LEMMA LibraryQueues ==
    ASSUME ContextTypes, HeadInv, LibraryRuns
    PROVE  /\ UNCHANGED <<loads, commits, commitStep, lkg, requests>> /\ commitStep # "down"
           /\ \A s \in Selections' : s \in Selections
           /\ \A r \in Refreshes' : r \in Refreshes
           /\ libraryJobs # <<>>
           /\ \A job \in JobsOf(libraryJobs') : job \in JobsOf(libraryJobs)
<1>1. /\ UNCHANGED <<loads, commits, commitStep, lkg, requests>> /\ commitStep # "down"
      /\ libraryJobs # <<>> /\ libraryJobs' \in {libraryJobs, Tail(libraryJobs)}
    BY DEF LibraryRuns, BeginLibraryJob, ReplaceLibrary, LibraryWriteFails, FinishLibraryJob,
       HeadInv, controller, tallies
<1>2. \A job \in JobsOf(libraryJobs') : job \in JobsOf(libraryJobs)
    BY <1>1, LibraryTask
<1>3. JobsOf(commits') \subseteq JobsOf(commits) \cup {} /\ loads' \subseteq loads \cup {}
    BY <1>1
<1> QED BY <1>1, <1>2, <1>3, PendingMoves

LEMMA SetActiveMoves ==
    ASSUME NEW binding, SetActive(binding)
    PROVE  /\ activeBinding' = binding /\ bindingRev' = bindingRev + 1
           /\ \/ acquisition' = acquisition /\ staged' = staged
              \/ acquisition'[1] = acquisition[1] + 1 /\ staged' = NoBinding
BY DEF SetActive

LEMMA OneMoreLoad ==
    ASSUME NEW new, loads' = loads \cup {new}, commits' = commits
    PROVE  /\ \A s \in Selections' : s \in Selections \/ (s = new /\ s.kind = "select")
           /\ \A r \in Refreshes' : r \in Refreshes \/ (r = new /\ r.kind # "select")
<1> DEFINE one == {new}
           none == {}
<1>1. /\ (\A x : x \in one <=> x = new) /\ \A x : x \notin none
      /\ loads' \subseteq loads \cup one /\ JobsOf(commits') \subseteq JobsOf(commits) \cup none
    OBVIOUS
<1> HIDE DEF one, none
<1> QED BY <1>1, PendingMoves

LEMMA OneMoreCommit ==
    ASSUME ContextTypes, NEW new, loads' = loads, commits' = Append(commits, new)
    PROVE  /\ \A s \in Selections' : s \in Selections \/ (s = new /\ s.kind \in SelectionKinds)
           /\ \A r \in Refreshes' : r \in Refreshes \/ (r = new /\ r.kind \in RefreshKinds)
           /\ \A job \in JobsOf(commits') : job \in JobsOf(commits) \/ job = new
<1>1. commits \in Seq(ContextJobs)
    BY DEF ContextTypes, ControllerTypes
<1> DEFINE one == {new}
           none == {}
<1>2. (\A x : x \in one <=> x = new) /\ \A x : x \notin none
    OBVIOUS
<1>3. JobsOf(Append(commits, new)) = JobsOf(commits) \cup one
    BY <1>1, QueueFacts
<1>4. loads' \subseteq loads \cup none /\ JobsOf(commits') \subseteq JobsOf(commits) \cup one
    BY <1>3
<1> HIDE DEF one, none
<1> QED BY <1>2, <1>4, PendingMoves

LEMMA RequestPending ==
    ASSUME ContextTypes, ContextTypes', SelectionInv, CandidateInv, Request
    PROVE  SelectionInv' /\ CandidateInv'
<1>1. requests' = requests + 1 /\ requests \in Nat /\ selection \in Nat /\ acquisition[1] \in Nat
  <2>1. requests \in Nat /\ selection \in Nat /\ acquisition[1] \in Nat
      BY DEF ContextTypes, TallyTypes, MemoryTypes
  <2> QED BY <2>1 DEF Request, StageOnlineMatch, SelectOverLocal, SelectMatch, CreateLocalMatch,
     SelectLocalMatch, SaveFirstBp, ActivateFixture, ActivatePending, SaveBpOverlay, SaveLocalMatch,
     SaveEvent, ClearActive, LibraryJob, Asked
<1>2. ASSUME UNCHANGED <<loads, commits>>
      PROVE  (\A s \in Selections' : s \in Selections) /\ (\A r \in Refreshes' : r \in Refreshes)
  <2>1. Selections' = Selections /\ Refreshes' = Refreshes
      BY <1>2 DEF Selections, Refreshes
  <2> QED BY <2>1
<1>3. ASSUME NEW m, StageOnlineMatch(m) \/ SelectOverLocal(m) PROVE SelectionInv' /\ CandidateInv'
  <2> DEFINE kind == IF StageOnlineMatch(m) THEN "stage" ELSE "restage"
             load == [kind |-> kind, match |-> m, from |-> "online", gen |-> acquisition[1] + 1,
                      by |-> requests + 1]
  <2>1. loads' = loads \cup {load} /\ commits' = commits
      BY <1>3 DEF StageOnlineMatch, SelectOverLocal
  <2>2. load.kind # "select" /\ load.gen = acquisition[1] + 1 /\ load.by = requests + 1
      OBVIOUS
  <2> HIDE DEF load
  <2>3. /\ \A s \in Selections' : s \in Selections \/ (s = load /\ s.kind = "select")
        /\ \A r \in Refreshes' : r \in Refreshes \/ (r = load /\ r.kind # "select")
      BY <2>1, OneMoreLoad
  <2>4. /\ UNCHANGED <<selection, shown, libraryJobs>> /\ staged' \in {NoBinding, staged}
        /\ acquisition'[1] = acquisition[1] + 1
      BY <1>3 DEF StageOnlineMatch, SelectOverLocal, store
  <2>5. SelectionInv'
      BY <1>1, <2>2, <2>3, <2>4, SelectionMoves
  <2>6. CandidateInv'
      BY <1>1, <2>2, <2>3, <2>4, RefreshMoves
  <2> QED BY <2>5, <2>6
<1>4. ASSUME NEW m, SelectMatch(m) PROVE SelectionInv' /\ CandidateInv'
  <2> DEFINE load == [kind |-> "select", match |-> m,
                      from |-> IF IsLocalBinding(activeBinding) THEN "fixture" ELSE "online",
                      gen |-> selection + 1, by |-> requests + 1]
  <2>1. loads' = loads \cup {load} /\ commits' = commits
      BY <1>4 DEF SelectMatch
  <2>2. load.kind = "select" /\ load.gen = selection + 1 /\ load.by = requests + 1
      OBVIOUS
  <2> HIDE DEF load
  <2>3. /\ \A s \in Selections' : s \in Selections \/ (s = load /\ s.kind = "select")
        /\ \A r \in Refreshes' : r \in Refreshes \/ (r = load /\ r.kind # "select")
      BY <2>1, OneMoreLoad
  <2>4. selection' = selection + 1 /\ libraryJobs' = libraryJobs /\ shown'.by \in {0, shown.by}
      BY <1>4 DEF SelectMatch, store, Shows
  <2>5. \/ acquisition' = acquisition /\ staged' = staged
        \/ acquisition'[1] = acquisition[1] + 1 /\ staged' = NoBinding
      BY <1>4, SetActiveMoves DEF SelectMatch
  <2>6. SelectionInv'
      BY <1>1, <2>2, <2>3, <2>4, SelectionMoves
  <2>7. CandidateInv'
      BY <1>1, <2>2, <2>3, <2>5, RefreshMoves
  <2> QED BY <2>6, <2>7
<1>5. ASSUME ActivatePending \/ SaveBpOverlay PROVE SelectionInv' /\ CandidateInv'
  <2>1. PICK job : /\ commits' = Append(commits, job) /\ job.kind \in {"confirm", "overlay"}
                   /\ job.gen = selection + 1 /\ job.by = requests + 1
    <3>1. CASE ActivatePending
      <4> DEFINE job == [kind |-> "confirm", gen |-> selection + 1, cand |-> acquisition[1],
               rev |-> bindingRev, candidate |-> staged.by, of |-> staged.of,
               seen |-> activeBinding, by |-> requests + 1]
      <4>1. commits' = Append(commits, job)
          BY <3>1 DEF ActivatePending, Commit
      <4>2. job.kind = "confirm" /\ job.gen = selection + 1 /\ job.by = requests + 1
          OBVIOUS
      <4> HIDE DEF job
      <4> QED BY <4>1, <4>2
    <3>2. CASE SaveBpOverlay
      <4> DEFINE of == ManifestOf(MatchOf(activeBinding), "local",
                               IF IsStandalone(activeBinding) THEN "standalone" ELSE "bound-overlay",
                               requests + 1)
                 job == [kind |-> "overlay", gen |-> selection + 1, cand |-> 0, rev |-> bindingRev,
                         candidate |-> 0, of |-> of, seen |-> activeBinding, by |-> requests + 1]
      <4>1. commits' = Append(commits, job)
          BY <3>2 DEF SaveBpOverlay, Commit
      <4>2. job.kind = "overlay" /\ job.gen = selection + 1 /\ job.by = requests + 1
          OBVIOUS
      <4> HIDE DEF job
      <4> QED BY <4>1, <4>2
    <3> QED BY <1>5, <3>1, <3>2
  <2>2. UNCHANGED <<loads, acquisition, staged, shown, libraryJobs>> /\ selection' = selection + 1
      BY <1>5 DEF ActivatePending, SaveBpOverlay, store
  <2>3. /\ \A s \in Selections' : s \in Selections \/ s = job
        /\ \A r \in Refreshes' : r \in Refreshes
      BY <2>1, <2>2, OneMoreCommit DEF RefreshKinds
  <2>4. SelectionInv'
      BY <1>1, <2>1, <2>2, <2>3, SelectionMoves
  <2>5. CandidateInv'
      BY <1>1, <2>2, <2>3, RefreshMoves
  <2> QED BY <2>4, <2>5
<1>6. ASSUME NEW kind, NEW m, LibraryJob(kind, m) PROVE SelectionInv' /\ CandidateInv'
  <2> DEFINE job == [kind |-> kind, match |-> m, event |-> library.event, by |-> requests + 1]
  <2>1. /\ libraryJobs' = Append(libraryJobs, job)
        /\ UNCHANGED <<selection, shown, acquisition, staged, loads, commits>>
      BY <1>6 DEF LibraryJob, memory, controller
  <2>2. job.by = requests + 1
      OBVIOUS
  <2> HIDE DEF job
  <2>3. \A j \in JobsOf(libraryJobs') : j \in JobsOf(libraryJobs) \/ j.by = requests + 1
    <3>1. JobsOf(libraryJobs') = JobsOf(libraryJobs) \cup {job}
        BY <2>1, QueueFacts DEF ContextTypes, LibraryTypes
    <3> QED BY <2>2, <3>1
  <2>4. SelectionInv'
      BY <1>1, <1>2, <2>1, <2>3, SelectionMoves
  <2>5. CandidateInv'
      BY <1>1, <1>2, <2>1, RefreshMoves
  <2> QED BY <2>4, <2>5
<1>7. ASSUME NEW m, ActivateFixture(m) \/ ClearActive PROVE SelectionInv' /\ CandidateInv'
  <2>1. /\ selection' = selection + 1 /\ shown'.by \in {0, requests + 1}
        /\ UNCHANGED <<loads, commits, libraryJobs>>
    <3>1. ActivateFixture(m) => shown' = [by |-> requests + 1, at |-> 0]
        BY DEF ActivateFixture, Shows
    <3>2. ClearActive => shown' = [by |-> 0, at |-> 0]
        BY DEF ClearActive, Shows
    <3>3. selection' = selection + 1 /\ UNCHANGED <<loads, commits, libraryJobs>>
        BY <1>7 DEF ActivateFixture, ClearActive, controller, store
    <3> QED BY <1>7, <3>1, <3>2, <3>3
  <2>2. \/ acquisition' = acquisition /\ staged' = staged
        \/ acquisition'[1] = acquisition[1] + 1 /\ staged' = NoBinding
    <3>1. CASE ActivateFixture(m)
      <4> DEFINE fixture == Binding(ManifestOf(m, "fixture", "bound-overlay", requests + 1), FALSE, TRUE)
      <4>1. SetActive(fixture)
          BY <3>1 DEF ActivateFixture
      <4> HIDE DEF fixture
      <4> QED BY <4>1, SetActiveMoves
    <3>2. CASE ClearActive
        BY <3>2 DEF ClearActive
    <3> QED BY <1>7, <3>1, <3>2
  <2>3. SelectionInv'
      BY <1>1, <1>2, <2>1, SelectionMoves
  <2>4. CandidateInv'
      BY <1>1, <1>2, <2>1, <2>2, RefreshMoves
  <2> QED BY <2>3, <2>4
<1> QED BY <1>3, <1>4, <1>5, <1>6, <1>7 DEF Request, CreateLocalMatch, SelectLocalMatch,
   SaveFirstBp, SaveLocalMatch, SaveEvent

\* What a commit may do to what is shown and to the candidate.
LEMMA CommitMoves ==
    ASSUME ContextTypes, HeadInv, CommitRuns
    PROVE  /\ UNCHANGED <<selection, requests, libraryJobs>> /\ acquisition'[1] \in {acquisition[1], acquisition[1] + 1}
           /\ \/ shown' = shown
              \/ /\ \E s \in Selections : s.gen = selection /\ s.by = shown'.by
                 /\ shown'.by = Head(commits).by
           /\ \/ staged' \in {NoBinding, staged}
              \/ /\ acquisition'[1] = acquisition[1]
                 /\ \E r \in Refreshes : r.gen = acquisition[1] /\ staged'.by = r.by
<1> DEFINE job == Head(commits)
<1>1. commits # <<>> /\ job \in JobsOf(commits) /\ acquisition \in Nat \X Nat
    BY CommitQueues, CommittedJob DEF ContextTypes, MemoryTypes
<1>2. job.kind \in SelectionKinds => job \in Selections
    BY <1>1 DEF Selections
<1>3. job.kind \in RefreshKinds => job \in Refreshes
    BY <1>1 DEF Refreshes
<1> HIDE DEF job
<1>4. ASSUME BeginSave \/ ReplaceLkg \/ LkgWriteFails \/ MarkStale
      PROVE  /\ UNCHANGED <<selection, requests, libraryJobs, shown, staged>> /\ acquisition'[1] = acquisition[1]
    BY <1>1, <1>4 DEF BeginSave, ReplaceLkg, LkgWriteFails, MarkStale, memory, store, tallies,
       AcquisitionEnds
<1>5. CASE FinishSave
  <2>1. job.kind \in SelectionKinds
      BY <1>5 DEF FinishSave, HeadInv, SaveSteps, Saves, SelectionKinds, job
  <2>2. UNCHANGED <<selection, requests, libraryJobs>> /\ staged' \in {NoBinding, staged}
      BY <1>5 DEF FinishSave, store, tallies
  <2>3. \/ acquisition' = acquisition
        \/ acquisition' = <<acquisition[1] + 1, 0>>
      BY <1>5 DEF FinishSave
  <2>4. \/ shown' = shown
        \/ shown'.by = job.by /\ job.gen = selection
    <3>1. shown' = shown \/ (StillCurrent(job) /\ \E at : Shows(job.by, at))
        BY <1>5 DEF FinishSave, job
    <3>2. ASSUME NEW at, Shows(job.by, at) PROVE shown'.by = job.by
        BY <3>2 DEF Shows
    <3>3. StillCurrent(job) => job.gen = selection
        BY DEF StillCurrent, StillSelected
    <3> QED BY <3>1, <3>2, <3>3
  <2> QED BY <1>2, <2>1, <2>2, <2>3, <2>4 DEF job
<1>6. CASE FallBackToMemory \/ FallBackToFile
  <2>1. job.kind \in SelectionKinds
      BY <1>6 DEF FallBackToMemory, FallBackToFile, Runs, SelectionKinds, job
  <2>2. UNCHANGED <<requests, libraryJobs>>
      BY <1>6 DEF FallBackToMemory, FallBackToFile, store, tallies
  <2>3. UNCHANGED selection /\ (UNCHANGED memory \/ \E binding : SetActive(binding))
      BY <1>6 DEF FallBackToMemory, FallBackToFile, memory
  <2>4. \/ acquisition' = acquisition /\ staged' = staged
        \/ acquisition'[1] = acquisition[1] + 1 /\ staged' = NoBinding
      BY <2>3, SetActiveMoves DEF memory
  <2>5. \/ shown' = shown
        \/ shown'.by = job.by /\ job.gen = selection
    <3>1. shown' = shown \/ (job.gen = selection /\ \E at : Shows(job.by, at))
        BY <1>6 DEF FallBackToMemory, FallBackToFile, job
    <3>2. ASSUME NEW at, Shows(job.by, at) PROVE shown'.by = job.by
        BY <3>2 DEF Shows
    <3> QED BY <3>1, <3>2
  <2> QED BY <1>2, <2>1, <2>2, <2>3, <2>4, <2>5 DEF job
<1>7. CASE StageCandidate
  <2>1. job.kind \in RefreshKinds
      BY <1>7 DEF StageCandidate, Runs, RefreshKinds, job
  <2>2. UNCHANGED <<selection, requests, libraryJobs, shown>>
      BY <1>7 DEF StageCandidate, store, tallies
  <2>3. acquisition' = acquisition \/ AcquisitionEnds(job.gen)
      BY <1>7 DEF StageCandidate, job
  <2>4. acquisition'[1] = acquisition[1]
      BY <1>1, <2>3 DEF AcquisitionEnds
  <2>5. staged' = staged \/ (job.gen = acquisition[1] /\ staged' = [of |-> job.of, by |-> job.by])
      BY <1>7 DEF StageCandidate, NewestRefresh, job
  <2> QED BY <1>3, <2>1, <2>2, <2>4, <2>5
<1> QED BY <1>4, <1>5, <1>6, <1>7 DEF CommitRuns

LEMMA PendingKept ==
    ASSUME ContextTypes, ContextTypes', HeadInv, SelectionInv, CandidateInv, [ContextNext]_contextVars
    PROVE  SelectionInv' /\ CandidateInv'
<1>1. CASE UNCHANGED contextVars
  <2>1. UNCHANGED <<selection, requests, shown, libraryJobs, loads, commits, acquisition, staged>>
      BY <1>1 DEF contextVars, memory, controller, store, tallies
  <2>2. Selections' = Selections /\ Refreshes' = Refreshes
      BY <2>1 DEF Selections, Refreshes
  <2> QED BY <2>1, <2>2 DEF SelectionInv, CandidateInv
<1>2. CASE Answer
  <2>1. /\ UNCHANGED <<selection, requests, shown, libraryJobs, staged>>
        /\ acquisition' = acquisition \/ \E gen : AcquisitionEnds(gen)
      BY <1>2 DEF Answer, LoadAnswers, LoadFails, ConversionFails, StagingFails, memory, store,
         tallies
  <2>2. acquisition'[1] = acquisition[1]
      BY <2>1 DEF AcquisitionEnds
  <2>3. SelectionInv'
      BY <1>2, <2>1, AnswerQueues, SelectionMoves
  <2>4. CandidateInv'
      BY <1>2, <2>1, <2>2, AnswerQueues, RefreshMoves
  <2> QED BY <2>3, <2>4
<1>3. CASE CommitRuns
  <2>1. SelectionInv'
      BY <1>3, CommitQueues, CommitMoves, SelectionMoves
  <2>2. CandidateInv'
      BY <1>3, CommitQueues, CommitMoves, RefreshMoves
  <2> QED BY <2>1, <2>2
<1>4. CASE LibraryRuns
  <2>1. \/ UNCHANGED <<memory, shown>>
        \/ /\ \E binding : SetActive(binding) /\ selection' = selection + 1
           /\ shown'.by = Head(libraryJobs).by
    <3>1. CASE BeginLibraryJob \/ ReplaceLibrary \/ LibraryWriteFails
        BY <3>1 DEF BeginLibraryJob, ReplaceLibrary, LibraryWriteFails
    <3>2. CASE FinishLibraryJob
      <4>1. \/ UNCHANGED <<memory, shown>>
            \/ \E m, content, at : ActivateLocal(m, content, Head(libraryJobs).by, at)
          BY <3>2 DEF FinishLibraryJob
      <4>2. ASSUME NEW m, NEW content, NEW at, ActivateLocal(m, content, Head(libraryJobs).by, at)
            PROVE  /\ \E binding : SetActive(binding) /\ selection' = selection + 1
                   /\ shown'.by = Head(libraryJobs).by
        <5> DEFINE binding == Binding(ManifestOf(m, "local", "standalone", content), FALSE, TRUE)
        <5>1. SetActive(binding) /\ selection' = selection + 1 /\ Shows(Head(libraryJobs).by, at)
            BY <4>2 DEF ActivateLocal
        <5> HIDE DEF binding
        <5>2. shown'.by = Head(libraryJobs).by
            BY <5>1 DEF Shows
        <5> QED BY <5>1, <5>2
      <4> QED BY <4>1, <4>2
    <3> QED BY <1>4, <3>1, <3>2 DEF LibraryRuns
  <2>2. libraryJobs # <<>> /\ Head(libraryJobs) \in JobsOf(libraryJobs)
      BY <1>4, LibraryQueues, LibraryTask
  <2>3. Head(libraryJobs).by <= requests
      BY <2>2 DEF SelectionInv, ContextTypes, TallyTypes
  <2>4. \/ acquisition' = acquisition /\ staged' = staged
        \/ acquisition'[1] = acquisition[1] + 1 /\ staged' = NoBinding
      BY <2>1, SetActiveMoves DEF memory
  <2>5. SelectionInv'
      BY <1>4, <2>1, <2>3, LibraryQueues, SelectionMoves DEF memory
  <2>6. CandidateInv'
      BY <1>4, <2>4, LibraryQueues, RefreshMoves
  <2> QED BY <2>5, <2>6
<1>5. CASE CompanionDies \/ CompanionStarts
  <2>1. /\ loads' = {} /\ commits' = <<>> /\ libraryJobs' = <<>>
        /\ requests' = requests /\ shown'.by = 0 /\ staged' \in {NoBinding, staged}
    <3>1. CASE CompanionDies
        BY <3>1 DEF CompanionDies, Shows, tallies
    <3>2. CASE CompanionStarts
      <4>1. \E at : Shows(0, at)
          BY <3>2 DEF CompanionStarts
      <4>2. shown'.by = 0
          BY <4>1 DEF Shows
      <4> QED BY <3>2, <4>2 DEF CompanionStarts, HeadInv, tallies
    <3> QED BY <1>5, <3>1, <3>2
  <2>2. JobsOf(<<>>) = {}
      BY EmptyQueues
  <2>3. Selections' = {} /\ Refreshes' = {}
      BY <2>1, <2>2 DEF Selections, Refreshes
  <2>4. requests \in Nat
      BY DEF ContextTypes, TallyTypes
  <2>5. SelectionInv'
      BY <2>1, <2>2, <2>3, <2>4 DEF SelectionInv
  <2>6. CandidateInv'
      BY <2>1, <2>3 DEF CandidateInv
  <2> QED BY <2>5, <2>6
<1> QED BY <1>1, <1>2, <1>3, <1>4, <1>5, RequestPending DEF ContextNext

-----------------------------------------------------------------------------
(* The match context: decisions *)

\* A decision on its way either was made on the binding that is active, or is out of date.
DecisionInv ==
    \A job \in JobsOf(commits) : job.kind \in {"overlay", "confirm"} =>
        /\ job.rev <= bindingRev
        /\ job.rev = bindingRev => job.seen = activeBinding

BindingStays == activeBinding' = activeBinding /\ bindingRev' = bindingRev

LEMMA RequestMoves ==
    ASSUME ContextTypes, Request
    PROVE  /\ commitStep # "down" /\ requests' = requests + 1 /\ staged' \in {NoBinding, staged}
           /\ shown' = shown \/ shown'.by \in {0, requests + 1}
           /\ BindingStays \/ bindingRev' = bindingRev + 1
<1> DEFINE Moved == /\ commitStep # "down" /\ requests' = requests + 1 /\ staged' \in {NoBinding, staged}
                    /\ shown' = shown \/ shown'.by \in {0, requests + 1}
                    /\ BindingStays \/ bindingRev' = bindingRev + 1
<1>1. ASSUME NEW m, StageOnlineMatch(m) \/ SelectOverLocal(m) PROVE Moved
    BY <1>1 DEF StageOnlineMatch, SelectOverLocal, Asked, BindingStays
<1>2. ASSUME NEW m, SelectMatch(m) PROVE Moved
  <2>1. \/ SetActive(NoBinding) /\ Shows(0, 0)
        \/ UNCHANGED <<activeBinding, bindingRev, staged, shown>>
      BY <1>2 DEF SelectMatch
  <2> QED BY <1>2, <2>1, SetActiveMoves DEF SelectMatch, Asked, Shows, BindingStays
<1>3. ASSUME ActivatePending \/ SaveBpOverlay PROVE Moved
    BY <1>3 DEF ActivatePending, SaveBpOverlay, Asked, BindingStays
<1>4. ASSUME NEW kind, NEW m, LibraryJob(kind, m) PROVE Moved
    BY <1>4 DEF LibraryJob, Asked, BindingStays, memory
<1>5. ASSUME NEW m, ActivateFixture(m) PROVE Moved
  <2> DEFINE fixture == Binding(ManifestOf(m, "fixture", "bound-overlay", requests + 1), FALSE, TRUE)
  <2>1. SetActive(fixture) /\ Shows(requests + 1, 0) /\ Asked("rehearsal")
      BY <1>5 DEF ActivateFixture
  <2> HIDE DEF fixture
  <2> QED BY <2>1, SetActiveMoves DEF Asked, Shows
<1>6. ASSUME ClearActive PROVE Moved
    BY <1>6 DEF ClearActive, Asked, Shows, BindingStays
<1> QED BY <1>1, <1>2, <1>3, <1>4, <1>5, <1>6 DEF Request, CreateLocalMatch, SelectLocalMatch,
   SaveFirstBp, SaveLocalMatch, SaveEvent

LEMMA BindingMoves ==
    ASSUME ContextTypes, HeadInv, ContextNext, ~CompanionDies
    PROVE  BindingStays \/ bindingRev' = bindingRev + 1
<1>1. CASE Answer
    BY <1>1 DEF Answer, LoadAnswers, LoadFails, ConversionFails, memory, BindingStays
<1>2. CASE CommitRuns
  <2>1. CASE BeginSave \/ ReplaceLkg \/ LkgWriteFails
      BY <2>1 DEF BeginSave, ReplaceLkg, LkgWriteFails, memory, BindingStays
  <2>2. CASE FinishSave
      BY <2>2 DEF FinishSave, BindingStays
  <2>3. CASE FallBackToMemory \/ FallBackToFile
    <3>1. UNCHANGED memory \/ \E binding : SetActive(binding)
        BY <2>3 DEF FallBackToMemory, FallBackToFile, memory
    <3> QED BY <3>1, SetActiveMoves DEF memory, BindingStays
  <2>4. CASE StageCandidate \/ MarkStale
      BY <2>4 DEF StageCandidate, MarkStale, BindingStays
  <2> QED BY <1>2, <2>1, <2>2, <2>3, <2>4 DEF CommitRuns
<1>3. CASE LibraryRuns
  <2>1. UNCHANGED memory \/ \E binding : SetActive(binding)
      BY <1>3 DEF LibraryRuns, BeginLibraryJob, ReplaceLibrary, LibraryWriteFails, FinishLibraryJob,
         ActivateLocal, memory
  <2> QED BY <2>1, SetActiveMoves DEF memory, BindingStays
<1>4. CASE CompanionStarts
    BY <1>4 DEF CompanionStarts
<1> QED BY <1>1, <1>2, <1>3, <1>4, RequestMoves DEF ContextNext

LEMMA RequestJobs ==
    ASSUME ContextTypes, Request
    PROVE  \/ \A job \in JobsOf(commits') : job \in JobsOf(commits)
           \/ /\ BindingStays
              /\ \A job \in JobsOf(commits') :
                    \/ job \in JobsOf(commits)
                    \/ job.rev = bindingRev /\ job.seen = activeBinding
<1>1. CASE commits' = commits
    BY <1>1
<1>2. CASE ActivatePending
  <2> DEFINE job == [kind |-> "confirm", gen |-> selection + 1, cand |-> acquisition[1],
               rev |-> bindingRev, candidate |-> staged.by, of |-> staged.of,
               seen |-> activeBinding, by |-> requests + 1]
  <2>1. commits' = Append(commits, job) /\ loads' = loads /\ BindingStays
      BY <1>2 DEF ActivatePending, Commit, BindingStays
  <2>2. job.rev = bindingRev /\ job.seen = activeBinding
      OBVIOUS
  <2> HIDE DEF job
  <2> QED BY <2>1, <2>2, OneMoreCommit
<1>3. CASE SaveBpOverlay
  <2> DEFINE of == ManifestOf(MatchOf(activeBinding), "local",
                           IF IsStandalone(activeBinding) THEN "standalone" ELSE "bound-overlay",
                           requests + 1)
             job == [kind |-> "overlay", gen |-> selection + 1, cand |-> 0, rev |-> bindingRev,
                     candidate |-> 0, of |-> of, seen |-> activeBinding, by |-> requests + 1]
  <2>1. commits' = Append(commits, job) /\ loads' = loads /\ BindingStays
      BY <1>3 DEF SaveBpOverlay, Commit, BindingStays
  <2>2. job.rev = bindingRev /\ job.seen = activeBinding
      OBVIOUS
  <2> HIDE DEF job
  <2> QED BY <2>1, <2>2, OneMoreCommit
<1>4. Request => commits' = commits \/ ActivatePending \/ SaveBpOverlay
    BY DEF Request, StageOnlineMatch, SelectOverLocal, SelectMatch, CreateLocalMatch,
       SelectLocalMatch, SaveFirstBp, ActivateFixture, SaveLocalMatch, SaveEvent, ClearActive,
       LibraryJob, controller
<1> QED BY <1>1, <1>2, <1>3, <1>4

LEMMA DecisionShapes ==
    ASSUME ContextTypes, NEW job \in JobsOf(commits), job.kind \in {"overlay", "confirm"}
    PROVE  job.rev \in Nat /\ job \in Selections
<1>1. job \in ContextJobs
    BY QueueFacts DEF ContextTypes, ControllerTypes
<1>2. job \in SaveJobs
    BY <1>1, JobShapes DEF Saves
<1> QED BY <1>2 DEF SaveJobs, Selections, SelectionKinds

LEMMA DecisionKept ==
    ASSUME ContextTypes, HeadInv, DecisionInv, [ContextNext]_contextVars
    PROVE  DecisionInv'
<1>1. bindingRev \in Nat
    BY DEF ContextTypes, MemoryTypes
<1>2. CASE UNCHANGED contextVars
  <2>1. UNCHANGED <<commits, bindingRev, activeBinding>>
      BY <1>2 DEF contextVars, controller, memory
  <2> QED BY <2>1 DEF DecisionInv
<1>3. CASE CompanionDies
  <2>1. JobsOf(commits') = {}
      BY <1>3, EmptyQueues DEF CompanionDies
  <2> QED BY <2>1 DEF DecisionInv
<1>4. ASSUME \/ \A job \in JobsOf(commits') :
                   job \in JobsOf(commits) \/ job.kind \notin {"overlay", "confirm"}
             \/ /\ BindingStays
                /\ \A job \in JobsOf(commits') :
                      \/ job \in JobsOf(commits)
                      \/ job.rev = bindingRev /\ job.seen = activeBinding,
             BindingStays \/ bindingRev' = bindingRev + 1
      PROVE  DecisionInv'
  <2> SUFFICES ASSUME NEW job \in JobsOf(commits'), job.kind \in {"overlay", "confirm"}
               PROVE  job.rev <= bindingRev' /\ (job.rev = bindingRev' => job.seen = activeBinding')
      BY DEF DecisionInv
  <2>1. CASE job \in JobsOf(commits)
    <3>1. job.rev \in Nat /\ job.rev <= bindingRev /\ (job.rev = bindingRev => job.seen = activeBinding)
        BY <2>1, DecisionShapes DEF DecisionInv
    <3> QED BY <1>1, <1>4, <3>1 DEF BindingStays
  <2>2. CASE job \notin JobsOf(commits)
      BY <1>1, <1>4, <2>2 DEF BindingStays
  <2> QED BY <2>1, <2>2
<1>5. CASE ContextNext /\ ~CompanionDies
  <2>1. BindingStays \/ bindingRev' = bindingRev + 1
      BY <1>5, BindingMoves
  <2>2. CASE Request
      BY <1>4, <2>1, <2>2, RequestJobs
  <2>3. CASE Answer
      BY <1>4, <2>1, <2>3, AnswerQueues
  <2>4. CASE CommitRuns
    <3>1. \A job \in JobsOf(commits') : job \in JobsOf(commits) \/ job.kind \notin {"overlay", "confirm"}
        BY <2>4, CommitQueues
    <3> QED BY <1>4, <2>1, <3>1
  <2>5. CASE LibraryRuns
      BY <1>4, <2>1, <2>5, LibraryQueues
  <2>6. CASE CompanionStarts
      BY <1>4, <2>1, <2>6 DEF CompanionStarts
  <2> QED BY <1>5, <2>2, <2>3, <2>4, <2>5, <2>6 DEF ContextNext
<1> QED BY <1>2, <1>3, <1>5

LEMMA LibraryShows ==
    ASSUME ContextTypes, HeadInv, LibraryRuns
    PROVE  /\ staged' \in {NoBinding, staged}
           /\ \/ UNCHANGED shown
              \/ shown'.by = Head(libraryJobs).by /\ libraryJobs' # libraryJobs
<1>1. CASE BeginLibraryJob \/ ReplaceLibrary \/ LibraryWriteFails
    BY <1>1 DEF BeginLibraryJob, ReplaceLibrary, LibraryWriteFails, memory
<1>2. CASE FinishLibraryJob
  <2>1. libraryJobs' # libraryJobs
      BY <1>2, LibraryTask DEF FinishLibraryJob, HeadInv
  <2>2. \/ UNCHANGED <<memory, shown>>
        \/ \E m, content, at : ActivateLocal(m, content, Head(libraryJobs).by, at)
      BY <1>2 DEF FinishLibraryJob
  <2>3. ASSUME NEW m, NEW content, NEW at, ActivateLocal(m, content, Head(libraryJobs).by, at)
        PROVE  staged' \in {NoBinding, staged} /\ shown'.by = Head(libraryJobs).by
    <3> DEFINE binding == Binding(ManifestOf(m, "local", "standalone", content), FALSE, TRUE)
    <3>1. SetActive(binding) /\ Shows(Head(libraryJobs).by, at)
        BY <2>3 DEF ActivateLocal
    <3> HIDE DEF binding
    <3>2. staged' \in {NoBinding, staged}
        BY <3>1, SetActiveMoves
    <3>3. shown'.by = Head(libraryJobs).by
        BY <3>1 DEF Shows
    <3> QED BY <3>2, <3>3
  <2> QED BY <2>1, <2>2, <2>3 DEF memory
<1> QED BY <1>1, <1>2 DEF LibraryRuns

LEMMA AnswerMoves ==
    ASSUME Answer
    PROVE  UNCHANGED <<shown, staged, selection, requests, libraryJobs>>
BY DEF Answer, LoadAnswers, LoadFails, ConversionFails, StagingFails, memory, store, tallies

LEMMA LifeMoves ==
    ASSUME CompanionDies \/ CompanionStarts
    PROVE  shown'.by = 0 /\ staged' \in {NoBinding, staged}
<1>1. \E at : Shows(0, at)
    BY DEF CompanionStarts, CompanionDies
<1>2. shown'.by = 0
    BY <1>1 DEF Shows
<1>3. staged' \in {NoBinding, staged}
    BY DEF CompanionStarts, CompanionDies
<1> QED BY <1>2, <1>3

LEMMA NewestStep ==
    ASSUME ContextTypes, HeadInv, SelectionInv, CandidateInv, ContextNext
    PROVE  /\ shown'.by \notin {0, shown.by} /\ libraryJobs' = libraryJobs => shown'.by > shown.by
           /\ staged # NoBinding /\ staged' # NoBinding => staged'.by >= staged.by
<1>1. /\ shown.by \in Nat /\ requests \in Nat /\ shown.by <= requests
      /\ staged # NoBinding => staged.by \in Nat
    BY DEF ContextTypes, TallyTypes, MemoryTypes, Candidates, SelectionInv
<1>2. CASE Request
    BY <1>1, <1>2, RequestMoves
<1>3. CASE Answer
    BY <1>1, <1>3, AnswerMoves
<1>4. CASE CommitRuns
  <2>1. \/ shown' = shown
        \/ \E s \in Selections : s.gen = selection /\ s.by = shown'.by
      BY <1>4, CommitMoves
  <2>2. \A s \in Selections : s.by \in Nat /\ (s.gen = selection => s.by >= shown.by)
      BY PendingShapes DEF SelectionInv
  <2>3. \/ staged' \in {NoBinding, staged}
        \/ \E r \in Refreshes : r.gen = acquisition[1] /\ staged'.by = r.by
      BY <1>4, CommitMoves
  <2>4. \A r \in Refreshes : r.gen = acquisition[1] /\ staged # NoBinding => r.by >= staged.by
      BY DEF CandidateInv
  <2>5. shown'.by \notin {0, shown.by} => shown'.by > shown.by
      BY <1>1, <2>1, <2>2
  <2>6. staged # NoBinding /\ staged' # NoBinding => staged'.by >= staged.by
      BY <1>1, <2>3, <2>4
  <2> QED BY <2>5, <2>6
<1>5. CASE LibraryRuns
    BY <1>1, <1>5, LibraryShows
<1>6. CASE CompanionDies \/ CompanionStarts
    BY <1>1, <1>6, LifeMoves
<1> QED BY <1>2, <1>3, <1>4, <1>5, <1>6 DEF ContextNext

LEMMA DecidedStep ==
    ASSUME ContextTypes, HeadInv, SelectionInv, DecisionInv, ContextNext,
           commitStep = "written", Head(commits).kind \in {"overlay", "confirm"},
           shown' # shown, shown'.by = Head(commits).by
    PROVE  activeBinding = Head(commits).seen
<1>1. commits # <<>>
    BY DEF HeadInv, SaveSteps
<1>2. Head(commits) \in JobsOf(commits)
    BY <1>1, CommittedJob
<1>3. Head(commits) \in Selections
    BY <1>2, DecisionShapes
<1>4. Head(commits).by \in 1..requests /\ requests \in Nat
    BY <1>3 DEF SelectionInv, ContextTypes, TallyTypes
<1>5. ~Request
    BY <1>4, RequestMoves
<1>6. ~Answer
    BY AnswerMoves
<1>7. ~CompanionDies /\ ~CompanionStarts
    BY <1>4, LifeMoves
<1>8. ~LibraryRuns
  <2> SUFFICES ASSUME LibraryRuns PROVE FALSE
      OBVIOUS
  <2>1. Head(libraryJobs) \in JobsOf(libraryJobs) /\ shown'.by = Head(libraryJobs).by
      BY LibraryQueues, LibraryTask, LibraryShows
  <2> QED BY <1>3, <2>1 DEF SelectionInv
<1>9. FinishSave
    BY <1>5, <1>6, <1>7, <1>8 DEF ContextNext, CommitRuns, BeginSave, ReplaceLkg, LkgWriteFails,
       FallBackToMemory, FallBackToFile, StageCandidate, MarkStale, Runs
<1>10. StillCurrent(Head(commits))
    BY <1>9 DEF FinishSave
<1>11. Head(commits).rev = bindingRev
    BY <1>10 DEF StillCurrent
<1> QED BY <1>2, <1>11 DEF DecisionInv

-----------------------------------------------------------------------------
(* The match context: whose the acquisition is *)

OwnerKinds == {"stage", "restage", "stale"}
OwnedBy(gen) == \/ \E load \in loads : load.kind # "select" /\ load.gen = gen
                \/ \E job \in JobsOf(commits) : job.kind \in OwnerKinds /\ job.gen = gen

LEMMA OwnedIsOwned == AcquisitionIsOwned <=> (acquisition[2] # 0 => OwnedBy(acquisition[2]))
BY DEF AcquisitionIsOwned, OwnedBy, OwnerKinds, JobsOf

LEMMA RequestOwned ==
    ASSUME ContextTypes, Request, AcquisitionIsOwned
    PROVE  AcquisitionIsOwned'
<1>1. loads \subseteq loads' /\ JobsOf(commits) \subseteq JobsOf(commits')
  <2>1. commits \in Seq(ContextJobs)
      BY DEF ContextTypes, ControllerTypes
  <2>2. commits' = commits \/ \E job : commits' = Append(commits, job)
      BY DEF Request, StageOnlineMatch, SelectOverLocal, SelectMatch, CreateLocalMatch,
         SelectLocalMatch, SaveFirstBp, ActivateFixture, ActivatePending, SaveBpOverlay,
         SaveLocalMatch, SaveEvent, ClearActive, LibraryJob, controller, Commit
  <2>3. JobsOf(commits) \subseteq JobsOf(commits')
    <3>1. \A job : JobsOf(commits) \subseteq JobsOf(Append(commits, job))
        BY <2>1, QueueFacts
    <3> QED BY <2>2, <3>1
  <2>4. loads \subseteq loads'
      BY DEF Request, StageOnlineMatch, SelectOverLocal, SelectMatch, CreateLocalMatch,
         SelectLocalMatch, SaveFirstBp, ActivateFixture, ActivatePending, SaveBpOverlay,
         SaveLocalMatch, SaveEvent, ClearActive, LibraryJob, controller
  <2> QED BY <2>3, <2>4
<1>2. \A gen : OwnedBy(gen) => OwnedBy(gen)'
    BY <1>1 DEF OwnedBy
<1>3. \/ acquisition' = acquisition
      \/ acquisition'[2] = 0
      \/ \E load \in loads' : load.kind # "select" /\ load.gen = acquisition'[2]
  <2>1. ASSUME NEW m, StageOnlineMatch(m) \/ SelectOverLocal(m) PROVE <1>3!:
    <3> DEFINE kind == IF StageOnlineMatch(m) THEN "stage" ELSE "restage"
               load == [kind |-> kind, match |-> m, from |-> "online", gen |-> acquisition[1] + 1,
                        by |-> requests + 1]
    <3>1. loads' = loads \cup {load} /\ acquisition'[2] = acquisition[1] + 1
        BY <2>1 DEF StageOnlineMatch, SelectOverLocal
    <3>2. load.kind # "select" /\ load.gen = acquisition[1] + 1
        OBVIOUS
    <3> HIDE DEF load
    <3> QED BY <3>1, <3>2
  <2>2. ASSUME NEW m, SelectMatch(m) PROVE <1>3!:
      BY <2>2 DEF SelectMatch, SetActive
  <2>3. ASSUME NEW m, ActivateFixture(m) PROVE <1>3!:
    <3> DEFINE fixture == Binding(ManifestOf(m, "fixture", "bound-overlay", requests + 1), FALSE, TRUE)
    <3>1. SetActive(fixture)
        BY <2>3 DEF ActivateFixture
    <3> HIDE DEF fixture
    <3> QED BY <3>1 DEF SetActive
  <2>4. ASSUME NEW kind, NEW m, LibraryJob(kind, m) PROVE <1>3!:
      BY <2>4 DEF LibraryJob, memory
  <2>5. ASSUME ActivatePending \/ SaveBpOverlay PROVE <1>3!:
      BY <2>5 DEF ActivatePending, SaveBpOverlay
  <2>6. ASSUME ClearActive PROVE <1>3!:
      BY <2>6 DEF ClearActive
  <2> QED BY <2>1, <2>2, <2>3, <2>4, <2>5, <2>6 DEF Request, CreateLocalMatch, SelectLocalMatch,
     SaveFirstBp, SaveLocalMatch, SaveEvent
<1>4. acquisition[2] # 0 => OwnedBy(acquisition[2])
    BY OwnedIsOwned
<1>5. acquisition'[2] # 0 => OwnedBy(acquisition[2])'
    BY <1>2, <1>3, <1>4 DEF OwnedBy
<1>6. AcquisitionIsOwned' <=> (acquisition'[2] # 0 => OwnedBy(acquisition[2])')
    BY DEF AcquisitionIsOwned, OwnedBy, OwnerKinds, JobsOf
<1> QED BY <1>5, <1>6

LEMMA AnswerOwned ==
    ASSUME ContextTypes, Answer, AcquisitionIsOwned
    PROVE  AcquisitionIsOwned'
<1>1. PICK load \in loads : \/ \E r \in ManifestRevisions : LoadAnswers(load, r)
                            \/ LoadFails(load)
                            \/ ConversionFails(load)
    BY DEF Answer
<1>2. /\ load.kind \in {"select", "stage", "restage"} /\ commits \in Seq(ContextJobs)
      /\ acquisition \in Nat \X Nat
    BY LoadShape DEF ContextTypes, ControllerTypes, MemoryTypes
<1>3. loads' = loads \ {load}
    BY <1>1 DEF LoadAnswers, LoadFails, ConversionFails
<1>4. \A job : JobsOf(Append(commits, job)) = JobsOf(commits) \cup {job}
    BY <1>2, QueueFacts
<1>5. /\ JobsOf(commits) \subseteq JobsOf(commits')
      /\ \/ AcquisitionEnds(load.gen)
         \/ /\ acquisition' = acquisition
            /\ \/ load.kind = "select"
               \/ \E job \in JobsOf(commits') : job.kind \in OwnerKinds /\ job.gen = load.gen
  <2>1. ASSUME NEW job, Commit(job), job.kind \in OwnerKinds, job.gen = load.gen, acquisition' = acquisition
        PROVE <1>5!:
      BY <1>4, <2>1 DEF Commit
  <2>2. ASSUME StagingFails(load) PROVE <1>5!:
    <3> DEFINE job == [kind |-> "stale", gen |-> load.gen, match |-> load.match]
    <3>1. job.kind \in OwnerKinds /\ job.gen = load.gen
        BY DEF OwnerKinds
    <3>2. (Commit(job) /\ acquisition' = acquisition) \/ (commits' = commits /\ AcquisitionEnds(load.gen))
        BY <2>2 DEF StagingFails
    <3> HIDE DEF job
    <3> QED BY <2>1, <3>1, <3>2
  <2>3. ASSUME NEW job, Commit(job), acquisition' = acquisition, load.kind = "select" PROVE <1>5!:
      BY <1>4, <2>3 DEF Commit
  <2>4. ASSUME NEW r, LoadAnswers(load, r) PROVE <1>5!:
    <3>1. CASE load.kind = "select"
      <4>1. acquisition' = acquisition /\ \E job : Commit(job)
          BY <2>4, <3>1 DEF LoadAnswers
      <4> QED BY <2>3, <3>1, <4>1
    <3>2. CASE load.kind # "select" /\ NewestRefresh(load.gen)
      <4> DEFINE job == [kind |-> load.kind, gen |-> load.gen, match |-> load.match,
                         of |-> ManifestOf(load.match, "online", "bound-overlay", r), by |-> load.by]
      <4>1. Commit(job) /\ acquisition' = acquisition
          BY <2>4, <3>2 DEF LoadAnswers
      <4>2. job.kind \in OwnerKinds /\ job.gen = load.gen
          BY <1>2, <3>2 DEF OwnerKinds
      <4> HIDE DEF job
      <4> QED BY <2>1, <4>1, <4>2
    <3>3. CASE load.kind # "select" /\ ~NewestRefresh(load.gen)
        BY <2>2, <2>4, <3>3 DEF LoadAnswers
    <3> QED BY <3>1, <3>2, <3>3
  <2>5. ASSUME LoadFails(load) PROVE <1>5!:
    <3>1. CASE load.kind = "select"
      <4>1. acquisition' = acquisition /\ \E job : Commit(job)
          BY <2>5, <3>1 DEF LoadFails
      <4> QED BY <2>3, <3>1, <4>1
    <3>2. CASE load.kind # "select"
        BY <2>2, <2>5, <3>2 DEF LoadFails
    <3> QED BY <3>1, <3>2
  <2>6. ASSUME ConversionFails(load) PROVE <1>5!:
      BY <2>6 DEF ConversionFails, memory
  <2> QED BY <1>1, <2>4, <2>5, <2>6
<1>6. ASSUME acquisition'[2] # 0 PROVE OwnedBy(acquisition[2])'
  <2>1. acquisition' = acquisition /\ (load.gen = acquisition[2] => \/ load.kind = "select"
                                     \/ \E job \in JobsOf(commits') : job.kind \in OwnerKinds /\ job.gen = load.gen)
      BY <1>2, <1>5, <1>6 DEF AcquisitionEnds
  <2>2. OwnedBy(acquisition[2])
      BY <1>6, <2>1, OwnedIsOwned
  <2> QED BY <1>3, <1>5, <2>1, <2>2 DEF OwnedBy
<1>7. AcquisitionIsOwned' <=> (acquisition'[2] # 0 => OwnedBy(acquisition[2])')
    BY DEF AcquisitionIsOwned, OwnedBy, OwnerKinds, JobsOf
<1> QED BY <1>6, <1>7

LEMMA CommitOwned ==
    ASSUME ContextTypes, HeadInv, CommitRuns, AcquisitionIsOwned
    PROVE  AcquisitionIsOwned'
<1> DEFINE head == Head(commits)
           stale == [kind |-> "stale", gen |-> head.gen, match |-> head.match]
<1>1. /\ commits # <<>> /\ JobsOf(commits) = {head} \cup JobsOf(Tail(commits)) /\ loads' = loads
      /\ Tail(commits) \in Seq(ContextJobs) /\ acquisition \in Nat \X Nat
    BY CommitQueues, CommittedJob DEF ContextTypes, MemoryTypes
<1>2. \A job : JobsOf(Append(Tail(commits), job)) = JobsOf(Tail(commits)) \cup {job}
    BY <1>1, QueueFacts
<1>3. stale.kind = "stale" /\ stale.gen = head.gen
    OBVIOUS
<1>4. /\ JobsOf(Tail(commits)) \subseteq JobsOf(commits')
      /\ \/ acquisition'[2] = 0
         \/ AcquisitionEnds(head.gen)
         \/ /\ acquisition' = acquisition
            /\ head.kind \in OwnerKinds => \E job \in JobsOf(commits') : job.kind \in OwnerKinds /\ job.gen = head.gen
  <2>1. ASSUME commits' = commits, acquisition' = acquisition PROVE <1>4!:
      BY <1>1, <2>1
  <2>2. ASSUME commits' = Tail(commits), acquisition' = acquisition, head.kind \notin OwnerKinds PROVE <1>4!:
      BY <1>1, <2>2
  <2>3. CASE BeginSave \/ ReplaceLkg \/ LkgWriteFails
    <3>1. head.kind \notin OwnerKinds
        BY <2>3 DEF BeginSave, ReplaceLkg, LkgWriteFails, Runs, Saves, OwnerKinds
    <3> HIDE DEF head, stale
    <3>2. acquisition' = acquisition /\ commits' \in {commits, Tail(commits)}
        BY <2>3 DEF BeginSave, ReplaceLkg, LkgWriteFails, memory, Done
    <3> QED BY <2>1, <2>2, <3>1, <3>2
  <2>4. CASE FinishSave
    <3>1. head.kind \notin OwnerKinds
        BY <2>4 DEF FinishSave, HeadInv, SaveSteps, Saves, OwnerKinds
    <3> HIDE DEF head, stale
    <3>2. commits' = Tail(commits)
        BY <2>4 DEF FinishSave, Done
    <3>3. acquisition' = acquisition \/ acquisition' = <<acquisition[1] + 1, 0>>
        BY <2>4 DEF FinishSave
    <3> QED BY <1>1, <3>1, <3>2, <3>3
  <2>5. CASE FallBackToMemory \/ FallBackToFile
    <3>1. head.kind \notin OwnerKinds
        BY <2>5 DEF FallBackToMemory, FallBackToFile, Runs, OwnerKinds
    <3> HIDE DEF head, stale
    <3>2. commits' \in {commits, Tail(commits)} /\ (UNCHANGED memory \/ \E binding : SetActive(binding))
        BY <2>5 DEF FallBackToMemory, FallBackToFile, memory, Done
    <3>3. acquisition' = acquisition \/ acquisition'[2] = 0
        BY <3>2 DEF SetActive, memory
    <3> QED BY <1>1, <3>1, <3>2, <3>3
  <2>6. CASE StageCandidate
    <3>1. \/ commits' = Append(Tail(commits), stale) /\ acquisition' = acquisition
          \/ commits' = Tail(commits) /\ AcquisitionEnds(head.gen)
        BY <2>6 DEF StageCandidate
    <3> HIDE DEF head, stale
    <3>2. stale.kind \in OwnerKinds
        BY <1>3 DEF OwnerKinds
    <3> QED BY <1>1, <1>2, <1>3, <3>1, <3>2
  <2>7. CASE MarkStale
    <3>1. commits' = Tail(commits) /\ AcquisitionEnds(head.gen)
        BY <2>7 DEF MarkStale, Done
    <3> QED BY <3>1
  <2> QED BY <2>3, <2>4, <2>5, <2>6, <2>7 DEF CommitRuns
<1> HIDE DEF head, stale
<1>5. ASSUME acquisition'[2] # 0 PROVE OwnedBy(acquisition[2])'
  <2>1. acquisition' = acquisition /\ (head.gen = acquisition[2] /\ head.kind \in OwnerKinds =>
            \E job \in JobsOf(commits') : job.kind \in OwnerKinds /\ job.gen = head.gen)
      BY <1>1, <1>4, <1>5 DEF AcquisitionEnds
  <2>2. OwnedBy(acquisition[2])
      BY <1>5, <2>1, OwnedIsOwned
  <2> QED BY <1>1, <1>4, <2>1, <2>2 DEF OwnedBy
<1>6. AcquisitionIsOwned' <=> (acquisition'[2] # 0 => OwnedBy(acquisition[2])')
    BY DEF AcquisitionIsOwned, OwnedBy, OwnerKinds, JobsOf
<1> QED BY <1>5, <1>6

LEMMA OwnedKept ==
    ASSUME ContextTypes, HeadInv, AcquisitionIsOwned, [ContextNext]_contextVars
    PROVE  AcquisitionIsOwned'
<1>1. ASSUME UNCHANGED <<loads, commits>>, acquisition' = acquisition \/ acquisition'[2] = 0
      PROVE  AcquisitionIsOwned'
    BY <1>1 DEF AcquisitionIsOwned
<1>2. CASE UNCHANGED contextVars
    BY <1>1, <1>2 DEF contextVars, memory, controller
<1>3. CASE LibraryRuns
  <2>1. UNCHANGED memory \/ \E binding : SetActive(binding)
      BY <1>3 DEF LibraryRuns, BeginLibraryJob, ReplaceLibrary, LibraryWriteFails, FinishLibraryJob,
         ActivateLocal, memory
  <2>2. acquisition' = acquisition \/ acquisition'[2] = 0
      BY <2>1 DEF SetActive, memory
  <2> QED BY <1>1, <1>3, <2>2, LibraryQueues
<1>4. CASE CompanionDies
    BY <1>4 DEF CompanionDies, AcquisitionIsOwned
<1>5. CASE CompanionStarts
    BY <1>1, <1>5 DEF CompanionStarts
<1> QED BY <1>2, <1>3, <1>4, <1>5, RequestOwned, AnswerOwned, CommitOwned DEF ContextNext

-----------------------------------------------------------------------------
(* The match context: the two files *)

\* The stamps of the two files are of the past and differ, and the file that a written
\* save left is the one it finishes with.
StampInv ==
    /\ lkg # NoBinding => lkg.at <= clock
    /\ libraryFile.at <= clock /\ shown.at <= clock
    /\ stamp.lkg <= clock /\ stamp.library <= clock
    /\ commitStep \in SaveSteps => stamp.lkg # 0
    /\ commitStep = "writing" /\ lkg # NoBinding => lkg.at < stamp.lkg
    /\ commitStep = "written" => lkg = [of |-> Head(commits).of, at |-> stamp.lkg]
    /\ libraryStep = "writing" => libraryFile.at < stamp.library
    /\ stamp.lkg # 0 => stamp.lkg # stamp.library /\ stamp.lkg # libraryFile.at
    /\ lkg # NoBinding /\ lkg.at # 0 => lkg.at # stamp.library /\ lkg.at # libraryFile.at

\* A library with a match has selected one it has; its contents come from requests, but
\* for the one that a first start may have moved into it.
LibraryInv ==
    /\ libraryFile.selected # NoBinding => libraryFile.docs[libraryFile.selected] # 0
    /\ libraryFile.selected = NoBinding => \A m \in Matches : libraryFile.docs[m] = 0
    /\ \A m \in Matches : libraryFile.docs[m] <= requests \/ libraryFile.docs[m] = 1
    /\ \A m \in Matches : library.docs[m] <= requests \/ library.docs[m] = 1

\* Requests and answers leave the files and their stamps alone.
LEMMA QuietMoves ==
    ASSUME ContextTypes, HeadInv, Request \/ Answer
    PROVE  /\ UNCHANGED <<clock, stamp, lkg, library, libraryFile, commitStep, libraryStep>>
           /\ commitStep # "down" /\ requests' \in {requests, requests + 1}
           /\ shown' = shown \/ shown'.at = 0
           /\ commits # <<>> => Head(commits') = Head(commits)
           /\ JobsOf(commits) \subseteq JobsOf(commits')
<1>1. commits \in Seq(ContextJobs)
    BY DEF ContextTypes, ControllerTypes
<1>2. CASE Request
  <2>1. commits' = commits \/ \E job : commits' = Append(commits, job)
      BY <1>2 DEF Request, StageOnlineMatch, SelectOverLocal, SelectMatch, CreateLocalMatch,
         SelectLocalMatch, SaveFirstBp, ActivateFixture, ActivatePending, SaveBpOverlay,
         SaveLocalMatch, SaveEvent, ClearActive, LibraryJob, controller, Commit
  <2>2. UNCHANGED <<clock, stamp, lkg, library, libraryFile, commitStep, libraryStep>>
      BY <1>2 DEF Request, StageOnlineMatch, SelectOverLocal, SelectMatch, CreateLocalMatch,
         SelectLocalMatch, SaveFirstBp, ActivateFixture, ActivatePending, SaveBpOverlay,
         SaveLocalMatch, SaveEvent, ClearActive, LibraryJob, controller, store
  <2>3. shown' = shown \/ \E by : Shows(by, 0)
      BY <1>2 DEF Request, StageOnlineMatch, SelectOverLocal, SelectMatch, CreateLocalMatch,
         SelectLocalMatch, SaveFirstBp, ActivateFixture, ActivatePending, SaveBpOverlay,
         SaveLocalMatch, SaveEvent, ClearActive, LibraryJob
  <2>4. shown' = shown \/ shown'.at = 0
      BY <2>3 DEF Shows
  <2>5. commits # <<>> => Head(commits') = Head(commits)
      BY <1>1, <2>1, QueueFacts
  <2>6. JobsOf(commits) \subseteq JobsOf(commits')
    <3>1. \A job : JobsOf(commits) \subseteq JobsOf(Append(commits, job))
        BY <1>1, QueueFacts
    <3> QED BY <2>1, <3>1
  <2> QED BY <1>2, <2>2, <2>4, <2>5, <2>6, RequestMoves
<1>3. CASE Answer
  <2>1. commits' = commits \/ \E job : commits' = Append(commits, job)
    <3>1. PICK load \in loads : \/ \E r \in ManifestRevisions : LoadAnswers(load, r)
                                \/ LoadFails(load)
                                \/ ConversionFails(load)
        BY <1>3 DEF Answer
    <3>2. ASSUME NEW r, LoadAnswers(load, r) PROVE <2>1!:
      <4>1. CASE load.kind = "select"
          BY <3>2, <4>1 DEF LoadAnswers, Commit
      <4>2. CASE load.kind # "select" /\ NewestRefresh(load.gen)
          BY <3>2, <4>2 DEF LoadAnswers, Commit
      <4>3. CASE load.kind # "select" /\ ~NewestRefresh(load.gen)
          BY <3>2, <4>3 DEF LoadAnswers, StagingFails, Commit
      <4> QED BY <4>1, <4>2, <4>3
    <3> QED BY <3>1, <3>2 DEF LoadFails, ConversionFails, StagingFails, Commit
  <2>2. UNCHANGED <<clock, stamp, lkg, library, libraryFile, commitStep, libraryStep, shown, requests>>
      BY <1>3 DEF Answer, LoadAnswers, LoadFails, ConversionFails, store, tallies
  <2>3. commitStep # "down"
      BY <1>3 DEF Answer, HeadInv
  <2>4. commits # <<>> => Head(commits') = Head(commits)
      BY <1>1, <2>1, QueueFacts
  <2>5. JobsOf(commits) \subseteq JobsOf(commits')
    <3>1. \A job : JobsOf(commits) \subseteq JobsOf(Append(commits, job))
        BY <1>1, QueueFacts
    <3> QED BY <2>1, <3>1
  <2> QED BY <2>2, <2>3, <2>4, <2>5
<1> QED BY <1>2, <1>3

LEMMA LibraryAfterFacts ==
    ASSUME ContextTypes, NEW job \in LibraryTasks, NEW at \in Nat, job.by \in Nat \ {0},
           job.kind # "event" => job.match \in Matches, LibraryAccepts(job),
           library.selected # NoBinding => library.docs[library.selected] # 0,
           library.selected = NoBinding => \A m \in Matches : library.docs[m] = 0,
           NEW next, next = LibraryAfter(job, at)
    PROVE  /\ next.at \in {library.at, at} /\ \A m \in Matches : next.docs[m] \in {library.docs[m], job.by}
           /\ next.selected # NoBinding => next.docs[next.selected] # 0
           /\ next.selected = NoBinding => \A m \in Matches : next.docs[m] = 0
           /\ library.selected # NoBinding => next.selected # NoBinding
<1>1. /\ library.docs \in [Matches -> Nat] /\ library.selected \in Matches \cup {NoBinding}
      /\ library.at \in Nat /\ library.event \in Nat
      /\ library = [docs |-> library.docs, selected |-> library.selected, at |-> library.at,
                    event |-> library.event]
    BY DEF ContextTypes, LibraryTypes, Libraries, LibrariesOf
<1>2. job.kind \in LibraryKinds
    BY DEF LibraryTasks
<1>3. CASE job.kind \in {"create", "import"}
  <2>1. /\ next = [library EXCEPT !.docs[job.match] = job.by, !.selected = job.match, !.at = at]
        /\ job.match \in Matches
      BY <1>3 DEF LibraryAfter
  <2>2. /\ next.docs = [library.docs EXCEPT ![job.match] = job.by] /\ next.selected = job.match /\ next.at = at
      BY <1>1, <2>1
  <2> QED BY <1>1, <2>1, <2>2, ContextAssumption
<1>4. CASE job.kind = "pick"
  <2>1. next = [library EXCEPT !.selected = job.match, !.at = at] /\ job.match \in Matches
        /\ library.docs[job.match] # 0
      BY <1>4 DEF LibraryAfter, LibraryAccepts
  <2>2. next.docs = library.docs /\ next.selected = job.match /\ next.at = at
      BY <1>1, <2>1
  <2> QED BY <1>1, <2>1, <2>2, ContextAssumption
<1>5. CASE job.kind = "save"
  <2>1. next = [library EXCEPT !.docs[job.match] = job.by] /\ job.match \in Matches
        /\ library.docs[job.match] # 0
      BY <1>5 DEF LibraryAfter, LibraryAccepts
  <2>2. /\ next.docs = [library.docs EXCEPT ![job.match] = job.by] /\ next.selected = library.selected
        /\ next.at = library.at
      BY <1>1, <2>1
  <2> QED BY <1>1, <2>1, <2>2
<1>6. CASE job.kind = "event"
  <2>1. next = [library EXCEPT !.event = job.by]
      BY <1>6 DEF LibraryAfter
  <2>2. next.docs = library.docs /\ next.selected = library.selected /\ next.at = library.at
      BY <1>1, <2>1
  <2> QED BY <1>1, <2>2
<1> QED BY <1>2, <1>3, <1>4, <1>5, <1>6 DEF LibraryKinds

LocalOnly(manifest) == manifest.from = "local" /\ manifest.mode = "standalone"

\* The content of a standalone match that was saved as an overlay: nothing the library has
\* or will have.
IsOverlay(content) ==
    /\ content \in 2..requests /\ libraryFile.selected # NoBinding
    /\ \A m \in Matches : library.docs[m] # content /\ libraryFile.docs[m] # content
    /\ \A job \in JobsOf(libraryJobs) : job.by # content

\* A standalone match gets into the other file only from there, after the library took
\* the one an older version had left.
SavedInv ==
    /\ \A job \in JobsOf(commits) :
          job.kind \in Saves /\ LocalOnly(job.of) => IsOverlay(job.of.content)
    /\ lkg # NoBinding /\ lkg.at # 0 /\ LocalOnly(lkg.of) => IsOverlay(lkg.of.content)
    /\ IsStandalone(activeBinding) /\ activeBinding.cached
          => requests >= 1 /\ libraryFile.selected # NoBinding
    /\ lkg # NoBinding /\ LocalOnly(lkg.of) /\ libraryFile.selected = NoBinding
          => commitStep = "down" /\ clock = 0

LEMMA CommitSpares ==
    ASSUME CommitRuns
    PROVE  UNCHANGED <<library, libraryFile, libraryJobs, libraryStep, requests>>
BY DEF CommitRuns, BeginSave, ReplaceLkg, LkgWriteFails, FinishSave, FallBackToMemory,
   FallBackToFile, StageCandidate, MarkStale, store, tallies

LEMMA StartMoves ==
    ASSUME ContextTypes, HeadInv, LibraryInv, SavedInv, CompanionStarts
    PROVE  \/ /\ lkg # NoBinding /\ LocalOnly(lkg.of) /\ lkg.of.match \in Matches
              /\ libraryFile.selected = NoBinding /\ clock = 0 /\ clock' = 1
              /\ libraryFile' = [libraryFile EXCEPT !.docs[lkg.of.match] = 1, !.selected = lkg.of.match,
                                                   !.at = 1]
              /\ activeBinding' = Binding(ManifestOf(lkg.of.match, "local", "standalone", 1), FALSE, TRUE)
              /\ shown' = [by |-> 0, at |-> 1]
           \/ /\ UNCHANGED <<clock, libraryFile>> /\ activeBinding' = Restored
              /\ LibraryGoesFirst \/ ~IsStandalone(Restored)
              /\ shown' = [by |-> 0, at |-> IF LibraryGoesFirst THEN libraryFile.at
                                            ELSE IF lkg = NoBinding THEN 0 ELSE lkg.at]
<1>1. CASE ~LibraryGoesFirst /\ IsStandalone(Restored)
  <2>1. lkg # NoBinding /\ Restored = Binding(lkg.of, TRUE, FALSE)
      BY <1>1 DEF Restored, IsStandalone, IsLocalBinding
  <2>2. LocalOnly(lkg.of)
      BY <1>1, <2>1 DEF IsStandalone, IsLocalBinding, Binding, LocalOnly
  <2>3. libraryFile.selected = NoBinding
      BY <1>1, <2>2 DEF LibraryGoesFirst, LocalOnly
  <2>4. clock = 0
      BY <2>1, <2>2, <2>3 DEF SavedInv
  <2>5. lkg.of.match \in Matches
      BY <2>1 DEF ContextTypes, ControllerTypes, Envelopes, Manifests, ManifestsOf
  <2>6. libraryFile.docs[lkg.of.match] = 0
      BY <2>3, <2>5 DEF LibraryInv
  <2>7. /\ libraryFile' = [libraryFile EXCEPT !.docs[lkg.of.match] = 1, !.selected = lkg.of.match, !.at = 1]
        /\ clock' = 1 /\ shown' = [by |-> 0, at |-> 1]
        /\ activeBinding' = Binding(ManifestOf(lkg.of.match, "local", "standalone",
                                              libraryFile'.docs[lkg.of.match]), FALSE, TRUE)
      BY <1>1, <2>4, <2>6 DEF CompanionStarts, Shows
  <2>8. libraryFile'.docs[lkg.of.match] = 1
      BY <2>5, <2>7 DEF ContextTypes, LibraryTypes, Libraries, LibrariesOf
  <2> QED BY <2>1, <2>2, <2>3, <2>4, <2>5, <2>7, <2>8
<1>2. CASE LibraryGoesFirst \/ ~IsStandalone(Restored)
    BY <1>2 DEF CompanionStarts, Shows
<1> QED BY <1>1, <1>2

LEMMA LibraryFileMoves ==
    ASSUME ContextTypes, HeadInv, SelectionInv, LibraryInv, ReplaceLibrary
    PROVE  /\ libraryFile'.at \in {libraryFile.at, stamp.library}
           /\ \A m \in Matches : libraryFile'.docs[m] \in {library.docs[m], Head(libraryJobs).by}
           /\ libraryFile'.selected # NoBinding => libraryFile'.docs[libraryFile'.selected] # 0
           /\ libraryFile'.selected = NoBinding => \A m \in Matches : libraryFile'.docs[m] = 0
           /\ libraryFile.selected # NoBinding => libraryFile'.selected # NoBinding
           /\ Head(libraryJobs) \in JobsOf(libraryJobs) /\ library = libraryFile
           /\ Head(libraryJobs).by \in 1..requests
<1>1. /\ libraryJobs # <<>> /\ LibraryAccepts(Head(libraryJobs)) /\ library = libraryFile
      /\ libraryFile' = LibraryAfter(Head(libraryJobs), stamp.library)
    BY DEF ReplaceLibrary, HeadInv
<1>2. /\ Head(libraryJobs) \in LibraryTasks /\ Head(libraryJobs) \in JobsOf(libraryJobs)
      /\ Head(libraryJobs).kind # "event" => Head(libraryJobs).match \in Matches
    BY <1>1, LibraryTask
<1>3. Head(libraryJobs).by \in 1..requests /\ requests \in Nat /\ stamp.library \in Nat
    BY <1>2 DEF SelectionInv, ContextTypes, TallyTypes
<1>4. Head(libraryJobs).by \in Nat \ {0}
    BY <1>3
<1>5. /\ library.selected # NoBinding => library.docs[library.selected] # 0
      /\ library.selected = NoBinding => \A m \in Matches : library.docs[m] = 0
    BY <1>1 DEF LibraryInv
<1> DEFINE next == LibraryAfter(Head(libraryJobs), stamp.library)
<1>6. /\ next.at \in {library.at, stamp.library}
      /\ \A m \in Matches : next.docs[m] \in {library.docs[m], Head(libraryJobs).by}
      /\ next.selected # NoBinding => next.docs[next.selected] # 0
      /\ next.selected = NoBinding => \A m \in Matches : next.docs[m] = 0
      /\ library.selected # NoBinding => next.selected # NoBinding
    BY <1>1, <1>2, <1>3, <1>4, <1>5, LibraryAfterFacts
<1> QED BY <1>1, <1>2, <1>3, <1>6

LEMMA LibraryKept ==
    ASSUME ContextTypes, HeadInv, SelectionInv, LibraryInv, SavedInv, [ContextNext]_contextVars
    PROVE  LibraryInv'
<1>1. /\ requests \in Nat /\ \A m \in Matches : libraryFile.docs[m] \in Nat /\ library.docs[m] \in Nat
    BY DEF ContextTypes, TallyTypes, LibraryTypes, Libraries, LibrariesOf
<1>2. ASSUME UNCHANGED <<library, libraryFile>>, requests' \in {requests, requests + 1} PROVE LibraryInv'
    BY <1>1, <1>2 DEF LibraryInv
<1>3. CASE UNCHANGED contextVars
    BY <1>2, <1>3 DEF contextVars, store, tallies
<1>4. CASE Request \/ Answer
    BY <1>2, <1>4, QuietMoves
<1>5. CASE CommitRuns
    BY <1>2, <1>5, CommitSpares
<1>6. CASE BeginLibraryJob \/ LibraryWriteFails
    BY <1>2, <1>6 DEF BeginLibraryJob, LibraryWriteFails, tallies
<1>7. CASE ReplaceLibrary
  <2>1. UNCHANGED <<library, requests>>
      BY <1>7 DEF ReplaceLibrary, tallies
  <2>2. \A m \in Matches : libraryFile'.docs[m] <= requests \/ libraryFile'.docs[m] = 1
      BY <1>1, <1>7, LibraryFileMoves DEF LibraryInv
  <2> QED BY <1>7, <2>1, <2>2, LibraryFileMoves DEF LibraryInv
<1>8. CASE FinishLibraryJob
    BY <1>1, <1>8 DEF FinishLibraryJob, LibraryInv, tallies
<1>9. CASE CompanionDies
  <2>1. UNCHANGED <<requests, libraryFile>> /\ library' = EmptyLibrary
      BY <1>9 DEF CompanionDies, tallies
  <2>2. \A m \in Matches : library'.docs[m] = 0
      BY <2>1 DEF EmptyLibrary
  <2> QED BY <1>1, <2>1, <2>2 DEF LibraryInv
<1>10. CASE CompanionStarts
  <2>1. UNCHANGED requests /\ library' = libraryFile'
      BY <1>10 DEF CompanionStarts, tallies
  <2>2. CASE UNCHANGED libraryFile
      BY <1>1, <2>1, <2>2 DEF LibraryInv
  <2>3. CASE /\ lkg.of.match \in Matches
             /\ libraryFile' = [libraryFile EXCEPT !.docs[lkg.of.match] = 1, !.selected = lkg.of.match,
                                                  !.at = 1]
    <3>1. /\ libraryFile'.docs = [libraryFile.docs EXCEPT ![lkg.of.match] = 1]
          /\ libraryFile'.selected = lkg.of.match /\ libraryFile.docs \in [Matches -> Nat]
        BY <2>3 DEF ContextTypes, LibraryTypes, Libraries, LibrariesOf
    <3>2. /\ libraryFile'.docs[lkg.of.match] = 1
          /\ \A m \in Matches : libraryFile'.docs[m] \in {libraryFile.docs[m], 1}
        BY <2>3, <3>1
    <3>3. lkg.of.match # NoBinding
        BY <2>3, ContextAssumption
    <3> QED BY <1>1, <2>1, <3>1, <3>2, <3>3 DEF LibraryInv
  <2> QED BY <1>10, <2>2, <2>3, StartMoves
<1> QED BY <1>3, <1>4, <1>5, <1>6, <1>7, <1>8, <1>9, <1>10 DEF ContextNext, LibraryRuns

LEMMA StampKept ==
    ASSUME ContextTypes, HeadInv, SelectionInv, LibraryInv, SavedInv, StampInv, [ContextNext]_contextVars
    PROVE  StampInv'
<1>1. /\ clock \in Nat /\ stamp \in [lkg : Nat, library : Nat] /\ shown.at \in Nat
      /\ lkg # NoBinding => lkg.at \in Nat
      /\ libraryFile.at \in Nat
    BY DEF ContextTypes, TallyTypes, LibraryTypes, Libraries, LibrariesOf, ControllerTypes,
       Envelopes
<1>2. ASSUME UNCHANGED <<clock, stamp, lkg, libraryFile>>,
             shown' = shown \/ shown'.at <= clock,
             \/ commitStep' \notin SaveSteps
             \/ UNCHANGED commitStep /\ (commits # <<>> => Head(commits') = Head(commits))
             \/ commitStep = "writing" /\ commitStep' = "failed",
             libraryStep' \in {"ready", "written", libraryStep}
      PROVE  StampInv'
  <2>1. commitStep \in SaveSteps => commits # <<>>
      BY DEF HeadInv
  <2> QED BY <1>1, <1>2, <2>1 DEF StampInv, SaveSteps
<1>3. CASE UNCHANGED contextVars
  <2>1. UNCHANGED <<clock, stamp, lkg, libraryFile, shown, commitStep, commits, libraryStep>>
      BY <1>3 DEF contextVars, controller, store
  <2> QED BY <1>2, <2>1
<1>4. CASE Request \/ Answer
  <2>1. /\ UNCHANGED <<clock, stamp, lkg, libraryFile, commitStep, libraryStep>>
        /\ shown' = shown \/ shown'.at = 0
        /\ commits # <<>> => Head(commits') = Head(commits)
      BY <1>4, QuietMoves
  <2>2. 0 <= clock
      BY <1>1
  <2> QED BY <1>2, <2>1, <2>2
<1>5. CASE BeginSave
  <2>1. UNCHANGED <<lkg, libraryFile, libraryStep, shown>>
      BY <1>5 DEF BeginSave, store
  <2>2. CASE ~StillCurrent(Head(commits))
    <3>1. UNCHANGED <<clock, stamp>> /\ commitStep' = "ready"
        BY <1>5, <2>2 DEF BeginSave, Done
    <3> QED BY <1>2, <2>1, <3>1 DEF SaveSteps
  <2>3. CASE StillCurrent(Head(commits))
    <3>1. /\ clock' = clock + 1 /\ stamp' = [stamp EXCEPT !.lkg = clock + 1] /\ commitStep' = "writing"
        BY <1>5, <2>3 DEF BeginSave
    <3>2. stamp'.lkg = clock + 1 /\ stamp'.library = stamp.library
        BY <1>1, <3>1
    <3> QED BY <1>1, <2>1, <3>1, <3>2 DEF StampInv
  <2> QED BY <2>2, <2>3
<1>6. CASE ReplaceLkg
  <2>1. UNCHANGED <<clock, stamp, libraryFile, libraryStep, shown>> /\ commitStep = "writing"
      BY <1>6 DEF ReplaceLkg, store, Runs
  <2>2. CASE ~StillCurrent(Head(commits))
    <3>1. UNCHANGED lkg /\ commitStep' = "ready"
        BY <1>6, <2>2 DEF ReplaceLkg, Done
    <3> QED BY <1>2, <2>1, <3>1 DEF SaveSteps
  <2>3. CASE StillCurrent(Head(commits))
    <3>1. /\ lkg' = [of |-> Head(commits).of, at |-> stamp.lkg] /\ commitStep' = "written"
          /\ UNCHANGED commits
        BY <1>6, <2>3 DEF ReplaceLkg
    <3>2. lkg'.at = stamp.lkg /\ stamp.lkg # 0
        BY <2>1, <3>1 DEF StampInv, SaveSteps
    <3> QED BY <1>1, <2>1, <3>1, <3>2 DEF StampInv
  <2> QED BY <2>2, <2>3
<1>7. CASE LkgWriteFails
  <2>1. /\ UNCHANGED <<clock, stamp, lkg, libraryFile, shown, libraryStep>>
        /\ commitStep = "writing" /\ commitStep' = "failed"
      BY <1>7 DEF LkgWriteFails, store, Runs
  <2> QED BY <1>2, <2>1
<1>8. CASE FinishSave
  <2>1. UNCHANGED <<clock, stamp, lkg, libraryFile, libraryStep>> /\ commitStep' = "ready"
      BY <1>8 DEF FinishSave, store, Done
  <2>2. shown' = shown \/ \E by, at : at \in {0, stamp.lkg} /\ Shows(by, at)
      BY <1>8 DEF FinishSave
  <2>3. shown' = shown \/ shown'.at \in {0, stamp.lkg}
      BY <2>2 DEF Shows
  <2>4. 0 <= clock /\ stamp.lkg <= clock
      BY <1>1 DEF StampInv
  <2> QED BY <1>2, <2>1, <2>3, <2>4 DEF SaveSteps
<1>9. CASE FallBackToMemory
  <2>1. /\ UNCHANGED <<clock, stamp, lkg, libraryFile, libraryStep, shown>>
        /\ commitStep' \in {"ready", "reading"}
      BY <1>9 DEF FallBackToMemory, store, Done
  <2> QED BY <1>2, <2>1 DEF SaveSteps
<1>10. CASE FallBackToFile
  <2>1. UNCHANGED <<clock, stamp, lkg, libraryFile, libraryStep>> /\ commitStep' = "ready"
      BY <1>10 DEF FallBackToFile, store, Done
  <2>2. shown' = shown \/ (lkg # NoBinding /\ \E by : Shows(by, lkg.at))
      BY <1>10 DEF FallBackToFile
  <2>3. shown' = shown \/ (lkg # NoBinding /\ shown'.at = lkg.at)
      BY <2>2 DEF Shows
  <2>4. lkg # NoBinding => lkg.at <= clock
      BY DEF StampInv
  <2> QED BY <1>2, <2>1, <2>3, <2>4 DEF SaveSteps
<1>11. CASE StageCandidate \/ MarkStale
  <2>1. /\ UNCHANGED <<clock, stamp, lkg, libraryFile, libraryStep, shown>> /\ commitStep' = "ready"
      BY <1>11 DEF StageCandidate, MarkStale, store, Done, Runs
  <2> QED BY <1>2, <2>1 DEF SaveSteps
<1>12. CASE BeginLibraryJob
  <2>1. UNCHANGED <<lkg, libraryFile, commitStep, commits, shown>>
      BY <1>12 DEF BeginLibraryJob, controller
  <2>2. CASE ~LibraryAccepts(Head(libraryJobs))
    <3>1. UNCHANGED <<clock, stamp, libraryStep>>
        BY <1>12, <2>2 DEF BeginLibraryJob
    <3> QED BY <1>2, <2>1, <3>1
  <2>3. CASE LibraryAccepts(Head(libraryJobs))
    <3>1. clock' = clock + 1 /\ stamp' = [stamp EXCEPT !.library = clock + 1] /\ libraryStep' = "writing"
        BY <1>12, <2>3 DEF BeginLibraryJob
    <3>2. stamp'.library = clock + 1 /\ stamp'.lkg = stamp.lkg
        BY <1>1, <3>1
    <3> QED BY <1>1, <2>1, <3>1, <3>2 DEF StampInv
  <2> QED BY <2>2, <2>3
<1>13. CASE ReplaceLibrary
  <2>1. /\ UNCHANGED <<clock, stamp, lkg, commitStep, commits, shown>>
        /\ libraryStep = "writing" /\ libraryStep' = "written"
      BY <1>13 DEF ReplaceLibrary, controller
  <2>2. libraryFile'.at \in {libraryFile.at, stamp.library}
      BY <1>13, LibraryFileMoves
  <2> QED BY <1>1, <2>1, <2>2 DEF StampInv
<1>14. CASE LibraryWriteFails
  <2>1. /\ UNCHANGED <<clock, stamp, lkg, libraryFile, commitStep, commits, shown>> /\ libraryStep' = "ready"
      BY <1>14 DEF LibraryWriteFails, controller
  <2> QED BY <1>2, <2>1
<1>15. CASE FinishLibraryJob
  <2>1. /\ UNCHANGED <<clock, stamp, lkg, libraryFile, commitStep, commits>> /\ libraryStep' = "ready"
      BY <1>15 DEF FinishLibraryJob, controller
  <2>2. \/ shown' = shown
        \/ \E m, content, by, at : at \in {0, libraryFile.at} /\ ActivateLocal(m, content, by, at)
      BY <1>15 DEF FinishLibraryJob, SelectedAt
  <2>3. shown' = shown \/ \E by, at : at \in {0, libraryFile.at} /\ Shows(by, at)
      BY <2>2 DEF ActivateLocal
  <2>5. shown' = shown \/ shown'.at \in {0, libraryFile.at}
      BY <2>3 DEF Shows
  <2>4. 0 <= clock /\ libraryFile.at <= clock
      BY <1>1 DEF StampInv
  <2>6. shown' = shown \/ shown'.at <= clock
      BY <2>4, <2>5
  <2> QED BY <1>2, <2>1, <2>6
<1>16. CASE CompanionDies
  <2>1. /\ UNCHANGED <<clock, lkg, libraryFile>> /\ commitStep' = "down" /\ libraryStep' = "ready"
        /\ stamp' = [lkg |-> 0, library |-> 0] /\ shown' = [by |-> 0, at |-> 0]
      BY <1>16 DEF CompanionDies, Shows
  <2>2. stamp'.lkg = 0 /\ stamp'.library = 0 /\ shown'.at = 0
      BY <2>1
  <2> QED BY <1>1, <2>1, <2>2 DEF StampInv, SaveSteps
<1>17. CASE CompanionStarts
  <2>1. UNCHANGED <<lkg, stamp, libraryStep>> /\ commitStep' = "ready"
      BY <1>17 DEF CompanionStarts
  <2>2. CASE /\ lkg # NoBinding /\ clock = 0 /\ clock' = 1 /\ shown' = [by |-> 0, at |-> 1]
             /\ libraryFile' = [libraryFile EXCEPT !.docs[lkg.of.match] = 1, !.selected = lkg.of.match,
                                                  !.at = 1]
    <3>1. libraryFile'.at = 1 /\ shown'.at = 1
        BY <2>2 DEF ContextTypes, LibraryTypes, Libraries, LibrariesOf
    <3>2. lkg.at = 0 /\ stamp.lkg = 0
        BY <1>1, <2>2 DEF StampInv
    <3>3. libraryStep = "ready"
        BY <1>17 DEF CompanionStarts, HeadInv
    <3> QED BY <1>1, <2>1, <2>2, <3>1, <3>2, <3>3 DEF StampInv, SaveSteps
  <2>3. CASE /\ UNCHANGED <<clock, libraryFile>>
             /\ shown' = [by |-> 0, at |-> IF LibraryGoesFirst THEN libraryFile.at
                                           ELSE IF lkg = NoBinding THEN 0 ELSE lkg.at]
    <3>1. shown'.at <= clock
        BY <1>1, <2>3 DEF StampInv
    <3> QED BY <1>2, <2>1, <2>3, <3>1 DEF SaveSteps
  <2>4. \/ /\ lkg # NoBinding /\ clock = 0 /\ clock' = 1 /\ shown' = [by |-> 0, at |-> 1]
           /\ libraryFile' = [libraryFile EXCEPT !.docs[lkg.of.match] = 1, !.selected = lkg.of.match,
                                                !.at = 1]
        \/ /\ UNCHANGED <<clock, libraryFile>>
           /\ shown' = [by |-> 0, at |-> IF LibraryGoesFirst THEN libraryFile.at
                                        ELSE IF lkg = NoBinding THEN 0 ELSE lkg.at]
      BY <1>17, StartMoves
  <2> QED BY <2>2, <2>3, <2>4
<1> QED BY <1>3, <1>4, <1>5, <1>6, <1>7, <1>8, <1>9, <1>10, <1>11, <1>12, <1>13, <1>14, <1>15,
   <1>16, <1>17 DEF ContextNext, CommitRuns, LibraryRuns

\* What a request adds to the two queues.
LEMMA RequestAdds ==
    ASSUME ContextTypes, Request
    PROVE  /\ \A job \in JobsOf(libraryJobs') : job \in JobsOf(libraryJobs) \/ job.by = requests + 1
           /\ \A job \in JobsOf(commits') : job.kind = "overlay" =>
                 \/ job \in JobsOf(commits)
                 \/ /\ activeBinding # NoBinding /\ ~IsLibraryMatch(activeBinding) /\ UNCHANGED libraryJobs
                    /\ job.of.content = requests + 1
                    /\ job.of.mode = "standalone" => IsStandalone(activeBinding)
<1>1. libraryJobs \in Seq(LibraryTasks)
    BY DEF ContextTypes, LibraryTypes
<1>2. \/ libraryJobs' = libraryJobs
      \/ \E new : libraryJobs' = Append(libraryJobs, new) /\ new.by = requests + 1
  <2>1. ASSUME NEW kind, NEW m, LibraryJob(kind, m) PROVE <1>2!:
    <3> DEFINE new == [kind |-> kind, match |-> m, event |-> library.event, by |-> requests + 1]
    <3>1. libraryJobs' = Append(libraryJobs, new) /\ new.by = requests + 1
        BY <2>1 DEF LibraryJob
    <3> HIDE DEF new
    <3> QED BY <3>1
  <2>2. \/ libraryJobs' = libraryJobs
        \/ \E kind, m : LibraryJob(kind, m)
      BY DEF Request, StageOnlineMatch, SelectOverLocal, SelectMatch, CreateLocalMatch,
         SelectLocalMatch, SaveFirstBp, ActivateFixture, ActivatePending, SaveBpOverlay,
         SaveLocalMatch, SaveEvent, ClearActive, store
  <2> QED BY <2>1, <2>2
<1>3. \A job \in JobsOf(libraryJobs') : job \in JobsOf(libraryJobs) \/ job.by = requests + 1
  <2>1. ASSUME NEW new, libraryJobs' = Append(libraryJobs, new), new.by = requests + 1
        PROVE  <1>3!:
    <3>1. JobsOf(libraryJobs') = JobsOf(libraryJobs) \cup {new}
        BY <1>1, <2>1, QueueFacts
    <3> QED BY <2>1, <3>1
  <2> QED BY <1>2, <2>1
<1>4. CASE SaveBpOverlay
  <2> DEFINE of == ManifestOf(MatchOf(activeBinding), "local",
                           IF IsStandalone(activeBinding) THEN "standalone" ELSE "bound-overlay",
                           requests + 1)
             job == [kind |-> "overlay", gen |-> selection + 1, cand |-> 0, rev |-> bindingRev,
                     candidate |-> 0, of |-> of, seen |-> activeBinding, by |-> requests + 1]
  <2>1. commits' = Append(commits, job) /\ loads' = loads
      BY <1>4 DEF SaveBpOverlay, Commit
  <2>2. job.of.content = requests + 1 /\ (job.of.mode = "standalone" => IsStandalone(activeBinding))
      BY DEF ManifestOf
  <2>3. activeBinding # NoBinding /\ ~IsLibraryMatch(activeBinding) /\ UNCHANGED libraryJobs
      BY <1>4 DEF SaveBpOverlay, store
  <2> HIDE DEF job
  <2>4. \A j \in JobsOf(commits') : j \in JobsOf(commits) \/ j = job
      BY <2>1, OneMoreCommit
  <2> QED BY <1>3, <2>2, <2>3, <2>4
<1>5. CASE ActivatePending
  <2> DEFINE job == [kind |-> "confirm", gen |-> selection + 1, cand |-> acquisition[1],
               rev |-> bindingRev, candidate |-> staged.by, of |-> staged.of,
               seen |-> activeBinding, by |-> requests + 1]
  <2>1. commits' = Append(commits, job) /\ loads' = loads
      BY <1>5 DEF ActivatePending, Commit
  <2>2. job.kind # "overlay"
      OBVIOUS
  <2> HIDE DEF job
  <2>4. \A j \in JobsOf(commits') : j \in JobsOf(commits) \/ j = job
      BY <2>1, OneMoreCommit
  <2> QED BY <1>3, <2>2, <2>4
<1>6. commits' = commits \/ ActivatePending \/ SaveBpOverlay
    BY DEF Request, StageOnlineMatch, SelectOverLocal, SelectMatch, CreateLocalMatch,
       SelectLocalMatch, SaveFirstBp, ActivateFixture, SaveLocalMatch, SaveEvent, ClearActive,
       LibraryJob, controller
<1> QED BY <1>3, <1>4, <1>5, <1>6

\* A saved overlay is never mistaken for what the library has.
LEMMA OverlayStays ==
    ASSUME ContextTypes, HeadInv, SelectionInv, LibraryInv, SavedInv, [ContextNext]_contextVars,
           NEW content, IsOverlay(content)
    PROVE  /\ content \in 2..requests' /\ libraryFile'.selected # NoBinding
           /\ \A m \in Matches : library'.docs[m] # content /\ libraryFile'.docs[m] # content
           /\ \A job \in JobsOf(libraryJobs') : job.by # content
<1> DEFINE Stays == /\ content \in 2..requests' /\ libraryFile'.selected # NoBinding
                    /\ \A m \in Matches : library'.docs[m] # content /\ libraryFile'.docs[m] # content
                    /\ \A job \in JobsOf(libraryJobs') : job.by # content
<1>1. /\ requests \in Nat /\ content \in 2..requests /\ libraryFile.selected # NoBinding
      /\ \A m \in Matches : library.docs[m] # content /\ libraryFile.docs[m] # content
      /\ \A job \in JobsOf(libraryJobs) : job.by # content
    BY DEF ContextTypes, TallyTypes, IsOverlay
<1>2. CASE UNCHANGED contextVars
    BY <1>1, <1>2 DEF contextVars, store, tallies
<1>3. CASE Request
  <2>1. UNCHANGED <<library, libraryFile>> /\ requests' = requests + 1
      BY <1>3, QuietMoves, RequestMoves
  <2>2. \A job \in JobsOf(libraryJobs') : job.by # content
      BY <1>1, <1>3, RequestAdds
  <2> QED BY <1>1, <2>1, <2>2
<1>4. CASE Answer
    BY <1>1, <1>4, QuietMoves, AnswerMoves
<1>5. CASE CommitRuns
    BY <1>1, <1>5, CommitSpares
<1>6. CASE LibraryRuns
  <2>1. UNCHANGED requests /\ \A job \in JobsOf(libraryJobs') : job \in JobsOf(libraryJobs)
      BY <1>6, LibraryQueues
  <2>2. CASE BeginLibraryJob \/ LibraryWriteFails
      BY <1>1, <2>1, <2>2 DEF BeginLibraryJob, LibraryWriteFails
  <2>3. CASE ReplaceLibrary
    <3>1. library' = library
        BY <2>3 DEF ReplaceLibrary
    <3> QED BY <1>1, <2>1, <2>3, <3>1, LibraryFileMoves
  <2>4. CASE FinishLibraryJob
      BY <1>1, <2>1, <2>4 DEF FinishLibraryJob
  <2> QED BY <1>6, <2>2, <2>3, <2>4 DEF LibraryRuns
<1>7. CASE CompanionDies
  <2>1. UNCHANGED <<requests, libraryFile>> /\ library' = EmptyLibrary /\ JobsOf(libraryJobs') = {}
      BY <1>7, EmptyQueues DEF CompanionDies, tallies
  <2>2. \A m \in Matches : library'.docs[m] = 0
      BY <2>1 DEF EmptyLibrary
  <2> QED BY <1>1, <2>1, <2>2
<1>8. CASE CompanionStarts
  <2>1. UNCHANGED <<requests, libraryFile, libraryJobs>> /\ library' = libraryFile'
    <3>1. UNCHANGED libraryFile
        BY <1>1, <1>8, StartMoves
    <3> QED BY <1>8, <3>1 DEF CompanionStarts, tallies
  <2> QED BY <1>1, <2>1
<1> QED BY <1>2, <1>3, <1>4, <1>5, <1>6, <1>7, <1>8 DEF ContextNext

LEMMA SelectedStays ==
    ASSUME ContextTypes, HeadInv, SelectionInv, LibraryInv, SavedInv, [ContextNext]_contextVars,
           libraryFile.selected # NoBinding
    PROVE  libraryFile'.selected # NoBinding
<1>1. CASE UNCHANGED contextVars
    BY <1>1 DEF contextVars, store
<1>2. CASE Request \/ Answer
    BY <1>2, QuietMoves
<1>3. CASE CommitRuns
    BY <1>3, CommitSpares
<1>4. CASE BeginLibraryJob \/ LibraryWriteFails \/ FinishLibraryJob \/ CompanionDies
    BY <1>4 DEF BeginLibraryJob, LibraryWriteFails, FinishLibraryJob, CompanionDies
<1>5. CASE ReplaceLibrary
    BY <1>5, LibraryFileMoves
<1>6. CASE CompanionStarts
    BY <1>6, StartMoves
<1> QED BY <1>1, <1>2, <1>3, <1>4, <1>5, <1>6 DEF ContextNext, LibraryRuns

\* The saves that may be in the queue after a step, if they are of a standalone match.
LEMMA NewSaves ==
    ASSUME ContextTypes, ContextTypes', HeadInv, [ContextNext]_contextVars,
           NEW job \in JobsOf(commits'), job.kind \in Saves, LocalOnly(job.of)
    PROVE  \/ job \in JobsOf(commits)
           \/ /\ Request /\ activeBinding # NoBinding /\ ~IsLibraryMatch(activeBinding)
              /\ UNCHANGED libraryJobs /\ job.of.content = requests + 1
              /\ IsStandalone(activeBinding)
<1>1. job.kind = "overlay"
    BY DEF ContextTypes, ControllerTypes, Sourced, LocalOnly, Saves
<1>2. CASE UNCHANGED contextVars
    BY <1>2 DEF contextVars, controller
<1>3. CASE Request
    BY <1>1, <1>3, RequestAdds DEF LocalOnly
<1>4. CASE Answer
    BY <1>1, <1>4, AnswerQueues
<1>5. CASE CommitRuns
    BY <1>1, <1>5, CommitQueues
<1>6. CASE LibraryRuns
    BY <1>6, LibraryQueues
<1>7. CASE CompanionDies
    BY <1>7, EmptyQueues DEF CompanionDies
<1>8. CASE CompanionStarts
    BY <1>8 DEF CompanionStarts
<1> QED BY <1>2, <1>3, <1>4, <1>5, <1>6, <1>7, <1>8 DEF ContextNext

\* What the file may hold after a step.
LEMMA LkgMoves ==
    ASSUME ContextTypes, HeadInv, [ContextNext]_contextVars
    PROVE  \/ lkg' = lkg
           \/ /\ lkg' = [of |-> Head(commits).of, at |-> stamp.lkg] /\ commitStep = "writing"
              /\ Head(commits) \in JobsOf(commits) /\ Head(commits).kind \in Saves
<1>1. \/ lkg' = lkg
      \/ lkg' = [of |-> Head(commits).of, at |-> stamp.lkg] /\ commitStep = "writing"
  <2>1. CASE UNCHANGED contextVars
      BY <2>1 DEF contextVars, controller
  <2>2. CASE Request \/ Answer
      BY <2>2, QuietMoves
  <2>3. CASE CommitRuns
      BY <2>3 DEF CommitRuns, BeginSave, ReplaceLkg, LkgWriteFails, FinishSave, FallBackToMemory,
         FallBackToFile, StageCandidate, MarkStale, Runs
  <2>4. CASE LibraryRuns
      BY <2>4, LibraryQueues
  <2>5. CASE CompanionDies \/ CompanionStarts
      BY <2>5 DEF CompanionDies, CompanionStarts
  <2> QED BY <2>1, <2>2, <2>3, <2>4, <2>5 DEF ContextNext
<1>2. commitStep = "writing" =>
         Head(commits) \in JobsOf(commits) /\ Head(commits).kind \in Saves
    BY CommittedJob DEF HeadInv, SaveSteps
<1> QED BY <1>1, <1>2

\* Where a cached standalone match comes from.
LEMMA CachedMoves ==
    ASSUME ContextTypes, HeadInv, LibraryInv, SavedInv, [ContextNext]_contextVars,
           IsStandalone(activeBinding)', activeBinding'.cached
    PROVE  \/ IsStandalone(activeBinding) /\ activeBinding.cached
           \/ /\ lkg # NoBinding /\ LocalOnly(lkg.of) /\ commitStep # "down"
              /\ commits # <<>> /\ Head(commits).kind = "fallback"
<1> DEFINE Old == IsStandalone(activeBinding) /\ activeBinding.cached
<1>1. activeBinding' # NoBinding /\ activeBinding'.of.from = "local" /\ activeBinding'.of.mode = "standalone"
    BY DEF IsStandalone, IsLocalBinding
<1>2. ASSUME activeBinding' = activeBinding PROVE Old
    BY <1>1, <1>2 DEF IsStandalone, IsLocalBinding
<1>3. ASSUME NEW of, NEW fresh, activeBinding' = Binding(of, FALSE, fresh) PROVE FALSE
    BY <1>3 DEF Binding
<1>4. ASSUME NEW fresh, activeBinding # NoBinding, activeBinding' = [activeBinding EXCEPT !.fresh = fresh]
      PROVE  Old
  <2>1. activeBinding'.of = activeBinding.of /\ activeBinding'.cached = activeBinding.cached
      BY <1>4 DEF ContextTypes, MemoryTypes, Bindings, BindingsOf
  <2> QED BY <1>1, <1>4, <2>1 DEF IsStandalone, IsLocalBinding
<1>5. CASE UNCHANGED contextVars
    BY <1>2, <1>5 DEF contextVars, memory
<1>6. CASE Request
  <2>1. \/ activeBinding' \in {activeBinding, NoBinding}
        \/ \E of : SetActive(Binding(of, FALSE, TRUE))
      BY <1>6 DEF Request, StageOnlineMatch, SelectOverLocal, SelectMatch, CreateLocalMatch,
         SelectLocalMatch, SaveFirstBp, ActivateFixture, ActivatePending, SaveBpOverlay,
         SaveLocalMatch, SaveEvent, ClearActive, LibraryJob, memory, SetActive
  <2>2. \/ activeBinding' \in {activeBinding, NoBinding}
        \/ \E of : activeBinding' = Binding(of, FALSE, TRUE)
      BY <2>1 DEF SetActive
  <2> QED BY <1>1, <1>2, <1>3, <2>2
<1>7. CASE Answer
    BY <1>2, <1>7 DEF Answer, LoadAnswers, LoadFails, ConversionFails, memory
<1>8. CASE BeginSave \/ ReplaceLkg \/ LkgWriteFails
    BY <1>2, <1>8 DEF BeginSave, ReplaceLkg, LkgWriteFails, memory
<1>9. CASE FinishSave
    BY <1>2, <1>3, <1>9 DEF FinishSave
<1>10. CASE FallBackToMemory
  <2>1. \/ UNCHANGED memory
        \/ SetActive([activeBinding EXCEPT !.fresh = FALSE]) /\ MatchOf(activeBinding) = Head(commits).match
      BY <1>10 DEF FallBackToMemory, memory
  <2>2. \/ activeBinding' = activeBinding
        \/ /\ activeBinding' = [activeBinding EXCEPT !.fresh = FALSE]
           /\ MatchOf(activeBinding) = Head(commits).match
      BY <2>1 DEF SetActive, memory
  <2>3. Head(commits).match \in Matches
      BY <1>10, CommittedJob, JobShapes DEF FallBackToMemory, Runs, FallbackJobs
  <2>4. MatchOf(activeBinding) = Head(commits).match => activeBinding # NoBinding
      BY <2>3, ContextAssumption DEF MatchOf
  <2> QED BY <1>2, <1>4, <2>2, <2>4
<1>11. CASE FallBackToFile
  <2>1. \/ UNCHANGED memory
        \/ lkg # NoBinding /\ SetActive(Binding(lkg.of, TRUE, FALSE))
      BY <1>11 DEF FallBackToFile, memory
  <2>2. \/ activeBinding' = activeBinding
        \/ lkg # NoBinding /\ activeBinding' = Binding(lkg.of, TRUE, FALSE)
      BY <2>1 DEF SetActive, memory
  <2>3. commitStep # "down" /\ commits # <<>> /\ Head(commits).kind = "fallback"
      BY <1>11 DEF FallBackToFile, Runs
  <2> QED BY <1>1, <1>2, <2>2, <2>3 DEF Binding, LocalOnly
<1>12. CASE StageCandidate \/ MarkStale
  <2>1. \/ activeBinding' = activeBinding
        \/ /\ IsOnline(activeBinding)
           /\ \E fresh : activeBinding' = [activeBinding EXCEPT !.fresh = fresh]
      BY <1>12 DEF StageCandidate, MarkStale
  <2>2. IsOnline(activeBinding) => activeBinding # NoBinding
      BY DEF IsOnline
  <2> QED BY <1>2, <1>4, <2>1, <2>2
<1>13. CASE LibraryRuns
  <2>1. \/ activeBinding' = activeBinding
        \/ \E m, content, by, at : ActivateLocal(m, content, by, at)
      BY <1>13 DEF LibraryRuns, BeginLibraryJob, ReplaceLibrary, LibraryWriteFails,
         FinishLibraryJob, memory
  <2>2. \/ activeBinding' = activeBinding
        \/ \E of : activeBinding' = Binding(of, FALSE, TRUE)
      BY <2>1 DEF ActivateLocal, SetActive
  <2> QED BY <1>2, <1>3, <2>2
<1>14. CASE CompanionDies
    BY <1>1, <1>14 DEF CompanionDies
<1>15. CASE CompanionStarts
  <2>1. \/ \E of : activeBinding' = Binding(of, FALSE, TRUE)
        \/ /\ activeBinding' = Restored
           /\ LibraryGoesFirst \/ ~IsStandalone(Restored)
      BY <1>15, StartMoves
  <2>2. CASE activeBinding' = Restored /\ LibraryGoesFirst
    <3>1. \E of : activeBinding' = Binding(of, FALSE, TRUE)
        BY <2>2 DEF Restored
    <3> QED BY <1>3, <3>1
  <2>3. CASE activeBinding' = Restored /\ ~IsStandalone(Restored)
      BY <1>1, <2>3 DEF IsStandalone, IsLocalBinding
  <2> QED BY <1>3, <2>1, <2>2, <2>3
<1> QED BY <1>5, <1>6, <1>7, <1>8, <1>9, <1>10, <1>11, <1>12, <1>13, <1>14, <1>15 DEF ContextNext,
   CommitRuns

LEMMA SavedKept ==
    ASSUME ContextTypes, ContextTypes', HeadInv, SelectionInv, LibraryInv, StampInv, SavedInv,
           [ContextNext]_contextVars
    PROVE  SavedInv'
<1>1. /\ requests \in Nat /\ requests' \in {requests, requests + 1}
      /\ Request => requests' = requests + 1
  <2>1. requests \in Nat
      BY DEF ContextTypes, TallyTypes
  <2>2. Request => requests' = requests + 1
      BY RequestMoves
  <2>3. ~Request => requests' = requests
      BY AnswerMoves, CommitSpares, LibraryQueues DEF ContextNext, CompanionDies, CompanionStarts,
         tallies, contextVars
  <2> QED BY <2>1, <2>2, <2>3
<1>2. ASSUME NEW job \in JobsOf(commits'), job.kind \in Saves, LocalOnly(job.of)
      PROVE  IsOverlay(job.of.content)'
  <2>1. CASE job \in JobsOf(commits)
    <3> DEFINE content == job.of.content
    <3>1. IsOverlay(content)
        BY <1>2, <2>1 DEF SavedInv
    <3> HIDE DEF content
    <3>2. /\ content \in 2..requests' /\ libraryFile'.selected # NoBinding
          /\ \A m \in Matches : library'.docs[m] # content /\ libraryFile'.docs[m] # content
          /\ \A j \in JobsOf(libraryJobs') : j.by # content
        BY <3>1, OverlayStays
    <3> QED BY <3>2 DEF IsOverlay, content
  <2>2. CASE /\ Request /\ activeBinding # NoBinding /\ ~IsLibraryMatch(activeBinding)
             /\ UNCHANGED libraryJobs /\ job.of.content = requests + 1
             /\ IsStandalone(activeBinding)
    <3>1. activeBinding.cached \in BOOLEAN
        BY <2>2 DEF ContextTypes, MemoryTypes, Bindings, BindingsOf
    <3>2. requests >= 1 /\ libraryFile.selected # NoBinding
        BY <2>2, <3>1 DEF SavedInv, IsLibraryMatch
    <3>3. UNCHANGED <<library, libraryFile>>
        BY <2>2, QuietMoves
    <3>4. \A m \in Matches : library.docs[m] # requests + 1 /\ libraryFile.docs[m] # requests + 1
      <4>1. \A m \in Matches : library.docs[m] \in Nat /\ libraryFile.docs[m] \in Nat
          BY DEF ContextTypes, LibraryTypes, Libraries, LibrariesOf
      <4> QED BY <1>1, <3>2, <4>1 DEF LibraryInv
    <3>5. \A j \in JobsOf(libraryJobs') : j.by # requests + 1
        BY <1>1, <2>2 DEF SelectionInv
    <3> QED BY <1>1, <2>2, <3>2, <3>3, <3>4, <3>5 DEF IsOverlay
  <2> QED BY <1>2, <2>1, <2>2, NewSaves
<1>3. ASSUME lkg' # NoBinding, lkg'.at # 0, LocalOnly(lkg.of)' PROVE IsOverlay(lkg.of.content)'
  <2>1. IsOverlay(lkg'.of.content)
    <3>1. CASE lkg' = lkg
        BY <1>3, <3>1 DEF SavedInv, LocalOnly
    <3>2. CASE /\ lkg' = [of |-> Head(commits).of, at |-> stamp.lkg]
               /\ Head(commits) \in JobsOf(commits) /\ Head(commits).kind \in Saves
      <4>1. lkg'.of = Head(commits).of
          BY <3>2
      <4> QED BY <1>3, <3>2, <4>1 DEF SavedInv, LocalOnly
    <3> QED BY <3>1, <3>2, LkgMoves
  <2>2. \A content : IsOverlay(content)
           => /\ content \in 2..requests' /\ libraryFile'.selected # NoBinding
              /\ \A m \in Matches : library'.docs[m] # content /\ libraryFile'.docs[m] # content
              /\ \A job \in JobsOf(libraryJobs') : job.by # content
      BY OverlayStays
  <2> QED BY <2>1, <2>2 DEF IsOverlay
<1>4. IsStandalone(activeBinding)' /\ activeBinding'.cached
         => requests' >= 1 /\ libraryFile'.selected # NoBinding
  <2> SUFFICES ASSUME IsStandalone(activeBinding)', activeBinding'.cached
               PROVE  requests' >= 1 /\ libraryFile'.selected # NoBinding
      OBVIOUS
  <2>1. requests >= 1 /\ libraryFile.selected # NoBinding
    <3>1. CASE IsStandalone(activeBinding) /\ activeBinding.cached
        BY <3>1 DEF SavedInv
    <3>2. CASE /\ lkg # NoBinding /\ LocalOnly(lkg.of) /\ commitStep # "down"
               /\ commits # <<>> /\ Head(commits).kind = "fallback"
      <4>1. libraryFile.selected # NoBinding
          BY <3>2 DEF SavedInv
      <4>2. Head(commits) \in Selections
          BY <3>2, CommittedJob DEF Selections, SelectionKinds
      <4>3. Head(commits).by \in 1..requests
          BY <4>2 DEF SelectionInv
      <4> QED BY <1>1, <4>1, <4>3
    <3> QED BY <3>1, <3>2, CachedMoves
  <2> QED BY <1>1, <2>1, SelectedStays
<1>5. lkg' # NoBinding /\ LocalOnly(lkg'.of) /\ libraryFile'.selected = NoBinding
         => commitStep' = "down" /\ clock' = 0
  <2> SUFFICES ASSUME lkg' # NoBinding, LocalOnly(lkg'.of), libraryFile'.selected = NoBinding
               PROVE  commitStep' = "down" /\ clock' = 0
      OBVIOUS
  <2>1. libraryFile.selected = NoBinding
      BY SelectedStays
  <2>2. lkg' = lkg
    <3>1. CASE /\ lkg' = [of |-> Head(commits).of, at |-> stamp.lkg]
               /\ Head(commits) \in JobsOf(commits) /\ Head(commits).kind \in Saves
      <4>1. LocalOnly(Head(commits).of)
          BY <3>1
      <4> QED BY <2>1, <3>1, <4>1 DEF SavedInv, IsOverlay
    <3> QED BY <3>1, LkgMoves
  <2>3. commitStep = "down" /\ clock = 0 /\ lkg # NoBinding /\ LocalOnly(lkg.of)
      BY <2>1, <2>2 DEF SavedInv
  <2>4. CASE CompanionStarts
    <3>1. ~LibraryGoesFirst /\ Restored = Binding(lkg.of, TRUE, FALSE)
        BY <2>1, <2>3 DEF LibraryGoesFirst, Restored
    <3>2. Restored # NoBinding
      <4>1. lkg.of \in Manifests
          BY <2>3 DEF ContextTypes, ControllerTypes, Envelopes
      <4>2. Binding(lkg.of, TRUE, FALSE) \in [of : Manifests, cached : BOOLEAN, fresh : BOOLEAN]
          BY <4>1 DEF Binding
      <4> QED BY <3>1, <4>2, NoBindingAssumption DEF Manifests
    <3>3. IsStandalone(Restored)
        BY <2>3, <3>1, <3>2 DEF IsStandalone, IsLocalBinding, Binding, LocalOnly
    <3>4. /\ lkg.of.match \in Matches
          /\ libraryFile' = [libraryFile EXCEPT !.docs[lkg.of.match] = 1, !.selected = lkg.of.match,
                                               !.at = 1]
        BY <2>4, <3>1, <3>3, StartMoves
    <3>5. libraryFile'.selected = lkg.of.match
        BY <3>4 DEF ContextTypes, LibraryTypes, Libraries, LibrariesOf
    <3> QED BY <3>4, <3>5, ContextAssumption
  <2>5. CASE UNCHANGED contextVars
      BY <2>3, <2>5 DEF contextVars, controller
  <2>6. ~(Request \/ Answer \/ CommitRuns \/ LibraryRuns \/ CompanionDies)
    <3>1. ~Request /\ ~Answer
        BY <2>3, QuietMoves
    <3>2. ~CommitRuns
        BY <2>3, CommitQueues DEF HeadInv
    <3>3. ~LibraryRuns /\ ~CompanionDies
        BY <2>3, LibraryQueues DEF CompanionDies
    <3> QED BY <3>1, <3>2, <3>3
  <2> QED BY <2>4, <2>5, <2>6 DEF ContextNext
<1> QED BY <1>2, <1>3, <1>4, <1>5 DEF SavedInv

-----------------------------------------------------------------------------
(* The match context: what a restart finds *)

\* If nothing was stamped after the save behind what is shown, one of the two files has it.
FoundInv ==
    activeBinding # NoBinding /\ shown.at = clock /\ shown.at # 0 =>
        \/ /\ IsLibraryMatch(activeBinding) /\ libraryFile.selected = MatchOf(activeBinding)
           /\ libraryFile.at = clock
        \/ lkg # NoBinding /\ lkg.of = activeBinding.of /\ lkg.at = clock

LEMMA BindingFacts ==
    /\ \A of \in Manifests, cached, fresh \in BOOLEAN :
          /\ Binding(of, cached, fresh) # NoBinding /\ Binding(of, cached, fresh).of = of
          /\ Binding(of, cached, fresh).cached = cached
    /\ \A m \in Matches, content \in Nat, fresh \in BOOLEAN :
          LET binding == Binding(ManifestOf(m, "local", "standalone", content), FALSE, fresh)
          IN  IsLibraryMatch(binding) /\ MatchOf(binding) = m
<1>1. ASSUME NEW of \in Manifests, NEW cached \in BOOLEAN, NEW fresh \in BOOLEAN
      PROVE  /\ Binding(of, cached, fresh) # NoBinding /\ Binding(of, cached, fresh).of = of
             /\ Binding(of, cached, fresh).cached = cached
  <2>1. Binding(of, cached, fresh) \in [of : Manifests, cached : BOOLEAN, fresh : BOOLEAN]
      BY DEF Binding
  <2> QED BY <2>1, NoBindingAssumption DEF Manifests, Binding
<1>2. ASSUME NEW m \in Matches, NEW content \in Nat, NEW fresh \in BOOLEAN
      PROVE  LET binding == Binding(ManifestOf(m, "local", "standalone", content), FALSE, fresh)
             IN  IsLibraryMatch(binding) /\ MatchOf(binding) = m
  <2> DEFINE of == ManifestOf(m, "local", "standalone", content)
             binding == Binding(of, FALSE, fresh)
  <2>1. of \in Manifests /\ of.from = "local" /\ of.mode = "standalone" /\ of.match = m
      BY <1>2, ManifestTypes DEF Origins, Modes
  <2> HIDE DEF of
  <2>2. binding # NoBinding /\ binding.of = of /\ binding.cached = FALSE
      BY <1>1, <2>1
  <2> HIDE DEF binding
  <2>3. IsLibraryMatch(binding) /\ MatchOf(binding) = m
      BY <2>1, <2>2 DEF IsLibraryMatch, IsStandalone, IsLocalBinding, MatchOf
  <2> QED BY <2>3 DEF of, binding
<1> QED BY <1>1, <1>2

\* A change of its freshness alone leaves a binding what it is.
LEMMA FreshnessAside ==
    ASSUME ContextTypes, activeBinding # NoBinding, NEW fresh, fresh \in BOOLEAN, FoundInv,
           activeBinding' = [activeBinding EXCEPT !.fresh = fresh],
           UNCHANGED <<clock, shown, lkg, libraryFile>>
    PROVE  FoundInv'
<1>1. /\ activeBinding'.of = activeBinding.of /\ activeBinding'.cached = activeBinding.cached
      /\ activeBinding' # NoBinding
  <2>1. activeBinding \in [of : Manifests, cached : BOOLEAN, fresh : BOOLEAN]
      BY DEF ContextTypes, MemoryTypes, Bindings, BindingsOf, Manifests
  <2>2. activeBinding' \in [of : Manifests, cached : BOOLEAN, fresh : BOOLEAN]
      BY <2>1
  <2> QED BY <2>1, <2>2, NoBindingAssumption DEF Manifests
<1>2. /\ IsLibraryMatch(activeBinding)' <=> IsLibraryMatch(activeBinding)
      /\ MatchOf(activeBinding)' = MatchOf(activeBinding)
    BY <1>1 DEF IsLibraryMatch, IsStandalone, IsLocalBinding, MatchOf
<1> QED BY <1>1, <1>2 DEF FoundInv

LEMMA RequestFound ==
    ASSUME ContextTypes, HeadInv, FoundInv, Request \/ Answer
    PROVE  FoundInv'
<1>1. UNCHANGED <<clock, lkg, libraryFile>>
    BY QuietMoves
<1>2. \/ activeBinding' = activeBinding /\ shown' = shown
      \/ \E by : Shows(by, 0)
  <2>1. CASE Answer
      BY <2>1 DEF Answer, LoadAnswers, LoadFails, ConversionFails, memory
  <2>2. CASE Request
      BY <2>2 DEF Request, StageOnlineMatch, SelectOverLocal, SelectMatch, CreateLocalMatch,
         SelectLocalMatch, SaveFirstBp, ActivateFixture, ActivatePending, SaveBpOverlay,
         SaveLocalMatch, SaveEvent, ClearActive, LibraryJob, memory
  <2> QED BY <2>1, <2>2
<1>3. CASE shown'.at = 0
    BY <1>3 DEF FoundInv
<1>4. CASE activeBinding' = activeBinding /\ shown' = shown
    BY <1>1, <1>4 DEF FoundInv
<1> QED BY <1>2, <1>3, <1>4 DEF Shows

LEMMA FoundKept ==
    ASSUME ContextTypes, ContextTypes', HeadInv, SelectionInv, LibraryInv, SavedInv, StampInv, FoundInv,
           [ContextNext]_contextVars
    PROVE  FoundInv'
<1>1. /\ clock \in Nat /\ stamp \in [lkg : Nat, library : Nat] /\ shown.at \in Nat
      /\ lkg # NoBinding => lkg.at \in Nat /\ lkg.of \in Manifests
      /\ libraryFile.at \in Nat
    BY DEF ContextTypes, TallyTypes, LibraryTypes, Libraries, LibrariesOf, ControllerTypes,
       Envelopes
<1>2. ASSUME UNCHANGED <<clock, shown, lkg, libraryFile, activeBinding>> PROVE FoundInv'
    BY <1>2 DEF FoundInv
<1>3. ASSUME clock' = clock + 1, UNCHANGED shown PROVE FoundInv'
    BY <1>1, <1>3 DEF FoundInv, StampInv
<1>4. CASE UNCHANGED contextVars
    BY <1>2, <1>4 DEF contextVars, memory, controller, store
<1>5. CASE Request \/ Answer
    BY <1>5, RequestFound
<1>6. CASE BeginSave
  <2>1. CASE StillCurrent(Head(commits))
      BY <1>3, <1>6, <2>1 DEF BeginSave
  <2>2. CASE ~StillCurrent(Head(commits))
      BY <1>2, <1>6, <2>2 DEF BeginSave, memory, store
  <2> QED BY <2>1, <2>2
<1>7. CASE ReplaceLkg
  <2>1. UNCHANGED <<clock, shown, libraryFile, activeBinding>> /\ commitStep = "writing"
      BY <1>7 DEF ReplaceLkg, memory, store, Runs
  <2>2. lkg # NoBinding => lkg.at # clock
      BY <1>1, <2>1 DEF StampInv
  <2> QED BY <2>1, <2>2 DEF FoundInv
<1>8. CASE LkgWriteFails
    BY <1>2, <1>8 DEF LkgWriteFails, memory, store
<1>9. CASE FinishSave
  <2>1. UNCHANGED <<clock, lkg, libraryFile>>
      BY <1>9 DEF FinishSave, store
  <2>2. \/ activeBinding' = activeBinding /\ shown' = shown
        \/ \E by : commitStep # "written" /\ Shows(by, 0)
        \/ \E by : /\ commitStep = "written" /\ Shows(by, stamp.lkg)
                   /\ activeBinding' = Binding(Head(commits).of, FALSE, TRUE)
      BY <1>9 DEF FinishSave
  <2>3. CASE \E by : Shows(by, 0)
    <3>1. shown'.at = 0
        BY <2>3 DEF Shows
    <3> QED BY <3>1 DEF FoundInv
  <2>4. CASE \E by : /\ commitStep = "written" /\ Shows(by, stamp.lkg)
                     /\ activeBinding' = Binding(Head(commits).of, FALSE, TRUE)
    <3>1. shown'.at = stamp.lkg
        BY <2>4 DEF Shows
    <3>2. lkg = [of |-> Head(commits).of, at |-> stamp.lkg]
        BY <2>4 DEF StampInv
    <3>3. lkg.of = Head(commits).of /\ lkg.at = stamp.lkg
        BY <3>2
    <3>4. lkg # NoBinding
      <4>1. Head(commits) \in SaveJobs
          BY <2>4, CommittedJob, JobShapes DEF HeadInv, SaveSteps
      <4>2. lkg \in [of : Manifests, at : Nat]
          BY <1>1, <3>2, <4>1 DEF SaveJobs
      <4> QED BY <4>2, NoBindingAssumption DEF Manifests
    <3>5. activeBinding'.of = lkg.of
        BY <2>4, <3>3 DEF Binding
    <3> QED BY <2>1, <3>1, <3>3, <3>4, <3>5 DEF FoundInv
  <2> QED BY <1>2, <2>1, <2>2, <2>3, <2>4
<1>10. CASE FallBackToMemory
  <2>1. /\ UNCHANGED <<clock, shown, lkg, libraryFile>>
        /\ \/ activeBinding' = activeBinding
           \/ /\ SetActive([activeBinding EXCEPT !.fresh = FALSE])
              /\ MatchOf(activeBinding) = Head(commits).match
      BY <1>10 DEF FallBackToMemory, memory, store
  <2>2. Head(commits).match \in Matches
      BY <1>10, CommittedJob, JobShapes DEF FallBackToMemory, Runs, FallbackJobs
  <2>3. MatchOf(activeBinding) = Head(commits).match => activeBinding # NoBinding
      BY <2>2, ContextAssumption DEF MatchOf
  <2>4. \/ activeBinding' = activeBinding
        \/ /\ activeBinding' = [activeBinding EXCEPT !.fresh = FALSE]
           /\ activeBinding # NoBinding
      BY <2>1, <2>3 DEF SetActive
  <2> QED BY <1>2, <2>1, <2>4, FreshnessAside
<1>11. CASE FallBackToFile
  <2>1. UNCHANGED <<clock, lkg, libraryFile>>
      BY <1>11 DEF FallBackToFile, store
  <2>2. \/ activeBinding' = activeBinding /\ shown' = shown
        \/ /\ lkg # NoBinding /\ SetActive(Binding(lkg.of, TRUE, FALSE))
           /\ Shows(Head(commits).by, lkg.at)
      BY <1>11 DEF FallBackToFile, memory
  <2>3. CASE /\ lkg # NoBinding /\ SetActive(Binding(lkg.of, TRUE, FALSE))
             /\ Shows(Head(commits).by, lkg.at)
    <3>1. activeBinding'.of = lkg.of /\ shown'.at = lkg.at
        BY <2>3 DEF SetActive, Binding, Shows
    <3> QED BY <2>1, <2>3, <3>1 DEF FoundInv
  <2> QED BY <1>2, <2>1, <2>2, <2>3
<1>12. CASE StageCandidate \/ MarkStale
  <2>1. /\ UNCHANGED <<clock, shown, lkg, libraryFile>>
        /\ \/ activeBinding' = activeBinding
           \/ /\ IsOnline(activeBinding)
              /\ \E fresh \in BOOLEAN : activeBinding' = [activeBinding EXCEPT !.fresh = fresh]
      BY <1>12 DEF StageCandidate, MarkStale, store
  <2>2. IsOnline(activeBinding) => activeBinding # NoBinding
      BY DEF IsOnline
  <2> QED BY <1>2, <2>1, <2>2, FreshnessAside
<1>13. CASE BeginLibraryJob
  <2>1. CASE LibraryAccepts(Head(libraryJobs))
      BY <1>3, <1>13, <2>1 DEF BeginLibraryJob
  <2>2. CASE ~LibraryAccepts(Head(libraryJobs))
      BY <1>2, <1>13, <2>2 DEF BeginLibraryJob, memory, controller
  <2> QED BY <2>1, <2>2
<1>14. CASE ReplaceLibrary
  <2>1. UNCHANGED <<clock, shown, lkg, activeBinding>> /\ libraryStep = "writing"
      BY <1>14 DEF ReplaceLibrary, memory, controller
  <2>2. libraryFile.at # clock
      BY <1>1, <2>1 DEF StampInv
  <2> QED BY <2>1, <2>2 DEF FoundInv
<1>15. CASE LibraryWriteFails
    BY <1>2, <1>15 DEF LibraryWriteFails, memory, controller
<1>16. CASE FinishLibraryJob
  <2>1. UNCHANGED <<clock, lkg, libraryFile>>
      BY <1>16 DEF FinishLibraryJob, controller
  <2> DEFINE job == Head(libraryJobs)
             m == IF job.kind = "event" THEN libraryFile.selected ELSE job.match
  <2>2. \/ activeBinding' = activeBinding /\ shown' = shown
        \/ /\ job.kind = "event" => m # NoBinding
           /\ ActivateLocal(m, libraryFile.docs[m], job.by, SelectedAt(libraryFile, m))
      BY <1>16 DEF FinishLibraryJob, memory
  <2>3. ASSUME job.kind = "event" => m # NoBinding,
               ActivateLocal(m, libraryFile.docs[m], job.by, SelectedAt(libraryFile, m))
        PROVE  FoundInv'
    <3>1. m \in Matches
      <4>1. libraryJobs # <<>>
          BY <1>16 DEF FinishLibraryJob, HeadInv
      <4>2. job.kind # "event" => job.match \in Matches
          BY <4>1, LibraryTask
      <4>3. libraryFile.selected \in Matches \cup {NoBinding}
          BY DEF ContextTypes, LibraryTypes, Libraries, LibrariesOf
      <4> QED BY <2>3, <4>2, <4>3
    <3> HIDE DEF m
    <3>2. libraryFile.docs[m] \in Nat
        BY <3>1 DEF ContextTypes, LibraryTypes, Libraries, LibrariesOf
    <3> DEFINE content == libraryFile.docs[m]
               binding == Binding(ManifestOf(m, "local", "standalone", content), FALSE, TRUE)
    <3>3. activeBinding' = binding /\ shown'.at = SelectedAt(libraryFile, m)
        BY <2>3 DEF ActivateLocal, SetActive, Shows
    <3>4. IsLibraryMatch(binding) /\ MatchOf(binding) = m
        BY <3>1, <3>2, BindingFacts
    <3> HIDE DEF binding
    <3>5. IsLibraryMatch(activeBinding)' /\ MatchOf(activeBinding)' = m
        BY <3>3, <3>4 DEF IsLibraryMatch, IsStandalone, IsLocalBinding, MatchOf
    <3> QED BY <2>1, <3>3, <3>5 DEF FoundInv, SelectedAt
  <2> QED BY <1>2, <2>1, <2>2, <2>3
<1>17. CASE CompanionDies
  <2>1. activeBinding' = NoBinding
      BY <1>17 DEF CompanionDies
  <2> QED BY <2>1 DEF FoundInv
<1>18. CASE CompanionStarts
  <2>1. lkg' = lkg
      BY <1>18 DEF CompanionStarts
  <2>2. CASE /\ lkg.of.match \in Matches /\ clock' = 1
             /\ libraryFile' = [libraryFile EXCEPT !.docs[lkg.of.match] = 1, !.selected = lkg.of.match,
                                                  !.at = 1]
             /\ activeBinding' = Binding(ManifestOf(lkg.of.match, "local", "standalone", 1), FALSE, TRUE)
    <3> DEFINE binding == Binding(ManifestOf(lkg.of.match, "local", "standalone", 1), FALSE, TRUE)
    <3>1. IsLibraryMatch(binding) /\ MatchOf(binding) = lkg.of.match
        BY <2>2, BindingFacts
    <3>2. activeBinding' = binding
        BY <2>2
    <3> HIDE DEF binding
    <3>3. IsLibraryMatch(activeBinding)' /\ MatchOf(activeBinding)' = lkg.of.match
        BY <3>1, <3>2 DEF IsLibraryMatch, IsStandalone, IsLocalBinding, MatchOf
    <3>4. libraryFile'.selected = lkg.of.match /\ libraryFile'.at = 1
        BY <2>2 DEF ContextTypes, LibraryTypes, Libraries, LibrariesOf
    <3> QED BY <2>2, <3>3, <3>4 DEF FoundInv
  <2>3. CASE /\ UNCHANGED <<clock, libraryFile>> /\ activeBinding' = Restored /\ LibraryGoesFirst
             /\ shown' = [by |-> 0, at |-> libraryFile.at]
    <3> DEFINE m == libraryFile.selected
               content == libraryFile.docs[m]
               binding == Binding(ManifestOf(m, "local", "standalone", content), FALSE, TRUE)
    <3>1. m \in Matches /\ content \in Nat
        BY <2>3 DEF LibraryGoesFirst, ContextTypes, LibraryTypes, Libraries, LibrariesOf
    <3>2. activeBinding' = binding /\ shown'.at = libraryFile.at
        BY <2>3 DEF Restored
    <3> HIDE DEF content
    <3>3. IsLibraryMatch(binding) /\ MatchOf(binding) = m
        BY <3>1, BindingFacts
    <3> HIDE DEF binding
    <3>4. IsLibraryMatch(activeBinding)' /\ MatchOf(activeBinding)' = m
        BY <3>2, <3>3 DEF IsLibraryMatch, IsStandalone, IsLocalBinding, MatchOf
    <3> QED BY <2>3, <3>2, <3>4 DEF FoundInv
  <2>4. CASE /\ UNCHANGED <<clock, libraryFile>> /\ activeBinding' = Restored /\ ~LibraryGoesFirst
             /\ shown' = [by |-> 0, at |-> IF lkg = NoBinding THEN 0 ELSE lkg.at]
    <3>1. CASE lkg = NoBinding
        BY <2>4, <3>1 DEF FoundInv
    <3>2. CASE lkg # NoBinding
      <4>1. activeBinding' = Binding(lkg.of, TRUE, FALSE) /\ shown'.at = lkg.at
          BY <2>4, <3>2 DEF Restored
      <4>2. activeBinding'.of = lkg.of
          BY <4>1 DEF Binding
      <4> QED BY <2>1, <2>4, <3>2, <4>1, <4>2 DEF FoundInv
    <3> QED BY <3>1, <3>2
  <2> QED BY <1>18, <2>2, <2>3, <2>4, StartMoves
<1> QED BY <1>4, <1>5, <1>6, <1>7, <1>8, <1>9, <1>10, <1>11, <1>12, <1>13, <1>14, <1>15, <1>16,
   <1>17, <1>18 DEF ContextNext, CommitRuns, LibraryRuns

ContextIInv ==
    /\ ContextTypes /\ HeadInv
    /\ SelectionInv /\ CandidateInv /\ DecisionInv /\ AcquisitionIsOwned
    /\ StampInv /\ LibraryInv /\ SavedInv /\ FoundInv

LEMMA InitContextInv == ContextInit => ContextIInv
<1> SUFFICES ASSUME ContextInit PROVE ContextIInv
    OBVIOUS
<1>1. ContextTypes
    BY ContextTypesInit
<1>2. /\ commits = <<>> /\ libraryJobs = <<>> /\ loads = {} /\ JobsOf(commits) = {} /\ JobsOf(libraryJobs) = {}
      /\ Selections = {} /\ Refreshes = {}
    BY EmptyQueues DEF ContextInit, Selections, Refreshes
<1>3. HeadInv
    BY DEF ContextInit, HeadInv, SaveSteps
<1>4. SelectionInv /\ CandidateInv /\ DecisionInv
    BY <1>1, <1>2 DEF ContextInit, SelectionInv, CandidateInv, DecisionInv, ContextTypes, TallyTypes
<1>5. AcquisitionIsOwned
    BY DEF ContextInit, AcquisitionIsOwned
<1>6. /\ libraryFile = EmptyLibrary /\ library = EmptyLibrary
      /\ EmptyLibrary.at = 0 /\ EmptyLibrary.selected = NoBinding
      /\ \A m \in Matches : EmptyLibrary.docs[m] = 0
    BY DEF ContextInit, EmptyLibrary
<1>7. lkg # NoBinding => lkg.at = 0
    BY DEF ContextInit
<1>8. StampInv
    BY <1>6, <1>7 DEF ContextInit, StampInv, SaveSteps
<1>9. LibraryInv
    BY <1>1, <1>6 DEF ContextInit, LibraryInv, ContextTypes, TallyTypes
<1>10. SavedInv
    BY <1>2, <1>6, <1>7 DEF ContextInit, SavedInv, IsStandalone, IsLocalBinding
<1>11. FoundInv
    BY DEF ContextInit, FoundInv
<1> QED BY <1>1, <1>3, <1>4, <1>5, <1>8, <1>9, <1>10, <1>11 DEF ContextIInv

LEMMA ContextIInvInductive == ContextIInv /\ [ContextNext]_contextVars => ContextIInv'
<1> SUFFICES ASSUME ContextIInv, [ContextNext]_contextVars PROVE ContextIInv'
    OBVIOUS
<1>1. /\ ContextTypes /\ HeadInv /\ SelectionInv /\ CandidateInv /\ DecisionInv /\ AcquisitionIsOwned
      /\ StampInv /\ LibraryInv /\ SavedInv /\ FoundInv
    BY DEF ContextIInv
<1>2. ContextTypes'
    BY <1>1, ContextTypesKept
<1>3. HeadInv'
    BY <1>1, HeadKept
<1>4. SelectionInv' /\ CandidateInv'
    BY <1>1, <1>2, PendingKept
<1>5. DecisionInv'
    BY <1>1, DecisionKept
<1>6. AcquisitionIsOwned'
    BY <1>1, OwnedKept
<1>7. LibraryInv'
    BY <1>1, LibraryKept
<1>8. StampInv'
    BY <1>1, StampKept
<1>9. SavedInv'
    BY <1>1, <1>2, SavedKept
<1>10. FoundInv'
    BY <1>1, <1>2, FoundKept
<1> QED BY <1>2, <1>3, <1>4, <1>5, <1>6, <1>7, <1>8, <1>9, <1>10 DEF ContextIInv

\* A restart finds what was saved last: a standalone match that was saved as an overlay is
\* not what the library has, and the stamps of the two files say which is newer.
LEMMA RestartFinds == ContextIInv => RestartRestoresSelection
<1> SUFFICES ASSUME ContextIInv, activeBinding # NoBinding, shown.at = clock, shown.at # 0,
                    IsStandalone(activeBinding)
                       => library.docs[MatchOf(activeBinding)] = activeBinding.of.content
             PROVE  /\ MatchOf(Restored) = MatchOf(activeBinding)
                    /\ IsLocalBinding(Restored) = IsLocalBinding(activeBinding)
    BY DEF RestartRestoresSelection
<1>1. /\ ContextTypes /\ StampInv /\ SavedInv /\ FoundInv
      /\ clock \in Nat /\ libraryFile \in Libraries
      /\ lkg # NoBinding => lkg.at \in Nat /\ lkg.of \in Manifests /\ lkg.at <= clock
      /\ MatchOf(activeBinding) = activeBinding.of.match /\ activeBinding.of \in Manifests
    BY BindingTypes DEF ContextIInv, ContextTypes, MemoryTypes, TallyTypes, LibraryTypes,
       ControllerTypes, Envelopes, StampInv, MatchOf
<1>2. CASE /\ IsLibraryMatch(activeBinding) /\ libraryFile.selected = MatchOf(activeBinding)
           /\ libraryFile.at = clock
  <2> DEFINE m == libraryFile.selected
             content == libraryFile.docs[m]
             binding == Binding(ManifestOf(m, "local", "standalone", content), FALSE, TRUE)
  <2>1. m \in Matches /\ content \in Nat
    <3>1. m \in Matches
        BY <1>1, <1>2 DEF Manifests, ManifestsOf
    <3> QED BY <1>1, <3>1 DEF Libraries, LibrariesOf
  <2>2. LibraryGoesFirst
      BY <1>1, <1>2, <2>1, ContextAssumption DEF LibraryGoesFirst
  <2>3. Restored = binding
      BY <2>2 DEF Restored
  <2> HIDE DEF content
  <2>4. IsLibraryMatch(binding) /\ MatchOf(binding) = m
      BY <2>1, BindingFacts
  <2> HIDE DEF binding
  <2>5. IsLocalBinding(Restored) /\ IsLocalBinding(activeBinding)
      BY <1>2, <2>3, <2>4 DEF IsLibraryMatch, IsStandalone
  <2> QED BY <1>2, <2>3, <2>4, <2>5 DEF IsLocalBinding
<1>3. CASE lkg # NoBinding /\ lkg.of = activeBinding.of /\ lkg.at = clock
  <2>1. ~LibraryGoesFirst
    <3>1. ~LocalOnly(lkg.of)
      <4> SUFFICES ASSUME LocalOnly(lkg.of) PROVE FALSE
          OBVIOUS
      <4>1. library.docs[lkg.of.match] = lkg.of.content
          BY <1>1, <1>3 DEF LocalOnly, IsStandalone, IsLocalBinding
      <4>2. IsOverlay(lkg.of.content)
          BY <1>1, <1>3 DEF SavedInv
      <4>3. lkg.of.match \in Matches
          BY <1>1, <1>3 DEF Manifests, ManifestsOf
      <4> QED BY <4>1, <4>2, <4>3 DEF IsOverlay
    <3>2. libraryFile.at <= clock /\ libraryFile.at # lkg.at /\ libraryFile.at \in Nat
        BY <1>1, <1>3 DEF StampInv, Libraries, LibrariesOf
    <3> QED BY <1>1, <1>3, <3>1, <3>2 DEF LibraryGoesFirst, LocalOnly
  <2> DEFINE binding == Binding(lkg.of, TRUE, FALSE)
  <2>2. Restored = binding
      BY <1>3, <2>1 DEF Restored
  <2>3. binding # NoBinding /\ binding.of = lkg.of
      BY <1>1, <1>3, BindingFacts
  <2> HIDE DEF binding
  <2> QED BY <1>1, <1>3, <2>2, <2>3 DEF IsLocalBinding, MatchOf
<1> QED BY <1>1, <1>2, <1>3 DEF FoundInv

\* The types hold, a restart brings back the match that was saved last, from the file that has
\* it, and an open acquisition always has a refresh or a commit that will end it.
THEOREM ContextIsSound == ContextSpec => []ContextInv
<1>1. ContextIInv => ContextInv
  <2> SUFFICES ASSUME ContextIInv PROVE ContextInv
      OBVIOUS
  <2>1. /\ ContextTypes /\ HeadInv /\ CandidateInv /\ StampInv /\ LibraryInv /\ AcquisitionIsOwned
      BY DEF ContextIInv
  <2>2. \A load \in loads : load.kind # "select" => load.gen <= acquisition[1]
      BY <2>1 DEF CandidateInv, Refreshes
  <2>3. lkg # NoBinding => lkg.of \in Manifests /\ lkg.at \in 0..clock
      BY <2>1 DEF ContextTypes, ControllerTypes, TallyTypes, Envelopes, StampInv
  <2>4. ContextTypeOK
      BY <2>1, <2>2, <2>3 DEF ContextTypeOK, ContextTypes, MemoryTypes, ControllerTypes,
         LibraryTypes, TallyTypes, HeadInv, LibraryInv, Manifests, Bindings, Libraries, Candidates,
         SaveSteps
  <2> QED BY <2>1, <2>4, RestartFinds DEF ContextInv
<1> QED BY <1>1, InitContextInv, ContextIInvInductive, PTL DEF ContextSpec

\* Whatever order the loads, the saves and the refreshes end in, what the operator asked for
\* last is what stays, and so does the newest candidate.
THEOREM NewestRequestWins == ContextSpec => NewestWins
<1>1. ContextIInv /\ [ContextNext]_contextVars =>
        [shown'.by \notin {0, shown.by} /\ libraryJobs' = libraryJobs
           => shown'.by > shown.by]_contextVars
    BY NewestStep DEF ContextIInv
<1>2. ContextIInv /\ [ContextNext]_contextVars =>
        [staged # NoBinding /\ staged' # NoBinding => staged'.by >= staged.by]_contextVars
    BY NewestStep DEF ContextIInv
<1> QED BY <1>1, <1>2, InitContextInv, ContextIInvInductive, PTL DEF ContextSpec, NewestWins,
   NewestSelectionWins, NewestCandidateWins

\* A BP or a confirmed candidate replaces the very binding it was decided on.
THEOREM DecisionsAreCurrent == ContextSpec => DecidedOnWhatIsShown
<1>1. ContextIInv /\ [ContextNext]_contextVars =>
        [(/\ commitStep = "written" /\ Head(commits).kind \in {"overlay", "confirm"}
          /\ shown' # shown /\ shown'.by = Head(commits).by)
           => activeBinding = Head(commits).seen]_contextVars
    BY DecidedStep DEF ContextIInv
<1> QED BY <1>1, InitContextInv, ContextIInvInductive, PTL DEF ContextSpec, DecidedOnWhatIsShown

-----------------------------------------------------------------------------
(* The age of the picture *)

Frames == [number : Nat, at : Nat, clock : BOOLEAN]
Timers == [number : Nat, deadline : Nat, due : Nat]
Pictures == [number : Nat, status : {"awaiting", "fresh", "stale"}, clock : BOOLEAN]

AgeTyped ==
    /\ time \in Nat /\ lease \in Nat \ {0}
    /\ held \in Frames /\ pictured \in Pictures
    /\ pictureTimer = NoTimer \/ pictureTimer \in Timers
    /\ stalePublished \in Nat /\ suppressed \in BOOLEAN
    /\ framesShown \in Nat /\ timerRefreshes \in Nat

\* A frame is none of the future, and only where there is none is a timer suppressed.
FramesAreCounted ==
    /\ held.at <= time /\ held.number <= framesShown /\ stalePublished <= framesShown
    /\ held.number = 0 => ~held.clock
    /\ suppressed => held.number = 0

\* What the picture says of its frame was true, and what it no longer says cannot become true.
PictureIsOfHeld ==
    /\ pictured.number = held.number
    /\ pictured.status # "awaiting" => held.number # 0
    /\ pictured.status = "stale" => time > held.at + StaleAfter
    /\ pictured.clock => held.clock /\ pictured.status = "fresh"
    /\ ~pictured.clock => ~held.clock \/ time > held.at + Earlier(lease, StaleAfter)

\* A frame that is not marked has a timer, for the next thing the picture has to admit, and the
\* timer fires in time for it.
TimerIsForPicture ==
    /\ pictureTimer # NoTimer =>
          /\ held.number # 0 /\ pictureTimer.number = held.number
          /\ pictureTimer.deadline =
                held.at + IF pictured.clock THEN Earlier(lease, StaleAfter) ELSE StaleAfter
          /\ pictureTimer.due <= Later(time, pictureTimer.deadline + 1)
          /\ pictured.status = "fresh" => pictureTimer.due <= pictureTimer.deadline + 1
    /\ held.number # 0 /\ stalePublished # held.number => pictureTimer # NoTimer

\* A frame marked stale is stale, and that is the end of it.
MarkedIsOver ==
    held.number # 0 /\ stalePublished = held.number =>
        pictured.status = "stale" /\ pictureTimer = NoTimer

\* One refresh for the clock, and one for the frame.
RefreshesAreFew ==
    /\ timerRefreshes <= 2
    /\ pictureTimer # NoTimer => timerRefreshes <= 1
    /\ pictured.clock => timerRefreshes = 0

AgeInv ==
    /\ AgeTyped /\ FramesAreCounted /\ PictureIsOfHeld
    /\ TimerIsForPicture /\ MarkedIsOver /\ RefreshesAreFew

\* What the timer is after a publication: it is armed unless the frame is marked and stale, for the
\* moment the picture has to admit something, and it is not late for it.
LEMMA ScheduledIsInTime ==
    ASSUME time \in Nat, lease \in Nat \ {0}, NEW h \in Frames, NEW s \in BOOLEAN, NEW p \in Nat,
           NEW t, t = NoTimer \/ t \in Timers,
           h.at <= time, s => h.number = 0,
           h.number # 0 /\ p = h.number => time > h.at + StaleAfter,
           t # NoTimer /\ t.number = h.number => t.due <= Later(time, t.deadline + 1),
           NEW u, u = Scheduled(t, h, s, p)
    PROVE  /\ u = NoTimer \/ u \in Timers
           /\ u # NoTimer =>
                 /\ h.number # 0 /\ p # h.number /\ u.number = h.number
                 /\ u.deadline =
                       h.at + IF ClockRuns(h) THEN Earlier(lease, StaleAfter) ELSE StaleAfter
                 /\ u.due <= Later(time, u.deadline + 1)
                 /\ Status(h) = "fresh" => u.due <= u.deadline + 1
           /\ h.number # 0 /\ p # h.number => u # NoTimer
<1> DEFINE due == h.at + IF ClockRuns(h) THEN Earlier(lease, StaleAfter) ELSE StaleAfter
           a == ArmedFor(t, h, due)
<1>1. StaleAfter \in Nat /\ h.number \in Nat /\ h.at \in Nat /\ h.clock \in BOOLEAN
    BY StaleAssumption DEF Frames
<1>2. ClockRuns(h) <=> h.number # 0 /\ h.clock /\ time <= h.at + StaleAfter /\ time <= h.at + lease
    BY <1>1 DEF ClockRuns, Status
<1>3. Status(h) = "fresh" <=> h.number # 0 /\ time <= h.at + StaleAfter
    BY <1>1 DEF Status
<1>4. due \in Nat /\ (Status(h) = "fresh" => time <= due)
    BY <1>1, <1>2, <1>3 DEF Earlier
<1>5. /\ a \in Timers /\ a.number = h.number /\ a.deadline = due
      /\ a.due <= Later(time, due + 1)
    <2> HIDE DEF due
    <2>1. CASE t # NoTimer /\ t.number = h.number /\ t.deadline = due
        <3>1. a = t
            BY <2>1 DEF ArmedFor
        <3> QED BY <3>1, <2>1
    <2>2. CASE ~(t # NoTimer /\ t.number = h.number /\ t.deadline = due)
        <3>1. a = [number |-> h.number, deadline |-> due, due |-> Later(time, due)]
            BY <2>2 DEF ArmedFor
        <3>2. Later(time, due) \in Nat /\ Later(time, due) <= Later(time, due + 1)
            BY <1>4 DEF Later
        <3> QED BY <3>1, <3>2, <1>1, <1>4 DEF Timers
    <2> QED BY <2>1, <2>2
<1>6. a # NoTimer
    BY <1>5, NoTimerAssumption DEF Timers
<1>7. CASE h.number = 0
    <2>1. u = NoTimer
        BY <1>7 DEF Scheduled
    <2> QED BY <2>1, <1>3, <1>7
<1>8. CASE h.number # 0 /\ p = h.number
    <2>1. time >= h.at + StaleAfter /\ ~ClockRuns(h) /\ Status(h) # "fresh"
        BY <1>1, <1>2, <1>3, <1>8
    <2>2. u = NoTimer
        BY <2>1, <1>8 DEF Scheduled
    <2> QED BY <2>1, <2>2, <1>8
<1>9. CASE h.number # 0 /\ p # h.number
    <2>1. ~s
        BY <1>9
    <2>2. due = IF ~ClockRuns(h) THEN h.at + StaleAfter
                ELSE Earlier(h.at + StaleAfter, h.at + lease)
        BY <1>1 DEF Earlier
    <2> HIDE DEF due
    <2>3. u = a
        BY <2>1, <2>2, <1>9 DEF Scheduled
    <2>4. Status(h) = "fresh" => a.due <= due + 1
        BY <1>4, <1>5 DEF Later
    <2> HIDE DEF a
    <2> QED BY <2>3, <2>4, <1>5, <1>6, <1>9 DEF due
<1> QED BY <1>1, <1>7, <1>8, <1>9

\* A publication makes the picture, its timer and its mark true of the frame, whatever they were.
LEMMA RefreshedIsRight ==
    ASSUME time \in Nat, lease \in Nat \ {0}, NEW h \in Frames, NEW s \in BOOLEAN, NEW p \in Nat,
           NEW t, t = NoTimer \/ t \in Timers,
           h.at <= time, s => h.number = 0, h.number = 0 => ~h.clock,
           h.number # 0 /\ p = h.number => time > h.at + StaleAfter,
           t # NoTimer /\ t.number = h.number => t.due <= Later(time, t.deadline + 1),
           Refreshed(t, h, s, p), UNCHANGED <<time, lease>>,
           framesShown' \in Nat, h.number <= framesShown', p <= framesShown',
           timerRefreshes' \in Nat
    PROVE  /\ AgeTyped' /\ FramesAreCounted' /\ PictureIsOfHeld'
           /\ TimerIsForPicture' /\ MarkedIsOver'
<1>1. /\ pictured' = [number |-> h.number, status |-> Status(h), clock |-> ClockRuns(h)]
      /\ pictureTimer' = Scheduled(t, h, s, p) /\ held' = h /\ suppressed' = s
      /\ stalePublished' = IF h.number = 0 THEN 0 ELSE p
    BY DEF Refreshed
<1>2. StaleAfter \in Nat /\ h.number \in Nat /\ h.at \in Nat /\ h.clock \in BOOLEAN
    BY StaleAssumption DEF Frames
<1>3. /\ pictured'.number = h.number /\ pictured'.status = Status(h)
      /\ pictured'.clock = ClockRuns(h)
    BY <1>1
<1>4. /\ Status(h) \in {"awaiting", "fresh", "stale"}
      /\ Status(h) # "awaiting" => h.number # 0
      /\ Status(h) = "stale" => time > h.at + StaleAfter
      /\ h.number # 0 /\ time > h.at + StaleAfter => Status(h) = "stale"
    BY <1>2 DEF Status
<1>5. /\ ClockRuns(h) \in BOOLEAN
      /\ ClockRuns(h) => h.clock /\ Status(h) = "fresh"
      /\ ~ClockRuns(h) => ~h.clock \/ time > h.at + Earlier(lease, StaleAfter)
    <2>1. Status(h) # "fresh" => ~h.clock \/ time > h.at + StaleAfter
        BY <1>2 DEF Status
    <2> QED BY <2>1, <1>2 DEF ClockRuns, Earlier
<1> DEFINE u == pictureTimer'
<1>6. /\ u = NoTimer \/ u \in Timers
      /\ u # NoTimer =>
            /\ h.number # 0 /\ p # h.number /\ u.number = h.number
            /\ u.deadline = h.at + IF ClockRuns(h) THEN Earlier(lease, StaleAfter) ELSE StaleAfter
            /\ u.due <= Later(time, u.deadline + 1)
            /\ Status(h) = "fresh" => u.due <= u.deadline + 1
      /\ h.number # 0 /\ p # h.number => u # NoTimer
    BY <1>1, ScheduledIsInTime
<1>7. AgeTyped'
    <2>1. pictured' \in Pictures
        BY <1>1, <1>2, <1>4, <1>5 DEF Pictures
    <2> QED BY <2>1, <1>1, <1>6 DEF AgeTyped
<1>8. FramesAreCounted'
    BY <1>1, <1>2 DEF FramesAreCounted
<1>9. PictureIsOfHeld'
    BY <1>1, <1>3, <1>4, <1>5 DEF PictureIsOfHeld
<1>10. TimerIsForPicture'
    BY <1>1, <1>3, <1>6 DEF TimerIsForPicture
<1>11. MarkedIsOver'
    BY <1>1, <1>3, <1>4, <1>6 DEF MarkedIsOver
<1> QED BY <1>7, <1>8, <1>9, <1>10, <1>11

LEMMA AgeHoldsAtFirst == StaleInit => AgeInv
<1> SUFFICES ASSUME StaleInit PROVE AgeInv
    OBVIOUS
<1>1. lease \in Nat \ {0} /\ StaleAfter \in Nat
    BY StaleAssumption DEF StaleInit
<1>2. held \in Frames /\ pictured \in Pictures
    BY DEF StaleInit, NoHeld, Frames, Pictures
<1>3. held.at = 0 /\ held.number = 0 /\ ~held.clock
      /\ pictured.number = 0 /\ pictured.status = "awaiting" /\ ~pictured.clock
    BY DEF StaleInit, NoHeld
<1>4. time = 0 /\ pictureTimer = NoTimer /\ stalePublished = 0 /\ ~suppressed
      /\ suppressed \in BOOLEAN /\ framesShown = 0 /\ timerRefreshes = 0
    BY DEF StaleInit
<1> QED
    BY <1>1, <1>2, <1>3, <1>4
    DEF AgeInv, AgeTyped, FramesAreCounted, PictureIsOfHeld, TimerIsForPicture, MarkedIsOver,
        RefreshesAreFew

\* What a timer does when it is past its deadline: it takes the clock off the picture, or it marks
\* a frame that is stale by then.
LEMMA DeadlineIsRight ==
    ASSUME AgeInv, DeadlineIsPast
    PROVE  /\ timerRefreshes' = timerRefreshes + 1 /\ timerRefreshes' <= 2
           /\ \/ /\ Refreshed(NoTimer, held, suppressed, stalePublished)
                 /\ timerRefreshes = 0 /\ time > held.at + lease /\ stalePublished # held.number
              \/ /\ Refreshed(NoTimer, held, suppressed, held.number)
                 /\ time > held.at + StaleAfter
<1>1. /\ AgeTyped /\ TimerIsForPicture /\ MarkedIsOver /\ RefreshesAreFew
      /\ pictureTimer # NoTimer /\ time > pictureTimer.deadline
      /\ timerRefreshes' = timerRefreshes + 1
    BY DEF AgeInv, DeadlineIsPast
<1>2. /\ held.at \in Nat /\ StaleAfter \in Nat /\ lease \in Nat /\ time \in Nat
      /\ timerRefreshes \in Nat
    BY <1>1, StaleAssumption DEF AgeTyped, Frames
<1>3. /\ held.number # 0 /\ timerRefreshes <= 1 /\ (pictured.clock => timerRefreshes = 0)
      /\ stalePublished # held.number
      /\ pictureTimer.deadline =
            held.at + IF pictured.clock THEN Earlier(lease, StaleAfter) ELSE StaleAfter
    BY <1>1 DEF TimerIsForPicture, MarkedIsOver, RefreshesAreFew
<1>4. CASE pictured.clock /\ time > held.at + lease
    BY <1>1, <1>2, <1>3, <1>4 DEF DeadlineIsPast
<1>5. CASE ~(pictured.clock /\ time > held.at + lease)
    <2>1. time > held.at + StaleAfter
        BY <1>1, <1>2, <1>3, <1>5 DEF Earlier
    <2> QED BY <2>1, <1>1, <1>2, <1>3, <1>5 DEF DeadlineIsPast
<1> QED BY <1>4, <1>5

LEMMA AgeIsKept == AgeInv /\ [StaleNext]_staleVars => AgeInv'
<1> SUFFICES ASSUME AgeInv, [StaleNext]_staleVars PROVE AgeInv'
    OBVIOUS
<1> USE DEF AgeInv
<1>1. /\ time \in Nat /\ lease \in Nat \ {0} /\ held \in Frames /\ pictured \in Pictures
      /\ pictureTimer = NoTimer \/ pictureTimer \in Timers
      /\ stalePublished \in Nat /\ suppressed \in BOOLEAN
      /\ framesShown \in Nat /\ timerRefreshes \in Nat
    BY DEF AgeTyped
<1>2. /\ StaleAfter \in Nat /\ held.number \in Nat /\ held.at \in Nat /\ held.clock \in BOOLEAN
    BY <1>1, StaleAssumption DEF Frames
<1>3. /\ held.at <= time /\ held.number <= framesShown /\ stalePublished <= framesShown
      /\ held.number = 0 => ~held.clock
      /\ suppressed => held.number = 0
    BY DEF FramesAreCounted
<1>4. /\ held.number # 0 /\ stalePublished = held.number => time > held.at + StaleAfter
      /\ pictureTimer # NoTimer => pictureTimer.number = held.number
      /\ pictureTimer # NoTimer => pictureTimer.due <= Later(time, pictureTimer.deadline + 1)
    BY DEF MarkedIsOver, PictureIsOfHeld, TimerIsForPicture
<1>5. ASSUME NEW runs \in BOOLEAN, FrameIsShown(runs) PROVE AgeInv'
    <2> DEFINE h == [number |-> framesShown + 1, at |-> time, clock |-> runs]
    <2>1. /\ h \in Frames /\ h.number = framesShown + 1 /\ h.at = time /\ h.number # 0
        BY <1>1 DEF Frames
    <2>2. /\ Refreshed(pictureTimer, h, FALSE, stalePublished)
          /\ framesShown' = framesShown + 1 /\ timerRefreshes' = 0 /\ UNCHANGED <<time, lease>>
        BY <1>5 DEF FrameIsShown
    <2> HIDE DEF h
    <2>3. h.number # stalePublished /\ (pictureTimer # NoTimer => pictureTimer.number # h.number)
        BY <2>1, <1>1, <1>2, <1>3, <1>4
    <2>4. /\ h.at <= time /\ h.number <= framesShown' /\ stalePublished <= framesShown'
          /\ framesShown' \in Nat /\ timerRefreshes' \in Nat
        BY <2>1, <2>2, <1>1, <1>3
    <2>5. /\ AgeTyped' /\ FramesAreCounted' /\ PictureIsOfHeld'
          /\ TimerIsForPicture' /\ MarkedIsOver'
        BY <2>1, <2>2, <2>3, <2>4, <1>1, RefreshedIsRight
    <2> QED BY <2>2, <2>5 DEF RefreshesAreFew
<1>6. ASSUME TelemetryIsCleared PROVE AgeInv'
    <2>1. /\ NoHeld \in Frames /\ NoHeld.number = 0 /\ NoHeld.at = 0 /\ NoHeld.clock = FALSE
        BY DEF NoHeld, Frames
    <2>2. /\ Refreshed(NoTimer, NoHeld, TRUE, 0)
          /\ framesShown' = framesShown /\ timerRefreshes' = 0 /\ UNCHANGED <<time, lease>>
        BY <1>6 DEF TelemetryIsCleared
    <2>3. /\ NoHeld.at <= time /\ NoHeld.number <= framesShown' /\ 0 <= framesShown'
          /\ framesShown' \in Nat /\ timerRefreshes' \in Nat /\ 0 \in Nat
        BY <2>1, <2>2, <1>1
    <2> HIDE DEF NoHeld
    <2>4. /\ AgeTyped' /\ FramesAreCounted' /\ PictureIsOfHeld'
          /\ TimerIsForPicture' /\ MarkedIsOver'
        BY <2>1, <2>2, <2>3, <1>1, RefreshedIsRight
    <2> QED BY <2>2, <2>4 DEF RefreshesAreFew
<1>7. ASSUME RefreshedForAnotherReason PROVE AgeInv'
    <2>1. /\ Refreshed(pictureTimer, held, suppressed, stalePublished)
          /\ framesShown' = framesShown /\ timerRefreshes' = timerRefreshes
          /\ UNCHANGED <<time, lease>>
        BY <1>7 DEF RefreshedForAnotherReason
    <2>2. /\ AgeTyped' /\ FramesAreCounted' /\ PictureIsOfHeld'
          /\ TimerIsForPicture' /\ MarkedIsOver'
        BY <2>1, <1>1, <1>3, <1>4, RefreshedIsRight
    <2>3. RefreshesAreFew'
        <3>1. pictured'.clock => pictured.clock
            <4>1. pictured'.clock = ClockRuns(held)
                BY <2>1 DEF Refreshed
            <4>2. ClockRuns(held) => held.clock /\ time <= held.at + Earlier(lease, StaleAfter)
                BY <1>1, <1>2 DEF ClockRuns, Status, Earlier
            <4> QED BY <4>1, <4>2, <1>1, <1>2 DEF PictureIsOfHeld, Earlier
        <3>2. pictureTimer' # NoTimer => timerRefreshes <= 1
            <4>1. CASE pictureTimer # NoTimer
                BY <4>1 DEF RefreshesAreFew
            <4>2. CASE pictureTimer = NoTimer
                <5>1. held.number = 0 \/ stalePublished = held.number
                    BY <4>2 DEF TimerIsForPicture
                <5>2. held' = held /\ (held.number # 0 => stalePublished' = stalePublished)
                    BY <2>1 DEF Refreshed
                <5>3. pictureTimer' = NoTimer
                    BY <2>2, <5>1, <5>2 DEF TimerIsForPicture, MarkedIsOver
                <5> QED BY <5>3
            <4> QED BY <4>1, <4>2
        <3> QED BY <2>1, <3>1, <3>2 DEF RefreshesAreFew
    <2> QED BY <2>2, <2>3
<1>8. ASSUME DeadlineIsNotYetPast PROVE AgeInv'
    <2>1. /\ pictureTimer # NoTimer
          /\ pictureTimer' = [pictureTimer EXCEPT !.due = pictureTimer.deadline + 1]
          /\ UNCHANGED <<time, lease, held, stalePublished, suppressed, pictured, framesShown,
                         timerRefreshes>>
        BY <1>8 DEF DeadlineIsNotYetPast
    <2>2. /\ pictureTimer' \in Timers /\ pictureTimer'.number = pictureTimer.number
          /\ pictureTimer'.deadline = pictureTimer.deadline
          /\ pictureTimer'.due = pictureTimer'.deadline + 1
        BY <2>1, <1>1 DEF Timers
    <2>3. pictureTimer' # NoTimer
        BY <2>2, NoTimerAssumption DEF Timers
    <2>4. pictureTimer'.deadline \in Nat
        BY <2>2 DEF Timers
    <2>5. TimerIsForPicture'
        BY <2>1, <2>2, <2>3, <2>4, <1>1 DEF TimerIsForPicture, Later
    <2>6. AgeTyped'
        BY <2>1, <2>2 DEF AgeTyped
    <2>7. MarkedIsOver' /\ RefreshesAreFew'
        BY <2>1, <2>3 DEF MarkedIsOver, RefreshesAreFew
    <2> QED BY <2>1, <2>5, <2>6, <2>7 DEF FramesAreCounted, PictureIsOfHeld
<1>9. ASSUME DeadlineIsPast PROVE AgeInv'
    <2>1. UNCHANGED <<time, lease, framesShown>>
        BY <1>9 DEF DeadlineIsPast
    <2>2. /\ timerRefreshes' = timerRefreshes + 1 /\ timerRefreshes' <= 2
          /\ \/ /\ Refreshed(NoTimer, held, suppressed, stalePublished)
                /\ timerRefreshes = 0 /\ time > held.at + lease /\ stalePublished # held.number
             \/ /\ Refreshed(NoTimer, held, suppressed, held.number)
                /\ time > held.at + StaleAfter
        BY <1>9, DeadlineIsRight
    <2>3. timerRefreshes' \in Nat /\ framesShown' \in Nat
        BY <2>1, <2>2, <1>1
    <2>4. /\ AgeTyped' /\ FramesAreCounted' /\ PictureIsOfHeld'
          /\ TimerIsForPicture' /\ MarkedIsOver'
        <3>1. CASE Refreshed(NoTimer, held, suppressed, stalePublished)
            BY <3>1, <2>1, <2>3, <1>1, <1>3, <1>4, RefreshedIsRight
        <3>2. CASE Refreshed(NoTimer, held, suppressed, held.number) /\ time > held.at + StaleAfter
            BY <3>2, <2>1, <2>3, <1>1, <1>2, <1>3, RefreshedIsRight
        <3> QED BY <2>2, <3>1, <3>2
    <2>5. ~pictured'.clock
        <3>1. pictured'.clock = ClockRuns(held)
            BY <2>2 DEF Refreshed
        <3>2. time > held.at + lease \/ time > held.at + StaleAfter
            BY <2>2
        <3>3. time > held.at + StaleAfter => Status(held) # "fresh"
            BY <1>1, <1>2 DEF Status
        <3>4. time > held.at + lease => ~(time - held.at <= lease)
            BY <1>1, <1>2
        <3>5. ~ClockRuns(held)
            BY <3>2, <3>3, <3>4 DEF ClockRuns
        <3> QED BY <3>1, <3>5
    <2>6. pictureTimer' # NoTimer => timerRefreshes' <= 1
        <3>1. CASE Refreshed(NoTimer, held, suppressed, stalePublished) /\ timerRefreshes = 0
            BY <3>1, <2>2
        <3>2. CASE Refreshed(NoTimer, held, suppressed, held.number)
            <4>1. held' = held /\ (held.number # 0 => stalePublished' = held.number)
                BY <3>2 DEF Refreshed
            <4>2. pictureTimer' = NoTimer
                BY <2>4, <4>1 DEF TimerIsForPicture, MarkedIsOver
            <4> QED BY <4>2
        <3> QED BY <2>2, <3>1, <3>2
    <2>7. RefreshesAreFew'
        BY <2>2, <2>5, <2>6 DEF RefreshesAreFew
    <2> QED BY <2>4, <2>7
<1>10. ASSUME MomentPasses PROVE AgeInv'
    <2>1. /\ time' = time + 1
          /\ UNCHANGED <<lease, held, pictureTimer, stalePublished, suppressed, pictured,
                         framesShown, timerRefreshes>>
        BY <1>10 DEF MomentPasses
    <2>2. time' \in Nat /\ time' >= time
        BY <2>1, <1>1
    <2>3. PictureIsOfHeld'
        <3>1. Earlier(lease, StaleAfter) \in Nat
            BY <1>1, <1>2 DEF Earlier
        <3> QED BY <3>1, <2>1, <2>2, <1>1, <1>2 DEF PictureIsOfHeld
    <2>4. TimerIsForPicture'
        <3>1. ASSUME pictureTimer # NoTimer
              PROVE pictureTimer.due <= Later(time', pictureTimer.deadline + 1)
            <4>1. pictureTimer.due \in Nat /\ pictureTimer.deadline \in Nat
                BY <3>1, <1>1 DEF Timers
            <4> QED BY <3>1, <4>1, <2>2, <1>1, <1>4 DEF Later
        <3> QED BY <3>1, <2>1 DEF TimerIsForPicture
    <2>5. AgeTyped' /\ FramesAreCounted'
        BY <2>1, <2>2, <1>1, <1>2 DEF AgeTyped, FramesAreCounted
    <2> QED BY <2>1, <2>3, <2>4, <2>5 DEF MarkedIsOver, RefreshesAreFew
<1>11. CASE UNCHANGED staleVars
    BY <1>11 DEF staleVars, AgeTyped, FramesAreCounted, PictureIsOfHeld, TimerIsForPicture,
        MarkedIsOver, RefreshesAreFew
<1> QED BY <1>5, <1>6, <1>7, <1>8, <1>9, <1>10, <1>11 DEF StaleNext

\* FreshnessIsWatched and SilenceIsQuiet: as long as the picture calls its frame fresh, or shows
\* its clock running, a timer is armed that ends this in time, and a silent source is published
\* again at most twice (projection-coordinator.ts, scheduleStaleDeadline and handleStaleDeadline).
THEOREM PictureIsWatched == StaleSpec => [](FreshnessIsWatched /\ SilenceIsQuiet)
<1>1. AgeInv => FreshnessIsWatched /\ SilenceIsQuiet
    <2> SUFFICES ASSUME AgeInv PROVE FreshnessIsWatched /\ SilenceIsQuiet
        OBVIOUS
    <2> USE DEF AgeInv
    <2>1. /\ held.at \in Nat /\ StaleAfter \in Nat /\ lease \in Nat
          /\ pictureTimer # NoTimer => pictureTimer.due \in Nat /\ pictureTimer.deadline \in Nat
        BY StaleAssumption DEF AgeTyped, Frames, Timers
    <2>2. pictured.status = "fresh" => pictureTimer # NoTimer
        BY DEF PictureIsOfHeld, TimerIsForPicture, MarkedIsOver
    <2>3. pictureTimer # NoTimer =>
              /\ held.number # 0 /\ pictureTimer.number = held.number
              /\ pictureTimer.deadline =
                    held.at + IF pictured.clock THEN Earlier(lease, StaleAfter) ELSE StaleAfter
              /\ pictured.status = "fresh" => pictureTimer.due <= pictureTimer.deadline + 1
        BY DEF TimerIsForPicture
    <2>4. pictured.clock => pictured.status = "fresh"
        BY DEF PictureIsOfHeld
    <2>5. FreshnessIsWatched
        <3>1. pictured.number = held.number
            BY DEF PictureIsOfHeld
        <3>2. ASSUME pictured.status = "fresh"
              PROVE  /\ pictureTimer.due <= held.at + StaleAfter + 1
                     /\ pictured.clock =>
                           pictureTimer.due <= held.at + Earlier(lease, StaleAfter) + 1
            BY <3>2, <2>1, <2>2, <2>3 DEF Earlier
        <3> QED BY <3>1, <3>2, <2>2, <2>3, <2>4 DEF FreshnessIsWatched
    <2>6. SilenceIsQuiet
        BY <2>3 DEF SilenceIsQuiet, MarkedIsOver, RefreshesAreFew
    <2> QED BY <2>5, <2>6
<1>2. AgeInv /\ [StaleNext]_staleVars => AgeInv'
    BY AgeIsKept
<1>3. StaleInit => AgeInv
    BY AgeHoldsAtFirst
<1> QED BY <1>1, <1>2, <1>3, PTL DEF StaleSpec

\* StaleStaysStale: a picture that has said that its frame is stale, or that has taken its clock
\* off, does not take it back for this frame, whatever refreshes it.
THEOREM StaleIsNotTakenBack == StaleSpec => StaleStaysStale
<1>1. StaleInit => AgeInv
    BY AgeHoldsAtFirst
<1>2. AgeInv /\ [StaleNext]_staleVars => AgeInv'
    BY AgeIsKept
<1>3. AgeInv /\ [StaleNext]_staleVars =>
          [pictured'.number = pictured.number =>
              /\ pictured.status = "stale" => pictured'.status = "stale"
              /\ ~pictured.clock => ~pictured'.clock]_staleVars
    <2> SUFFICES ASSUME AgeInv, [StaleNext]_staleVars, pictured'.number = pictured.number
                 PROVE  /\ pictured.status = "stale" => pictured'.status = "stale"
                        /\ ~pictured.clock => ~pictured'.clock
        OBVIOUS
    <2>1. /\ AgeTyped /\ FramesAreCounted /\ PictureIsOfHeld
          /\ time \in Nat /\ lease \in Nat /\ held.number \in Nat /\ held.at \in Nat
          /\ held.clock \in BOOLEAN /\ framesShown \in Nat /\ StaleAfter \in Nat
        BY StaleAssumption DEF AgeInv, AgeTyped, Frames
    <2>2. ASSUME NEW t, NEW s, NEW p, Refreshed(t, held, s, p)
          PROVE  /\ pictured.status = "stale" => pictured'.status = "stale"
                 /\ ~pictured.clock => ~pictured'.clock
        <3>1. pictured'.status = Status(held) /\ pictured'.clock = ClockRuns(held)
            BY <2>2 DEF Refreshed
        <3>2. pictured.status = "stale" => Status(held) = "stale"
            BY <2>1 DEF PictureIsOfHeld, Status
        <3>3. ~pictured.clock => ~ClockRuns(held)
            BY <2>1 DEF PictureIsOfHeld, ClockRuns, Status, Earlier
        <3> QED BY <3>1, <3>2, <3>3
    <2>3. ASSUME NEW runs \in BOOLEAN, FrameIsShown(runs) PROVE FALSE
        <3>1. pictured'.number = framesShown + 1
            BY <2>3 DEF FrameIsShown, Refreshed
        <3>2. pictured.number <= framesShown
            BY <2>1 DEF PictureIsOfHeld, FramesAreCounted
        <3>3. pictured'.number <= framesShown
            BY <3>2
        <3> QED
            BY <3>1, <3>3, <2>1
    <2>4. ASSUME TelemetryIsCleared PROVE FALSE
        <3>1. pictured'.number = 0 /\ held.number # 0
            BY <2>4 DEF TelemetryIsCleared, Refreshed, NoHeld
        <3> QED BY <3>1, <2>1 DEF PictureIsOfHeld
    <2>5. CASE RefreshedForAnotherReason
        BY <2>2, <2>5 DEF RefreshedForAnotherReason
    <2>6. CASE DeadlineIsPast
        <3>1. \/ Refreshed(NoTimer, held, suppressed, stalePublished)
              \/ Refreshed(NoTimer, held, suppressed, held.number)
            BY <2>6 DEF DeadlineIsPast
        <3> QED BY <3>1, <2>2
    <2>7. CASE pictured' = pictured
        BY <2>7
    <2> QED
        BY <2>3, <2>4, <2>5, <2>6, <2>7 DEF StaleNext, DeadlineIsNotYetPast, MomentPasses, staleVars
<1> QED BY <1>1, <1>2, <1>3, PTL DEF StaleSpec, StaleStaysStale
=============================================================================
