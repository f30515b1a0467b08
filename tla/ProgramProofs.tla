---------------------------- MODULE ProgramProofs ----------------------------
(***************************************************************************)
(* Proofs about what the programme shows.  The scenes: for every set of    *)
(* scenes, every number of takes, changes and faults of OBS, the active    *)
(* scene is the one on air unless OBS was moved otherwise, a take replaces *)
(* the scene it was decided on, and a reveal does not outlive its scene.   *)
(* The series: a result that is frozen stays as it is, and is the result   *)
(* of the map really played for its slot.  The identity: who is proven to  *)
(* play was on a complete list, the lineup is the last exact one, and a    *)
(* refresh without anything new changes nothing.                           *)
(***************************************************************************)
EXTENDS ProgramScenes, SeriesProgress, IdentityLineup, ProgramDirector, SequenceTheorems,
        FiniteSetTheorems, TLAPS

-----------------------------------------------------------------------------
(* The queue of takes *)

TakeRequests == [auto : BOOLEAN, scene : Scenes, rev : Nat, seen : Scenes, final : BOOLEAN,
                 gen : Nat, key : Nat]

\* The director has a take in the queue q, and no more than one.
AutoIn(q) == \E i \in DOMAIN q : q[i].auto
OneAutoIn(q) == \A i, j \in DOMAIN q : q[i].auto /\ q[j].auto => i = j

\* A take decided at revision rev was decided on the scene sc; none was decided later.
SeenAt(q, rev, sc) ==
    \A i \in DOMAIN q : q[i].rev <= rev /\ (q[i].rev = rev => q[i].seen = sc)

LEMMA AppendTake ==
    ASSUME NEW q \in Seq(TakeRequests), NEW take \in TakeRequests, NEW p, p = Append(q, take),
           NEW rev \in Nat, NEW sc, SeenAt(q, rev, sc), take.rev = rev, take.seen = sc
    PROVE  /\ p \in Seq(TakeRequests) /\ p # <<>> /\ SeenAt(p, rev, sc)
           /\ AutoIn(p) <=> AutoIn(q) \/ take.auto
           /\ OneAutoIn(q) /\ ~(AutoIn(q) /\ take.auto) => OneAutoIn(p)
           /\ q # <<>> => Head(p) = Head(q)
<1>1. /\ p \in Seq(TakeRequests) /\ Len(q) \in Nat /\ Len(p) = Len(q) + 1 /\ p[Len(q) + 1] = take
      /\ \A i \in 1..Len(q) : p[i] = q[i]
      /\ DOMAIN q = 1..Len(q) /\ DOMAIN p = 1..Len(p) /\ p # <<>>
    BY AppendProperties
<1>2. /\ \A i \in DOMAIN p : i \in DOMAIN q \/ i = Len(q) + 1
      /\ \A i \in DOMAIN q : i \in DOMAIN p /\ p[i] = q[i]
      /\ Len(q) + 1 \in DOMAIN p
    BY <1>1
<1>3. AutoIn(p) <=> AutoIn(q) \/ take.auto
    BY <1>1, <1>2 DEF AutoIn
<1>4. ASSUME OneAutoIn(q), ~(AutoIn(q) /\ take.auto) PROVE OneAutoIn(p)
    <2> SUFFICES ASSUME NEW i \in DOMAIN p, NEW j \in DOMAIN p, p[i].auto, p[j].auto
                 PROVE  i = j
        BY DEF OneAutoIn
    <2>1. CASE i \in DOMAIN q /\ j \in DOMAIN q
        BY <1>2, <1>4, <2>1 DEF OneAutoIn
    <2>2. CASE i = Len(q) + 1 /\ j = Len(q) + 1
        BY <2>2
    <2>3. ~(i \in DOMAIN q /\ j = Len(q) + 1) /\ ~(j \in DOMAIN q /\ i = Len(q) + 1)
        BY <1>1, <1>2, <1>4 DEF AutoIn
    <2> QED BY <1>2, <2>1, <2>2, <2>3
<1>5. q # <<>> => Head(p) = Head(q)
    <2> SUFFICES ASSUME q # <<>> PROVE Head(p) = Head(q)
        OBVIOUS
    <2>1. 1 \in 1..Len(q) /\ Head(q) = q[1] /\ Head(p) = p[1]
        BY <1>1
    <2> QED BY <1>1, <2>1
<1>6. SeenAt(p, rev, sc)
    <2> SUFFICES ASSUME NEW i \in DOMAIN p
                 PROVE  p[i].rev <= rev /\ (p[i].rev = rev => p[i].seen = sc)
        BY DEF SeenAt
    <2>1. CASE i \in DOMAIN q
        BY <1>2, <2>1 DEF SeenAt
    <2>2. CASE i = Len(q) + 1
        BY <1>1, <2>2
    <2> QED BY <1>2, <2>1, <2>2
<1> QED BY <1>1, <1>3, <1>4, <1>5, <1>6

LEMMA TailDiffers == ASSUME NEW S, NEW q \in Seq(S), q # <<>> PROVE Tail(q) # q
<1>1. Len(q) \in Nat /\ Len(Tail(q)) = Len(q) - 1
    BY HeadTailProperties
<1>2. \A n \in Nat : n - 1 # n
    OBVIOUS
<1>3. Len(Tail(q)) # Len(q)
    BY <1>1, <1>2
<1> QED BY <1>3

LEMMA TailTake ==
    ASSUME NEW q \in Seq(TakeRequests), q # <<>>, OneAutoIn(q), NEW p, p = Tail(q),
           NEW rev, NEW sc, SeenAt(q, rev, sc)
    PROVE  /\ p \in Seq(TakeRequests) /\ p # q /\ OneAutoIn(p) /\ SeenAt(p, rev, sc)
           /\ Head(q) \in TakeRequests
           /\ Head(q).rev = rev => Head(q).seen = sc
           /\ Head(q).auto => AutoIn(q) /\ ~AutoIn(p)
           /\ ~Head(q).auto => (AutoIn(p) <=> AutoIn(q))
<1>1. /\ p \in Seq(TakeRequests) /\ Len(q) \in Nat \ {0} /\ Len(p) = Len(q) - 1
      /\ \A i \in 1..Len(p) : p[i] = q[i + 1]
      /\ DOMAIN q = 1..Len(q) /\ DOMAIN p = 1..Len(p)
    BY HeadTailProperties
<1>2. Head(q) = q[1] /\ Head(q) \in TakeRequests /\ 1 \in DOMAIN q
    BY <1>1
<1>3. \A i \in DOMAIN p : i + 1 \in DOMAIN q /\ i + 1 # 1 /\ i \in Int /\ p[i] = q[i + 1]
    BY <1>1
<1>4. \A i \in DOMAIN q : i = 1 \/ (i - 1 \in DOMAIN p /\ p[i - 1] = q[i])
    BY <1>1
<1>5. OneAutoIn(p)
    <2> SUFFICES ASSUME NEW i \in DOMAIN p, NEW j \in DOMAIN p, p[i].auto, p[j].auto
                 PROVE  i = j
        BY DEF OneAutoIn
    <2>1. i + 1 = j + 1
        BY <1>3 DEF OneAutoIn
    <2> QED BY <1>3, <2>1
<1>6. ASSUME Head(q).auto PROVE AutoIn(q) /\ ~AutoIn(p)
    <2>1. AutoIn(q)
        BY <1>2, <1>6 DEF AutoIn
    <2>2. ASSUME NEW i \in DOMAIN p, p[i].auto PROVE FALSE
        BY <1>2, <1>3, <1>6, <2>2 DEF OneAutoIn
    <2> QED BY <2>1, <2>2 DEF AutoIn
<1>7. ASSUME ~Head(q).auto PROVE AutoIn(p) <=> AutoIn(q)
    BY <1>2, <1>3, <1>4, <1>7 DEF AutoIn
<1>8. SeenAt(p, rev, sc) /\ (Head(q).rev = rev => Head(q).seen = sc)
    BY <1>2, <1>3 DEF SeenAt
<1>9. p # q
    BY TailDiffers
<1> QED BY <1>1, <1>2, <1>5, <1>6, <1>7, <1>8, <1>9

\* Once the revision has moved on, every take in the queue was decided earlier.
LEMMA LaterRevision ==
    ASSUME NEW q \in Seq(TakeRequests), NEW rev \in Nat, NEW sc, SeenAt(q, rev, sc), NEW other
    PROVE  SeenAt(q, rev + 1, other)
<1> SUFFICES ASSUME NEW i \in DOMAIN q
             PROVE  q[i].rev <= rev + 1 /\ (q[i].rev = rev + 1 => q[i].seen = other)
    BY DEF SeenAt
<1>1. q[i] \in TakeRequests
    BY ElementOfSeq, LenProperties
<1>2. q[i].rev \in Nat
    BY <1>1 DEF TakeRequests
<1>3. q[i].rev <= rev
    BY DEF SeenAt
<1> QED BY <1>2, <1>3

-----------------------------------------------------------------------------
(* The scenes: the inductive invariant *)

BpSessions == [state : {"hidden", "playing", "hiding"}, rev : Nat \ {0},
               by : {"nobody", "operator", "take"}]
Directors == [manual : BOOLEAN, generation : Nat, failed : BOOLEAN, inFlight : BOOLEAN]

SceneTypes ==
    /\ scene \in Scenes /\ obs \in Scenes /\ late \subseteq Scenes /\ available \subseteq Scenes
    /\ "waiting" \in available
    /\ sceneRev \in Nat /\ prepared \in Nat /\ execution \in Nat
    /\ phase \in {"queued", "ready", "calling", "on air", "rolling back"}
    /\ mode \in {"preparation", "live", "hidden"}
    /\ bp \in BpSessions /\ director \in Directors

TakesInv ==
    /\ takes \in Seq(TakeRequests)
    /\ OneAutoIn(takes) /\ (director.inFlight <=> AutoIn(takes))
    /\ SeenAt(takes, sceneRev, scene)

UnderWay ==
    /\ phase # "queued" => takes # <<>>
    /\ prepared # 0 => phase # "queued" /\ Take.scene = "bp"

\* OBS shows the active scene until it was asked otherwise, and again when the take is over.
OnAirInv == phase \notin {"on air", "rolling back"} /\ ~apart => obs = scene

\* A reveal begun by a take is playing, and either BP is on air or the take that began it, and
\* will end it if it fails, is under way.
RevealInv ==
    bp.by = "take" =>
        /\ bp.state = "playing"
        /\ scene = "bp" \/ (phase # "queued" /\ Take.scene = "bp" /\ prepared = bp.rev)

ScenesIInv == SceneTypes /\ TakesInv /\ UnderWay /\ OnAirInv /\ RevealInv

LEMMA InitScenesInv == ScenesInit => ScenesIInv
<1> SUFFICES ASSUME ScenesInit PROVE ScenesIInv
    OBVIOUS
<1>1. bp \in BpSessions /\ director \in Directors
    BY DEF ScenesInit, BpSessions, Directors, FreeDirector
<1>2. SceneTypes
    BY <1>1, ScenesAssumption DEF ScenesInit, SceneTypes
<1>3. TakesInv
    <2>1. takes = <<>> /\ DOMAIN <<>> = {} /\ <<>> \in Seq(TakeRequests) /\ ~director.inFlight
        BY DEF ScenesInit, FreeDirector
    <2> QED BY <2>1 DEF TakesInv, OneAutoIn, AutoIn, SeenAt
<1>4. UnderWay /\ OnAirInv /\ RevealInv
    BY DEF ScenesInit, UnderWay, OnAirInv, RevealInv
<1> QED BY <1>2, <1>3, <1>4 DEF ScenesIInv

-----------------------------------------------------------------------------
(* Steps of the queue *)

\* The first take ends; the revision stays, or moves on as another scene becomes active.
LEMMA EndInv ==
    ASSUME TakesInv, director \in Directors, sceneRev \in Nat, takes # <<>>,
           NEW ok \in BOOLEAN, TakeEnds(ok),
           \/ UNCHANGED <<sceneRev, scene>>
           \/ sceneRev' = sceneRev + 1
    PROVE  /\ TakesInv' /\ director' \in Directors /\ takes' # takes
           /\ phase' = "queued" /\ prepared' = 0 /\ takes' = Tail(takes)
<1>1. /\ takes \in Seq(TakeRequests) /\ OneAutoIn(takes) /\ (director.inFlight <=> AutoIn(takes))
      /\ SeenAt(takes, sceneRev, scene)
    BY DEF TakesInv
<1>2. takes' = Tail(takes) /\ phase' = "queued" /\ prepared' = 0 /\ DirectorHears(ok)
    BY DEF TakeEnds
<1> DEFINE p == takes'
<1>3. p = Tail(takes)
    BY <1>2
<1> HIDE DEF p
<1>4. /\ p \in Seq(TakeRequests) /\ p # takes /\ OneAutoIn(p) /\ SeenAt(p, sceneRev, scene)
      /\ Take \in TakeRequests
      /\ Take.auto => AutoIn(takes) /\ ~AutoIn(p)
      /\ ~Take.auto => (AutoIn(p) <=> AutoIn(takes))
    BY <1>1, <1>3, TailTake DEF Take
<1>5. Take.auto \in BOOLEAN
    BY <1>4 DEF TakeRequests
<1>6. /\ director' \in Directors
      /\ Take.auto => ~director'.inFlight
      /\ ~Take.auto => director'.inFlight = director.inFlight
    BY <1>2 DEF DirectorHears, Directors
<1>7. director'.inFlight <=> AutoIn(p)
    BY <1>1, <1>4, <1>5, <1>6
<1>8. SeenAt(p, sceneRev', scene')
    BY <1>4, LaterRevision
<1> QED BY <1>2, <1>4, <1>6, <1>7, <1>8 DEF TakesInv, p

\* A take is asked for, by the director or by the operator.
LEMMA AskInv ==
    ASSUME ScenesIInv, NEW take \in TakeRequests, takes' = Append(takes, take),
           take.rev = sceneRev, take.seen = scene,
           director' \in Directors,
           IF take.auto THEN ~director.inFlight /\ director'.inFlight
           ELSE director'.inFlight = director.inFlight,
           UNCHANGED <<scene, sceneRev, phase, prepared, mode, available, execution, bp, obs,
                       late, apart>>
    PROVE  ScenesIInv'
<1>1. /\ SceneTypes /\ TakesInv /\ UnderWay /\ OnAirInv /\ RevealInv
      /\ takes \in Seq(TakeRequests) /\ OneAutoIn(takes) /\ (director.inFlight <=> AutoIn(takes))
      /\ SeenAt(takes, sceneRev, scene) /\ sceneRev \in Nat
    BY DEF ScenesIInv, TakesInv, SceneTypes
<1> DEFINE p == takes'
<1>2. p = Append(takes, take)
    OBVIOUS
<1> HIDE DEF p
<1>3. /\ p \in Seq(TakeRequests) /\ p # <<>> /\ SeenAt(p, sceneRev, scene)
      /\ AutoIn(p) <=> AutoIn(takes) \/ take.auto
      /\ OneAutoIn(takes) /\ ~(AutoIn(takes) /\ take.auto) => OneAutoIn(p)
      /\ takes # <<>> => Head(p) = Head(takes)
    BY <1>1, <1>2, AppendTake
<1>4. OneAutoIn(p) /\ (director'.inFlight <=> AutoIn(p))
    BY <1>1, <1>3
<1>5. TakesInv'
    BY <1>3, <1>4 DEF TakesInv, p
<1>6. takes # <<>> => Take' = Take
    BY <1>3 DEF Take, p
<1>7. UnderWay' /\ RevealInv'
    BY <1>1, <1>3, <1>6 DEF UnderWay, RevealInv, p
<1>8. SceneTypes' /\ OnAirInv'
    BY <1>1 DEF SceneTypes, OnAirInv
<1> QED BY <1>5, <1>7, <1>8 DEF ScenesIInv

\* Nothing happens to the queue, and the active scene changes only with its revision.
LEMMA QueueStaysInv ==
    ASSUME SceneTypes, TakesInv, UNCHANGED takes, director' \in Directors,
           director'.inFlight = director.inFlight,
           sceneRev' = sceneRev + 1 \/ UNCHANGED <<sceneRev, scene>>
    PROVE  TakesInv' /\ Take' = Take
<1>1. /\ takes \in Seq(TakeRequests) /\ SeenAt(takes, sceneRev, scene) /\ sceneRev \in Nat
      /\ OneAutoIn(takes) /\ (director.inFlight <=> AutoIn(takes))
    BY DEF TakesInv, SceneTypes
<1>2. SeenAt(takes, sceneRev', scene')
    BY <1>1, LaterRevision
<1>3. /\ SeenAt(takes', sceneRev', scene') /\ takes' \in Seq(TakeRequests)
      /\ OneAutoIn(takes') /\ (director'.inFlight <=> AutoIn(takes'))
    BY <1>1, <1>2
<1> QED BY <1>3 DEF TakesInv, Take

\* A step beside the takes.
LEMMA BesideInv ==
    ASSUME ScenesIInv, UNCHANGED <<takes, phase, prepared>>,
           director' \in Directors, director'.inFlight = director.inFlight,
           sceneRev' = sceneRev + 1 \/ UNCHANGED <<sceneRev, scene>>,
           UNCHANGED <<scene, bp>> \/ bp'.by # "take",
           SceneTypes', OnAirInv'
    PROVE  ScenesIInv'
<1>1. SceneTypes /\ TakesInv /\ UnderWay /\ RevealInv
    BY DEF ScenesIInv
<1>2. TakesInv' /\ Take' = Take
    BY <1>1, QueueStaysInv
<1>3. UnderWay' /\ RevealInv'
    BY <1>1, <1>2 DEF UnderWay, RevealInv
<1> QED BY <1>2, <1>3 DEF ScenesIInv

LEMMA HoldIsDirector ==
    ASSUME director \in Directors
    PROVE  /\ Hold \in Directors /\ Hold.inFlight = director.inFlight
           /\ Resumed \in Directors /\ Resumed.inFlight = director.inFlight
<1>1. /\ director.manual \in BOOLEAN /\ director.failed \in BOOLEAN
      /\ director.inFlight \in BOOLEAN /\ director.generation + 1 \in Nat
    BY DEF Directors
<1>2. Hold \in Directors /\ Hold.inFlight = director.inFlight
    BY <1>1 DEF Hold, Directors
<1>3. Resumed \in Directors /\ Resumed.inFlight = director.inFlight
    BY <1>1 DEF Resumed, Directors
<1> QED BY <1>2, <1>3

LEMMA DecisionsInv ==
    ASSUME ScenesIInv, NEW s \in Scenes, NEW final \in BOOLEAN,
           DirectorTakes(s, final) \/ OperatorTakes(s)
    PROVE  ScenesIInv'
<1>1. /\ director \in Directors /\ scene \in Scenes /\ sceneRev \in Nat /\ execution \in Nat
      /\ director.generation \in Nat
    BY DEF ScenesIInv, SceneTypes, Directors
<1>2. CASE DirectorTakes(s, final)
    <2> DEFINE take == [auto |-> TRUE, scene |-> s, rev |-> sceneRev, seen |-> scene,
                        final |-> final, gen |-> director.generation, key |-> execution]
    <2>1. /\ takes' = Append(takes, take) /\ director' = [director EXCEPT !.inFlight = TRUE]
          /\ ~director.inFlight
          /\ UNCHANGED <<scene, sceneRev, phase, prepared, mode, available, execution, bp, obs,
                         late, apart>>
        BY <1>2 DEF DirectorTakes
    <2>2. take \in TakeRequests /\ take.auto /\ take.rev = sceneRev /\ take.seen = scene
        BY <1>1 DEF TakeRequests
    <2> HIDE DEF take
    <2>3. director' \in Directors /\ director'.inFlight
        BY <1>1, <2>1 DEF Directors
    <2> QED BY <2>1, <2>2, <2>3, AskInv
<1>3. CASE OperatorTakes(s)
    <2> DEFINE take == [auto |-> FALSE, scene |-> s, rev |-> sceneRev, seen |-> scene,
                        final |-> FALSE, gen |-> 0, key |-> 0]
    <2>1. /\ takes' = Append(takes, take) /\ director' = Hold
          /\ UNCHANGED <<scene, sceneRev, phase, prepared, mode, available, execution, bp, obs,
                         late, apart>>
        BY <1>3 DEF OperatorTakes
    <2>2. take \in TakeRequests /\ ~take.auto /\ take.rev = sceneRev /\ take.seen = scene
        BY <1>1 DEF TakeRequests
    <2> HIDE DEF take
    <2>3. director' \in Directors /\ director'.inFlight = director.inFlight
        BY <1>1, <2>1, HoldIsDirector
    <2> QED BY <2>1, <2>2, <2>3, AskInv
<1> QED BY <1>2, <1>3

LEMMA CommandsInv ==
    ASSUME ScenesIInv,
           \/ ResumeAutomatic \/ NewExecution
           \/ \E s \in Scenes : ForceScene(s) \/ SceneBlocked(s)
           \/ \E m \in {"preparation", "live", "hidden"} : ChangeMode(m)
    PROVE  ScenesIInv'
<1>1. /\ SceneTypes /\ OnAirInv /\ director \in Directors
      /\ sceneRev + 1 \in Nat /\ execution + 1 \in Nat
    <2>1. sceneRev \in Nat /\ execution \in Nat
        BY DEF ScenesIInv, SceneTypes
    <2>2. sceneRev + 1 \in Nat /\ execution + 1 \in Nat
        BY <2>1
    <2> QED BY <2>2 DEF ScenesIInv, SceneTypes
<1>2. CASE ResumeAutomatic
    <2>1. director' \in Directors /\ director'.inFlight = director.inFlight
        BY <1>1, <1>2, HoldIsDirector DEF ResumeAutomatic
    <2>2. SceneTypes'
        BY <1>1, <1>2, <2>1 DEF ResumeAutomatic, SceneTypes
    <2>3. OnAirInv'
        BY <1>1, <1>2 DEF ResumeAutomatic, OnAirInv
    <2> QED BY <1>2, <2>1, <2>2, <2>3, BesideInv DEF ResumeAutomatic
<1>3. CASE NewExecution
    <2>1. SceneTypes'
        BY <1>1, <1>3 DEF NewExecution, SceneTypes
    <2>2. OnAirInv'
        BY <1>1, <1>3 DEF NewExecution, OnAirInv
    <2> QED BY <1>1, <1>3, <2>1, <2>2, BesideInv DEF NewExecution
<1>4. ASSUME NEW s \in Scenes, ForceScene(s) PROVE ScenesIInv'
    <2>1. director' \in Directors /\ director'.inFlight = director.inFlight
        BY <1>1, <1>4, HoldIsDirector DEF ForceScene
    <2>2. bp' \in BpSessions /\ bp'.by = "nobody"
        BY <1>1, <1>4 DEF ForceScene, SceneTypes, BpSessions
    <2>3. SceneTypes'
        BY <1>1, <1>4, <2>1, <2>2 DEF ForceScene, SceneTypes
    <2>4. OnAirInv'
        BY <1>4 DEF ForceScene, OnAirInv
    <2> QED BY <1>4, <2>1, <2>2, <2>3, <2>4, BesideInv DEF ForceScene
<1>5. ASSUME NEW s \in Scenes, SceneBlocked(s) PROVE ScenesIInv'
    <2>1. available' \subseteq Scenes /\ "waiting" \in available'
        BY <1>1, <1>5 DEF SceneBlocked, SceneTypes
    <2>2. SceneTypes' /\ OnAirInv'
        BY <1>1, <1>5, <2>1 DEF SceneBlocked, SceneTypes, OnAirInv
    <2> QED BY <1>1, <1>5, <2>2, BesideInv DEF SceneBlocked
<1>6. ASSUME NEW m \in {"preparation", "live", "hidden"}, ChangeMode(m) PROVE ScenesIInv'
    <2>1. director' \in Directors /\ director'.inFlight = director.inFlight
        BY <1>1, <1>6, HoldIsDirector DEF ChangeMode
    <2>2. SceneTypes' /\ OnAirInv'
        BY <1>1, <1>6, <2>1 DEF ChangeMode, SceneTypes, OnAirInv
    <2> QED BY <1>6, <2>1, <2>2, BesideInv DEF ChangeMode
<1> QED BY <1>2, <1>3, <1>4, <1>5, <1>6

LEMMA BpSessionsInv ==
    ASSUME bp \in BpSessions
    PROVE  /\ Hidden \in BpSessions /\ Hidden.by = "nobody"
           /\ BpEnds \in BpSessions /\ (bp.state = "playing" => BpEnds.by = "nobody")
           /\ \A by \in {"nobody", "operator", "take"}, final \in BOOLEAN :
                 /\ Reveal(by, final) \in BpSessions /\ Reveal(by, final).by = by
                 /\ Reveal(by, final).state = "playing"
<1>1. bp.rev \in Nat \ {0}
    BY DEF BpSessions
<1>2. Hidden \in BpSessions /\ Hidden.by = "nobody"
    BY <1>1 DEF Hidden, BpSessions
<1>3. BpEnds \in BpSessions /\ (bp.state = "playing" => BpEnds.by = "nobody")
    BY <1>2 DEF BpEnds
<1>4. ASSUME NEW by \in {"nobody", "operator", "take"}, NEW final \in BOOLEAN
      PROVE  /\ Reveal(by, final) \in BpSessions /\ Reveal(by, final).by = by
             /\ Reveal(by, final).state = "playing"
    <2>1. bp.rev + (IF final THEN 2 ELSE 1) \in Nat \ {0}
        BY <1>1
    <2> QED BY <2>1 DEF Reveal, BpSessions
<1> QED BY <1>2, <1>3, <1>4

LEMMA SurroundingsInv ==
    ASSUME ScenesIInv, BpCommand \/ BpDataChanges \/ BpTime \/ LateSwitch \/ Repair
    PROVE  ScenesIInv'
<1>1. SceneTypes /\ OnAirInv /\ director \in Directors /\ bp \in BpSessions
    BY DEF ScenesIInv, SceneTypes
<1>2. CASE BpCommand \/ BpDataChanges \/ BpTime
    <2>1. /\ bp' \in BpSessions /\ bp'.by # "take"
          /\ UNCHANGED <<scene, sceneRev, takes, phase, prepared, director, mode, available,
                         execution, obs, late, apart>>
        <3>1. CASE BpCommand
            <4>1. [state |-> "hiding", rev |-> bp.rev + 1, by |-> "operator"] \in BpSessions
                BY <1>1 DEF BpSessions
            <4> QED BY <1>1, <3>1, <4>1, BpSessionsInv DEF BpCommand
        <3>2. CASE BpDataChanges \/ BpTime
            BY <1>1, <3>2, BpSessionsInv DEF BpDataChanges, BpTime
        <3> QED BY <1>2, <3>1, <3>2
    <2>2. SceneTypes' /\ OnAirInv'
        BY <1>1, <2>1 DEF SceneTypes, OnAirInv
    <2> QED BY <1>1, <2>1, <2>2, BesideInv
<1>3. CASE LateSwitch
    <2>1. PICK s \in late : /\ obs' = s /\ late' = late \ {s}
                            /\ apart' = (apart \/ s # scene \/ Running)
        BY <1>3 DEF LateSwitch
    <2>2. UNCHANGED <<scene, sceneRev, takes, phase, prepared, director, mode, available,
                      execution, bp>>
        BY <1>3 DEF LateSwitch
    <2>3. SceneTypes' /\ OnAirInv'
        BY <1>1, <2>1, <2>2 DEF SceneTypes, OnAirInv
    <2> QED BY <1>1, <2>2, <2>3, BesideInv
<1>4. CASE Repair
    <2>1. SceneTypes' /\ OnAirInv'
        BY <1>1, <1>4 DEF Repair, SceneTypes, OnAirInv
    <2> QED BY <1>1, <1>4, <2>1, BesideInv DEF Repair
<1> QED BY <1>2, <1>3, <1>4

-----------------------------------------------------------------------------
(* Steps of a take *)

LEMMA StartInv == ASSUME ScenesIInv, StartTake PROVE ScenesIInv'
<1>1. /\ SceneTypes /\ TakesInv /\ UnderWay /\ OnAirInv /\ RevealInv
      /\ takes # <<>> /\ phase = "queued" /\ prepared = 0
      /\ director \in Directors /\ bp \in BpSessions /\ sceneRev \in Nat
      /\ UNCHANGED <<scene, sceneRev, mode, available, execution, obs, late, apart>>
    BY DEF ScenesIInv, StartTake, SceneTypes, UnderWay
<1>2. OnAirInv'
    <2>1. phase' \in {"queued", "ready"}
        BY <1>1 DEF StartTake, TakeEnds
    <2> QED BY <1>1, <2>1 DEF OnAirInv
<1>3. ASSUME NEW ok \in BOOLEAN, TakeEnds(ok), UNCHANGED bp PROVE ScenesIInv'
    <2>1. TakesInv' /\ director' \in Directors /\ phase' = "queued" /\ prepared' = 0
        BY <1>1, <1>3, EndInv
    <2>2. SceneTypes' /\ UnderWay' /\ RevealInv'
        BY <1>1, <1>3, <2>1 DEF SceneTypes, UnderWay, RevealInv
    <2> QED BY <1>2, <2>1, <2>2 DEF ScenesIInv
<1>4. CASE ~StillWanted(Take) \/ Take.rev # sceneRev \/ Take.scene \notin available
    <2>1. TakeEnds(FALSE) /\ UNCHANGED bp
        BY <1>4 DEF StartTake
    <2> QED BY <1>3, <2>1
<1>5. CASE /\ ~(~StillWanted(Take) \/ Take.rev # sceneRev \/ Take.scene \notin available)
           /\ Take.scene = scene
    <2>1. TakeEnds(TRUE) /\ UNCHANGED bp
        BY <1>5 DEF StartTake
    <2> QED BY <1>3, <2>1
<1>6. CASE /\ ~(~StillWanted(Take) \/ Take.rev # sceneRev \/ Take.scene \notin available)
           /\ Take.scene # scene
    <2>1. /\ phase' = "ready" /\ UNCHANGED <<takes, director>>
          /\ IF Take.scene = "bp" /\ bp.state = "hidden"
             THEN bp' = Reveal("take", Take.final) /\ prepared' = bp'.rev
             ELSE /\ bp' = IF Take.scene = "bp" /\ Take.final
                           THEN Reveal(bp.by, FALSE) ELSE bp
                  /\ UNCHANGED prepared
        BY <1>6 DEF StartTake
    <2>2. TakesInv' /\ Take' = Take
        BY <1>1, <2>1, QueueStaysInv
    <2>3. Take.final \in BOOLEAN
        BY <1>1, TailTake DEF TakesInv, Take, TakeRequests
    <2>4. bp.by \in {"nobody", "operator", "take"} /\ bp.rev \in Nat \ {0}
        BY <1>1 DEF BpSessions
    <2>5. CASE Take.scene = "bp" /\ bp.state = "hidden"
        <3>1. bp' \in BpSessions /\ bp'.by = "take" /\ bp'.state = "playing" /\ prepared' = bp'.rev
            BY <1>1, <2>1, <2>3, <2>5, BpSessionsInv
        <3>2. prepared' \in Nat /\ prepared' # 0
            BY <3>1 DEF BpSessions
        <3>3. SceneTypes' /\ UnderWay' /\ RevealInv'
            BY <1>1, <2>1, <2>2, <2>5, <3>1, <3>2 DEF SceneTypes, UnderWay, RevealInv
        <3> QED BY <1>2, <2>2, <3>3 DEF ScenesIInv
    <2>6. CASE Take.scene = "bp" /\ bp.state # "hidden"
        <3>1. bp.by # "take"
            BY <1>1, <1>6, <2>6 DEF RevealInv
        <3>2. bp' \in BpSessions /\ bp'.by # "take" /\ prepared' = prepared
            BY <1>1, <2>1, <2>4, <2>6, <3>1, BpSessionsInv
        <3>3. SceneTypes' /\ UnderWay' /\ RevealInv'
            BY <1>1, <2>1, <2>2, <3>2 DEF SceneTypes, UnderWay, RevealInv
        <3> QED BY <1>2, <2>2, <3>3 DEF ScenesIInv
    <2>7. CASE Take.scene # "bp"
        <3>1. bp' = bp /\ prepared' = prepared
            BY <2>1, <2>7
        <3>2. SceneTypes' /\ UnderWay' /\ RevealInv'
            BY <1>1, <2>1, <2>2, <3>1 DEF SceneTypes, UnderWay, RevealInv
        <3> QED BY <1>2, <2>2, <3>2 DEF ScenesIInv
    <2> QED BY <2>5, <2>6, <2>7
<1> QED BY <1>4, <1>5, <1>6

LEMMA SwitchInv ==
    ASSUME ScenesIInv,
           CallObs \/ ObsSwitches \/ \E later \in BOOLEAN : ObsFails(later)
    PROVE  ScenesIInv'
<1>1. /\ SceneTypes /\ TakesInv /\ UnderWay /\ OnAirInv /\ RevealInv
      /\ takes # <<>> /\ director \in Directors /\ phase # "queued"
      /\ UNCHANGED <<scene, sceneRev, takes, prepared, director, mode, available, execution,
                     bp, apart>>
    BY DEF ScenesIInv, SceneTypes, CallObs, ObsSwitches, ObsFails
<1>2. TakesInv' /\ Take' = Take
    BY <1>1, QueueStaysInv
<1>3. Take.scene \in Scenes
    BY <1>1, TailTake DEF TakesInv, Take, TakeRequests
<1>4. /\ phase' \in {"calling", "on air", "rolling back"}
      /\ obs' \in Scenes /\ late' \subseteq Scenes
      /\ phase' = "calling" => phase = "ready" /\ obs' = obs
    BY <1>1, <1>3 DEF CallObs, ObsSwitches, ObsFails, SceneTypes
<1>5. SceneTypes'
    BY <1>1, <1>4 DEF SceneTypes
<1>6. UnderWay' /\ RevealInv'
    BY <1>1, <1>2, <1>4 DEF UnderWay, RevealInv
<1>7. OnAirInv'
    BY <1>1, <1>4 DEF OnAirInv
<1> QED BY <1>2, <1>5, <1>6, <1>7 DEF ScenesIInv

LEMMA CommitTakeInv == ASSUME ScenesIInv, CommitTake PROVE ScenesIInv'
<1>1. /\ SceneTypes /\ TakesInv /\ UnderWay /\ OnAirInv /\ RevealInv
      /\ takes # <<>> /\ phase = "on air" /\ director \in Directors /\ bp \in BpSessions
      /\ sceneRev \in Nat /\ UNCHANGED <<mode, available, execution, obs, late>>
    BY DEF ScenesIInv, SceneTypes, CommitTake
<1>2. Take.scene \in Scenes
    BY <1>1, TailTake DEF TakesInv, Take, TakeRequests
<1>3. CASE StillCurrentTake /\ obs = Take.scene
    <2>1. /\ bp' = IF scene = "bp" THEN BpEnds ELSE bp
          /\ scene' = Take.scene /\ sceneRev' = sceneRev + 1
          /\ TakeEnds(TRUE)
        BY <1>3 DEF CommitTake
    <2>2. TakesInv' /\ director' \in Directors /\ phase' = "queued" /\ prepared' = 0
        BY <1>1, <2>1, EndInv
    <2>3. bp' \in BpSessions
        BY <1>1, <2>1, BpSessionsInv
    <2>4. sceneRev' \in Nat
        <3>1. sceneRev \in Nat
            BY <1>1
        <3>2. sceneRev' = sceneRev + 1
            BY <2>1
        <3> QED BY <3>1, <3>2
    <2>5. SceneTypes'
        BY <1>1, <1>2, <2>1, <2>2, <2>3, <2>4 DEF SceneTypes
    <2>6. UnderWay' /\ OnAirInv'
        BY <1>1, <1>3, <2>1, <2>2 DEF UnderWay, OnAirInv
    <2>7. RevealInv'
        <3>1. CASE scene = "bp" /\ bp.by = "take"
            <4>1. bp'.by = "nobody"
                BY <1>1, <2>1, <3>1, BpSessionsInv DEF RevealInv
            <4> QED BY <4>1 DEF RevealInv
        <3>2. CASE scene = "bp" /\ bp.by # "take"
            <4>1. bp'.by # "take"
                BY <1>1, <2>1, <3>2, BpSessionsInv DEF BpEnds
            <4> QED BY <4>1 DEF RevealInv
        <3>3. CASE scene # "bp"
            BY <1>1, <2>1, <3>3 DEF RevealInv
        <3> QED BY <3>1, <3>2, <3>3
    <2> QED BY <2>2, <2>5, <2>6, <2>7 DEF ScenesIInv
<1>4. CASE ~(StillCurrentTake /\ obs = Take.scene)
    <2>1. /\ phase' = "rolling back"
          /\ UNCHANGED <<scene, sceneRev, takes, prepared, director, bp, apart>>
        BY <1>4 DEF CommitTake
    <2>2. TakesInv' /\ Take' = Take
        BY <1>1, <2>1, QueueStaysInv
    <2>3. SceneTypes' /\ UnderWay' /\ OnAirInv' /\ RevealInv'
        BY <1>1, <2>1, <2>2 DEF SceneTypes, UnderWay, OnAirInv, RevealInv
    <2> QED BY <2>2, <2>3 DEF ScenesIInv
<1> QED BY <1>3, <1>4

LEMMA RollBackInv == ASSUME ScenesIInv, NEW works \in BOOLEAN, RollBack(works) PROVE ScenesIInv'
<1>1. /\ SceneTypes /\ TakesInv /\ UnderWay /\ OnAirInv /\ RevealInv
      /\ takes # <<>> /\ phase = "rolling back" /\ director \in Directors /\ bp \in BpSessions
      /\ sceneRev \in Nat /\ TakeEnds(FALSE)
      /\ bp' = IF prepared # 0 /\ bp.rev = prepared THEN BpEnds ELSE bp
      /\ UNCHANGED <<scene, sceneRev, mode, available, execution, late>>
    BY DEF ScenesIInv, SceneTypes, RollBack
<1>2. TakesInv' /\ director' \in Directors /\ phase' = "queued" /\ prepared' = 0
    BY <1>1, EndInv
<1>3. bp' \in BpSessions
    BY <1>1, BpSessionsInv
<1>4. obs' \in Scenes /\ OnAirInv'
    BY <1>1 DEF RollBack, SceneTypes, OnAirInv
<1>5. SceneTypes' /\ UnderWay'
    BY <1>1, <1>2, <1>3, <1>4 DEF SceneTypes, UnderWay
<1>6. RevealInv'
    <2>1. CASE prepared # 0 /\ bp.rev = prepared
        <3>1. bp'.by # "take"
            BY <1>1, <2>1, BpSessionsInv DEF RevealInv, BpEnds
        <3> QED BY <3>1 DEF RevealInv
    <2>2. CASE ~(prepared # 0 /\ bp.rev = prepared)
        <3>1. bp' = bp /\ bp.rev # 0
            BY <1>1, <2>2 DEF BpSessions
        <3> QED BY <1>1, <2>2, <3>1 DEF RevealInv
    <2> QED BY <2>1, <2>2
<1> QED BY <1>2, <1>4, <1>5, <1>6 DEF ScenesIInv

LEMMA ScenesIInvInductive == ScenesIInv /\ [ScenesNext]_sceneVars => ScenesIInv'
<1> SUFFICES ASSUME ScenesIInv, [ScenesNext]_sceneVars PROVE ScenesIInv'
    OBVIOUS
<1>1. CASE UNCHANGED sceneVars
    <2>1. SceneTypes /\ OnAirInv /\ director \in Directors
        BY DEF ScenesIInv, SceneTypes
    <2>2. SceneTypes' /\ OnAirInv'
        BY <1>1, <2>1 DEF sceneVars, SceneTypes, OnAirInv
    <2> QED BY <1>1, <2>1, <2>2, BesideInv DEF sceneVars
<1>2. CASE TakeRuns
    BY <1>2, StartInv, SwitchInv, CommitTakeInv, RollBackInv DEF TakeRuns
<1> QED BY <1>1, <1>2, DecisionsInv, CommandsInv, SurroundingsInv DEF ScenesNext

-----------------------------------------------------------------------------
(* The theorems *)

\* The active scene is the one OBS shows whenever nothing is under way and OBS was not moved
\* otherwise, the director has one request in the queue or none, and a reveal begun for BP does
\* not outlive it.
THEOREM ScenesAreSound == ScenesSpec => []ScenesInv
<1>1. ScenesIInv => ScenesInv
    <2> SUFFICES ASSUME ScenesIInv PROVE ScenesInv
        OBVIOUS
    <2>1. SceneTypes /\ TakesInv /\ UnderWay /\ OnAirInv /\ RevealInv
        BY DEF ScenesIInv
    <2>2. OnAirIsActive
        BY <2>1 DEF OnAirIsActive, OnAirInv, UnderWay
    <2>3. BpOffAirIsHidden
        BY <2>1 DEF BpOffAirIsHidden, RevealInv, UnderWay, Running
    <2> DEFINE asked == {i \in DOMAIN takes : takes[i].auto}
    <2>4. Cardinality(asked) = IF director.inFlight THEN 1 ELSE 0
        <3>1. CASE AutoIn(takes)
            <4>1. PICK i \in DOMAIN takes : takes[i].auto
                BY <3>1 DEF AutoIn
            <4>2. asked = {i}
                BY <2>1, <4>1 DEF TakesInv, OneAutoIn
            <4>3. Cardinality({i}) = 1
                BY FS_Singleton
            <4>4. director.inFlight
                BY <2>1, <3>1 DEF TakesInv
            <4> QED BY <4>2, <4>3, <4>4
        <3>2. CASE ~AutoIn(takes)
            <4>1. asked = {}
                BY <3>2 DEF AutoIn
            <4>2. ~director.inFlight
                BY <2>1, <3>2 DEF TakesInv
            <4> QED BY <4>1, <4>2, FS_EmptySet
        <3> QED BY <3>1, <3>2
    <2> HIDE DEF asked
    <2>5. bp.rev \in Nat /\ bp.state \in {"hidden", "playing", "hiding"}
        BY <2>1 DEF SceneTypes, BpSessions
    <2>6. ScenesTypeOK
        BY <2>1, <2>4, <2>5 DEF ScenesTypeOK, SceneTypes, UnderWay, Running, asked
    <2> QED BY <2>2, <2>3, <2>6 DEF ScenesInv
<1> QED BY <1>1, InitScenesInv, ScenesIInvInductive, PTL DEF ScenesSpec

\* A step that puts another scene on air is the end of a take that was still current.
LEMMA CommitsIsCommitTake ==
    ASSUME ScenesIInv, ScenesNext, Commits
    PROVE  CommitTake /\ StillCurrentTake
<1>1. /\ takes \in Seq(TakeRequests) /\ takes # <<>> /\ phase = "on air"
      /\ scene' # scene /\ takes' = Tail(takes)
    BY DEF ScenesIInv, TakesInv, Commits
<1>2. takes' # takes
    BY <1>1, TailDiffers
<1>3. ~\E s \in Scenes : ForceScene(s)
    BY <1>2 DEF ForceScene
<1>4. CommitTake
    BY <1>1, <1>3
       DEF ScenesNext, DirectorTakes, OperatorTakes, SceneBlocked, ResumeAutomatic, NewExecution,
           ChangeMode, BpCommand, BpDataChanges, BpTime, TakeRuns, StartTake, CallObs,
           ObsSwitches, ObsFails, RollBack, LateSwitch, Repair
<1> QED BY <1>1, <1>4 DEF CommitTake

\* A take replaces the scene that was active when it was decided, whatever other takes and
\* rehearsals came between.
THEOREM TakesReplaceTheirScene == ScenesSpec => TakesReplaceWhatWasSeen
<1>1. ASSUME ScenesIInv, ScenesNext, Commits PROVE scene = Take.seen
    <2>1. Take.rev = sceneRev /\ takes # <<>>
        BY <1>1, CommitsIsCommitTake DEF StillCurrentTake, Commits
    <2>2. takes \in Seq(TakeRequests) /\ OneAutoIn(takes) /\ SeenAt(takes, sceneRev, scene)
        BY <1>1 DEF ScenesIInv, TakesInv
    <2> QED BY <2>1, <2>2, TailTake DEF Take
<1>2. ScenesIInv /\ [ScenesNext]_sceneVars => [Commits => scene = Take.seen]_sceneVars
    BY <1>1
<1> QED BY <1>2, InitScenesInv, ScenesIInvInductive, PTL DEF ScenesSpec, TakesReplaceWhatWasSeen

\* Whatever goes on air by a request of the director was still wanted in that moment.
THEOREM AutomaticIsWanted == ScenesSpec => AutomaticIsStillWanted
<1>1. ASSUME ScenesIInv, ScenesNext, Commits, Take.auto
      PROVE  ~director.manual /\ OnProduction /\ Take.key = execution
    BY <1>1, CommitsIsCommitTake DEF StillCurrentTake, StillWanted
<1>2. ScenesIInv /\ [ScenesNext]_sceneVars =>
        [Commits /\ Take.auto => /\ ~director.manual /\ OnProduction
                                 /\ Take.key = execution]_sceneVars
    BY <1>1
<1> QED BY <1>2, InitScenesInv, ScenesIInvInductive, PTL DEF ScenesSpec, AutomaticIsStillWanted

-----------------------------------------------------------------------------
(* The series *)

Winners == Entrants \cup {Nobody}
Observation == [epoch : Epochs, name : Names \cup {NoName}, ended : BOOLEAN,
                winner : Winners, play : 0..MaxMaps]

\* No two slots are being played at once, and the bound one is played or over.
OneCurrent(p) ==
    /\ \A s, t \in Slots : p.slots[s].status = "current" /\ p.slots[t].status = "current" => s = t
    /\ p.current # 0 =>
          p.slots[p.current].status = "current" \/ p.slots[p.current].status = "completed"

\* A series that is won has no open slot.
Closed(p) == SeriesWon(p) => Playable(p) = {}

\* What one version of the progress says of its frozen slots, the later one says too.
Keeps(p, q) == \A s \in Completed(p) : q.slots[s] = p.slots[s]

LEMMA SlotsAreNumbers ==
    Slots = 1..Len(Plan) /\ Len(Plan) \in Nat /\ Slots \subseteq Nat /\ 0 \notin Slots
BY PlanAssumption DEF Slots

LEMMA EpochTypes ==
    /\ MaxMaps \in Nat /\ ResetEpoch \in Nat /\ Epochs \subseteq Nat /\ 0 \in Epochs /\ 0 \in 0..MaxMaps
    /\ \A e \in Nat : e <= MaxMaps + ResetEpoch => e \in Epochs
BY SeriesBounds DEF Epochs

LEMMA SlotTypes ==
    ASSUME NEW p \in Progress, NEW s \in Slots
    PROVE  /\ p.slots[s] \in Slot
           /\ p.slots[s].status \in Status /\ p.slots[s].epoch \in Epochs
           /\ p.slots[s].winner \in Winners /\ p.slots[s].evidence \in 0..MaxMaps
BY DEF Progress, Slot, Epochs, Winners

LEMMA ObservedTyped == ASSUME NEW r \in Runtime PROVE Observed(r) \in Observation
<1> DEFINE o == Observed(r)
           ended == r.telemetry # None /\ r.telemetry.winner # Nobody
<1>1. r.telemetry # None => r.telemetry \in Frame
    BY DEF Runtime
<1>2. /\ o.epoch = r.epoch /\ o.ended = ended
      /\ o = [epoch |-> o.epoch, name |-> o.name, ended |-> o.ended, winner |-> o.winner,
              play |-> o.play]
    BY DEF Observed
<1>3. o.name \in Names \cup {NoName}
    BY <1>1 DEF Observed, Runtime, Frame
<1>4. o.winner \in Winners
    BY <1>1 DEF Observed, Runtime, Frame, Winners
<1>5. o.play \in 0..MaxMaps
    <2>1. 1..MaxMaps \subseteq 0..MaxMaps
        BY EpochTypes
    <2> QED BY <1>1, <2>1, EpochTypes DEF Observed, Runtime, Frame
<1>6. o.epoch \in Epochs /\ o.ended \in BOOLEAN
    BY <1>2 DEF Runtime, Epochs
<1> SUFFICES o \in Observation
    OBVIOUS
<1> HIDE DEF o
<1> QED BY <1>2, <1>3, <1>4, <1>5, <1>6 DEF Observation

-----------------------------------------------------------------------------
\* A slot becomes the current one: it is the only one, and no other slot changes but for that.
LEMMA SetCurrentFacts ==
    ASSUME NEW p \in Progress, NEW s \in Slots, NEW e \in Epochs, NEW q, q = SetCurrentMap(p, s, e)
    PROVE  /\ q \in Progress /\ OneCurrent(q)
           /\ q.current = s /\ q.binding = "bound" /\ q.asserted = p.asserted
           /\ q.slots[s].status = "current" /\ q.slots[s].epoch = e
           /\ \A t \in Slots : t # s => q.slots[t].status # "current"
           /\ Completed(q) = Completed(p) \ {s}
           /\ \A t \in Completed(q) : q.slots[t] = p.slots[t]
<1> DEFINE f == [t \in Slots |->
                  IF t = s THEN [p.slots[t] EXCEPT !.status = "current", !.epoch = e]
                  ELSE IF p.slots[t].status = "current"
                       THEN [p.slots[t] EXCEPT !.status = "pending"] ELSE p.slots[t]]
<1>1. ASSUME NEW t \in Slots
      PROVE  /\ f[t] \in Slot
             /\ t = s => f[t].status = "current" /\ f[t].epoch = e
             /\ t # s => f[t].status # "current"
             /\ t # s => (f[t].status = "completed" <=> p.slots[t].status = "completed")
             /\ t # s /\ p.slots[t].status = "completed" => f[t] = p.slots[t]
    BY SlotTypes DEF Slot, Status, Epochs
<1>2. f \in [Slots -> Slot]
    BY <1>1
<1>3. q = [p EXCEPT !.slots = f, !.current = s, !.binding = "bound"]
    BY DEF SetCurrentMap
<1> HIDE DEF f
<1>4. /\ q \in Progress /\ q.slots = f
      /\ q.current = s /\ q.binding = "bound" /\ q.asserted = p.asserted
    BY <1>2, <1>3 DEF Progress
<1>5. OneCurrent(q)
    BY <1>1, <1>4 DEF OneCurrent
<1>6. \A t \in Slots : t \in Completed(q) <=> t # s /\ t \in Completed(p)
    BY <1>1, <1>4 DEF Completed
<1>7. Completed(q) = Completed(p) \ {s}
    BY <1>6 DEF Completed
<1> QED BY <1>1, <1>4, <1>5, <1>6, <1>7 DEF Completed

\* The binding waits for the operator or changes nothing, or a playable slot becomes current: the
\* only one planned on the observed map.
LEMMA EnsureCases ==
    ASSUME NEW p \in Progress, NEW o \in Observation, NEW q, q = EnsureBinding(p, o)
    PROVE  \/ q = p
           \/ /\ o.name # NoName /\ ~AlreadyBound(p, o)
              /\ q = [p EXCEPT !.current = 0, !.binding = "needs_operator"]
           \/ /\ o.name # NoName
              /\ \E s \in Playable(p) : Plan[s] = o.name /\ q = SetCurrentMap(p, s, o.epoch)
<1> DEFINE C == {s \in Playable(p) : Plan[s] = o.name}
           first == FirstOf(Playable(p))
<1>1. q = IF o.name = NoName \/ SeriesWon(p) \/ AlreadyBound(p, o) \/ Playable(p) = {} THEN p
          ELSE IF C = {first} THEN SetCurrentMap(p, first, o.epoch)
          ELSE [p EXCEPT !.current = 0, !.binding = "needs_operator"]
    BY DEF EnsureBinding
<1>2. C = {first} => first \in Playable(p) /\ Plan[first] = o.name
    OBVIOUS
<1> HIDE DEF C, first
<1> QED BY <1>1, <1>2

LEMMA PlayableIsOpen ==
    ASSUME NEW p, NEW s \in Playable(p)
    PROVE  s \in Slots /\ s \notin Completed(p)
BY DEF Playable, Completed

LEMMA WaitingFacts ==
    ASSUME NEW p \in Progress, NEW q, q = [p EXCEPT !.current = 0, !.binding = "needs_operator"]
    PROVE  /\ q \in Progress /\ q.slots = p.slots /\ Completed(q) = Completed(p)
           /\ q.current = 0 /\ q.binding = "needs_operator" /\ q.asserted = p.asserted
<1>1. q \in Progress /\ q.slots = p.slots /\ q.current = 0 /\ q.binding = "needs_operator"
      /\ q.asserted = p.asserted
    BY DEF Progress
<1> QED BY <1>1 DEF Completed

LEMMA EnsureKeeps ==
    ASSUME NEW p \in Progress, OneCurrent(p), NEW o \in Observation, NEW q, q = EnsureBinding(p, o)
    PROVE  /\ q \in Progress /\ OneCurrent(q) /\ Completed(q) = Completed(p)
           /\ \A t \in Completed(q) : q.slots[t] = p.slots[t]
<1>1. CASE q = p
    BY <1>1
<1>2. CASE q = [p EXCEPT !.current = 0, !.binding = "needs_operator"]
    <2>1. q \in Progress /\ q.slots = p.slots /\ Completed(q) = Completed(p) /\ q.current = 0
        BY <1>2, WaitingFacts
    <2> QED BY <2>1 DEF OneCurrent
<1>3. ASSUME NEW s \in Playable(p), q = SetCurrentMap(p, s, o.epoch)
      PROVE  /\ q \in Progress /\ OneCurrent(q) /\ Completed(q) = Completed(p)
             /\ \A t \in Completed(q) : q.slots[t] = p.slots[t]
    <2>1. o.epoch \in Epochs /\ s \in Slots /\ s \notin Completed(p)
        BY PlayableIsOpen DEF Observation
    <2>2. /\ q \in Progress /\ OneCurrent(q) /\ Completed(q) = Completed(p) \ {s}
          /\ \A t \in Completed(q) : q.slots[t] = p.slots[t]
        BY <1>3, <2>1, SetCurrentFacts
    <2> QED BY <2>1, <2>2
<1> QED BY <1>1, <1>2, <1>3, EnsureCases

\* A game-over freezes the slot of its epoch, the one current slot, and no other.
LEMMA EndCases ==
    ASSUME NEW p \in Progress, OneCurrent(p), NEW o \in Observation, NEW d \in BOOLEAN,
           NEW q, q = EndMap(p, o, d)
    PROVE  \/ q = p
           \/ \E s \in Slots :
                 /\ p.slots[s].status = "current" /\ p.slots[s].epoch = o.epoch
                 /\ q \in Progress /\ OneCurrent(q)
                 /\ q.current = p.current /\ q.binding = p.binding /\ q.asserted = p.asserted
                 /\ q.slots[s].status = "completed" /\ q.slots[s].winner = o.winner
                 /\ q.slots[s].evidence = o.play
                 /\ \A t \in Slots : t # s => q.slots[t] = p.slots[t]
<1> DEFINE S == SlotsOfEpoch(p, o.epoch)
           s == FirstOf(S)
<1> SUFFICES ASSUME d, S # {}
             PROVE  \E u \in Slots :
                      /\ p.slots[u].status = "current" /\ p.slots[u].epoch = o.epoch
                      /\ q \in Progress /\ OneCurrent(q)
                      /\ q.current = p.current /\ q.binding = p.binding /\ q.asserted = p.asserted
                      /\ q.slots[u].status = "completed" /\ q.slots[u].winner = o.winner
                      /\ q.slots[u].evidence = o.play
                      /\ \A t \in Slots : t # u => q.slots[t] = p.slots[t]
    BY DEF EndMap
<1>1. PICK u : u \in S
    OBVIOUS
<1>2. S = {u} /\ u \in Slots /\ p.slots[u].status = "current" /\ p.slots[u].epoch = o.epoch
    BY <1>1 DEF SlotsOfEpoch, OneCurrent
<1>3. s = u
    <2>1. u <= u
        BY <1>2, SlotsAreNumbers
    <2> QED BY <1>2, <2>1 DEF FirstOf
<1> DEFINE slot == [status |-> "completed", epoch |-> p.slots[u].epoch, winner |-> o.winner,
                    evidence |-> o.play]
           f == [p.slots EXCEPT ![u] = slot]
<1>4. q = [p EXCEPT !.slots = f]
    BY <1>3 DEF EndMap
<1>5. slot \in Slot
    BY <1>2, SlotTypes DEF Slot, Status, Observation, Epochs, Winners
<1>6. p.slots \in [Slots -> Slot] /\ p.current \in Slots \cup {0}
      /\ p.binding \in {"bound", "unbound", "needs_operator"}
    BY DEF Progress
<1>7. f \in [Slots -> Slot] /\ f[u] = slot /\ \A t \in Slots : t # u => f[t] = p.slots[t]
    BY <1>2, <1>5, <1>6
<1>8. slot.status = "completed" /\ slot.winner = o.winner /\ slot.evidence = o.play
    OBVIOUS
<1> HIDE DEF f, slot, S, s
<1>9. q \in Progress /\ q.slots = f /\ q.current = p.current /\ q.binding = p.binding
      /\ q.asserted = p.asserted
    BY <1>4, <1>7 DEF Progress
<1>10. OneCurrent(q)
    <2>1. \A t \in Slots : t # u => p.slots[t].status # "current"
        BY <1>2 DEF OneCurrent
    <2>2. \A t \in Slots : q.slots[t].status # "current"
        BY <1>7, <1>8, <1>9, <2>1
    <2>3. q.current \in Slots => q.slots[q.current].status = "completed"
        <3>1. CASE q.current = u
            BY <1>2, <1>7, <1>8, <1>9, <3>1
        <3>2. ASSUME q.current \in Slots, q.current # u
              PROVE  q.slots[q.current].status = "completed"
            BY <1>2, <1>7, <1>9, <2>1, <3>2, SlotsAreNumbers DEF OneCurrent
        <3> QED BY <3>1, <3>2
    <2>4. q.current \in Slots \cup {0}
        BY <1>6, <1>9
    <2> QED BY <2>2, <2>3, <2>4 DEF OneCurrent
<1> QED BY <1>2, <1>7, <1>8, <1>9, <1>10

LEMMA EndKeeps ==
    ASSUME NEW p \in Progress, OneCurrent(p), NEW o \in Observation, NEW d \in BOOLEAN,
           NEW q, q = EndMap(p, o, d)
    PROVE  q \in Progress /\ OneCurrent(q) /\ Keeps(p, q)
<1>1. CASE q = p
    BY <1>1 DEF Keeps
<1>2. CASE q # p
    <2>1. PICK s \in Slots :
              /\ p.slots[s].status = "current" /\ q \in Progress /\ OneCurrent(q)
              /\ \A t \in Slots : t # s => q.slots[t] = p.slots[t]
        BY <1>2, EndCases
    <2> QED BY <2>1 DEF Keeps, Completed
<1> QED BY <1>1, <1>2

\* A won series closes the slots that are still open and touches no other.
LEMMA CompletionCases ==
    ASSUME NEW p \in Progress, NEW q, q = ApplySeriesCompletion(p)
    PROVE  \/ q = p /\ ~SeriesWon(q)
           \/ /\ q \in Progress /\ q.binding = "bound" /\ Completed(q) = Completed(p)
              /\ \A s \in Completed(p) : q.slots[s] = p.slots[s]
              /\ \A s \in Slots : q.slots[s].status # "current"
              /\ q.current = 0 /\ Playable(q) = {}
<1> SUFFICES ASSUME SeriesWon(p)
             PROVE  /\ q \in Progress /\ q.binding = "bound" /\ Completed(q) = Completed(p)
                    /\ \A s \in Completed(p) : q.slots[s] = p.slots[s]
                    /\ \A s \in Slots : q.slots[s].status # "current"
                    /\ q.current = 0 /\ Playable(q) = {}
    BY DEF ApplySeriesCompletion
<1> DEFINE f == [s \in Slots |-> IF s \in Playable(p)
                                 THEN [p.slots[s] EXCEPT !.status = "not_played"]
                                 ELSE p.slots[s]]
<1>1. ASSUME NEW s \in Slots
      PROVE  /\ f[s] \in Slot /\ f[s].status # "current" /\ f[s].status # "pending"
             /\ f[s].status = "completed" <=> p.slots[s].status = "completed"
             /\ p.slots[s].status = "completed" => f[s] = p.slots[s]
    BY SlotTypes DEF Slot, Status, Playable
<1>2. f \in [Slots -> Slot]
    BY <1>1
<1>3. q = [p EXCEPT !.slots = f, !.current = 0, !.binding = "bound"]
    BY DEF ApplySeriesCompletion
<1> HIDE DEF f
<1>4. q \in Progress /\ q.slots = f /\ q.binding = "bound" /\ q.current = 0
    BY <1>2, <1>3 DEF Progress
<1>5. Completed(q) = Completed(p)
    BY <1>1, <1>4 DEF Completed
<1>6. Playable(q) = {}
    BY <1>1, <1>4 DEF Playable
<1> QED BY <1>1, <1>4, <1>5, <1>6 DEF Completed

LEMMA CompletionKeeps ==
    ASSUME NEW p \in Progress, OneCurrent(p), NEW q, q = ApplySeriesCompletion(p)
    PROVE  q \in Progress /\ OneCurrent(q) /\ Keeps(p, q) /\ Closed(q)
<1>1. CASE q = p /\ ~SeriesWon(q)
    BY <1>1 DEF Keeps, Closed
<1>2. CASE /\ q \in Progress /\ Completed(q) = Completed(p)
           /\ \A s \in Completed(p) : q.slots[s] = p.slots[s]
           /\ \A s \in Slots : q.slots[s].status # "current"
           /\ q.current = 0 /\ Playable(q) = {}
    BY <1>2 DEF Keeps, OneCurrent, Closed
<1> QED BY <1>1, <1>2, CompletionCases

LEMMA KeepsTransitive ==
    ASSUME NEW p, NEW q, NEW r, Keeps(p, q), Keeps(q, r) PROVE Keeps(p, r)
BY DEF Keeps, Completed

\* What follows the binding never reopens or rescores a frozen slot, nor does the whole.
LEMMA CloseKeeps ==
    ASSUME NEW p \in Progress, OneCurrent(p), NEW o \in Observation, NEW d \in BOOLEAN,
           NEW q, q = ApplySeriesCompletion(IF o.ended THEN EndMap(p, o, d) ELSE p)
    PROVE  q \in Progress /\ OneCurrent(q) /\ Keeps(p, q) /\ Closed(q)
<1> DEFINE closed == IF o.ended THEN EndMap(p, o, d) ELSE p
<1>1. closed \in Progress /\ OneCurrent(closed) /\ Keeps(p, closed)
    <2>1. CASE o.ended
        BY <2>1, EndKeeps
    <2>2. CASE ~o.ended
        BY <2>2 DEF Keeps
    <2> QED BY <2>1, <2>2
<1> HIDE DEF closed
<1>2. q = ApplySeriesCompletion(closed)
    BY DEF closed
<1>3. q \in Progress /\ OneCurrent(q) /\ Keeps(closed, q) /\ Closed(q)
    BY <1>1, <1>2, CompletionKeeps
<1> QED BY <1>1, <1>3, KeepsTransitive

LEMMA SyncKeeps ==
    ASSUME NEW p \in Progress, OneCurrent(p), NEW o \in Observation, NEW d \in BOOLEAN,
           NEW q, q = Sync(p, o, d)
    PROVE  q \in Progress /\ OneCurrent(q) /\ Keeps(p, q) /\ Closed(q)
<1> DEFINE bound == EnsureBinding(p, o)
<1>1. bound \in Progress /\ OneCurrent(bound) /\ Keeps(p, bound)
    BY EnsureKeeps DEF Keeps
<1>2. q = ApplySeriesCompletion(IF o.ended THEN EndMap(bound, o, d) ELSE bound)
    BY DEF Sync
<1> HIDE DEF bound
<1>3. q \in Progress /\ OneCurrent(q) /\ Keeps(bound, q) /\ Closed(q)
    BY <1>1, <1>2, CloseKeeps
<1> QED BY <1>1, <1>3, KeepsTransitive

-----------------------------------------------------------------------------
(* The executions and what the runtime knows of them *)

\* Each execution on its own map, a slot on its planned map or a spare one.
PlaysOK(w) ==
    /\ w \in Seq(MapPlay) /\ Len(w) <= MaxMaps
    /\ \A i, k \in 1..Len(w) : i # k => w[i].name # w[k].name
    /\ \A i \in 1..Len(w) : w[i].name \in Spare \/ (w[i].slot # 0 /\ w[i].name = Plan[w[i].slot])

\* The runtime's name is of an execution, and resets apart there were no fewer than epochs; the last frame
\* shows an execution as it was or is.
RuntimeOK(r, w) ==
    /\ r \in Runtime
    /\ r.name = NoName <=> r.epoch = 0
    /\ r.name # NoName => \E i \in 1..Len(w) : w[i].name = r.name /\ r.epoch <= i + ResetEpoch
    /\ r.awaiting => r.telemetry = None
    /\ r.telemetry # None =>
          /\ r.telemetry.play \in 1..Len(w)
          /\ r.telemetry.name # NoName => r.telemetry.name = r.name
          /\ r.telemetry.winner # Nobody =>
                /\ r.telemetry.name = w[r.telemetry.play].name
                /\ w[r.telemetry.play].winner = r.telemetry.winner

\* A frozen slot has the result of an execution of its own.
Real(p, w) ==
    \A s \in Completed(p) :
        /\ p.slots[s].evidence \in 1..Len(w) /\ w[p.slots[s].evidence].slot = s
        /\ w[p.slots[s].evidence].winner # Nobody
        /\ w[p.slots[s].evidence].winner = p.slots[s].winner

\* A slot that is current under the runtime's epoch is the bound one, it is the planned one or
\* the operator's, and the execution that this epoch shows is its own.
Tied(p, r, w) ==
    \A s \in Slots : p.slots[s].status = "current" =>
        /\ p.slots[s].epoch <= r.epoch
        /\ p.slots[s].epoch = r.epoch =>
              /\ p.binding # "needs_operator" /\ p.current = s
              /\ Plan[s] = r.name \/ <<s, r.epoch>> \in p.asserted
              /\ w # <<>> /\ w[Len(w)].name = r.name => w[Len(w)].slot = s
              /\ Observed(r).ended => w[r.telemetry.play].slot = s

LEMMA PlayTypes ==
    ASSUME NEW w \in Seq(MapPlay), NEW i \in 1..Len(w)
    PROVE  /\ w[i] \in MapPlay /\ w[i].slot \in Slots \cup {0} /\ w[i].name \in Names
           /\ w[i].winner \in Winners
<1>1. w[i] \in MapPlay
    BY ElementOfSeq
<1> QED BY <1>1 DEF MapPlay, Winners

LEMMA EndedMeans ==
    ASSUME NEW r
    PROVE  /\ Observed(r).ended <=> r.telemetry # None /\ r.telemetry.winner # Nobody
           /\ Observed(r).epoch = r.epoch
           /\ Observed(r).ended =>
                 Observed(r).winner = r.telemetry.winner /\ Observed(r).play = r.telemetry.play
BY DEF Observed

\* Another execution changes nothing of what the runtime and the progress say of the others.
LEMMA PlaysGrow ==
    ASSUME NEW w, PlaysOK(w), NEW r, RuntimeOK(r, w), NEW play \in MapPlay, Len(w) < MaxMaps,
           play.name \in Spare \/ (play.slot # 0 /\ play.name = Plan[play.slot]),
           \A i \in 1..Len(w) : w[i].name # play.name,
           NEW v, v = Append(w, play)
    PROVE  /\ PlaysOK(v) /\ RuntimeOK(r, v)
           /\ \A p \in Progress : (Real(p, w) => Real(p, v)) /\ (Tied(p, r, w) => Tied(p, r, v))
<1>1. /\ v \in Seq(MapPlay) /\ Len(w) \in Nat /\ Len(v) = Len(w) + 1 /\ v[Len(w) + 1] = play
      /\ \A i \in 1..Len(w) : v[i] = w[i]
    BY AppendProperties DEF PlaysOK
<1>2. /\ \A i \in 1..Len(v) : i \in 1..Len(w) \/ i = Len(v)
      /\ \A i \in 1..Len(w) : i \in 1..Len(v) /\ i # Len(v)
      /\ v[Len(v)] = play /\ v # <<>> /\ Len(v) \in 1..Len(v)
    BY <1>1
<1>3. PlaysOK(v)
    <2>1. Len(v) <= MaxMaps
        BY <1>1, EpochTypes DEF PlaysOK
    <2>2. ASSUME NEW i \in 1..Len(v), NEW k \in 1..Len(v), i # k PROVE v[i].name # v[k].name
        BY <1>1, <1>2, <2>2 DEF PlaysOK
    <2>3. ASSUME NEW i \in 1..Len(v)
          PROVE  v[i].name \in Spare \/ (v[i].slot # 0 /\ v[i].name = Plan[v[i].slot])
        BY <1>1, <1>2 DEF PlaysOK
    <2> QED BY <1>1, <2>1, <2>2, <2>3 DEF PlaysOK
<1>4. RuntimeOK(r, v)
    BY <1>1, <1>2 DEF RuntimeOK
<1>5. ASSUME NEW p \in Progress, Real(p, w) PROVE Real(p, v)
    BY <1>1, <1>2, <1>5 DEF Real
<1>6. ASSUME NEW p \in Progress, Tied(p, r, w) PROVE Tied(p, r, v)
    <2> SUFFICES ASSUME NEW s \in Slots, p.slots[s].status = "current"
                 PROVE  /\ p.slots[s].epoch <= r.epoch
                        /\ p.slots[s].epoch = r.epoch =>
                              /\ p.binding # "needs_operator" /\ p.current = s
                              /\ Plan[s] = r.name \/ <<s, r.epoch>> \in p.asserted
                              /\ v # <<>> /\ v[Len(v)].name = r.name => v[Len(v)].slot = s
                              /\ Observed(r).ended => v[r.telemetry.play].slot = s
        BY DEF Tied
    <2>1. v[Len(v)].name # r.name
        <3>1. play.name # NoName
            BY PlanAssumption DEF MapPlay
        <3> QED BY <1>2, <3>1 DEF RuntimeOK
    <2>2. Observed(r).ended => v[r.telemetry.play] = w[r.telemetry.play]
        BY <1>1, EndedMeans DEF RuntimeOK
    <2> QED BY <1>6, <2>1, <2>2 DEF Tied
<1> QED BY <1>3, <1>4, <1>5, <1>6

\* Neither does the end of the one being played.
WithWinner(w, e) == [w EXCEPT ![Len(w)].winner = e]

LEMMA PlayEnds ==
    ASSUME NEW w, PlaysOK(w), NEW r, RuntimeOK(r, w), w # <<>>, w[Len(w)].winner = Nobody,
           NEW e \in Entrants, NEW v, v = WithWinner(w, e)
    PROVE  /\ PlaysOK(v) /\ RuntimeOK(r, v)
           /\ \A p \in Progress : (Real(p, w) => Real(p, v)) /\ (Tied(p, r, w) => Tied(p, r, v))
<1>1. w \in Seq(MapPlay) /\ Len(w) \in Nat /\ Len(w) \in 1..Len(w) /\ DOMAIN w = 1..Len(w)
    BY LenProperties, EmptySeq DEF PlaysOK
<1>2. \A i \in 1..Len(w) : w[i] \in MapPlay
    BY PlayTypes DEF PlaysOK
<1> DEFINE end == [w[Len(w)] EXCEPT !.winner = e]
<1>3. /\ end \in MapPlay /\ end.winner = e /\ e # Nobody
      /\ end.slot = w[Len(w)].slot /\ end.name = w[Len(w)].name
    BY <1>1, <1>2, EntrantsAssumption DEF MapPlay
<1>4. v = [w EXCEPT ![Len(w)] = end]
    BY DEF WithWinner
<1> HIDE DEF end
<1>5. /\ v \in Seq(MapPlay) /\ Len(v) = Len(w) /\ v[Len(w)] = end /\ v # <<>>
      /\ \A i \in 1..Len(w) : i # Len(w) => v[i] = w[i]
    BY <1>1, <1>2, <1>3, <1>4, ExceptSeq
<1>6. \A i \in 1..Len(w) : /\ v[i].name = w[i].name /\ v[i].slot = w[i].slot
                           /\ w[i].winner # Nobody => v[i] = w[i]
    BY <1>3, <1>5
<1>7. PlaysOK(v)
    BY <1>5, <1>6 DEF PlaysOK
<1>8. RuntimeOK(r, v)
    BY <1>5, <1>6 DEF RuntimeOK
<1>9. ASSUME NEW p \in Progress, Real(p, w) PROVE Real(p, v)
    BY <1>5, <1>6, <1>9 DEF Real
<1>10. ASSUME NEW p \in Progress, Tied(p, r, w) PROVE Tied(p, r, v)
    <2> SUFFICES ASSUME NEW s \in Slots, p.slots[s].status = "current"
                 PROVE  /\ p.slots[s].epoch <= r.epoch
                        /\ p.slots[s].epoch = r.epoch =>
                              /\ p.binding # "needs_operator" /\ p.current = s
                              /\ Plan[s] = r.name \/ <<s, r.epoch>> \in p.asserted
                              /\ v # <<>> /\ v[Len(v)].name = r.name => v[Len(v)].slot = s
                              /\ Observed(r).ended => v[r.telemetry.play].slot = s
        BY DEF Tied
    <2>1. v[Len(v)].name = w[Len(w)].name /\ v[Len(v)].slot = w[Len(w)].slot
        BY <1>1, <1>5, <1>6
    <2>2. Observed(r).ended => v[r.telemetry.play].slot = w[r.telemetry.play].slot
        BY <1>6, EndedMeans DEF RuntimeOK
    <2> QED BY <1>10, <2>1, <2>2 DEF Tied
<1> QED BY <1>7, <1>8, <1>9, <1>10

\* A runtime that shows nothing says less.
WithoutFrame(r, a) == [r EXCEPT !.telemetry = None, !.awaiting = a]

LEMMA ShowsNothing ==
    ASSUME NEW w, PlaysOK(w), NEW r, RuntimeOK(r, w), NEW a \in BOOLEAN,
           NEW n, n = WithoutFrame(r, a)
    PROVE  /\ RuntimeOK(n, w) /\ n.epoch = r.epoch /\ n.name = r.name
           /\ \A p \in Progress : Tied(p, r, w) => Tied(p, n, w)
<1>1. n \in Runtime /\ n.epoch = r.epoch /\ n.name = r.name /\ n.telemetry = None
    BY DEF RuntimeOK, Runtime, WithoutFrame
<1>2. RuntimeOK(n, w)
    BY <1>1 DEF RuntimeOK
<1>3. ~Observed(n).ended
    BY <1>1, EndedMeans
<1> QED BY <1>1, <1>2, <1>3 DEF Tied

\* A frame of the execution being played: another name opens an epoch of its own.
LEMMA FrameShows ==
    ASSUME NEW w, PlaysOK(w), NEW r, RuntimeOK(r, w), w # <<>>, NEW hasMap \in BOOLEAN,
           NEW f, f = [name   |-> IF hasMap THEN w[Len(w)].name ELSE NoName,
                       winner |-> IF hasMap THEN w[Len(w)].winner ELSE Nobody,
                       play   |-> Len(w)],
           NEW n, n = AcceptFrame(r, f)
    PROVE  /\ RuntimeOK(n, w)
           /\ \A p \in Progress : Tied(p, r, w) => Tied(p, n, w)
<1>1. w \in Seq(MapPlay) /\ Len(w) \in Nat /\ Len(w) \in 1..Len(w) /\ Len(w) <= MaxMaps
      /\ w[Len(w)].name \in Names /\ w[Len(w)].winner \in Winners /\ NoName \notin Names
    BY LenProperties, EmptySeq, PlayTypes, PlanAssumption DEF PlaysOK
<1>2. /\ f.play = Len(w)
      /\ hasMap => f.name = w[Len(w)].name /\ f.winner = w[Len(w)].winner /\ f.name # NoName
      /\ ~hasMap => f.name = NoName /\ f.winner = Nobody
    BY <1>1
<1>3. f \in Frame /\ f # None
    <2>1. f.name \in Names \cup {NoName} /\ f.winner \in Winners /\ f.play \in 1..MaxMaps
        BY <1>1, <1>2, EpochTypes DEF Winners
    <2>2. f = [name |-> f.name, winner |-> f.winner, play |-> f.play]
        OBVIOUS
    <2>3. f \in Frame
        BY <2>1, <2>2 DEF Frame, Winners
    <2> QED BY <2>3, NoneAssumption
<1>4. r.epoch \in Epochs /\ r.name \in Names \cup {NoName} /\ Epochs \subseteq Nat
    BY EpochTypes DEF RuntimeOK, Runtime, Epochs
<1>5. /\ n.telemetry = f /\ n.awaiting = FALSE
      /\ n = [epoch |-> n.epoch, name |-> n.name, telemetry |-> f, awaiting |-> FALSE]
    BY DEF AcceptFrame
<1>6. CASE ~hasMap \/ w[Len(w)].name = r.name
    <2>1. n.epoch = r.epoch /\ n.name = r.name
        BY <1>2, <1>6 DEF AcceptFrame, MapState
    <2>2. n \in Runtime
        BY <1>3, <1>4, <1>5, <2>1 DEF Runtime, Epochs
    <2>3. RuntimeOK(n, w)
        <3>1. /\ n.name = NoName <=> n.epoch = 0
              /\ n.name # NoName =>
                    \E i \in 1..Len(w) : w[i].name = n.name /\ n.epoch <= i + ResetEpoch
            BY <2>1 DEF RuntimeOK
        <3>2. /\ f.play \in 1..Len(w)
              /\ f.name # NoName => f.name = n.name
              /\ f.winner # Nobody => f.name = w[f.play].name /\ w[f.play].winner = f.winner
            BY <1>1, <1>2, <1>6, <2>1
        <3> QED BY <1>5, <2>2, <3>1, <3>2 DEF RuntimeOK
    <2>4. ASSUME NEW p \in Progress, Tied(p, r, w) PROVE Tied(p, n, w)
        <3>1. Observed(n).ended => hasMap
            BY <1>2, <1>5, EndedMeans
        <3>2. hasMap => n.telemetry.play = Len(w) /\ w[Len(w)].name = r.name
            BY <1>2, <1>5, <1>6
        <3>3. w # <<>>
            OBVIOUS
        <3> QED BY <2>1, <2>4, <3>1, <3>2, <3>3 DEF Tied
    <2> QED BY <2>3, <2>4
<1>7. CASE hasMap /\ w[Len(w)].name # r.name
    <2>1. n.epoch = r.epoch + 1 /\ n.name = w[Len(w)].name
        BY <1>2, <1>7 DEF AcceptFrame, MapState
    <2>2. r.epoch + 1 <= Len(w) + ResetEpoch
        <3>1. CASE r.epoch = 0
            BY <1>1, <3>1, EpochTypes
        <3>2. CASE r.epoch # 0
            <4>1. PICK i \in 1..Len(w) : w[i].name = r.name /\ r.epoch <= i + ResetEpoch
                BY <3>2 DEF RuntimeOK
            <4>2. i # Len(w)
                BY <1>7, <4>1
            <4>3. r.epoch \in Nat /\ r.epoch <= i + ResetEpoch
                BY <1>4, <4>1
            <4>4. ASSUME NEW b \in Nat, NEW k \in 1..b, NEW m \in Nat, NEW z \in Nat,
                         m <= k + z, k # b
                  PROVE  m + 1 <= b + z
                BY <4>4
            <4> QED BY <1>1, <4>2, <4>3, <4>4, EpochTypes
        <3> QED BY <3>1, <3>2
    <2>3. n.epoch \in Epochs /\ n.epoch # 0
        <3>1. r.epoch \in Nat
            BY <1>4
        <3>2. r.epoch + 1 \in Nat /\ r.epoch + 1 # 0 /\ r.epoch + 1 <= MaxMaps + ResetEpoch
            BY <1>1, <2>2, <3>1, EpochTypes
        <3> QED BY <2>1, <3>2, EpochTypes
    <2>4. n \in Runtime
        BY <1>1, <1>3, <1>5, <2>1, <2>3 DEF Runtime, Epochs
    <2>5. RuntimeOK(n, w)
        <3>1. n.name # NoName /\ w[Len(w)].name = n.name /\ n.epoch <= Len(w) + ResetEpoch
            BY <1>1, <2>1, <2>2
        <3>2. /\ f.play \in 1..Len(w)
              /\ f.name # NoName => f.name = n.name
              /\ f.winner # Nobody => f.name = w[f.play].name /\ w[f.play].winner = f.winner
            BY <1>1, <1>2, <1>7, <2>1
        <3> QED BY <1>1, <1>5, <2>3, <2>4, <3>1, <3>2 DEF RuntimeOK
    <2>6. ASSUME NEW p \in Progress, Tied(p, r, w) PROVE Tied(p, n, w)
        <3>1. ASSUME NEW s \in Slots, p.slots[s].status = "current"
              PROVE  p.slots[s].epoch <= n.epoch /\ p.slots[s].epoch # n.epoch
            <4>1. p.slots[s].epoch <= r.epoch
                BY <2>6, <3>1 DEF Tied
            <4>2. p.slots[s].epoch \in Nat /\ r.epoch \in Nat
                BY <1>4, SlotTypes
            <4> QED BY <2>1, <4>1, <4>2
        <3> QED BY <3>1 DEF Tied
    <2> QED BY <2>5, <2>6
<1> QED BY <1>6, <1>7

-----------------------------------------------------------------------------
(* One synchronization *)

\* What is known of a version of the progress, in memory, queued or in the file.
Sound(p, r, w) == p \in Progress /\ OneCurrent(p) /\ Real(p, w) /\ Tied(p, r, w)

\* The name that the runtime reports is its own.
LEMMA ReportedName ==
    ASSUME NEW w, NEW r, RuntimeOK(r, w), Observed(r).name # NoName
    PROVE  Observed(r).name = r.name
BY DEF Observed, RuntimeOK

\* No map is planned twice: a name says which slot it is planned for.
DistinctPlan ==
    \A s \in Slots : Plan[s] \notin Spare /\ \A t \in Slots : Plan[s] = Plan[t] => s = t

\* The execution whose name is planned for a slot is that slot's.
LEMMA PlannedPlay ==
    ASSUME DistinctPlan, NEW w, PlaysOK(w), NEW i \in 1..Len(w),
           NEW s \in Slots, Plan[s] = w[i].name
    PROVE  w[i].slot = s
<1>1. w[i].slot \in Slots \cup {0}
    BY PlayTypes DEF PlaysOK
<1>2. w[i].slot # 0 /\ w[i].name = Plan[w[i].slot]
    BY DEF PlaysOK, DistinctPlan
<1> QED BY <1>1, <1>2 DEF DistinctPlan

\* A slot may be the current one once the executions that show for this epoch are its own.
LEMMA BoundSound ==
    ASSUME NEW w, NEW r, RuntimeOK(r, w), NEW s \in Slots, NEW q, Real(q, w), OneCurrent(q),
           /\ q \in Progress /\ q.current = s /\ q.binding = "bound"
           /\ q.slots[s].status = "current" /\ q.slots[s].epoch = r.epoch,
           Plan[s] = r.name \/ <<s, r.epoch>> \in q.asserted,
           w # <<>> /\ w[Len(w)].name = r.name => w[Len(w)].slot = s,
           Observed(r).ended => w[r.telemetry.play].slot = s
    PROVE  Sound(q, r, w)
<1>1. \A t \in Slots : q.slots[t].status = "current" => t = s
    BY DEF OneCurrent
<1>2. q.slots[s].epoch <= r.epoch
    BY EpochTypes DEF RuntimeOK, Runtime, Epochs
<1>3. q.binding # "needs_operator"
    OBVIOUS
<1>4. Tied(q, r, w)
    BY <1>1, <1>2, <1>3 DEF Tied
<1> QED BY <1>4 DEF Sound

LEMMA EnsureSound ==
    ASSUME DistinctPlan, NEW w, PlaysOK(w), NEW r, RuntimeOK(r, w), NEW p, Sound(p, r, w),
           NEW q, q = EnsureBinding(p, Observed(r))
    PROVE  Sound(q, r, w)
<1> DEFINE o == Observed(r)
<1>1. o \in Observation /\ o.epoch = r.epoch /\ o.epoch \in Epochs
    BY ObservedTyped, EndedMeans DEF RuntimeOK, Observation
<1>2. o.name # NoName => o.name = r.name
    BY ReportedName
<1>3. CASE q = p
    BY <1>3
<1>4. CASE o.name # NoName /\ ~AlreadyBound(p, o)
           /\ q = [p EXCEPT !.current = 0, !.binding = "needs_operator"]
    <2>1. q \in Progress /\ q.slots = p.slots /\ Completed(q) = Completed(p) /\ q.current = 0
        BY <1>4, WaitingFacts DEF Sound
    <2>2. ASSUME NEW s \in Slots, p.slots[s].status = "current" PROVE p.slots[s].epoch # r.epoch
        <3> SUFFICES ASSUME p.slots[s].epoch = r.epoch PROVE FALSE
            OBVIOUS
        <3>1. p.current = s /\ (Plan[s] = r.name \/ <<s, r.epoch>> \in p.asserted) /\ s # 0
            BY <2>2, SlotsAreNumbers DEF Sound, Tied
        <3>2. AlreadyBound(p, o)
            BY <1>1, <1>2, <1>4, <2>2, <3>1 DEF AlreadyBound
        <3> QED BY <1>4, <3>2
    <2>3. Tied(q, r, w)
        BY <2>1, <2>2 DEF Tied, Sound
    <2> QED BY <2>1, <2>3 DEF Sound, OneCurrent, Real
<1>5. ASSUME o.name # NoName, NEW s \in Playable(p), Plan[s] = o.name,
             q = SetCurrentMap(p, s, o.epoch)
      PROVE  Sound(q, r, w)
    <2>1. s \in Slots /\ Plan[s] = r.name
        BY <1>2, <1>5, PlayableIsOpen
    <2>2. /\ q \in Progress /\ OneCurrent(q)
          /\ q.current = s /\ q.binding = "bound"
          /\ q.slots[s].status = "current" /\ q.slots[s].epoch = r.epoch
          /\ \A t \in Slots : t # s => q.slots[t].status # "current"
          /\ Completed(q) = Completed(p) \ {s}
          /\ \A t \in Completed(q) : q.slots[t] = p.slots[t]
        BY <1>1, <1>5, <2>1, SetCurrentFacts DEF Sound
    <2>3. \A t \in Completed(q) : t \in Completed(p) /\ q.slots[t] = p.slots[t]
        BY <2>2
    <2>4. w # <<>> => Len(w) \in 1..Len(w)
        BY LenProperties, EmptySeq DEF PlaysOK
    <2>5. w # <<>> /\ w[Len(w)].name = r.name => w[Len(w)].slot = s
        BY <2>1, <2>4, PlannedPlay
    <2>6. o.ended => w[r.telemetry.play].slot = s
        <3> SUFFICES ASSUME o.ended PROVE w[r.telemetry.play].slot = s
            OBVIOUS
        <3>1. r.telemetry # None /\ r.telemetry.winner # Nobody
            BY EndedMeans
        <3>2. r.telemetry.play \in 1..Len(w) /\ w[r.telemetry.play].name \in Names
            BY <3>1, PlayTypes DEF RuntimeOK, PlaysOK
        <3>3. w[r.telemetry.play].name = r.name
            BY <3>1, <3>2, PlanAssumption DEF RuntimeOK
        <3> QED BY <2>1, <3>2, <3>3, PlannedPlay
    <2>7. Real(q, w)
        BY <2>3 DEF Real, Sound
    <2>8. Plan[s] = r.name \/ <<s, r.epoch>> \in q.asserted
        BY <2>1
    <2> QED BY <2>1, <2>2, <2>5, <2>6, <2>7, <2>8, BoundSound
<1>6. p \in Progress
    BY DEF Sound
<1>7. q = EnsureBinding(p, o)
    OBVIOUS
<1> HIDE DEF o
<1> QED BY <1>1, <1>3, <1>4, <1>5, <1>6, <1>7, EnsureCases

LEMMA EndSound ==
    ASSUME NEW w, PlaysOK(w), NEW r, RuntimeOK(r, w), NEW p, Sound(p, r, w), NEW d \in BOOLEAN,
           Observed(r).ended, NEW q, q = EndMap(p, Observed(r), d)
    PROVE  Sound(q, r, w)
<1> DEFINE o == Observed(r)
           i == r.telemetry.play
<1>1. /\ o \in Observation /\ o.epoch = r.epoch /\ o.winner = r.telemetry.winner /\ o.play = i
      /\ r.telemetry # None /\ r.telemetry.winner # Nobody
    BY ObservedTyped, EndedMeans DEF RuntimeOK
<1>2. i \in 1..Len(w) /\ w[i].winner = o.winner /\ o.winner # Nobody
    BY <1>1 DEF RuntimeOK
<1>3. CASE q = p
    BY <1>3
<1>4. ASSUME NEW s \in Slots,
             p.slots[s].status = "current", p.slots[s].epoch = o.epoch,
             q \in Progress, OneCurrent(q),
             q.current = p.current, q.binding = p.binding, q.asserted = p.asserted,
             q.slots[s].status = "completed", q.slots[s].winner = o.winner,
             q.slots[s].evidence = o.play,
             \A t \in Slots : t # s => q.slots[t] = p.slots[t]
      PROVE  Sound(q, r, w)
    <2>1. w[i].slot = s
        <3>1. Tied(p, r, w) /\ p.slots[s].epoch = r.epoch
            BY <1>1, <1>4 DEF Sound
        <3> QED BY <1>4, <3>1 DEF Tied
    <2>2. Real(q, w)
        BY <1>1, <1>2, <1>4, <2>1 DEF Sound, Real, Completed
    <2>3. Tied(q, r, w)
        BY <1>4 DEF Sound, Tied
    <2> QED BY <1>4, <2>2, <2>3 DEF Sound
<1>5. p \in Progress /\ OneCurrent(p)
    BY DEF Sound
<1>6. q = EndMap(p, o, d)
    OBVIOUS
<1> HIDE DEF o, i
<1> QED BY <1>1, <1>3, <1>4, <1>5, <1>6, EndCases

LEMMA CompletionSound ==
    ASSUME NEW w, NEW r, NEW p, Sound(p, r, w), NEW q, q = ApplySeriesCompletion(p)
    PROVE  Sound(q, r, w)
<1>1. CASE q = p
    BY <1>1
<1>2. CASE /\ q \in Progress /\ Completed(q) = Completed(p)
           /\ \A s \in Completed(p) : q.slots[s] = p.slots[s]
           /\ \A s \in Slots : q.slots[s].status # "current"
           /\ q.current = 0
    BY <1>2 DEF Sound, OneCurrent, Real, Tied
<1> QED BY <1>1, <1>2, CompletionCases DEF Sound

\* What follows the binding, and the whole, fills a slot only with its own execution.
LEMMA CloseSound ==
    ASSUME NEW w, PlaysOK(w), NEW r, RuntimeOK(r, w), NEW p, Sound(p, r, w), NEW d \in BOOLEAN,
           NEW q, q = ApplySeriesCompletion(IF Observed(r).ended THEN EndMap(p, Observed(r), d)
                                            ELSE p)
    PROVE  Sound(q, r, w)
<1> DEFINE closed == IF Observed(r).ended THEN EndMap(p, Observed(r), d) ELSE p
<1>1. Sound(closed, r, w)
    <2>1. CASE Observed(r).ended
        BY <2>1, EndSound
    <2>2. CASE ~Observed(r).ended
        BY <2>2
    <2> QED BY <2>1, <2>2
<1> HIDE DEF closed
<1>2. q = ApplySeriesCompletion(closed)
    BY DEF closed
<1> QED BY <1>1, <1>2, CompletionSound

LEMMA SyncSound ==
    ASSUME DistinctPlan, NEW w, PlaysOK(w), NEW r, RuntimeOK(r, w), NEW p, Sound(p, r, w),
           NEW d \in BOOLEAN,
           NEW q, q = Sync(p, Observed(r), d)
    PROVE  Sound(q, r, w)
<1> DEFINE bound == EnsureBinding(p, Observed(r))
<1>1. Sound(bound, r, w)
    BY EnsureSound
<1>2. q = ApplySeriesCompletion(IF Observed(r).ended THEN EndMap(bound, Observed(r), d)
                                ELSE bound)
    BY DEF Sync
<1> HIDE DEF bound
<1> QED BY <1>1, <1>2, CloseSound

-----------------------------------------------------------------------------
(* The reset of an execution *)

\* The runtime without the frame, in an epoch of its own under the same name.
Renewed(r) == [r EXCEPT !.epoch = @ + 1, !.telemetry = None]

LEMMA RenewedFacts ==
    ASSUME NEW w, PlaysOK(w), NEW r, RuntimeOK(r, w), r.epoch = ResetEpoch, r.epoch # 0,
           NEW n, n = Renewed(r)
    PROVE  /\ RuntimeOK(n, w) /\ n.epoch = r.epoch + 1 /\ n.epoch \in Epochs
           /\ n.name = r.name /\ n.name # NoName /\ ~Observed(n).ended
           /\ n.awaiting = r.awaiting /\ n.telemetry = None
           /\ \A p \in Progress, s \in Slots :
                 Tied(p, r, w) /\ p.slots[s].status = "current" =>
                    p.slots[s].epoch <= n.epoch /\ p.slots[s].epoch # n.epoch
<1>1. /\ r \in Runtime /\ r.epoch \in Epochs /\ r.epoch \in Nat /\ r.name # NoName
      /\ ResetEpoch \in Nat /\ MaxMaps \in Nat
    BY EpochTypes DEF RuntimeOK, Runtime
<1>2. PICK i \in 1..Len(w) : w[i].name = r.name /\ r.epoch <= i + ResetEpoch
    BY <1>1 DEF RuntimeOK
<1>3. i \in Nat /\ i >= 1 /\ i <= MaxMaps
    <2>1. Len(w) \in Nat /\ Len(w) <= MaxMaps
        BY LenProperties DEF PlaysOK
    <2> QED BY <1>1, <1>2, <2>1
<1>4. r.epoch + 1 \in Nat /\ r.epoch + 1 # 0 /\ r.epoch + 1 <= i + ResetEpoch
    BY <1>1, <1>3
<1>5. r.epoch + 1 \in Epochs
    <2>1. r.epoch + 1 <= MaxMaps + ResetEpoch
        BY <1>1, <1>3, <1>4
    <2> QED BY <1>4, <2>1, EpochTypes
<1>6. /\ n.epoch = r.epoch + 1 /\ n.name = r.name /\ n.telemetry = None
      /\ n.awaiting = r.awaiting /\ n \in Runtime
    BY <1>1, <1>5 DEF Renewed, Runtime
<1>7. RuntimeOK(n, w)
    BY <1>1, <1>2, <1>4, <1>6 DEF RuntimeOK
<1>8. ~Observed(n).ended
    BY <1>6, EndedMeans
<1>9. ASSUME NEW p \in Progress, NEW s \in Slots, Tied(p, r, w), p.slots[s].status = "current"
      PROVE  p.slots[s].epoch <= n.epoch /\ p.slots[s].epoch # n.epoch
    <2>1. p.slots[s].epoch <= r.epoch
        BY <1>9 DEF Tied
    <2>2. p.slots[s].epoch \in Nat
        BY EpochTypes, SlotTypes
    <2> QED BY <1>1, <1>6, <2>1, <2>2
<1> QED BY <1>1, <1>5, <1>6, <1>7, <1>8, <1>9

\* What the progress says of the executions stays true: no slot is of the new epoch.
LEMMA RenewedTied ==
    ASSUME NEW w, PlaysOK(w), NEW r, RuntimeOK(r, w), r.epoch = ResetEpoch, r.epoch # 0,
           NEW n, n = Renewed(r), NEW p \in Progress, Tied(p, r, w)
    PROVE  Tied(p, n, w)
<1>1. \A s \in Slots : p.slots[s].status = "current" =>
          p.slots[s].epoch <= n.epoch /\ p.slots[s].epoch # n.epoch
    BY RenewedFacts
<1> QED BY <1>1 DEF Tied

\* The bound slot begins again, and no other slot changes.
LEMMA ResetCases ==
    ASSUME NEW p \in Progress, OneCurrent(p), NEW e \in Epochs, NEW q, q = ResetCurrentMap(p, e)
    PROVE  \/ q = p
           \/ \E s \in Slots :
                 /\ p.current = s /\ p.slots[s].status = "current"
                 /\ q \in Progress /\ OneCurrent(q) /\ q.current = s /\ q.binding = "bound"
                 /\ q.slots[s].status = "current" /\ q.slots[s].epoch = e
                 /\ q.asserted = p.asserted /\ Completed(q) = Completed(p)
                 /\ \A t \in Slots : t # s => q.slots[t] = p.slots[t]
<1> SUFFICES ASSUME p.current # 0, p.current \in Playable(p)
             PROVE  \E s \in Slots :
                      /\ p.current = s /\ p.slots[s].status = "current"
                      /\ q \in Progress /\ OneCurrent(q) /\ q.current = s /\ q.binding = "bound"
                      /\ q.slots[s].status = "current" /\ q.slots[s].epoch = e
                      /\ q.asserted = p.asserted /\ Completed(q) = Completed(p)
                      /\ \A t \in Slots : t # s => q.slots[t] = p.slots[t]
    BY DEF ResetCurrentMap
<1>1. PICK s \in Slots : p.current = s
    BY DEF Playable
<1>2. p.slots[s].status = "current"
    BY <1>1 DEF Playable, OneCurrent
<1> DEFINE slot == [EmptySlot EXCEPT !.status = "current", !.epoch = e]
           f == [p.slots EXCEPT ![s] = slot]
<1>3. slot \in Slot /\ slot.status = "current" /\ slot.epoch = e
    BY EpochTypes DEF EmptySlot, Slot, Status
<1>4. q = [p EXCEPT !.slots = f, !.binding = "bound"]
    BY <1>1 DEF ResetCurrentMap
<1>5. p.slots \in [Slots -> Slot]
    BY DEF Progress
<1> HIDE DEF slot
<1>6. f \in [Slots -> Slot] /\ f[s] = slot /\ \A t \in Slots : t # s => f[t] = p.slots[t]
    BY <1>3, <1>5
<1> HIDE DEF f
<1>7. /\ q \in Progress /\ q.slots = f /\ q.current = p.current /\ q.binding = "bound"
      /\ q.asserted = p.asserted
    BY <1>4, <1>6 DEF Progress
<1>8. \A t \in Slots : q.slots[t].status = p.slots[t].status
    BY <1>2, <1>3, <1>6, <1>7
<1>9. OneCurrent(q) /\ Completed(q) = Completed(p)
    <2>1. OneCurrent(q)
        <3>1. \A t, u \in Slots : q.slots[t].status = "current" /\ q.slots[u].status = "current"
                                     => t = u
            BY <1>8 DEF OneCurrent
        <3>2. q.slots[q.current].status = "current"
            BY <1>1, <1>2, <1>7, <1>8
        <3> QED BY <3>1, <3>2 DEF OneCurrent
    <2>2. Completed(q) = Completed(p)
        BY <1>8 DEF Completed
    <2> QED BY <2>1, <2>2
<1> QED BY <1>1, <1>2, <1>3, <1>6, <1>7, <1>9

\* The binding and the reset that follows it, as one step of the progress.
Resets(p, n) == ApplySeriesCompletion(ResetCurrentMap(EnsureBinding(p, Observed(n)), n.epoch))

LEMMA ResetsKeeps ==
    ASSUME NEW p \in Progress, OneCurrent(p), NEW n \in Runtime, NEW q, q = Resets(p, n)
    PROVE  q \in Progress /\ OneCurrent(q) /\ Keeps(p, q) /\ Closed(q)
<1> DEFINE b == EnsureBinding(p, Observed(n))
           x == ResetCurrentMap(b, n.epoch)
<1>1. n.epoch \in Epochs
    BY DEF Runtime
<1>2. b \in Progress /\ OneCurrent(b) /\ Keeps(p, b)
    BY ObservedTyped, EnsureKeeps DEF Keeps
<1>3. q = ApplySeriesCompletion(x) /\ x = ResetCurrentMap(b, n.epoch)
    BY DEF Resets
<1> HIDE DEF b, x
<1>4. x \in Progress /\ OneCurrent(x) /\ Keeps(b, x)
    <2>1. CASE x = b
        BY <1>2, <2>1 DEF Keeps
    <2>2. CASE x # b
        <3>1. PICK s \in Slots :
                  /\ b.slots[s].status = "current" /\ x \in Progress /\ OneCurrent(x)
                  /\ \A t \in Slots : t # s => x.slots[t] = b.slots[t]
            BY <1>1, <1>2, <1>3, <2>2, ResetCases
        <3> QED BY <3>1 DEF Keeps, Completed
    <2> QED BY <2>1, <2>2
<1>5. q \in Progress /\ OneCurrent(q) /\ Keeps(x, q) /\ Closed(q)
    BY <1>3, <1>4, CompletionKeeps
<1> QED BY <1>2, <1>4, <1>5, KeepsTransitive

\* Once a frame has named the map, only the slot that the binding has just given the new epoch
\* begins again.
LEMMA ResetsSound ==
    ASSUME DistinctPlan, NEW w, PlaysOK(w), NEW r, RuntimeOK(r, w), r.epoch = ResetEpoch,
           r.epoch # 0, ~r.awaiting, NEW n, n = Renewed(r),
           NEW p, Sound(p, r, w), Closed(p), NEW q, q = Resets(p, n)
    PROVE  Sound(q, n, w)
<1> DEFINE o == Observed(n)
           b == EnsureBinding(p, o)
           x == ResetCurrentMap(b, n.epoch)
<1>1. /\ RuntimeOK(n, w) /\ n.epoch \in Epochs /\ n.name # NoName /\ ~Observed(n).ended
      /\ n.awaiting = r.awaiting /\ n.telemetry = None
      /\ \A s \in Slots : p.slots[s].status = "current" => p.slots[s].epoch # n.epoch
    <2>1. p \in Progress /\ Tied(p, r, w)
        BY DEF Sound
    <2> QED BY <2>1, RenewedFacts
<1>2. o.name = n.name /\ o.epoch = n.epoch /\ o \in Observation
    BY <1>1, ObservedTyped DEF Observed, RuntimeOK
<1>3. Sound(p, n, w)
    BY RenewedTied DEF Sound
<1>4. Sound(b, n, w)
    BY <1>1, <1>3, EnsureSound
<1>5. q = ApplySeriesCompletion(x) /\ x = ResetCurrentMap(b, n.epoch) /\ b = EnsureBinding(p, o)
    BY DEF Resets
<1> HIDE DEF o, b, x
<1>6. ASSUME b.current # 0, b.slots[b.current].status = "current"
      PROVE  b.slots[b.current].epoch = n.epoch
    <2>1. CASE b = p
        <3>1. p.current \in Slots /\ p.slots[p.current].status = "current"
            BY <1>3, <1>6, <2>1 DEF Sound, Progress
        <3>2. p.current \in Playable(p) /\ ~SeriesWon(p)
            BY <3>1 DEF Playable, Closed
        <3>3. ~AlreadyBound(p, o)
            BY <1>1, <1>2, <3>1 DEF AlreadyBound
        <3>4. b = IF {s \in Playable(p) : Plan[s] = o.name} = {FirstOf(Playable(p))}
                  THEN SetCurrentMap(p, FirstOf(Playable(p)), o.epoch)
                  ELSE [p EXCEPT !.current = 0, !.binding = "needs_operator"]
            BY <1>1, <1>2, <1>5, <3>2, <3>3 DEF EnsureBinding
        <3>5. p \in Progress
            BY <1>3 DEF Sound
        <3>6. CASE b = [p EXCEPT !.current = 0, !.binding = "needs_operator"]
            BY <1>6, <3>5, <3>6, WaitingFacts
        <3>7. ASSUME NEW s \in Slots, b = SetCurrentMap(p, s, o.epoch)
              PROVE  b.slots[b.current].epoch = n.epoch
            BY <1>1, <1>2, <3>5, <3>7, SetCurrentFacts
        <3>8. b # [p EXCEPT !.current = 0, !.binding = "needs_operator"] =>
                  \E s \in Slots : b = SetCurrentMap(p, s, o.epoch)
            <4>1. {s \in Playable(p) : Plan[s] = o.name} = {FirstOf(Playable(p))} =>
                      FirstOf(Playable(p)) \in Slots
                BY DEF Playable
            <4> QED BY <3>4, <4>1
        <3> QED BY <3>6, <3>7, <3>8
    <2>2. CASE b = [p EXCEPT !.current = 0, !.binding = "needs_operator"]
        BY <1>3, <1>6, <2>2, WaitingFacts DEF Sound
    <2>3. ASSUME NEW s \in Playable(p), b = SetCurrentMap(p, s, o.epoch)
          PROVE  b.slots[b.current].epoch = n.epoch
        <3>1. s \in Slots /\ p \in Progress
            BY <1>3, PlayableIsOpen DEF Sound
        <3> QED BY <1>1, <1>2, <2>3, <3>1, SetCurrentFacts
    <2>4. p \in Progress
        BY <1>3 DEF Sound
    <2> QED BY <1>2, <1>5, <2>1, <2>2, <2>3, <2>4, EnsureCases
<1>7. Sound(x, n, w)
    <2>1. CASE x = b
        BY <1>4, <2>1
    <2>2. CASE x # b
        <3>1. b \in Progress /\ OneCurrent(b) /\ Real(b, w) /\ Tied(b, n, w)
            BY <1>4 DEF Sound
        <3>2. PICK s \in Slots :
                 /\ b.current = s /\ b.slots[s].status = "current"
                 /\ x \in Progress /\ OneCurrent(x) /\ x.current = s /\ x.binding = "bound"
                 /\ x.slots[s].status = "current" /\ x.slots[s].epoch = n.epoch
                 /\ x.asserted = b.asserted /\ Completed(x) = Completed(b)
                 /\ \A t \in Slots : t # s => x.slots[t] = b.slots[t]
            BY <1>1, <1>5, <2>2, <3>1, ResetCases
        <3>3. b.slots[s].epoch = n.epoch
            BY <1>6, <3>2, SlotsAreNumbers
        <3>4. /\ Plan[s] = n.name \/ <<s, n.epoch>> \in x.asserted
              /\ w # <<>> /\ w[Len(w)].name = n.name => w[Len(w)].slot = s
              /\ Observed(n).ended => w[n.telemetry.play].slot = s
            BY <3>1, <3>2, <3>3 DEF Tied
        <3>5. Real(x, w)
            <4>1. \A t \in Completed(x) : t \in Completed(b) /\ t # s /\ t \in Slots
                BY <3>2 DEF Completed
            <4> QED BY <3>1, <3>2, <4>1 DEF Real
        <3> QED BY <1>1, <3>2, <3>4, <3>5, BoundSound
    <2> QED BY <2>1, <2>2
<1> QED BY <1>5, <1>7, CompletionSound

-----------------------------------------------------------------------------
(* The operator's binding *)

\* The operator binds an open slot to the epoch.
OperatorBinding(p, s, e) == [SetCurrentMap(p, s, e) EXCEPT !.asserted = @ \cup {<<s, e>>}]

IsBoundBy(q, p, s, e) ==
    /\ q \in Progress /\ OneCurrent(q)
    /\ q.current = s /\ q.binding = "bound" /\ <<s, e>> \in q.asserted
    /\ q.slots[s].status = "current" /\ q.slots[s].epoch = e
    /\ Completed(q) = Completed(p) \ {s}
    /\ \A t \in Completed(q) : q.slots[t] = p.slots[t]

LEMMA OperatorBindingFacts ==
    ASSUME NEW p \in Progress, NEW s \in Slots, NEW e \in Epochs
    PROVE  IsBoundBy(OperatorBinding(p, s, e), p, s, e)
<1> DEFINE q == OperatorBinding(p, s, e)
<1> DEFINE x == SetCurrentMap(p, s, e)
<1>1. /\ x \in Progress /\ OneCurrent(x)
      /\ x.current = s /\ x.binding = "bound"
      /\ x.slots[s].status = "current" /\ x.slots[s].epoch = e
      /\ Completed(x) = Completed(p) \ {s}
      /\ \A t \in Completed(x) : x.slots[t] = p.slots[t]
    BY SetCurrentFacts
<1> HIDE DEF x
<1> DEFINE a == x.asserted \cup {<<s, e>>}
<1>2. q = [x EXCEPT !.asserted = a]
    BY DEF x, OperatorBinding
<1>3. a \in SUBSET (Slots \X Epochs) /\ <<s, e>> \in a
    BY <1>1 DEF Progress, Epochs
<1> SUFFICES IsBoundBy(q, p, s, e)
    OBVIOUS
<1> HIDE DEF a, q
<1>4. /\ q \in Progress /\ q.slots = x.slots /\ q.current = x.current /\ q.binding = x.binding
      /\ <<s, e>> \in q.asserted
    BY <1>1, <1>2, <1>3 DEF Progress, Epochs
<1>5. OneCurrent(q) /\ Completed(q) = Completed(x)
    BY <1>1, <1>4 DEF OneCurrent, Completed
<1> QED BY <1>1, <1>4, <1>5 DEF IsBoundBy

\* The first two steps of the command: synchronize, then bind the open slot.
OperatorBound(p, r, s, d) ==
    LET synced == Sync(p, Observed(r), d)
    IN  IF s \in Playable(synced) /\ r.name # NoName /\ ~SeriesWon(synced)
        THEN OperatorBinding(synced, s, r.epoch)
        ELSE synced

LEMMA OperatorKeeps ==
    ASSUME NEW p \in Progress, OneCurrent(p), NEW r \in Runtime, NEW s, NEW d \in BOOLEAN,
           NEW q, q = OperatorBound(p, r, s, d)
    PROVE  q \in Progress /\ OneCurrent(q) /\ Keeps(p, q)
<1> DEFINE synced == Sync(p, Observed(r), d)
<1>1. synced \in Progress /\ OneCurrent(synced) /\ Keeps(p, synced)
    BY ObservedTyped, SyncKeeps
<1>2. \/ q = synced
      \/ /\ s \in Playable(synced)
         /\ q = OperatorBinding(synced, s, r.epoch)
    BY DEF OperatorBound
<1> HIDE DEF synced
<1>3. CASE q = synced
    BY <1>1, <1>3
<1>4. CASE /\ s \in Playable(synced)
           /\ q = OperatorBinding(synced, s, r.epoch)
    <2>1. s \in Slots /\ s \notin Completed(synced) /\ r.epoch \in Epochs
        BY <1>4, PlayableIsOpen DEF Runtime, Epochs
    <2>2. IsBoundBy(q, synced, s, r.epoch)
        BY <1>1, <1>4, <2>1, OperatorBindingFacts
    <2>3. Keeps(synced, q)
        BY <2>1, <2>2 DEF Keeps, IsBoundBy
    <2> QED BY <1>1, <2>2, <2>3, KeepsTransitive DEF IsBoundBy
<1> QED BY <1>2, <1>3, <1>4

\* Sound when the slot is the one being played, on the execution that the last frame showed.
LEMMA OperatorSound ==
    ASSUME DistinctPlan, NEW w, PlaysOK(w), NEW r, RuntimeOK(r, w), NEW p, Sound(p, r, w),
           NEW d \in BOOLEAN,
           NEW s, w # <<>> /\ w[Len(w)].name = r.name => w[Len(w)].slot = s,
           Observed(r).ended => w[r.telemetry.play].slot = s,
           NEW q, q = OperatorBound(p, r, s, d)
    PROVE  Sound(q, r, w)
<1> DEFINE synced == Sync(p, Observed(r), d)
<1>1. Sound(synced, r, w)
    BY SyncSound
<1>2. \/ q = synced
      \/ /\ s \in Playable(synced)
         /\ q = OperatorBinding(synced, s, r.epoch)
    BY DEF OperatorBound
<1> HIDE DEF synced
<1>3. CASE q = synced
    BY <1>1, <1>3
<1>4. CASE /\ s \in Playable(synced)
           /\ q = OperatorBinding(synced, s, r.epoch)
    <2>1. s \in Slots /\ s \notin Completed(synced) /\ r.epoch \in Epochs
        BY <1>4, PlayableIsOpen DEF RuntimeOK, Runtime, Epochs
    <2>2. IsBoundBy(q, synced, s, r.epoch)
        <3>1. synced \in Progress
            BY <1>1 DEF Sound
        <3> QED BY <1>4, <2>1, <3>1, OperatorBindingFacts
    <2>3. Real(q, w)
        BY <1>1, <2>2 DEF Real, Sound, IsBoundBy
    <2> QED BY <2>1, <2>2, <2>3, BoundSound DEF IsBoundBy
<1> QED BY <1>2, <1>3, <1>4

-----------------------------------------------------------------------------
(* The queue of versions *)

Made == {p \in Progress : OneCurrent(p) /\ Closed(p)}

LEMMA MadeFacts ==
    None \notin Made /\ Made \subseteq Progress /\ \A p \in Made : OneCurrent(p) /\ Closed(p)
BY NoneAssumption DEF Made

LEMMA QueueGrows ==
    ASSUME NEW q \in Seq(Made), NEW p \in Made, NEW v, v = q \/ v = Append(q, p)
    PROVE  /\ v \in Seq(Made)
           /\ \A k \in 1..Len(v) : (k \in 1..Len(q) /\ v[k] = q[k]) \/ v[k] = p
           /\ \A i, k \in 1..Len(v) : i < k => i \in 1..Len(q) /\ v[i] = q[i]
<1>1. CASE v = q
    <2>1. \A i, k \in 1..Len(q) : i < k => i \in 1..Len(q)
        OBVIOUS
    <2> QED BY <1>1, <2>1
<1>2. CASE v = Append(q, p)
    <2>1. /\ v \in Seq(Made) /\ Len(q) \in Nat /\ Len(v) = Len(q) + 1 /\ v[Len(q) + 1] = p
          /\ \A i \in 1..Len(q) : v[i] = q[i]
        BY <1>2, AppendProperties
    <2>2. \A k \in 1..Len(v) : k \in 1..Len(q) \/ k = Len(q) + 1
        BY <2>1
    <2>3. \A i, k \in 1..Len(v) : i < k => i \in 1..Len(q)
        BY <2>1
    <2> QED BY <2>1, <2>2, <2>3
<1> QED BY <1>1, <1>2

LEMMA QueueShrinks ==
    ASSUME NEW q \in Seq(Made), q # <<>>
    PROVE  /\ Tail(q) \in Seq(Made) /\ Head(q) \in Made /\ Head(q) = q[1] /\ 1 \in 1..Len(q)
           /\ \A k \in 1..Len(Tail(q)) : k + 1 \in 1..Len(q) /\ Tail(q)[k] = q[k + 1] /\ 1 < k + 1
           /\ \A i, k \in 1..Len(Tail(q)) : i < k => i + 1 < k + 1
<1>1. /\ Head(q) \in Made /\ Tail(q) \in Seq(Made) /\ Len(Tail(q)) = Len(q) - 1
      /\ \A i \in 1..Len(Tail(q)) : Tail(q)[i] = q[i + 1]
      /\ Len(q) \in Nat \ {0}
    BY HeadTailProperties, EmptySeq
<1>2. Head(q) = q[1]
    OBVIOUS
<1>3. \A k \in 1..Len(Tail(q)) : k + 1 \in 1..Len(q) /\ 1 < k + 1
    BY <1>1
<1>4. \A i, k \in 1..Len(Tail(q)) : i < k => i + 1 < k + 1
    BY <1>1
<1>5. 1 \in 1..Len(q)
    BY <1>1
<1> QED BY <1>1, <1>2, <1>3, <1>4, <1>5

-----------------------------------------------------------------------------
(* What every step keeps *)

SeriesCounts ==
    /\ up \in BOOLEAN /\ crashes \in Nat /\ unbinds \in Nat /\ lostSaves \in Nat
    /\ crashes + unbinds + lostSaves <= MaxFaults

SeriesTypes ==
    /\ PlaysOK(plays) /\ RuntimeOK(runtime, plays)
    /\ ~up => progress = None /\ saving = <<>> /\ runtime.telemetry = None
    /\ progress \in Made \cup {None} /\ saving \in Seq(Made) /\ disk \in Made \cup {None}

\* The file, the queue and the memory hold the same results, each those of the one before it.
SavedInOrder ==
    /\ progress = None => saving = <<>>
    /\ disk # None /\ progress # None => Keeps(disk, progress)
    /\ disk # None => \A k \in 1..Len(saving) : Keeps(disk, saving[k])
    /\ \A k \in 1..Len(saving) : Keeps(saving[k], progress)
    /\ \A i, k \in 1..Len(saving) : i < k => Keeps(saving[i], saving[k])

SeriesKept == SeriesTypes /\ SeriesCounts /\ (unbinds = 0 => SavedInOrder)

EverySound(r, w) ==
    /\ progress # None => Sound(progress, r, w)
    /\ disk # None => Sound(disk, r, w)
    /\ \A k \in 1..Len(saving) : Sound(saving[k], r, w)

\* A later version of the progress, and the queue takes it.
Moves ==
    /\ progress # None /\ progress' \in Made /\ Keeps(progress, progress')
    /\ saving' = saving \/ saving' = Append(saving, progress')

LEMMA MovesKept ==
    ASSUME SeriesTypes, unbinds = 0 => SavedInOrder, Moves, UNCHANGED <<disk, unbinds>>
    PROVE  saving' \in Seq(Made) /\ (unbinds' = 0 => SavedInOrder')
<1>1. /\ saving' \in Seq(Made)
      /\ \A k \in 1..Len(saving') : (k \in 1..Len(saving) /\ saving'[k] = saving[k])
                                       \/ saving'[k] = progress'
      /\ \A i, k \in 1..Len(saving') : i < k => i \in 1..Len(saving) /\ saving'[i] = saving[i]
    BY QueueGrows DEF SeriesTypes, Moves
<1> SUFFICES ASSUME unbinds = 0 PROVE SavedInOrder'
    BY <1>1
<1>2. progress # None /\ progress' # None /\ Keeps(progress, progress') /\ disk' = disk
    BY MadeFacts DEF Moves
<1>3. disk # None => Keeps(disk, progress')
    BY <1>2, KeepsTransitive DEF SavedInOrder
<1>4. \A k \in 1..Len(saving) : Keeps(saving[k], progress')
    BY <1>2, KeepsTransitive DEF SavedInOrder
<1>5. Keeps(progress', progress')
    BY DEF Keeps
<1>6. disk' # None => \A k \in 1..Len(saving') : Keeps(disk', saving'[k])
    BY <1>1, <1>2, <1>3 DEF SavedInOrder
<1>7. \A k \in 1..Len(saving') : Keeps(saving'[k], progress')
    BY <1>1, <1>4, <1>5
<1>8. \A i, k \in 1..Len(saving') : i < k => Keeps(saving'[i], saving'[k])
    BY <1>1, <1>4 DEF SavedInOrder
<1> QED BY <1>2, <1>3, <1>6, <1>7, <1>8 DEF SavedInOrder

LEMMA MovesSound ==
    ASSUME SeriesTypes, Moves, EverySound(runtime', plays'), disk' = disk,
           Sound(progress', runtime', plays')
    PROVE  EverySound(runtime, plays)'
<1>1. \A k \in 1..Len(saving') : (k \in 1..Len(saving) /\ saving'[k] = saving[k])
                                    \/ saving'[k] = progress'
    BY QueueGrows DEF SeriesTypes, Moves
<1> QED BY <1>1 DEF EverySound

\* What the versions say stays true when the runtime or the executions go on.
LEMMA EveryMoves ==
    ASSUME SeriesTypes, NEW r, NEW w, NEW n, NEW v, EverySound(r, w),
           \A p \in Progress : Sound(p, r, w) => Sound(p, n, v)
    PROVE  EverySound(n, v)
<1>1. progress # None => progress \in Progress
    BY MadeFacts DEF SeriesTypes
<1>2. disk # None => disk \in Progress
    BY MadeFacts DEF SeriesTypes
<1>3. \A k \in 1..Len(saving) : saving[k] \in Progress
    BY MadeFacts, ElementOfSeq DEF SeriesTypes
<1> QED BY <1>1, <1>2, <1>3 DEF EverySound

-----------------------------------------------------------------------------
(* The steps *)

LEMMA MapStartsStep ==
    ASSUME SeriesTypes, NEW slot \in Slots \cup {0}, NEW name \in Names, MapStarts(slot, name)
    PROVE  SeriesTypes' /\ (EverySound(runtime, plays) => EverySound(runtime, plays)')
<1> DEFINE play == [slot |-> slot, name |-> name, winner |-> Nobody]
<1>1. play \in MapPlay /\ play.slot = slot /\ play.name = name
    BY DEF MapPlay
<1>2. /\ Len(plays) < MaxMaps /\ plays' = Append(plays, play)
      /\ name \in Spare \/ (slot # 0 /\ name = Plan[slot])
      /\ \A i \in 1..Len(plays) : plays[i].name # name
    <2>1. DOMAIN plays = 1..Len(plays)
        BY LenProperties DEF SeriesTypes, PlaysOK
    <2> QED BY <2>1 DEF MapStarts
<1> HIDE DEF play
<1>3. /\ PlaysOK(plays') /\ RuntimeOK(runtime, plays')
      /\ \A p \in Progress : /\ Real(p, plays) => Real(p, plays')
                             /\ Tied(p, runtime, plays) => Tied(p, runtime, plays')
    BY <1>1, <1>2, PlaysGrow DEF SeriesTypes
<1>4. UNCHANGED <<runtime, progress, saving, disk, up>>
    BY DEF MapStarts
<1>5. SeriesTypes'
    BY <1>3, <1>4 DEF SeriesTypes
<1>6. ASSUME EverySound(runtime, plays) PROVE EverySound(runtime, plays')
    BY <1>3, <1>6, EveryMoves DEF Sound
<1>7. ASSUME EverySound(runtime, plays) PROVE EverySound(runtime, plays)'
    BY <1>4, <1>6, <1>7 DEF EverySound
<1> QED BY <1>5, <1>7

LEMMA MapEndsStep ==
    ASSUME SeriesTypes, NEW e \in Entrants, MapEnds(e)
    PROVE  SeriesTypes' /\ (EverySound(runtime, plays) => EverySound(runtime, plays)')
<1>1. /\ PlaysOK(plays') /\ RuntimeOK(runtime, plays')
      /\ \A p \in Progress : /\ Real(p, plays) => Real(p, plays')
                             /\ Tied(p, runtime, plays) => Tied(p, runtime, plays')
    <2>1. /\ plays # <<>> /\ plays[Len(plays)].winner = Nobody
          /\ plays' = WithWinner(plays, e)
        BY DEF MapEnds, World, WithWinner
    <2>2. PlaysOK(plays) /\ RuntimeOK(runtime, plays)
        BY DEF SeriesTypes
    <2> QED BY <2>1, <2>2, PlayEnds
<1>2. UNCHANGED <<runtime, progress, saving, disk, up>>
    BY DEF MapEnds
<1>3. SeriesTypes'
    BY <1>1, <1>2 DEF SeriesTypes
<1>4. ASSUME EverySound(runtime, plays) PROVE EverySound(runtime, plays')
    BY <1>1, <1>4, EveryMoves DEF Sound
<1>5. ASSUME EverySound(runtime, plays) PROVE EverySound(runtime, plays)'
    BY <1>2, <1>4, <1>5 DEF EverySound
<1> QED BY <1>3, <1>5

LEMMA RefreshStep ==
    ASSUME SeriesTypes, NEW d \in BOOLEAN, Refresh(d)
    PROVE  /\ Moves /\ UNCHANGED <<runtime, plays>>
           /\ DistinctPlan /\ Sound(progress, runtime, plays) =>
                 Sound(progress', runtime, plays)
<1>1. progress # None /\ progress \in Progress /\ OneCurrent(progress)
    BY MadeFacts DEF SeriesTypes, Refresh
<1>2. progress' = Sync(progress, Observed(runtime), d)
    BY DEF Refresh
<1>3. Observed(runtime) \in Observation /\ PlaysOK(plays) /\ RuntimeOK(runtime, plays)
    BY ObservedTyped DEF SeriesTypes, RuntimeOK
<1>4. progress' \in Made /\ Keeps(progress, progress')
    BY <1>1, <1>2, <1>3, SyncKeeps DEF Made
<1>5. DistinctPlan /\ Sound(progress, runtime, plays) => Sound(progress', runtime, plays)
    BY <1>2, <1>3, SyncSound
<1> QED BY <1>1, <1>4, <1>5 DEF Moves, Refresh, Persist

LEMMA OperatorBindsStep ==
    ASSUME SeriesTypes, NEW d \in BOOLEAN, OperatorBinds(d)
    PROVE  /\ Moves /\ UNCHANGED <<runtime, plays>>
           /\ DistinctPlan /\ Sound(progress, runtime, plays) =>
                 Sound(progress', runtime, plays)
<1>1. progress # None /\ progress \in Progress /\ OneCurrent(progress)
    BY MadeFacts DEF SeriesTypes, OperatorBinds
<1> DEFINE bound == OperatorBound(progress, runtime, World.slot, d)
           o == Observed(runtime)
<1>2. progress' = ApplySeriesCompletion(IF o.ended THEN EndMap(bound, o, d) ELSE bound)
    BY DEF OperatorBinds, OperatorBound, OperatorBinding
<1>3. /\ o \in Observation /\ PlaysOK(plays) /\ RuntimeOK(runtime, plays)
      /\ runtime \in Runtime
    BY ObservedTyped DEF SeriesTypes, RuntimeOK
<1>4. bound \in Progress /\ OneCurrent(bound) /\ Keeps(progress, bound)
    BY <1>1, <1>3, OperatorKeeps
<1>5. ASSUME DistinctPlan, Sound(progress, runtime, plays)
      PROVE  Sound(bound, runtime, plays)
    <2>1. runtime.telemetry.play = Len(plays) /\ World.slot = plays[Len(plays)].slot
        BY DEF OperatorBinds, World
    <2> QED BY <1>3, <1>5, <2>1, OperatorSound
<1> HIDE DEF bound
<1>6. ASSUME DistinctPlan, Sound(progress, runtime, plays)
      PROVE  Sound(progress', runtime, plays)
    BY <1>2, <1>3, <1>5, <1>6, CloseSound
<1>7. /\ progress' \in Progress /\ OneCurrent(progress') /\ Keeps(bound, progress')
      /\ Closed(progress')
    BY <1>2, <1>3, <1>4, CloseKeeps
<1>8. progress' \in Made /\ Keeps(progress, progress')
    BY <1>4, <1>7, KeepsTransitive DEF Made
<1> QED BY <1>1, <1>6, <1>8 DEF Moves, OperatorBinds, Persist

LEMMA GsiFrameStep ==
    ASSUME SeriesTypes, NEW gap \in BOOLEAN, NEW hasMap \in BOOLEAN, NEW d \in BOOLEAN,
           GsiFrame(gap, hasMap, d)
    PROVE  /\ PlaysOK(plays) /\ RuntimeOK(runtime', plays) /\ plays' = plays
           /\ \A p \in Progress : Tied(p, runtime, plays) => Tied(p, runtime', plays)
           /\ progress = None => UNCHANGED <<progress, saving>>
           /\ progress # None => Moves
           /\ DistinctPlan /\ progress # None /\ Sound(progress, runtime, plays) =>
                 Sound(progress', runtime', plays)
<1> DEFINE frame == [name   |-> IF hasMap THEN plays[Len(plays)].name ELSE NoName,
                     winner |-> IF hasMap THEN plays[Len(plays)].winner ELSE Nobody,
                     play   |-> Len(plays)]
           before == IF gap THEN AdvanceSource(runtime) ELSE runtime
           renewed == IF gap THEN Sync(progress, Observed(before), FALSE) ELSE progress
<1>1. /\ plays # <<>> /\ plays' = plays /\ runtime' = AcceptFrame(before, frame)
      /\ progress = None => UNCHANGED <<progress, saving>>
      /\ progress # None => /\ progress' = Sync(renewed, Observed(runtime'), d)
                            /\ saving' = saving \/ saving' = Append(saving, progress')
    BY DEF GsiFrame, World, Persist
<1>2. PlaysOK(plays) /\ RuntimeOK(runtime, plays) /\ runtime \in Runtime
    BY DEF SeriesTypes, RuntimeOK
<1>3. /\ RuntimeOK(before, plays)
      /\ \A p \in Progress : Tied(p, runtime, plays) => Tied(p, before, plays)
    <2>1. CASE ~gap
        BY <1>2, <2>1
    <2>2. CASE gap
        <3>1. runtime.awaiting \in BOOLEAN
            BY <1>2 DEF Runtime
        <3>2. before = WithoutFrame(runtime, runtime.awaiting)
            BY <1>2, <2>2 DEF AdvanceSource, Runtime, WithoutFrame
        <3> HIDE DEF before
        <3> QED BY <1>2, <3>1, <3>2, ShowsNothing
    <2> QED BY <2>1, <2>2
<1>4. d \in BOOLEAN /\ FALSE \in BOOLEAN
    OBVIOUS
<1>5. ASSUME progress # None
      PROVE  /\ renewed \in Progress /\ OneCurrent(renewed) /\ Keeps(progress, renewed)
             /\ DistinctPlan /\ Sound(progress, runtime, plays) => Sound(renewed, before, plays)
    <2>1. progress \in Progress /\ OneCurrent(progress)
        BY <1>5, MadeFacts DEF SeriesTypes
    <2>2. Sound(progress, runtime, plays) => Sound(progress, before, plays)
        BY <1>3, <2>1 DEF Sound
    <2>3. CASE ~gap
        BY <2>1, <2>2, <2>3 DEF Keeps
    <2>4. CASE gap
        <3>1. renewed = Sync(progress, Observed(before), FALSE)
            BY <2>4
        <3>2. before \in Runtime
            BY <1>3 DEF RuntimeOK
        <3> HIDE DEF renewed, before
        <3>3. renewed \in Progress /\ OneCurrent(renewed) /\ Keeps(progress, renewed)
            BY <1>4, <2>1, <3>1, <3>2, ObservedTyped, SyncKeeps
        <3>4. DistinctPlan /\ Sound(progress, before, plays) => Sound(renewed, before, plays)
            BY <1>2, <1>3, <1>4, <3>1, SyncSound
        <3> QED BY <2>2, <3>3, <3>4
    <2> QED BY <2>3, <2>4
<1> HIDE DEF before, renewed
<1>6. /\ RuntimeOK(runtime', plays)
      /\ \A p \in Progress : Tied(p, before, plays) => Tied(p, runtime', plays)
    BY <1>1, <1>2, <1>3, FrameShows
<1> HIDE DEF frame
<1>7. ASSUME progress # None PROVE Moves
    <2>1. runtime' \in Runtime
        BY <1>6 DEF RuntimeOK
    <2>2. /\ progress' \in Progress /\ OneCurrent(progress') /\ Keeps(renewed, progress')
          /\ Closed(progress')
        BY <1>1, <1>5, <1>7, <2>1, ObservedTyped, SyncKeeps
    <2>3. progress' \in Made /\ Keeps(progress, progress')
        BY <1>5, <1>7, <2>2, KeepsTransitive DEF Made
    <2> QED BY <1>1, <1>7, <2>3 DEF Moves
<1>8. ASSUME DistinctPlan, progress # None, Sound(progress, runtime, plays)
      PROVE  Sound(progress', runtime', plays)
    <2>1. Sound(renewed, runtime', plays)
        BY <1>5, <1>6, <1>8 DEF Sound
    <2> QED BY <1>1, <1>2, <1>6, <1>8, <2>1, SyncSound
<1> QED BY <1>1, <1>2, <1>3, <1>6, <1>7, <1>8

LEMMA ResetStep ==
    ASSUME SeriesTypes, ResetMapExecution
    PROVE  /\ PlaysOK(plays) /\ RuntimeOK(runtime', plays)
           /\ \A p \in Progress : Tied(p, runtime, plays) => Tied(p, runtime', plays)
           /\ progress = None => UNCHANGED <<progress, saving>>
           /\ progress # None => Moves
           /\ DistinctPlan /\ progress # None /\ Sound(progress, runtime, plays) =>
                 Sound(progress', runtime', plays)
<1>1. /\ runtime.epoch = ResetEpoch /\ runtime.epoch # 0 /\ runtime.telemetry # None
      /\ runtime' = Renewed(runtime)
      /\ progress = None => UNCHANGED <<progress, saving>>
      /\ progress # None => /\ progress' = Resets(progress, runtime')
                            /\ saving' = saving \/ saving' = Append(saving, progress')
    BY DEF ResetMapExecution, Renewed, Resets, Persist
<1>2. PlaysOK(plays) /\ RuntimeOK(runtime, plays) /\ ~runtime.awaiting
    BY <1>1 DEF SeriesTypes, RuntimeOK
<1>3. RuntimeOK(runtime', plays) /\ runtime' \in Runtime
    BY <1>1, <1>2, RenewedFacts DEF RuntimeOK
<1>4. \A p \in Progress : Tied(p, runtime, plays) => Tied(p, runtime', plays)
    BY <1>1, <1>2, RenewedTied
<1>5. ASSUME progress # None PROVE Moves
    <2>1. progress \in Progress /\ OneCurrent(progress)
        BY <1>5, MadeFacts DEF SeriesTypes
    <2>2. /\ progress' \in Progress /\ OneCurrent(progress') /\ Keeps(progress, progress')
          /\ Closed(progress')
        BY <1>1, <1>3, <1>5, <2>1, ResetsKeeps
    <2> QED BY <1>1, <1>5, <2>2 DEF Moves, Made
<1>6. ASSUME DistinctPlan, progress # None, Sound(progress, runtime, plays)
      PROVE  Sound(progress', runtime', plays)
    <2>1. Closed(progress)
        BY <1>6, MadeFacts DEF SeriesTypes
    <2> QED BY <1>1, <1>2, <1>6, <2>1, ResetsSound
<1> QED BY <1>1, <1>2, <1>3, <1>4, <1>5, <1>6

\* What upstream already knows is real.
LEMMA CreateFacts ==
    ASSUME SeriesTypes, NEW known \in SUBSET Finished,
           0 \notin {plays[i].slot : i \in known}, NEW p, p = CreateSeriesProgress(known)
    PROVE  p \in Progress /\ OneCurrent(p) /\ Sound(p, runtime, plays)
<1> DEFINE Knows(s) == {i \in known : plays[i].slot = s}
           pick(s) == CHOOSE i \in known : plays[i].slot = s
           frozen(s) == [status |-> "completed", epoch |-> 0, winner |-> plays[pick(s)].winner,
                         evidence |-> pick(s)]
           f == [s \in Slots |-> IF \E i \in known : plays[i].slot = s
                                THEN frozen(s) ELSE EmptySlot]
           q == [slots |-> f, current |-> 0, binding |-> "unbound", asserted |-> {}]
<1>1. PlaysOK(plays) /\ plays \in Seq(MapPlay) /\ DOMAIN plays = 1..Len(plays)
      /\ Len(plays) \in Nat /\ Len(plays) <= MaxMaps /\ MaxMaps \in Nat
    BY LenProperties, EpochTypes DEF SeriesTypes, PlaysOK
<1>2. ASSUME NEW s \in Slots, \E i \in known : plays[i].slot = s
      PROVE  /\ pick(s) \in 1..Len(plays) /\ plays[pick(s)].slot = s
             /\ plays[pick(s)].winner # Nobody /\ plays[pick(s)].winner \in Winners
             /\ pick(s) \in 0..MaxMaps
    <2>1. pick(s) \in known /\ plays[pick(s)].slot = s
        BY <1>2
    <2>2. pick(s) \in 1..Len(plays) /\ plays[pick(s)].winner # Nobody
        BY <1>1, <2>1 DEF Finished
    <2>3. plays[pick(s)].winner \in Winners
        BY <1>1, <2>2, PlayTypes
    <2> QED BY <1>1, <2>1, <2>2, <2>3
<1>3. ASSUME NEW s \in Slots
      PROVE  /\ f[s] \in Slot /\ f[s].status # "current"
             /\ f[s].status = "completed" =>
                   /\ f[s].evidence \in 1..Len(plays) /\ plays[f[s].evidence].slot = s
                   /\ plays[f[s].evidence].winner # Nobody
                   /\ plays[f[s].evidence].winner = f[s].winner
    <2>1. CASE \E i \in known : plays[i].slot = s
        <3>1. f[s] = frozen(s)
            BY <2>1
        <3>2. /\ pick(s) \in 1..Len(plays) /\ plays[pick(s)].slot = s
              /\ plays[pick(s)].winner # Nobody /\ plays[pick(s)].winner \in Winners
              /\ pick(s) \in 0..MaxMaps
            BY <1>2, <2>1
        <3> HIDE DEF pick, f
        <3>3. frozen(s) \in Slot
            BY <3>2, EpochTypes DEF Slot, Status, Winners, Epochs
        <3> QED BY <3>1, <3>2, <3>3
    <2>2. CASE ~ \E i \in known : plays[i].slot = s
        <3>1. f[s] = EmptySlot
            BY <2>2
        <3>2. EmptySlot \in Slot /\ EmptySlot.status = "pending"
            BY EpochTypes DEF EmptySlot, Slot, Status
        <3> HIDE DEF f
        <3> QED BY <3>1, <3>2
    <2> QED BY <2>1, <2>2
<1>4. p = ApplySeriesCompletion(q)
    BY DEF CreateSeriesProgress
<1>5. f \in [Slots -> Slot]
    BY <1>3
<1> HIDE DEF f
<1>6. q \in Progress /\ q.slots = f /\ q.current = 0
    BY <1>5, EpochTypes DEF Progress
<1> HIDE DEF q
<1>7. Sound(q, runtime, plays)
    BY <1>3, <1>6 DEF Sound, OneCurrent, Real, Tied, Completed
<1>8. Sound(p, runtime, plays)
    BY <1>4, <1>7, CompletionSound
<1> QED BY <1>8 DEF Sound

LEMMA BindStep ==
    ASSUME SeriesTypes, NEW known \in SUBSET Finished, NEW d \in BOOLEAN, Bind(known, d)
    PROVE  /\ progress' \in Made /\ progress = None /\ UNCHANGED <<runtime, plays>>
           /\ disk # None => Keeps(disk, progress')
           /\ saving' = saving \/ saving' = Append(saving, progress')
           /\ DistinctPlan /\ EverySound(runtime, plays) => Sound(progress', runtime, plays)
<1> DEFINE initial == IF disk = None THEN CreateSeriesProgress(known) ELSE disk
<1>1. /\ progress = None /\ progress' = Sync(initial, Observed(runtime), d)
      /\ saving' = saving \/ saving' = Append(saving, progress')
      /\ UNCHANGED <<runtime, plays>> /\ 0 \notin {plays[i].slot : i \in known}
    BY DEF Bind
<1>2. initial \in Progress /\ OneCurrent(initial)
    BY <1>1, CreateFacts, MadeFacts DEF SeriesTypes
<1>3. EverySound(runtime, plays) => Sound(initial, runtime, plays)
    BY <1>1, CreateFacts DEF EverySound
<1>4. disk # None => initial = disk
    OBVIOUS
<1> HIDE DEF initial
<1>5. Observed(runtime) \in Observation /\ PlaysOK(plays) /\ RuntimeOK(runtime, plays)
    BY ObservedTyped DEF SeriesTypes, RuntimeOK
<1>6. progress' \in Made /\ Keeps(initial, progress')
    BY <1>1, <1>2, <1>5, SyncKeeps DEF Made
<1>7. DistinctPlan /\ EverySound(runtime, plays) => Sound(progress', runtime, plays)
    BY <1>1, <1>3, <1>5, SyncSound
<1> QED BY <1>1, <1>4, <1>6, <1>7

LEMMA SaveEndsStep ==
    ASSUME SeriesTypes, NEW written \in BOOLEAN, SaveEnds(written)
    PROVE  /\ SeriesTypes' /\ UNCHANGED <<progress, runtime, plays, unbinds>>
           /\ SavedInOrder => SavedInOrder' /\ (disk # None => Keeps(disk, disk'))
           /\ EverySound(runtime, plays) => EverySound(runtime, plays)'
<1>1. /\ saving # <<>> /\ up /\ saving' = Tail(saving)
      /\ disk' = IF written THEN saving[1] ELSE disk
      /\ UNCHANGED <<plays, runtime, progress, up, unbinds>>
    BY DEF SaveEnds
<1>2. saving \in Seq(Made)
    BY DEF SeriesTypes
<1>3. /\ saving' \in Seq(Made) /\ saving[1] \in Made /\ 1 \in 1..Len(saving)
      /\ \A k \in 1..Len(saving') :
            k + 1 \in 1..Len(saving) /\ saving'[k] = saving[k + 1] /\ 1 < k + 1
      /\ \A i, k \in 1..Len(saving') : i < k => i + 1 < k + 1
    BY <1>1, <1>2, QueueShrinks
<1>4. SeriesTypes'
    BY <1>1, <1>3 DEF SeriesTypes
<1>5. ASSUME SavedInOrder PROVE SavedInOrder' /\ (disk # None => Keeps(disk, disk'))
    <2>1. progress # None
        BY <1>1, <1>5 DEF SavedInOrder
    <2>2. disk' # None => Keeps(disk', progress)
        BY <1>1, <1>3, <1>5, <2>1 DEF SavedInOrder
    <2>3. disk' # None => \A k \in 1..Len(saving') : Keeps(disk', saving'[k])
        BY <1>1, <1>3, <1>5 DEF SavedInOrder
    <2>4. \A k \in 1..Len(saving') : Keeps(saving'[k], progress)
        BY <1>3, <1>5 DEF SavedInOrder
    <2>5. \A i, k \in 1..Len(saving') : i < k => Keeps(saving'[i], saving'[k])
        BY <1>3, <1>5 DEF SavedInOrder
    <2>6. disk # None => Keeps(disk, disk')
        BY <1>1, <1>3, <1>5 DEF SavedInOrder, Keeps
    <2> QED BY <1>1, <2>1, <2>2, <2>3, <2>4, <2>5, <2>6 DEF SavedInOrder
<1>6. ASSUME EverySound(runtime, plays) PROVE EverySound(runtime, plays)'
    BY <1>1, <1>3, <1>6 DEF EverySound
<1> QED BY <1>1, <1>4, <1>5, <1>6

LEMMA CrashStep ==
    ASSUME SeriesTypes, Crash
    PROVE  /\ SeriesTypes' /\ UNCHANGED <<disk, unbinds>> /\ (SavedInOrder => SavedInOrder')
           /\ EverySound(runtime, plays) => EverySound(runtime, plays)'
<1>1. /\ progress' = None /\ saving' = <<>> /\ runtime' = [runtime EXCEPT !.telemetry = None]
      /\ UNCHANGED <<plays, disk, unbinds>> /\ ~up'
    BY DEF Crash
<1>2. PlaysOK(plays) /\ RuntimeOK(runtime, plays) /\ runtime \in Runtime
    BY DEF SeriesTypes, RuntimeOK
<1>3. /\ RuntimeOK(runtime', plays) /\ runtime'.telemetry = None
      /\ \A p \in Progress : Tied(p, runtime, plays) => Tied(p, runtime', plays)
    <2>1. runtime.awaiting \in BOOLEAN
        BY <1>2 DEF Runtime
    <2>2. runtime' = WithoutFrame(runtime, runtime.awaiting)
        BY <1>1, <1>2 DEF Runtime, WithoutFrame
    <2>3. runtime'.telemetry = None
        BY <1>1, <1>2 DEF Runtime
    <2> QED BY <1>2, <2>1, <2>2, <2>3, ShowsNothing
<1>4. <<>> \in Seq(Made) /\ Len(<<>>) = 0
    BY EmptySeq
<1>5. SeriesTypes'
    BY <1>1, <1>2, <1>3, <1>4 DEF SeriesTypes
<1>6. SavedInOrder'
    BY <1>1, <1>4 DEF SavedInOrder
<1>7. ASSUME EverySound(runtime, plays) PROVE EverySound(runtime, plays)'
    <2>1. EverySound(runtime', plays)
        BY <1>3, <1>7, EveryMoves DEF Sound
    <2> QED BY <1>1, <1>4, <2>1 DEF EverySound
<1> QED BY <1>1, <1>5, <1>6, <1>7

\* Without the old epoch a restarted process could take another execution's for its own.
LEMMA RestartStep ==
    ASSUME SeriesTypes, Restart
    PROVE  /\ SeriesTypes' /\ UNCHANGED <<progress, saving, disk, unbinds>>
           /\ ContinuityKept /\ EverySound(runtime, plays) => EverySound(runtime, plays)'
<1>1. /\ ~up /\ UNCHANGED <<plays, progress, saving, disk, unbinds>> /\ up'
      /\ runtime' = IF ContinuityKept /\ runtime.epoch # 0
                    THEN [runtime EXCEPT !.awaiting = TRUE] ELSE FreshRuntime
    BY DEF Restart
<1>2. /\ PlaysOK(plays) /\ RuntimeOK(runtime, plays) /\ runtime \in Runtime
      /\ runtime.telemetry = None
    BY <1>1 DEF SeriesTypes, RuntimeOK
<1>3. CASE ContinuityKept /\ runtime.epoch # 0
    <2>1. runtime' = WithoutFrame(runtime, TRUE)
        BY <1>1, <1>2, <1>3 DEF Runtime, WithoutFrame
    <2>2. TRUE \in BOOLEAN
        OBVIOUS
    <2>3. /\ RuntimeOK(runtime', plays)
          /\ \A p \in Progress : Tied(p, runtime, plays) => Tied(p, runtime', plays)
        BY <1>2, <2>1, <2>2, ShowsNothing
    <2>4. SeriesTypes'
        BY <1>1, <2>3 DEF SeriesTypes
    <2>5. ASSUME EverySound(runtime, plays) PROVE EverySound(runtime, plays)'
        <3>1. EverySound(runtime', plays)
            BY <2>3, <2>5, EveryMoves DEF Sound
        <3> QED BY <1>1, <3>1 DEF EverySound
    <2> QED BY <1>1, <2>4, <2>5
<1>4. CASE ~(ContinuityKept /\ runtime.epoch # 0)
    <2>1. runtime' = FreshRuntime
        BY <1>1, <1>4
    <2>2. /\ runtime' \in Runtime /\ runtime'.epoch = 0 /\ runtime'.name = NoName
          /\ runtime'.telemetry = None /\ ~runtime'.awaiting
        BY <2>1, EpochTypes DEF FreshRuntime, Runtime, Epochs
    <2>3. RuntimeOK(runtime', plays)
        BY <2>2 DEF RuntimeOK
    <2>4. SeriesTypes'
        BY <1>1, <1>2, <2>3 DEF SeriesTypes
    <2>5. ASSUME ContinuityKept, EverySound(runtime, plays) PROVE EverySound(runtime, plays)'
        <3>1. runtime.epoch = 0 /\ runtime.name = NoName
            BY <1>2, <1>4, <2>5 DEF RuntimeOK
        <3>2. ~Observed(runtime').ended
            BY <2>2, EndedMeans
        <3>3. \A p \in Progress : Tied(p, runtime, plays) => Tied(p, runtime', plays)
            BY <2>2, <3>1, <3>2 DEF Tied
        <3>4. EverySound(runtime', plays)
            BY <2>5, <3>3, EveryMoves DEF Sound
        <3> QED BY <1>1, <3>4 DEF EverySound
    <2> QED BY <1>1, <2>4, <2>5
<1> QED BY <1>3, <1>4

-----------------------------------------------------------------------------
(* The invariants *)

LEMMA CountsStep == SeriesCounts /\ [Next]_vars => SeriesCounts' /\ (unbinds' = 0 => unbinds = 0)
<1> SUFFICES ASSUME SeriesCounts, [Next]_vars PROVE SeriesCounts' /\ (unbinds' = 0 => unbinds = 0)
    OBVIOUS
<1>1. MaxFaults \in Nat
    BY SeriesBounds
<1>2. CASE UNCHANGED <<up, crashes, unbinds, lostSaves>>
    BY <1>2 DEF SeriesCounts
<1>3. CASE Unbind
    BY <1>1, <1>3 DEF Unbind, SeriesCounts, MoreFaults
<1>4. ASSUME NEW written \in BOOLEAN, SaveEnds(written)
      PROVE  SeriesCounts' /\ (unbinds' = 0 => unbinds = 0)
    BY <1>1, <1>4 DEF SaveEnds, SeriesCounts, MoreFaults
<1>5. CASE Crash
    <2>1. up' = FALSE /\ crashes' = crashes + 1 /\ unbinds' = unbinds /\ lostSaves' = lostSaves
          /\ crashes + unbinds + lostSaves < MaxFaults
        BY <1>5 DEF Crash, MoreFaults
    <2>2. crashes \in Nat /\ unbinds \in Nat /\ lostSaves \in Nat
        BY DEF SeriesCounts
    <2>3. crashes' \in Nat /\ crashes' + unbinds' + lostSaves' <= MaxFaults
        BY <1>1, <2>1, <2>2
    <2>4. up' \in BOOLEAN
        BY <2>1
    <2> QED BY <2>1, <2>2, <2>3, <2>4 DEF SeriesCounts
<1>6. CASE Restart
    BY <1>6 DEF Restart, SeriesCounts
<1> QED BY <1>2, <1>3, <1>4, <1>5, <1>6
        DEF Next, vars, MapStarts, MapEnds, GsiFrame, ResetMapExecution, Refresh, OperatorBinds,
            Bind

\* The shape of the state is kept by every step, and the order of what was saved by every step
\* that takes no context away.
LEMMA KeptStep == SeriesKept /\ [Next]_vars => SeriesKept'
<1> SUFFICES ASSUME SeriesKept, [Next]_vars PROVE SeriesKept'
    OBVIOUS
<1>1. SeriesTypes /\ SeriesCounts' /\ (unbinds' = 0 => unbinds = 0) /\ (unbinds = 0 => SavedInOrder)
    BY CountsStep DEF SeriesKept
<1> SUFFICES SeriesTypes' /\ (unbinds' = 0 => SavedInOrder')
    BY <1>1 DEF SeriesKept
<1>2. CASE UNCHANGED vars
    BY <1>1, <1>2 DEF vars, SeriesTypes, SavedInOrder
<1>3. ASSUME UNCHANGED <<progress, saving, disk>> PROVE unbinds' = 0 => SavedInOrder'
    BY <1>1, <1>3 DEF SavedInOrder
<1>4. ASSUME NEW slot \in Slots \cup {0}, NEW name \in Names, MapStarts(slot, name)
      PROVE  SeriesTypes' /\ (unbinds' = 0 => SavedInOrder')
    BY <1>1, <1>3, <1>4, MapStartsStep DEF MapStarts
<1>5. ASSUME NEW e \in Entrants, MapEnds(e)
      PROVE  SeriesTypes' /\ (unbinds' = 0 => SavedInOrder')
    BY <1>1, <1>3, <1>5, MapEndsStep DEF MapEnds
<1>6. ASSUME Moves, UNCHANGED <<disk, unbinds, up>>, up,
             PlaysOK(plays'), RuntimeOK(runtime', plays')
      PROVE  SeriesTypes' /\ (unbinds' = 0 => SavedInOrder')
    <2>1. saving' \in Seq(Made) /\ (unbinds' = 0 => SavedInOrder')
        BY <1>1, <1>6, MovesKept
    <2> QED BY <1>1, <1>6, <2>1 DEF SeriesTypes, Moves
<1>7. ASSUME NEW gap \in BOOLEAN, NEW hasMap \in BOOLEAN, NEW d \in BOOLEAN,
             GsiFrame(gap, hasMap, d)
      PROVE  SeriesTypes' /\ (unbinds' = 0 => SavedInOrder')
    <2>1. UNCHANGED <<plays, disk, unbinds, up>> /\ up
        BY <1>7 DEF GsiFrame
    <2>2. PlaysOK(plays') /\ RuntimeOK(runtime', plays')
        BY <1>1, <1>7, <2>1, GsiFrameStep
    <2>3. CASE progress = None
        <3>1. UNCHANGED <<progress, saving>>
            BY <1>1, <1>7, <2>3, GsiFrameStep
        <3> QED BY <1>1, <1>3, <2>1, <2>2, <3>1 DEF SeriesTypes
    <2>4. CASE progress # None
        BY <1>1, <1>6, <1>7, <2>1, <2>2, <2>4, GsiFrameStep
    <2> QED BY <2>3, <2>4
<1>8. ASSUME NEW d \in BOOLEAN, Refresh(d) \/ OperatorBinds(d)
      PROVE  SeriesTypes' /\ (unbinds' = 0 => SavedInOrder')
    <2>1. Moves /\ UNCHANGED <<runtime, plays>>
        BY <1>1, <1>8, RefreshStep, OperatorBindsStep
    <2>2. UNCHANGED <<disk, unbinds, up>> /\ up
        BY <1>8 DEF Refresh, OperatorBinds
    <2>3. PlaysOK(plays') /\ RuntimeOK(runtime', plays')
        BY <1>1, <2>1 DEF SeriesTypes
    <2> QED BY <1>6, <2>1, <2>2, <2>3
<1>9. CASE Unbind
    BY <1>1, <1>9 DEF Unbind, SeriesTypes, SeriesCounts
<1>14. CASE ResetMapExecution
    <2>1. UNCHANGED <<plays, disk, unbinds, up>> /\ up
        BY <1>14 DEF ResetMapExecution
    <2>2. PlaysOK(plays') /\ RuntimeOK(runtime', plays')
        BY <1>1, <1>14, <2>1, ResetStep
    <2>3. CASE progress = None
        <3>1. UNCHANGED <<progress, saving>>
            BY <1>1, <1>14, <2>3, ResetStep
        <3> QED BY <1>1, <1>3, <2>1, <2>2, <3>1 DEF SeriesTypes
    <2>4. CASE progress # None
        BY <1>1, <1>6, <1>14, <2>1, <2>2, <2>4, ResetStep
    <2> QED BY <2>3, <2>4
<1>10. ASSUME NEW known \in SUBSET Finished, NEW d \in BOOLEAN, Bind(known, d)
       PROVE  SeriesTypes' /\ (unbinds' = 0 => SavedInOrder')
    <2>1. /\ progress' \in Made /\ progress = None /\ UNCHANGED <<runtime, plays>>
          /\ disk # None => Keeps(disk, progress')
          /\ saving' = saving \/ saving' = Append(saving, progress')
        BY <1>1, <1>10, BindStep
    <2>2. UNCHANGED <<disk, up, unbinds>> /\ up
        BY <1>10 DEF Bind
    <2>3. /\ saving' \in Seq(Made)
          /\ \A k \in 1..Len(saving') : (k \in 1..Len(saving) /\ saving'[k] = saving[k])
                                           \/ saving'[k] = progress'
          /\ \A i, k \in 1..Len(saving') : i < k => i \in 1..Len(saving) /\ saving'[i] = saving[i]
        BY <1>1, <2>1, QueueGrows DEF SeriesTypes
    <2>4. SeriesTypes'
        BY <1>1, <2>1, <2>2, <2>3 DEF SeriesTypes
    <2>5. ASSUME unbinds = 0 PROVE SavedInOrder'
        <3>1. saving = <<>> /\ Len(saving) = 0 /\ \A k : k \notin 1..Len(saving)
            BY <1>1, <2>1, <2>5 DEF SavedInOrder
        <3>2. \A k \in 1..Len(saving') : saving'[k] = progress'
            BY <2>3, <3>1
        <3>3. Keeps(progress', progress') /\ progress' # None
            BY <2>1, MadeFacts DEF Keeps
        <3> QED BY <2>1, <2>2, <2>3, <3>1, <3>2, <3>3 DEF SavedInOrder
    <2> QED BY <1>1, <2>4, <2>5
<1>11. ASSUME NEW written \in BOOLEAN, SaveEnds(written)
       PROVE  SeriesTypes' /\ (unbinds' = 0 => SavedInOrder')
    BY <1>1, <1>11, SaveEndsStep
<1>12. CASE Crash
    BY <1>1, <1>12, CrashStep
<1>13. CASE Restart
    BY <1>1, <1>3, <1>13, RestartStep
<1> QED BY <1>2, <1>4, <1>5, <1>7, <1>8, <1>9, <1>10, <1>11, <1>12, <1>13, <1>14 DEF Next

LEMMA InitKept == Init => SeriesKept /\ EverySound(runtime, plays)
<1> SUFFICES ASSUME Init PROVE SeriesKept /\ EverySound(runtime, plays)
    OBVIOUS
<1>1. /\ plays = <<>> /\ runtime = FreshRuntime /\ progress = None /\ saving = <<>> /\ disk = None
      /\ up = TRUE /\ crashes = 0 /\ unbinds = 0 /\ lostSaves = 0
    BY DEF Init
<1>2. /\ <<>> \in Seq(Made) /\ <<>> \in Seq(MapPlay) /\ Len(<<>>) = 0
      /\ MaxMaps \in Nat /\ MaxFaults \in Nat
    BY EmptySeq, SeriesBounds
<1>3. PlaysOK(plays)
    BY <1>1, <1>2 DEF PlaysOK
<1>4. /\ FreshRuntime \in Runtime /\ FreshRuntime.epoch = 0 /\ FreshRuntime.name = NoName
      /\ FreshRuntime.telemetry = None /\ ~FreshRuntime.awaiting
    BY EpochTypes DEF FreshRuntime, Runtime, Epochs
<1>5. RuntimeOK(runtime, plays)
    BY <1>1, <1>4 DEF RuntimeOK
<1>6. SeriesTypes
    BY <1>1, <1>2, <1>3, <1>5 DEF SeriesTypes
<1>7. SeriesCounts /\ SavedInOrder /\ EverySound(runtime, plays)
    BY <1>1, <1>2 DEF SeriesCounts, SavedInOrder, EverySound
<1> QED BY <1>6, <1>7 DEF SeriesKept

\* When a restart recovers the epoch, every version stays sound.
LEMMA SoundStep ==
    ASSUME ContinuityKept, DistinctPlan
    PROVE  SeriesKept /\ EverySound(runtime, plays) /\ [Next]_vars => EverySound(runtime, plays)'
<1> SUFFICES ASSUME SeriesTypes, EverySound(runtime, plays), [Next]_vars
             PROVE  EverySound(runtime, plays)'
    BY DEF SeriesKept
<1>1. CASE UNCHANGED vars
    BY <1>1 DEF vars, EverySound
<1>2. ASSUME NEW slot \in Slots \cup {0}, NEW name \in Names, MapStarts(slot, name)
      PROVE  EverySound(runtime, plays)'
    BY <1>2, MapStartsStep
<1>3. ASSUME NEW e \in Entrants, MapEnds(e) PROVE EverySound(runtime, plays)'
    BY <1>3, MapEndsStep
<1>4. ASSUME NEW gap \in BOOLEAN, NEW hasMap \in BOOLEAN, NEW d \in BOOLEAN,
             GsiFrame(gap, hasMap, d)
      PROVE  EverySound(runtime, plays)'
    <2>1. UNCHANGED <<plays, disk>>
        BY <1>4 DEF GsiFrame
    <2>2. \A p \in Progress : Tied(p, runtime, plays) => Tied(p, runtime', plays)
        BY <1>4, GsiFrameStep
    <2>3. EverySound(runtime', plays)
        BY <2>2, EveryMoves DEF Sound
    <2>4. CASE progress = None
        <3>1. UNCHANGED <<progress, saving>>
            BY <1>4, <2>4, GsiFrameStep
        <3> QED BY <2>1, <2>3, <3>1 DEF EverySound
    <2>5. CASE progress # None
        <3>1. Sound(progress, runtime, plays)
            BY <2>5 DEF EverySound
        <3>2. Moves /\ Sound(progress', runtime', plays)
            BY <1>4, <2>5, <3>1, GsiFrameStep
        <3> QED BY <2>1, <2>3, <3>2, MovesSound
    <2> QED BY <2>4, <2>5
<1>5. ASSUME NEW d \in BOOLEAN, Refresh(d) \/ OperatorBinds(d) PROVE EverySound(runtime, plays)'
    <2>1. progress # None /\ disk' = disk
        BY <1>5 DEF Refresh, OperatorBinds
    <2>2. Sound(progress, runtime, plays)
        BY <2>1 DEF EverySound
    <2>3. Moves /\ UNCHANGED <<runtime, plays>> /\ Sound(progress', runtime, plays)
        BY <1>5, <2>2, RefreshStep, OperatorBindsStep
    <2> QED BY <2>1, <2>3, MovesSound
<1>6. CASE Unbind
    BY <1>6 DEF Unbind, EverySound
<1>11. CASE ResetMapExecution
    <2>1. UNCHANGED <<plays, disk>>
        BY <1>11 DEF ResetMapExecution
    <2>2. EverySound(runtime', plays)
        BY <1>11, ResetStep, EveryMoves DEF Sound
    <2>3. CASE progress = None
        <3>1. UNCHANGED <<progress, saving>>
            BY <1>11, <2>3, ResetStep
        <3> QED BY <2>1, <2>2, <3>1 DEF EverySound
    <2>4. CASE progress # None
        <3>1. Sound(progress, runtime, plays)
            BY <2>4 DEF EverySound
        <3>2. Moves /\ Sound(progress', runtime', plays)
            BY <1>11, <2>4, <3>1, ResetStep
        <3> QED BY <2>1, <2>2, <3>2, MovesSound
    <2> QED BY <2>3, <2>4
<1>7. ASSUME NEW known \in SUBSET Finished, NEW d \in BOOLEAN, Bind(known, d)
      PROVE  EverySound(runtime, plays)'
    <2>1. /\ progress' \in Made /\ UNCHANGED <<runtime, plays>>
          /\ saving' = saving \/ saving' = Append(saving, progress')
          /\ Sound(progress', runtime, plays)
        BY <1>7, BindStep
    <2>2. \A k \in 1..Len(saving') : (k \in 1..Len(saving) /\ saving'[k] = saving[k])
                                        \/ saving'[k] = progress'
        BY <2>1, QueueGrows DEF SeriesTypes
    <2>3. disk' = disk
        BY <1>7 DEF Bind
    <2> QED BY <2>1, <2>2, <2>3 DEF EverySound
<1>8. ASSUME NEW written \in BOOLEAN, SaveEnds(written) PROVE EverySound(runtime, plays)'
    BY <1>8, SaveEndsStep
<1>9. CASE Crash
    BY <1>9, CrashStep
<1>10. CASE Restart
    BY <1>10, RestartStep
<1> QED BY <1>1, <1>2, <1>3, <1>4, <1>5, <1>6, <1>7, <1>8, <1>9, <1>10, <1>11 DEF Next

\* A slot that is frozen stays as it is, through frames, refreshes, binds and saves.
LEMMA KeptResultsStay ==
    SeriesKept /\ [Next]_vars =>
        /\ [progress # None /\ progress' # None =>
               \A s \in Completed(progress) : progress'.slots[s] = progress.slots[s]]_vars
        /\ [disk # None /\ unbinds = 0 =>
               \A s \in Completed(disk) : disk'.slots[s] = disk.slots[s]]_vars
<1> SUFFICES ASSUME SeriesKept, [Next]_vars
             PROVE  /\ progress # None /\ progress' # None => Keeps(progress, progress')
                    /\ disk # None /\ unbinds = 0 => Keeps(disk, disk')
    BY DEF Keeps
<1>1. SeriesTypes /\ (unbinds = 0 => SavedInOrder)
    BY DEF SeriesKept
<1>2. ASSUME progress' = progress \/ progress' = None \/ progress = None
      PROVE  progress # None /\ progress' # None => Keeps(progress, progress')
    BY <1>2 DEF Keeps
<1>3. disk' = disk => Keeps(disk, disk')
    BY DEF Keeps
<1>4. CASE UNCHANGED <<progress, disk>>
    BY <1>2, <1>3, <1>4
<1>5. ASSUME NEW gap \in BOOLEAN, NEW hasMap \in BOOLEAN, NEW d \in BOOLEAN,
             GsiFrame(gap, hasMap, d)
      PROVE  (progress # None /\ progress' # None => Keeps(progress, progress')) /\ disk' = disk
    BY <1>1, <1>5, GsiFrameStep DEF Moves, GsiFrame
<1>10. ASSUME ResetMapExecution
       PROVE  (progress # None /\ progress' # None => Keeps(progress, progress')) /\ disk' = disk
    BY <1>1, <1>10, ResetStep DEF Moves, ResetMapExecution
<1>6. ASSUME NEW d \in BOOLEAN, Refresh(d) \/ OperatorBinds(d)
      PROVE  Keeps(progress, progress') /\ disk' = disk
    BY <1>1, <1>6, RefreshStep, OperatorBindsStep DEF Moves, Refresh, OperatorBinds
<1>7. ASSUME NEW written \in BOOLEAN, SaveEnds(written)
      PROVE  progress' = progress /\ (disk # None /\ unbinds = 0 => Keeps(disk, disk'))
    BY <1>1, <1>7, SaveEndsStep
<1>8. ASSUME NEW known \in SUBSET Finished, NEW d \in BOOLEAN, Bind(known, d)
      PROVE  progress = None /\ disk' = disk
    BY <1>8 DEF Bind
<1>9. ASSUME Unbind \/ Crash PROVE progress' = None /\ disk' = disk
    BY <1>9 DEF Unbind, Crash
<1> QED BY <1>2, <1>3, <1>4, <1>5, <1>6, <1>7, <1>8, <1>9, <1>10
        DEF Next, vars, MapStarts, MapEnds, Restart

\* For every plan, every number of executions and of faults, and whether or not a restart
\* recovers the epoch: a result that is frozen, in memory or in the checkpoint file, is neither
\* reopened nor rescored (reducer.ts setCurrentMap, endMap, applySeriesCompletion,
\* checkpoint-store.ts save).
THEOREM ResultsAreKept == Spec => ResultsStay
<1>1. Init => SeriesKept
    BY InitKept
<1>2. SeriesKept /\ [Next]_vars => SeriesKept'
    BY KeptStep
<1>3. SeriesKept /\ [Next]_vars =>
        [progress # None /\ progress' # None =>
               \A s \in Completed(progress) : progress'.slots[s] = progress.slots[s]]_vars
    BY KeptResultsStay
<1>4. SeriesKept /\ [Next]_vars =>
        [disk # None /\ unbinds = 0 =>
               \A s \in Completed(disk) : disk'.slots[s] = disk.slots[s]]_vars
    BY KeptResultsStay
<1> QED BY <1>1, <1>2, <1>3, <1>4, PTL
        DEF Spec, ResultsStay, FrozenResultsStay, CheckpointKeepsResults

LEMMA SoundMeans == SeriesKept /\ EverySound(runtime, plays) => SeriesInv
<1> SUFFICES ASSUME SeriesTypes, SeriesCounts, EverySound(runtime, plays) PROVE SeriesInv
    BY DEF SeriesKept
<1>1. TypeOK
    <2>1. /\ plays \in Seq(MapPlay) /\ Len(plays) <= MaxMaps /\ runtime \in Runtime
        BY DEF SeriesTypes, PlaysOK, RuntimeOK
    <2>2. saving \in Seq(Progress)
        BY SeqMonotonic, MadeFacts DEF SeriesTypes
    <2>3. progress \in Progress \cup {None} /\ disk \in Progress \cup {None}
        BY MadeFacts DEF SeriesTypes
    <2> QED BY <2>1, <2>2, <2>3 DEF TypeOK, SeriesCounts
<1>2. ResultsAreReal
    <2>1. DOMAIN plays = 1..Len(plays)
        BY LenProperties DEF SeriesTypes, PlaysOK
    <2> QED BY <2>1 DEF ResultsAreReal, EverySound, Sound, Real, Finished
<1>3. PausedSeriesTakesNothing
    BY DEF PausedSeriesTakesNothing, EverySound, Sound, Tied, SlotsOfEpoch
<1> QED BY <1>1, <1>2, <1>3 DEF SeriesInv

\* When a restart recovers the epoch and the name of the execution and no map is planned twice,
\* for any number of executions, frames, refreshes and faults: every frozen slot has the
\* winner of the execution really played for it, and while the operator is asked no slot takes in
\* the unplanned map (reducer.ts ensureBinding, mapForEpoch, endMap; program-runtime.ts
\* restoreDeliveryContinuity).
THEOREM SeriesIsSound == ASSUME ContinuityKept, DistinctPlan PROVE Spec => []SeriesInv
<1>1. Init => SeriesKept /\ EverySound(runtime, plays)
    BY InitKept
<1>2. SeriesKept /\ EverySound(runtime, plays) /\ [Next]_vars =>
          SeriesKept' /\ EverySound(runtime, plays)'
    BY KeptStep, SoundStep
<1>3. SeriesKept /\ EverySound(runtime, plays) => SeriesInv
    BY SoundMeans
<1> QED BY <1>1, <1>2, <1>3, PTL DEF Spec

-----------------------------------------------------------------------------
(* The identity: what it consists of *)

AllSides == Sides \cup {"unknown"}
KnownSides == [BothEntrants -> AllSides]
PlayerRecords == [side : AllSides, current : BOOLEAN]
IdentityStates == {"unbound", "resolving", "degraded", "matched", "mismatch"}

IsPlayers(players) ==
    /\ DOMAIN players \subseteq SourcePlayers
    /\ players \in [DOMAIN players -> PlayerRecords]

IsIdentity(i) ==
    /\ i = Resolution(i.state, i.generation, i.epoch, i.players, i.sides)
    /\ i.state \in IdentityStates /\ i.generation \in Nat /\ i.epoch \in Nat
    /\ IsPlayers(i.players) /\ i.sides \in KnownSides

LEMMA PlainIdentities == IsIdentity(UnboundIdentity) /\ IsIdentity(FreshIdentity)
<1>1. UnknownSides \in KnownSides
  BY DEF UnknownSides, KnownSides, BothEntrants, AllSides
<1>2. IsPlayers(NoPlayers)
  BY DEF IsPlayers, NoPlayers
<1> QED BY <1>1, <1>2 DEF IsIdentity, UnboundIdentity, FreshIdentity, Resolution, IdentityStates

LEMMA SeenSides ==
    ASSUME NEW c \in MatchContexts, NEW f \in Frames, NEW e \in BothEntrants
    PROVE  /\ IsFiniteSet(SidesSeen(c, f, e)) /\ Cardinality(SidesSeen(c, f, e)) \in Nat
           /\ SidesSeen(c, f, e) \subseteq Sides
           /\ Cardinality(SidesSeen(c, f, e)) = 0 <=> SidesSeen(c, f, e) = {}
           /\ Cardinality(SidesSeen(c, f, e)) = 1 => \E s \in Sides : SidesSeen(c, f, e) = {s}
           /\ \A p \in Roster(c, e) : f.entry[p] \in Sides => f.entry[p] \in SidesSeen(c, f, e)
<1>1. SidesSeen(c, f, e) \subseteq Sides
  BY DEF SidesSeen
<1>2. IsFiniteSet(Sides)
  <2>1. Sides = {"CT"} \cup {"T"}
    BY DEF Sides
  <2> QED BY <2>1, FS_Singleton, FS_AddElement
<1>3. IsFiniteSet(SidesSeen(c, f, e))
  BY <1>1, <1>2, FS_Subset
<1>4. Cardinality(SidesSeen(c, f, e)) \in Nat
  BY <1>3, FS_CardinalityType
<1>5. Cardinality(SidesSeen(c, f, e)) = 0 <=> SidesSeen(c, f, e) = {}
  BY <1>3, FS_EmptySet
<1>6. Cardinality(SidesSeen(c, f, e)) = 1 => \E s \in Sides : SidesSeen(c, f, e) = {s}
  BY <1>1, <1>3, FS_Singleton
<1>7. \A p \in Roster(c, e) : f.entry[p] \in Sides => f.entry[p] \in SidesSeen(c, f, e)
  BY DEF SidesSeen
<1> QED BY <1>1, <1>3, <1>4, <1>5, <1>6, <1>7

\* Which side an entrant is on: one that is seen, or none, or what was known.
LEMMA SideOfEntrant ==
    ASSUME NEW c \in MatchContexts, NEW f \in Frames, NEW e \in BothEntrants, NEW known,
           known[e] \in AllSides
    PROVE  /\ EntrySide(c, f, e, known) \in AllSides
           /\ \A p \in Roster(c, e) :
                 f.entry[p] \in Sides /\ EntrySide(c, f, e, known) # "unknown"
                     => f.entry[p] = EntrySide(c, f, e, known)
           /\ \A again : again[e] = EntrySide(c, f, e, known)
                  => EntrySide(c, f, e, again) = EntrySide(c, f, e, known)
<1> DEFINE seen == SidesSeen(c, f, e)
           n == Cardinality(SidesSeen(c, f, e))
<1>1. CASE n = 1
  <2>1. PICK s \in Sides : seen = {s}
    BY <1>1, SeenSides
  <2>2. (CHOOSE side \in Sides : side \in SidesSeen(c, f, e)) = s
    BY <2>1
  <2>3. \A k : EntrySide(c, f, e, k) = s
    BY <1>1, <2>1, <2>2 DEF EntrySide
  <2> QED BY <2>1, <2>3, SeenSides DEF AllSides
<1>2. CASE n > 1
  <2>1. n # 1 /\ seen # {}
    BY <1>2, SeenSides
  <2>2. \A k : EntrySide(c, f, e, k) = "unknown"
    BY <1>2, <2>1 DEF EntrySide
  <2> QED BY <2>2 DEF AllSides
<1>3. CASE n = 0
  <2>1. seen = {} /\ n # 1 /\ ~(n > 1)
    BY <1>3, SeenSides
  <2>2. \A p \in Roster(c, e) : f.entry[p] \notin Sides
    BY <2>1, SeenSides
  <2>3. CASE f.ctName \in BothEntrants
    <3>1. \A k : EntrySide(c, f, e, k) = NamedSide(f, e)
      BY <2>1, <2>3 DEF EntrySide
    <3> QED BY <3>1, <2>2 DEF NamedSide, AllSides, Sides
  <2>4. CASE f.ctName \notin BothEntrants
    <3>1. \A k : EntrySide(c, f, e, k) = k[e]
      BY <2>1, <2>4 DEF EntrySide
    <3> QED BY <3>1, <2>2
  <2> QED BY <2>3, <2>4
<1> QED BY <1>1, <1>2, <1>3, SeenSides

LEMMA MappingAgain ==
    ASSUME NEW c \in MatchContexts, NEW f \in Frames, NEW known \in KnownSides
    PROVE  /\ SideMapping(c, f, known) \in KnownSides
           /\ SideMapping(c, f, SideMapping(c, f, known)) = SideMapping(c, f, known)
<1>1. \A e \in BothEntrants : known[e] \in AllSides
  BY DEF KnownSides
<1>2. \A e \in BothEntrants : EntrySide(c, f, e, known) \in AllSides
  BY <1>1, SideOfEntrant
<1> DEFINE m == SideMapping(c, f, known)
<1>3. \A e \in BothEntrants : m[e] = EntrySide(c, f, e, known)
  BY DEF SideMapping
<1>4. \A e \in BothEntrants : EntrySide(c, f, e, m) = m[e]
  BY <1>1, <1>3, SideOfEntrant
<1>5. m \in KnownSides
  BY <1>2 DEF SideMapping, KnownSides
<1>6. SideMapping(c, f, m) = [e \in BothEntrants |-> m[e]]
  BY <1>4 DEF SideMapping
<1>7. m = [e \in BothEntrants |-> m[e]]
  BY <1>5 DEF KnownSides
<1> QED BY <1>5, <1>6, <1>7


\* What the previous resolution says of now.
OfNow(i, generation, epoch) == i.generation = generation /\ i.epoch = epoch
KnownPlayers(i, generation, epoch) ==
    IF OfNow(i, generation, epoch) THEN i.players ELSE NoPlayers
SidesKnown(i, generation, epoch) == IF OfNow(i, generation, epoch) THEN i.sides ELSE UnknownSides

PlayersFound(c, f, known, sides) ==
    IF ObservedFiveVsFive(f) \/ Contradicts(c, f, sides) THEN CurrentlyResolved(c, f)
    ELSE Merged(CurrentlyResolved(c, f), known)

\* A torn list does not take a match back.
TornButMatched(f, i, known) ==
    f.coverage = "degraded" /\ i.state = "matched" /\ DOMAIN known # {}

HeldState(i) == IF i.state \in {"mismatch", "matched"} THEN i.state ELSE "degraded"

Held(i, state, generation, epoch) ==
    Resolution(state, generation, epoch, Retained(i.players), i.sides)

\* The five ways to resolve an identity.
ResolvedTo(r, c, f, g, e, i, known, sides) ==
    /\ ~f.readable /\ DOMAIN known = {} =>
          r = Resolution("resolving", g, e, NoPlayers, UnknownSides)
    /\ ~f.readable /\ DOMAIN known # {} => r = Held(i, HeldState(i), g, e)
    /\ f.readable /\ Contradicts(c, f, sides) =>
          r = Resolution("mismatch", g, e, PlayersFound(c, f, known, sides), sides)
    /\ f.readable /\ ~Contradicts(c, f, sides) /\ TornButMatched(f, i, known) =>
          r = Held(i, "matched", g, e)
    /\ f.readable /\ ~Contradicts(c, f, sides) /\ ~TornButMatched(f, i, known) =>
          r = Resolution(IF CanonicalFiveVsFive(c, f, sides) THEN "matched" ELSE "degraded",
                         g, e, PlayersFound(c, f, known, sides), sides)

LEMMA WaysToResolve ==
    ASSUME NEW c, NEW f, f.readable \in BOOLEAN, NEW g, NEW e, NEW i
    PROVE  ResolvedTo(ResolveIdentity(c, f, g, e, i), c, f, g, e, i, KnownPlayers(i, g, e),
                      SideMapping(c, f, SidesKnown(i, g, e)))
<1> DEFINE r == ResolveIdentity(c, f, g, e, i)
           known == KnownPlayers(i, g, e)
           sides == SideMapping(c, f, SidesKnown(i, g, e))
<1> USE DEF ResolveIdentity, KnownPlayers, SidesKnown, OfNow, TornButMatched
<1>1. ~f.readable /\ DOMAIN known = {} => r = Resolution("resolving", g, e, NoPlayers, UnknownSides)
  OBVIOUS
<1>2. ~f.readable /\ DOMAIN known # {} => r = Held(i, HeldState(i), g, e)
  BY DEF Held, HeldState
<1>3. f.readable /\ Contradicts(c, f, sides) =>
          r = Resolution("mismatch", g, e, PlayersFound(c, f, known, sides), sides)
  BY DEF PlayersFound
<1>4. f.readable /\ ~Contradicts(c, f, sides) /\ TornButMatched(f, i, known) =>
          r = Held(i, "matched", g, e)
  BY DEF Held
<1>5. f.readable /\ ~Contradicts(c, f, sides) /\ ~TornButMatched(f, i, known) =>
          r = Resolution(IF CanonicalFiveVsFive(c, f, sides) THEN "matched" ELSE "degraded",
                         g, e, PlayersFound(c, f, known, sides), sides)
  BY DEF PlayersFound
<1> HIDE DEF r, known, sides
<1> USE <1>1, <1>2, <1>3, <1>4, <1>5
<1>6. ResolvedTo(r, c, f, g, e, i, known, sides)
  BY DEF ResolvedTo
<1> QED BY <1>6 DEF r, known, sides

LEMMA RetainedPlayers ==
    ASSUME NEW ps, IsPlayers(ps)
    PROVE  /\ IsPlayers(Retained(ps)) /\ Retained(Retained(ps)) = Retained(ps)
           /\ DOMAIN Retained(ps) = DOMAIN ps
<1>1. \A p \in DOMAIN ps : ps[p] \in PlayerRecords
  BY DEF IsPlayers
<1>2. \A r \in PlayerRecords : [r EXCEPT !.current = FALSE] \in PlayerRecords
  BY DEF PlayerRecords
<1>3. \A r \in PlayerRecords :
          [[r EXCEPT !.current = FALSE] EXCEPT !.current = FALSE] = [r EXCEPT !.current = FALSE]
  BY DEF PlayerRecords
<1>4. DOMAIN Retained(ps) = DOMAIN ps
  BY DEF Retained
<1>5. \A p \in DOMAIN ps : Retained(ps)[p] = [ps[p] EXCEPT !.current = FALSE]
  BY DEF Retained
<1>6. IsPlayers(Retained(ps))
  BY <1>1, <1>2 DEF Retained, IsPlayers
<1>7. Retained(Retained(ps)) = [p \in DOMAIN ps |-> [Retained(ps)[p] EXCEPT !.current = FALSE]]
  BY <1>4 DEF Retained
<1>8. \A p \in DOMAIN ps :
          [Retained(ps)[p] EXCEPT !.current = FALSE] = [ps[p] EXCEPT !.current = FALSE]
  BY <1>1, <1>3, <1>5
<1>9. Retained(Retained(ps)) = Retained(ps)
  BY <1>7, <1>8 DEF Retained
<1> QED BY <1>4, <1>6, <1>9

LEMMA MergedPlayers ==
    ASSUME NEW new, IsPlayers(new), NEW old, IsPlayers(old)
    PROVE  IsPlayers(Merged(new, old)) /\ Merged(new, Merged(new, old)) = Merged(new, old)
<1> DEFINE m == Merged(new, old)
           d == DOMAIN new \cup DOMAIN old
<1>1. /\ \A p \in DOMAIN new : new[p] \in PlayerRecords
      /\ \A p \in DOMAIN old : old[p] \in PlayerRecords
  BY DEF IsPlayers
<1>2. \A r \in PlayerRecords : [r EXCEPT !.current = FALSE] \in PlayerRecords
  BY DEF PlayerRecords
<1>3. \A r \in PlayerRecords :
          [[r EXCEPT !.current = FALSE] EXCEPT !.current = FALSE] = [r EXCEPT !.current = FALSE]
  BY DEF PlayerRecords
<1>4. DOMAIN m = d /\ DOMAIN new \cup DOMAIN m = d
  BY DEF Merged
<1>5. /\ \A p \in DOMAIN new : m[p] = new[p]
      /\ \A p \in d \ DOMAIN new : m[p] = [old[p] EXCEPT !.current = FALSE]
  BY DEF Merged
<1>6. \A p \in d : m[p] \in PlayerRecords
  BY <1>1, <1>2, <1>5
<1>7. m = [p \in d |-> m[p]]
  BY <1>4 DEF Merged
<1>8. IsPlayers(m)
  <2>1. DOMAIN m \subseteq SourcePlayers
    BY <1>4 DEF IsPlayers
  <2>2. m \in [d -> PlayerRecords]
    BY <1>6, <1>7
  <2> QED BY <1>4, <2>1, <2>2 DEF IsPlayers
<1>9. \A p \in d : (IF p \in DOMAIN new THEN new[p] ELSE [m[p] EXCEPT !.current = FALSE]) = m[p]
  BY <1>1, <1>3, <1>5
<1>10. Merged(new, m) =
           [p \in d |-> IF p \in DOMAIN new THEN new[p] ELSE [m[p] EXCEPT !.current = FALSE]]
  BY <1>4 DEF Merged
<1>11. Merged(new, m) = m
  BY <1>7, <1>9, <1>10
<1> QED BY <1>8, <1>11

LEMMA PlayersSeen ==
    ASSUME NEW c \in MatchContexts, NEW f \in Frames
    PROVE  IsPlayers(CurrentlyResolved(c, f))
<1>1. \A p : ObservedSide(f, p) \in AllSides
  BY DEF ObservedSide, AllSides
<1>2. Listed(f) \subseteq SourcePlayers
  BY DEF Listed
<1> QED BY <1>1, <1>2 DEF IsPlayers, CurrentlyResolved, PlayerRecords

LEMMA FoundAgain ==
    ASSUME NEW c \in MatchContexts, NEW f \in Frames, NEW known, IsPlayers(known), NEW sides
    PROVE  /\ IsPlayers(PlayersFound(c, f, known, sides))
           /\ PlayersFound(c, f, PlayersFound(c, f, known, sides), sides)
                  = PlayersFound(c, f, known, sides)
BY PlayersSeen, MergedPlayers DEF PlayersFound

LEMMA ResolutionFields ==
    ASSUME NEW state, NEW g, NEW e, NEW players, NEW sides, NEW r,
           r = Resolution(state, g, e, players, sides)
    PROVE  /\ r.state = state /\ r.generation = g /\ r.epoch = e
           /\ r.players = players /\ r.sides = sides
BY DEF Resolution

\* Resolving again on the same frame finds the same.
LEMMA ResolveAgain ==
    ASSUME NEW c \in MatchContexts, NEW f \in Frames, NEW g \in Nat, NEW e \in Nat,
           NEW i, IsIdentity(i)
    PROVE  LET r == ResolveIdentity(c, f, g, e, i) IN
           /\ IsIdentity(r) /\ OfNow(r, g, e)
           /\ ResolveIdentity(c, f, g, e, r) = r
<1> DEFINE r == ResolveIdentity(c, f, g, e, i)
           known == KnownPlayers(i, g, e)
           before == SidesKnown(i, g, e)
           sides == SideMapping(c, f, before)
<1>1. /\ IsPlayers(known) /\ before \in KnownSides
      /\ IsPlayers(NoPlayers) /\ UnknownSides \in KnownSides
  BY PlainIdentities DEF IsIdentity, KnownPlayers, SidesKnown, FreshIdentity, Resolution
<1>2. sides \in KnownSides /\ SideMapping(c, f, sides) = sides
  BY <1>1, MappingAgain
<1>3. f.readable \in BOOLEAN
  BY FramesAssumption
<1>9. ResolvedTo(r, c, f, g, e, i, known, sides)
  BY <1>3, WaysToResolve
<1>10. ResolvedTo(ResolveIdentity(c, f, g, e, r), c, f, g, e, r, KnownPlayers(r, g, e),
                  SideMapping(c, f, SidesKnown(r, g, e)))
  BY <1>3, WaysToResolve
<1> SUFFICES IsIdentity(r) /\ OfNow(r, g, e) /\ ResolveIdentity(c, f, g, e, r) = r
  OBVIOUS
<1> HIDE DEF r, known, before, sides
<1>4. CASE ~f.readable /\ DOMAIN known = {}
  <2>1. r = Resolution("resolving", g, e, NoPlayers, UnknownSides)
    BY <1>4, <1>9 DEF ResolvedTo
  <2>2. OfNow(r, g, e) /\ KnownPlayers(r, g, e) = NoPlayers
    BY <2>1 DEF OfNow, KnownPlayers, Resolution
  <2>3. DOMAIN KnownPlayers(r, g, e) = {}
    BY <2>2 DEF NoPlayers
  <2>4. ResolveIdentity(c, f, g, e, r) = r
    BY <1>4, <2>1, <2>3, <1>10 DEF ResolvedTo
  <2>5. IsIdentity(r)
    BY <1>1, <2>1, ResolutionFields DEF IsIdentity, IdentityStates
  <2> QED BY <2>2, <2>4, <2>5
<1>5. CASE ~f.readable /\ DOMAIN known # {}
  <2>1. r = Held(i, HeldState(i), g, e)
    BY <1>5, <1>9 DEF ResolvedTo
  <2>2. OfNow(r, g, e) /\ KnownPlayers(r, g, e) = r.players
    BY <2>1 DEF OfNow, KnownPlayers, Resolution, Held
  <2>3. OfNow(i, g, e) /\ known = i.players
    BY <1>5 DEF known, KnownPlayers, NoPlayers
  <2>4. /\ r.players = Retained(i.players) /\ r.sides = i.sides /\ r.state = HeldState(i)
        /\ r.generation = g /\ r.epoch = e
    BY <2>1 DEF Held, Resolution
  <2>5. IsPlayers(i.players)
    BY DEF IsIdentity
  <2>6. Retained(r.players) = r.players /\ DOMAIN r.players # {} /\ IsPlayers(r.players)
    BY <1>5, <2>3, <2>4, <2>5, RetainedPlayers
  <2>7. ResolveIdentity(c, f, g, e, r) = Held(r, HeldState(r), g, e)
    BY <1>5, <2>2, <2>6, <1>10 DEF ResolvedTo
  <2>8. HeldState(r) = HeldState(i) /\ HeldState(i) \in IdentityStates
    BY <2>4 DEF HeldState, IdentityStates
  <2>9. Held(r, HeldState(r), g, e) = r
    BY <2>1, <2>4, <2>6, <2>8 DEF Held
  <2>10. i.sides \in KnownSides
    BY DEF IsIdentity
  <2>11. IsIdentity(r)
    BY <2>1, <2>4, <2>6, <2>8, <2>10 DEF IsIdentity, Held
  <2> QED BY <2>2, <2>7, <2>9, <2>11
<1>6. CASE f.readable /\ Contradicts(c, f, sides)
  <2>1. r = Resolution("mismatch", g, e, PlayersFound(c, f, known, sides), sides)
    BY <1>6, <1>9 DEF ResolvedTo
  <2>2. /\ r.state = "mismatch" /\ r.generation = g /\ r.epoch = e
        /\ r.players = PlayersFound(c, f, known, sides) /\ r.sides = sides
    BY <2>1, ResolutionFields
  <2>3. OfNow(r, g, e) /\ KnownPlayers(r, g, e) = r.players /\ SidesKnown(r, g, e) = sides
    BY <2>2 DEF OfNow, KnownPlayers, SidesKnown
  <2>4. PlayersFound(c, f, r.players, sides) = r.players /\ IsPlayers(r.players)
    BY <1>1, <2>2, FoundAgain
  <2>5. ResolveIdentity(c, f, g, e, r)
            = Resolution("mismatch", g, e, PlayersFound(c, f, r.players, sides), sides)
    BY <1>2, <1>6, <2>3, <1>10 DEF ResolvedTo
  <2>6. IsIdentity(r)
    BY <1>2, <2>1, <2>2, <2>4 DEF IsIdentity, IdentityStates
  <2> QED BY <2>1, <2>2, <2>3, <2>4, <2>5, <2>6
<1>7. CASE f.readable /\ ~Contradicts(c, f, sides) /\ TornButMatched(f, i, known)
  <2>1. r = Held(i, "matched", g, e)
    BY <1>7, <1>9 DEF ResolvedTo
  <2>2. /\ r.players = Retained(i.players) /\ r.sides = i.sides /\ r.state = "matched"
        /\ r.generation = g /\ r.epoch = e
    BY <2>1 DEF Held, Resolution
  <2>3. OfNow(i, g, e) /\ known = i.players /\ before = i.sides
    BY <1>7 DEF known, before, KnownPlayers, SidesKnown, NoPlayers, TornButMatched
  <2>4. IsPlayers(i.players) /\ i.sides \in KnownSides
    BY DEF IsIdentity
  <2>5. Retained(r.players) = r.players /\ DOMAIN r.players # {} /\ IsPlayers(r.players)
    BY <1>7, <2>2, <2>3, <2>4, RetainedPlayers DEF TornButMatched
  <2>6. OfNow(r, g, e) /\ KnownPlayers(r, g, e) = r.players /\ SidesKnown(r, g, e) = before
    BY <2>2, <2>3 DEF OfNow, KnownPlayers, SidesKnown
  <2>7. TornButMatched(f, r, r.players)
    BY <1>7, <2>2, <2>5 DEF TornButMatched
  <2>8. ResolveIdentity(c, f, g, e, r) = Held(r, "matched", g, e)
    BY <1>7, <2>6, <2>7, <1>10 DEF ResolvedTo, sides
  <2>9. Held(r, "matched", g, e) = r
    BY <2>1, <2>2, <2>5 DEF Held
  <2>10. IsIdentity(r)
    BY <2>1, <2>2, <2>4, <2>5 DEF IsIdentity, Held, IdentityStates
  <2> QED BY <2>6, <2>8, <2>9, <2>10
<1>8. CASE f.readable /\ ~Contradicts(c, f, sides) /\ ~TornButMatched(f, i, known)
  <2> DEFINE state == IF CanonicalFiveVsFive(c, f, sides) THEN "matched" ELSE "degraded"
  <2>1. r = Resolution(state, g, e, PlayersFound(c, f, known, sides), sides)
    BY <1>8, <1>9 DEF ResolvedTo
  <2>2. /\ r.state = state /\ r.generation = g /\ r.epoch = e
        /\ r.players = PlayersFound(c, f, known, sides) /\ r.sides = sides
    BY <2>1, ResolutionFields
  <2>3. OfNow(r, g, e) /\ KnownPlayers(r, g, e) = r.players /\ SidesKnown(r, g, e) = sides
    BY <2>2 DEF OfNow, KnownPlayers, SidesKnown
  <2>4. PlayersFound(c, f, r.players, sides) = r.players /\ IsPlayers(r.players)
    BY <1>1, <2>2, FoundAgain
  <2>5. ~TornButMatched(f, r, r.players)
    BY <2>2 DEF TornButMatched, CanonicalFiveVsFive, ObservedFiveVsFive
  <2>6. ResolveIdentity(c, f, g, e, r)
            = Resolution(state, g, e, PlayersFound(c, f, r.players, sides), sides)
    BY <1>2, <1>8, <2>3, <2>5, <1>10 DEF ResolvedTo
  <2>7. IsIdentity(r)
    BY <1>2, <2>1, <2>2, <2>4 DEF IsIdentity, IdentityStates
  <2> QED BY <2>1, <2>2, <2>3, <2>4, <2>6, <2>7
<1> QED BY <1>3, <1>4, <1>5, <1>6, <1>7, <1>8

-----------------------------------------------------------------------------
(* What a canonical list proves *)

LEMMA MappedSides ==
    ASSUME NEW c \in MatchContexts, NEW f \in Frames, NEW known \in KnownSides,
           NEW e \in BothEntrants, NEW p \in Roster(c, e), f.entry[p] \in Sides,
           SideMapping(c, f, known)[e] # "unknown"
    PROVE  f.entry[p] = SideMapping(c, f, known)[e]
<1>1. known[e] \in AllSides
  BY DEF KnownSides
<1>2. SideMapping(c, f, known)[e] = EntrySide(c, f, e, known)
  BY DEF SideMapping
<1> QED BY <1>1, <1>2, SideOfEntrant

\* An entrant has a side, the other one the other.
LEMMA CompleteSides ==
    ASSUME NEW m \in KnownSides, SidesComplete(m)
    PROVE  /\ m["a"] \in Sides /\ m["b"] \in Sides /\ m["a"] # m["b"]
           /\ \A e \in BothEntrants : m[e] # "unknown"
BY DEF SidesComplete, KnownSides, AllSides, Sides, BothEntrants

LEMMA TwoFullSides ==
    ASSUME NEW f \in Frames, \A side \in Sides : Cardinality(OnSide(f, side)) = SideSize,
           Listed(f) = OnSide(f, "CT") \cup OnSide(f, "T")
    PROVE  Cardinality(Listed(f)) = 2 * SideSize
<1>1. IsFiniteSet(OnSide(f, "CT")) /\ IsFiniteSet(OnSide(f, "T"))
  <2>1. OnSide(f, "CT") \in SUBSET SourcePlayers /\ OnSide(f, "T") \in SUBSET SourcePlayers
    BY DEF OnSide
  <2> QED BY <2>1, IdentityAssumption, FS_Subset
<1>2. OnSide(f, "CT") \cap OnSide(f, "T") = {}
  BY DEF OnSide
<1>3. Cardinality(OnSide(f, "CT") \cap OnSide(f, "T")) = 0
  BY <1>2, FS_EmptySet
<1>4. Cardinality(OnSide(f, "CT")) = SideSize /\ Cardinality(OnSide(f, "T")) = SideSize
  BY DEF Sides
<1>5. Cardinality(OnSide(f, "CT") \cup OnSide(f, "T")) = SideSize + SideSize - 0
  BY <1>1, <1>3, <1>4, FS_Union
<1>6. SideSize \in Nat
  BY IdentityAssumption
<1> QED BY <1>5, <1>6

\* The sides the list f shows, with entrant a on the side of a.
ProvenBy(f, c, sides) ==
    /\ \E side \in Sides :
          /\ OnSide(f, side) \subseteq c.a
          /\ OnSide(f, IF side = "CT" THEN "T" ELSE "CT") \subseteq c.b
          /\ sides.a = side
    /\ Cardinality(Listed(f)) = 2 * SideSize

LEMMA CanonicalProves ==
    ASSUME NEW c \in MatchContexts, NEW f \in Frames, NEW known \in KnownSides,
           NEW sides, sides = SideMapping(c, f, known), CanonicalFiveVsFive(c, f, sides)
    PROVE  /\ f.coverage = "present" /\ SidesComplete(sides) /\ ProvenBy(f, c, sides)
           /\ ExactCandidates(f)
<1>1. /\ f.coverage = "present" /\ SidesComplete(sides) /\ Listed(f) \subseteq c.a \cup c.b
      /\ Listed(f) = OnSide(f, "CT") \cup OnSide(f, "T")
      /\ \A side \in Sides : Cardinality(OnSide(f, side)) = SideSize
  BY DEF CanonicalFiveVsFive, ObservedFiveVsFive
<1>2. sides \in KnownSides
  BY MappingAgain
<1>3. /\ sides["a"] \in Sides /\ sides["b"] \in Sides /\ sides["a"] # sides["b"]
      /\ \A e \in BothEntrants : sides[e] # "unknown"
  BY <1>1, <1>2, CompleteSides
<1>4. \A e \in BothEntrants : \A p \in Roster(c, e) : f.entry[p] \in Sides => f.entry[p] = sides[e]
  BY <1>3, MappedSides
<1>5. \A p \in c.a : f.entry[p] \in Sides => f.entry[p] = sides["a"]
  BY <1>4 DEF Roster, BothEntrants
<1>6. \A p \in c.b : f.entry[p] \in Sides => f.entry[p] = sides["b"]
  BY <1>4 DEF Roster, BothEntrants
<1>7. \A side \in Sides : OnSide(f, side) \subseteq c.a \cup c.b
  BY <1>1 DEF Sides
<1>8. \A side \in Sides : \A p \in OnSide(f, side) : f.entry[p] = side
  BY DEF OnSide
<1>9. OnSide(f, sides["a"]) \subseteq c.a /\ OnSide(f, sides["b"]) \subseteq c.b
  BY <1>3, <1>5, <1>6, <1>7, <1>8
<1>10. sides["b"] = IF sides["a"] = "CT" THEN "T" ELSE "CT"
  BY <1>3 DEF Sides
<1>11. sides.a = sides["a"]
  BY <1>2 DEF KnownSides
<1>12. ProvenBy(f, c, sides)
  BY <1>1, <1>3, <1>9, <1>10, <1>11, TwoFullSides DEF ProvenBy
<1>13. \A side \in Sides : OnSide(f, side) \subseteq Steam64s
  BY <1>7, IdentityAssumption
<1>14. ExactCandidates(f)
  BY <1>1, <1>13 DEF ExactCandidates
<1> QED BY <1>1, <1>12, <1>14

\* A match is kept from the previous resolution, or the list proves it.
Kept(r, f, g, e, i) ==
    f.coverage # "present" /\ OfNow(i, g, e) /\ i.state = "matched" /\ r.sides = i.sides

\* What an identity that may be shown says, the list f being held.
BrandsFit(r, c, f) ==
    f.coverage = "present" /\ SidesComplete(r.sides) =>
        \A e \in BothEntrants : \A p \in Roster(c, e) :
            f.entry[p] \in Sides => f.entry[p] = r.sides[e]

LEMMA MatchedAndBranded ==
    ASSUME NEW c \in MatchContexts, NEW f \in Frames, NEW g \in Nat, NEW e \in Nat,
           NEW i, IsIdentity(i), NEW r, r = ResolveIdentity(c, f, g, e, i)
    PROVE  /\ r.state = "matched" =>
                 \/ Kept(r, f, g, e, i)
                 \/ /\ f.coverage = "present" /\ SidesComplete(r.sides) /\ ProvenBy(f, c, r.sides)
                    /\ ExactCandidates(f)
           /\ BrandsFit(r, c, f)
<1> DEFINE known == KnownPlayers(i, g, e)
           before == SidesKnown(i, g, e)
           sides == SideMapping(c, f, before)
<1>1. before \in KnownSides /\ UnknownSides \in KnownSides
  BY PlainIdentities DEF IsIdentity, SidesKnown, FreshIdentity, Resolution
<1>2. f.readable \in BOOLEAN /\ (f.coverage = "present" => f.readable)
  BY FramesAssumption
<1>3. ResolvedTo(r, c, f, g, e, i, known, sides)
  BY <1>2, WaysToResolve
<1>4. sides \in KnownSides
  BY <1>1, MappingAgain
<1>5. r.sides = sides => BrandsFit(r, c, f)
  BY <1>1, <1>4, CompleteSides, MappedSides DEF BrandsFit
<1>6. DOMAIN known # {} => OfNow(i, g, e)
  BY DEF KnownPlayers, NoPlayers
<1> HIDE DEF known, sides
<1>7. CASE ~f.readable
  <2>1. f.coverage # "present"
    BY <1>2, <1>7
  <2>2. CASE DOMAIN known = {}
    <3>1. r.state = "resolving"
      BY <1>3, <1>7, <2>2 DEF ResolvedTo, Resolution
    <3> QED BY <2>1, <3>1 DEF BrandsFit
  <2>3. CASE DOMAIN known # {}
    <3>1. r.state = HeldState(i) /\ r.sides = i.sides
      BY <1>3, <1>7, <2>3 DEF ResolvedTo, Resolution, Held
    <3>2. HeldState(i) = "matched" => i.state = "matched"
      BY DEF HeldState
    <3> QED BY <1>6, <2>1, <2>3, <3>1, <3>2 DEF BrandsFit, Kept
  <2> QED BY <2>2, <2>3
<1>8. CASE f.readable /\ Contradicts(c, f, sides)
  <2>1. r.state = "mismatch" /\ r.sides = sides
    BY <1>3, <1>8 DEF ResolvedTo, Resolution
  <2> QED BY <1>5, <2>1
<1>9. CASE f.readable /\ ~Contradicts(c, f, sides) /\ TornButMatched(f, i, known)
  <2>1. r.state = "matched" /\ r.sides = i.sides
    BY <1>3, <1>9 DEF ResolvedTo, Resolution, Held
  <2>2. f.coverage # "present" /\ i.state = "matched" /\ DOMAIN known # {}
    BY <1>9 DEF TornButMatched
  <2> QED BY <1>6, <2>1, <2>2 DEF BrandsFit, Kept
<1>10. CASE f.readable /\ ~Contradicts(c, f, sides) /\ ~TornButMatched(f, i, known)
  <2>1. /\ r.state = IF CanonicalFiveVsFive(c, f, sides) THEN "matched" ELSE "degraded"
        /\ r.sides = sides
    BY <1>3, <1>10 DEF ResolvedTo, Resolution
  <2>2. CanonicalFiveVsFive(c, f, sides) =>
            /\ f.coverage = "present" /\ SidesComplete(sides) /\ ProvenBy(f, c, sides)
            /\ ExactCandidates(f)
    BY <1>1, CanonicalProves DEF sides
  <2> QED BY <1>5, <2>1, <2>2
<1> QED BY <1>2, <1>7, <1>8, <1>9, <1>10

-----------------------------------------------------------------------------
(* The lineup *)

Members == [side : Sides, evidence : {"current", "retained"}, observed : BOOLEAN]

IsLineup(l) ==
    /\ l = Lineup(l.state, l.generation, l.epoch, l.members)
    /\ l.generation \in Nat /\ l.epoch \in Nat
    /\ DOMAIN l.members \subseteq SourcePlayers
    /\ l.members \in [DOMAIN l.members -> Members]

SidesOf(l) == [p \in DOMAIN l.members |-> l.members[p].side]
ExactSides(f) == [p \in OnSide(f, "CT") \cup OnSide(f, "T") |-> f.entry[p]]

\* What the lineup says of its members, and of the list that is held.
LineupFits(l, f) ==
    /\ l.members # NoPlayers => IsBaseline(l)
    /\ \A p \in DOMAIN l.members : l.members[p].observed => f # NoFrame /\ f.entry[p] # "gone"
    /\ l.state = "complete" => \A p \in DOMAIN l.members : l.members[p].evidence = "current"

LEMMA NoBaselineOfNobody ==
    ASSUME NEW l, l.members = NoPlayers
    PROVE  ~IsBaseline(l)
<1>1. MembersOn(l, "CT") = {}
  BY DEF MembersOn, NoPlayers
<1>2. Cardinality(MembersOn(l, "CT")) # SideSize
  BY <1>1, FS_EmptySet, IdentityAssumption
<1> QED BY <1>2 DEF IsBaseline, Sides

\* Who is a baseline, and on which side, is a matter of the sides alone.
LEMMA BaselineOfSides ==
    ASSUME NEW l, NEW k, DOMAIN l.members = DOMAIN k.members,
           \A p \in DOMAIN l.members : l.members[p].side = k.members[p].side
    PROVE  IsBaseline(l) <=> IsBaseline(k)
<1>1. \A side \in Sides : MembersOn(l, side) = MembersOn(k, side)
  BY DEF MembersOn
<1> QED BY <1>1 DEF IsBaseline

\* The three ways to resolve a lineup.
LEMMA ExactLineup ==
    ASSUME NEW f \in Frames, ExactCandidates(f), NEW g \in Nat, NEW e \in Nat, NEW l
    PROVE  LET r == ResolveLineup(f, g, e, l) IN
           /\ IsLineup(r) /\ r.epoch = e /\ LineupFits(r, f) /\ SidesOf(r) = ExactSides(f)
           /\ \A k : ResolveLineup(f, g, e, k) = r
<1> DEFINE r == ResolveLineup(f, g, e, l)
           players == OnSide(f, "CT") \cup OnSide(f, "T")
<1>1. f # NoFrame
  BY FramesAssumption
<1> DEFINE members == [p \in players |->
                          [side |-> f.entry[p], evidence |-> "current", observed |-> TRUE]]
<1>2. \A k : ResolveLineup(f, g, e, k) = Lineup("complete", g, e, members)
  BY <1>1 DEF ResolveLineup
<1>3. /\ r = Lineup(r.state, r.generation, r.epoch, r.members)
      /\ r.generation = g /\ r.epoch = e /\ DOMAIN r.members = players /\ r.members = members
  <2>1. r = Lineup("complete", g, e, members) /\ DOMAIN members = players
    BY <1>2
  <2> HIDE DEF r, members
  <2> QED BY <2>1 DEF Lineup
<1>4. \A p \in players : /\ p \in SourcePlayers /\ f.entry[p] \in Sides
                         /\ f.entry[p] # "gone"
  BY DEF OnSide, Sides
<1>5. \A p \in players : /\ r.members[p].side = f.entry[p]
                         /\ r.members[p].evidence = "current"
                         /\ r.members[p] \in Members
  BY <1>3, <1>4 DEF Members
<1> HIDE DEF r
<1>6. IsLineup(r)
  BY <1>3, <1>4, <1>5 DEF IsLineup
<1>7. SidesOf(r) = ExactSides(f)
  BY <1>3, <1>5 DEF SidesOf, ExactSides
<1>8. \A side \in Sides : MembersOn(r, side) = OnSide(f, side)
  <2>1. \A side \in Sides : MembersOn(r, side) = {p \in players : f.entry[p] = side}
    BY <1>3, <1>5 DEF MembersOn
  <2> QED BY <2>1 DEF OnSide, Sides
<1>9. IsBaseline(r)
  BY <1>8 DEF IsBaseline, ExactCandidates
<1>10. LineupFits(r, f)
  BY <1>1, <1>3, <1>4, <1>5, <1>9 DEF LineupFits
<1> QED BY <1>2, <1>3, <1>6, <1>7, <1>10 DEF r

EvidenceOf(f) == IF CoverageOf(f) = "present" THEN "current" ELSE "retained"

LEMMA RetainedLineup ==
    ASSUME NEW f \in Frames \cup {NoFrame}, ~(f # NoFrame /\ ExactCandidates(f)),
           NEW g \in Nat, NEW e \in Nat, NEW l, IsLineup(l), l.epoch = e, IsBaseline(l)
    PROVE  LET r == ResolveLineup(f, g, e, l) IN
           /\ IsLineup(r) /\ r.epoch = e /\ LineupFits(r, f) /\ SidesOf(r) = SidesOf(l)
           /\ l.members # NoPlayers
           /\ ResolveLineup(f, g, e, r) = r
<1> DEFINE r == ResolveLineup(f, g, e, l)
           ev == EvidenceOf(f)
           seen(p) == f # NoFrame /\ f.readable /\ p \in Listed(f)
           member(p, side) == IF seen(p) THEN [side |-> side, evidence |-> ev, observed |-> TRUE]
                              ELSE [side |-> side, evidence |-> "retained", observed |-> FALSE]
<1> SUFFICES /\ IsLineup(r) /\ r.epoch = e /\ LineupFits(r, f) /\ SidesOf(r) = SidesOf(l)
             /\ l.members # NoPlayers
             /\ ResolveLineup(f, g, e, r) = r
  OBVIOUS
<1>1. \A k : k.epoch = e /\ IsBaseline(k) =>
          ResolveLineup(f, g, e, k) = RetainPrevious(k, f, g, e, ev)
  BY DEF ResolveLineup, EvidenceOf
<1>2. \A k : RetainPrevious(k, f, g, e, ev) =
          Lineup("degraded", g, e, [p \in DOMAIN k.members |-> member(p, k.members[p].side)])
  BY DEF RetainPrevious
<1>3. \A p, side : /\ member(p, side).side = side
                   /\ member(p, side).observed => seen(p)
                   /\ side \in Sides => member(p, side) \in Members
  BY DEF Members, EvidenceOf
<1>4. r = Lineup("degraded", g, e, [p \in DOMAIN l.members |-> member(p, l.members[p].side)])
  BY <1>1, <1>2
<1> HIDE DEF r, ev, member
<1>5. /\ r.state = "degraded" /\ r.generation = g /\ r.epoch = e
      /\ r.members = [p \in DOMAIN l.members |-> member(p, l.members[p].side)]
  BY <1>4 DEF Lineup
<1>6. \A p \in DOMAIN l.members : l.members[p] \in Members /\ l.members[p].side \in Sides
  BY DEF IsLineup, Members
<1>7. /\ DOMAIN r.members = DOMAIN l.members
      /\ \A p \in DOMAIN l.members : r.members[p] = member(p, l.members[p].side)
  BY <1>5
<1>8. \A p \in DOMAIN l.members : /\ r.members[p] \in Members
                                  /\ r.members[p].side = l.members[p].side
                                  /\ r.members[p].observed => seen(p)
  BY <1>3, <1>6, <1>7
<1>9. IsLineup(r)
  BY <1>4, <1>5, <1>7, <1>8 DEF IsLineup
<1>10. SidesOf(r) = SidesOf(l)
  BY <1>7, <1>8 DEF SidesOf
<1>11. IsBaseline(r)
  BY <1>7, <1>8, BaselineOfSides
<1>12. l.members # NoPlayers
  BY NoBaselineOfNobody
<1>13. \A p : seen(p) => f # NoFrame /\ f.entry[p] # "gone"
  BY DEF Listed
<1>14. LineupFits(r, f)
  BY <1>5, <1>7, <1>8, <1>11, <1>13 DEF LineupFits
<1>15. ResolveLineup(f, g, e, r) = r
  <2>1. ResolveLineup(f, g, e, r) =
            Lineup("degraded", g, e, [p \in DOMAIN r.members |-> member(p, r.members[p].side)])
    BY <1>1, <1>2, <1>5, <1>11
  <2>2. [p \in DOMAIN r.members |-> member(p, r.members[p].side)]
            = [p \in DOMAIN l.members |-> member(p, l.members[p].side)]
    BY <1>7, <1>8
  <2> QED BY <1>4, <2>1, <2>2
<1> QED BY <1>5, <1>9, <1>10, <1>12, <1>14, <1>15

LEMMA EmptiedLineup ==
    ASSUME NEW f \in Frames \cup {NoFrame}, ~(f # NoFrame /\ ExactCandidates(f)),
           NEW g \in Nat, NEW e \in Nat, NEW l, ~(l.epoch = e /\ IsBaseline(l))
    PROVE  LET r == ResolveLineup(f, g, e, l) IN
           /\ IsLineup(r) /\ r.epoch = e /\ LineupFits(r, f) /\ SidesOf(r) = NoPlayers
           /\ ResolveLineup(f, g, e, r) = r
<1> DEFINE r == ResolveLineup(f, g, e, l)
           state == IF CoverageOf(f) = "degraded" THEN "degraded" ELSE "resolving"
<1>1. \A k : ~(k.epoch = e /\ IsBaseline(k)) =>
          ResolveLineup(f, g, e, k) = Lineup(state, g, e, NoPlayers)
  BY DEF ResolveLineup
<1>2. r = Lineup(state, g, e, NoPlayers) /\ state # "complete"
  BY <1>1
<1>3. /\ r = Lineup(r.state, r.generation, r.epoch, r.members)
      /\ r.state # "complete" /\ r.generation = g /\ r.epoch = e /\ r.members = NoPlayers
  BY <1>2 DEF Lineup
<1>4. DOMAIN NoPlayers = {} /\ NoPlayers \in [{} -> Members]
  BY DEF NoPlayers
<1> HIDE DEF r, state
<1>5. IsLineup(r)
  BY <1>3, <1>4 DEF IsLineup
<1>6. SidesOf(r) = NoPlayers
  BY <1>3 DEF SidesOf, NoPlayers
<1>7. ~IsBaseline(r)
  BY <1>3, NoBaselineOfNobody
<1>8. LineupFits(r, f)
  BY <1>3, <1>4 DEF LineupFits
<1>9. ResolveLineup(f, g, e, r) = r
  BY <1>1, <1>2, <1>7
<1> QED BY <1>3, <1>5, <1>6, <1>8, <1>9 DEF r

\* What a refresh makes of the lineup.
LineupRefreshed(r, f, g, e, l) ==
    /\ IsLineup(r) /\ r.epoch = e /\ LineupFits(r, f)
    /\ ResolveLineup(f, g, e, r) = r
    /\ f # NoFrame /\ ExactCandidates(f) => SidesOf(r) = ExactSides(f)
    /\ ~(f # NoFrame /\ ExactCandidates(f)) /\ l.epoch = e /\ l.members # NoPlayers =>
           SidesOf(r) = SidesOf(l)
    /\ ~(f # NoFrame /\ ExactCandidates(f)) /\ ~(l.epoch = e /\ l.members # NoPlayers) =>
           SidesOf(r) = NoPlayers

LEMMA LineupRefreshes ==
    ASSUME NEW f \in Frames \cup {NoFrame}, NEW g \in Nat, NEW e \in Nat,
           NEW l, IsLineup(l), l.members # NoPlayers => IsBaseline(l)
    PROVE  LineupRefreshed(ResolveLineup(f, g, e, l), f, g, e, l)
<1> DEFINE r == ResolveLineup(f, g, e, l)
<1>1. CASE f # NoFrame /\ ExactCandidates(f)
  <2>1. f \in Frames
    BY <1>1
  <2>2. /\ IsLineup(r) /\ r.epoch = e /\ LineupFits(r, f) /\ SidesOf(r) = ExactSides(f)
        /\ ResolveLineup(f, g, e, r) = r
    BY <1>1, <2>1, ExactLineup
  <2> QED BY <1>1, <2>2 DEF LineupRefreshed
<1>2. CASE ~(f # NoFrame /\ ExactCandidates(f)) /\ l.epoch = e /\ IsBaseline(l)
  <2>1. /\ IsLineup(r) /\ r.epoch = e /\ LineupFits(r, f) /\ SidesOf(r) = SidesOf(l)
        /\ l.members # NoPlayers /\ ResolveLineup(f, g, e, r) = r
    BY <1>2, RetainedLineup
  <2> QED BY <1>2, <2>1 DEF LineupRefreshed
<1>3. CASE ~(f # NoFrame /\ ExactCandidates(f)) /\ ~(l.epoch = e /\ IsBaseline(l))
  <2>1. /\ IsLineup(r) /\ r.epoch = e /\ LineupFits(r, f) /\ SidesOf(r) = NoPlayers
        /\ ResolveLineup(f, g, e, r) = r
    BY <1>3, EmptiedLineup
  <2>2. ~(l.epoch = e /\ l.members # NoPlayers)
    BY <1>3
  <2> QED BY <1>3, <2>1, <2>2 DEF LineupRefreshed
<1> QED BY <1>1, <1>2, <1>3

-----------------------------------------------------------------------------
(* The refresh of the identity *)

\* What a refresh makes of the previous identity i, when the list f is held under context c.
IdentityRefreshed(r, c, f, g, e, i) ==
    /\ IsIdentity(r) /\ r.generation <= g /\ r.epoch <= e
    /\ r.state = "matched" =>
           /\ c # NoContext /\ f # NoFrame
           /\ \/ Kept(r, f, g, e, i)
              \/ /\ f.coverage = "present" /\ SidesComplete(r.sides) /\ ProvenBy(f, c, r.sides)
                 /\ ExactCandidates(f)
    /\ r.state \in {"matched", "degraded"} => c # NoContext /\ f # NoFrame /\ BrandsFit(r, c, f)

LEMMA IdentityRefreshes ==
    ASSUME NEW c \in MatchContexts \cup {NoContext}, NEW f \in Frames \cup {NoFrame},
           NEW g \in Nat, NEW e \in Nat, NEW i, IsIdentity(i), i.generation <= g, i.epoch <= e,
           NEW u \in BOOLEAN
    PROVE  LET r == CoordinatedIdentity(c, f, g, e, i, u) IN
           /\ IdentityRefreshed(r, c, f, g, e, i)
           /\ CoordinatedIdentity(c, f, g, e, r, u /\ (c = NoContext \/ f = NoFrame)) = r
<1> DEFINE r == CoordinatedIdentity(c, f, g, e, i, u)
           again == CoordinatedIdentity(c, f, g, e, r, u /\ (c = NoContext \/ f = NoFrame))
<1>1. /\ UnboundIdentity.state = "unbound" /\ FreshIdentity.state = "resolving"
      /\ UnboundIdentity.generation = 0 /\ UnboundIdentity.epoch = 0
      /\ FreshIdentity.generation = 0 /\ FreshIdentity.epoch = 0
  BY DEF UnboundIdentity, FreshIdentity, Resolution
<1>2. CASE c = NoContext
  <2>1. r = UnboundIdentity /\ again = UnboundIdentity
    BY <1>2 DEF CoordinatedIdentity
  <2> QED BY <1>1, <2>1, PlainIdentities DEF IdentityRefreshed
<1>3. CASE c # NoContext /\ f = NoFrame
  <2>1. r = FreshIdentity /\ again = FreshIdentity
    BY <1>3 DEF CoordinatedIdentity
  <2> QED BY <1>1, <2>1, PlainIdentities DEF IdentityRefreshed
<1>4. CASE c # NoContext /\ f # NoFrame /\ ~u /\ ~OfNow(i, g, e)
  <2>1. \A k : ~OfNow(k, g, e) => CoordinatedIdentity(c, f, g, e, k, FALSE) = FreshIdentity
    BY <1>4 DEF CoordinatedIdentity, OfNow
  <2>2. r = FreshIdentity
    BY <1>4, <2>1
  <2>3. i.generation \in Nat /\ i.epoch \in Nat
    BY DEF IsIdentity
  <2>4. ~OfNow(FreshIdentity, g, e)
    BY <1>1, <1>4, <2>3 DEF OfNow
  <2>5. again = FreshIdentity
    BY <1>4, <2>1, <2>2, <2>4
  <2> QED BY <1>1, <2>2, <2>5, PlainIdentities DEF IdentityRefreshed
<1>5. CASE c # NoContext /\ f # NoFrame /\ (u \/ OfNow(i, g, e))
  <2>1. c \in MatchContexts /\ f \in Frames
    BY <1>5
  <2>2. r = ResolveIdentity(c, f, g, e, i)
    BY <1>5 DEF CoordinatedIdentity, OfNow
  <2>3. /\ IsIdentity(r) /\ OfNow(r, g, e)
        /\ ResolveIdentity(c, f, g, e, r) = r
    BY <2>1, <2>2, ResolveAgain
  <2>4. again = r
    BY <1>5, <2>3 DEF CoordinatedIdentity, OfNow
  <2>5. /\ r.state = "matched" =>
              \/ Kept(r, f, g, e, i)
              \/ /\ f.coverage = "present" /\ SidesComplete(r.sides) /\ ProvenBy(f, c, r.sides)
                 /\ ExactCandidates(f)
        /\ BrandsFit(r, c, f)
    BY <2>1, <2>2, MatchedAndBranded
  <2>6. r.generation <= g /\ r.epoch <= e
    BY <2>3 DEF OfNow
  <2> QED BY <1>5, <2>3, <2>4, <2>5, <2>6 DEF IdentityRefreshed
<1> QED BY <1>2, <1>3, <1>4, <1>5

-----------------------------------------------------------------------------
(* The inductive invariant *)

ServerTypes ==
    /\ boundContext \in MatchContexts \cup {NoContext}
    /\ sourceGeneration \in Nat /\ mapEpoch \in Nat
    /\ heldFrame \in Frames \cup {NoFrame}
    /\ unreadEvidence \in BOOLEAN

\* The identity is of this generation and map or of an earlier one.
IdentityOfThePast ==
    IsIdentity(identity) /\ identity.generation <= sourceGeneration /\ identity.epoch <= mapEpoch

\* What is held was read: refreshing once more gives what there is.
IdentityIsRead ==
    /\ identity = CoordinatedIdentity(boundContext, heldFrame, sourceGeneration, mapEpoch,
                                      identity, unreadEvidence)
    /\ unreadEvidence => boundContext = NoContext \/ heldFrame = NoFrame

LineupIsRead ==
    /\ IsLineup(lineup) /\ lineup.epoch = mapEpoch
    /\ lineup = ResolveLineup(heldFrame, sourceGeneration, mapEpoch, lineup)
    /\ SidesOf(lineup) = lastExact /\ LineupFits(lineup, heldFrame)

BrandsAreRead ==
    /\ identity.state = "matched" => SidesComplete(identity.sides)
    /\ identity.state \in {"matched", "degraded"} =>
           boundContext # NoContext /\ heldFrame # NoFrame
           /\ BrandsFit(identity, boundContext, heldFrame)

IdentityIInv ==
    /\ ServerTypes /\ IdentityOfThePast /\ IdentityIsRead /\ LineupIsRead /\ BrandsAreRead
    /\ MatchedIsProven /\ RailsMatchBrands

LEMMA IdentityInitIInv == IdentityInit => IdentityIInv
<1> SUFFICES ASSUME IdentityInit PROVE IdentityIInv
  OBVIOUS
<1> USE DEF IdentityInit
<1>1. ServerTypes
  BY DEF ServerTypes
<1>2. identity.state = "unbound" /\ identity.generation = 0 /\ identity.epoch = 0
  BY DEF UnboundIdentity, Resolution
<1>3. IdentityOfThePast
  BY <1>2, PlainIdentities DEF IdentityOfThePast
<1>4. IdentityIsRead
  BY DEF IdentityIsRead, CoordinatedIdentity
<1>5. lineup.epoch = 0 /\ lineup.members = NoPlayers /\ lineup.state = "resolving"
  BY DEF EmptyLineup, Lineup
<1>6. IsLineup(lineup)
  BY DEF IsLineup, EmptyLineup, Lineup, NoPlayers
<1>7. ~IsBaseline(lineup)
  BY <1>5, NoBaselineOfNobody
<1>8. lineup = ResolveLineup(heldFrame, sourceGeneration, mapEpoch, lineup)
  BY <1>7 DEF ResolveLineup, EmptyLineup, CoverageOf
<1>9. SidesOf(lineup) = lastExact /\ LineupFits(lineup, heldFrame)
  BY <1>5 DEF SidesOf, NoPlayers, LineupFits
<1>10. LineupIsRead
  BY <1>5, <1>6, <1>8, <1>9 DEF LineupIsRead
<1> QED BY <1>1, <1>2, <1>3, <1>4, <1>10 DEF IdentityIInv, BrandsAreRead, MatchedIsProven,
           RailsMatchBrands

\* A refresh reads what is held, whatever it starts from.
LEMMA RefreshReads ==
    ASSUME ServerTypes', NEW i, IsIdentity(i),
           i.generation <= sourceGeneration', i.epoch <= mapEpoch',
           i.state = "matched" => SidesComplete(i.sides),
           NEW l, IsLineup(l), l.members # NoPlayers => IsBaseline(l),
           l.members # NoPlayers => SidesOf(l) = lastExact,
           NEW u \in BOOLEAN, RefreshFrom(i, l, u)
    PROVE  /\ IdentityOfThePast' /\ IdentityIsRead' /\ LineupIsRead' /\ BrandsAreRead'
           /\ IdentityRefreshed(identity', boundContext', heldFrame', sourceGeneration', mapEpoch',
                                i)
           /\ LineupRefreshed(lineup', heldFrame', sourceGeneration', mapEpoch', l)
<1> USE DEF ServerTypes
<1>1. /\ identity' = CoordinatedIdentity(boundContext', heldFrame', sourceGeneration', mapEpoch',
                                           i, u)
      /\ lineup' = ResolveLineup(heldFrame', sourceGeneration', mapEpoch', l)
      /\ unreadEvidence' = (u /\ (boundContext' = NoContext \/ heldFrame' = NoFrame))
  BY DEF RefreshFrom
<1>2. IdentityRefreshed(identity', boundContext', heldFrame', sourceGeneration', mapEpoch', i)
  BY <1>1, IdentityRefreshes
<1>3. LineupRefreshed(lineup', heldFrame', sourceGeneration', mapEpoch', l)
  BY <1>1, LineupRefreshes
<1>4. IdentityOfThePast'
  BY <1>2 DEF IdentityRefreshed, IdentityOfThePast
<1>5. IdentityIsRead'
  <2>1. CoordinatedIdentity(boundContext', heldFrame', sourceGeneration', mapEpoch', identity',
                            unreadEvidence') = identity'
    BY <1>1, IdentityRefreshes
  <2> QED BY <1>1, <2>1 DEF IdentityIsRead
<1>6. lastExact' = IF heldFrame' # NoFrame /\ ExactCandidates(heldFrame')
                   THEN ExactSides(heldFrame')
                   ELSE IF l.epoch = mapEpoch' /\ l.members # NoPlayers THEN lastExact
                   ELSE NoPlayers
  BY <1>3 DEF RefreshFrom, ExactSides, LineupRefreshed
<1>7. SidesOf(lineup') = lastExact'
  BY <1>3, <1>6 DEF LineupRefreshed
<1>8. LineupIsRead'
  BY <1>3, <1>7 DEF LineupRefreshed, LineupIsRead
<1>9. BrandsAreRead'
  BY <1>2 DEF IdentityRefreshed, BrandsAreRead, Kept
<1> QED BY <1>2, <1>3, <1>4, <1>5, <1>8, <1>9

\* The inductive invariant is enough to refresh from what there is, when time went on.
LEMMA RefreshFromWhatIs ==
    ASSUME IdentityIInv
    PROVE  /\ IsIdentity(identity)
           /\ identity.state = "matched" => SidesComplete(identity.sides)
           /\ IsLineup(lineup) /\ SidesOf(lineup) = lastExact
           /\ lineup.members # NoPlayers => IsBaseline(lineup)
BY DEF IdentityIInv, IdentityOfThePast, LineupIsRead, BrandsAreRead, LineupFits

LEMMA RefreshFromNothing ==
    ASSUME NEW g \in Nat, NEW e \in Nat
    PROVE  LET l == EmptyLineup(g, e) IN
           IsLineup(l) /\ l.members = NoPlayers
BY DEF IsLineup, EmptyLineup, Lineup, NoPlayers

RailsFit(l, r, c) ==
    \A e \in BothEntrants : \A p \in DOMAIN l.members \cap Roster(c, e) :
        l.members[p].side = r.sides[e]

\* A list that proves a match also says on which side each member of the lineup is.
LEMMA ExactRails ==
    ASSUME NEW c, NEW f \in Frames, NEW r, SidesComplete(r.sides), BrandsFit(r, c, f),
           f.coverage = "present", NEW l, SidesOf(l) = ExactSides(f)
    PROVE  RailsFit(l, r, c)
<1>1. DOMAIN l.members = OnSide(f, "CT") \cup OnSide(f, "T")
  BY DEF SidesOf, ExactSides
<1>2. \A p \in DOMAIN l.members : SidesOf(l)[p] = l.members[p].side
  BY DEF SidesOf
<1>3. \A p \in DOMAIN l.members : ExactSides(f)[p] = f.entry[p]
  BY <1>1 DEF ExactSides
<1>4. \A p \in DOMAIN l.members : l.members[p].side = f.entry[p] /\ f.entry[p] \in Sides
  BY <1>1, <1>2, <1>3 DEF OnSide, Sides
<1> QED BY <1>4 DEF BrandsFit, RailsFit

LEMMA FrameIsRead ==
    ASSUME IdentityIInv, NEW f \in Frames, NEW otherName \in BOOLEAN, FrameAccepted(f, otherName)
    PROVE  IdentityIInv'
<1>1. /\ heldFrame' = f /\ boundContext' = boundContext /\ sourceGeneration' = sourceGeneration
      /\ mapEpoch' = IF otherName THEN mapEpoch + 1 ELSE mapEpoch
      /\ lastClear' = IF f.coverage = "present" THEN f ELSE IF otherName THEN NoFrame ELSE lastClear
      /\ RefreshFrom(identity, lineup, TRUE)
  BY DEF FrameAccepted
<1>2. unreadEvidence' \in BOOLEAN
  BY <1>1 DEF RefreshFrom
<1>3. ServerTypes'
  BY <1>1, <1>2 DEF ServerTypes, IdentityIInv
<1>4. /\ identity.generation <= sourceGeneration' /\ identity.epoch <= mapEpoch'
      /\ mapEpoch \in Nat /\ identity.epoch \in Nat /\ identity.epoch <= mapEpoch
  BY <1>1 DEF IdentityIInv, ServerTypes, IdentityOfThePast, IsIdentity
<1>5. /\ IdentityOfThePast' /\ IdentityIsRead' /\ LineupIsRead' /\ BrandsAreRead'
      /\ IdentityRefreshed(identity', boundContext', heldFrame', sourceGeneration', mapEpoch',
                           identity)
      /\ LineupRefreshed(lineup', heldFrame', sourceGeneration', mapEpoch', lineup)
  BY <1>1, <1>3, <1>4, RefreshFromWhatIs, RefreshReads
<1>6. MatchedIsProven' /\ RailsMatchBrands'
  <2> SUFFICES ASSUME identity'.state = "matched" PROVE MatchedIsProven' /\ RailsMatchBrands'
    BY DEF MatchedIsProven, RailsMatchBrands
  <2>1. BrandsFit(identity', boundContext', heldFrame') /\ SidesComplete(identity'.sides)
    BY <1>5 DEF BrandsAreRead
  <2>2. CASE Kept(identity', heldFrame', sourceGeneration', mapEpoch', identity)
    <3>1. /\ f.coverage # "present" /\ identity.state = "matched" /\ identity.epoch = mapEpoch'
          /\ identity'.sides = identity.sides
      BY <1>1, <2>2 DEF Kept, OfNow
    <3>2. ~otherName /\ mapEpoch' = mapEpoch /\ lastClear' = lastClear
      BY <1>1, <1>4, <3>1
    <3>3. MatchedIsProven'
      BY <1>1, <3>1, <3>2 DEF IdentityIInv, MatchedIsProven
    <3>4. lineup.epoch = mapEpoch' /\ ~ExactCandidates(heldFrame')
      BY <1>1, <3>1, <3>2 DEF IdentityIInv, LineupIsRead, ExactCandidates
    <3>5. SidesOf(lineup') = SidesOf(lineup) \/ SidesOf(lineup') = NoPlayers
      BY <1>5, <3>4 DEF LineupRefreshed
    <3>6. \A p \in DOMAIN lineup'.members :
              p \in DOMAIN lineup.members /\ lineup'.members[p].side = lineup.members[p].side
      <4>1. DOMAIN SidesOf(lineup') = DOMAIN lineup'.members
            /\ \A p \in DOMAIN lineup'.members : SidesOf(lineup')[p] = lineup'.members[p].side
        BY DEF SidesOf
      <4>2. DOMAIN SidesOf(lineup) = DOMAIN lineup.members
            /\ \A p \in DOMAIN lineup.members : SidesOf(lineup)[p] = lineup.members[p].side
        BY DEF SidesOf
      <4>3. DOMAIN NoPlayers = {}
        BY DEF NoPlayers
      <4> QED BY <3>5, <4>1, <4>2, <4>3
    <3>7. RailsMatchBrands'
      BY <1>1, <3>1, <3>6 DEF IdentityIInv, RailsMatchBrands
    <3> QED BY <3>3, <3>7
  <2>3. CASE /\ f.coverage = "present" /\ ProvenBy(f, boundContext', identity'.sides)
             /\ ExactCandidates(f)
    <3>1. lastClear' = f /\ f # NoFrame
      BY <1>1, <2>3, FramesAssumption
    <3>2. MatchedIsProven'
      BY <2>3, <3>1 DEF MatchedIsProven, ProvenBy
    <3>3. SidesOf(lineup') = ExactSides(f)
      BY <1>1, <1>5, <2>3, <3>1 DEF LineupRefreshed
    <3>4. BrandsFit(identity', boundContext', f)
      BY <1>1, <2>1
    <3>5. RailsFit(lineup', identity', boundContext')
      BY <2>1, <2>3, <3>3, <3>4, ExactRails
    <3>6. RailsMatchBrands'
      BY <3>5 DEF RailsMatchBrands, RailsFit
    <3> QED BY <3>2, <3>6
  <2> QED BY <1>1, <1>5, <2>2, <2>3 DEF IdentityRefreshed
<1> QED BY <1>3, <1>5, <1>6 DEF IdentityIInv

\* Without a list nobody is proven to play.
LEMMA NothingIsHeld ==
    ASSUME IdentityIInv, ServerTypes', RefreshFrom(identity, lineup, unreadEvidence),
           heldFrame' = NoFrame, sourceGeneration' >= sourceGeneration, mapEpoch' >= mapEpoch
    PROVE  IdentityIInv'
<1>1. identity.generation <= sourceGeneration' /\ identity.epoch <= mapEpoch'
  BY DEF IdentityIInv, ServerTypes, IdentityOfThePast, IsIdentity
<1>2. unreadEvidence \in BOOLEAN
  BY DEF IdentityIInv, ServerTypes
<1>3. /\ IdentityOfThePast' /\ IdentityIsRead' /\ LineupIsRead' /\ BrandsAreRead'
  BY <1>1, <1>2, RefreshFromWhatIs, RefreshReads
<1>4. identity'.state # "matched"
  BY <1>3 DEF BrandsAreRead
<1> QED BY <1>3, <1>4 DEF IdentityIInv, MatchedIsProven, RailsMatchBrands

LEMMA ContextIsRead ==
    ASSUME IdentityIInv, NEW c \in MatchContexts, BindContext(c)
    PROVE  IdentityIInv'
<1> DEFINE l == IF boundContext # NoContext /\ boundContext.match # c.match
                THEN EmptyLineup(sourceGeneration, mapEpoch) ELSE lineup
<1>1. /\ heldFrame' = heldFrame /\ boundContext' = c /\ sourceGeneration' = sourceGeneration
      /\ mapEpoch' = mapEpoch /\ RefreshFrom(FreshIdentity, l, TRUE)
      /\ lastClear' = IF heldFrame # NoFrame /\ heldFrame.coverage = "present" THEN heldFrame
                      ELSE NoFrame
  BY DEF BindContext
<1>2. unreadEvidence' \in BOOLEAN
  BY <1>1 DEF RefreshFrom
<1>3. ServerTypes'
  BY <1>1, <1>2 DEF ServerTypes, IdentityIInv
<1>4. /\ FreshIdentity.generation = 0 /\ FreshIdentity.epoch = 0 /\ IsIdentity(FreshIdentity)
      /\ FreshIdentity.state = "resolving"
  BY PlainIdentities DEF FreshIdentity, Resolution
<1>5. /\ sourceGeneration \in Nat /\ mapEpoch \in Nat
      /\ FreshIdentity.generation <= sourceGeneration' /\ FreshIdentity.epoch <= mapEpoch'
  BY <1>1, <1>4 DEF IdentityIInv, ServerTypes
<1>6. IsLineup(l) /\ (l.members # NoPlayers => IsBaseline(l) /\ SidesOf(l) = lastExact)
  BY <1>5, RefreshFromWhatIs, RefreshFromNothing
<1> HIDE DEF l
<1>7. /\ IdentityOfThePast' /\ IdentityIsRead' /\ LineupIsRead' /\ BrandsAreRead'
      /\ IdentityRefreshed(identity', boundContext', heldFrame', sourceGeneration', mapEpoch',
                           FreshIdentity)
      /\ LineupRefreshed(lineup', heldFrame', sourceGeneration', mapEpoch', l)
  BY <1>1, <1>3, <1>4, <1>5, <1>6, RefreshReads
<1>8. MatchedIsProven' /\ RailsMatchBrands'
  <2> SUFFICES ASSUME identity'.state = "matched" PROVE MatchedIsProven' /\ RailsMatchBrands'
    BY DEF MatchedIsProven, RailsMatchBrands
  <2>1. BrandsFit(identity', boundContext', heldFrame') /\ SidesComplete(identity'.sides)
    BY <1>7 DEF BrandsAreRead
  <2>2. /\ heldFrame # NoFrame /\ heldFrame.coverage = "present"
        /\ ProvenBy(heldFrame, boundContext', identity'.sides) /\ ExactCandidates(heldFrame)
    BY <1>1, <1>4, <1>7 DEF IdentityRefreshed, Kept
  <2>3. lastClear' = heldFrame /\ heldFrame \in Frames
    BY <1>1, <2>2 DEF IdentityIInv, ServerTypes
  <2>4. MatchedIsProven'
    BY <2>2, <2>3 DEF MatchedIsProven, ProvenBy
  <2>5. SidesOf(lineup') = ExactSides(heldFrame)
    BY <1>1, <1>7, <2>2 DEF LineupRefreshed
  <2>6. BrandsFit(identity', boundContext', heldFrame)
    BY <1>1, <2>1
  <2>7. RailsFit(lineup', identity', boundContext')
    BY <2>1, <2>2, <2>3, <2>5, <2>6, ExactRails
  <2>8. RailsMatchBrands'
    BY <2>7 DEF RailsMatchBrands, RailsFit
  <2> QED BY <2>4, <2>8
<1> QED BY <1>3, <1>7, <1>8 DEF IdentityIInv

LEMMA NobodyIsBound ==
    ASSUME IdentityIInv, UnbindContext
    PROVE  IdentityIInv'
<1> DEFINE l == EmptyLineup(sourceGeneration, mapEpoch)
<1>1. /\ heldFrame' = heldFrame /\ boundContext' = NoContext /\ sourceGeneration' = sourceGeneration
      /\ mapEpoch' = mapEpoch /\ RefreshFrom(UnboundIdentity, l, TRUE)
  BY DEF UnbindContext
<1>2. unreadEvidence' \in BOOLEAN
  BY <1>1 DEF RefreshFrom
<1>3. ServerTypes'
  BY <1>1, <1>2 DEF ServerTypes, IdentityIInv
<1>4. /\ UnboundIdentity.generation = 0 /\ UnboundIdentity.epoch = 0 /\ IsIdentity(UnboundIdentity)
      /\ UnboundIdentity.state = "unbound"
  BY PlainIdentities DEF UnboundIdentity, Resolution
<1>5. /\ sourceGeneration \in Nat /\ mapEpoch \in Nat
      /\ UnboundIdentity.generation <= sourceGeneration' /\ UnboundIdentity.epoch <= mapEpoch'
  BY <1>1, <1>4 DEF IdentityIInv, ServerTypes
<1>6. IsLineup(l) /\ l.members = NoPlayers
  BY <1>5, RefreshFromNothing
<1> HIDE DEF l
<1>7. IdentityOfThePast' /\ IdentityIsRead' /\ LineupIsRead' /\ BrandsAreRead'
  BY <1>1, <1>3, <1>4, <1>5, <1>6, RefreshReads
<1>8. identity'.state # "matched"
  BY <1>1, <1>7 DEF BrandsAreRead
<1> QED BY <1>3, <1>7, <1>8 DEF IdentityIInv, MatchedIsProven, RailsMatchBrands

\* Refreshing again changes nothing.
LEMMA RefreshIsIdle ==
    ASSUME IdentityIInv, RefreshAgain
    PROVE  UNCHANGED identityVars
<1>1. /\ UNCHANGED <<boundContext, sourceGeneration, mapEpoch, heldFrame, lastClear>>
      /\ RefreshFrom(identity, lineup, unreadEvidence)
  BY DEF RefreshAgain
<1>2. identity' = identity /\ unreadEvidence' = unreadEvidence
  BY <1>1 DEF RefreshFrom, IdentityIInv, IdentityIsRead, ServerTypes
<1>3. lineup' = lineup
  BY <1>1 DEF RefreshFrom, IdentityIInv, LineupIsRead
<1>4. ServerTypes' /\ identity.generation <= sourceGeneration' /\ identity.epoch <= mapEpoch'
      /\ unreadEvidence \in BOOLEAN
  BY <1>1, <1>2 DEF IdentityIInv, ServerTypes, IdentityOfThePast
<1>5. LineupIsRead'
  BY <1>1, <1>4, RefreshFromWhatIs, RefreshReads
<1>6. lastExact' = lastExact
  BY <1>3, <1>5 DEF LineupIsRead, IdentityIInv
<1> QED BY <1>1, <1>2, <1>3, <1>6 DEF identityVars

LEMMA IdentityNextIInv == IdentityIInv /\ [IdentityNext]_identityVars => IdentityIInv'
<1> SUFFICES ASSUME IdentityIInv, [IdentityNext]_identityVars PROVE IdentityIInv'
  OBVIOUS
<1>1. ASSUME UNCHANGED identityVars PROVE IdentityIInv'
  BY <1>1 DEF identityVars, IdentityIInv, ServerTypes, IdentityOfThePast, IdentityIsRead,
     LineupIsRead, BrandsAreRead, MatchedIsProven, RailsMatchBrands
<1>2. ASSUME NEW f \in Frames, NEW otherName \in BOOLEAN, FrameAccepted(f, otherName)
      PROVE  IdentityIInv'
  BY <1>2, FrameIsRead
<1>3. CASE GenerationAdvances
  <2>1. /\ heldFrame' = NoFrame /\ sourceGeneration' = sourceGeneration + 1
        /\ mapEpoch' = mapEpoch /\ boundContext' = boundContext
        /\ RefreshFrom(identity, lineup, unreadEvidence)
    BY <1>3 DEF GenerationAdvances
  <2>2. ServerTypes' /\ sourceGeneration' >= sourceGeneration /\ mapEpoch' >= mapEpoch
    BY <2>1 DEF IdentityIInv, ServerTypes, RefreshFrom
  <2> QED BY <2>1, <2>2, NothingIsHeld
<1>4. CASE MapExecutionReset
  <2>1. /\ heldFrame' = NoFrame /\ sourceGeneration' = sourceGeneration
        /\ mapEpoch' = mapEpoch + 1 /\ boundContext' = boundContext
        /\ RefreshFrom(identity, lineup, unreadEvidence)
    BY <1>4 DEF MapExecutionReset
  <2>2. ServerTypes' /\ sourceGeneration' >= sourceGeneration /\ mapEpoch' >= mapEpoch
    BY <2>1 DEF IdentityIInv, ServerTypes, RefreshFrom
  <2> QED BY <2>1, <2>2, NothingIsHeld
<1>5. ASSUME NEW c \in MatchContexts, BindContext(c) PROVE IdentityIInv'
  BY <1>5, ContextIsRead
<1>6. CASE UnbindContext
  BY <1>6, NobodyIsBound
<1>7. CASE RefreshAgain
  BY <1>1, <1>7, RefreshIsIdle
<1> QED BY <1>1, <1>2, <1>3, <1>4, <1>5, <1>6, <1>7 DEF IdentityNext

LEMMA IdentityIInvIsEnough == IdentityIInv => IdentityInv
<1> SUFFICES ASSUME IdentityIInv PROVE IdentityInv
  OBVIOUS
<1>1. BrandIsOnItsSide
  BY DEF IdentityIInv, BrandsAreRead, BrandsFit, BrandIsOnItsSide, Branded
<1>2. LineupIsLastExact
  BY DEF IdentityIInv, LineupIsRead, LineupFits, SidesOf, LineupIsLastExact
<1> QED BY <1>1, <1>2 DEF IdentityIInv, IdentityInv

\* Who is proven to play was on a complete list, brands and rails are on the side of their players,
\* and the lineup is the last exact one, for all rosters, lists and numbers of reconnects.
THEOREM IdentityIsSound == IdentitySpec => []IdentityInv
<1>1. IdentityInit => IdentityIInv
  BY IdentityInitIInv
<1>2. IdentityIInv /\ [IdentityNext]_identityVars => IdentityIInv'
  BY IdentityNextIInv
<1>3. IdentityIInv => IdentityInv
  BY IdentityIInvIsEnough
<1> QED BY <1>1, <1>2, <1>3, PTL DEF IdentitySpec

\* Refreshing the projections again, without anything new, changes neither identity nor lineup.
THEOREM RefreshingIsIdempotent == IdentitySpec => RefreshIsIdempotent
<1>1. IdentityInit => IdentityIInv
  BY IdentityInitIInv
<1>2. IdentityIInv /\ [IdentityNext]_identityVars => IdentityIInv'
  BY IdentityNextIInv
<1>3. IdentityIInv /\ [IdentityNext]_identityVars
          => [RefreshAgain => UNCHANGED identityVars]_identityVars
  BY RefreshIsIdle
<1> QED BY <1>1, <1>2, <1>3, PTL DEF IdentitySpec, RefreshIsIdempotent

-----------------------------------------------------------------------------
(* What the director has played *)

Keys == [context : Nat, execution : Nat, assigned : BOOLEAN]
Cues == [key : Keys, warmupPlayed : BOOLEAN, introStarted : BOOLEAN, introFinished : BOOLEAN,
         halftimeSeen : BOOLEAN, resultShown : BOOLEAN]
ObservedMatch == [map : Nat, stage : Stages, seconds : Int, paused : BOOLEAN,
                  lost : {"nothing"} \cup Losses, confirmed : BOOLEAN, half : BOOLEAN,
                  bpReady : BOOLEAN, context : Nat, execution : Nat]
SceneTargets == {"waiting", "bp", "matchup", "gameplay", "halftime", "map_result", "match_result",
                 "intermap", NoScene}
SceneRequests == [target : SceneTargets, final : BOOLEAN, key : Keys, current : BOOLEAN, age : Nat]

DirectorTypes ==
    /\ cues \in Cues /\ match \in ObservedMatch
    /\ request \in SceneRequests \cup {NoRequest}
    /\ cues.key.execution <= match.execution

\* There was a halftime in this execution when the cues say so, and none before the first round.
HalftimeInv ==
    /\ match.stage \in {"halftime", "second freeze"} => match.half
    /\ match.half => match.stage \notin {"warmup", "first freeze"}
    /\ cues.key.execution = match.execution /\ cues.halftimeSeen => match.half

\* What was played is ticked off under the key of now; it is forgotten with what is lost.
PlayedInv ==
    /\ "bp" \in played => SameContext /\ cues.warmupPlayed
    /\ "map_result" \in played => cues.key = Key /\ cues.resultShown
    /\ "gameplay" \in played => cues.key = Key /\ (cues.introFinished \/ cues.halftimeSeen)

LostInv ==
    /\ match.lost = "context" => played = {}
    /\ match.lost = "assignment" => played \subseteq {"bp"}

\* What a request under way asks for is not ticked off yet; that of the HUD ends the opening.
Unplayed(req, c) ==
    /\ req.key = c.key
    /\ req.target = "bp" /\ ~req.final => ~c.warmupPlayed
    /\ req.target = "map_result" => ~c.resultShown
    /\ req.target = "gameplay" => c.introFinished \/ c.halftimeSeen
    /\ req.target = "matchup" \/ req.final => ~c.introFinished /\ ~c.halftimeSeen

RequestInv == request # NoRequest => Unplayed(request, cues)

DirectorIInv == DirectorTypes /\ HalftimeInv /\ PlayedInv /\ LostInv /\ RequestInv

LEMMA NoRequestIsNone == NoRequest \notin SceneRequests
<1>1. DOMAIN NoRequest = {"target"}
  BY DEF NoRequest
<1>2. \A q \in SceneRequests : "key" \in DOMAIN q
  BY DEF SceneRequests
<1> QED BY <1>1, <1>2

LEMMA KeyType ==
    ASSUME match \in ObservedMatch
    PROVE  Key \in Keys /\ Key.execution = match.execution
<1> DEFINE context == IF match.lost = "context" THEN 0 ELSE match.context
           assigned == match.lost # "assignment" /\ ~(match.confirmed /\ match.map = SeriesLength)
<1>1. context \in Nat /\ match.execution \in Nat
  BY DEF ObservedMatch
<1>2. assigned \in BOOLEAN
  OBVIOUS
<1>3. Key = [context |-> context, execution |-> match.execution, assigned |-> assigned]
  BY DEF Key
<1> HIDE DEF context, assigned
<1> QED BY <1>1, <1>2, <1>3 DEF Keys

\* What the key of an execution depends on.
SameKey ==
    /\ match'.context = match.context /\ match'.execution = match.execution
    /\ match'.lost = match.lost /\ match'.map = match.map /\ match'.confirmed = match.confirmed

LEMMA KeyStays ==
    ASSUME SameKey
    PROVE  Key' = Key /\ (Safe' <=> Safe)
BY DEF SameKey, Key, Safe

LEMMA SameMatchSameKey ==
    ASSUME match' = match
    PROVE  SameKey /\ Key' = Key /\ (Safe' <=> Safe) /\ Summary' = Summary
BY DEF SameKey, Key, Safe, Summary

LEMMA DirectorInitIInv == DirectorInit => DirectorIInv
<1> SUFFICES ASSUME DirectorInit PROVE DirectorIInv
  OBVIOUS
<1>1. cues \in Cues /\ cues.key.execution = 0
  BY DEF DirectorInit, FreshCues, Cues, NoKey, Keys
<1>2. /\ match \in ObservedMatch /\ match.execution = 1 /\ match.stage = "warmup" /\ ~match.half
      /\ request = NoRequest /\ played = {}
  BY DEF DirectorInit, ObservedMatch, Stages
<1>3. cues.key.execution <= match.execution /\ cues.key.execution # match.execution
  BY <1>1, <1>2
<1> QED BY <1>1, <1>2, <1>3 DEF DirectorIInv, DirectorTypes, HalftimeInv, PlayedInv, LostInv,
         RequestInv

-----------------------------------------------------------------------------
(* What a tick asks for *)

LEMMA WhatTargetsMean ==
    ASSUME NEW c, NEW elapsed, NEW warmup, NEW target, target = Target(c, elapsed, warmup)
    PROVE  /\ target = "bp" =>
                 \/ match.stage = "warmup" /\ ~c.warmupPlayed
                 \/ match.stage = "first freeze" /\ ~c.introFinished
           /\ target = "matchup" => match.stage = "first freeze" /\ ~c.introFinished
           /\ target = "map_result" => ~c.resultShown /\ match.confirmed
           /\ target \in SceneTargets
<1>1. IsHalftime => match.stage \in {"halftime", "second freeze"}
  BY DEF IsHalftime
<1>2. FirstFreeze(c) => match.stage = "first freeze" /\ ~c.introFinished
  BY DEF FirstFreeze
<1>3. OpeningTarget(c, elapsed) \in {"gameplay", "matchup", "bp", NoScene}
  BY DEF OpeningTarget, NoScene
<1> DEFINE half == IsHalftime
           leaving == LeavingHalftime(c)
<1>4. Summary \in {"match_result", "intermap"}
  BY DEF Summary
<1> HIDE DEF half, leaving
<1>5. CASE match.stage = "over" /\ match.confirmed
  <2>1. target = IF ~c.resultShown THEN "map_result"
                 ELSE IF onAir = "map_result" /\ elapsed >= Timings.mapResult THEN Summary
                 ELSE NoScene
    BY <1>5 DEF Target, Freezes
  <2> QED BY <1>4, <1>5, <2>1 DEF NoScene, SceneTargets
<1>6. CASE match.stage = "over" /\ ~match.confirmed
  <2>1. target = NoScene
    BY <1>6, <1>1 DEF Target, Freezes
  <2> QED BY <2>1 DEF NoScene, SceneTargets
<1>7. CASE match.stage # "over" /\ IsHalftime
  <2>1. target = "halftime"
    BY <1>7, <1>1 DEF Target, Freezes
  <2> QED BY <2>1 DEF SceneTargets
<1>8. CASE match.stage # "over" /\ ~IsHalftime /\ LeavingHalftime(c)
  <2>1. target \in {"gameplay", NoScene}
    BY <1>8 DEF Target, Freezes
  <2> QED BY <2>1 DEF NoScene, SceneTargets
<1>9. CASE match.stage = "warmup" /\ ~LeavingHalftime(c)
  <2>1. target = IF ~c.warmupPlayed /\ match.bpReady THEN "bp"
                 ELSE IF onAir = "bp" /\ reveal = "shown" /\ warmup >= Timings.warmupFinal
                 THEN "waiting" ELSE NoScene
    BY <1>1, <1>9 DEF Target, Freezes
  <2> QED BY <1>9, <2>1 DEF NoScene, SceneTargets
<1>10. CASE match.stage \in {"live"} \cup Freezes /\ ~IsHalftime /\ ~LeavingHalftime(c)
  <2>1. target = IF FirstFreeze(c) THEN OpeningTarget(c, elapsed) ELSE "gameplay"
    BY <1>10 DEF Target, Freezes
  <2> QED BY <1>2, <1>3, <2>1 DEF NoScene, SceneTargets
<1>11. CASE /\ match.stage \notin {"over", "warmup", "live"} \cup Freezes
            /\ ~IsHalftime /\ ~LeavingHalftime(c)
  <2>1. target = NoScene
    BY <1>11 DEF Target
  <2> QED BY <2>1 DEF NoScene, SceneTargets
<1> QED BY <1>5, <1>6, <1>7, <1>8, <1>9, <1>10, <1>11

\* A tick's cues are of this execution; nothing but a request for the HUD ends the opening.
LEMMA CuesOfNow ==
    ASSUME DirectorTypes, HalftimeInv
    PROVE  LET c == CuesOfThisExecution IN
           /\ c \in Cues /\ c.key = Key
           /\ c.warmupPlayed = (SameContext /\ cues.warmupPlayed)
           /\ c.halftimeSeen => match.half
           /\ cues.key = Key =>
                 /\ c.introFinished = cues.introFinished /\ c.resultShown = cues.resultShown
                 /\ cues.halftimeSeen => c.halftimeSeen
           /\ cues.key # Key => ~c.resultShown
<1> DEFINE warmedUp == SameContext /\ cues.warmupPlayed
           b == IF cues.key = Key THEN cues ELSE FreshCues(Key, warmedUp)
           c == CuesOfThisExecution
           now == onAir = "halftime" /\ ~match.paused /\ match.stage = "second freeze"
<1>1. /\ b \in Cues /\ b.key = Key /\ b.warmupPlayed = warmedUp
      /\ b.halftimeSeen => match.half
      /\ cues.key = Key => b = cues
      /\ cues.key # Key => ~b.resultShown
  <2>1. /\ Key \in Keys /\ Key.execution = match.execution /\ cues \in Cues
        /\ warmedUp \in BOOLEAN
    BY KeyType DEF DirectorTypes, Cues
  <2>2. CASE cues.key = Key
    <3>1. SameContext
      BY <2>2 DEF SameContext
    <3>2. warmedUp = cues.warmupPlayed
      BY <2>1, <3>1 DEF Cues
    <3> HIDE DEF warmedUp
    <3>3. cues.halftimeSeen => match.half
      BY <2>1, <2>2 DEF HalftimeInv
    <3> QED BY <2>1, <2>2, <3>2, <3>3
  <2>3. CASE cues.key # Key
    <3> HIDE DEF warmedUp
    <3>1. b = FreshCues(Key, warmedUp)
      BY <2>3
    <3> QED BY <2>1, <2>3, <3>1 DEF FreshCues, Cues
  <2> QED BY <2>2, <2>3
<1>2. c = [b EXCEPT !.halftimeSeen = @ \/ now]
  BY DEF CuesOfThisExecution, warmedUp
<1>3. now \in BOOLEAN /\ (now => match.half)
  BY DEF HalftimeInv, DirectorTypes, ObservedMatch
<1> HIDE DEF b, c, now, warmedUp
<1>4. /\ c \in Cues /\ c.key = b.key /\ c.warmupPlayed = b.warmupPlayed
      /\ c.introFinished = b.introFinished /\ c.resultShown = b.resultShown
      /\ c.halftimeSeen = (b.halftimeSeen \/ now)
  BY <1>1, <1>2, <1>3 DEF Cues
<1>5. /\ c \in Cues /\ c.key = Key /\ c.warmupPlayed = warmedUp
      /\ c.halftimeSeen => match.half
      /\ cues.key = Key =>
             /\ c.introFinished = cues.introFinished /\ c.resultShown = cues.resultShown
             /\ cues.halftimeSeen => c.halftimeSeen
      /\ cues.key # Key => ~c.resultShown
  BY <1>1, <1>3, <1>4
<1> QED BY <1>5 DEF c, warmedUp

LEMMA NotedCues ==
    ASSUME DirectorTypes, HalftimeInv, NEW c \in Cues, NEW target, NEW manual
    PROVE  LET n == Noted(c, target, manual) IN
           /\ n \in Cues /\ n.key = c.key /\ n.warmupPlayed = c.warmupPlayed
           /\ n.resultShown = c.resultShown
           /\ n.halftimeSeen => c.halftimeSeen \/ match.half
           /\ c.halftimeSeen => n.halftimeSeen
           /\ c.introFinished => n.introFinished
           /\ n.introFinished => c.introFinished \/ target = "gameplay"
           /\ target = "gameplay" /\ ~manual => n.introFinished \/ n.halftimeSeen
           /\ target = "gameplay" /\ ~manual /\ ~LeavingHalftime(c) => n.introFinished
<1> DEFINE n == Noted(c, target, manual)
           over == target = "gameplay" /\ ~manual /\ ~LeavingHalftime(c)
<1>1. n = [c EXCEPT !.halftimeSeen = @ \/ IsHalftime, !.introFinished = @ \/ over]
  BY DEF Noted
<1>2. IsHalftime \in BOOLEAN /\ (IsHalftime => match.half)
  BY DEF IsHalftime, HalftimeInv, DirectorTypes, ObservedMatch
<1>3. over \in BOOLEAN /\ (target = "gameplay" /\ ~manual => over \/ c.halftimeSeen)
      /\ (over => target = "gameplay")
      /\ (target = "gameplay" /\ ~manual /\ ~LeavingHalftime(c) => over)
  BY DEF LeavingHalftime
<1> HIDE DEF n, over
<1>4. /\ n \in Cues /\ n.key = c.key /\ n.warmupPlayed = c.warmupPlayed
      /\ n.resultShown = c.resultShown
      /\ n.halftimeSeen = (c.halftimeSeen \/ IsHalftime)
      /\ n.introFinished = (c.introFinished \/ over)
  BY <1>1, <1>2, <1>3 DEF Cues
<1>5. /\ n \in Cues /\ n.key = c.key /\ n.warmupPlayed = c.warmupPlayed
      /\ n.resultShown = c.resultShown
      /\ n.halftimeSeen => c.halftimeSeen \/ match.half
      /\ c.halftimeSeen => n.halftimeSeen
      /\ c.introFinished => n.introFinished
      /\ n.introFinished => c.introFinished \/ target = "gameplay"
      /\ target = "gameplay" /\ ~manual => n.introFinished \/ n.halftimeSeen
      /\ target = "gameplay" /\ ~manual /\ ~LeavingHalftime(c) => n.introFinished
  BY <1>2, <1>3, <1>4
<1> QED BY <1>5 DEF n

LEMMA ReachedCues ==
    ASSUME NEW c \in Cues, NEW target, NEW final \in BOOLEAN
    PROVE  LET n == Reached(c, target, final) IN
           /\ n \in Cues /\ n.key = c.key /\ n.halftimeSeen = c.halftimeSeen
           /\ n.introFinished = c.introFinished
           /\ c.warmupPlayed => n.warmupPlayed
           /\ c.resultShown => n.resultShown
           /\ n.resultShown => c.resultShown \/ target = "map_result"
           /\ target = "bp" /\ ~final => n.warmupPlayed
           /\ target = "map_result" => n.resultShown
<1> DEFINE n == Reached(c, target, final)
           started == target = "matchup" \/ final
           played1 == target = "bp" /\ ~final
           shown == target = "map_result"
<1>1. n = [c EXCEPT !.introStarted = @ \/ started, !.warmupPlayed = @ \/ played1,
                    !.resultShown = @ \/ shown]
  BY DEF Reached
<1>2. started \in BOOLEAN /\ played1 \in BOOLEAN /\ shown \in BOOLEAN
  OBVIOUS
<1> HIDE DEF n
<1>3. n \in Cues /\ n.key = c.key /\ n.halftimeSeen = c.halftimeSeen
  BY <1>1, <1>2 DEF Cues
<1>4. /\ n.introFinished = c.introFinished
      /\ n.warmupPlayed = (c.warmupPlayed \/ played1) /\ n.resultShown = (c.resultShown \/ shown)
  BY <1>1, <1>2 DEF Cues
<1>5. /\ c.warmupPlayed => n.warmupPlayed
      /\ c.resultShown => n.resultShown
      /\ n.resultShown => c.resultShown \/ target = "map_result"
      /\ target = "bp" /\ ~final => n.warmupPlayed
      /\ target = "map_result" => n.resultShown
  BY <1>4
<1> QED BY <1>3, <1>4, <1>5 DEF n

\* What the cues k may be after a tick.
CuesGoOn(k) ==
    /\ k \in Cues /\ k.key.execution <= match.execution
    /\ SameContext /\ cues.warmupPlayed => k.key.context = Key.context /\ k.warmupPlayed
    /\ cues.key = Key =>
          /\ k.key = Key
          /\ cues.resultShown => k.resultShown
          /\ cues.introFinished \/ cues.halftimeSeen => k.introFinished \/ k.halftimeSeen
    /\ k.key.execution = match.execution /\ k.halftimeSeen => match.half

LEMMA TickAsksOnce ==
    ASSUME DirectorTypes, HalftimeInv, request = NoRequest, NEW c \in Cues, CuesGoOn(c),
           c.key = Key, NEW sofar, NEW warmedup, NEW manual,
           TickAsks(c, sofar, warmedup, manual)
    PROVE  /\ CuesGoOn(cues')
           /\ \/ request' = NoRequest
              \/ request' \in SceneRequests /\ Unplayed(request', cues')
<1> DEFINE elapsed == Counted(sofar + (IF manual \/ match.paused THEN 0 ELSE pace.since),
                              {"bpFinal", "intro", "shortIntro", "mapResult"})
           warmup == Counted(warmedup + (IF /\ match.stage = "warmup" /\ ~manual /\ onAir = "bp"
                                            /\ reveal = "shown"
                                            /\ (c.warmupPlayed \/ ~match.bpReady)
                                         THEN pace.since ELSE 0),
                             {"warmupFinal"})
           target == Target(c, elapsed, warmup)
           final == target = "bp" /\ match.stage # "warmup"
           n == Noted(c, target, manual)
           asked == [target |-> target, final |-> final, key |-> Key, current |-> TRUE,
                     age |-> 0]
<1>1. \/ cues' = n /\ request' = request
      \/ cues' = Reached(n, target, final) /\ request' = request
      \/ cues' = n /\ request' = asked /\ ~manual
  <2> HIDE DEF elapsed, warmup
  <2> QED BY DEF TickAsks, elapsed, warmup
<1>2. /\ target = "bp" =>
            \/ match.stage = "warmup" /\ ~c.warmupPlayed
            \/ match.stage = "first freeze" /\ ~c.introFinished
      /\ target = "matchup" => match.stage = "first freeze" /\ ~c.introFinished
      /\ target = "map_result" => ~c.resultShown
      /\ target \in SceneTargets
  BY WhatTargetsMean
<1>3. final \in BOOLEAN
  OBVIOUS
<1> HIDE DEF elapsed, warmup, target
<1>4. /\ n \in Cues /\ n.key = c.key /\ n.warmupPlayed = c.warmupPlayed
      /\ n.resultShown = c.resultShown
      /\ n.halftimeSeen => c.halftimeSeen \/ match.half
      /\ c.halftimeSeen => n.halftimeSeen
      /\ c.introFinished => n.introFinished
      /\ n.introFinished => c.introFinished \/ target = "gameplay"
      /\ target = "gameplay" /\ ~manual => n.introFinished \/ n.halftimeSeen
  BY NotedCues
<1> HIDE DEF n
<1>5. CuesGoOn(n)
  BY <1>4 DEF CuesGoOn
<1>6. LET k == Reached(n, target, final) IN
      /\ k \in Cues /\ k.key = n.key /\ k.halftimeSeen = n.halftimeSeen
      /\ k.introFinished = n.introFinished
      /\ n.warmupPlayed => k.warmupPlayed
      /\ n.resultShown => k.resultShown
  BY <1>3, <1>4, ReachedCues
<1>7. CuesGoOn(Reached(n, target, final))
  BY <1>5, <1>6 DEF CuesGoOn
<1>8. asked \in SceneRequests
  BY <1>2, <1>3, KeyType DEF SceneRequests, DirectorTypes
<1>9. ~manual => Unplayed(asked, n)
  <2>1. /\ asked.key = n.key /\ asked.target = target /\ asked.final = final
    BY <1>4
  <2>2. target = "bp" /\ ~final => ~n.warmupPlayed
    BY <1>2, <1>4
  <2>3. target = "map_result" => ~n.resultShown
    BY <1>2, <1>4
  <2>4. target = "matchup" \/ final => ~n.introFinished /\ ~n.halftimeSeen
    <3> SUFFICES ASSUME target = "matchup" \/ final PROVE ~n.introFinished /\ ~n.halftimeSeen
      OBVIOUS
    <3>1. match.stage = "first freeze" /\ ~c.introFinished /\ target # "gameplay"
      BY <1>2
    <3>2. ~match.half
      BY <3>1 DEF HalftimeInv
    <3>3. ~c.halftimeSeen
      BY <3>2, KeyType DEF CuesGoOn, DirectorTypes
    <3> QED BY <1>4, <3>1, <3>2, <3>3
  <2> HIDE DEF asked, final
  <2> QED BY <1>4, <2>1, <2>2, <2>3, <2>4 DEF Unplayed
<1> HIDE DEF asked, final
<1> QED BY <1>1, <1>5, <1>7, <1>8, <1>9

\* Cues that went on are still those of what was played.
LEMMA TickKeeps ==
    ASSUME DirectorIInv, DirectorTick
    PROVE  DirectorIInv'
<1> DEFINE c == CuesOfThisExecution
<1>1. request = NoRequest /\ match' = match /\ played' = played
  BY DEF DirectorTick, surroundings
<1>2. /\ c \in Cues /\ c.key = Key /\ c.warmupPlayed = (SameContext /\ cues.warmupPlayed)
      /\ c.halftimeSeen => match.half
      /\ cues.key = Key =>
             /\ c.introFinished = cues.introFinished /\ c.resultShown = cues.resultShown
             /\ cues.halftimeSeen => c.halftimeSeen
  BY CuesOfNow DEF DirectorIInv
<1>3. CuesGoOn(c)
  <2>1. c.key.execution <= match.execution
    BY <1>2, KeyType DEF DirectorIInv, DirectorTypes, ObservedMatch
  <2> HIDE DEF c
  <2> QED BY <1>2, <2>1 DEF CuesGoOn
<1>4. CuesGoOn(cues)
  BY DEF CuesGoOn, DirectorIInv, DirectorTypes, HalftimeInv, SameContext
<1>5. \/ cues' = cues /\ request' = request
      \/ cues' = c /\ request' = request
      \/ \E sofar, warmedup, manual : TickAsks(c, sofar, warmedup, manual)
  <2> HIDE DEF c
  <2> QED BY DEF DirectorTick, c
<1> HIDE DEF c
<1>6. /\ CuesGoOn(cues')
      /\ \/ request' = NoRequest
         \/ request' \in SceneRequests /\ Unplayed(request', cues')
  BY <1>1, <1>2, <1>3, <1>4, <1>5, TickAsksOnce DEF DirectorIInv
<1>7. DirectorTypes' /\ HalftimeInv'
  BY <1>1, <1>6 DEF CuesGoOn, DirectorIInv, DirectorTypes, HalftimeInv
<1>8. PlayedInv'
  <2>1. Key' = Key
    BY <1>1, SameMatchSameKey
  <2> QED BY <1>1, <1>6, <2>1 DEF CuesGoOn, DirectorIInv, PlayedInv, SameContext
<1>9. RequestInv'
  BY <1>6 DEF RequestInv
<1>10. LostInv'
  BY <1>1 DEF DirectorIInv, LostInv
<1> QED BY <1>7, <1>8, <1>9, <1>10 DEF DirectorIInv

-----------------------------------------------------------------------------
(* The other steps *)

\* A scene that goes on air was asked for in this execution, and is ticked off.
LEMMA SuccessKeeps ==
    ASSUME DirectorIInv, RequestSucceeds
    PROVE  /\ DirectorIInv'
           /\ request.target = "matchup" \/ request.final => "gameplay" \notin played
           /\ request.target = "map_result" => "map_result" \notin played
           /\ request.target = "bp" /\ ~request.final => "bp" \notin played
<1>1. /\ request # NoRequest /\ request.key = Key /\ Safe
      /\ request' = NoRequest /\ match' = match
      /\ played' = played \cup Memorable(request)
      /\ cues' = Reached(cues, request.target, request.final)
  BY DEF RequestSucceeds, RequestIsValid, surroundings
<1>2. request \in SceneRequests /\ Unplayed(request, cues) /\ request.final \in BOOLEAN
  BY <1>1 DEF DirectorIInv, DirectorTypes, RequestInv, SceneRequests
<1>3. /\ cues' \in Cues /\ cues'.key = cues.key /\ cues'.halftimeSeen = cues.halftimeSeen
      /\ cues'.introFinished = cues.introFinished
      /\ cues.warmupPlayed => cues'.warmupPlayed
      /\ cues.resultShown => cues'.resultShown
      /\ request.target = "bp" /\ ~request.final => cues'.warmupPlayed
      /\ request.target = "map_result" => cues'.resultShown
  BY <1>1, <1>2, ReachedCues DEF DirectorIInv, DirectorTypes
<1>4. cues.key = Key
  BY <1>1, <1>2 DEF Unplayed
<1>5. /\ "bp" \in played' => "bp" \in played \/ (request.target = "bp" /\ ~request.final)
      /\ "map_result" \in played' => "map_result" \in played \/ request.target = "map_result"
      /\ "gameplay" \in played' => "gameplay" \in played \/ request.target = "gameplay"
  BY <1>1 DEF Memorable
<1>6. DirectorTypes' /\ HalftimeInv' /\ RequestInv'
  BY <1>1, <1>3 DEF DirectorIInv, DirectorTypes, HalftimeInv, RequestInv
<1>7. PlayedInv' /\ LostInv'
  <2>1. Key' = Key /\ SameContext /\ match'.lost = "nothing"
    BY <1>1, <1>4, SameMatchSameKey DEF SameContext, Safe
  <2>2. "bp" \in played => cues.warmupPlayed
    BY DEF DirectorIInv, PlayedInv
  <2>3. PlayedInv'
    BY <1>2, <1>3, <1>4, <1>5, <2>1, <2>2 DEF DirectorIInv, PlayedInv, Unplayed, SameContext
  <2> QED BY <2>1, <2>3 DEF LostInv
<1>8. /\ request.target = "matchup" \/ request.final => "gameplay" \notin played
      /\ request.target = "map_result" => "map_result" \notin played
      /\ request.target = "bp" /\ ~request.final => "bp" \notin played
  BY <1>2 DEF DirectorIInv, PlayedInv, Unplayed
<1> QED BY <1>6, <1>7, <1>8 DEF DirectorIInv

\* A request that goes on still asks for the same.
SameRequest ==
    request # NoRequest =>
        /\ request' \in SceneRequests /\ request'.target = request.target
        /\ request'.final = request.final /\ request'.key = request.key

RequestGoesOn == SameRequest /\ (request = NoRequest => request' = NoRequest)

LEMMA StillRequested ==
    ASSUME DirectorTypes, request' = request \/ request' = Superseded
    PROVE  RequestGoesOn
<1>1. CASE request = NoRequest
  BY <1>1 DEF RequestGoesOn, SameRequest, Superseded
<1>2. CASE request # NoRequest
  <2>1. request \in SceneRequests
    BY <1>2 DEF DirectorTypes
  <2>2. CASE request' = request
    BY <1>2, <2>1, <2>2 DEF RequestGoesOn, SameRequest
  <2>3. CASE request' = [request EXCEPT !.current = FALSE]
    BY <1>2, <2>1, <2>3 DEF RequestGoesOn, SameRequest, SceneRequests
  <2> QED BY <1>2, <2>2, <2>3 DEF Superseded
<1> QED BY <1>1, <1>2

\* The match goes on, and with it, or without it, what was played.
MatchGoesOn ==
    /\ match' \in ObservedMatch
    /\ \/ match'.execution = match.execution + 1
       \/ match'.execution = match.execution /\ (match.half => match'.half)
    /\ match'.stage \in {"halftime", "second freeze"} => match'.half
    /\ match'.half => match'.stage \notin {"warmup", "first freeze"}

PlayedGoesOn ==
    /\ played' \subseteq played /\ LostInv'
    /\ "bp" \in played' => Key'.context = Key.context
    /\ played' \subseteq {"bp"} \/ Key' = Key

LEMMA MatchKeeps ==
    ASSUME DirectorIInv, MatchGoesOn, PlayedGoesOn, cues' = cues,
           RequestGoesOn \/ request' = NoRequest
    PROVE  DirectorIInv'
<1>1. /\ cues.key.execution \in Nat /\ match.execution \in Nat /\ match'.execution \in Nat
      /\ cues.key.execution <= match.execution
      /\ match'.execution = match.execution + 1 \/ match'.execution = match.execution
  BY DEF DirectorIInv, DirectorTypes, Cues, Keys, ObservedMatch, MatchGoesOn
<1>2. /\ cues.key.execution <= match'.execution
      /\ cues.key.execution = match'.execution =>
             /\ cues.key.execution = match.execution /\ match'.execution = match.execution
             /\ match'.execution # match.execution + 1
  BY <1>1
<1>3. DirectorTypes'
  BY <1>2 DEF DirectorIInv, DirectorTypes, MatchGoesOn, RequestGoesOn, SameRequest
<1>4. HalftimeInv'
  BY <1>2 DEF DirectorIInv, HalftimeInv, MatchGoesOn
<1>5. PlayedInv' /\ LostInv'
  BY DEF DirectorIInv, PlayedInv, PlayedGoesOn, SameContext
<1>6. RequestInv'
  BY DEF DirectorIInv, RequestInv, RequestGoesOn, SameRequest, Unplayed
<1> QED BY <1>3, <1>4, <1>5, <1>6 DEF DirectorIInv

LEMMA SameKeyPlays ==
    ASSUME DirectorIInv, SameKey, played' = played
    PROVE  PlayedGoesOn
BY KeyStays DEF DirectorIInv, LostInv, PlayedGoesOn, SameKey

LEMMA SameMatch ==
    ASSUME DirectorIInv, match' = match, played' = played
    PROVE  MatchGoesOn /\ PlayedGoesOn
<1>1. PlayedGoesOn
  BY SameKeyPlays, SameMatchSameKey
<1>2. MatchGoesOn
  BY DEF DirectorIInv, DirectorTypes, HalftimeInv, MatchGoesOn
<1> QED BY <1>1, <1>2

LEMMA OperatorKeepsCues ==
    ASSUME DirectorIInv,
           \/ RequestFails \/ OperatorResumes \/ ProductionStartsOrEnds
           \/ \E s \in {"waiting", "bp", "gameplay"} : OperatorHolds(s)
    PROVE  DirectorIInv'
<1>1. /\ cues' = cues /\ match' = match /\ played' = played
      /\ request' = request \/ request' = Superseded \/ request' = NoRequest
  BY DEF RequestFails, OperatorResumes, ProductionStartsOrEnds, OperatorHolds, surroundings,
     choreography
<1> QED BY <1>1, SameMatch, StillRequested, MatchKeeps DEF DirectorIInv

MovedTo(stage) ==
    /\ match' \in ObservedMatch /\ SameKey /\ match'.stage = stage
    /\ match'.half = (match.half \/ stage = "halftime") /\ match'.paused = match.paused

LEMMA StageMoves ==
    ASSUME match \in ObservedMatch, NEW stage \in Stages, NEW seconds \in Int,
           MatchMovesTo(stage, seconds)
    PROVE  MovedTo(stage) /\ match'.seconds = seconds
<1> DEFINE half == match.half \/ stage = "halftime"
<1>1. match' = [match EXCEPT !.stage = stage, !.seconds = seconds, !.half = half]
  BY DEF MatchMovesTo
<1>2. half \in BOOLEAN
  BY DEF ObservedMatch
<1> HIDE DEF half
<1>3. match' = [map |-> match.map, stage |-> stage, seconds |-> seconds, paused |-> match.paused,
                lost |-> match.lost, confirmed |-> match.confirmed, half |-> half,
                bpReady |-> match.bpReady, context |-> match.context,
                execution |-> match.execution]
  BY <1>1 DEF ObservedMatch
<1>4. match' \in ObservedMatch
  BY <1>2, <1>3 DEF ObservedMatch
<1>5. /\ match'.map = match.map /\ match'.stage = stage /\ match'.half = half
      /\ match'.confirmed = match.confirmed /\ match'.paused = match.paused
      /\ match'.lost = match.lost /\ match'.seconds = seconds
      /\ match'.context = match.context /\ match'.execution = match.execution
  BY <1>3
<1> QED BY <1>4, <1>5 DEF MovedTo, SameKey, half

LEMMA StageKeeps ==
    ASSUME DirectorIInv,
           \/ MatchPausesOrGoesOn \/ FirstFreezeBegins \/ HalftimeBegins
           \/ SecondFreezeBegins \/ PlayedMapEnds
    PROVE  DirectorIInv'
<1>1. cues' = cues /\ request' = request /\ played' = played
  BY DEF MatchPausesOrGoesOn, FirstFreezeBegins, HalftimeBegins, SecondFreezeBegins, PlayedMapEnds,
     MatchMovesTo, choreography
<1>2. match \in ObservedMatch /\ HalftimeInv /\ match.execution \in Nat
  BY DEF DirectorIInv, DirectorTypes, ObservedMatch
<1>3. ASSUME NEW stage \in Stages, NEW seconds \in Int, MatchMovesTo(stage, seconds)
      PROVE  MovedTo(stage) /\ match'.execution = match.execution
  <2>1. MovedTo(stage)
    BY <1>2, <1>3, StageMoves
  <2> QED BY <2>1 DEF MovedTo, SameKey
<1>4. ASSUME MatchPausesOrGoesOn PROVE MatchGoesOn /\ SameKey
  <2> DEFINE paused == ~match.paused
  <2>1. match' = [match EXCEPT !.paused = paused] /\ paused \in BOOLEAN
    BY <1>4 DEF MatchPausesOrGoesOn, ObservedMatch
  <2> HIDE DEF paused
  <2>2. /\ match' \in ObservedMatch /\ match'.half = match.half /\ match'.stage = match.stage
        /\ match'.execution = match.execution
    BY <1>2, <2>1 DEF ObservedMatch
  <2>3. SameKey
    BY <1>2, <2>1 DEF SameKey, ObservedMatch
  <2> QED BY <1>2, <2>2, <2>3 DEF MatchGoesOn, HalftimeInv
<1>5. ASSUME FirstFreezeBegins PROVE MatchGoesOn /\ SameKey
  <2>1. match.stage = "warmup" /\ MatchMovesTo("first freeze", FreezeLength)
    BY <1>5 DEF FirstFreezeBegins
  <2>2. FreezeLength \in Int /\ "first freeze" \in Stages
    BY DirectorBounds DEF Stages
  <2>3. MovedTo("first freeze") /\ match'.execution = match.execution
    BY <1>3, <2>1, <2>2
  <2> QED BY <1>2, <2>1, <2>3 DEF MatchGoesOn, HalftimeInv, MovedTo
<1>6. ASSUME HalftimeBegins PROVE MatchGoesOn /\ SameKey
  <2>1. MatchMovesTo("halftime", 0) /\ "halftime" \in Stages
    BY <1>6 DEF HalftimeBegins, Stages
  <2>2. 0 \in Int
    OBVIOUS
  <2>3. MovedTo("halftime") /\ match'.execution = match.execution
    BY <1>3, <2>1, <2>2
  <2> QED BY <2>1, <2>3 DEF MatchGoesOn, MovedTo
<1>7. ASSUME SecondFreezeBegins PROVE MatchGoesOn /\ SameKey
  <2>1. match.stage = "halftime" /\ MatchMovesTo("second freeze", Timings.halftimeLead + 1)
    BY <1>7 DEF SecondFreezeBegins
  <2>2. Timings.halftimeLead + 1 \in Int /\ "second freeze" \in Stages
    BY DirectorAssumption DEF Stages
  <2>3. MovedTo("second freeze") /\ match'.execution = match.execution
    BY <1>3, <2>1, <2>2
  <2> QED BY <1>2, <2>1, <2>3 DEF MatchGoesOn, HalftimeInv, MovedTo
<1>8. ASSUME PlayedMapEnds PROVE MatchGoesOn /\ SameKey
  <2>1. match.stage = "live" /\ MatchMovesTo("over", 0) /\ "over" \in Stages
    BY <1>8 DEF PlayedMapEnds, Stages
  <2>2. 0 \in Int
    OBVIOUS
  <2>3. MovedTo("over") /\ match'.execution = match.execution
    BY <1>3, <2>1, <2>2
  <2> QED BY <2>1, <2>3 DEF MatchGoesOn, MovedTo
<1>9. MatchGoesOn /\ SameKey
  BY <1>4, <1>5, <1>6, <1>7, <1>8
<1>10. PlayedGoesOn
  BY <1>1, <1>9, SameKeyPlays
<1> QED BY <1>1, <1>9, <1>10, StillRequested, MatchKeeps DEF DirectorIInv

\* What is lost, found again or replaced changes the key, or leaves what was played as it was.
LEMMA KeyChanges ==
    ASSUME DirectorIInv,
           \/ \E what \in Losses : SomethingIsLost(what)
           \/ LossEnds \/ ExecutionIsRenewed \/ ContextIsReplaced
    PROVE  /\ MatchGoesOn /\ PlayedGoesOn
           /\ match'.stage = match.stage /\ match'.paused = match.paused
           /\ \/ match'.execution = match.execution + 1
              \/ /\ match'.execution = match.execution
                 /\ match'.confirmed = match.confirmed
           /\ match'.confirmed => match.confirmed
           /\ \/ match'.map = match.map /\ match'.seconds = match.seconds
                 /\ match'.confirmed = match.confirmed
              \/ /\ match'.map \in 1..SeriesLength /\ ~match'.confirmed
                 /\ match'.seconds = IF match.stage = "over" THEN 0 ELSE match.seconds
<1>1. match \in ObservedMatch /\ HalftimeInv /\ LostInv /\ match.execution \in Nat
      /\ match.context \in Nat
  BY DEF DirectorIInv, DirectorTypes, ObservedMatch
<1>2. ASSUME NEW lost \in {"nothing"} \cup Losses, match' = [match EXCEPT !.lost = lost]
      PROVE  /\ match' \in ObservedMatch /\ match'.lost = lost
             /\ match'.stage = match.stage /\ match'.paused = match.paused
             /\ match'.half = match.half /\ match'.execution = match.execution
             /\ match'.confirmed = match.confirmed /\ match'.map = match.map
             /\ match'.seconds = match.seconds /\ match'.context = match.context
  BY <1>1, <1>2 DEF ObservedMatch
<1>3. CASE \E what \in Losses : SomethingIsLost(what)
  <2> PICK what \in Losses : SomethingIsLost(what)
    BY <1>3
  <2>1. /\ match.lost = "nothing" /\ match' = [match EXCEPT !.lost = what]
        /\ played' = CASE what = "context" -> {}
                       [] what = "assignment" -> played \cap {"bp"}
                       [] OTHER -> played
    BY DEF SomethingIsLost, Safe
  <2>2. /\ match' \in ObservedMatch /\ match'.lost = what
        /\ match'.stage = match.stage /\ match'.paused = match.paused
        /\ match'.half = match.half /\ match'.execution = match.execution
        /\ match'.confirmed = match.confirmed /\ match'.map = match.map
        /\ match'.seconds = match.seconds /\ match'.context = match.context
    BY <1>2, <2>1
  <2>3. MatchGoesOn
    BY <1>1, <2>2 DEF MatchGoesOn, HalftimeInv
  <2>4. PlayedGoesOn
    <3>1. CASE what = "context"
      <4>1. played' = {}
        BY <2>1, <3>1
      <4> QED BY <4>1 DEF PlayedGoesOn, LostInv
    <3>2. CASE what = "assignment"
      <4>1. played' = played \cap {"bp"}
        BY <2>1, <3>2
      <4>2. Key'.context = Key.context
        BY <2>1, <2>2, <3>2 DEF Key
      <4> QED BY <2>2, <3>2, <4>1, <4>2 DEF PlayedGoesOn, LostInv
    <3>3. CASE what \in {"trust", "telemetry"}
      <4>1. played' = played
        BY <2>1, <3>3
      <4>2. Key' = Key
        BY <2>1, <2>2, <3>3 DEF Key
      <4> QED BY <2>2, <3>3, <4>1, <4>2 DEF PlayedGoesOn, LostInv
    <3> QED BY <3>1, <3>2, <3>3 DEF Losses
  <2> QED BY <2>2, <2>3, <2>4
<1>4. CASE LossEnds
  <2>1. /\ match.lost \in {"trust", "assignment", "context"} /\ played' = played
        /\ match' = [match EXCEPT !.lost = "nothing"]
    BY <1>4 DEF LossEnds
  <2>2. /\ match' \in ObservedMatch /\ match'.lost = "nothing"
        /\ match'.stage = match.stage /\ match'.paused = match.paused
        /\ match'.half = match.half /\ match'.execution = match.execution
        /\ match'.confirmed = match.confirmed /\ match'.map = match.map
        /\ match'.seconds = match.seconds /\ match'.context = match.context
    BY <1>2, <2>1
  <2>3. MatchGoesOn
    BY <1>1, <2>2 DEF MatchGoesOn, HalftimeInv
  <2>4. PlayedGoesOn
    <3>1. CASE match.lost = "context"
      BY <1>1, <2>1, <2>2, <3>1 DEF PlayedGoesOn, LostInv
    <3>2. CASE match.lost = "assignment"
      <4>1. Key'.context = Key.context
        BY <2>2, <3>2 DEF Key
      <4> QED BY <1>1, <2>1, <2>2, <3>2, <4>1 DEF PlayedGoesOn, LostInv
    <3>3. CASE match.lost = "trust"
      <4>1. Key' = Key
        BY <2>2, <3>3 DEF Key
      <4> QED BY <2>1, <2>2, <4>1 DEF PlayedGoesOn, LostInv
    <3> QED BY <2>1, <3>1, <3>2, <3>3
  <2> QED BY <2>2, <2>3, <2>4
<1>5. CASE ExecutionIsRenewed
  <2> DEFINE next == match.execution + 1
  <2>1. /\ match.lost # "context" /\ played' = played \cap {"bp"}
        /\ match' = [match EXCEPT !.lost = "nothing", !.execution = next]
    BY <1>1, <1>5 DEF ExecutionIsRenewed, ObservedMatch
  <2>2. next \in Nat
    BY <1>1
  <2> HIDE DEF next
  <2>3. /\ match' \in ObservedMatch /\ match'.lost = "nothing"
        /\ match'.stage = match.stage /\ match'.paused = match.paused
        /\ match'.half = match.half /\ match'.execution = next
        /\ match'.confirmed = match.confirmed /\ match'.map = match.map
        /\ match'.seconds = match.seconds /\ match'.context = match.context
    BY <1>1, <2>1, <2>2 DEF ObservedMatch
  <2>4. MatchGoesOn
    BY <1>1, <2>3 DEF MatchGoesOn, HalftimeInv, next
  <2>5. Key'.context = Key.context
    BY <2>1, <2>3 DEF Key
  <2>6. PlayedGoesOn
    BY <2>1, <2>3, <2>5 DEF PlayedGoesOn, LostInv
  <2> QED BY <2>3, <2>4, <2>6 DEF next
<1>6. CASE ContextIsReplaced
  <2> DEFINE next == match.execution + 1
             another == match.context + 1
             seconds == IF match.stage = "over" THEN 0 ELSE match.seconds
  <2>1. PICK map \in 1..SeriesLength, ready \in BOOLEAN :
            match' = [match EXCEPT !.lost = "nothing", !.map = map, !.bpReady = ready,
                                   !.confirmed = FALSE, !.seconds = seconds,
                                   !.context = another, !.execution = next]
    BY <1>1, <1>6 DEF ContextIsReplaced, ObservedMatch
  <2>2. /\ next \in Nat
        /\ another \in Nat /\ map \in Nat
    BY <1>1, DirectorBounds
  <2>3. seconds \in Int
    BY <1>1 DEF ObservedMatch
  <2> HIDE DEF next, another, seconds
  <2>4. match' = [map |-> map, stage |-> match.stage, seconds |-> seconds,
                  paused |-> match.paused, lost |-> "nothing", confirmed |-> FALSE,
                  half |-> match.half, bpReady |-> ready, context |-> another,
                  execution |-> next]
    BY <1>1, <2>1 DEF ObservedMatch
  <2>5. match' \in ObservedMatch
    BY <1>1, <2>2, <2>3, <2>4 DEF ObservedMatch
  <2>6. /\ match'.lost = "nothing"
        /\ match'.stage = match.stage /\ match'.paused = match.paused
        /\ match'.half = match.half /\ match'.execution = next
        /\ ~match'.confirmed /\ match'.map = map /\ match'.seconds = seconds
    BY <2>4
  <2>7. MatchGoesOn
    BY <1>1, <2>5, <2>6 DEF MatchGoesOn, HalftimeInv, next
  <2>8. played' = {}
    BY <1>6 DEF ContextIsReplaced
  <2>9. PlayedGoesOn
    BY <2>8 DEF PlayedGoesOn, LostInv
  <2> QED BY <2>6, <2>7, <2>9 DEF next, seconds
<1> QED BY <1>3, <1>4, <1>5, <1>6

LEMMA KeyChangesKeep ==
    ASSUME DirectorIInv,
           \/ \E what \in Losses : SomethingIsLost(what)
           \/ LossEnds \/ ExecutionIsRenewed \/ ContextIsReplaced
    PROVE  DirectorIInv'
<1>1. cues' = cues /\ request' = request
  BY DEF SomethingIsLost, LossEnds, ExecutionIsRenewed, ContextIsReplaced, choreography
<1>2. MatchGoesOn /\ PlayedGoesOn
  BY KeyChanges
<1> QED BY <1>1, <1>2, StillRequested, MatchKeeps DEF DirectorIInv

LEMMA ResultKeeps ==
    ASSUME DirectorIInv, ResultIsConfirmed
    PROVE  DirectorIInv'
<1>1. /\ cues' = cues /\ request' = request /\ match' = [match EXCEPT !.confirmed = TRUE]
      /\ played' = IF match.map = SeriesLength THEN played \cap {"bp"} ELSE played
  BY DEF ResultIsConfirmed, choreography
<1>2. match \in ObservedMatch /\ HalftimeInv /\ LostInv /\ match.execution \in Nat
  BY DEF DirectorIInv, DirectorTypes, ObservedMatch
<1>3. /\ match' \in ObservedMatch /\ match'.lost = match.lost /\ match'.stage = match.stage
      /\ match'.half = match.half /\ match'.execution = match.execution
      /\ match'.map = match.map /\ match'.context = match.context
  BY <1>1, <1>2 DEF ObservedMatch
<1>4. MatchGoesOn
  BY <1>2, <1>3 DEF MatchGoesOn, HalftimeInv
<1>5. Key'.context = Key.context
  BY <1>3 DEF Key
<1>6. match.map # SeriesLength => Key' = Key
  BY <1>3 DEF Key
<1>7. PlayedGoesOn
  BY <1>1, <1>2, <1>3, <1>5, <1>6 DEF PlayedGoesOn, LostInv
<1> QED BY <1>1, <1>4, <1>7, StillRequested, MatchKeeps DEF DirectorIInv

LEMMA NextMapKeeps ==
    ASSUME DirectorIInv, NextMapBegins
    PROVE  /\ DirectorIInv'
           /\ match'.map = match.map + 1 /\ match'.stage = "warmup" /\ match'.seconds = 0
           /\ ~match'.confirmed /\ match'.execution = match.execution + 1
<1> DEFINE next == match.execution + 1
<1>1. match \in ObservedMatch /\ LostInv /\ match.execution \in Nat
  BY DEF DirectorIInv, DirectorTypes, ObservedMatch
<1>2. /\ cues' = cues /\ request' = request /\ played' = played \cap {"bp"}
      /\ match' = [match EXCEPT !.map = @ + 1, !.stage = "warmup", !.seconds = 0,
                                !.confirmed = FALSE, !.half = FALSE, !.execution = next]
  BY <1>1 DEF NextMapBegins, choreography, ObservedMatch
<1>3. next \in Nat
  BY <1>1
<1> HIDE DEF next
<1>4. match' = [map |-> match.map + 1, stage |-> "warmup", seconds |-> 0, paused |-> match.paused,
                lost |-> match.lost, confirmed |-> FALSE, half |-> FALSE,
                bpReady |-> match.bpReady, context |-> match.context, execution |-> next]
  BY <1>1, <1>2 DEF ObservedMatch
<1>5. match' \in ObservedMatch
  <2> DEFINE map == match.map + 1
  <2>1. map \in Nat /\ 0 \in Int
    BY <1>1 DEF ObservedMatch
  <2>2. "warmup" \in Stages
    BY DEF Stages
  <2>3. /\ match.paused \in BOOLEAN /\ match.lost \in {"nothing"} \cup Losses
        /\ match.bpReady \in BOOLEAN /\ match.context \in Nat
    BY <1>1 DEF ObservedMatch
  <2>4. match' = [map |-> map, stage |-> "warmup", seconds |-> 0, paused |-> match.paused,
                  lost |-> match.lost, confirmed |-> FALSE, half |-> FALSE,
                  bpReady |-> match.bpReady, context |-> match.context, execution |-> next]
    BY <1>4
  <2> HIDE DEF map
  <2> QED BY <1>3, <2>1, <2>2, <2>3, <2>4 DEF ObservedMatch
<1>6. /\ match'.map = match.map + 1 /\ match'.stage = "warmup" /\ match'.seconds = 0
      /\ ~match'.confirmed /\ ~match'.half /\ match'.lost = match.lost
      /\ match'.context = match.context /\ match'.execution = next
  BY <1>4
<1>7. MatchGoesOn
  BY <1>5, <1>6 DEF MatchGoesOn, next
<1>8. Key'.context = Key.context
  BY <1>6 DEF Key
<1>9. PlayedGoesOn
  BY <1>1, <1>2, <1>6, <1>8 DEF PlayedGoesOn, LostInv
<1>10. DirectorIInv'
  BY <1>2, <1>7, <1>9, StillRequested, MatchKeeps DEF DirectorIInv
<1> QED BY <1>6, <1>10 DEF next

LEMMA TimeKeeps ==
    ASSUME DirectorIInv, TimePasses
    PROVE  DirectorIInv'
<1>1. cues' = cues /\ played' = played
  BY DEF TimePasses
<1>2. RequestGoesOn
  <2>1. request' = IF request = NoRequest THEN request ELSE [request EXCEPT !.age = @ + 1]
    BY DEF TimePasses
  <2>2. request = NoRequest \/ request \in SceneRequests
    BY DEF DirectorIInv, DirectorTypes
  <2> QED BY <2>1, <2>2 DEF RequestGoesOn, SameRequest, SceneRequests
<1>3. match \in ObservedMatch /\ HalftimeInv /\ match.execution \in Nat
  BY DEF DirectorIInv, DirectorTypes, ObservedMatch
<1>4. \/ match' = match \/ match' = [match EXCEPT !.seconds = @ + 1]
      \/ /\ match.stage \in Freezes
         /\ match' = [match EXCEPT !.seconds = @ - 1,
                                   !.stage = IF match.seconds = 1 THEN "live" ELSE @]
  BY DEF TimePasses
<1>5. ASSUME match' = match PROVE MatchGoesOn /\ SameKey
  BY <1>1, <1>5, SameMatch, SameMatchSameKey
<1>6. ASSUME match' = [match EXCEPT !.seconds = @ + 1] PROVE MatchGoesOn /\ SameKey
  <2>1. /\ match' \in ObservedMatch /\ match'.half = match.half /\ match'.stage = match.stage
        /\ match'.execution = match.execution /\ SameKey
    BY <1>3, <1>6 DEF ObservedMatch, SameKey
  <2> QED BY <1>3, <2>1 DEF MatchGoesOn, HalftimeInv
<1>7. ASSUME match.stage \in Freezes,
             match' = [match EXCEPT !.seconds = @ - 1,
                                    !.stage = IF match.seconds = 1 THEN "live" ELSE @]
      PROVE  MatchGoesOn /\ SameKey
  <2>1. /\ match' \in ObservedMatch /\ SameKey /\ match'.half = match.half
        /\ match'.stage = match.stage \/ match'.stage = "live"
    <3> DEFINE stage == IF match.seconds = 1 THEN "live" ELSE match.stage
    <3>1. stage \in Stages /\ match.seconds - 1 \in Int /\ stage \in {match.stage, "live"}
      <4>1. "live" \in Stages
        BY DEF Stages
      <4>2. match.stage \in Stages /\ match.seconds \in Int
        BY <1>3 DEF ObservedMatch
      <4> QED BY <4>1, <4>2
    <3>2. match' = [match EXCEPT !.seconds = match.seconds - 1, !.stage = stage]
      BY <1>3, <1>7 DEF ObservedMatch
    <3> HIDE DEF stage
    <3>3. match' = [map |-> match.map, stage |-> stage, seconds |-> match.seconds - 1,
                    paused |-> match.paused, lost |-> match.lost, confirmed |-> match.confirmed,
                    half |-> match.half, bpReady |-> match.bpReady, context |-> match.context,
                    execution |-> match.execution]
      BY <1>3, <3>2 DEF ObservedMatch
    <3>4. match' \in ObservedMatch
      BY <1>3, <3>1, <3>3 DEF ObservedMatch
    <3>5. SameKey /\ match'.half = match.half /\ match'.stage = stage
      BY <3>3 DEF SameKey
    <3> QED BY <3>1, <3>4, <3>5
  <2>2. match'.execution = match.execution
    BY <2>1 DEF SameKey
  <2> QED BY <1>3, <2>1, <2>2 DEF MatchGoesOn, HalftimeInv
<1>8. MatchGoesOn /\ SameKey
  BY <1>4, <1>5, <1>6, <1>7
<1>9. PlayedGoesOn
  BY <1>1, <1>8, SameKeyPlays
<1> QED BY <1>1, <1>2, <1>8, <1>9, MatchKeeps

LEMMA DirectorNextIInv == DirectorIInv /\ [DirectorNext]_directorVars => DirectorIInv'
<1> SUFFICES ASSUME DirectorIInv, [DirectorNext]_directorVars PROVE DirectorIInv'
  OBVIOUS
<1>1. CASE UNCHANGED directorVars
  <2>1. cues' = cues /\ request' = request /\ played' = played /\ match' = match
    BY <1>1 DEF directorVars, choreography, surroundings
  <2> QED BY <2>1, SameMatch, StillRequested, MatchKeeps DEF DirectorIInv
<1>2. CASE DirectorTick
  BY <1>2, TickKeeps
<1>3. CASE RequestSucceeds
  BY <1>3, SuccessKeeps
<1>4. CASE \/ RequestFails \/ OperatorResumes \/ ProductionStartsOrEnds
           \/ \E s \in {"waiting", "bp", "gameplay"} : OperatorHolds(s)
  BY <1>4, OperatorKeepsCues
<1>5. CASE TimePasses
  BY <1>5, TimeKeeps
<1>6. CASE \/ MatchPausesOrGoesOn \/ FirstFreezeBegins \/ HalftimeBegins
           \/ SecondFreezeBegins \/ PlayedMapEnds
  BY <1>6, StageKeeps
<1>7. CASE NextMapBegins
  BY <1>7, NextMapKeeps
<1>8. CASE \/ \E what \in Losses : SomethingIsLost(what)
           \/ LossEnds \/ ExecutionIsRenewed \/ ContextIsReplaced
  BY <1>8, KeyChangesKeep
<1>9. CASE ResultIsConfirmed
  BY <1>9, ResultKeeps
<1> QED BY <1>1, <1>2, <1>3, <1>4, <1>5, <1>6, <1>7, <1>8, <1>9 DEF DirectorNext

\* Within one execution no opening after the HUD and no second result, and within one context no
\* second reveal in the warmup, go on air by themselves, for all timings, lengths of a series and
\* numbers of disturbances.
THEOREM PlayedOnce == DirectorSpec => NothingIsPlayedTwice
<1>1. DirectorInit => DirectorIInv
  BY DirectorInitIInv
<1>2. DirectorIInv /\ [DirectorNext]_directorVars => DirectorIInv'
  BY DirectorNextIInv
<1>3. DirectorIInv /\ [DirectorNext]_directorVars =>
          [RequestSucceeds =>
               LET s == request.target IN
               /\ s = "matchup" \/ request.final => "gameplay" \notin played
               /\ s = "map_result" => s \notin played
               /\ s = "bp" /\ ~request.final => s \notin played]_directorVars
  BY SuccessKeeps
<1> QED BY <1>1, <1>2, <1>3, PTL DEF DirectorSpec, NothingIsPlayedTwice

-----------------------------------------------------------------------------
(* How the director keeps time *)

Paces == [scene : SceneTargets, elapsed : Nat, warmup : Nat, since : 0..1, intro : Nat]
Controls == [manual : BOOLEAN, failed : BOOLEAN, was : BOOLEAN]

PaceTypes ==
    /\ onAir \in SceneTargets /\ reveal \in {"hidden", "revealing", "shown"}
    /\ pace \in Paces /\ control \in Controls
    /\ producing \in BOOLEAN /\ calm \in BOOLEAN
    /\ match.seconds \in Nat /\ match.map \in 1..SeriesLength
    /\ ~match.confirmed => (match.stage \in Freezes <=> match.seconds > 0)
    /\ match.confirmed => match.stage = "over"
    /\ request # NoRequest => request.age \in 0..SwitchTime /\ (control.manual => ~request.current)

\* The result of a map is shown after it was confirmed.
ShownInv ==
    cues.key.execution = match.execution =>
        /\ cues.resultShown => match.confirmed
        /\ request # NoRequest /\ request.target = "map_result" => match.confirmed

\* The director works by itself, and ticks in every unit in which no request is on its way.
CalmInv ==
    calm => /\ producing /\ control.was /\ ~control.manual /\ Safe /\ ~match.paused
            /\ request # NoRequest => (request.age = 0 <=> pace.since = 0)

\* How much of the first freeze is left: before the HUD is asked for, while something else is on
\* its way, while the HUD is on its way.
HudIsUp ==
    onAir = "gameplay" /\ request = NoRequest /\ cues.introFinished /\ cues.key = Key

HudIsDue ==
    /\ request = NoRequest
    /\ pace.since = 0 => match.seconds > Timings.hudLead \/ match.seconds = FreezeLength
    /\ pace.since # 0 => \/ match.seconds > Timings.hudLead - SwitchTime
                         \/ match.seconds >= FreezeLength - 1

OpeningOnItsWay ==
    /\ request # NoRequest /\ request.target # "gameplay"
    /\ match.seconds > Timings.hudLead - request.age

HudOnItsWay ==
    /\ request # NoRequest /\ request.target = "gameplay"
    /\ cues.introFinished /\ cues.key = Key
    /\ \/ match.seconds > Timings.hudLead - SwitchTime - request.age
       \/ match.seconds >= FreezeLength - 1 - request.age

Opening ==
    \/ HudIsUp
    \/ match.stage = "first freeze" /\ (HudIsDue \/ OpeningOnItsWay \/ HudOnItsWay)

FirstRound == ~match.half /\ match.stage \in {"first freeze", "live"}

OpeningInv == calm /\ ~control.failed /\ FirstRound => Opening

\* How long ago the result was confirmed: before it is asked for, while it is on its way, while it
\* is on air, while the summary is on its way.
ResultIsDue ==
    /\ request = NoRequest /\ match.seconds <= pace.since
    /\ cues.key = Key => ~cues.resultShown

ResultOnItsWay ==
    /\ request # NoRequest /\ request.target = "map_result" /\ cues.key = Key
    /\ match.seconds <= 1 + request.age

ResultOnAir ==
    /\ request = NoRequest /\ onAir = "map_result" /\ pace.scene = "map_result"
    /\ pace.elapsed < Timings.mapResult
    /\ match.seconds <= SwitchTime + pace.elapsed + pace.since

SummaryOnItsWay ==
    /\ request # NoRequest /\ request.target = Summary
    /\ match.seconds <= SwitchTime + Timings.mapResult + request.age

Closing ==
    \/ ResultIsDue \/ ResultOnItsWay
    \/ /\ cues.key = Key /\ cues.resultShown
       /\ ResultOnAir \/ SummaryOnItsWay \/ (onAir = Summary /\ request = NoRequest)

ClosingInv == calm /\ ~control.failed /\ match.confirmed => Closing

DirectorTimeInv == PaceTypes /\ ShownInv /\ CalmInv /\ OpeningInv /\ ClosingInv

LEMMA TimingTypes ==
    /\ Timings.hudLead \in Nat /\ Timings.mapResult \in Nat /\ Timings.intro \in Nat
    /\ Timings.shortIntro \in Nat /\ Timings.halftimeLead \in Nat
    /\ SwitchTime \in Nat /\ FreezeLength \in Nat /\ FreezeLength > 0
    /\ SeriesLength \in Nat /\ SeriesLength > 0
BY DirectorAssumption, DirectorBounds

LEMMA CountedTime ==
    ASSUME NEW time \in Nat, NEW ts, ts \subseteq DOMAIN Timings, ts # {}
    PROVE  /\ Counted(time, ts) \in Nat /\ Counted(time, ts) <= time
           /\ \A t \in ts : time < Timings[t] => Counted(time, ts) = time
           /\ \A t \in ts : time >= Timings[t] => Counted(time, ts) >= Timings[t]
<1>1. \A t \in ts : Timings[t] \in Nat
  BY DirectorAssumption
<1> QED BY <1>1 DEF Counted

LEMMA DirectorInitTime == DirectorInit => DirectorTimeInv
<1> SUFFICES ASSUME DirectorInit PROVE DirectorTimeInv
  OBVIOUS
<1> USE DEF DirectorInit
<1>1. /\ match.map = 1 /\ match.stage = "warmup" /\ match.seconds = 0 /\ ~match.confirmed
      /\ request = NoRequest /\ ~calm /\ ~cues.resultShown
  BY DEF FreshCues
<1>2. pace \in Paces /\ control \in Controls /\ onAir \in SceneTargets
  BY TimingTypes DEF Paces, Controls, SceneTargets
<1>3. producing \in BOOLEAN /\ calm \in BOOLEAN /\ reveal \in {"hidden", "revealing", "shown"}
  OBVIOUS
<1> HIDE DEF DirectorInit
<1>4. match.stage \notin Freezes /\ match.map \in 1..SeriesLength /\ match.seconds \in Nat
  BY <1>1, TimingTypes DEF Freezes
<1>5. PaceTypes
  BY <1>1, <1>2, <1>3, <1>4 DEF PaceTypes
<1>6. ShownInv
  BY <1>1 DEF ShownInv
<1>7. CalmInv /\ OpeningInv /\ ClosingInv
  BY <1>1 DEF CalmInv, OpeningInv, ClosingInv
<1> QED BY <1>5, <1>6, <1>7 DEF DirectorTimeInv

-----------------------------------------------------------------------------
(* The tick in time *)

TickElapsed(sofar, manual) ==
    Counted(sofar + (IF manual \/ match.paused THEN 0 ELSE pace.since),
            {"bpFinal", "intro", "shortIntro", "mapResult"})
TickWarmup(c, warmedup, manual) ==
    Counted(warmedup + (IF /\ match.stage = "warmup" /\ ~manual /\ onAir = "bp"
                           /\ reveal = "shown" /\ (c.warmupPlayed \/ ~match.bpReady)
                        THEN pace.since ELSE 0),
            {"warmupFinal"})
TickTarget(c, sofar, warmedup, manual) ==
    Target(c, TickElapsed(sofar, manual), TickWarmup(c, warmedup, manual))

\* What a tick that looks at the match does, in terms of its target.
TickDoes(c, manual, target, elapsed) ==
    LET final == target = "bp" /\ match.stage # "warmup"
        n == Noted(c, target, manual)
    IN  /\ pace' \in Paces /\ pace'.scene = onAir /\ pace'.since = 0
        /\ reveal' \in {"hidden", "revealing", "shown"}
        /\ \/ /\ target = NoScene \/ manual
              /\ cues' = n /\ request' = request /\ pace'.elapsed = elapsed
           \/ /\ target = onAir /\ ~manual
              /\ cues' = Reached(n, target, final) /\ request' = request
              /\ pace'.elapsed = IF cues' # n \/ final THEN 0 ELSE elapsed
           \/ /\ target # onAir /\ target # NoScene /\ ~manual
              /\ cues' = n /\ pace'.elapsed = elapsed
              /\ request' = [target |-> target, final |-> final, key |-> Key,
                             current |-> TRUE, age |-> 0]

LEMMA TickTimes ==
    ASSUME PaceTypes, NEW c, NEW sofar \in Nat, NEW warmedup \in Nat, NEW manual,
           TickAsks(c, sofar, warmedup, manual)
    PROVE  /\ TickDoes(c, manual, TickTarget(c, sofar, warmedup, manual),
                       TickElapsed(sofar, manual))
           /\ TickElapsed(sofar, manual) \in Nat
<1> DEFINE elapsed == TickElapsed(sofar, manual)
           warmup == TickWarmup(c, warmedup, manual)
           target == TickTarget(c, sofar, warmedup, manual)
           final == target = "bp" /\ match.stage # "warmup"
           n == Noted(c, target, manual)
           intro == IF target # "matchup" THEN pace.intro
                    ELSE IF Remaining >= Timings.intro + Timings.hudLead
                    THEN Timings.intro ELSE Timings.shortIntro
           timed == [pace EXCEPT !.scene = onAir, !.elapsed = elapsed, !.warmup = warmup,
                                 !.since = 0, !.intro = intro]
<1>1. pace \in Paces /\ onAir \in SceneTargets /\ pace.since \in Nat /\ pace.warmup \in Nat
  BY DEF PaceTypes, Paces
<1>2. elapsed \in Nat /\ warmup \in Nat
  <2>1. sofar + (IF manual \/ match.paused THEN 0 ELSE pace.since) \in Nat
    BY <1>1
  <2>2. warmedup + (IF /\ match.stage = "warmup" /\ ~manual /\ onAir = "bp"
                       /\ reveal = "shown" /\ (c.warmupPlayed \/ ~match.bpReady)
                    THEN pace.since ELSE 0) \in Nat
    BY <1>1
  <2>3. /\ {"bpFinal", "intro", "shortIntro", "mapResult"} \subseteq DOMAIN Timings
        /\ {"warmupFinal"} \subseteq DOMAIN Timings
    BY DirectorAssumption
  <2> QED BY <2>1, <2>2, <2>3, CountedTime DEF TickElapsed, TickWarmup
<1>3. intro \in Nat
  BY <1>1, TimingTypes DEF Paces
<1>4. \/ /\ target = NoScene \/ manual
         /\ cues' = n /\ pace' = timed /\ request' = request /\ reveal' = reveal
      \/ /\ target = onAir /\ ~manual
         /\ cues' = Reached(n, target, final)
         /\ pace' = [timed EXCEPT !.elapsed = IF cues' # n \/ final THEN 0 ELSE @]
         /\ reveal' = IF final THEN "shown" ELSE reveal
         /\ request' = request
      \/ /\ target # NoScene /\ target # onAir /\ ~manual
         /\ cues' = n /\ pace' = timed
         /\ request' = [target |-> target, final |-> final, key |-> Key,
                        current |-> TRUE, age |-> 0]
         /\ reveal' = IF final THEN "shown"
                      ELSE IF target = "bp" /\ reveal = "hidden" THEN "revealing" ELSE reveal
  <2> HIDE DEF n
  <2> QED BY DEF TickAsks, TickTarget, TickElapsed, TickWarmup, n
<1> HIDE DEF elapsed, warmup, target, n, intro
<1>5. timed = [scene |-> onAir, elapsed |-> elapsed, warmup |-> warmup, since |-> 0,
               intro |-> intro]
  <2>1. pace = [scene |-> pace.scene, elapsed |-> pace.elapsed, warmup |-> pace.warmup,
                since |-> pace.since, intro |-> pace.intro]
    BY <1>1 DEF Paces
  <2>2. timed = [pace EXCEPT !.scene = onAir, !.elapsed = elapsed, !.warmup = warmup,
                             !.since = 0, !.intro = intro]
    OBVIOUS
  <2> HIDE DEF timed
  <2> QED BY <2>1, <2>2
<1>6. /\ timed \in Paces /\ timed.scene = onAir /\ timed.since = 0 /\ timed.elapsed = elapsed
  BY <1>1, <1>2, <1>3, <1>5 DEF Paces
<1> HIDE DEF timed
<1>7. ASSUME NEW k \in Nat PROVE
          /\ [timed EXCEPT !.elapsed = k] \in Paces
          /\ [timed EXCEPT !.elapsed = k].scene = onAir
          /\ [timed EXCEPT !.elapsed = k].since = 0
          /\ [timed EXCEPT !.elapsed = k].elapsed = k
  BY <1>6 DEF Paces
<1>8. reveal' \in {"hidden", "revealing", "shown"}
  BY <1>4 DEF PaceTypes
<1>9. CASE /\ target = onAir /\ ~manual
           /\ cues' = Reached(n, target, final)
           /\ pace' = [timed EXCEPT !.elapsed = IF cues' # n \/ final THEN 0 ELSE @]
           /\ request' = request
  <2> DEFINE k == IF cues' # n \/ final THEN 0 ELSE elapsed
  <2>1. k \in Nat
    BY <1>2
  <2>2. pace' = [timed EXCEPT !.elapsed = k]
    BY <1>6, <1>9
  <2> HIDE DEF k
  <2>3. pace' \in Paces /\ pace'.scene = onAir /\ pace'.since = 0 /\ pace'.elapsed = k
    BY <1>7, <2>1, <2>2
  <2>4. TickDoes(c, manual, target, elapsed)
    BY <1>8, <1>9, <2>3 DEF TickDoes, k, n
  <2> QED BY <1>2, <2>4 DEF target, elapsed
<1>10. CASE /\ target = NoScene \/ manual
            /\ cues' = n /\ pace' = timed /\ request' = request
  <2>1. TickDoes(c, manual, target, elapsed)
    BY <1>6, <1>8, <1>10 DEF TickDoes, n
  <2> QED BY <1>2, <2>1 DEF target, elapsed
<1>11. CASE /\ target # NoScene /\ target # onAir /\ ~manual
            /\ cues' = n /\ pace' = timed
            /\ request' = [target |-> target, final |-> final, key |-> Key,
                           current |-> TRUE, age |-> 0]
  <2>1. TickDoes(c, manual, target, elapsed)
    BY <1>6, <1>8, <1>11 DEF TickDoes, n
  <2> QED BY <1>2, <2>1 DEF target, elapsed
<1> QED BY <1>4, <1>9, <1>10, <1>11

\* How long the scene on air has been timed.
TimedSoFar == IF cues.key # Key \/ onAir # pace.scene THEN 0 ELSE pace.elapsed
WarmedUp == IF SameContext THEN pace.warmup ELSE 0

\* A tick that nothing disturbs looks at the match.
LEMMA CalmTicks ==
    ASSUME PaceTypes, CalmInv, calm, ~control.failed, DirectorTick
    PROVE  LET c == CuesOfThisExecution IN
           /\ TickAsks(c, TimedSoFar, WarmedUp, FALSE) /\ TimedSoFar \in Nat /\ WarmedUp \in Nat
           /\ control' = [manual |-> FALSE, failed |-> FALSE, was |-> TRUE]
           /\ UNCHANGED <<onAir, surroundings, calm>>
<1> DEFINE c == CuesOfThisExecution
<1>1. producing /\ control.was /\ ~control.manual /\ Safe /\ ~match.paused
  BY DEF CalmInv
<1>2. ~Holds(c)
  BY <1>1 DEF Holds
<1>3. pace.elapsed \in Nat /\ pace.warmup \in Nat /\ producing = TRUE
  BY <1>1 DEF PaceTypes, Paces
<1>4. TimedSoFar \in Nat /\ WarmedUp \in Nat
  BY <1>3 DEF TimedSoFar, WarmedUp
<1> HIDE DEF c
<1>5. /\ TickAsks(c, TimedSoFar, WarmedUp, FALSE)
      /\ control' = [manual |-> FALSE, failed |-> FALSE, was |-> TRUE]
      /\ UNCHANGED <<onAir, surroundings, calm>>
  BY <1>1, <1>2, <1>3 DEF DirectorTick, TimedSoFar, WarmedUp, c
<1> QED BY <1>4, <1>5 DEF c

\* A result is asked for, and ticked off, after it was confirmed.
LEMMA TickShows ==
    ASSUME DirectorIInv, PaceTypes, ShownInv, NEW c \in Cues, c = CuesOfThisExecution,
           request = NoRequest, NEW sofar \in Nat, NEW warmedup \in Nat, NEW manual,
           TickAsks(c, sofar, warmedup, manual)
    PROVE  /\ cues'.resultShown => match.confirmed
           /\ \/ request' = NoRequest
              \/ /\ ~manual /\ request'.age = 0 /\ request'.current
                 /\ request'.target = "map_result" => match.confirmed
           /\ pace' \in Paces /\ pace'.since = 0
           /\ reveal' \in {"hidden", "revealing", "shown"}
<1> DEFINE target == TickTarget(c, sofar, warmedup, manual)
           elapsed == TickElapsed(sofar, manual)
           n == Noted(c, target, manual)
           final == target = "bp" /\ match.stage # "warmup"
<1>1. TickDoes(c, manual, target, elapsed)
  BY TickTimes
<1>2. target = "map_result" => match.confirmed
  BY WhatTargetsMean DEF TickTarget
<1>3. c.resultShown => match.confirmed
  BY CuesOfNow, KeyType DEF DirectorIInv, DirectorTypes, ShownInv
<1>4. n \in Cues /\ n.resultShown = c.resultShown
  BY NotedCues DEF DirectorIInv
<1>5. final \in BOOLEAN
  OBVIOUS
<1>6. Reached(n, target, final).resultShown => n.resultShown \/ target = "map_result"
  BY <1>4, <1>5, ReachedCues
<1> HIDE DEF target, elapsed
<1>7. /\ pace' \in Paces /\ pace'.since = 0 /\ reveal' \in {"hidden", "revealing", "shown"}
      /\ \/ cues' = n /\ request' = NoRequest
         \/ cues' = Reached(n, target, final) /\ request' = NoRequest
         \/ /\ cues' = n /\ ~manual
            /\ request' = [target |-> target, final |-> final, key |-> Key,
                           current |-> TRUE, age |-> 0]
  BY <1>1 DEF TickDoes
<1> HIDE DEF n, final
<1> QED BY <1>2, <1>3, <1>4, <1>6, <1>7

\* Every tick.
LEMMA TickPaces ==
    ASSUME DirectorIInv, DirectorTimeInv, DirectorTick
    PROVE  PaceTypes' /\ ShownInv' /\ CalmInv'
<1> DEFINE c == CuesOfThisExecution
           started == producing /\ ~control.was
           manual == control.manual /\ ~started
           failed == control.failed /\ ~started
<1>1. /\ PaceTypes /\ ShownInv /\ CalmInv /\ request = NoRequest /\ pace \in Paces
      /\ match' = match /\ producing' = producing /\ calm' = calm /\ onAir' = onAir
  BY DEF DirectorTimeInv, PaceTypes, DirectorTick, surroundings
<1>2. /\ c \in Cues /\ TimedSoFar \in Nat /\ WarmedUp \in Nat
  BY <1>1, CuesOfNow DEF DirectorIInv, TimedSoFar, WarmedUp, Paces
<1>3. /\ control' = [manual |-> manual, failed |-> failed, was |-> producing]
      /\ \/ pace' = [pace EXCEPT !.since = 0] /\ UNCHANGED <<cues, request, reveal>>
         \/ /\ cues' = c
            /\ pace' = [pace EXCEPT !.since = 0, !.scene = onAir, !.elapsed = TimedSoFar,
                                    !.warmup = WarmedUp]
            /\ UNCHANGED <<request, reveal>>
         \/ TickAsks(c, TimedSoFar, WarmedUp, manual)
  <2> HIDE DEF c
  <2> QED BY DEF DirectorTick, TimedSoFar, WarmedUp, c
<1>4. /\ manual \in BOOLEAN /\ failed \in BOOLEAN /\ producing \in BOOLEAN
      /\ control.was => manual = control.manual
  BY <1>1 DEF PaceTypes, Controls
<1> HIDE DEF manual, failed
<1>5. control' \in Controls /\ control'.manual = manual /\ control'.was = producing
  BY <1>3, <1>4 DEF Controls
<1>6. /\ pace' \in Paces /\ pace'.since = 0
      /\ reveal' \in {"hidden", "revealing", "shown"}
      /\ cues'.key.execution = match.execution /\ cues'.resultShown => match.confirmed
      /\ \/ request' = NoRequest
         \/ /\ ~manual /\ request'.age = 0 /\ request'.current
            /\ request'.target = "map_result" => match.confirmed
  <2>1. CASE pace' = [pace EXCEPT !.since = 0] /\ UNCHANGED <<cues, request, reveal>>
    BY <1>1, <2>1 DEF Paces, PaceTypes, ShownInv
  <2>2. CASE /\ cues' = c /\ UNCHANGED <<request, reveal>>
             /\ pace' = [pace EXCEPT !.since = 0, !.scene = onAir, !.elapsed = TimedSoFar,
                                     !.warmup = WarmedUp]
    <3>1. pace' \in Paces /\ pace'.since = 0
      <4>1. TimedSoFar \in Nat /\ WarmedUp \in Nat /\ onAir \in SceneTargets
        BY <1>1, <1>2 DEF PaceTypes
      <4>2. pace' = [pace EXCEPT !.since = 0, !.scene = onAir, !.elapsed = TimedSoFar,
                                 !.warmup = WarmedUp]
        BY <2>2
      <4>3. pace' = [scene |-> onAir, elapsed |-> TimedSoFar, warmup |-> WarmedUp, since |-> 0,
                     intro |-> pace.intro]
        BY <1>1, <4>2 DEF Paces
      <4> QED BY <1>1, <4>1, <4>3 DEF Paces
    <3>2. c.resultShown => match.confirmed
      BY <1>1, CuesOfNow, KeyType DEF DirectorIInv, DirectorTypes, ShownInv
    <3> HIDE DEF c
    <3> QED BY <1>1, <2>2, <3>1, <3>2 DEF PaceTypes
  <2>3. CASE TickAsks(c, TimedSoFar, WarmedUp, manual)
    BY <1>1, <1>2, <2>3, TickShows
  <2> QED BY <1>3, <2>1, <2>2, <2>3
<1>7. PaceTypes'
  BY <1>1, <1>5, <1>6, TimingTypes DEF PaceTypes
<1>8. ShownInv'
  BY <1>1, <1>6 DEF ShownInv
<1>9. CalmInv'
  BY <1>1, <1>4, <1>5, <1>6, SameMatchSameKey DEF CalmInv
<1> QED BY <1>7, <1>8, <1>9

\* In the opening.
LEMMA OpeningTick ==
    ASSUME DirectorIInv, DirectorTimeInv, PromptSwitches, DirectorTick, calm, ~control.failed,
           FirstRound
    PROVE  Opening'
<1> DEFINE c == CuesOfThisExecution
           target == TickTarget(c, TimedSoFar, WarmedUp, FALSE)
           elapsed == TickElapsed(TimedSoFar, FALSE)
           n == Noted(c, target, FALSE)
           final == target = "bp" /\ match.stage # "warmup"
<1>1. PaceTypes /\ CalmInv /\ Opening /\ request = NoRequest
  BY DEF DirectorTimeInv, OpeningInv, DirectorTick
<1>2. /\ TickAsks(c, TimedSoFar, WarmedUp, FALSE) /\ TimedSoFar \in Nat /\ WarmedUp \in Nat
      /\ UNCHANGED <<onAir, match, calm>> /\ Key' = Key /\ Summary' = Summary
  BY <1>1, CalmTicks, SameMatchSameKey DEF surroundings
<1>3. TickDoes(c, FALSE, target, elapsed)
  BY <1>1, <1>2, TickTimes
<1>4. /\ c \in Cues /\ c.key = Key /\ ~c.halftimeSeen
      /\ cues.key = Key => c.introFinished = cues.introFinished
  BY CuesOfNow DEF DirectorIInv, FirstRound
<1>5. ~IsHalftime /\ ~LeavingHalftime(c) /\ match.stage \notin {"over", "warmup", "halftime"}
  <2> HIDE DEF c
  <2> QED BY <1>4 DEF IsHalftime, LeavingHalftime, FirstRound
<1>6. target = IF FirstFreeze(c) THEN OpeningTarget(c, elapsed) ELSE "gameplay"
  <2> HIDE DEF c
  <2> QED BY <1>5 DEF Target, TickTarget, Freezes, FirstRound
<1>7. FirstFreeze(c) => match.seconds > Timings.hudLead /\ ~c.introFinished
  BY <1>1 DEF FirstFreeze, Remaining, CalmInv, Freezes
<1>8. /\ n \in Cues /\ n.key = Key
      /\ c.introFinished => n.introFinished
      /\ target = "gameplay" => n.introFinished
  <2>1. DirectorTypes /\ HalftimeInv
    BY DEF DirectorIInv
  <2> HIDE DEF c, target
  <2>2. /\ n \in Cues /\ n.key = c.key
        /\ c.introFinished => n.introFinished
        /\ target = "gameplay" /\ ~FALSE /\ ~LeavingHalftime(c) => n.introFinished
    <3>1. n \in Cues
      BY <1>4, <2>1, NotedCues
    <3>2. n.key = c.key
      BY <1>4 DEF Noted, Cues
    <3>3. c.introFinished => n.introFinished
      BY <1>4, <2>1, NotedCues
    <3>4. target = "gameplay" /\ ~FALSE /\ ~LeavingHalftime(c) => n.introFinished
      BY <1>4, <2>1, NotedCues
    <3> QED BY <3>1, <3>2, <3>3, <3>4
  <2> QED BY <1>4, <1>5, <2>2
<1>9. final \in BOOLEAN
  OBVIOUS
<1>10. LET k == Reached(n, target, final) IN k.key = n.key /\ k.introFinished = n.introFinished
  BY <1>8, <1>9, ReachedCues
<1> HIDE DEF target, elapsed, c
<1>11. /\ pace'.since = 0
       /\ \/ /\ target = NoScene
             /\ cues' = n /\ request' = NoRequest
          \/ /\ target = onAir
             /\ cues' = Reached(n, target, final) /\ request' = NoRequest
          \/ /\ target # NoScene
             /\ cues' = n
             /\ request' = [target |-> target, final |-> final, key |-> Key,
                            current |-> TRUE, age |-> 0]
  BY <1>1, <1>3 DEF TickDoes
<1> HIDE DEF n, final
<1>12. cues'.key = Key' /\ cues'.introFinished = n.introFinished
  BY <1>2, <1>8, <1>10, <1>11
<1>13. /\ match.seconds \in Nat /\ Timings.hudLead \in Nat
       /\ SwitchTime \in Nat /\ FreezeLength \in Nat
  BY <1>1, TimingTypes DEF PaceTypes
<1>14. HudIsDue =>
           match.seconds > Timings.hudLead - SwitchTime \/ match.seconds >= FreezeLength - 1
  BY <1>13 DEF HudIsDue
<1>15. ASSUME HudIsUp PROVE Opening'
  <2>1. target = "gameplay" /\ onAir = "gameplay"
    BY <1>4, <1>6, <1>7, <1>15 DEF HudIsUp
  <2>2. request' = NoRequest
    BY <1>3, <1>1, <2>1 DEF TickDoes, NoScene
  <2> QED BY <1>2, <1>8, <1>12, <2>1, <2>2 DEF Opening, HudIsUp
<1>16. ASSUME match.stage = "first freeze", HudIsDue PROVE Opening'
  <2>1. \/ match.seconds > Timings.hudLead - SwitchTime \/ match.seconds >= FreezeLength - 1
    BY <1>16, <1>14
  <2>2. CASE target = "gameplay" /\ request' = NoRequest
    <3>1. onAir = "gameplay"
      BY <1>11, <2>2 DEF NoScene, NoRequest
    <3> QED BY <1>2, <1>8, <1>12, <2>2, <3>1 DEF Opening, HudIsUp
  <2>3. CASE /\ target = "gameplay"
             /\ request' = [target |-> target, final |-> final, key |-> Key,
                            current |-> TRUE, age |-> 0]
    <3>1. request' # NoRequest /\ request'.target = "gameplay" /\ request'.age = 0
      BY <2>3, NoRequestIsNone DEF NoRequest, NoScene
    <3>2. \/ match.seconds > Timings.hudLead - SwitchTime - request'.age
          \/ match.seconds >= FreezeLength - 1 - request'.age
      BY <1>13, <2>1, <3>1
    <3>3. cues'.introFinished /\ cues'.key = Key' /\ match'.seconds = match.seconds
          /\ match'.stage = "first freeze"
      BY <1>2, <1>8, <1>12, <1>16, <2>3
    <3> QED BY <3>1, <3>2, <3>3 DEF Opening, HudOnItsWay
  <2>4. CASE target # "gameplay"
    <3>1. match.seconds > Timings.hudLead
      BY <1>6, <1>7, <2>4
    <3>2. CASE request' = NoRequest
      BY <1>2, <1>11, <1>16, <3>1, <3>2 DEF Opening, HudIsDue
    <3>3. CASE /\ target # NoScene
               /\ request' = [target |-> target, final |-> final, key |-> Key,
                            current |-> TRUE, age |-> 0]
      <4>1. request' # NoRequest /\ request'.target # "gameplay" /\ request'.age = 0
        BY <2>4, <3>3 DEF NoRequest, NoScene
      <4>2. match.seconds > Timings.hudLead - request'.age
        BY <1>13, <3>1, <4>1
      <4> QED BY <1>2, <1>16, <4>1, <4>2 DEF Opening, OpeningOnItsWay
    <3> QED BY <1>11, <3>2, <3>3
  <2> QED BY <1>11, <2>2, <2>3, <2>4 DEF NoScene
<1> QED BY <1>1, <1>15, <1>16 DEF Opening, OpeningOnItsWay, HudOnItsWay

\* A unit of time, as the match sees it.
LEMMA SecondsGo ==
    ASSUME match \in ObservedMatch, TimePasses
    PROVE  /\ SameKey /\ match'.paused = match.paused /\ match'.half = match.half
           /\ match.stage \in Freezes /\ ~match.paused =>
                 /\ match'.seconds = match.seconds - 1
                 /\ match'.stage = IF match.seconds = 1 THEN "live" ELSE match.stage
           /\ match.stage \notin Freezes \/ match.paused =>
                 /\ match'.stage = match.stage
                 /\ \/ match'.seconds = match.seconds
                    \/ match.confirmed /\ match'.seconds = match.seconds + 1
<1> DEFINE freeze == match.stage \in Freezes /\ ~match.paused
           stage == IF match.seconds = 1 THEN "live" ELSE match.stage
           grows == match.confirmed /\ calm /\ match.seconds <= ResultDeadline
<1>1. match' = IF freeze THEN [match EXCEPT !.seconds = match.seconds - 1, !.stage = stage]
               ELSE IF grows THEN [match EXCEPT !.seconds = match.seconds + 1]
               ELSE match
  BY DEF TimePasses, ObservedMatch
<1>2. grows => match.confirmed
  OBVIOUS
<1>3. CASE freeze
  <2> HIDE DEF stage
  <2>1. match' = [match EXCEPT !.seconds = match.seconds - 1, !.stage = stage]
    BY <1>1, <1>3
  <2>2. match' = [map |-> match.map, stage |-> stage, seconds |-> match.seconds - 1,
                  paused |-> match.paused, lost |-> match.lost, confirmed |-> match.confirmed,
                  half |-> match.half, bpReady |-> match.bpReady, context |-> match.context,
                  execution |-> match.execution]
    BY <2>1 DEF ObservedMatch
  <2> HIDE DEF freeze
  <2>3. /\ SameKey /\ match'.paused = match.paused /\ match'.half = match.half
        /\ match'.seconds = match.seconds - 1 /\ match'.stage = stage
    BY <2>2 DEF SameKey
  <2> QED BY <1>3, <2>3 DEF freeze, stage
<1>4. CASE ~freeze
  <2> HIDE DEF freeze, grows
  <2>1. \/ match' = match
        \/ grows /\ match' = [match EXCEPT !.seconds = match.seconds + 1]
    BY <1>1, <1>4
  <2>2. /\ SameKey /\ match'.paused = match.paused /\ match'.half = match.half
        /\ match'.stage = match.stage
        /\ \/ match'.seconds = match.seconds
           \/ grows /\ match'.seconds = match.seconds + 1
    BY <2>1 DEF ObservedMatch, SameKey
  <2> QED BY <1>2, <1>4, <2>2 DEF freeze
<1> QED BY <1>3, <1>4

\* A unit of time, as the request and the pace see it.
LEMMA AgesGo ==
    ASSUME DirectorTypes, PaceTypes, TimePasses
    PROVE  /\ pace' \in Paces /\ pace'.since = 1 /\ pace'.elapsed = pace.elapsed
           /\ pace'.scene = pace.scene
           /\ request = NoRequest => pace.since = 0 /\ request' = NoRequest
           /\ request # NoRequest =>
                 /\ request.age < SwitchTime /\ request.age \in Nat /\ request' # NoRequest
                 /\ request'.age = request.age + 1 /\ request'.target = request.target
                 /\ request'.current = request.current
<1>1. pace' = [pace EXCEPT !.since = 1] /\ pace \in Paces
  BY DEF TimePasses, PaceTypes
<1>2. pace' \in Paces /\ pace'.since = 1 /\ pace'.elapsed = pace.elapsed /\ pace'.scene = pace.scene
  BY <1>1 DEF Paces
<1>3. request = NoRequest => pace.since = 0 /\ request' = NoRequest
  BY DEF TimePasses
<1>4. ASSUME request # NoRequest
      PROVE  /\ request.age < SwitchTime /\ request.age \in Nat /\ request' # NoRequest
             /\ request'.age = request.age + 1 /\ request'.target = request.target
             /\ request'.current = request.current
  <2>1. request.age < SwitchTime /\ request' = [request EXCEPT !.age = request.age + 1]
    BY <1>4 DEF TimePasses, DirectorTypes, SceneRequests
  <2>2. request \in SceneRequests
    BY <1>4 DEF DirectorTypes
  <2>3. /\ request.age \in Nat /\ request' \in SceneRequests
        /\ request'.age = request.age + 1 /\ request'.target = request.target
        /\ request'.current = request.current
    BY <2>1, <2>2 DEF SceneRequests
  <2> QED BY <2>1, <2>3, NoRequestIsNone
<1> QED BY <1>2, <1>3, <1>4

LEMMA PromptFacts ==
    ASSUME PromptSwitches
    PROVE  /\ SwitchTime \in Nat /\ FreezeLength \in Nat /\ Timings.hudLead \in Nat
           /\ Timings.mapResult \in Nat
           /\ SwitchTime >= 1 /\ Timings.hudLead >= SwitchTime + SwitchTime
           /\ FreezeLength >= SwitchTime + 2 /\ Timings.mapResult >= 1
BY TimingTypes DEF PromptSwitches

LEMMA OpeningTime ==
    ASSUME DirectorTypes, PaceTypes, CalmInv, PromptSwitches, Opening, TimePasses, calm, FirstRound
    PROVE  Opening'
<1> DEFINE lead == Timings.hudLead
           s == match.seconds
<1>1. /\ Key' = Key
      /\ match.stage = "first freeze" =>
             /\ match'.seconds = s - 1
             /\ s # 1 => match'.stage = "first freeze"
  BY SecondsGo, KeyStays DEF DirectorTypes, CalmInv, Freezes
<1>2. /\ pace'.since = 1
      /\ request = NoRequest => pace.since = 0 /\ request' = NoRequest
      /\ request # NoRequest =>
             /\ request.age < SwitchTime /\ request.age \in Nat /\ request' # NoRequest
             /\ request'.age = request.age + 1 /\ request'.target = request.target
  BY AgesGo
<1>3. onAir' = onAir /\ cues' = cues
  BY DEF TimePasses
<1>4. s \in Nat
  BY DEF PaceTypes
<1>5. CASE HudIsUp
  BY <1>1, <1>2, <1>3, <1>5 DEF Opening, HudIsUp
<1> DEFINE first == match.stage = "first freeze"
<1> HIDE DEF first, s, lead
<1>6. HudIsDue => /\ s - 1 > lead - SwitchTime \/ s - 1 >= FreezeLength - 1
                  /\ s # 1
  BY <1>2, <1>4, PromptFacts DEF HudIsDue, s, lead
<1>7. OpeningOnItsWay => s - 1 > lead - (request.age + 1) /\ s # 1
  BY <1>2, <1>4, PromptFacts DEF OpeningOnItsWay, s, lead
<1>8. HudOnItsWay => /\ \/ s - 1 > lead - SwitchTime - (request.age + 1)
                        \/ s - 1 >= FreezeLength - 1 - (request.age + 1)
                     /\ s # 1
  BY <1>2, <1>4, PromptFacts DEF HudOnItsWay, s, lead
<1>9. CASE first /\ HudIsDue
  <2>1. request' = NoRequest /\ pace'.since # 0
    BY <1>2, <1>9 DEF HudIsDue
  <2>2. match'.stage = "first freeze" /\ match'.seconds = s - 1
    BY <1>1, <1>6, <1>9 DEF first, s
  <2> QED BY <1>6, <1>9, <2>1, <2>2 DEF Opening, HudIsDue, lead
<1>10. CASE first /\ OpeningOnItsWay
  <2>1. request' # NoRequest /\ request'.target # "gameplay" /\ request'.age = request.age + 1
    BY <1>2, <1>10 DEF OpeningOnItsWay
  <2>2. match'.stage = "first freeze" /\ match'.seconds = s - 1
    BY <1>1, <1>7, <1>10 DEF first, s
  <2> QED BY <1>7, <1>10, <2>1, <2>2 DEF Opening, OpeningOnItsWay, lead
<1>11. CASE first /\ HudOnItsWay
  <2>1. /\ request' # NoRequest /\ request'.target = "gameplay" /\ request'.age = request.age + 1
        /\ cues'.introFinished /\ cues'.key = Key'
    BY <1>1, <1>2, <1>3, <1>11 DEF HudOnItsWay
  <2>2. match'.stage = "first freeze" /\ match'.seconds = s - 1
    BY <1>1, <1>8, <1>11 DEF first, s
  <2> QED BY <1>8, <1>11, <2>1, <2>2 DEF Opening, HudOnItsWay, lead
<1> QED BY <1>5, <1>9, <1>10, <1>11 DEF Opening, first

LEMMA OpeningSuccess ==
    ASSUME DirectorIInv, PaceTypes, CalmInv, PromptSwitches, Opening, RequestSucceeds, calm
    PROVE  Opening'
<1>1. /\ request # NoRequest /\ onAir' = request.target /\ request' = NoRequest /\ match' = match
      /\ cues' = Reached(cues, request.target, request.final) /\ request.final \in BOOLEAN
      /\ cues \in Cues /\ Key' = Key /\ Summary' = Summary
  BY SameMatchSameKey DEF RequestSucceeds, surroundings, DirectorIInv, DirectorTypes, SceneRequests
<1>2. cues'.key = cues.key /\ cues'.introFinished = cues.introFinished
  BY <1>1, ReachedCues
<1>3. pace' = [pace EXCEPT !.scene = request.target, !.elapsed = 0,
                           !.warmup = IF request.target = "bp" /\ ~request.final THEN 0 ELSE @]
  BY DEF RequestSucceeds
<1>4. pace'.since = pace.since
  BY <1>3 DEF PaceTypes, Paces
<1>5. /\ request.age \in Nat /\ request.age <= SwitchTime
      /\ request.age = 0 <=> pace.since = 0
      /\ match.seconds \in Nat
  BY <1>1, TimingTypes DEF PaceTypes, CalmInv
<1>6. CASE match.stage = "first freeze" /\ HudOnItsWay
  BY <1>1, <1>2, <1>6 DEF Opening, HudOnItsWay, HudIsUp
<1>7. OpeningOnItsWay =>
          /\ pace.since = 0 => match.seconds > Timings.hudLead
          /\ pace.since # 0 => match.seconds > Timings.hudLead - SwitchTime
  BY <1>5, PromptFacts DEF OpeningOnItsWay
<1>8. CASE match.stage = "first freeze" /\ OpeningOnItsWay
  BY <1>1, <1>4, <1>7, <1>8 DEF Opening, HudIsDue
<1> QED BY <1>1, <1>6, <1>8 DEF Opening, HudIsUp, HudIsDue

\* When the result is confirmed.
LEMMA ClosingTick ==
    ASSUME DirectorIInv, DirectorTimeInv, PromptSwitches, DirectorTick, calm, ~control.failed,
           match.confirmed
    PROVE  Closing'
<1> DEFINE c == CuesOfThisExecution
           target == TickTarget(c, TimedSoFar, WarmedUp, FALSE)
           elapsed == TickElapsed(TimedSoFar, FALSE)
           n == Noted(c, target, FALSE)
           k == Reached(n, target, FALSE)
           time == TimedSoFar + pace.since
<1>1. PaceTypes /\ CalmInv /\ Closing /\ request = NoRequest /\ match.stage = "over"
  BY DEF DirectorTimeInv, ClosingInv, DirectorTick, PaceTypes
<1>2. /\ TickAsks(c, TimedSoFar, WarmedUp, FALSE) /\ TimedSoFar \in Nat /\ WarmedUp \in Nat
      /\ UNCHANGED <<onAir, match, calm>> /\ Key' = Key /\ Summary' = Summary
  BY <1>1, CalmTicks, SameMatchSameKey DEF surroundings
<1>3. TickDoes(c, FALSE, target, elapsed) /\ elapsed \in Nat
  BY <1>1, <1>2, TickTimes
<1>4. /\ c \in Cues /\ c.key = Key
      /\ cues.key = Key => c.resultShown = cues.resultShown
      /\ cues.key # Key => ~c.resultShown
  BY CuesOfNow DEF DirectorIInv
<1>5. target = IF ~c.resultShown THEN "map_result"
               ELSE IF onAir = "map_result" /\ elapsed >= Timings.mapResult THEN Summary
               ELSE NoScene
  <2> HIDE DEF c
  <2> QED BY <1>1 DEF Target, TickTarget, Freezes
<1>6. n \in Cues /\ n.key = Key /\ n.resultShown = c.resultShown
  <2>1. DirectorTypes /\ HalftimeInv
    BY DEF DirectorIInv
  <2> HIDE DEF c, target
  <2>2. n \in Cues
    BY <1>4, <2>1, NotedCues
  <2>3. n.key = c.key /\ n.resultShown = c.resultShown
    BY <1>4 DEF Noted, Cues
  <2> QED BY <1>4, <2>2, <2>3
<1>7. /\ k.key = n.key
      /\ n.resultShown => k.resultShown
      /\ target = "map_result" => k.resultShown
  <2> HIDE DEF n, target
  <2> QED BY <1>6, ReachedCues
<1>8. target # "bp"
  BY <1>5 DEF NoScene, Summary
<1> HIDE DEF target
<1>9. /\ pace'.since = 0 /\ pace'.scene = onAir
      /\ \/ /\ target = NoScene
            /\ cues' = n /\ request' = NoRequest /\ pace'.elapsed = elapsed
         \/ /\ target = onAir /\ cues' = k /\ request' = NoRequest
            /\ pace'.elapsed = IF cues' # n THEN 0 ELSE elapsed
         \/ /\ target # onAir /\ target # NoScene /\ cues' = n
            /\ request' = [target |-> target, final |-> FALSE, key |-> Key,
                           current |-> TRUE, age |-> 0]
  <2> HIDE DEF n, c, elapsed
  <2> QED BY <1>1, <1>3, <1>8 DEF TickDoes, n
<1>10. /\ time \in Nat /\ elapsed <= time
       /\ time < Timings.mapResult => elapsed = time
       /\ time >= Timings.mapResult => elapsed >= Timings.mapResult
  <2>1. time \in Nat
    BY <1>1, <1>2 DEF PaceTypes, Paces
  <2>2. elapsed = Counted(time, {"bpFinal", "intro", "shortIntro", "mapResult"})
    BY <1>1 DEF TickElapsed, CalmInv
  <2>3. {"bpFinal", "intro", "shortIntro", "mapResult"} \subseteq DOMAIN Timings
    BY DirectorAssumption
  <2> HIDE DEF time, elapsed
  <2> QED BY <2>1, <2>2, <2>3, CountedTime
<1> HIDE DEF n, k
<1>11. cues'.key = Key' /\ (n.resultShown => cues'.resultShown)
  BY <1>2, <1>6, <1>7, <1>9
<1>12. /\ match.seconds \in Nat /\ pace.since \in 0..1 /\ pace.elapsed \in Nat
       /\ match'.seconds = match.seconds /\ Summary' = Summary
  BY <1>1, <1>2 DEF PaceTypes, Paces, Summary
<1>13. ASSUME ResultIsDue PROVE Closing'
  <2>1. target = "map_result" /\ ~c.resultShown
    BY <1>4, <1>5, <1>13 DEF ResultIsDue
  <2>2. match.seconds <= pace.since
    BY <1>13 DEF ResultIsDue
  <2>3. CASE target = onAir /\ cues' = k /\ request' = NoRequest
    <3>1. cues'.resultShown /\ cues' # n
      BY <1>6, <1>7, <2>1, <2>3
    <3>2. pace'.elapsed = 0 /\ pace'.since = 0 /\ pace'.scene = "map_result"
      BY <1>9, <2>1, <2>3, <3>1 DEF NoScene
    <3>3. pace'.elapsed < Timings.mapResult
      BY <3>2, PromptFacts
    <3>4. match'.seconds <= SwitchTime + pace'.elapsed + pace'.since
      BY <1>12, <2>2, <3>2, PromptFacts
    <3> QED BY <1>2, <1>11, <2>1, <2>3, <3>1, <3>2, <3>3, <3>4 DEF Closing, ResultOnAir
  <2>4. CASE request' = [target |-> target, final |-> FALSE, key |-> Key,
                         current |-> TRUE, age |-> 0]
    <3>1. request' # NoRequest /\ request'.target = "map_result" /\ request'.age = 0
      BY <2>1, <2>4 DEF NoRequest, NoScene
    <3>2. match'.seconds <= 1 + request'.age
      BY <1>12, <2>2, <3>1
    <3> QED BY <1>11, <3>1, <3>2 DEF Closing, ResultOnItsWay
  <2> QED BY <1>9, <2>1, <2>3, <2>4 DEF NoScene
<1>14. ASSUME cues.key = Key, cues.resultShown, ResultOnAir PROVE Closing'
  <2>1. /\ n.resultShown /\ cues'.resultShown /\ c.resultShown
        /\ onAir = "map_result" /\ pace.scene = "map_result"
    BY <1>4, <1>6, <1>11, <1>14 DEF ResultOnAir
  <2>2. time = pace.elapsed + pace.since
    BY <1>4, <1>14, <2>1 DEF TimedSoFar
  <2>3. /\ pace.elapsed < Timings.mapResult
        /\ match.seconds <= SwitchTime + pace.elapsed + pace.since
    BY <1>14 DEF ResultOnAir
  <2>4. CASE elapsed >= Timings.mapResult
    <3>1. target = Summary /\ target # onAir /\ target # NoScene /\ target # "map_result"
      BY <1>5, <2>1, <2>4 DEF Summary, NoScene
    <3>2. request' = [target |-> target, final |-> FALSE, key |-> Key,
                      current |-> TRUE, age |-> 0]
      BY <1>9, <3>1
    <3>3. request' # NoRequest /\ request'.target = Summary' /\ request'.age = 0
      BY <1>12, <3>1, <3>2 DEF NoRequest
    <3>4. match'.seconds <= SwitchTime + Timings.mapResult + request'.age
      BY <1>12, <2>3, <3>3, PromptFacts
    <3> QED BY <1>11, <2>1, <3>3, <3>4 DEF Closing, SummaryOnItsWay
  <2>5. CASE ~(elapsed >= Timings.mapResult)
    <3>1. target = NoScene
      BY <1>5, <2>1, <2>5
    <3>2. elapsed = time /\ elapsed < Timings.mapResult
      <4> HIDE DEF elapsed, time
      <4> QED BY <1>3, <1>10, <2>5, PromptFacts
    <3>3. /\ request' = NoRequest /\ pace'.elapsed = elapsed /\ pace'.since = 0
          /\ pace'.scene = onAir
      BY <1>1, <1>2, <1>9, <3>1, <2>1 DEF NoScene, NoRequest
    <3>4. match'.seconds <= SwitchTime + pace'.elapsed + pace'.since
      <4>1. match'.seconds <= SwitchTime + time /\ pace'.elapsed = time /\ pace'.since = 0
        <5>1. pace'.elapsed = time /\ pace'.since = 0
          <6> HIDE DEF elapsed, time
          <6> QED BY <3>2, <3>3
        <5>2. match'.seconds <= SwitchTime + time
          BY <1>12, <2>2, <2>3, PromptFacts
        <5> QED BY <5>1, <5>2
      <4> HIDE DEF time, elapsed
      <4> QED BY <1>10, <4>1, PromptFacts
    <3> QED BY <1>2, <1>11, <2>1, <3>2, <3>3, <3>4 DEF Closing, ResultOnAir
  <2> QED BY <2>4, <2>5
<1>15. ASSUME cues.key = Key, cues.resultShown, onAir = Summary PROVE Closing'
  <2>1. n.resultShown /\ cues'.resultShown /\ c.resultShown
    BY <1>4, <1>6, <1>11, <1>15
  <2>2. onAir # "map_result" /\ onAir # NoScene
    BY <1>15 DEF Summary, NoScene
  <2>3. target = NoScene
    BY <1>5, <2>1, <2>2
  <2>4. request' = NoRequest
    BY <1>3, <1>1, <2>2, <2>3 DEF TickDoes, target
  <2> QED BY <1>2, <1>11, <1>12, <1>15, <2>1, <2>4 DEF Closing
<1> QED BY <1>1, <1>13, <1>14, <1>15 DEF Closing, ResultOnItsWay, SummaryOnItsWay

LEMMA ClosingTime ==
    ASSUME DirectorTypes, PaceTypes, CalmInv, PromptSwitches, Closing, TimePasses, calm,
           match.confirmed
    PROVE  Closing'
<1>1. /\ Key' = Key /\ match'.map = match.map
      /\ match'.seconds \in {match.seconds, match.seconds + 1}
  BY SecondsGo, KeyStays DEF DirectorTypes, PaceTypes, Freezes, SameKey
<1>2. /\ pace'.since = 1 /\ pace'.elapsed = pace.elapsed /\ pace'.scene = pace.scene
      /\ request = NoRequest => pace.since = 0 /\ request' = NoRequest
      /\ request # NoRequest =>
             /\ request.age \in Nat /\ request' # NoRequest
             /\ request'.age = request.age + 1 /\ request'.target = request.target
  BY AgesGo
<1>3. onAir' = onAir /\ cues' = cues
  BY DEF TimePasses
<1>4. match.seconds \in Nat /\ pace.elapsed \in Nat
  BY DEF PaceTypes, Paces
<1>5. Summary' = Summary
  BY <1>1 DEF Summary
<1>6. CASE ResultIsDue
  <2>1. request' = NoRequest /\ match'.seconds <= pace'.since
    BY <1>1, <1>2, <1>4, <1>6 DEF ResultIsDue
  <2> QED BY <1>1, <1>3, <1>6, <2>1 DEF Closing, ResultIsDue
<1>7. CASE ResultOnItsWay
  <2>1. match.seconds <= 1 + request.age /\ request # NoRequest
    BY <1>7 DEF ResultOnItsWay
  <2>2. match'.seconds <= 1 + request'.age
    BY <1>1, <1>2, <1>4, <2>1
  <2> QED BY <1>1, <1>2, <1>3, <1>7, <2>2 DEF Closing, ResultOnItsWay
<1>8. CASE cues.key = Key /\ cues.resultShown /\ ResultOnAir
  <2>1. match.seconds <= SwitchTime + pace.elapsed + pace.since /\ request = NoRequest
    BY <1>8 DEF ResultOnAir
  <2>2. match'.seconds <= SwitchTime + pace'.elapsed + pace'.since
    BY <1>1, <1>2, <1>4, <2>1, TimingTypes
  <2> QED BY <1>1, <1>2, <1>3, <1>8, <2>1, <2>2 DEF Closing, ResultOnAir
<1>9. CASE cues.key = Key /\ cues.resultShown /\ SummaryOnItsWay
  <2>1. match.seconds <= SwitchTime + Timings.mapResult + request.age /\ request # NoRequest
    BY <1>9 DEF SummaryOnItsWay
  <2>2. match'.seconds <= SwitchTime + Timings.mapResult + request'.age
    BY <1>1, <1>2, <1>4, <2>1, TimingTypes
  <2> QED BY <1>1, <1>2, <1>3, <1>5, <1>9, <2>1, <2>2 DEF Closing, SummaryOnItsWay
<1>10. CASE cues.key = Key /\ cues.resultShown /\ onAir = Summary /\ request = NoRequest
  BY <1>1, <1>2, <1>3, <1>5, <1>10 DEF Closing
<1> QED BY <1>6, <1>7, <1>8, <1>9, <1>10 DEF Closing

LEMMA ClosingSuccess ==
    ASSUME DirectorIInv, PaceTypes, CalmInv, PromptSwitches, Closing, RequestSucceeds, calm
    PROVE  Closing'
<1>1. /\ request # NoRequest /\ onAir' = request.target /\ request' = NoRequest /\ match' = match
      /\ cues' = Reached(cues, request.target, request.final) /\ request.final \in BOOLEAN
      /\ cues \in Cues /\ Key' = Key /\ Summary' = Summary
  BY SameMatchSameKey DEF RequestSucceeds, surroundings, DirectorIInv, DirectorTypes, SceneRequests
<1>2. /\ cues'.key = cues.key
      /\ cues.resultShown => cues'.resultShown
      /\ request.target = "map_result" => cues'.resultShown
  BY <1>1, ReachedCues
<1>3. pace' = [pace EXCEPT !.scene = request.target, !.elapsed = 0,
                           !.warmup = IF request.target = "bp" /\ ~request.final THEN 0 ELSE @]
  BY DEF RequestSucceeds
<1>4. pace'.since = pace.since /\ pace'.scene = request.target /\ pace'.elapsed = 0
  BY <1>3 DEF PaceTypes, Paces
<1>5. /\ request.age \in Nat /\ request.age <= SwitchTime
      /\ request.age = 0 <=> pace.since = 0
      /\ match.seconds \in Nat /\ pace.since \in 0..1
  BY <1>1, TimingTypes DEF PaceTypes, CalmInv, Paces
<1>6. Summary' = Summary
  BY <1>1 DEF Summary
<1>7. ResultOnItsWay => match.seconds <= SwitchTime + 0 + pace.since
  BY <1>5, PromptFacts DEF ResultOnItsWay
<1>8. CASE ResultOnItsWay
  <2>1. /\ onAir' = "map_result" /\ pace'.scene = "map_result"
        /\ cues'.key = Key' /\ cues'.resultShown
    BY <1>1, <1>2, <1>4, <1>8 DEF ResultOnItsWay
  <2>2. pace'.elapsed < Timings.mapResult
    BY <1>4, PromptFacts
  <2>3. match'.seconds <= SwitchTime + pace'.elapsed + pace'.since
    BY <1>1, <1>4, <1>7, <1>8
  <2> QED BY <1>1, <2>1, <2>2, <2>3 DEF Closing, ResultOnAir
<1>9. CASE cues.key = Key /\ cues.resultShown /\ SummaryOnItsWay
  BY <1>1, <1>2, <1>6, <1>9 DEF Closing, SummaryOnItsWay
<1> QED BY <1>1, <1>8, <1>9 DEF Closing, ResultIsDue, ResultOnAir

-----------------------------------------------------------------------------
(* Every step in time *)

LEMMA TickTime ==
    ASSUME DirectorIInv, DirectorTimeInv, PromptSwitches, DirectorTick
    PROVE  DirectorTimeInv'
<1>1. match' = match /\ calm' = calm
  BY DEF DirectorTick, surroundings
<1>2. calm /\ ~control'.failed => ~control.failed
  <2>1. calm => control.was
    BY DEF DirectorTimeInv, CalmInv
  <2>2. control'.failed = (control.failed /\ ~(producing /\ ~control.was))
    BY DEF DirectorTick
  <2> QED BY <2>1, <2>2
<1>3. OpeningInv'
  BY <1>1, <1>2, OpeningTick DEF OpeningInv, FirstRound
<1>4. ClosingInv'
  BY <1>1, <1>2, ClosingTick DEF ClosingInv
<1> QED BY <1>3, <1>4, TickPaces DEF DirectorTimeInv

LEMMA ShownStays ==
    ASSUME ShownInv, cues' = cues, match'.execution = match.execution,
           match.confirmed => match'.confirmed,
           request' = NoRequest \/ (request # NoRequest /\ request'.target = request.target)
    PROVE  ShownInv'
BY DEF ShownInv

LEMMA SuccessTime ==
    ASSUME DirectorIInv, DirectorTimeInv, PromptSwitches, RequestSucceeds
    PROVE  DirectorTimeInv'
<1>1. /\ request # NoRequest /\ onAir' = request.target /\ request' = NoRequest
      /\ match' = match /\ calm' = calm /\ control' = control /\ producing' = producing
      /\ cues' = Reached(cues, request.target, request.final) /\ request \in SceneRequests
      /\ cues \in Cues /\ (Safe' <=> Safe)
  BY SameMatchSameKey DEF RequestSucceeds, RequestIsValid, surroundings, DirectorIInv, DirectorTypes
<1>2. request.final \in BOOLEAN /\ request.target \in SceneTargets
  BY <1>1 DEF SceneRequests
<1>3. /\ cues'.key = cues.key
      /\ cues'.resultShown => cues.resultShown \/ request.target = "map_result"
  BY <1>1, <1>2, ReachedCues
<1>4. pace' \in Paces /\ pace'.since = pace.since
  <2> DEFINE warmup == IF request.target = "bp" /\ ~request.final THEN 0 ELSE pace.warmup
  <2>1. pace \in Paces
    BY DEF DirectorTimeInv, PaceTypes
  <2>2. warmup \in Nat
    BY <2>1 DEF Paces
  <2>3. pace' = [pace EXCEPT !.scene = request.target, !.elapsed = 0, !.warmup = warmup]
    BY <2>1 DEF RequestSucceeds, Paces
  <2> HIDE DEF warmup
  <2>4. pace' = [scene |-> request.target, elapsed |-> 0, warmup |-> warmup,
                 since |-> pace.since, intro |-> pace.intro]
    BY <2>1, <2>3 DEF Paces
  <2> QED BY <1>2, <2>1, <2>2, <2>4 DEF Paces
<1>5. reveal' \in {"hidden", "revealing", "shown"}
  BY DEF RequestSucceeds, DirectorTimeInv, PaceTypes
<1>6. PaceTypes'
  BY <1>1, <1>2, <1>4, <1>5 DEF DirectorTimeInv, PaceTypes
<1>7. ShownInv'
  BY <1>1, <1>3 DEF DirectorTimeInv, ShownInv
<1>8. CalmInv'
  BY <1>1 DEF DirectorTimeInv, CalmInv
<1>9. OpeningInv'
  BY <1>1, OpeningSuccess DEF DirectorTimeInv, OpeningInv, FirstRound
<1>10. ClosingInv'
  BY <1>1, ClosingSuccess DEF DirectorTimeInv, ClosingInv
<1> QED BY <1>6, <1>7, <1>8, <1>9, <1>10 DEF DirectorTimeInv

LEMMA FailureTime ==
    ASSUME DirectorIInv, DirectorTimeInv, RequestFails
    PROVE  DirectorTimeInv'
<1>1. /\ request' = NoRequest /\ onAir' = onAir /\ cues' = cues /\ pace' = pace
      /\ match' = match /\ calm' = calm /\ producing' = producing /\ (Safe' <=> Safe)
  BY SameMatchSameKey DEF RequestFails, surroundings
<1>2. control \in Controls /\ (calm => ~control.manual /\ control.was)
  BY DEF DirectorTimeInv, PaceTypes, CalmInv
<1>3. control' = [control EXCEPT !.failed = @ \/ ~control.manual]
  BY DEF RequestFails
<1>4. /\ control' \in Controls /\ control'.manual = control.manual /\ control'.was = control.was
      /\ ~control.manual => control'.failed
  BY <1>2, <1>3 DEF Controls
<1>5. reveal' \in {"hidden", "revealing", "shown"}
  BY DEF RequestFails, DirectorTimeInv, PaceTypes
<1>6. PaceTypes'
  BY <1>1, <1>4, <1>5 DEF DirectorTimeInv, PaceTypes
<1>7. ShownInv'
  BY <1>1, ShownStays DEF DirectorTimeInv
<1>8. CalmInv'
  BY <1>1, <1>2, <1>4 DEF DirectorTimeInv, CalmInv
<1>9. OpeningInv' /\ ClosingInv'
  BY <1>1, <1>2, <1>4 DEF OpeningInv, ClosingInv
<1> QED BY <1>6, <1>7, <1>8, <1>9 DEF DirectorTimeInv

LEMMA TimeTime ==
    ASSUME DirectorIInv, DirectorTimeInv, PromptSwitches, TimePasses
    PROVE  DirectorTimeInv'
<1>1. /\ onAir' = onAir /\ cues' = cues /\ control' = control /\ producing' = producing
      /\ calm' = calm
  BY DEF TimePasses
<1>2. DirectorTypes /\ PaceTypes /\ CalmInv /\ match \in ObservedMatch
  BY DEF DirectorIInv, DirectorTypes, DirectorTimeInv
<1>3. /\ match'.map = match.map /\ match'.execution = match.execution /\ (Safe' <=> Safe)
      /\ match'.paused = match.paused
      /\ match'.confirmed = match.confirmed /\ match'.half = match.half
      /\ match.stage \in Freezes /\ ~match.paused =>
             /\ match'.seconds = match.seconds - 1
             /\ match'.stage = IF match.seconds = 1 THEN "live" ELSE match.stage
      /\ match.stage \notin Freezes \/ match.paused =>
             /\ match'.stage = match.stage
             /\ \/ match'.seconds = match.seconds
                \/ match.confirmed /\ match'.seconds = match.seconds + 1
  BY <1>2, SecondsGo, KeyStays DEF SameKey
<1>4. /\ pace' \in Paces /\ pace'.since = 1
      /\ request = NoRequest => pace.since = 0 /\ request' = NoRequest
      /\ request # NoRequest =>
             /\ request.age < SwitchTime /\ request.age \in Nat /\ request' # NoRequest
             /\ request'.age = request.age + 1 /\ request'.target = request.target
             /\ request'.current = request.current
  BY <1>2, AgesGo
<1>5. reveal' \in {"hidden", "revealing", "shown"}
  BY <1>2 DEF TimePasses, PaceTypes
<1>6. /\ match'.seconds \in Nat
      /\ ~match'.confirmed => (match'.stage \in Freezes <=> match'.seconds > 0)
      /\ match'.confirmed => match'.stage = "over"
  <2>1. /\ match.seconds \in Nat /\ "live" \notin Freezes /\ "over" \notin Freezes
        /\ ~match.confirmed => (match.stage \in Freezes <=> match.seconds > 0)
        /\ match.confirmed => match.stage = "over"
    BY <1>2 DEF PaceTypes, Freezes
  <2>2. CASE match.stage \in Freezes /\ ~match.paused
    <3>1. ~match.confirmed /\ match.seconds > 0
      BY <2>1, <2>2
    <3>2. match'.seconds = match.seconds - 1 /\ ~match'.confirmed
      BY <1>3, <2>2, <3>1
    <3>3. match'.stage = IF match.seconds = 1 THEN "live" ELSE match.stage
      BY <1>3, <2>2
    <3>4. match'.stage \in Freezes <=> match.seconds # 1
      BY <2>1, <2>2, <3>3
    <3> HIDE <1>3
    <3> QED BY <2>1, <3>1, <3>2, <3>4
  <2>3. CASE match.stage \notin Freezes \/ match.paused
    BY <1>3, <2>1, <2>3
  <2> QED BY <2>2, <2>3
<1>7. request' # NoRequest =>
          request'.age \in 0..SwitchTime /\ (control.manual => ~request'.current)
  BY <1>2, <1>4, TimingTypes DEF PaceTypes
<1>8. PaceTypes'
  BY <1>1, <1>2, <1>3, <1>4, <1>5, <1>6, <1>7 DEF PaceTypes
<1>9. ShownInv'
  BY <1>1, <1>3, <1>4, ShownStays DEF DirectorTimeInv
<1>10. CalmInv'
  BY <1>1, <1>2, <1>3, <1>4 DEF CalmInv
<1>11. OpeningInv'
  <2>1. FirstRound' => FirstRound
    <3>1. match'.stage \in {"first freeze", "live"} /\ ~match.half =>
              match.stage \in {"first freeze", "live"}
      BY <1>3 DEF DirectorIInv, HalftimeInv, Freezes
    <3> QED BY <1>3, <3>1 DEF FirstRound
  <2> QED BY <1>1, <1>2, <2>1, OpeningTime DEF DirectorTimeInv, OpeningInv
<1>12. ClosingInv'
  BY <1>1, <1>2, <1>3, ClosingTime DEF DirectorTimeInv, ClosingInv
<1> QED BY <1>8, <1>9, <1>10, <1>11, <1>12 DEF DirectorTimeInv

\* What disturbs the director ends what is promised of it.
LEMMA Disturbed ==
    ASSUME PaceTypes', ShownInv', ~calm'
    PROVE  DirectorTimeInv'
BY DEF DirectorTimeInv, CalmInv, OpeningInv, ClosingInv

LEMMA SupersededRequest ==
    ASSUME DirectorTypes
    PROVE  /\ request = NoRequest => Superseded = NoRequest
           /\ request # NoRequest =>
                 /\ Superseded # NoRequest /\ ~Superseded.current
                 /\ Superseded.age = request.age /\ Superseded.target = request.target
<1>1. ASSUME request # NoRequest
      PROVE  /\ Superseded # NoRequest /\ ~Superseded.current
             /\ Superseded.age = request.age /\ Superseded.target = request.target
  <2>1. request \in SceneRequests /\ Superseded = [request EXCEPT !.current = FALSE]
    BY <1>1 DEF DirectorTypes, Superseded
  <2>2. /\ Superseded \in SceneRequests /\ ~Superseded.current
        /\ Superseded.age = request.age /\ Superseded.target = request.target
    BY <2>1 DEF SceneRequests
  <2> QED BY <2>2, NoRequestIsNone
<1> QED BY <1>1 DEF Superseded

LEMMA OperatorTime ==
    ASSUME DirectorIInv, DirectorTimeInv,
           \/ \E s \in {"waiting", "bp", "gameplay"} : OperatorHolds(s)
           \/ OperatorResumes \/ ProductionStartsOrEnds
    PROVE  DirectorTimeInv'
<1>1. /\ match' = match /\ cues' = cues /\ calm' = FALSE
      /\ pace' = pace \/ pace' = [pace EXCEPT !.since = 0]
      /\ onAir' \in {onAir, "waiting", "bp", "gameplay"}
      /\ reveal' \in {reveal, "hidden", "revealing"}
      /\ producing' \in {producing, ~producing}
      /\ \/ control' = [control EXCEPT !.manual = TRUE] /\ request' = Superseded
         \/ /\ control' = [control EXCEPT !.manual = FALSE, !.failed = FALSE]
            /\ request' = Superseded
         \/ control' = control /\ request' = request
  BY DEF OperatorHolds, OperatorResumes, ProductionStartsOrEnds, surroundings, choreography
<1>2. PaceTypes /\ DirectorTypes
  BY DEF DirectorIInv, DirectorTimeInv
<1>3. pace' \in Paces /\ onAir' \in SceneTargets /\ reveal' \in {"hidden", "revealing", "shown"}
  BY <1>1, <1>2 DEF PaceTypes, Paces, SceneTargets
<1>4. control' \in Controls
  BY <1>1, <1>2 DEF PaceTypes, Controls
<1>5. request' # NoRequest =>
          /\ request # NoRequest /\ request'.target = request.target
          /\ request'.age \in 0..SwitchTime /\ (control'.manual => ~request'.current)
  <2>1. CASE request' = Superseded
    BY <1>2, <2>1, SupersededRequest DEF PaceTypes
  <2>2. CASE control' = control /\ request' = request
    BY <1>2, <2>2 DEF PaceTypes
  <2> QED BY <1>1, <2>1, <2>2
<1>6. PaceTypes'
  BY <1>1, <1>2, <1>3, <1>4, <1>5 DEF PaceTypes
<1>7. ShownInv'
  BY <1>1, <1>5, ShownStays DEF DirectorTimeInv
<1> QED BY <1>1, <1>6, <1>7, Disturbed

\* The director, but not the match, stays as it is.
MatchOnly == UNCHANGED <<choreography, producing>>

LEMMA MatchTypesTime ==
    ASSUME DirectorTimeInv, MatchOnly, match'.map \in 1..SeriesLength, match'.seconds \in Nat,
           ~match'.confirmed => (match'.stage \in Freezes <=> match'.seconds > 0),
           match'.confirmed => match'.stage = "over", calm' \in BOOLEAN
    PROVE  PaceTypes'
BY DEF MatchOnly, choreography, DirectorTimeInv, PaceTypes

LEMMA PauseTime ==
    ASSUME DirectorIInv, DirectorTimeInv, MatchPausesOrGoesOn
    PROVE  DirectorTimeInv'
<1>1. MatchOnly /\ calm' = FALSE /\ match' = [match EXCEPT !.paused = ~@]
  BY DEF MatchPausesOrGoesOn, MatchOnly
<1>2. /\ match'.map = match.map /\ match'.seconds = match.seconds /\ match'.stage = match.stage
      /\ match'.confirmed = match.confirmed /\ match'.execution = match.execution
  BY <1>1 DEF DirectorIInv, DirectorTypes, ObservedMatch
<1>3. PaceTypes'
  BY <1>1, <1>2, MatchTypesTime DEF DirectorTimeInv, PaceTypes
<1>4. ShownInv'
  BY <1>1, <1>2, ShownStays DEF DirectorTimeInv, MatchOnly, choreography
<1> QED BY <1>1, <1>3, <1>4, Disturbed

\* Cues of an execution that is over say nothing of the next.
LEMMA AnotherExecution ==
    ASSUME DirectorIInv, cues' = cues, match'.execution = match.execution + 1
    PROVE  ShownInv'
<1>1. /\ cues.key.execution \in Nat /\ match.execution \in Nat
      /\ cues.key.execution <= match.execution
  BY DEF DirectorIInv, DirectorTypes, Cues, Keys, ObservedMatch
<1>2. cues'.key.execution # match'.execution
  BY <1>1
<1> QED BY <1>2 DEF ShownInv

LEMMA KeyChangesTime ==
    ASSUME DirectorIInv, DirectorTimeInv,
           \/ \E what \in Losses : SomethingIsLost(what)
           \/ LossEnds \/ ExecutionIsRenewed \/ ContextIsReplaced
    PROVE  DirectorTimeInv'
<1>1. MatchOnly /\ calm' = FALSE
  BY DEF SomethingIsLost, LossEnds, ExecutionIsRenewed, ContextIsReplaced, MatchOnly
<1>2. /\ match'.stage = match.stage
      /\ \/ match'.execution = match.execution + 1
         \/ match'.execution = match.execution /\ match'.confirmed = match.confirmed
      /\ match'.confirmed => match.confirmed
      /\ \/ match'.map = match.map /\ match'.seconds = match.seconds
            /\ match'.confirmed = match.confirmed
         \/ /\ match'.map \in 1..SeriesLength /\ ~match'.confirmed
            /\ match'.seconds = IF match.stage = "over" THEN 0 ELSE match.seconds
  BY KeyChanges
<1>3. PaceTypes /\ match.seconds \in Nat /\ "over" \notin Freezes
  BY DEF DirectorTimeInv, PaceTypes, Freezes
<1>4. /\ match'.map \in 1..SeriesLength /\ match'.seconds \in Nat
      /\ ~match'.confirmed => (match'.stage \in Freezes <=> match'.seconds > 0)
      /\ match'.confirmed => match'.stage = "over"
  <2>1. CASE /\ match'.map = match.map /\ match'.seconds = match.seconds
             /\ match'.confirmed = match.confirmed
    BY <1>2, <1>3, <2>1 DEF PaceTypes
  <2>2. CASE /\ match'.map \in 1..SeriesLength /\ ~match'.confirmed
             /\ match'.seconds = IF match.stage = "over" THEN 0 ELSE match.seconds
    <3>1. CASE match.stage = "over"
      <4>1. match'.seconds = 0 /\ match'.stage = "over"
        BY <1>2, <2>2, <3>1
      <4>2. match'.seconds \in Nat /\ ~(match'.seconds > 0)
        BY <4>1
      <4> QED BY <1>3, <2>2, <4>1, <4>2
    <3>2. CASE match.stage # "over"
      BY <1>2, <1>3, <2>2, <3>2 DEF PaceTypes
    <3> QED BY <3>1, <3>2
  <2> QED BY <1>2, <2>1, <2>2
<1>5. PaceTypes'
  BY <1>1, <1>4, MatchTypesTime
<1>6. cues' = cues /\ request' = request
  BY <1>1 DEF MatchOnly, choreography
<1>7. ShownInv'
  <2>1. CASE match'.execution = match.execution + 1
    BY <1>6, <2>1, AnotherExecution
  <2>2. CASE match'.execution = match.execution /\ match'.confirmed = match.confirmed
    BY <1>6, <2>2, ShownStays DEF DirectorTimeInv
  <2> QED BY <1>2, <2>1, <2>2
<1> QED BY <1>1, <1>5, <1>7, Disturbed

LEMMA NextMapTime ==
    ASSUME DirectorIInv, DirectorTimeInv, NextMapBegins
    PROVE  DirectorTimeInv'
<1>1. MatchOnly /\ calm' = FALSE /\ match.map < SeriesLength
  BY DEF NextMapBegins, MatchOnly
<1>2. match.map \in 1..SeriesLength
  BY DEF DirectorTimeInv, PaceTypes
<1>3. /\ match'.map = match.map + 1 /\ match'.stage = "warmup" /\ match'.seconds = 0
      /\ ~match'.confirmed /\ match'.execution = match.execution + 1
  BY NextMapKeeps
<1>4. match'.map \in 1..SeriesLength
  BY <1>1, <1>2, <1>3, TimingTypes
<1>5. match'.stage \notin Freezes /\ match'.seconds \in Nat /\ ~(match'.seconds > 0)
  <2>1. match'.stage \notin Freezes
    BY <1>3 DEF Freezes
  <2>2. match'.seconds = 0
    BY <1>3
  <2>3. match'.seconds \in Nat /\ ~(match'.seconds > 0)
    BY <2>2
  <2> QED BY <2>1, <2>3
<1>6. PaceTypes'
  BY <1>1, <1>3, <1>4, <1>5, MatchTypesTime
<1>7. ShownInv'
  BY <1>1, <1>3, AnotherExecution DEF MatchOnly, choreography
<1> QED BY <1>1, <1>6, <1>7, Disturbed

LEMMA StageTime ==
    ASSUME DirectorIInv, DirectorTimeInv,
           FirstFreezeBegins \/ HalftimeBegins \/ SecondFreezeBegins \/ PlayedMapEnds
    PROVE  DirectorTimeInv'
<1>1. match \in ObservedMatch /\ PaceTypes /\ HalftimeInv
  BY DEF DirectorIInv, DirectorTypes, DirectorTimeInv
<1>2. /\ FreezeLength \in Nat /\ FreezeLength > 0
      /\ Timings.halftimeLead + 1 \in Nat /\ Timings.halftimeLead + 1 > 0
  BY TimingTypes
<1>3. /\ {"first freeze", "halftime", "second freeze", "over"} \subseteq Stages
      /\ {"first freeze", "second freeze"} \subseteq Freezes
      /\ {"halftime", "over", "live", "warmup"} \cap Freezes = {}
  BY DEF Stages, Freezes
<1>4. /\ MatchOnly /\ match.stage # "over"
      /\ calm' = calm \/ calm' = Undisturbed
  BY DEF FirstFreezeBegins, HalftimeBegins, SecondFreezeBegins, PlayedMapEnds, MatchMovesTo,
     MatchOnly
<1>5. ~match.confirmed
  BY <1>1, <1>4 DEF PaceTypes
<1>6. ASSUME NEW stage \in Stages, NEW seconds \in Nat, MatchMovesTo(stage, seconds),
             stage \in Freezes <=> seconds > 0
      PROVE  /\ PaceTypes' /\ ShownInv' /\ ClosingInv'
             /\ match'.stage = stage /\ match'.seconds = seconds
             /\ match'.half = (match.half \/ stage = "halftime")
             /\ match'.paused = match.paused /\ (Safe' <=> Safe)
  <2>1. MovedTo(stage) /\ match'.seconds = seconds
    BY <1>1, <1>6, StageMoves
  <2>2. calm' \in BOOLEAN
    BY <1>1, <1>4 DEF PaceTypes, Undisturbed
  <2>3. PaceTypes'
    BY <1>1, <1>4, <1>5, <1>6, <2>1, <2>2, MatchTypesTime DEF MovedTo, SameKey, PaceTypes
  <2>4. ShownInv'
    BY <1>4, <2>1, ShownStays DEF DirectorTimeInv, MatchOnly, choreography, MovedTo, SameKey
  <2>5. ClosingInv'
    BY <1>5, <2>1 DEF MovedTo, SameKey, ClosingInv
  <2> QED BY <2>1, <2>3, <2>4, <2>5, KeyStays DEF MovedTo
<1>7. CASE FirstFreezeBegins
  <2>1. /\ MatchMovesTo("first freeze", FreezeLength) /\ calm' = Undisturbed
        /\ match.stage = "warmup"
    BY <1>7 DEF FirstFreezeBegins
  <2>2. /\ PaceTypes' /\ ShownInv' /\ ClosingInv'
        /\ match'.stage = "first freeze" /\ match'.seconds = FreezeLength
        /\ match'.paused = match.paused /\ (Safe' <=> Safe)
    BY <1>2, <1>3, <1>6, <2>1
  <2>3. CalmInv'
    BY <1>4, <2>1, <2>2 DEF CalmInv, Undisturbed, MatchOnly, choreography
  <2>4. OpeningInv'
    <3>1. calm' => request' = NoRequest
      BY <1>4, <2>1 DEF Undisturbed, MatchOnly, choreography
    <3>2. match'.seconds >= FreezeLength - 1
      <4>1. match'.seconds = FreezeLength
        BY <2>2
      <4> QED BY <1>2, <4>1
    <3>3. calm' => HudIsDue'
      BY <2>2, <3>1, <3>2 DEF HudIsDue
    <3> QED BY <2>2, <3>3 DEF OpeningInv, Opening
  <2> QED BY <2>2, <2>3, <2>4 DEF DirectorTimeInv
<1>8. CASE HalftimeBegins \/ SecondFreezeBegins \/ PlayedMapEnds
  <2>1. /\ calm' = calm
        /\ \/ MatchMovesTo("halftime", 0)
           \/ MatchMovesTo("second freeze", Timings.halftimeLead + 1)
           \/ MatchMovesTo("over", 0)
    BY <1>8 DEF HalftimeBegins, SecondFreezeBegins, PlayedMapEnds
  <2>2. /\ PaceTypes' /\ ShownInv' /\ ClosingInv'
        /\ match'.stage \in {"halftime", "second freeze", "over"}
        /\ match'.paused = match.paused /\ (Safe' <=> Safe)
    <3>1. 0 \in Nat /\ ~(0 > 0)
      OBVIOUS
    <3>2. /\ "halftime" \in Stages /\ "halftime" \notin Freezes
          /\ "over" \in Stages /\ "over" \notin Freezes
      BY <1>3
    <3>3. CASE MatchMovesTo("halftime", 0)
      BY <1>6, <3>3, <3>1, <3>2
    <3>4. CASE MatchMovesTo("second freeze", Timings.halftimeLead + 1)
      BY <1>2, <1>3, <1>6, <3>4
    <3>5. CASE MatchMovesTo("over", 0)
      BY <1>6, <3>5, <3>1, <3>2
    <3> QED BY <2>1, <3>3, <3>4, <3>5
  <2>3. CalmInv'
    BY <1>4, <2>1, <2>2 DEF DirectorTimeInv, CalmInv, MatchOnly, choreography
  <2>4. OpeningInv'
    BY <2>2 DEF OpeningInv, FirstRound
  <2> QED BY <2>2, <2>3, <2>4 DEF DirectorTimeInv
<1> QED BY <1>7, <1>8

LEMMA ResultTime ==
    ASSUME DirectorIInv, DirectorTimeInv, ResultIsConfirmed
    PROVE  DirectorTimeInv'
<1>1. /\ match.stage = "over" /\ ~match.confirmed /\ MatchOnly /\ calm' = Undisturbed
      /\ match' = [match EXCEPT !.confirmed = TRUE]
  BY DEF ResultIsConfirmed, MatchOnly
<1>2. match \in ObservedMatch /\ PaceTypes
  BY DEF DirectorIInv, DirectorTypes, DirectorTimeInv
<1>3. /\ match'.map = match.map /\ match'.seconds = match.seconds /\ match'.stage = "over"
      /\ match'.confirmed /\ match'.paused = match.paused /\ (Safe' <=> Safe)
      /\ match'.execution = match.execution
  BY <1>1, <1>2 DEF ObservedMatch, Safe
<1>4. match.seconds = 0 /\ calm' \in BOOLEAN
  <2>1. ~(match.seconds > 0) /\ match.seconds \in Nat
    BY <1>1, <1>2 DEF PaceTypes, Freezes
  <2> QED BY <1>1, <1>2, <2>1 DEF PaceTypes, Undisturbed
<1>5. PaceTypes'
  BY <1>2, <1>1, <1>3, <1>4, MatchTypesTime DEF PaceTypes
<1>6. ShownInv'
  BY <1>1, <1>3, ShownStays DEF DirectorTimeInv, MatchOnly, choreography
<1>7. calm' => request' = NoRequest
  BY <1>1 DEF Undisturbed, MatchOnly, choreography
<1>8. CalmInv'
  BY <1>1, <1>3 DEF CalmInv, Undisturbed, MatchOnly, choreography
<1>9. OpeningInv'
  BY <1>3 DEF OpeningInv, FirstRound
<1>10. ClosingInv'
  <2>1. cues'.key = Key' => ~cues'.resultShown
    <3>1. cues' = cues /\ match' \in ObservedMatch
      BY <1>1, <1>2, ResultKeeps DEF MatchOnly, choreography, DirectorIInv, DirectorTypes
    <3>2. Key'.execution = match'.execution
      BY <3>1 DEF Key
    <3> QED BY <1>1, <1>3, <3>1, <3>2 DEF DirectorTimeInv, ShownInv
  <2>2. match'.seconds <= pace'.since
    BY <1>1, <1>2, <1>3, <1>4 DEF PaceTypes, Paces, MatchOnly, choreography
  <2> QED BY <1>7, <2>1, <2>2 DEF ClosingInv, Closing, ResultIsDue
<1> QED BY <1>5, <1>6, <1>8, <1>9, <1>10 DEF DirectorTimeInv

LEMMA DirectorNextTime ==
    ASSUME PromptSwitches, DirectorIInv, DirectorTimeInv, [DirectorNext]_directorVars
    PROVE  DirectorTimeInv'
<1>1. CASE UNCHANGED directorVars
  <2>1. /\ UNCHANGED <<onAir, reveal, cues, pace, control, request>>
        /\ UNCHANGED <<match, producing, calm>>
    BY <1>1 DEF directorVars, choreography, surroundings
  <2>2. PaceTypes' /\ ShownInv' /\ CalmInv'
    BY <2>1, SameMatchSameKey DEF DirectorTimeInv, PaceTypes, ShownInv, CalmInv
  <2>3. OpeningInv'
    BY <2>1, SameMatchSameKey DEF DirectorTimeInv, OpeningInv, FirstRound, Opening, HudIsUp,
       HudIsDue, OpeningOnItsWay, HudOnItsWay
  <2>4. ClosingInv'
    BY <2>1, SameMatchSameKey DEF DirectorTimeInv, ClosingInv, Closing, ResultIsDue, ResultOnItsWay, ResultOnAir,
       SummaryOnItsWay, Summary
  <2> QED BY <2>2, <2>3, <2>4 DEF DirectorTimeInv
<1>2. CASE DirectorTick
  BY <1>2, TickTime
<1>3. CASE RequestSucceeds
  BY <1>3, SuccessTime
<1>4. CASE RequestFails
  BY <1>4, FailureTime
<1>5. CASE TimePasses
  BY <1>5, TimeTime
<1>6. CASE \/ \E s \in {"waiting", "bp", "gameplay"} : OperatorHolds(s)
           \/ OperatorResumes \/ ProductionStartsOrEnds
  BY <1>6, OperatorTime
<1>7. CASE MatchPausesOrGoesOn
  BY <1>7, PauseTime
<1>8. CASE FirstFreezeBegins \/ HalftimeBegins \/ SecondFreezeBegins \/ PlayedMapEnds
  BY <1>8, StageTime
<1>9. CASE ResultIsConfirmed
  BY <1>9, ResultTime
<1>10. CASE NextMapBegins
  BY <1>10, NextMapTime
<1>11. CASE \/ \E what \in Losses : SomethingIsLost(what)
            \/ LossEnds \/ ExecutionIsRenewed \/ ContextIsReplaced
  BY <1>11, KeyChangesTime
<1> QED BY <1>1, <1>2, <1>3, <1>4, <1>5, <1>6, <1>7, <1>8, <1>9, <1>10, <1>11 DEF DirectorNext

\* Until the HUD is up there is time for it; a result that is on air too long is no longer so.
LEMMA DirectorInTime ==
    ASSUME PromptSwitches, DirectorIInv, DirectorTimeInv
    PROVE  DirectorInv
<1>1. PaceTypes /\ DirectorTypes
  BY DEF DirectorTimeInv, DirectorIInv
<1>2. DirectorTypeOK
  <2>1. /\ match \in ObservedMatch /\ cues.key.execution \in 0..match.execution
        /\ pace.since \in 0..1 /\ {pace.elapsed, pace.warmup} \subseteq Nat
    BY <1>1 DEF PaceTypes, DirectorTypes, Cues, Keys, ObservedMatch, Paces
  <2>2. match.stage \in Stages /\ match.lost \in {"nothing"} \cup Losses
    BY <2>1 DEF ObservedMatch
  <2>3. request # NoRequest => request.key = cues.key
    BY DEF DirectorIInv, RequestInv, Unplayed
  <2> QED BY <1>1, <2>1, <2>2, <2>3 DEF DirectorTypeOK, PaceTypes
<1>3. HudIsUpWhenLive
  BY DEF HudIsUpWhenLive, DirectorTimeInv, OpeningInv, FirstRound, Opening, HudIsUp
<1>4. ResultGivesWay
  <2> SUFFICES ASSUME calm, match.confirmed, match.seconds > ResultDeadline, ~control.failed
               PROVE  onAir = Summary
    BY DEF ResultGivesWay
  <2>1. Closing
    BY DEF DirectorTimeInv, ClosingInv
  <2>2. /\ match.seconds \in Nat /\ pace.since \in 0..1 /\ pace.elapsed \in Nat
        /\ match.seconds > SwitchTime + Timings.mapResult + SwitchTime
    BY <1>1 DEF PaceTypes, Paces, ResultDeadline
  <2>3. request # NoRequest => request.age \in Nat /\ request.age <= SwitchTime
    BY <1>1, TimingTypes DEF PaceTypes
  <2>4. ~ResultIsDue
    BY <2>2, PromptFacts DEF ResultIsDue
  <2>5. ~ResultOnItsWay
    BY <2>2, <2>3, PromptFacts DEF ResultOnItsWay
  <2>6. ~ResultOnAir
    BY <2>2, PromptFacts DEF ResultOnAir
  <2>7. ~SummaryOnItsWay
    BY <2>2, <2>3, PromptFacts DEF SummaryOnItsWay
  <2> QED BY <2>1, <2>4, <2>5, <2>6, <2>7 DEF Closing
<1> QED BY <1>2, <1>3, <1>4 DEF DirectorInv

\* Every map's first round begins under the HUD and a confirmed result gives way in time, for all
\* timings under which OBS is prompt and all lengths of a series, unless the director was disturbed.
THEOREM DirectorIsSound == ASSUME PromptSwitches PROVE DirectorSpec => []DirectorInv
<1>1. DirectorInit => DirectorIInv /\ DirectorTimeInv
  BY DirectorInitIInv, DirectorInitTime
<1>2. DirectorIInv /\ DirectorTimeInv /\ [DirectorNext]_directorVars
          => DirectorIInv' /\ DirectorTimeInv'
  BY DirectorNextIInv, DirectorNextTime
<1>3. DirectorIInv /\ DirectorTimeInv => DirectorInv
  BY DirectorInTime
<1> QED BY <1>1, <1>2, <1>3, PTL DEF DirectorSpec
=============================================================================
