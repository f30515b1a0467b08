---------------------------- MODULE EvidenceProofs ----------------------------
(***************************************************************************)
(* Proofs about what is made of the frames, for every bound of the         *)
(* exploration: the statistics, edges and clock of ProgramTelemetry        *)
(* (TelemetryIsExact) and the evidence of QualificationRun                 *)
(* (EvidenceIsKept).  Both need facts about recursive or smallest values:  *)
(* they are proved by a smallest counterexample, which SmallestExists      *)
(* provides.                                                               *)
(***************************************************************************)
EXTENDS ProgramTelemetry, QualificationRun, FiniteSetTheorems, WellFoundedInduction, TLAPS

\* A set of numbers that is not empty has a smallest one: of the initial segments its members
\* end, one contains no other.
LEMMA SmallestExists ==
    ASSUME NEW S, S \subseteq Nat, S # {}
    PROVE  \E x \in S : \A y \in S : x <= y
<1> DEFINE T == {1..x : x \in S}
           R == StrictSubsetOrdering(Nat)
<1>1. T # {}
    OBVIOUS
<1>2. T \subseteq FiniteSubsetsOf(Nat)
    <2>1. ASSUME NEW x \in S PROVE 1..x \subseteq Nat /\ IsFiniteSet(1..x)
        BY FS_Interval, x \in Nat, 1 \in Int
    <2> QED BY <2>1 DEF FiniteSubsetsOf
<1>3. IsWellFoundedOn(R, FiniteSubsetsOf(Nat))
    BY FS_StrictSubsetOrderingWellFounded
<1>4. PICK s \in T : \A t \in T : ~(<<t, s>> \in R)
    <2> HIDE DEF T, R
    <2> QED BY <1>1, <1>2, <1>3, WFMin
<1>5. PICK x \in S : s = 1..x
    OBVIOUS
<1>6. ASSUME NEW y \in S, y < x PROVE FALSE
    <2>1. 1..y \subseteq 1..x /\ 1..y # 1..x
        <3>1. x \in Nat /\ y \in Nat
            OBVIOUS
        <3>2. x \in 1..x /\ x \notin 1..y
            BY <1>6, <3>1
        <3> QED BY <1>6, <3>1, <3>2
    <2>2. 1..x \in SUBSET Nat /\ 1..y \in SUBSET Nat
        OBVIOUS
    <2>3. <<1..y, 1..x>> \in R
        BY <2>1, <2>2 DEF StrictSubsetOrdering
    <2>4. 1..y \in T
        OBVIOUS
    <2> QED BY <1>4, <1>5, <2>3, <2>4
<1>7. \A y \in S : x <= y
    BY <1>6
<1> QED BY <1>7

-----------------------------------------------------------------------------
(* The damage of several plays together *)

\* f has the sums of the first plays of s.
SumsUp(f, s, dealt, n) ==
    /\ f \in [0..n -> Nat] /\ f[0] = 0
    /\ \A i \in 1..n : f[i] = f[i - 1] + dealt[s[i]]

LEMMA SumsExist ==
    ASSUME NEW dealt \in Seq(Nat), NEW s \in Seq(1..Len(dealt))
    PROVE  \E f : SumsUp(f, s, dealt, Len(s))
<1> DEFINE bad == {n \in 0..Len(s) : ~\E f : SumsUp(f, s, dealt, n)}
<1>1. SUFFICES ASSUME bad # {} PROVE FALSE
    <2>1. Len(s) \in 0..Len(s)
        OBVIOUS
    <2> QED BY <2>1
<1>2. PICK n \in bad : \A k \in bad : n <= k
    <2>1. bad \subseteq Nat
        OBVIOUS
    <2> HIDE DEF bad
    <2> QED BY <1>1, <2>1, SmallestExists
<1>3. n \in 0..Len(s) /\ n \in Nat /\ ~\E f : SumsUp(f, s, dealt, n)
    OBVIOUS
<1>4. CASE n = 0
    <2> DEFINE f == [i \in 0..0 |-> 0]
    <2>1. SumsUp(f, s, dealt, 0)
        BY DEF SumsUp
    <2> QED BY <1>3, <1>4, <2>1
<1>5. CASE n # 0
    <2>1. n - 1 \in 0..Len(s) /\ n \in 1..Len(s) /\ n - 1 < n
        BY <1>3, <1>5
    <2>2. n - 1 \notin bad
        <3> HIDE DEF bad
        <3> QED BY <1>2, <1>3, <2>1
    <2>3. PICK f : SumsUp(f, s, dealt, n - 1)
        BY <2>1, <2>2
    <2>4. dealt[s[n]] \in Nat
        BY <2>1
    <2> DEFINE g == [i \in 0..n |-> IF i = n THEN f[n - 1] + dealt[s[n]] ELSE f[i]]
    <2>5. g \in [0..n -> Nat] /\ g[0] = 0
        <3>1. \A i \in 0..n : i # n => i \in 0..(n - 1)
            BY <1>3
        <3>2. n - 1 \in 0..(n - 1) /\ 0 \in 0..n /\ 0 # n
            BY <1>3, <1>5
        <3> QED BY <2>3, <2>4, <3>1, <3>2 DEF SumsUp
    <2>6. ASSUME NEW i \in 1..n PROVE g[i] = g[i - 1] + dealt[s[i]]
        <3>1. i \in 0..n /\ i - 1 \in 0..n /\ i - 1 # n
            BY <1>3
        <3>2. CASE i = n
            BY <3>1, <3>2
        <3>3. CASE i # n
            <4>1. i \in 1..(n - 1)
                BY <1>3, <3>3
            <4> QED BY <2>3, <3>1, <3>3, <4>1 DEF SumsUp
        <3> QED BY <3>2, <3>3
    <2>7. SumsUp(g, s, dealt, n)
        BY <2>5, <2>6 DEF SumsUp
    <2> QED BY <1>3, <2>7
<1> QED BY <1>4, <1>5

\* The recursive definition yields the last of these sums, and nothing else would do.
LEMMA DamageIsTheSum ==
    ASSUME NEW dealt, NEW s, Len(s) \in Nat, NEW f, SumsUp(f, s, dealt, Len(s))
    PROVE  DamageIn(s, dealt) = f[Len(s)]
<1> DEFINE sum == CHOOSE g : g = [i \in 0..Len(s) |-> IF i = 0 THEN 0
                                                      ELSE g[i - 1] + dealt[s[i]]]
           bad == {n \in 0..Len(s) : sum[n] # f[n]}
<1>1. f = [i \in 0..Len(s) |-> IF i = 0 THEN 0 ELSE f[i - 1] + dealt[s[i]]]
    <2>1. \A i \in 0..Len(s) : i # 0 => i \in 1..Len(s)
        OBVIOUS
    <2> QED BY <2>1 DEF SumsUp
<1>2. sum = [i \in 0..Len(s) |-> IF i = 0 THEN 0 ELSE sum[i - 1] + dealt[s[i]]]
    BY <1>1
<1> HIDE DEF sum
<1>3. SUFFICES ASSUME bad # {} PROVE FALSE
    <2>1. Len(s) \in 0..Len(s)
        OBVIOUS
    <2>2. DamageIn(s, dealt) = sum[Len(s)]
        BY DEF DamageIn, sum
    <2> QED BY <2>1, <2>2
<1>4. PICK n \in bad : \A k \in bad : n <= k
    <2>1. bad \subseteq Nat
        OBVIOUS
    <2> HIDE DEF bad
    <2> QED BY <1>3, <2>1, SmallestExists
<1>5. n \in 0..Len(s) /\ n \in Nat /\ sum[n] # f[n]
    OBVIOUS
<1>6. n # 0
    BY <1>2, <1>5 DEF SumsUp
<1>7. n - 1 \in 0..Len(s) /\ n \in 1..Len(s) /\ n - 1 < n
    BY <1>5, <1>6
<1>8. sum[n - 1] = f[n - 1]
    BY <1>4, <1>5, <1>7
<1>9. sum[n] = sum[n - 1] + dealt[s[n]] /\ f[n] = f[n - 1] + dealt[s[n]]
    BY <1>2, <1>5, <1>6, <1>7 DEF SumsUp
<1> QED BY <1>5, <1>8, <1>9

\* What the sum is of nothing, of one play more, and when other plays change.
LEMMA DamageOfNothing ==
    ASSUME NEW dealt PROVE DamageIn(<<>>, dealt) = 0
<1> DEFINE f == [i \in 0..0 |-> 0]
<1>1. SumsUp(f, <<>>, dealt, 0) /\ Len(<<>>) = 0 /\ f[0] = 0
    BY DEF SumsUp
<1> HIDE DEF f
<1> QED BY <1>1, DamageIsTheSum

LEMMA DamageOfOneMore ==
    ASSUME NEW dealt \in Seq(Nat), NEW s \in Seq(1..Len(dealt)), NEW p \in 1..Len(dealt)
    PROVE  /\ DamageIn(s, dealt) \in Nat
           /\ DamageIn(Append(s, p), dealt) = DamageIn(s, dealt) + dealt[p]
<1> DEFINE t == Append(s, p)
<1>1. t \in Seq(1..Len(dealt)) /\ Len(t) = Len(s) + 1 /\ Len(s) \in Nat /\ t[Len(s) + 1] = p
    OBVIOUS
<1>2. \A i \in 1..Len(s) : t[i] = s[i]
    OBVIOUS
<1> HIDE DEF t
<1>3. PICK f : SumsUp(f, s, dealt, Len(s))
    BY SumsExist
<1>4. PICK g : SumsUp(g, t, dealt, Len(t))
    BY <1>1, SumsExist
<1> DEFINE h == [i \in 0..Len(s) |-> g[i]]
<1>5. SumsUp(h, s, dealt, Len(s)) /\ h[Len(s)] = g[Len(s)]
    <2>1. \A i \in 0..Len(s) : i \in 0..Len(t)
        BY <1>1
    <2>2. \A i \in 1..Len(s) : i \in 1..Len(t) /\ i - 1 \in 0..Len(s) /\ i \in 0..Len(s)
        BY <1>1
    <2>3. 0 \in 0..Len(s) /\ Len(s) \in 0..Len(s)
        BY <1>1
    <2> QED BY <1>2, <1>4, <2>1, <2>2, <2>3 DEF SumsUp
<1> HIDE DEF h
<1>6. DamageIn(s, dealt) = h[Len(s)] /\ DamageIn(t, dealt) = g[Len(t)]
    BY <1>1, <1>4, <1>5, DamageIsTheSum
<1>7. g[Len(t)] = g[Len(s)] + dealt[p] /\ g[Len(s)] \in Nat
    <2>1. Len(s) + 1 \in 1..Len(t) /\ Len(s) + 1 - 1 = Len(s) /\ Len(s) \in 0..Len(t)
        BY <1>1
    <2>2. g[Len(s) + 1] = g[Len(s) + 1 - 1] + dealt[t[Len(s) + 1]] /\ g[Len(s)] \in Nat
        BY <1>4, <2>1 DEF SumsUp
    <2>3. g[Len(s) + 1] = g[Len(s)] + dealt[p]
        BY <1>1, <2>1, <2>2
    <2> QED BY <1>1, <2>2, <2>3
<1> QED BY <1>5, <1>6, <1>7 DEF t

LEMMA DamageOfOthers ==
    ASSUME NEW dealt \in Seq(Nat), NEW now, NEW s \in Seq(1..Len(dealt)),
           \A i \in 1..Len(s) : now[s[i]] = dealt[s[i]]
    PROVE  DamageIn(s, now) = DamageIn(s, dealt)
<1>1. PICK f : SumsUp(f, s, dealt, Len(s))
    BY SumsExist
<1>2. SumsUp(f, s, now, Len(s))
    BY <1>1 DEF SumsUp
<1> QED BY <1>1, <1>2, DamageIsTheSum

-----------------------------------------------------------------------------
(* Rounds *)

\* The statistics believe the running round.
Trusted(r) == r # None /\ r.evidence /\ ~r.invalidated

\* How a round that is believed fits the game: known says whether a frame has shown the phase.
\* Before that it is the round of the phase before, and in freezetime that of the play before.
RoundFits(r, phase, known, damage) ==
    Trusted(r) =>
        /\ r.eligible <=> r.phase = "live"
        /\ phase = "freezetime" /\ known => r.phase = "freezetime" /\ r.damage = 0
        /\ phase = "freezetime" /\ ~known => r.phase = "live"
        /\ phase = "live" /\ known => r.phase = "live"
        /\ phase = "live" /\ ~known => r.phase = "freezetime"
        /\ phase = "over" => r.phase = "live"
        /\ phase # "freezetime" => r.damage <= damage

Rounds == {None} \cup CurrentRound

\* What a frame of the game in this phase and with this damage says.
Tells(frame, phase, damage) ==
    /\ frame.phase \in {"unknown", phase} /\ phase \in Phases
    /\ frame.players \in BOOLEAN /\ damage \in 0..MaxDamage
    /\ frame.damage = IF frame.players THEN damage ELSE 0
    /\ frame.phase \in {"freezetime", "live"} => frame.hint \in NoHint..MaxRounds
    /\ phase = "freezetime" => damage = 0

LEMMA NoneIsNoRound == None \notin CurrentRound
BY NoneAssumption

LEMMA InvalidatedType ==
    ASSUME NEW r \in Rounds
    PROVE  /\ InvalidateRound(r) \in Rounds /\ ~Trusted(InvalidateRound(r))
           /\ InvalidateRound(r) = None <=> r = None
<1>1. CASE r = None
    BY <1>1 DEF InvalidateRound, Trusted, Rounds
<1>2. CASE r \in CurrentRound
    <2>1. r # None
        BY <1>2, NoneIsNoRound
    <2>2. InvalidateRound(r) = [hint |-> r.hint, phase |-> r.phase, eligible |-> FALSE,
                                invalidated |-> TRUE, evidence |-> FALSE, damage |-> 0]
        BY <1>2, <2>1 DEF InvalidateRound, CurrentRound
    <2>3. 0 \in 0..MaxDamage
        BY TelemetryBounds
    <2>4. InvalidateRound(r) \in CurrentRound
        BY <1>2, <2>2, <2>3 DEF CurrentRound
    <2>5. ~Trusted(InvalidateRound(r))
        BY <2>2 DEF Trusted
    <2> QED BY <2>1, <2>4, <2>5, NoneIsNoRound DEF Rounds
<1> QED BY <1>1, <1>2 DEF Rounds

\* A frame either continues the round or breaks it, and a broken one is not believed.
LEMMA ContinuedIs ==
    ASSUME NEW r \in Rounds, NEW frame
    PROVE  /\ Continued(r, frame) \in Rounds
           /\ Trusted(Continued(r, frame)) => Continued(r, frame) = r
           /\ Trusted(Continued(r, frame)) /\ frame.phase = "freezetime" => r.phase = "freezetime"
           /\ Trusted(Continued(r, frame)) /\ frame.phase = "live" => SameHint(r, frame.hint)
<1>1. Continued(r, frame) \in {r, None, InvalidateRound(r)}
    BY DEF Continued
<1>2. InvalidateRound(r) \in Rounds /\ ~Trusted(InvalidateRound(r)) /\ None \in Rounds
    BY InvalidatedType DEF Rounds
<1>3. ~Trusted(None)
    BY DEF Trusted
<1>4. Trusted(Continued(r, frame)) => Continued(r, frame) = r
    BY <1>1, <1>2, <1>3
<1>5. ASSUME Trusted(Continued(r, frame)), frame.phase = "freezetime"
      PROVE  r.phase = "freezetime"
    BY <1>2, <1>3, <1>5 DEF Continued, Trusted
<1>6. ASSUME Trusted(Continued(r, frame)), frame.phase = "live"
      PROVE  SameHint(r, frame.hint)
    BY <1>2, <1>3, <1>6 DEF Continued, Trusted
<1> QED BY <1>1, <1>2, <1>4, <1>5, <1>6

LEMMA OpenedIs ==
    ASSUME NEW frame, NEW healthy \in BOOLEAN, frame.phase \in {"freezetime", "live"},
           frame.players \in BOOLEAN, frame.hint \in NoHint..MaxRounds
    PROVE  /\ Opened(frame, healthy) \in CurrentRound
           /\ Opened(frame, healthy).phase = frame.phase
           /\ Opened(frame, healthy).damage = 0 /\ ~Opened(frame, healthy).eligible
           /\ ~Opened(frame, healthy).invalidated => frame.phase = "freezetime"
<1>1. 0 \in 0..MaxDamage /\ frame.phase \in Phases
    BY TelemetryBounds DEF Phases
<1> QED BY <1>1 DEF Opened, CurrentRound

\* The update by the frame that continues or opens the round.
LEMMA UpdatedIs ==
    ASSUME NEW r \in CurrentRound, NEW frame, NEW healthy \in BOOLEAN,
           frame.phase \in Phases \cup {"unknown"}, frame.players \in BOOLEAN,
           frame.damage \in 0..MaxDamage
    PROVE  LET u == Updated(r, frame, healthy) IN
           /\ u \in CurrentRound
           /\ Trusted(u) => Trusted(r) /\ healthy /\ frame.players
           /\ u.phase = IF frame.phase = "unknown" THEN r.phase ELSE frame.phase
           /\ Trusted(u) => u.damage = IF frame.damage > r.damage THEN frame.damage ELSE r.damage
           /\ Trusted(u) => (u.eligible <=> \/ r.eligible
                                            \/ /\ r.phase = "freezetime" /\ frame.phase = "live"
                                               /\ SameHint(r, frame.hint))
<1> DEFINE u == Updated(r, frame, healthy)
           invalidated == r.invalidated \/ ~healthy \/ ~frame.players
           promotes == /\ ~invalidated /\ r.phase = "freezetime" /\ frame.phase = "live"
                       /\ r.evidence /\ SameHint(r, frame.hint)
           damage == IF invalidated THEN 0
                     ELSE IF frame.damage > r.damage THEN frame.damage ELSE r.damage
           phase == IF frame.phase = "unknown" THEN r.phase ELSE frame.phase
<1>1. u = [hint |-> r.hint, phase |-> phase, eligible |-> promotes \/ (r.eligible /\ ~invalidated),
           invalidated |-> invalidated, evidence |-> ~invalidated /\ r.evidence, damage |-> damage]
    BY DEF Updated
<1>2. /\ r.hint \in NoHint..MaxRounds /\ r.phase \in Phases /\ r.damage \in 0..MaxDamage
      /\ {r.eligible, r.invalidated, r.evidence} \subseteq BOOLEAN
    BY DEF CurrentRound
<1>3. phase \in Phases /\ damage \in 0..MaxDamage /\ invalidated \in BOOLEAN /\ promotes \in BOOLEAN
    BY <1>2, TelemetryBounds DEF Phases, SameHint
<1>4. u \in CurrentRound
    <2> HIDE DEF phase, damage, invalidated, promotes
    <2> QED BY <1>1, <1>2, <1>3 DEF CurrentRound
<1>5. r # None
    BY NoneIsNoRound
<1>6. Trusted(u) => r.evidence /\ ~invalidated
    <2> HIDE DEF phase, damage, invalidated, promotes
    <2> QED BY <1>1, <1>2, <1>3 DEF Trusted
<1>7. /\ u.phase = phase /\ u.damage = damage
      /\ u.eligible = (promotes \/ (r.eligible /\ ~invalidated))
    <2> HIDE DEF phase, damage, invalidated, promotes
    <2> QED BY <1>1
<1> QED BY <1>4, <1>5, <1>6, <1>7 DEF Trusted

\* What the statistics believe after a frame.  stable says that the frame is of the execution the
\* statistics are of.
FrameRound(r, frame, stable, healthy) ==
    LET kept == IF ~stable THEN None
                ELSE Continued(IF healthy THEN r ELSE InvalidateRound(r), frame)
        round == IF kept = None /\ frame.phase \in {"freezetime", "live"}
                 THEN Opened(frame, healthy) ELSE kept
    IN  IF round = None THEN None ELSE Updated(round, frame, healthy)

LEMMA FrameRoundFits ==
    ASSUME NEW r \in Rounds, NEW frame, NEW phase, NEW damage, Tells(frame, phase, damage),
           NEW stable \in BOOLEAN, NEW healthy \in BOOLEAN, NEW known \in BOOLEAN,
           RoundFits(r, phase, known, damage)
    PROVE  LET u == FrameRound(r, frame, stable, healthy) IN
           /\ u \in Rounds
           /\ frame.phase # "over" => RoundFits(u, phase, known \/ frame.phase # "unknown", damage)
           /\ frame.phase = "over" /\ Counts(u) => stable /\ r # None /\ u.damage = damage
           /\ Trusted(u) /\ frame.phase # "unknown" => u.damage = damage /\ frame.damage = damage
           /\ phase = "over" /\ r = None => u = None
<1> DEFINE old == IF healthy THEN r ELSE InvalidateRound(r)
           kept == IF ~stable THEN None ELSE Continued(old, frame)
           round == IF kept = None /\ frame.phase \in {"freezetime", "live"}
                    THEN Opened(frame, healthy) ELSE kept
           u == IF round = None THEN None ELSE Updated(round, frame, healthy)
<1>1. u = FrameRound(r, frame, stable, healthy)
    BY DEF FrameRound
<1>2. old \in Rounds /\ (Trusted(old) => old = r)
    BY InvalidatedType
<1>3. /\ kept \in Rounds /\ ~Trusted(None)
      /\ Trusted(kept) => kept = r /\ stable /\ Trusted(r)
      /\ Trusted(kept) /\ frame.phase = "freezetime" => r.phase = "freezetime"
      /\ Trusted(kept) /\ frame.phase = "live" => SameHint(r, frame.hint)
    <2>1. ~Trusted(None) /\ None \in Rounds
        BY DEF Trusted, Rounds
    <2>2. CASE stable
        <3> HIDE DEF old
        <3> QED BY <1>2, <2>1, <2>2, ContinuedIs
    <2>3. CASE ~stable
        BY <2>1, <2>3
    <2> QED BY <2>2, <2>3
<1> HIDE DEF old, kept
<1>4. /\ frame.phase \in Phases \cup {"unknown"} /\ frame.players \in BOOLEAN
      /\ frame.damage \in 0..MaxDamage /\ damage \in 0..MaxDamage /\ damage \in Nat
      /\ frame.players => frame.damage = damage
      /\ frame.phase \in {"freezetime", "live"} => frame.hint \in NoHint..MaxRounds
      /\ frame.phase \in {"unknown", phase} /\ phase \in Phases
      /\ phase = "freezetime" => damage = 0
    BY TelemetryBounds DEF Tells, Phases
<1>5. /\ round \in Rounds
      /\ \/ round = kept
         \/ /\ round \in CurrentRound /\ round.phase = frame.phase /\ round.damage = 0
            /\ ~round.eligible /\ frame.phase \in {"freezetime", "live"}
            /\ Trusted(round) => frame.phase = "freezetime"
    <2>1. CASE kept = None /\ frame.phase \in {"freezetime", "live"}
        <3>1. round = Opened(frame, healthy)
            BY <2>1
        <3>2. /\ round \in CurrentRound /\ round.phase = frame.phase /\ round.damage = 0
              /\ ~round.eligible /\ (~round.invalidated => frame.phase = "freezetime")
            BY <1>4, <2>1, <3>1, OpenedIs
        <3> HIDE DEF round
        <3> QED BY <2>1, <3>2 DEF Rounds, Trusted
    <2>2. CASE ~(kept = None /\ frame.phase \in {"freezetime", "live"})
        BY <1>3, <2>2
    <2> QED BY <2>1, <2>2
<1>6. kept = None /\ phase = "over" => round = None
    BY <1>4
<1> HIDE DEF round
<1>7. ASSUME round # None
      PROVE  /\ u \in CurrentRound
             /\ Trusted(u) => Trusted(round) /\ healthy /\ frame.players
             /\ u.phase = IF frame.phase = "unknown" THEN round.phase ELSE frame.phase
             /\ Trusted(u) => u.damage = IF frame.damage > round.damage
                                         THEN frame.damage ELSE round.damage
             /\ Trusted(u) => (u.eligible <=> \/ round.eligible
                                              \/ /\ round.phase = "freezetime"
                                                 /\ frame.phase = "live"
                                                 /\ SameHint(round, frame.hint))
    <2>1. round \in CurrentRound
        BY <1>5, <1>7 DEF Rounds
    <2>2. u = Updated(round, frame, healthy)
        BY <1>7
    <2> QED BY <1>4, <2>1, <2>2, UpdatedIs
<1>8. u \in Rounds /\ (Trusted(u) => round # None)
    <2>1. CASE round = None
        BY <1>3, <2>1 DEF Rounds
    <2>2. CASE round # None
        BY <1>7, <2>2 DEF Rounds
    <2> QED BY <2>1, <2>2
<1>9. Counts(u) => Trusted(u) /\ u.eligible
    BY DEF Counts, Trusted
<1> HIDE DEF u
<1>10. ASSUME Trusted(u), round = kept
       PROVE  /\ Trusted(r) /\ round = r /\ stable
              /\ r.damage \in Nat /\ r.phase \in Phases
    <2>1. Trusted(r) /\ round = r /\ stable
        BY <1>3, <1>7, <1>8, <1>10
    <2>2. r \in CurrentRound
        BY <2>1 DEF Trusted, Rounds
    <2> QED BY <2>1, <2>2, TelemetryBounds DEF CurrentRound
<1>11. ASSUME frame.phase # "over"
       PROVE  RoundFits(u, phase, known \/ frame.phase # "unknown", damage)
    <2> SUFFICES ASSUME Trusted(u)
                 PROVE  RoundFits(u, phase, known \/ frame.phase # "unknown", damage)
        BY DEF RoundFits
    <2>1. CASE round = kept
        <3>1. /\ Trusted(r) /\ round = r /\ r.damage \in Nat /\ frame.damage = damage
              /\ u.phase = IF frame.phase = "unknown" THEN r.phase ELSE frame.phase
              /\ u.damage = IF damage > r.damage THEN damage ELSE r.damage
              /\ (u.eligible <=> \/ r.eligible
                                 \/ /\ r.phase = "freezetime" /\ frame.phase = "live"
                                    /\ SameHint(r, frame.hint))
            BY <1>4, <1>7, <1>8, <1>10, <2>1
        <3>2. CASE frame.phase = "unknown"
            BY <1>4, <3>1, <3>2 DEF RoundFits
        <3>3. CASE frame.phase = "freezetime"
            <4>1. phase = "freezetime" /\ r.phase = "freezetime" /\ damage = 0
                BY <1>3, <1>4, <2>1, <3>1, <3>3
            <4>2. r.damage = 0
                BY <3>1, <4>1 DEF RoundFits
            <4> QED BY <3>1, <3>3, <4>1, <4>2 DEF RoundFits
        <3>4. CASE frame.phase = "live"
            <4>1. phase = "live" /\ SameHint(r, frame.hint)
                BY <1>3, <1>4, <2>1, <3>1, <3>4
            <4>2. r.damage <= damage /\ (r.eligible \/ r.phase = "freezetime")
                BY <3>1, <4>1 DEF RoundFits
            <4> QED BY <1>4, <3>1, <3>4, <4>1, <4>2 DEF RoundFits
        <3> QED BY <1>4, <1>11, <3>2, <3>3, <3>4 DEF Phases
    <2>2. CASE round # kept
        <3>1. /\ round.phase = "freezetime" /\ frame.phase = "freezetime" /\ round.damage = 0
              /\ ~round.eligible /\ phase = "freezetime" /\ damage = 0 /\ frame.damage = 0
            BY <1>4, <1>5, <1>7, <1>8, <2>2
        <3>2. u.phase = "freezetime" /\ u.damage = 0 /\ ~u.eligible
            BY <1>7, <1>8, <3>1
        <3> QED BY <3>1, <3>2 DEF RoundFits
    <2> QED BY <2>1, <2>2
<1>12. ASSUME frame.phase = "over", Trusted(u)
       PROVE  stable /\ r # None /\ u.damage = damage
    <2>1. round = kept
        BY <1>5, <1>12
    <2>2. /\ Trusted(r) /\ round = r /\ stable /\ r.damage \in Nat /\ frame.damage = damage
          /\ u.damage = IF damage > r.damage THEN damage ELSE r.damage
        BY <1>4, <1>7, <1>8, <1>10, <1>12, <2>1
    <2>3. r.damage <= damage
        BY <1>4, <1>12, <2>2 DEF RoundFits
    <2> QED BY <1>4, <2>2, <2>3 DEF Trusted
<1>15. Trusted(u) => frame.damage = damage
    BY <1>4, <1>7, <1>8
<1>13. ASSUME Trusted(u), frame.phase # "unknown"
       PROVE  u.damage = damage
    <2>1. CASE frame.phase = "over"
        BY <1>12, <1>13, <2>1
    <2>2. CASE frame.phase # "over"
        <3>1. RoundFits(u, phase, TRUE, damage)
            BY <1>11, <1>13, <2>2
        <3>2. CASE round = kept
            <4>1. /\ Trusted(r) /\ round = r /\ r.damage \in Nat /\ frame.damage = damage
                  /\ u.damage = IF damage > r.damage THEN damage ELSE r.damage
                BY <1>4, <1>7, <1>8, <1>10, <1>13, <3>2
            <4>2. phase = "freezetime" => u.damage = 0 /\ damage = 0
                BY <1>4, <1>13, <3>1 DEF RoundFits
            <4>3. phase # "freezetime" => u.damage <= damage
                BY <1>13, <3>1 DEF RoundFits
            <4> QED BY <1>4, <4>1, <4>2, <4>3
        <3>3. CASE round # kept
            <4>1. u.damage = 0 /\ damage = 0
                BY <1>4, <1>5, <1>7, <1>8, <1>13, <3>1, <3>3 DEF RoundFits
            <4> QED BY <4>1
        <3> QED BY <3>2, <3>3
    <2> QED BY <2>1, <2>2
<1>14. ASSUME phase = "over", r = None PROVE u = None
    <2>1. old = None
        BY <1>14 DEF old, InvalidateRound
    <2>2. kept = None
        BY <2>1 DEF kept, Continued
    <2> QED BY <1>6, <1>14, <2>2 DEF u
<1> QED BY <1>1, <1>8, <1>9, <1>11, <1>12, <1>13, <1>14, <1>15

LEMMA StatsGrow ==
    ASSUME NEW s, NEW epoch, NEW rounds \in Nat, NEW damage \in Nat, NEW current, NEW more,
           s = [epoch |-> epoch, rounds |-> rounds, damage |-> damage, current |-> current],
           NEW t, t = [s EXCEPT !.rounds = @ + 1, !.damage = @ + more, !.current = None]
    PROVE  t = [epoch |-> epoch, rounds |-> rounds + 1, damage |-> damage + more,
                current |-> None]
OBVIOUS

LEMMA ReduceStatsIs ==
    ASSUME NEW s \in [epoch : Nat, rounds : Nat, damage : Nat, current : Rounds],
           NEW frame, NEW epoch \in Nat, NEW continuity
    PROVE  LET stable == s.epoch = epoch
               healthy == ~stable \/ continuity \in {"baseline", "contiguous"}
               u == FrameRound(s.current, frame, stable, healthy)
               adds == frame.phase = "over" /\ Counts(u)
           IN  /\ RoundAfter(s, frame, epoch, continuity) = u
               /\ ReduceStats(s, frame, epoch, continuity) =
                    [epoch |-> epoch,
                     rounds |-> (IF stable THEN s.rounds ELSE 0) + (IF adds THEN 1 ELSE 0),
                     damage |-> (IF stable THEN s.damage ELSE 0) + (IF adds THEN u.damage ELSE 0),
                     current |-> IF frame.phase = "over" THEN None ELSE u]
<1> DEFINE stable == s.epoch = epoch
           healthy == ~stable \/ continuity \in {"baseline", "contiguous"}
           u == FrameRound(s.current, frame, stable, healthy)
           base == IF s.epoch # epoch THEN EmptyStats(epoch) ELSE s
           rounds == IF stable THEN s.rounds ELSE 0
           damage == IF stable THEN s.damage ELSE 0
<1>1. RoundAfter(s, frame, epoch, continuity) = u
    BY DEF RoundAfter, FrameRound
<1>2. base = [epoch |-> epoch, rounds |-> rounds, damage |-> damage, current |-> base.current]
    <2>1. CASE stable
        BY <2>1
    <2>2. CASE ~stable
        BY <2>2 DEF EmptyStats
    <2> QED BY <2>1, <2>2
<1>3. ReduceStats(s, frame, epoch, continuity) =
        IF frame.phase # "over" THEN [base EXCEPT !.current = u]
        ELSE IF Counts(u)
        THEN [base EXCEPT !.rounds = @ + 1, !.damage = @ + u.damage, !.current = None]
        ELSE [base EXCEPT !.current = None]
    BY <1>1 DEF ReduceStats
<1>4. rounds \in Nat /\ damage \in Nat
    OBVIOUS
<1> HIDE DEF u, base, rounds, damage
<1>5. ASSUME NEW t, t = ReduceStats(s, frame, epoch, continuity)
      PROVE  t = [epoch |-> epoch,
                  rounds |-> rounds + (IF frame.phase = "over" /\ Counts(u) THEN 1 ELSE 0),
                  damage |-> damage + (IF frame.phase = "over" /\ Counts(u) THEN u.damage ELSE 0),
                  current |-> IF frame.phase = "over" THEN None ELSE u]
    <2>1. rounds + 0 = rounds /\ damage + 0 = damage
        BY <1>4
    <2>2. CASE frame.phase # "over"
        <3>1. t = [base EXCEPT !.current = u]
            BY <1>3, <1>5, <2>2
        <3> QED BY <1>2, <2>1, <2>2, <3>1
    <2>3. CASE frame.phase = "over" /\ Counts(u)
        <3> DEFINE more == u.damage
        <3>1. t = [base EXCEPT !.rounds = @ + 1, !.damage = @ + more, !.current = None]
            BY <1>3, <1>5, <2>3
        <3> HIDE DEF more
        <3>2. t = [epoch |-> epoch, rounds |-> rounds + 1, damage |-> damage + more,
                   current |-> None]
            <4> DEFINE last == base.current
            <4>1. base = [epoch |-> epoch, rounds |-> rounds, damage |-> damage, current |-> last]
                BY <1>2
            <4> HIDE DEF last
            <4> QED BY <1>4, <3>1, <4>1, StatsGrow
        <3> QED BY <2>3, <3>2 DEF more
    <2>4. CASE frame.phase = "over" /\ ~Counts(u)
        <3>1. t = [base EXCEPT !.current = None]
            BY <1>3, <1>5, <2>4
        <3> QED BY <1>2, <2>1, <2>4, <3>1
    <2> QED BY <2>2, <2>3, <2>4
<1> QED BY <1>1, <1>5 DEF u, rounds, damage

-----------------------------------------------------------------------------
(* The invariant *)

StatsSet == [epoch : Nat, rounds : Nat, damage : Nat, current : Rounds]

StateSet == [generation : Nat, accepted : {None} \cup 0..MaxBreaks, epoch : Nat,
             name : {None} \cup 1..MaxMaps, telemetry : {None} \cup Picture]

Games == [map : 1..MaxMaps, round : 0..MaxRounds, phase : Phases, damage : 0..MaxDamage,
          bomb : Bombs]

\* The histories name plays there were.
TelemetryTypes ==
    /\ game \in Games /\ plays \in Seq(0..MaxDamage) /\ Len(plays) \in 1..MaxPlays
    /\ {heard, shown, silent, skipped} \subseteq BOOLEAN
    /\ state \in StateSet /\ stats \in StatsSet /\ anchor \in {None} \cup 1..MaxPlays
    /\ {started, ended, counted} \subseteq Seq(1..Len(plays))
    /\ resets \in Nat

\* The game, and what was heard of its phase.
WorldInv ==
    /\ plays[Len(plays)] = game.damage
    /\ game.phase = "freezetime" => game.damage = 0 /\ game.bomb = "carried"
    /\ game.phase = "over" => game.bomb = "gone"
    /\ shown => heard
    /\ heard => ~silent /\ state.accepted # None

NamesSeen == IF state.name = None THEN 0 ELSE state.name

\* Epochs are counted by names and resets, and before the first frame there is nothing.
EpochInv ==
    /\ state.generation + resets <= MaxBreaks
    /\ state.accepted = None => stats.current = None /\ anchor = None
    /\ state.epoch <= NamesSeen + resets /\ stats.epoch <= NamesSeen + resets
    /\ NamesSeen <= game.map

NamesThisPlay(s) == \E i \in 1..Len(s) : s[i] = Len(plays)

\* The plays counted are counted once, in order, and the last one only when it is over.
CountInv ==
    /\ \A i \in 1..Len(counted) : counted[i] >= i
    /\ \A i, j \in 1..Len(counted) : i < j => counted[i] < counted[j]
    /\ stats.rounds = Len(counted) /\ stats.damage = DamageIn(counted, plays)
    /\ stats.damage <= stats.rounds * MaxDamage
    /\ NamesThisPlay(counted) => game.phase = "over" /\ stats.current = None

\* The play whose edge was named is past it, and so is the last frame.
EdgesInv ==
    /\ Distinct(started) /\ Distinct(ended)
    /\ NamesThisPlay(started) =>
        /\ game.phase # "freezetime"
        /\ state.telemetry # None => state.telemetry.phase # "freezetime"
    /\ NamesThisPlay(ended) =>
        game.phase = "over" /\ (state.telemetry # None => state.telemetry.phase # "live")

RoundInv == ~silent => RoundFits(stats.current, game.phase, shown, game.damage)

\* An anchor of another play is gone with the next frame.
AnchorInv ==
    anchor # None /\ ~silent => anchor = Len(plays) \/ (game.phase = "freezetime" /\ ~heard)

TelemetryIInv ==
    /\ TelemetryTypes /\ WorldInv /\ EpochInv /\ CountInv /\ EdgesInv /\ RoundInv /\ AnchorInv
    /\ LiveDamageIsThisRound

LEMMA SequenceWidens ==
    ASSUME NEW S, NEW T, \A x \in S : x \in T, NEW s \in Seq(S)
    PROVE  s \in Seq(T)
OBVIOUS

LEMMA IncreasingIsDistinct ==
    ASSUME NEW s \in Seq(Nat), \A i, j \in 1..Len(s) : i < j => s[i] < s[j]
    PROVE  Distinct(s)
<1> SUFFICES ASSUME NEW i \in DOMAIN s, NEW j \in DOMAIN s, s[i] = s[j] PROVE i = j
    BY DEF Distinct
<1>1. i \in 1..Len(s) /\ j \in 1..Len(s) /\ s[i] \in Nat /\ s[j] \in Nat
    OBVIOUS
<1>2. ~(i < j) /\ ~(j < i)
    BY <1>1
<1> QED BY <1>1, <1>2

LEMMA AppendedIsDistinct ==
    ASSUME NEW S, NEW s \in Seq(S), NEW x \in S, Distinct(s), \A i \in 1..Len(s) : s[i] # x
    PROVE  Distinct(Append(s, x))
<1> DEFINE t == Append(s, x)
<1>1. /\ Len(t) = Len(s) + 1 /\ Len(s) \in Nat /\ DOMAIN t = 1..Len(t) /\ t[Len(s) + 1] = x
      /\ \A i \in 1..Len(s) : t[i] = s[i]
      /\ DOMAIN s = 1..Len(s)
    OBVIOUS
<1> HIDE DEF t
<1>2. \A i \in 1..Len(t) : i \in 1..Len(s) \/ i = Len(s) + 1
    BY <1>1
<1>3. Distinct(t)
    BY <1>1, <1>2 DEF Distinct
<1> QED BY <1>3 DEF t

LEMMA ProductGrows ==
    ASSUME NEW a \in Nat, NEW b \in Nat, NEW c \in Nat, a <= b
    PROVE  a * c <= b * c
<1>1. PICK d \in Nat : b = a + d
    <2>1. b - a \in Nat /\ b = a + (b - a)
        OBVIOUS
    <2> QED BY <2>1
<1>2. b * c = a * c + d * c
    BY <1>1
<1>3. d * c >= 0 /\ d * c \in Nat /\ a * c \in Nat
    OBVIOUS
<1> QED BY <1>2, <1>3

\* The invariant implies what is promised.
LEMMA TelemetryTypesFollow ==
    ASSUME TelemetryIInv
    PROVE  TypeOK
<1>1. TelemetryTypes /\ EpochInv /\ CountInv
    BY DEF TelemetryIInv
<1>2. /\ {MaxMaps, MaxPlays, MaxRounds, MaxDamage, MaxBreaks} \subseteq Nat
      /\ state \in StateSet /\ stats \in StatsSet /\ resets \in Nat /\ game \in Games
    BY <1>1, TelemetryBounds DEF TelemetryTypes
<1>3. /\ state.generation \in Nat /\ state.epoch \in Nat /\ stats.epoch \in Nat
      /\ game.map \in 1..MaxMaps /\ NamesSeen \in Nat
      /\ stats.rounds \in Nat /\ stats.damage \in Nat
      /\ stats.current \in Rounds
    BY <1>2 DEF StateSet, StatsSet, Games, NamesSeen
<1>4. /\ state.generation \in 0..MaxBreaks /\ resets \in 0..MaxBreaks
      /\ state.epoch \in 0..(MaxMaps + MaxBreaks) /\ stats.epoch \in 0..(MaxMaps + MaxBreaks)
    BY <1>1, <1>2, <1>3 DEF EpochInv
<1>5. stats.rounds \in 0..MaxPlays
    <2>1. counted \in Seq(1..Len(plays)) /\ Len(plays) <= MaxPlays /\ Len(plays) \in Nat
        BY <1>1 DEF TelemetryTypes
    <2>2. CASE Len(counted) = 0
        BY <1>1, <1>2, <2>2 DEF CountInv
    <2>3. CASE Len(counted) # 0
        <3>1. Len(counted) \in 1..Len(counted) /\ counted[Len(counted)] \in 1..Len(plays)
            BY <2>1, <2>3
        <3>2. counted[Len(counted)] >= Len(counted)
            BY <1>1, <3>1 DEF CountInv
        <3> QED BY <1>1, <1>2, <1>3, <2>1, <3>1, <3>2 DEF CountInv
    <2> QED BY <2>2, <2>3
<1>6. stats.damage \in 0..(MaxPlays * MaxDamage)
    <2>1. stats.rounds * MaxDamage <= MaxPlays * MaxDamage
        BY <1>2, <1>3, <1>5, ProductGrows
    <2>2. MaxPlays * MaxDamage \in Nat /\ stats.rounds * MaxDamage \in Nat
        BY <1>2, <1>3
    <2> QED BY <1>1, <1>3, <2>1, <2>2 DEF CountInv
<1>7. state \in [generation : 0..MaxBreaks, accepted : {None} \cup 0..MaxBreaks,
                 epoch : 0..(MaxMaps + MaxBreaks), name : {None} \cup 1..MaxMaps,
                 telemetry : {None} \cup Picture]
    BY <1>2, <1>4 DEF StateSet
<1>8. stats \in [epoch : 0..(MaxMaps + MaxBreaks), rounds : 0..MaxPlays,
                 damage : 0..(MaxPlays * MaxDamage), current : {None} \cup CurrentRound]
    BY <1>2, <1>4, <1>5, <1>6 DEF StatsSet, Rounds
<1>9. {started, ended, counted} \subseteq Seq(1..MaxPlays)
    <2>1. \A i \in 1..Len(plays) : i \in 1..MaxPlays
        BY <1>1, <1>2 DEF TelemetryTypes
    <2>2. \A s \in Seq(1..Len(plays)) : s \in Seq(1..MaxPlays)
        BY <2>1, SequenceWidens
    <2> QED BY <1>1, <2>2 DEF TelemetryTypes
<1> QED BY <1>1, <1>2, <1>4, <1>7, <1>8, <1>9 DEF TelemetryTypes, TypeOK, Games

LEMMA TelemetryIsSound ==
    ASSUME TelemetryIInv
    PROVE  TelemetryInv
<1>1. AdrIsExact
    <2>1. counted \in Seq(Nat)
        <3>1. \A i \in 1..Len(plays) : i \in Nat
            OBVIOUS
        <3>2. counted \in Seq(1..Len(plays))
            BY DEF TelemetryIInv, TelemetryTypes
        <3> QED BY <3>1, <3>2
    <2> QED BY <2>1, IncreasingIsDistinct DEF TelemetryIInv, CountInv, AdrIsExact
<1>2. RoundEdgesOnce /\ LiveDamageIsThisRound
    BY DEF TelemetryIInv, EdgesInv, RoundEdgesOnce
<1>3. AnchorIsThisBomb
    BY DEF TelemetryIInv, AnchorInv, WorldInv, AnchorIsThisBomb, ThisPlay
<1> QED BY <1>1, <1>2, <1>3, TelemetryTypesFollow DEF TelemetryInv

LEMMA TelemetryStarts ==
    ASSUME Init
    PROVE  TelemetryIInv
<1>1. /\ 0 \in Nat /\ 1 \in Nat /\ 1 \in 1..MaxMaps /\ 0 \in 0..MaxRounds
      /\ 0 \in 0..MaxDamage /\ 1 \in 1..MaxPlays /\ MaxBreaks \in Nat /\ MaxDamage \in Nat
    BY TelemetryBounds
<1>2. stats = [epoch |-> 0, rounds |-> 0, damage |-> 0, current |-> None]
    BY DEF Init, EmptyStats
<1>3. TelemetryTypes
    <2>1. plays \in Seq(0..MaxDamage) /\ Len(plays) = 1
        BY <1>1 DEF Init
    <2>2. game \in Games
        BY <1>1 DEF Init, Games, Phases, Bombs
    <2>3. state \in StateSet
        BY <1>1 DEF Init, StateSet
    <2>4. stats \in StatsSet
        BY <1>1, <1>2 DEF StatsSet, Rounds
    <2>5. {started, ended, counted} \subseteq Seq(1..Len(plays))
        BY DEF Init
    <2> QED BY <1>1, <2>1, <2>2, <2>3, <2>4, <2>5 DEF Init, TelemetryTypes
<1>4. WorldInv
    BY DEF Init, WorldInv
<1>5. EpochInv
    BY <1>1, <1>2 DEF Init, EpochInv, NamesSeen
<1>6. CountInv
    <2>1. counted = <<>> /\ Len(counted) = 0 /\ DamageIn(counted, plays) = 0
        BY DamageOfNothing DEF Init
    <2> QED BY <1>1, <1>2, <2>1 DEF CountInv, NamesThisPlay
<1>7. EdgesInv
    BY DEF Init, EdgesInv, NamesThisPlay, Distinct
<1>8. RoundInv /\ AnchorInv /\ LiveDamageIsThisRound
    BY <1>2 DEF Init, RoundInv, RoundFits, Trusted, AnchorInv, LiveDamageIsThisRound
<1> QED BY <1>3, <1>4, <1>5, <1>6, <1>7, <1>8 DEF TelemetryIInv

-----------------------------------------------------------------------------
(* A frame *)

\* What any frame says that GsiFrame can send.
Sent(frame) ==
    /\ Tells(frame, game.phase, game.damage)
    /\ frame.name \in {None, game.map} /\ frame.bomb \in {game.bomb, "unknown"}

EpochOf(frame) == NextEpoch(state, frame.name)
OldRound(late) == IF late THEN InvalidateRound(stats.current) ELSE stats.current
Stable(frame) == stats.epoch = EpochOf(frame)
RoundNow(frame, late) ==
    FrameRound(OldRound(late), frame, Stable(frame),
               ~Stable(frame) \/ Classified \in {"baseline", "contiguous"})
Adds(frame, late) == frame.phase = "over" /\ Counts(RoundNow(frame, late))
Known(frame) == IF Stable(frame) THEN counted ELSE <<>>

LEMMA FramesSent ==
    ASSUME TelemetryTypes, WorldInv,
           NEW lacks, NEW countdown, NEW endHint
    PROVE  Sent(FrameOf(lacks, countdown, endHint))
<1> DEFINE frame == FrameOf(lacks, countdown, endHint)
<1>1. /\ frame.phase = IF lacks = "round" THEN "unknown" ELSE game.phase
      /\ frame.name = IF lacks = "map" THEN None ELSE game.map
      /\ frame.bomb = IF lacks = "bomb" THEN "unknown" ELSE game.bomb
      /\ frame.players = (lacks # "allplayers")
      /\ frame.damage = IF lacks = "allplayers" THEN 0 ELSE game.damage
      /\ frame.hint = IF lacks = "map" THEN NoHint
                      ELSE IF game.phase = "over" THEN game.round + endHint ELSE game.round
    BY DEF FrameOf
<1>2. game.phase \in Phases /\ game.damage \in 0..MaxDamage /\ game.round \in 0..MaxRounds
    BY DEF TelemetryTypes, Games
<1>3. NoHint \in NoHint..MaxRounds /\ game.round \in NoHint..MaxRounds
    BY <1>2, TelemetryBounds DEF NoHint
<1> HIDE DEF frame
<1>4. frame.phase \in {"freezetime", "live"} => frame.hint \in NoHint..MaxRounds
    BY <1>1, <1>3
<1>5. game.phase = "freezetime" => game.damage = 0
    BY DEF WorldInv
<1>6. Tells(frame, game.phase, game.damage)
    BY <1>1, <1>2, <1>4, <1>5 DEF Tells
<1> QED BY <1>1, <1>6 DEF Sent, frame

LEMMA EpochsAreCounted ==
    ASSUME TelemetryTypes, EpochInv, NEW frame, frame.name \in {None, game.map}
    PROVE  /\ EpochOf(frame) \in Nat
           /\ LET name == IF frame.name = None THEN state.name ELSE frame.name
                  count == IF name = None THEN 0 ELSE name
              IN  /\ name \in {None} \cup 1..MaxMaps /\ count <= game.map
                  /\ EpochOf(frame) <= count + resets
<1>1. /\ state.epoch \in Nat /\ resets \in Nat /\ game.map \in 1..MaxMaps /\ game.map \in Nat
      /\ state.name \in {None} \cup 1..MaxMaps
    BY TelemetryBounds DEF TelemetryTypes, StateSet, Games
<1>2. /\ state.epoch <= (IF state.name = None THEN 0 ELSE state.name) + resets
      /\ (IF state.name = None THEN 0 ELSE state.name) <= game.map
    BY DEF EpochInv, NamesSeen
<1>3. EpochOf(frame) = IF frame.name = None \/ frame.name = state.name
                      THEN state.epoch ELSE state.epoch + 1
    BY DEF EpochOf, NextEpoch
<1>4. game.map # None
    BY <1>1, NoneAssumption, TelemetryBounds
<1>5. CASE frame.name = None \/ frame.name = state.name
    BY <1>1, <1>2, <1>3, <1>5
<1>6. CASE frame.name = game.map /\ frame.name # state.name
    <2>1. EpochOf(frame) = state.epoch + 1
        BY <1>3, <1>4, <1>6
    <2>2. (IF state.name = None THEN 0 ELSE state.name) + 1 <= game.map
        BY <1>1, <1>2, <1>6
    <2> QED BY <1>1, <1>2, <1>4, <1>6, <2>1, <2>2
<1> QED BY <1>5, <1>6

LEMMA StatsAfterFrame ==
    ASSUME TelemetryTypes, EpochInv, NEW frame, NEW late \in BOOLEAN,
           Sent(frame), ObserveFrame(frame, late)
    PROVE  LET u == RoundNow(frame, late) IN
           /\ stats' = [epoch |-> EpochOf(frame),
                        rounds |-> (IF Stable(frame) THEN stats.rounds ELSE 0)
                                   + (IF Adds(frame, late) THEN 1 ELSE 0),
                        damage |-> (IF Stable(frame) THEN stats.damage ELSE 0)
                                   + (IF Adds(frame, late) THEN u.damage ELSE 0),
                        current |-> IF frame.phase = "over" THEN None ELSE u]
           /\ counted' = IF Adds(frame, late) THEN Append(Known(frame), Len(plays))
                         ELSE Known(frame)
<1> DEFINE s == IF late THEN Invalidate(stats) ELSE stats
           after == ReduceStats(s, frame, EpochOf(frame), Classified)
           u == RoundNow(frame, late)
<1>1. EpochOf(frame) \in Nat
    BY EpochsAreCounted DEF Sent
<1>2. stats \in StatsSet /\ OldRound(late) \in Rounds
    BY InvalidatedType DEF TelemetryTypes, StatsSet, OldRound
<1>3. s = [epoch |-> stats.epoch, rounds |-> stats.rounds, damage |-> stats.damage,
           current |-> OldRound(late)]
    BY <1>2 DEF Invalidate, OldRound, StatsSet
<1>4. s \in [epoch : Nat, rounds : Nat, damage : Nat, current : Rounds]
    BY <1>2, <1>3 DEF StatsSet
<1>5. /\ stats' = after
      /\ counted' = IF /\ frame.phase = "over"
                       /\ Counts(RoundAfter(s, frame, EpochOf(frame), Classified))
                    THEN Append(IF s.epoch = EpochOf(frame) THEN counted ELSE <<>>, Len(plays))
                    ELSE IF s.epoch = EpochOf(frame) THEN counted ELSE <<>>
    <2>1. CASE late
        BY <2>1 DEF ObserveFrame, AdvanceGeneration, EpochOf, ThisPlay
    <2>2. CASE ~late
        BY <2>2 DEF ObserveFrame, EpochOf, ThisPlay
    <2> QED BY <2>1, <2>2
<1> HIDE DEF s
<1>6. /\ s.epoch = stats.epoch /\ s.rounds = stats.rounds /\ s.damage = stats.damage
      /\ s.current = OldRound(late)
    BY <1>3
<1>7. /\ RoundAfter(s, frame, EpochOf(frame), Classified) = u
      /\ after = [epoch |-> EpochOf(frame),
                  rounds |-> (IF Stable(frame) THEN s.rounds ELSE 0)
                             + (IF Adds(frame, late) THEN 1 ELSE 0),
                  damage |-> (IF Stable(frame) THEN s.damage ELSE 0)
                             + (IF Adds(frame, late) THEN u.damage ELSE 0),
                  current |-> IF frame.phase = "over" THEN None ELSE u]
    BY <1>1, <1>4, <1>6, ReduceStatsIs DEF RoundNow, Stable, Adds
<1> QED BY <1>5, <1>6, <1>7 DEF Adds, Known, Stable

LEMMA StateAfterFrame ==
    ASSUME TelemetryTypes, NEW frame, NEW late \in BOOLEAN, ObserveFrame(frame, late)
    PROVE  /\ state' = [generation |-> IF late THEN state.generation + 1 ELSE state.generation,
                        accepted |-> IF late THEN state.generation + 1 ELSE state.generation,
                        epoch |-> EpochOf(frame),
                        name |-> IF frame.name = None THEN state.name ELSE frame.name,
                        telemetry |-> [phase |-> frame.phase, players |-> frame.players,
                                       damage |-> frame.damage]]
           /\ late => state.generation + resets < MaxBreaks
           /\ silent => late
           /\ heard' = TRUE /\ shown' = (shown \/ frame.phase # "unknown")
           /\ silent' = FALSE /\ skipped' = FALSE
           /\ game' = game /\ plays' = plays /\ resets' = resets
<1>1. state \in StateSet
    BY DEF TelemetryTypes
<1>2. CASE late
    BY <1>1, <1>2 DEF ObserveFrame, AdvanceGeneration, EpochOf, StateSet, MoreBreaks, world
<1>3. CASE ~late
    BY <1>1, <1>3 DEF ObserveFrame, EpochOf, StateSet, MoreBreaks, world
<1> QED BY <1>2, <1>3

LEMMA FieldsAfterFrame ==
    ASSUME TelemetryTypes, NEW frame, NEW late \in BOOLEAN, ObserveFrame(frame, late)
    PROVE  LET g == IF late THEN state.generation + 1 ELSE state.generation IN
           /\ game' = game /\ plays' = plays /\ resets' = resets
           /\ heard' = TRUE /\ silent' = FALSE /\ (silent => late)
           /\ shown' = (shown \/ frame.phase # "unknown")
           /\ state'.generation = g /\ state'.accepted = g /\ state'.epoch = EpochOf(frame)
           /\ state'.name = IF frame.name = None THEN state.name ELSE frame.name
           /\ state'.telemetry.phase = frame.phase /\ state'.telemetry.damage = frame.damage
           /\ late => state.generation + resets < MaxBreaks
<1> DEFINE g == IF late THEN state.generation + 1 ELSE state.generation
           name == IF frame.name = None THEN state.name ELSE frame.name
           telemetry == [phase |-> frame.phase, players |-> frame.players,
                         damage |-> frame.damage]
<1>1. state' = [generation |-> g, accepted |-> g, epoch |-> EpochOf(frame), name |-> name,
                telemetry |-> telemetry]
    BY StateAfterFrame
<1>2. telemetry.phase = frame.phase /\ telemetry.damage = frame.damage
    OBVIOUS
<1> HIDE DEF g, name, telemetry
<1>3. /\ state'.generation = g /\ state'.accepted = g /\ state'.epoch = EpochOf(frame)
      /\ state'.name = name /\ state'.telemetry = telemetry
    BY <1>1
<1>4. /\ game' = game /\ plays' = plays /\ resets' = resets
      /\ heard' = TRUE /\ silent' = FALSE /\ (silent => late)
      /\ shown' = (shown \/ frame.phase # "unknown")
      /\ late => state.generation + resets < MaxBreaks
    BY StateAfterFrame
<1> QED BY <1>2, <1>3, <1>4 DEF g, name

\* An edge needs the frame before it, of this generation.
LEMMA EdgesAfterFrame ==
    ASSUME TelemetryTypes, NEW frame, NEW late \in BOOLEAN, ObserveFrame(frame, late)
    PROVE  /\ \/ started' = started
              \/ /\ started' = Append(started, Len(plays)) /\ frame.phase = "live"
                 /\ state.telemetry # None /\ state.telemetry.phase = "freezetime"
           /\ \/ ended' = ended
              \/ /\ ended' = Append(ended, Len(plays)) /\ frame.phase = "over"
                 /\ state.telemetry # None /\ state.telemetry.phase = "live"
<1>1. CASE late
    <2>1. AdvanceGeneration(state).state.telemetry = None
        BY DEF AdvanceGeneration, TelemetryTypes, StateSet
    <2> QED BY <1>1, <2>1 DEF ObserveFrame, Edge
<1>2. CASE ~late
    BY <1>2 DEF ObserveFrame, Edge, ThisPlay
<1> QED BY <1>1, <1>2

LEMMA AnchorAfterFrame ==
    ASSUME NEW frame, NEW late \in BOOLEAN, ObserveFrame(frame, late), anchor' # None
    PROVE  /\ frame.bomb \in {"planted", "defusing"}
           /\ anchor' = Len(plays) \/ (~late /\ anchor' = anchor)
<1> DEFINE before == IF late THEN None ELSE anchor
<1>1. anchor' = ReduceAnchor(before, frame, Classified, EpochOf(frame) = state.epoch)
    <2>1. CASE late
        BY <2>1 DEF ObserveFrame, AdvanceGeneration, EpochOf
    <2>2. CASE ~late
        BY <2>2 DEF ObserveFrame, EpochOf
    <2> QED BY <2>1, <2>2
<1> DEFINE retained == IF Classified = "contiguous" /\ EpochOf(frame) = state.epoch
                       THEN before ELSE None
<1>2. anchor' = IF frame.phase = "over" THEN None
                ELSE CASE frame.bomb = "planted"  ->
                            IF frame.countdown THEN Len(plays) ELSE retained
                       [] frame.bomb = "defusing" -> retained
                       [] OTHER                   -> None
    BY <1>1 DEF ReduceAnchor, ThisPlay
<1>3. retained # None => ~late /\ retained = anchor
    OBVIOUS
<1> HIDE DEF retained
<1>4. CASE frame.bomb = "planted"
    BY <1>2, <1>3, <1>4
<1>5. CASE frame.bomb = "defusing"
    BY <1>2, <1>3, <1>5
<1>6. CASE frame.bomb \notin {"planted", "defusing"}
    BY <1>2, <1>6
<1> QED BY <1>4, <1>5, <1>6

\* What is believed of the round after the frame, from what was believed before it: after a
\* silence nothing is, as the frame is late.
LEMMA RoundAfterFrame ==
    ASSUME TelemetryIInv, NEW frame, NEW late \in BOOLEAN, Sent(frame), ObserveFrame(frame, late)
    PROVE  LET u == RoundNow(frame, late) IN
           /\ u \in Rounds
           /\ frame.phase # "over" =>
                RoundFits(u, game.phase, shown \/ frame.phase # "unknown", game.damage)
           /\ Adds(frame, late) => /\ Stable(frame) /\ stats.current # None
                                  /\ u.damage = game.damage
           /\ Trusted(u) /\ frame.phase # "unknown" => u.damage = frame.damage
           /\ game.phase = "over" /\ stats.current = None => u = None
<1> DEFINE healthy == ~Stable(frame) \/ Classified \in {"baseline", "contiguous"}
           stable == Stable(frame)
           r == OldRound(late)
           u == RoundNow(frame, late)
<1>1. stats.current \in Rounds /\ shown \in BOOLEAN
    BY DEF TelemetryIInv, TelemetryTypes, StatsSet
<1>2. r \in Rounds /\ (late => ~Trusted(r)) /\ (~late => r = stats.current)
    BY <1>1, InvalidatedType DEF OldRound
<1>3. r = None <=> stats.current = None
    BY <1>1, InvalidatedType DEF OldRound
<1>4. RoundFits(r, game.phase, shown, game.damage)
    <2>1. CASE late
        BY <1>2, <2>1 DEF RoundFits
    <2>2. CASE ~late
        <3>1. ~silent
            BY <2>2, StateAfterFrame DEF TelemetryIInv
        <3> QED BY <1>2, <2>2, <3>1 DEF TelemetryIInv, RoundInv
    <2> QED BY <2>1, <2>2
<1>5. stable \in BOOLEAN /\ healthy \in BOOLEAN
    BY DEF Stable
<1>6. u = FrameRound(r, frame, stable, healthy) /\ Tells(frame, game.phase, game.damage)
    BY DEF RoundNow, Sent
<1> HIDE DEF u, r, stable, healthy
<1>7. /\ u \in Rounds
      /\ frame.phase # "over" =>
            RoundFits(u, game.phase, shown \/ frame.phase # "unknown", game.damage)
      /\ frame.phase = "over" /\ Counts(u) => stable /\ r # None /\ u.damage = game.damage
      /\ Trusted(u) /\ frame.phase # "unknown" =>
            u.damage = game.damage /\ frame.damage = game.damage
      /\ game.phase = "over" /\ r = None => u = None
    BY <1>1, <1>2, <1>4, <1>5, <1>6, FrameRoundFits
<1> QED BY <1>3, <1>7 DEF u, stable, Adds

LEMMA FrameKeepsTypes ==
    ASSUME TelemetryIInv, NEW frame, NEW late \in BOOLEAN, Sent(frame), ObserveFrame(frame, late)
    PROVE  TelemetryTypes'
<1> DEFINE u == RoundNow(frame, late)
<1>1. TelemetryTypes /\ EpochInv /\ WorldInv
    BY DEF TelemetryIInv
<1>2. /\ u \in Rounds /\ EpochOf(frame) \in Nat
      /\ (IF frame.name = None THEN state.name ELSE frame.name) \in {None} \cup 1..MaxMaps
      /\ Adds(frame, late) => u.damage = game.damage
    BY <1>1, RoundAfterFrame, EpochsAreCounted DEF Sent
<1>3. /\ game' = game /\ plays' = plays /\ resets' = resets
      /\ heard' = TRUE /\ shown' = (shown \/ frame.phase # "unknown")
      /\ silent' = FALSE /\ skipped' = FALSE
    BY <1>1, StateAfterFrame
<1>4. /\ plays \in Seq(0..MaxDamage) /\ Len(plays) \in 1..MaxPlays /\ Len(plays) \in Nat
      /\ game \in Games /\ resets \in Nat /\ game.damage \in Nat /\ MaxBreaks \in Nat
      /\ {started, ended, counted} \subseteq Seq(1..Len(plays))
      /\ Len(plays) \in 1..Len(plays) /\ anchor \in {None} \cup 1..MaxPlays
    BY <1>1, TelemetryBounds DEF TelemetryTypes, Games
<1>5. state' \in StateSet
    <2> DEFINE g == IF late THEN state.generation + 1 ELSE state.generation
               telemetry == [phase |-> frame.phase, players |-> frame.players,
                             damage |-> frame.damage]
               name == IF frame.name = None THEN state.name ELSE frame.name
    <2>1. state.generation \in Nat
        BY <1>1 DEF TelemetryTypes, StateSet
    <2>2. g \in Nat /\ g \in 0..MaxBreaks
        <3>1. late => state.generation + resets < MaxBreaks
            BY <1>1, FieldsAfterFrame
        <3>2. state.generation + resets <= MaxBreaks
            BY <1>1 DEF EpochInv
        <3> QED BY <1>4, <2>1, <3>1, <3>2
    <2>3. telemetry \in Picture
        BY TelemetryBounds DEF Sent, Tells, Picture
    <2>4. state' = [generation |-> g, accepted |-> g, epoch |-> EpochOf(frame), name |-> name,
                    telemetry |-> telemetry]
        BY <1>1, StateAfterFrame
    <2> HIDE DEF g, telemetry, name
    <2> QED BY <1>2, <2>2, <2>3, <2>4 DEF StateSet, name
<1>6. stats' \in StatsSet
    <2> DEFINE rounds == (IF Stable(frame) THEN stats.rounds ELSE 0)
                         + (IF Adds(frame, late) THEN 1 ELSE 0)
               damage == (IF Stable(frame) THEN stats.damage ELSE 0)
                         + (IF Adds(frame, late) THEN u.damage ELSE 0)
               current == IF frame.phase = "over" THEN None ELSE u
    <2>1. stats.rounds \in Nat /\ stats.damage \in Nat
        BY <1>1 DEF TelemetryTypes, StatsSet
    <2>2. rounds \in Nat /\ damage \in Nat /\ current \in Rounds
        <3>1. current \in Rounds
            BY <1>2 DEF Rounds
        <3>2. CASE Adds(frame, late)
            <4>1. u.damage \in Nat
                BY <1>2, <1>4, <3>2
            <4> HIDE DEF u
            <4> QED BY <2>1, <3>1, <3>2, <4>1
        <3>3. CASE ~Adds(frame, late)
            BY <2>1, <3>1, <3>3
        <3> QED BY <3>2, <3>3
    <2>3. stats' = [epoch |-> EpochOf(frame), rounds |-> rounds, damage |-> damage,
                    current |-> current]
        BY <1>1, StatsAfterFrame
    <2> HIDE DEF rounds, damage, current
    <2> QED BY <1>2, <2>2, <2>3 DEF StatsSet
<1>7. anchor' \in {None} \cup 1..MaxPlays
    BY <1>4, AnchorAfterFrame
<1>8. {started', ended', counted'} \subseteq Seq(1..Len(plays))
    <2>1. \A s \in Seq(1..Len(plays)) : Append(s, Len(plays)) \in Seq(1..Len(plays))
        BY <1>4
    <2>2. started' \in Seq(1..Len(plays)) /\ ended' \in Seq(1..Len(plays))
        BY <1>1, <1>4, <2>1, EdgesAfterFrame
    <2>3. Known(frame) \in Seq(1..Len(plays))
        <3>1. Known(frame) = counted \/ Known(frame) = <<>>
            BY DEF Known
        <3>2. <<>> \in Seq(1..Len(plays)) /\ counted \in Seq(1..Len(plays))
            BY <1>4
        <3> QED BY <3>1, <3>2
    <2>4. counted' \in Seq(1..Len(plays))
        BY <1>1, <2>1, <2>3, StatsAfterFrame
    <2> QED BY <2>2, <2>4
<1>9. shown' \in BOOLEAN
    BY <1>3
<1> QED BY <1>3, <1>4, <1>5, <1>6, <1>7, <1>8, <1>9 DEF TelemetryTypes

LEMMA FrameKeepsWorldAndEpochs ==
    ASSUME TelemetryIInv, NEW frame, NEW late \in BOOLEAN, Sent(frame), ObserveFrame(frame, late)
    PROVE  WorldInv' /\ EpochInv'
<1>1. TelemetryTypes /\ EpochInv /\ WorldInv
    BY DEF TelemetryIInv
<1> DEFINE g == IF late THEN state.generation + 1 ELSE state.generation
           name == IF frame.name = None THEN state.name ELSE frame.name
<1>2. /\ game' = game /\ plays' = plays /\ resets' = resets
      /\ heard' = TRUE /\ silent' = FALSE
      /\ late => state.generation + resets < MaxBreaks
      /\ state'.generation = g /\ state'.accepted = g /\ state'.epoch = EpochOf(frame)
      /\ state'.name = name
    BY <1>1, FieldsAfterFrame
<1>3. stats'.epoch = EpochOf(frame)
    BY <1>1, StatsAfterFrame
<1>4. /\ EpochOf(frame) \in Nat
      /\ (IF name = None THEN 0 ELSE name) <= game.map
      /\ EpochOf(frame) <= (IF name = None THEN 0 ELSE name) + resets
    BY <1>1, EpochsAreCounted DEF Sent
<1>5. state.generation \in Nat /\ resets \in Nat /\ MaxBreaks \in Nat
    BY <1>1, TelemetryBounds DEF TelemetryTypes, StateSet
<1> HIDE DEF name
<1>6. g \in 0..MaxBreaks /\ g + resets <= MaxBreaks
    BY <1>1, <1>2, <1>5 DEF EpochInv
<1>7. g # None
    BY <1>6, NoneAssumption, TelemetryBounds
<1> HIDE DEF g
<1>8. EpochInv'
    BY <1>2, <1>3, <1>4, <1>6, <1>7 DEF EpochInv, NamesSeen
<1>9. WorldInv'
    BY <1>1, <1>2, <1>7 DEF WorldInv
<1> QED BY <1>8, <1>9

LEMMA FrameKeepsEdges ==
    ASSUME TelemetryIInv, NEW frame, NEW late \in BOOLEAN, Sent(frame), ObserveFrame(frame, late)
    PROVE  EdgesInv'
<1>1. TelemetryTypes /\ EdgesInv
    BY DEF TelemetryIInv
<1>2. /\ game' = game /\ plays' = plays /\ Len(plays) \in Nat
      /\ Len(plays) \in 1..Len(plays) /\ state'.telemetry.phase = frame.phase
      /\ frame.phase \in {"unknown", game.phase} /\ game.phase \in Phases
      /\ started \in Seq(1..Len(plays)) /\ ended \in Seq(1..Len(plays))
    <2>1. game' = game /\ plays' = plays /\ state'.telemetry.phase = frame.phase
        BY <1>1, FieldsAfterFrame
    <2>2. frame.phase \in {"unknown", game.phase} /\ game.phase \in Phases
        BY DEF Sent, Tells
    <2>3. Len(plays) \in 1..MaxPlays /\ {started, ended} \subseteq Seq(1..Len(plays))
        BY <1>1 DEF TelemetryTypes
    <2> QED BY <2>1, <2>2, <2>3
<1>3. CASE started' = started /\ ended' = ended
    BY <1>1, <1>2, <1>3 DEF EdgesInv, NamesThisPlay, Phases
<1>4. CASE started' # started
    <2>1. /\ started' = Append(started, Len(plays)) /\ frame.phase = "live"
          /\ ~NamesThisPlay(started) /\ ended' = ended
        BY <1>1, <1>4, EdgesAfterFrame DEF EdgesInv
    <2>2. Distinct(started')
        <3> DEFINE s == started
                   x == Len(plays)
                   S == 1..x
        <3>1. s \in Seq(S) /\ x \in S /\ Distinct(s) /\ \A i \in 1..Len(s) : s[i] # x
            BY <1>1, <1>2, <2>1 DEF EdgesInv, NamesThisPlay
        <3> HIDE DEF s, x, S
        <3>2. Distinct(Append(s, x))
            BY <3>1, AppendedIsDistinct
        <3> QED BY <2>1, <3>2 DEF s, x
    <2> QED BY <1>1, <1>2, <2>1, <2>2 DEF EdgesInv, NamesThisPlay, Phases
<1>5. CASE ended' # ended
    <2>1. /\ ended' = Append(ended, Len(plays)) /\ frame.phase = "over"
          /\ ~NamesThisPlay(ended) /\ started' = started
        BY <1>1, <1>5, EdgesAfterFrame DEF EdgesInv
    <2>2. Distinct(ended')
        <3> DEFINE s == ended
                   x == Len(plays)
                   S == 1..x
        <3>1. s \in Seq(S) /\ x \in S /\ Distinct(s) /\ \A i \in 1..Len(s) : s[i] # x
            BY <1>1, <1>2, <2>1 DEF EdgesInv, NamesThisPlay
        <3> HIDE DEF s, x, S
        <3>2. Distinct(Append(s, x))
            BY <3>1, AppendedIsDistinct
        <3> QED BY <2>1, <3>2 DEF s, x
    <2> QED BY <1>1, <1>2, <2>1, <2>2 DEF EdgesInv, NamesThisPlay, Phases
<1> QED BY <1>3, <1>4, <1>5

LEMMA FrameKeepsRoundAndAnchor ==
    ASSUME TelemetryIInv, NEW frame, NEW late \in BOOLEAN, Sent(frame), ObserveFrame(frame, late)
    PROVE  RoundInv' /\ AnchorInv' /\ LiveDamageIsThisRound'
<1>1. TelemetryTypes /\ EpochInv /\ WorldInv /\ AnchorInv
    BY DEF TelemetryIInv
<1> DEFINE u == RoundNow(frame, late)
<1>2. /\ game' = game /\ plays' = plays /\ shown' = (shown \/ frame.phase # "unknown")
      /\ silent => late
      /\ state'.telemetry.phase = frame.phase /\ state'.telemetry.damage = frame.damage
    BY <1>1, FieldsAfterFrame
<1>3. stats'.current = IF frame.phase = "over" THEN None ELSE u
    BY <1>1, StatsAfterFrame
<1>4. /\ frame.phase # "over" =>
            RoundFits(u, game.phase, shown \/ frame.phase # "unknown", game.damage)
      /\ Trusted(u) /\ frame.phase # "unknown" => u.damage = frame.damage
    BY RoundAfterFrame
<1> HIDE DEF u
<1>5. RoundInv'
    BY <1>2, <1>3, <1>4 DEF RoundInv, RoundFits, Trusted
<1>6. LiveDamageIsThisRound'
    BY <1>2, <1>3, <1>4 DEF LiveDamageIsThisRound, Trusted
<1>7. AnchorInv'
    <2> SUFFICES ASSUME anchor' # None PROVE anchor' = Len(plays)
        BY <1>2 DEF AnchorInv
    <2>1. /\ frame.bomb \in {"planted", "defusing"}
          /\ anchor' = Len(plays) \/ (~late /\ anchor' = anchor)
        BY AnchorAfterFrame
    <2>2. game.phase # "freezetime"
        BY <1>1, <2>1 DEF Sent, WorldInv
    <2> QED BY <1>1, <1>2, <2>1, <2>2 DEF AnchorInv
<1> QED BY <1>5, <1>6, <1>7

LEMMA FrameKeepsCount ==
    ASSUME TelemetryIInv, NEW frame, NEW late \in BOOLEAN, Sent(frame), ObserveFrame(frame, late)
    PROVE  CountInv'
<1>1. TelemetryTypes /\ EpochInv /\ CountInv /\ WorldInv
    BY DEF TelemetryIInv
<1> DEFINE u == RoundNow(frame, late)
           known == Known(frame)
           rounds == IF Stable(frame) THEN stats.rounds ELSE 0
           damage == IF Stable(frame) THEN stats.damage ELSE 0
<1>2. /\ game' = game /\ plays' = plays
      /\ plays \in Seq(Nat) /\ Len(plays) \in 1..Len(plays) /\ Len(plays) \in Nat
      /\ plays[Len(plays)] = game.damage /\ game.damage \in 0..MaxDamage /\ MaxDamage \in Nat
    <2>1. \A x \in 0..MaxDamage : x \in Nat
        OBVIOUS
    <2>2. plays \in Seq(0..MaxDamage) /\ Len(plays) \in 1..MaxPlays
        BY <1>1 DEF TelemetryTypes
    <2>3. plays \in Seq(Nat)
        BY <2>1, <2>2, SequenceWidens
    <2>4. game' = game /\ plays' = plays
        BY <1>1, FieldsAfterFrame
    <2> QED BY <1>1, <2>2, <2>3, <2>4, TelemetryBounds DEF WorldInv, TelemetryTypes, Games
<1>3. /\ stats'.rounds = rounds + (IF Adds(frame, late) THEN 1 ELSE 0)
      /\ stats'.damage = damage + (IF Adds(frame, late) THEN u.damage ELSE 0)
      /\ stats'.current = IF frame.phase = "over" THEN None ELSE u
      /\ counted' = IF Adds(frame, late) THEN Append(known, Len(plays)) ELSE known
    BY <1>1, StatsAfterFrame
<1>4. /\ Adds(frame, late) => /\ Stable(frame) /\ stats.current # None
                             /\ u.damage = game.damage /\ frame.phase = "over"
      /\ game.phase = "over" /\ stats.current = None => u = None
      /\ frame.phase \in {"unknown", game.phase} /\ game.phase \in Phases
    BY RoundAfterFrame DEF Adds, Sent, Tells
<1>5. /\ known \in Seq(1..Len(plays)) /\ rounds = Len(known) /\ damage = DamageIn(known, plays)
      /\ damage <= rounds * MaxDamage
      /\ \A i \in 1..Len(known) : known[i] >= i
      /\ \A i, j \in 1..Len(known) : i < j => known[i] < known[j]
      /\ NamesThisPlay(known) => game.phase = "over" /\ stats.current = None
    <2>1. CASE Stable(frame)
        <3>1. known = counted /\ rounds = stats.rounds /\ damage = stats.damage
            BY <2>1 DEF Known
        <3> QED BY <1>1, <3>1 DEF CountInv, TelemetryTypes
    <2>2. CASE ~Stable(frame)
        <3>1. known = <<>> /\ Len(known) = 0 /\ rounds = 0 /\ damage = 0
            BY <2>2 DEF Known
        <3>2. DamageIn(known, plays) = 0
            BY <3>1, DamageOfNothing
        <3> QED BY <1>2, <3>1, <3>2 DEF NamesThisPlay
    <2> QED BY <2>1, <2>2
<1> HIDE DEF u, known, rounds, damage
<1>6. CASE ~Adds(frame, late)
    <2>1. counted' = known /\ stats'.rounds = rounds /\ stats'.damage = damage
        <3>1. DamageIn(known, plays) \in Nat /\ Len(known) \in Nat
            BY <1>2, <1>5, DamageOfOneMore
        <3> QED BY <1>3, <1>5, <1>6, <3>1
    <2>2. NamesThisPlay(known) => stats'.current = None
        BY <1>3, <1>4, <1>5
    <2> QED BY <1>2, <1>5, <2>1, <2>2 DEF CountInv, NamesThisPlay
<1>7. CASE Adds(frame, late)
    <2>1. /\ counted' = Append(known, Len(plays)) /\ stats'.rounds = rounds + 1
          /\ stats'.damage = damage + game.damage /\ stats'.current = None
          /\ game.phase = "over" /\ ~NamesThisPlay(known)
        BY <1>3, <1>4, <1>5, <1>7
    <2>2. /\ DamageIn(known, plays) \in Nat
          /\ DamageIn(counted', plays) = damage + game.damage
        BY <1>2, <1>5, <2>1, DamageOfOneMore
    <2>3. /\ Len(counted') = Len(known) + 1 /\ Len(known) \in Nat
          /\ \A i \in 1..Len(known) : counted'[i] = known[i] /\ known[i] \in 1..Len(plays)
          /\ counted'[Len(known) + 1] = Len(plays)
        BY <1>2, <1>5, <2>1
    <2>4. \A i \in 1..Len(known) : known[i] < Len(plays)
        BY <1>2, <2>1, <2>3 DEF NamesThisPlay
    <2>5. Len(plays) >= Len(known) + 1
        <3>1. CASE Len(known) = 0
            BY <1>2, <3>1
        <3>2. CASE Len(known) # 0
            <4>1. Len(known) \in 1..Len(known)
                BY <2>3, <3>2
            <4>2. /\ known[Len(known)] \in Nat /\ known[Len(known)] >= Len(known)
                  /\ known[Len(known)] < Len(plays)
                BY <1>2, <1>5, <2>3, <2>4, <4>1
            <4> QED BY <1>2, <2>3, <4>2
        <3> QED BY <3>1, <3>2
    <2>6. \A i \in 1..Len(counted') : i \in 1..Len(known) \/ i = Len(known) + 1
        BY <2>3
    <2>7. \A i \in 1..Len(counted') : counted'[i] >= i
        BY <1>2, <1>5, <2>3, <2>5, <2>6
    <2>8. ASSUME NEW i \in 1..Len(counted'), NEW j \in 1..Len(counted'), i < j
          PROVE  counted'[i] < counted'[j]
        <3>1. i \in 1..Len(known)
            BY <2>3, <2>8
        <3>2. CASE j \in 1..Len(known)
            BY <1>5, <2>3, <2>8, <3>1, <3>2
        <3>3. CASE j = Len(known) + 1
            BY <2>3, <2>4, <3>1, <3>3
        <3> QED BY <2>6, <3>2, <3>3
    <2>9. damage + game.damage <= (rounds + 1) * MaxDamage
        <3>1. /\ (rounds + 1) * MaxDamage = rounds * MaxDamage + MaxDamage
              /\ rounds * MaxDamage \in Nat /\ damage \in Nat
            BY <1>2, <1>5, <2>2, <2>3
        <3> QED BY <1>2, <1>5, <3>1
    <2> QED BY <1>2, <1>5, <2>1, <2>2, <2>3, <2>7, <2>8, <2>9 DEF CountInv
<1> QED BY <1>6, <1>7

LEMMA FrameKeeps ==
    ASSUME TelemetryIInv, GsiFrame
    PROVE  TelemetryIInv'
<1>1. PICK lacks \in Lacking, late \in BOOLEAN :
        \E countdown \in IF game.bomb = "planted" /\ lacks # "bomb" THEN BOOLEAN ELSE {FALSE},
           endHint \in IF game.phase = "over" /\ lacks # "map" THEN {0, 1} ELSE {0} :
            ObserveFrame(FrameOf(lacks, countdown, endHint), late)
    BY DEF GsiFrame
<1>2. PICK countdown, endHint : ObserveFrame(FrameOf(lacks, countdown, endHint), late)
    BY <1>1
<1> DEFINE frame == FrameOf(lacks, countdown, endHint)
<1>3. Sent(frame) /\ ObserveFrame(frame, late)
    BY <1>2, FramesSent DEF TelemetryIInv
<1> HIDE DEF frame
<1> QED BY <1>3, FrameKeepsTypes, FrameKeepsWorldAndEpochs, FrameKeepsEdges,
           FrameKeepsRoundAndAnchor, FrameKeepsCount DEF TelemetryIInv

-----------------------------------------------------------------------------
(* The game *)

\* What the game changes of its own accord leaves the reducer alone.
Unheard == UNCHANGED <<skipped, reduced, resets>>

LEMMA GameTypes ==
    ASSUME TelemetryTypes
    PROVE  /\ game \in Games /\ game.map \in 1..MaxMaps /\ game.round \in 0..MaxRounds
           /\ game.phase \in Phases /\ game.damage \in 0..MaxDamage /\ game.bomb \in Bombs
           /\ game.map \in Nat /\ game.round \in Nat /\ game.damage \in Nat
           /\ MaxMaps \in Nat /\ MaxRounds \in Nat /\ MaxDamage \in Nat
           /\ Len(plays) \in Nat /\ Len(plays) \in 1..Len(plays)
           /\ plays \in Seq(0..MaxDamage) /\ plays \in Seq(Nat)
<1>1. /\ game \in Games /\ plays \in Seq(0..MaxDamage) /\ Len(plays) \in 1..MaxPlays
    BY DEF TelemetryTypes
<1>2. \A x \in 0..MaxDamage : x \in Nat
    OBVIOUS
<1>3. plays \in Seq(Nat)
    BY <1>1, <1>2, SequenceWidens
<1> QED BY <1>1, <1>3, TelemetryBounds DEF Games

\* What a phase leaves behind that was not slept through.
LEMMA PhaseWasHeard ==
    ASSUME TelemetryIInv, PhaseEnds, ~silent'
    PROVE  /\ ~silent
           /\ state.accepted = None => stats.current = None /\ anchor = None
           /\ state.accepted # None /\ game.phase # "over" => heard /\ shown
           /\ RoundFits(stats.current, game.phase, shown, game.damage)
<1>1. {heard, shown, silent} \subseteq BOOLEAN
    BY DEF TelemetryIInv, TelemetryTypes
<1>2. ~silent /\ (state.accepted # None /\ game.phase # "over" => heard /\ shown)
    BY <1>1 DEF PhaseEnds
<1> QED BY <1>2 DEF TelemetryIInv, EpochInv, RoundInv

\* The phase moves on within a play.
LEMMA PhaseMovesKeeps ==
    ASSUME TelemetryIInv, PhaseEnds, UNCHANGED plays, game' \in Games,
           NEW phase, game'.phase = phase, game'.damage = game.damage, game'.map = game.map,
           \/ game.phase = "freezetime" /\ phase = "live" /\ game'.bomb = game.bomb
           \/ game.phase = "live" /\ phase = "over" /\ game'.bomb = "gone"
    PROVE  TelemetryIInv'
<1>1. /\ TelemetryTypes /\ WorldInv /\ EpochInv /\ CountInv /\ EdgesInv /\ RoundInv /\ AnchorInv
      /\ LiveDamageIsThisRound
    BY DEF TelemetryIInv
<1>2. /\ heard' = FALSE /\ shown' = FALSE /\ silent' \in BOOLEAN /\ skipped' = skipped
      /\ state' = state /\ stats' = stats /\ anchor' = anchor /\ started' = started
      /\ ended' = ended /\ counted' = counted /\ resets' = resets /\ plays' = plays
    BY <1>1 DEF PhaseEnds, reduced, TelemetryTypes
<1>3. TelemetryTypes'
    BY <1>1, <1>2 DEF TelemetryTypes
<1>4. WorldInv' /\ EpochInv' /\ LiveDamageIsThisRound'
    BY <1>1, <1>2 DEF WorldInv, EpochInv, NamesSeen, LiveDamageIsThisRound
<1>5. CountInv'
    BY <1>1, <1>2 DEF CountInv, NamesThisPlay
<1>6. EdgesInv'
    BY <1>1, <1>2 DEF EdgesInv, NamesThisPlay
<1>7. RoundInv'
    <2> SUFFICES ASSUME ~silent', Trusted(stats.current)
                 PROVE  RoundFits(stats.current, phase, FALSE, game.damage)
        BY <1>2 DEF RoundInv, RoundFits
    <2>1. RoundFits(stats.current, game.phase, TRUE, game.damage) /\ heard
        <3>1. state.accepted # None
            BY PhaseWasHeard DEF Trusted
        <3>2. shown = TRUE /\ heard
            BY <1>1, <3>1, PhaseWasHeard DEF TelemetryTypes
        <3> QED BY <3>2, PhaseWasHeard
    <2>2. 0 <= game.damage
        BY <1>1, GameTypes
    <2> QED BY <2>1, <2>2 DEF RoundFits
<1>8. AnchorInv'
    <2> SUFFICES ASSUME ~silent', anchor # None PROVE anchor = Len(plays)
        BY <1>2 DEF AnchorInv
    <2> QED BY <1>1, PhaseWasHeard DEF AnchorInv
<1> QED BY <1>3, <1>4, <1>5, <1>6, <1>7, <1>8 DEF TelemetryIInv

LEMMA GoesLiveKeeps ==
    ASSUME TelemetryIInv, GoesLive
    PROVE  TelemetryIInv'
<1>1. PhaseEnds /\ UNCHANGED plays /\ game.phase = "freezetime"
    BY DEF GoesLive
<1>2. game \in Games
    BY GameTypes DEF TelemetryIInv
<1>3. /\ game' \in Games /\ game'.phase = "live" /\ game'.damage = game.damage
      /\ game'.map = game.map /\ game'.bomb = game.bomb
    BY <1>2 DEF GoesLive, Games, Phases
<1> QED BY <1>1, <1>3, PhaseMovesKeeps

LEMMA RoundOverKeeps ==
    ASSUME TelemetryIInv, RoundOver
    PROVE  TelemetryIInv'
<1>1. PhaseEnds /\ UNCHANGED plays /\ game.phase = "live"
    BY DEF RoundOver
<1>2. game \in Games
    BY GameTypes DEF TelemetryIInv
<1>3. game' = [map |-> game.map, round |-> game.round, phase |-> "over", damage |-> game.damage,
               bomb |-> "gone"]
    BY <1>2 DEF RoundOver, Games
<1>4. /\ game' \in Games /\ game'.phase = "over" /\ game'.damage = game.damage
      /\ game'.map = game.map /\ game'.bomb = "gone"
    BY <1>2, <1>3 DEF Games, Phases, Bombs
<1> QED BY <1>1, <1>4, PhaseMovesKeeps

\* A new play: nothing is named after it yet, and what is believed is of the play before.
LEMMA NewPlayKeeps ==
    ASSUME TelemetryIInv, game' \in Games, plays' = Append(plays, 0), Len(plays) < MaxPlays,
           game'.phase = "freezetime", game'.damage = 0, game'.bomb = "carried",
           game'.map >= game.map, heard' = FALSE, shown' = FALSE, silent' \in BOOLEAN,
           UNCHANGED <<skipped, reduced, resets>>,
           ~silent' /\ Trusted(stats.current) =>
                /\ stats.current.phase = "live" /\ stats.current.eligible
    PROVE  TelemetryIInv'
<1>1. /\ TelemetryTypes /\ WorldInv /\ EpochInv /\ CountInv /\ EdgesInv /\ RoundInv /\ AnchorInv
      /\ LiveDamageIsThisRound
    BY DEF TelemetryIInv
<1>2. /\ skipped' = skipped /\ state' = state /\ stats' = stats /\ anchor' = anchor
      /\ started' = started /\ ended' = ended /\ counted' = counted /\ resets' = resets
    BY DEF reduced
<1>3. /\ Len(plays') = Len(plays) + 1 /\ Len(plays) \in Nat /\ plays'[Len(plays')] = 0
      /\ plays' \in Seq(0..MaxDamage) /\ plays \in Seq(Nat) /\ Len(plays') \in 1..MaxPlays
      /\ \A i \in 1..Len(plays) : plays'[i] = plays[i]
    <2>1. Len(plays) \in Nat /\ plays \in Seq(0..MaxDamage) /\ plays \in Seq(Nat)
        BY <1>1, GameTypes
    <2>2. 0 \in 0..MaxDamage /\ MaxPlays \in Nat
        BY TelemetryBounds
    <2> QED BY <2>1, <2>2
<1>4. /\ {started, ended, counted} \subseteq Seq(1..Len(plays))
      /\ {started, ended, counted} \subseteq Seq(1..Len(plays'))
    <2>1. \A i \in 1..Len(plays) : i \in 1..Len(plays')
        BY <1>3
    <2>2. /\ started \in Seq(1..Len(plays)) /\ ended \in Seq(1..Len(plays))
          /\ counted \in Seq(1..Len(plays))
        BY <1>1 DEF TelemetryTypes
    <2>3. /\ started \in Seq(1..Len(plays')) /\ ended \in Seq(1..Len(plays'))
          /\ counted \in Seq(1..Len(plays'))
        BY <2>1, <2>2, SequenceWidens
    <2> QED BY <2>2, <2>3
<1>5. /\ ~NamesThisPlay(started)' /\ ~NamesThisPlay(ended)' /\ ~NamesThisPlay(counted)'
    <2>1. ASSUME NEW s \in Seq(1..Len(plays)), NEW i \in 1..Len(s)
          PROVE  s[i] # Len(plays')
        <3>1. s[i] \in 1..Len(plays)
            OBVIOUS
        <3> QED BY <1>3, <3>1
    <2> QED BY <1>2, <1>4, <2>1 DEF NamesThisPlay
<1>6. TelemetryTypes'
    BY <1>1, <1>2, <1>3, <1>4 DEF TelemetryTypes
<1>7. WorldInv'
    BY <1>1, <1>2, <1>3 DEF WorldInv
<1>8. EpochInv' /\ LiveDamageIsThisRound'
    <2>1. /\ NamesSeen' = NamesSeen /\ NamesSeen <= game.map /\ game.map \in Nat
          /\ game'.map \in Nat /\ NamesSeen \in Nat
        <3>1. NamesSeen' = NamesSeen /\ NamesSeen <= game.map
            BY <1>1, <1>2 DEF EpochInv, NamesSeen
        <3>2. game.map \in Nat /\ game'.map \in Nat
            BY <1>1, GameTypes DEF Games
        <3>3. state.name \in {None} \cup 1..MaxMaps
            BY <1>1 DEF TelemetryTypes, StateSet
        <3> QED BY <3>1, <3>2, <3>3 DEF NamesSeen
    <2>2. NamesSeen' <= game'.map
        BY <2>1
    <2> QED BY <1>1, <1>2, <2>1, <2>2 DEF EpochInv, LiveDamageIsThisRound
<1>9. CountInv'
    <2>1. \A i \in 1..Len(counted) : plays'[counted[i]] = plays[counted[i]]
        <3> SUFFICES ASSUME NEW i \in 1..Len(counted)
                     PROVE  plays'[counted[i]] = plays[counted[i]]
            OBVIOUS
        <3>1. counted[i] \in 1..Len(plays)
            BY <1>4
        <3> QED BY <1>3, <3>1
    <2>2. DamageIn(counted, plays') = DamageIn(counted, plays)
        BY <1>3, <1>4, <2>1, DamageOfOthers
    <2> QED BY <1>1, <1>2, <1>5, <2>2 DEF CountInv
<1>10. EdgesInv'
    BY <1>1, <1>2, <1>5 DEF EdgesInv
<1>11. RoundInv' /\ AnchorInv'
    BY <1>2 DEF RoundInv, RoundFits, AnchorInv
<1> QED BY <1>6, <1>7, <1>8, <1>9, <1>10, <1>11 DEF TelemetryIInv

LEMMA NextRoundKeeps ==
    ASSUME TelemetryIInv, NEW round \in 0..MaxRounds, NextRound(round)
    PROVE  TelemetryIInv'
<1>1. /\ PhaseEnds /\ plays' = Append(plays, 0) /\ Len(plays) < MaxPlays
      /\ game.phase \in {"over", "live"}
    BY DEF NextRound
<1>2. game \in Games /\ game.map \in Nat /\ 0 \in 0..MaxDamage
    BY GameTypes, TelemetryBounds DEF TelemetryIInv
<1>3. game' = [map |-> game.map, round |-> round, phase |-> "freezetime", damage |-> 0,
               bomb |-> "carried"]
    BY <1>2 DEF NextRound, Games
<1>4. /\ game' \in Games /\ game'.phase = "freezetime" /\ game'.damage = 0
      /\ game'.bomb = "carried" /\ game'.map >= game.map
    BY <1>2, <1>3 DEF Games, Phases, Bombs
<1>5. /\ heard' = FALSE /\ shown' = FALSE /\ silent' \in BOOLEAN
      /\ UNCHANGED <<skipped, reduced, resets>>
    BY <1>1 DEF PhaseEnds, TelemetryIInv, TelemetryTypes
<1>6. ASSUME ~silent', Trusted(stats.current)
      PROVE  stats.current.phase = "live" /\ stats.current.eligible
    <2>1. state.accepted # None
        BY <1>1, <1>6, PhaseWasHeard DEF Trusted
    <2>2. RoundFits(stats.current, game.phase, shown, game.damage)
        BY <1>1, <1>6, PhaseWasHeard
    <2>3. game.phase = "live" => shown
        BY <1>1, <1>6, <2>1, PhaseWasHeard
    <2> QED BY <1>1, <1>6, <2>2, <2>3 DEF RoundFits
<1> QED BY <1>1, <1>4, <1>5, <1>6, NewPlayKeeps

LEMMA NextMapKeeps ==
    ASSUME TelemetryIInv, NextMap
    PROVE  TelemetryIInv'
<1>1. /\ plays' = Append(plays, 0) /\ Len(plays) < MaxPlays /\ game.map < MaxMaps
      /\ heard' = FALSE /\ shown' = FALSE /\ silent' = (state.accepted # None)
      /\ UNCHANGED <<skipped, reduced, resets>>
      /\ game' = [map |-> game.map + 1, round |-> 0, phase |-> "freezetime", damage |-> 0,
                  bomb |-> "carried"]
    BY DEF NextMap
<1>2. /\ game.map \in 1..MaxMaps /\ MaxMaps \in Nat /\ 0 \in 0..MaxDamage /\ 0 \in 0..MaxRounds
      /\ game.map \in Nat
    BY GameTypes, TelemetryBounds DEF TelemetryIInv
<1>3. game.map + 1 \in 1..MaxMaps
    BY <1>1, <1>2
<1>4. /\ game' \in Games /\ game'.phase = "freezetime" /\ game'.damage = 0
      /\ game'.bomb = "carried" /\ game'.map >= game.map
    BY <1>1, <1>2, <1>3 DEF Games, Phases, Bombs
<1>5. ~silent' => ~Trusted(stats.current)
    BY <1>1 DEF TelemetryIInv, EpochInv, Trusted
<1>6. silent' \in BOOLEAN
    BY <1>1
<1> QED BY <1>1, <1>4, <1>5, <1>6, NewPlayKeeps

LEMMA DamagesKeeps ==
    ASSUME TelemetryIInv, Damages
    PROVE  TelemetryIInv'
<1>1. /\ TelemetryTypes /\ WorldInv /\ EpochInv /\ CountInv /\ EdgesInv /\ RoundInv /\ AnchorInv
      /\ LiveDamageIsThisRound
    BY DEF TelemetryIInv
<1>2. /\ game.phase = "live" /\ game.damage < MaxDamage
      /\ heard' = heard /\ shown' = shown /\ silent' = silent /\ skipped' = skipped
      /\ state' = state /\ stats' = stats /\ anchor' = anchor /\ started' = started
      /\ ended' = ended /\ counted' = counted /\ resets' = resets
    BY DEF Damages, hearing, reduced
<1>3. /\ game \in Games /\ game.damage \in Nat /\ MaxDamage \in Nat /\ Len(plays) \in Nat
      /\ Len(plays) \in 1..Len(plays) /\ plays \in Seq(0..MaxDamage) /\ plays \in Seq(Nat)
    BY <1>1, GameTypes
<1>4. game' = [map |-> game.map, round |-> game.round, phase |-> game.phase,
               damage |-> game.damage + 1, bomb |-> game.bomb]
    BY <1>3 DEF Damages, Games
<1>5. game.damage + 1 \in 0..MaxDamage
    BY <1>2, <1>3
<1>6. game' \in Games
    BY <1>3, <1>4, <1>5 DEF Games
<1>7. /\ plays' \in Seq(0..MaxDamage) /\ Len(plays') = Len(plays)
      /\ plays'[Len(plays)] = game.damage + 1
      /\ \A i \in 1..Len(plays) : i # Len(plays) => plays'[i] = plays[i]
    <2>1. plays' = [plays EXCEPT ![Len(plays)] = plays[Len(plays)] + 1]
        BY DEF Damages, ThisPlay
    <2>2. plays[Len(plays)] = game.damage
        BY <1>1 DEF WorldInv
    <2> QED BY <1>3, <1>5, <2>1, <2>2
<1>8. TelemetryTypes'
    BY <1>1, <1>2, <1>6, <1>7 DEF TelemetryTypes
<1>9. WorldInv' /\ EpochInv' /\ LiveDamageIsThisRound'
    BY <1>1, <1>2, <1>4, <1>7 DEF WorldInv, EpochInv, NamesSeen, LiveDamageIsThisRound
<1>10. CountInv'
    <2>1. ~NamesThisPlay(counted) /\ counted \in Seq(1..Len(plays))
        BY <1>1, <1>2 DEF CountInv, TelemetryTypes
    <2>2. \A i \in 1..Len(counted) : plays'[counted[i]] = plays[counted[i]]
        <3> SUFFICES ASSUME NEW i \in 1..Len(counted)
                     PROVE  plays'[counted[i]] = plays[counted[i]]
            OBVIOUS
        <3>1. counted[i] \in 1..Len(plays) /\ counted[i] # Len(plays)
            BY <2>1 DEF NamesThisPlay
        <3> QED BY <1>7, <3>1
    <2>3. DamageIn(counted, plays') = DamageIn(counted, plays)
        BY <1>3, <2>1, <2>2, DamageOfOthers
    <2> QED BY <1>1, <1>2, <1>7, <2>1, <2>3 DEF CountInv, NamesThisPlay
<1>11. EdgesInv'
    BY <1>1, <1>2, <1>4, <1>7 DEF EdgesInv, NamesThisPlay
<1>12. RoundInv'
    <2> SUFFICES ASSUME ~silent, Trusted(stats.current)
                 PROVE  RoundFits(stats.current, "live", shown, game.damage + 1)
        BY <1>2, <1>4 DEF RoundInv, RoundFits
    <2>1. RoundFits(stats.current, "live", shown, game.damage)
        BY <1>1, <1>2 DEF RoundInv
    <2>2. stats.current.damage \in Nat
        <3>1. stats.current \in CurrentRound
            BY <1>1 DEF TelemetryTypes, StatsSet, Rounds, Trusted
        <3> QED BY <1>3, <3>1 DEF CurrentRound
    <2> QED BY <1>3, <2>1, <2>2 DEF RoundFits
<1>13. AnchorInv'
    BY <1>1, <1>2, <1>4, <1>7 DEF AnchorInv
<1> QED BY <1>8, <1>9, <1>10, <1>11, <1>12, <1>13 DEF TelemetryIInv

LEMMA BombMovesKeeps ==
    ASSUME TelemetryIInv, NEW bomb \in Bombs, BombMoves(bomb)
    PROVE  TelemetryIInv'
<1>1. /\ TelemetryTypes /\ WorldInv /\ EpochInv /\ CountInv /\ EdgesInv /\ RoundInv /\ AnchorInv
      /\ LiveDamageIsThisRound
    BY DEF TelemetryIInv
<1>2. /\ game.phase = "live" /\ plays' = plays
      /\ heard' = heard /\ shown' = shown /\ silent' = silent /\ skipped' = skipped
      /\ state' = state /\ stats' = stats /\ anchor' = anchor /\ started' = started
      /\ ended' = ended /\ counted' = counted /\ resets' = resets
    BY DEF BombMoves, hearing, reduced
<1>3. game \in Games
    BY <1>1, GameTypes
<1>4. /\ game' \in Games /\ game'.phase = game.phase /\ game'.damage = game.damage
      /\ game'.map = game.map
    BY <1>3 DEF BombMoves, Games
<1>5. TelemetryTypes'
    BY <1>1, <1>2, <1>4 DEF TelemetryTypes
<1>6. WorldInv' /\ EpochInv' /\ LiveDamageIsThisRound'
    BY <1>1, <1>2, <1>4 DEF WorldInv, EpochInv, NamesSeen, LiveDamageIsThisRound
<1>7. CountInv' /\ EdgesInv'
    BY <1>1, <1>2, <1>4 DEF CountInv, EdgesInv, NamesThisPlay
<1>8. RoundInv' /\ AnchorInv'
    BY <1>1, <1>2, <1>4 DEF RoundInv, AnchorInv
<1> QED BY <1>5, <1>6, <1>7, <1>8 DEF TelemetryIInv

\* Only skipped changes, or nothing does.
LEMMA UnchangedKeeps ==
    ASSUME TelemetryIInv, FrameRefused \/ UNCHANGED vars
    PROVE  TelemetryIInv'
<1>1. /\ TelemetryTypes /\ WorldInv /\ EpochInv /\ CountInv /\ EdgesInv /\ RoundInv /\ AnchorInv
      /\ LiveDamageIsThisRound
    BY DEF TelemetryIInv
<1>2. /\ game' = game /\ plays' = plays /\ heard' = heard /\ shown' = shown /\ silent' = silent
      /\ skipped' \in {TRUE, skipped} /\ state' = state /\ stats' = stats /\ anchor' = anchor
      /\ started' = started /\ ended' = ended /\ counted' = counted /\ resets' = resets
    BY DEF FrameRefused, vars, world, hearing, reduced
<1>3. TelemetryTypes'
    BY <1>1, <1>2 DEF TelemetryTypes
<1>4. WorldInv' /\ EpochInv' /\ LiveDamageIsThisRound'
    BY <1>1, <1>2 DEF WorldInv, EpochInv, NamesSeen, LiveDamageIsThisRound
<1>5. CountInv' /\ EdgesInv'
    BY <1>1, <1>2 DEF CountInv, EdgesInv, NamesThisPlay
<1>6. RoundInv' /\ AnchorInv'
    BY <1>1, <1>2 DEF RoundInv, AnchorInv
<1> QED BY <1>3, <1>4, <1>5, <1>6 DEF TelemetryIInv

LEMMA ResetExecutionKeeps ==
    ASSUME TelemetryIInv, ResetExecution
    PROVE  TelemetryIInv'
<1>1. TelemetryTypes /\ WorldInv /\ EpochInv /\ EdgesInv
    BY DEF TelemetryIInv
<1>2. /\ state.generation + resets < MaxBreaks /\ resets' = resets + 1
      /\ anchor' = None /\ counted' = <<>> /\ game' = game /\ plays' = plays
      /\ heard' = heard /\ shown' = shown /\ silent' = silent /\ skipped' = skipped
      /\ started' = started /\ ended' = ended
    BY DEF ResetExecution, MoreBreaks, world, hearing
<1>3. /\ state \in StateSet /\ state.epoch \in Nat /\ state.generation \in Nat /\ resets \in Nat
      /\ MaxBreaks \in Nat
    BY <1>1, TelemetryBounds DEF TelemetryTypes, StateSet
<1>4. state' = [generation |-> state.generation, accepted |-> state.accepted,
                epoch |-> state.epoch + 1, name |-> state.name, telemetry |-> None]
    BY <1>3 DEF ResetExecution, StateSet
<1>5. stats' = [epoch |-> state.epoch + 1, rounds |-> 0, damage |-> 0, current |-> None]
    BY DEF ResetExecution, EmptyStats
<1>6. TelemetryTypes'
    <2>1. state' \in StateSet
        BY <1>3, <1>4 DEF StateSet
    <2>2. stats' \in StatsSet
        BY <1>3, <1>5 DEF StatsSet, Rounds
    <2>3. counted' \in Seq(1..Len(plays))
        BY <1>2
    <2> QED BY <1>1, <1>2, <1>3, <2>1, <2>2, <2>3 DEF TelemetryTypes
<1>7. WorldInv'
    BY <1>1, <1>2, <1>4 DEF WorldInv
<1>8. EpochInv'
    <2>1. NamesSeen' = NamesSeen /\ NamesSeen \in Nat
        BY <1>3, <1>4, TelemetryBounds DEF NamesSeen, StateSet
    <2>2. state.epoch <= NamesSeen + resets /\ NamesSeen <= game.map
        BY <1>1 DEF EpochInv
    <2> QED BY <1>2, <1>3, <1>4, <1>5, <2>1, <2>2 DEF EpochInv
<1>9. CountInv'
    <2>1. DamageIn(counted', plays') = 0 /\ Len(counted') = 0
        BY <1>2, DamageOfNothing
    <2>2. 0 <= 0 * MaxDamage
        BY TelemetryBounds
    <2> QED BY <1>2, <1>5, <2>1, <2>2 DEF CountInv, NamesThisPlay
<1>10. EdgesInv'
    BY <1>1, <1>2, <1>4 DEF EdgesInv, NamesThisPlay
<1>11. RoundInv' /\ AnchorInv' /\ LiveDamageIsThisRound'
    BY <1>2, <1>4, <1>5 DEF RoundInv, RoundFits, Trusted, AnchorInv, LiveDamageIsThisRound
<1> QED BY <1>6, <1>7, <1>8, <1>9, <1>10, <1>11 DEF TelemetryIInv

\* However many frames are lost, refused or late, and whatever is reset: the damage behind the
\* average is what was dealt in the rounds counted, the running damage is the running round's,
\* round edges are named once and the explosion clock is of this bomb (reducer.ts,
\* player-stats.ts, transitions.ts, objective-timing.ts).
THEOREM TelemetryIsExact == Spec => []TelemetryInv
<1>1. Init => TelemetryIInv
    BY TelemetryStarts
<1>2. TelemetryIInv /\ [Next]_vars => TelemetryIInv'
    BY GoesLiveKeeps, RoundOverKeeps, NextMapKeeps, DamagesKeeps, NextRoundKeeps, BombMovesKeeps,
       FrameKeeps, UnchangedKeeps, ResetExecutionKeeps DEF Next
<1>3. TelemetryIInv => TelemetryInv
    BY TelemetryIsSound
<1> QED BY <1>1, <1>2, <1>3, PTL DEF Spec

-----------------------------------------------------------------------------
(* Stamps, and the first marker of a kind *)

StampOf(at, process) == \E n \in Nat : at = n * Processes + process - 1

LEMMA ProcessesType == Processes \in Nat /\ Processes >= 1 /\ Processes = MaxDisturbances + 1
BY QualBounds DEF Processes

\* What lies a multiple of b apart is either the same or at least b apart.
LEMMA MultiplesApart ==
    ASSUME NEW a \in Nat, NEW b \in Nat, NEW c \in Nat, a < c
    PROVE  a * b + b <= c * b
<1>1. PICK d \in Nat : c = a + 1 + d
    <2>1. c - a - 1 \in Nat /\ c = a + 1 + (c - a - 1)
        OBVIOUS
    <2> QED BY <2>1
<1>2. c * b = a * b + b + d * b
    BY <1>1
<1>3. d * b >= 0 /\ d * b \in Nat
    OBVIOUS
<1>4. a * b \in Nat
    OBVIOUS
<1> QED BY <1>2, <1>3, <1>4

LEMMA StampsDiffer ==
    ASSUME NEW at, NEW p \in 1..Processes, NEW q \in 1..Processes, p # q,
           StampOf(at, p), StampOf(at, q)
    PROVE  FALSE
<1>0. Processes \in Nat
    BY ProcessesType
<1>1. PICK m \in Nat : at = m * Processes + p - 1
    BY DEF StampOf
<1>2. PICK n \in Nat : at = n * Processes + q - 1
    BY DEF StampOf
<1> DEFINE x == m * Processes
           y == n * Processes
<1>3. x \in Nat /\ y \in Nat
    BY <1>0
<1>4. x + p = y + q
    BY <1>0, <1>1, <1>2, <1>3
<1>5. m < n => x + Processes <= y
    BY <1>0, MultiplesApart
<1>6. n < m => y + Processes <= x
    BY <1>0, MultiplesApart
<1>7. m = n => x = y
    OBVIOUS
<1>8. m < n \/ n < m \/ m = n
    OBVIOUS
<1> HIDE DEF x, y
<1> QED BY <1>0, <1>3, <1>4, <1>5, <1>6, <1>7, <1>8

LEMMA NextStamp ==
    ASSUME NEW at \in Nat, NEW p \in Nat, StampOf(at, p)
    PROVE  StampOf(at + Processes, p)
<1>0. Processes \in Nat
    BY ProcessesType
<1>1. PICK m \in Nat : at = m * Processes + p - 1
    BY DEF StampOf
<1>2. m + 1 \in Nat /\ (m + 1) * Processes = m * Processes + Processes /\ m * Processes \in Nat
    BY <1>0
<1>3. at + Processes = (m + 1) * Processes + p - 1
    BY <1>0, <1>1, <1>2
<1> QED BY <1>2, <1>3 DEF StampOf

\* The clock of the next process starts at one of its own stamps.
LEMMA FirstStamp ==
    ASSUME NEW now \in Nat, NEW p \in Nat, StampOf(now, p)
    PROVE  StampOf(now + 1, p + 1) /\ StampOf(p, p + 1)
<1>0. Processes \in Nat
    BY ProcessesType
<1>1. PICK m \in Nat : now = m * Processes + p - 1
    BY DEF StampOf
<1>2. now + 1 = m * Processes + (p + 1) - 1
    BY <1>0, <1>1
<1>3. 0 \in Nat /\ p = 0 * Processes + (p + 1) - 1
    BY <1>0
<1> QED BY <1>2, <1>3 DEF StampOf

LEMMA FirstIsFound ==
    ASSUME NEW kind, NEW phase, Found(kind, phase)
    PROVE  FirstIndex(kind, phase) \in Is(kind, phase)
<1>1. Is(kind, phase) \subseteq Nat /\ Is(kind, phase) # {}
    BY DEF Is, Found
<1>2. \E i \in Is(kind, phase) : \A j \in Is(kind, phase) : i <= j
    BY <1>1, SmallestExists
<1> QED BY <1>2 DEF FirstIndex

-----------------------------------------------------------------------------
(* What markers, writes and the frame on show have to do with each other *)

Freshnesses == {"awaiting", "fresh", "stale"}

Observations == [at : Nat, epoch : Nat, mapResets : Nat]

Resets == {NoReset} \cup [accepted : {TRUE, FALSE}, previousEpoch : Nat, epoch : Nat,
                          cleared : BOOLEAN]

MarkerKinds == Kinds \cup {"next-execution", "runtime-stale"}

AllMarkers ==
    [kind : MarkerKinds, phase : {"none", "before", "after"},
     at : Nat, process : Nat, epoch : Nat, generation : Nat, freshness : Freshnesses,
     observation : {NotAccepted} \cup Observations, reset : Resets, mapResets : Nat]

NextSteps == [then : {"answer", "status", "finish"}] \cup [then : {"reset"}, beforeEpoch : Nat]

Writes == [marker : AllMarkers, next : NextSteps]

AllTransitions ==
    [reason : {"observed-map-name-change", "explicit-reset"}, at : Nat, from : Nat, to : Nat,
     process : Nat, generation : Nat]

Services ==
    [process : Nat, now : Nat, generation : Nat, epoch : Nat, map : QualMaps \cup {"none"},
     telemetry : BOOLEAN, silent : BOOLEAN]

ServiceTypes ==
    /\ service \in Services
    /\ seen \in [frames : Nat, disturbances : Nat, stale : BOOLEAN]
    /\ service.process >= 1 /\ service.process <= seen.disturbances + 1
    /\ seen.disturbances <= MaxDisturbances
    /\ mapResets \in Nat

RecordTypes ==
    /\ accepted \in {NotAccepted} \cup Observations
    /\ transitions \in Seq(AllTransitions) /\ Len(transitions) <= MaxTransitions
    /\ lastFreshness \in Freshnesses \cup {"none"}
    /\ markers \in Seq(AllMarkers)
    /\ writes \in Seq(Writes)
    /\ outcome \in {NotEnded} \cup [fresh : Freshnesses, transitions : Seq(AllTransitions)]

\* The frame on show is of the epoch that runs, and no reset came after it.
FrameOnShow ==
    /\ StampOf(service.now, service.process)
    /\ service.telemetry =>
        /\ accepted # NotAccepted
        /\ accepted.epoch = service.epoch /\ accepted.mapResets = mapResets

MarkerOK(m) ==
    /\ m.process \in 1..Processes /\ StampOf(m.at, m.process)
    /\ m.kind \in LiveKinds =>
        /\ m.freshness = "fresh"
        /\ m.observation.epoch = m.epoch /\ m.observation.mapResets = m.mapResets
    /\ m.kind # "next-execution" => m.phase = "none"
    /\ m.phase = "after" /\ m.reset.accepted => m.mapResets > 0

\* Markers are made one after the other: processes and resets only get more, and the clock of
\* one process never goes back.
Precedes(m, n) ==
    /\ m.process <= n.process /\ m.mapResets <= n.mapResets
    /\ m.process = n.process => m.at < n.at

Past(m, s, count) ==
    /\ m.process <= s.process /\ m.mapResets <= count
    /\ m.process = s.process => m.at <= s.now

\* What is written, ms, and what waits to be written, ws, which is of this process and comes after
\* all that is written.
InOrder(ms, ws, s, count) ==
    /\ \A i \in 1..Len(ms) : MarkerOK(ms[i]) /\ Past(ms[i], s, count)
    /\ \A i, j \in 1..Len(ms) : i < j => Precedes(ms[i], ms[j])
    /\ \A i \in 1..Len(ws) :
        /\ MarkerOK(ws[i].marker) /\ Past(ws[i].marker, s, count)
        /\ ws[i].marker.process = s.process
        /\ ws[i].next.then \in {"status", "finish"} => ws[i].marker.kind = "runtime-stale"
    /\ \A i \in 1..Len(ws), j \in 1..Len(ms) : Precedes(ms[j], ws[i].marker)
    /\ \A i, j \in 1..Len(ws) : i < j => Precedes(ws[i].marker, ws[j].marker)

MarkersInOrder == InOrder(markers, writes, service, mapResets)

StaleIsTold ==
    /\ StaleIsRecorded
    /\ lastFreshness = "stale" => Found("runtime-stale", "none")

EvidenceIInv ==
    /\ ServiceTypes /\ RecordTypes /\ FrameOnShow
    /\ MarkersInOrder /\ StaleIsTold

-----------------------------------------------------------------------------
(* The invariant implies what is promised *)

LEMMA AtIsDistinct ==
    ASSUME EvidenceIInv, NEW i \in 1..Len(markers), NEW j \in 1..Len(markers), i < j
    PROVE  markers[i].at # markers[j].at
<1>1. markers[i] \in AllMarkers /\ markers[j] \in AllMarkers
    BY DEF EvidenceIInv, RecordTypes
<1>2. MarkerOK(markers[i]) /\ MarkerOK(markers[j]) /\ Precedes(markers[i], markers[j])
    BY DEF EvidenceIInv, MarkersInOrder, InOrder
<1>3. CASE markers[i].process = markers[j].process
    BY <1>1, <1>2, <1>3 DEF Precedes, AllMarkers
<1>4. CASE markers[i].process # markers[j].process
    BY <1>2, <1>4, StampsDiffer DEF MarkerOK
<1> QED BY <1>3, <1>4

\* In evidence that can be read, the order of the lines is the order of the stamps.
LEMMA ReadableOrder ==
    ASSUME EvidenceIInv, Readable, NEW i \in 1..Len(markers), NEW j \in 1..Len(markers)
    PROVE  i < j <=> markers[i].at < markers[j].at
<1>1. markers[i].at \in Nat /\ markers[j].at \in Nat
    <2>1. markers[i] \in AllMarkers /\ markers[j] \in AllMarkers
        BY DEF EvidenceIInv, RecordTypes
    <2> QED BY <2>1 DEF AllMarkers
<1>2. i < j => markers[i].at < markers[j].at
    BY <1>1, AtIsDistinct DEF Readable
<1>3. j < i => markers[j].at < markers[i].at
    BY <1>1, AtIsDistinct DEF Readable
<1>4. i < j \/ j < i \/ i = j
    OBVIOUS
<1> QED BY <1>1, <1>2, <1>3, <1>4

LEMMA FirstMarker ==
    ASSUME EvidenceIInv, NEW kind, NEW phase, Found(kind, phase)
    PROVE  /\ FirstIndex(kind, phase) \in 1..Len(markers)
           /\ First(kind, phase) = markers[FirstIndex(kind, phase)]
           /\ First(kind, phase) \in AllMarkers
           /\ First(kind, phase).kind = kind /\ First(kind, phase).phase = phase
           /\ MarkerOK(First(kind, phase))
<1>1. FirstIndex(kind, phase) \in Is(kind, phase)
    BY FirstIsFound
<1> QED BY <1>1 DEF Is, First, EvidenceIInv, RecordTypes, MarkersInOrder, InOrder

LEMMA LiveMarkersFollow ==
    ASSUME EvidenceIInv
    PROVE  LiveMarkersShowTheirExecution
BY DEF EvidenceIInv, MarkersInOrder, InOrder, MarkerOK, LiveMarkersShowTheirExecution

LEMMA FirstDemosAgree ==
    ASSUME EvidenceIInv, Readable
    PROVE  LiveProductionChain <=>
               FinalProductionChain /\ First("demo-a-live", "none").epoch > 0
<1> DEFINE i == FirstIndex("demo-a-live", "none")
           j == FirstIndex("next-execution", "before")
<1>1. SUFFICES ASSUME Found("demo-a-live", "none")
               PROVE  LiveProductionChain <=>
                          FinalProductionChain /\ First("demo-a-live", "none").epoch > 0
    BY DEF LiveProductionChain, FinalProductionChain
<1>2. /\ i \in 1..Len(markers) /\ First("demo-a-live", "none") = markers[i]
      /\ First("demo-a-live", "none").freshness = "fresh"
    BY <1>1, FirstMarker DEF MarkerOK, LiveKinds
<1>3. Asked => j \in 1..Len(markers) /\ Before = markers[j]
    BY FirstMarker DEF Asked, Before
<1>4. Asked => (i < j <=> First("demo-a-live", "none").at < Before.at)
    <2> HIDE DEF i, j
    <2> QED BY <1>2, <1>3, ReadableOrder
<1> QED BY <1>1, <1>2, <1>4 DEF LiveProductionChain, FinalProductionChain

LEMMA SecondDemoFound ==
    ASSUME EvidenceIInv, FinalDemoBRecovery
    PROVE  /\ Found("cs2-reopened", "none") /\ Found("demo-b-live", "none") /\ Answered
           /\ Precedes(After, First("demo-b-live", "none"))
<1>1. Found("cs2-reopened", "none") /\ Found("demo-b-live", "none")
    <2>1. \A k \in 1..Len(markers) : markers[k].kind # "next-execution" => markers[k].phase = "none"
        BY DEF EvidenceIInv, MarkersInOrder, InOrder, MarkerOK
    <2> QED BY <2>1 DEF FinalDemoBRecovery, ReopenedBeforeB, Found, Is
<1>2. Answered
    BY DEF FinalDemoBRecovery, ResetPassed
<1>3. FirstIndex("next-execution", "after") < FirstIndex("demo-b-live", "none")
    <2>1. /\ FirstIndex("next-execution", "after") \in 1..Len(markers)
          /\ FirstIndex("demo-b-live", "none") \in 1..Len(markers)
        BY <1>1, <1>2, FirstMarker DEF Answered
    <2> QED BY <2>1 DEF FinalDemoBRecovery
<1>4. Precedes(After, First("demo-b-live", "none"))
    BY <1>1, <1>2, <1>3, FirstMarker DEF Answered, After, EvidenceIInv, MarkersInOrder, InOrder
<1> QED BY <1>1, <1>2, <1>4

LEMMA SecondDemosAgree ==
    ASSUME EvidenceIInv, Readable, FinalDemoBRecovery
    PROVE  LiveDemoBRecovery
<1> DEFINE m == First("demo-b-live", "none")
<1>1. Found("cs2-reopened", "none") /\ Found("demo-b-live", "none") /\ Answered
    BY SecondDemoFound
<1>2. m.freshness = "fresh"
    BY <1>1, FirstMarker DEF MarkerOK, LiveKinds
<1>3. m.at > After.at
    <2>1. /\ FirstIndex("next-execution", "after") \in 1..Len(markers)
          /\ FirstIndex("demo-b-live", "none") \in 1..Len(markers)
          /\ After = markers[FirstIndex("next-execution", "after")]
          /\ m = markers[FirstIndex("demo-b-live", "none")]
          /\ m.at \in Nat /\ After.at \in Nat
        BY <1>1, FirstMarker DEF Answered, After, AllMarkers
    <2>2. FirstIndex("next-execution", "after") < FirstIndex("demo-b-live", "none")
        BY <2>1 DEF FinalDemoBRecovery
    <2>3. After.at < m.at
        BY <2>1, <2>2, ReadableOrder
    <2> QED BY <2>1, <2>3
<1> QED BY <1>1, <1>2, <1>3 DEF LiveDemoBRecovery, FinalDemoBRecovery

LEMMA SecondDemoFollows ==
    ASSUME EvidenceIInv
    PROVE  SecondDemoIsNew
<1> DEFINE m == First("demo-b-live", "none")
<1>1. SUFFICES ASSUME FinalDemoBRecovery
               PROVE  m.observation.mapResets >= After.mapResets /\ After.mapResets > 0
    BY DEF SecondDemoIsNew
<1>2. Found("demo-b-live", "none") /\ Answered /\ Precedes(After, m)
    BY <1>1, SecondDemoFound
<1>3. m.observation.mapResets = m.mapResets /\ m.mapResets \in Nat
    BY <1>2, FirstMarker DEF MarkerOK, LiveKinds, AllMarkers
<1>4. After.mapResets \in Nat /\ After.mapResets > 0
    <2>1. After.reset.accepted
        BY <1>1 DEF FinalDemoBRecovery, ResetPassed
    <2> QED BY <1>2, <2>1, FirstMarker DEF Answered, After, MarkerOK, AllMarkers
<1> QED BY <1>2, <1>3, <1>4 DEF Precedes

LEMMA EvidenceTypesFollow ==
    ASSUME EvidenceIInv
    PROVE  QualTypeOK
<1>1. service.process \in 1..MaxDisturbances + 1
    BY QualBounds DEF EvidenceIInv, ServiceTypes, Services
<1>2. {service.epoch, service.generation, mapResets} \subseteq Nat
    BY DEF EvidenceIInv, ServiceTypes, Services
<1>3. Len(transitions) <= MaxTransitions
    BY DEF EvidenceIInv, RecordTypes
<1>4. \A i \in 1..Len(writes) : writes[i].next.then \in {"answer", "reset", "status", "finish"}
    <2>1. ASSUME NEW i \in 1..Len(writes)
          PROVE  writes[i].next.then \in {"answer", "reset", "status", "finish"}
        <3>1. writes[i] \in Writes
            BY DEF EvidenceIInv, RecordTypes
        <3>2. writes[i].next \in NextSteps
            BY <3>1 DEF Writes
        <3>3. CASE writes[i].next \in [then : {"answer", "status", "finish"}]
            BY <3>3
        <3>4. CASE writes[i].next \in [then : {"reset"}, beforeEpoch : Nat]
            BY <3>4
        <3> QED BY <3>2, <3>3, <3>4 DEF NextSteps
    <2> QED BY <2>1
<1>5. outcome.fresh \in {"not ended", "awaiting", "fresh", "stale"}
    <2>1. outcome \in {NotEnded} \cup [fresh : Freshnesses, transitions : Seq(AllTransitions)]
        BY DEF EvidenceIInv, RecordTypes
    <2>2. CASE outcome = NotEnded
        BY <2>2 DEF NotEnded
    <2>3. CASE outcome \in [fresh : Freshnesses, transitions : Seq(AllTransitions)]
        <3>1. outcome.fresh \in Freshnesses
            BY <2>3
        <3> QED BY <3>1 DEF Freshnesses
    <2> QED BY <2>1, <2>2, <2>3
<1> QED BY <1>1, <1>2, <1>3, <1>4, <1>5 DEF QualTypeOK

LEMMA EvidenceIsSound ==
    ASSUME EvidenceIInv
    PROVE  QualificationInv
<1>1. StaleIsRecorded
    BY DEF EvidenceIInv, StaleIsTold
<1>2. VerdictsAgree
    BY FirstDemosAgree, SecondDemosAgree DEF VerdictsAgree, Ended
<1> QED BY <1>1, <1>2, EvidenceTypesFollow, LiveMarkersFollow, SecondDemoFollows
    DEF QualificationInv

-----------------------------------------------------------------------------
(* How the operations change the records *)

\* What a step may do to the clock, the process and the resets: none of them goes back.
GoesOn(s, t, count, more) ==
    /\ t.process >= s.process /\ more >= count
    /\ t.process = s.process => t.now >= s.now

LEMMA PastStays ==
    ASSUME NEW m \in AllMarkers, NEW s \in Services, NEW t \in Services, NEW count \in Nat,
           NEW more \in Nat, GoesOn(s, t, count, more), Past(m, s, count)
    PROVE  Past(m, t, more)
<1>1. m.process \in Nat /\ m.at \in Nat /\ m.mapResets \in Nat
    BY DEF AllMarkers
<1>2. s.process \in Nat /\ t.process \in Nat /\ s.now \in Nat /\ t.now \in Nat
    BY DEF Services
<1> QED BY <1>1, <1>2 DEF Past, GoesOn

LEMMA ListTypes ==
    ASSUME NEW ms \in Seq(AllMarkers), NEW ws \in Seq(Writes)
    PROVE  /\ Len(ms) \in Nat /\ Len(ws) \in Nat
           /\ \A i \in 1..Len(ms) : ms[i] \in AllMarkers
           /\ \A i \in 1..Len(ws) : ws[i] \in Writes /\ ws[i].marker \in AllMarkers
<1>1. \A i \in 1..Len(ws) : ws[i] \in Writes
    OBVIOUS
<1> QED BY <1>1 DEF Writes

\* The lists stay in order when time goes on, and in another process when nothing is waiting.
LEMMA ListsStay ==
    ASSUME NEW ms \in Seq(AllMarkers), NEW ws \in Seq(Writes),
           NEW s \in Services, NEW t \in Services, NEW count \in Nat, NEW more \in Nat,
           InOrder(ms, ws, s, count), GoesOn(s, t, count, more),
           ws = <<>> \/ t.process = s.process
    PROVE  InOrder(ms, ws, t, more)
<1>1. ASSUME NEW i \in 1..Len(ms) PROVE Past(ms[i], t, more)
    BY ListTypes, PastStays DEF InOrder
<1>2. ASSUME NEW i \in 1..Len(ws) PROVE Past(ws[i].marker, t, more)
    BY ListTypes, PastStays DEF InOrder
<1>3. \A i \in 1..Len(ws) : t.process = s.process
    OBVIOUS
<1> QED BY <1>1, <1>2, <1>3 DEF InOrder

LEMMA LastTransitionsType ==
    ASSUME NEW ts \in Seq(AllTransitions)
    PROVE  /\ LastTransitions(ts) \in Seq(AllTransitions)
           /\ Len(LastTransitions(ts)) <= MaxTransitions
<1>1. MaxTransitions \in Nat /\ MaxTransitions > 0 /\ Len(ts) \in Nat
    BY QualAssumption
<1>2. CASE Len(ts) > MaxTransitions
    <2>1. SubSeq(ts, Len(ts) - MaxTransitions + 1, Len(ts)) \in Seq(AllTransitions)
        BY <1>1, <1>2
    <2>2. Len(SubSeq(ts, Len(ts) - MaxTransitions + 1, Len(ts))) = MaxTransitions
        BY <1>1, <1>2
    <2> QED BY <1>1, <1>2, <2>1, <2>2 DEF LastTransitions
<1>3. CASE ~(Len(ts) > MaxTransitions)
    BY <1>1, <1>3 DEF LastTransitions
<1> QED BY <1>2, <1>3

LEMMA ChangedKeeps ==
    ASSUME RecordTypes, ServiceTypes, ServiceTypes',
           NEW reason \in {"observed-map-name-change", "explicit-reset"}, NEW at \in Nat,
           NEW from \in Nat, Changed(reason, at, from)
    PROVE  transitions' \in Seq(AllTransitions) /\ Len(transitions') <= MaxTransitions
<1> DEFINE t == [reason |-> reason, at |-> at, from |-> from, to |-> from + 1,
                 process |-> service.process, generation |-> service'.generation]
<1>1. t \in AllTransitions
    BY DEF AllTransitions, ServiceTypes, Services
<1>2. transitions' = LastTransitions(Append(transitions, t))
    BY DEF Changed
<1>3. Append(transitions, t) \in Seq(AllTransitions)
    <2> HIDE DEF t
    <2> QED BY <1>1 DEF RecordTypes
<1> QED BY <1>2, <1>3, LastTransitionsType

\* The head of what waits is written.
LEMMA HeadIsWritten ==
    ASSUME NEW ms \in Seq(AllMarkers), NEW ws \in Seq(Writes), NEW s \in Services,
           NEW count \in Nat,
           InOrder(ms, ws, s, count), ws # <<>>
    PROVE  /\ Append(ms, Head(ws).marker) \in Seq(AllMarkers) /\ Tail(ws) \in Seq(Writes)
           /\ InOrder(Append(ms, Head(ws).marker), Tail(ws), s, count)
<1> DEFINE m == Head(ws).marker
           ms2 == Append(ms, m)
           ws2 == Tail(ws)
<1>1. Len(ws) \in Nat /\ Len(ws) >= 1 /\ 1 \in 1..Len(ws) /\ Head(ws) = ws[1]
    OBVIOUS
<1>2. m = ws[1].marker /\ m \in AllMarkers
    BY <1>1, ListTypes
<1>3. /\ ws2 \in Seq(Writes) /\ Len(ws2) = Len(ws) - 1
      /\ \A i \in 1..Len(ws2) : ws2[i] = ws[i + 1] /\ i + 1 \in 1..Len(ws)
    BY <1>1
<1> HIDE DEF m
<1>4. /\ ms2 \in Seq(AllMarkers) /\ Len(ms2) = Len(ms) + 1 /\ Len(ms) \in Nat
      /\ \A i \in 1..Len(ms) : ms2[i] = ms[i]
      /\ ms2[Len(ms) + 1] = m
    BY <1>2
<1> HIDE DEF ms2, ws2
<1>5. \A i \in 1..Len(ms2) : i \in 1..Len(ms) \/ i = Len(ms) + 1
    BY <1>4
<1>6. ASSUME NEW i \in 1..Len(ms2) PROVE MarkerOK(ms2[i]) /\ Past(ms2[i], s, count)
    BY <1>1, <1>2, <1>4, <1>5 DEF InOrder
<1>7. ASSUME NEW i \in 1..Len(ms2), NEW j \in 1..Len(ms2), i < j PROVE Precedes(ms2[i], ms2[j])
    <2>1. i \in 1..Len(ms)
        BY <1>4, <1>7
    <2>2. CASE j \in 1..Len(ms)
        BY <1>4, <1>7, <2>1, <2>2 DEF InOrder
    <2>3. CASE j = Len(ms) + 1
        BY <1>1, <1>2, <1>4, <2>1, <2>3 DEF InOrder
    <2> QED BY <1>5, <2>2, <2>3
<1>8. ASSUME NEW i \in 1..Len(ws2)
      PROVE  /\ MarkerOK(ws2[i].marker) /\ Past(ws2[i].marker, s, count)
             /\ ws2[i].marker.process = s.process
             /\ ws2[i].next.then \in {"status", "finish"} => ws2[i].marker.kind = "runtime-stale"
    BY <1>3 DEF InOrder
<1>9. ASSUME NEW i \in 1..Len(ws2), NEW j \in 1..Len(ms2) PROVE Precedes(ms2[j], ws2[i].marker)
    <2>1. CASE j \in 1..Len(ms)
        BY <1>3, <1>4, <2>1 DEF InOrder
    <2>2. CASE j = Len(ms) + 1
        <3>1. 1 < i + 1 /\ i + 1 \in 1..Len(ws)
            BY <1>3
        <3> QED BY <1>1, <1>2, <1>3, <1>4, <2>2, <3>1 DEF InOrder
    <2> QED BY <1>5, <2>1, <2>2
<1>10. ASSUME NEW i \in 1..Len(ws2), NEW j \in 1..Len(ws2), i < j
       PROVE  Precedes(ws2[i].marker, ws2[j].marker)
    <2>1. i + 1 < j + 1
        BY <1>10
    <2> QED BY <1>3, <2>1 DEF InOrder
<1>11. InOrder(ms2, ws2, s, count)
    BY <1>6, <1>7, <1>8, <1>9, <1>10 DEF InOrder
<1> QED BY <1>3, <1>4, <1>11 DEF ms2, ws2, m

\* The head of what waits is given up.
LEMMA HeadIsDropped ==
    ASSUME NEW ms \in Seq(AllMarkers), NEW ws \in Seq(Writes), NEW s \in Services,
           NEW count \in Nat,
           InOrder(ms, ws, s, count), ws # <<>>
    PROVE  Tail(ws) \in Seq(Writes) /\ InOrder(ms, Tail(ws), s, count)
<1> DEFINE ws2 == Tail(ws)
<1>1. /\ ws2 \in Seq(Writes) /\ Len(ws2) = Len(ws) - 1
      /\ \A i \in 1..Len(ws2) : ws2[i] = ws[i + 1] /\ i + 1 \in 1..Len(ws)
    OBVIOUS
<1> HIDE DEF ws2
<1>2. ASSUME NEW i \in 1..Len(ws2), NEW j \in 1..Len(ws2), i < j
      PROVE  Precedes(ws2[i].marker, ws2[j].marker)
    <2>1. i + 1 < j + 1
        BY <1>2
    <2> QED BY <1>1, <2>1 DEF InOrder
<1>3. InOrder(ms, ws2, s, count)
    BY <1>1, <1>2 DEF InOrder
<1> QED BY <1>1, <1>3 DEF ws2

\* What a marker must be to join the writes.
Joins(m, t, more) ==
    MarkerOK(m) /\ m.process = t.process /\ m.mapResets = more /\ m.at = t.now

LEMMA PrecedesNew ==
    ASSUME NEW m \in AllMarkers, NEW n \in AllMarkers, NEW s \in Services, NEW t \in Services,
           NEW count \in Nat, NEW more \in Nat, GoesOn(s, t, count, more), t.now > s.now,
           t.process = s.process, Joins(m, t, more), Past(n, s, count)
    PROVE  Precedes(n, m)
<1>1. /\ s.process \in Nat /\ s.now \in Nat /\ t.now \in Nat
      /\ n.process \in Nat /\ n.at \in Nat /\ n.mapResets \in Nat
    BY DEF Services, AllMarkers
<1> QED BY <1>1 DEF GoesOn, Joins, Past, Precedes

\* A marker that takes the next stamp joins what waits.
LEMMA WriteJoins ==
    ASSUME NEW ms \in Seq(AllMarkers), NEW ws \in Seq(Writes),
           NEW s \in Services, NEW t \in Services, NEW count \in Nat, NEW more \in Nat,
           InOrder(ms, ws, s, count), GoesOn(s, t, count, more), t.process = s.process,
           t.now > s.now, NEW m \in AllMarkers, Joins(m, t, more), NEW next \in NextSteps,
           next.then \in {"status", "finish"} => m.kind = "runtime-stale"
    PROVE  /\ Append(ws, [marker |-> m, next |-> next]) \in Seq(Writes)
           /\ InOrder(ms, Append(ws, [marker |-> m, next |-> next]), t, more)
<1> DEFINE w == [marker |-> m, next |-> next]
           ws2 == Append(ws, w)
<1>1. InOrder(ms, ws, t, more)
    BY ListsStay
<1>2. w \in Writes /\ w.marker = m /\ w.next = next
    BY DEF Writes
<1> HIDE DEF w
<1>3. /\ ws2 \in Seq(Writes) /\ Len(ws2) = Len(ws) + 1 /\ Len(ws) \in Nat
      /\ \A i \in 1..Len(ws) : ws2[i] = ws[i]
      /\ ws2[Len(ws) + 1] = w
    BY <1>2
<1> HIDE DEF ws2
<1>4. \A i \in 1..Len(ws2) : i \in 1..Len(ws) \/ i = Len(ws) + 1
    BY <1>3
<1>5. Past(m, t, more) /\ MarkerOK(m) /\ m.process = t.process
    <2>1. t.now \in Nat /\ t.process \in Nat
        BY DEF Services
    <2> QED BY <2>1 DEF Joins, Past
<1>6. ASSUME NEW i \in 1..Len(ws) PROVE Precedes(ws[i].marker, m)
    BY ListTypes, PrecedesNew DEF InOrder
<1>7. ASSUME NEW i \in 1..Len(ms) PROVE Precedes(ms[i], m)
    BY ListTypes, PrecedesNew DEF InOrder
<1>8. ASSUME NEW i \in 1..Len(ws2)
      PROVE  /\ MarkerOK(ws2[i].marker) /\ Past(ws2[i].marker, t, more)
             /\ ws2[i].marker.process = t.process
             /\ ws2[i].next.then \in {"status", "finish"} => ws2[i].marker.kind = "runtime-stale"
    BY <1>1, <1>2, <1>3, <1>4, <1>5 DEF InOrder
<1>9. ASSUME NEW i \in 1..Len(ws2), NEW j \in 1..Len(ms) PROVE Precedes(ms[j], ws2[i].marker)
    BY <1>1, <1>2, <1>3, <1>4, <1>7 DEF InOrder
<1>10. ASSUME NEW i \in 1..Len(ws2), NEW j \in 1..Len(ws2), i < j
       PROVE  Precedes(ws2[i].marker, ws2[j].marker)
    <2>1. i \in 1..Len(ws)
        BY <1>3, <1>10
    <2>2. CASE j \in 1..Len(ws)
        BY <1>1, <1>3, <1>10, <2>1, <2>2 DEF InOrder
    <2>3. CASE j = Len(ws) + 1
        BY <1>2, <1>3, <1>6, <2>1, <2>3
    <2> QED BY <1>4, <2>2, <2>3
<1>11. InOrder(ms, ws2, t, more)
    BY <1>1, <1>8, <1>9, <1>10 DEF InOrder
<1> QED BY <1>3, <1>11 DEF ws2, w

\* What the accounts of the exploration may do.
SeenGoesOn ==
    /\ seen' \in [frames : Nat, disturbances : Nat, stale : BOOLEAN]
    /\ seen'.disturbances >= seen.disturbances /\ seen'.disturbances <= MaxDisturbances

LEMMA DisturbanceKeeps ==
    ASSUME ServiceTypes, Disturbance
    PROVE  /\ SeenGoesOn /\ seen'.stale = seen.stale
           /\ seen'.disturbances = seen.disturbances + 1
<1>1. seen \in [frames : Nat, disturbances : Nat, stale : BOOLEAN]
    BY DEF ServiceTypes
<1>2. MaxDisturbances \in Nat
    BY QualBounds
<1> QED BY <1>1, <1>2 DEF Disturbance, SeenGoesOn

LEMMA SeenStays ==
    ASSUME ServiceTypes, UNCHANGED seen
    PROVE  SeenGoesOn
BY DEF ServiceTypes, SeenGoesOn

LEMMA ServiceTypesStay ==
    ASSUME ServiceTypes, SeenGoesOn, service' \in Services, service'.process = service.process,
           mapResets' \in Nat
    PROVE  ServiceTypes'
<1>1. service.process \in Nat /\ seen.disturbances \in Nat /\ seen'.disturbances \in Nat
    BY DEF ServiceTypes, Services, SeenGoesOn
<1> QED BY <1>1 DEF ServiceTypes, SeenGoesOn

LEMMA FreshnessType ==
    Freshness \in Freshnesses /\ (Freshness = "fresh" => service.telemetry)
BY DEF Freshness, Freshnesses

\* The clock takes the next stamp and nothing else of the runtime changes.
LEMMA TickKeeps ==
    ASSUME EvidenceIInv, service' = [service EXCEPT !.now = Tick],
           UNCHANGED <<accepted, mapResets>>, SeenGoesOn
    PROVE  /\ ServiceTypes' /\ GoesOn(service, service', mapResets, mapResets')
           /\ FrameOnShow' /\ Freshness' = Freshness
           /\ service'.process = service.process /\ service'.now > service.now
           /\ service'.now \in Nat /\ service'.epoch = service.epoch
           /\ StampOf(service'.now, service.process)
<1>1. /\ service \in Services
      /\ service.process >= 1 /\ service.process <= seen.disturbances + 1
      /\ mapResets \in Nat /\ seen.disturbances \in Nat
    BY DEF EvidenceIInv, ServiceTypes
<1>2. Processes \in Nat /\ Processes >= 1
    BY ProcessesType
<1>3. /\ service' \in Services
      /\ service'.now = service.now + Processes
      /\ service'.process = service.process /\ service'.epoch = service.epoch
      /\ service'.telemetry = service.telemetry /\ service'.silent = service.silent
    BY <1>1, <1>2 DEF Tick, Services
<1>4. service'.now > service.now /\ service.now \in Nat /\ service.process \in Nat
    BY <1>1, <1>2, <1>3 DEF Services
<1>5. ServiceTypes' /\ GoesOn(service, service', mapResets, mapResets')
    BY <1>1, <1>3, <1>4 DEF ServiceTypes, Services, SeenGoesOn, GoesOn
<1>6. StampOf(service'.now, service.process)
    BY <1>3, <1>4, NextStamp DEF EvidenceIInv, FrameOnShow
<1>7. FrameOnShow'
    BY <1>3, <1>6 DEF EvidenceIInv, FrameOnShow
<1>8. Freshness' = Freshness
    BY <1>3 DEF Freshness
<1> QED BY <1>3, <1>4, <1>5, <1>6, <1>7, <1>8 DEF Services

\* Every request that records a marker.
LEMMA RecordsKeeps ==
    ASSUME EvidenceIInv, NEW kind \in MarkerKinds, NEW phase \in {"none", "before"},
           NEW next \in NextSteps, Records(kind, phase, NoReset, next),
           UNCHANGED <<accepted, markers, mapResets>>, SeenGoesOn,
           kind \in LiveKinds => Freshness = "fresh",
           kind # "next-execution" => phase = "none",
           next.then \in {"status", "finish"} => kind = "runtime-stale"
    PROVE  /\ ServiceTypes' /\ FrameOnShow' /\ writes' \in Seq(Writes) /\ MarkersInOrder'
<1> DEFINE m == [kind |-> kind, phase |-> phase, at |-> service'.now, process |-> service.process,
                 epoch |-> service'.epoch, generation |-> service.generation,
                 freshness |-> Freshness', observation |-> accepted, reset |-> NoReset,
                 mapResets |-> mapResets]
<1>1. /\ service' = [service EXCEPT !.now = Tick]
      /\ writes' = Append(writes, [marker |-> m, next |-> next])
    BY DEF Records, Marker
<1>2. /\ ServiceTypes' /\ GoesOn(service, service', mapResets, mapResets')
      /\ FrameOnShow' /\ Freshness' = Freshness
      /\ service'.process = service.process /\ service'.now > service.now
      /\ service'.now \in Nat /\ service'.epoch = service.epoch
      /\ StampOf(service'.now, service.process)
    BY <1>1, TickKeeps
<1>3. m \in AllMarkers
    <2>1. /\ service.process \in Nat /\ service'.epoch \in Nat /\ service.generation \in Nat
          /\ mapResets \in Nat /\ accepted \in {NotAccepted} \cup Observations
        BY <1>2 DEF EvidenceIInv, ServiceTypes, Services, RecordTypes
    <2>2. NoReset \in Resets /\ Freshness' \in Freshnesses
        BY <1>2, FreshnessType DEF Resets
    <2>3. phase \in {"none", "before", "after"}
        OBVIOUS
    <2> HIDE DEF Freshness
    <2> QED BY <1>2, <2>1, <2>2, <2>3 DEF AllMarkers
<1>4. MarkerOK(m)
    <2>1. service.process \in 1..Processes
        BY ProcessesType, QualBounds DEF EvidenceIInv, ServiceTypes, Services
    <2>2. ASSUME kind \in LiveKinds
          PROVE  /\ Freshness' = "fresh"
                 /\ accepted.epoch = service'.epoch /\ accepted.mapResets = mapResets
        BY <1>2, <2>2, FreshnessType DEF EvidenceIInv, FrameOnShow
    <2>3. phase # "after"
        OBVIOUS
    <2> QED BY <1>2, <2>1, <2>2, <2>3 DEF MarkerOK
<1>5. Joins(m, service', mapResets) /\ m.kind = kind
    BY <1>2, <1>4 DEF Joins
<1> HIDE DEF m
<1>6. writes' \in Seq(Writes) /\ MarkersInOrder'
    <2>1. /\ markers \in Seq(AllMarkers) /\ writes \in Seq(Writes) /\ service \in Services
          /\ service' \in Services /\ mapResets \in Nat
          /\ InOrder(markers, writes, service, mapResets)
        BY <1>2 DEF EvidenceIInv, RecordTypes, ServiceTypes, MarkersInOrder
    <2>2. Joins(m, service', mapResets)
        BY <1>5
    <2>3. /\ Append(writes, [marker |-> m, next |-> next]) \in Seq(Writes)
          /\ InOrder(markers, Append(writes, [marker |-> m, next |-> next]), service', mapResets)
        BY <1>2, <1>3, <1>5, <2>1, <2>2, WriteJoins
    <2> QED BY <1>1, <2>3 DEF MarkersInOrder
<1> QED BY <1>2, <1>6

\* Nothing that markers say changes when neither list does.
LEMMA StaleStays ==
    ASSUME EvidenceIInv, UNCHANGED <<markers>>, seen'.stale = seen.stale,
           lastFreshness' # "stale" \/ lastFreshness' = lastFreshness
    PROVE  StaleIsTold'
BY DEF EvidenceIInv, StaleIsTold, StaleIsRecorded, Found, Is

LEMMA OperatorMarksKeeps ==
    ASSUME EvidenceIInv, NEW kind \in Kinds, OperatorMarks(kind)
    PROVE  EvidenceIInv'
<1> DEFINE next == [then |-> "answer"]
<1>1. next \in NextSteps /\ next.then \notin {"status", "finish"}
    BY DEF NextSteps
<1>2. /\ Records(kind, "none", NoReset, next)
      /\ kind \in LiveKinds => Freshness = "fresh"
      /\ UNCHANGED <<accepted, transitions, lastFreshness, markers, outcome, mapResets, seen>>
    BY DEF OperatorMarks
<1>3. kind \in MarkerKinds /\ "none" \in {"none", "before"}
    BY DEF MarkerKinds
<1>4. SeenGoesOn
    BY <1>2, SeenStays DEF EvidenceIInv
<1> HIDE DEF next
<1>5. /\ ServiceTypes' /\ FrameOnShow' /\ writes' \in Seq(Writes) /\ MarkersInOrder'
    BY <1>1, <1>2, <1>3, <1>4, RecordsKeeps
<1>6. StaleIsTold'
    BY <1>2, StaleStays
<1>7. RecordTypes'
    BY <1>2, <1>5 DEF EvidenceIInv, RecordTypes
<1> QED BY <1>5, <1>6, <1>7 DEF EvidenceIInv

LEMMA AsksForNextKeeps ==
    ASSUME EvidenceIInv, AsksForNextExecution
    PROVE  EvidenceIInv'
<1> DEFINE next == [then |-> "reset", beforeEpoch |-> service.epoch]
<1>1. next \in NextSteps /\ next.then \notin {"status", "finish"}
    BY DEF NextSteps, EvidenceIInv, ServiceTypes, Services
<1>2. /\ Records("next-execution", "before", NoReset, next)
      /\ Disturbance \/ UNCHANGED seen
      /\ UNCHANGED <<accepted, transitions, lastFreshness, markers, outcome, mapResets>>
    BY DEF AsksForNextExecution
<1>3. /\ "next-execution" \in MarkerKinds /\ "before" \in {"none", "before"}
      /\ "next-execution" \notin LiveKinds
    BY DEF MarkerKinds, LiveKinds
<1>4. SeenGoesOn /\ seen'.stale = seen.stale
    BY <1>2, SeenStays, DisturbanceKeeps DEF EvidenceIInv
<1> HIDE DEF next
<1>5. /\ ServiceTypes' /\ FrameOnShow' /\ writes' \in Seq(Writes) /\ MarkersInOrder'
    BY <1>1, <1>2, <1>3, <1>4, RecordsKeeps
<1>6. StaleIsTold'
    BY <1>2, <1>4, StaleStays
<1>7. RecordTypes'
    BY <1>2, <1>5 DEF EvidenceIInv, RecordTypes
<1> QED BY <1>5, <1>6, <1>7 DEF EvidenceIInv

\* A page asks, or the operator finishes: either it is told what was told before, or a marker
\* that the data are stale is to be written first.
LEMMA ObservesKeeps ==
    ASSUME EvidenceIInv, NEW then \in {"status", "finish"}, Observes(then)
    PROVE  EvidenceIInv'
<1>1. UNCHANGED <<accepted, transitions, markers, mapResets>>
    BY DEF Observes
<1>2. CASE Freshness = "stale" /\ lastFreshness # "stale"
    <2> DEFINE next == [then |-> then]
    <2>1. next \in NextSteps /\ next.then = then
        BY DEF NextSteps
    <2>2. /\ Records("runtime-stale", "none", NoReset, next)
          /\ UNCHANGED <<lastFreshness, outcome, seen>>
        BY <1>2 DEF Observes
    <2>3. /\ "runtime-stale" \in MarkerKinds /\ "none" \in {"none", "before"}
          /\ "runtime-stale" \notin LiveKinds
        BY DEF MarkerKinds, LiveKinds
    <2>4. SeenGoesOn
        BY <2>2, SeenStays DEF EvidenceIInv
    <2> HIDE DEF next
    <2>5. /\ ServiceTypes' /\ FrameOnShow' /\ writes' \in Seq(Writes) /\ MarkersInOrder'
        BY <1>1, <2>1, <2>2, <2>3, <2>4, RecordsKeeps
    <2>6. StaleIsTold'
        BY <1>1, <2>2, StaleStays
    <2>7. RecordTypes'
        BY <1>1, <2>2, <2>5 DEF EvidenceIInv, RecordTypes
    <2> QED BY <2>5, <2>6, <2>7 DEF EvidenceIInv
<1>3. CASE ~(Freshness = "stale" /\ lastFreshness # "stale")
    <2>1. /\ lastFreshness' = Freshness
          /\ seen' = [seen EXCEPT !.stale = @ \/ Freshness = "stale"]
          /\ IF then = "finish" THEN Ends ELSE UNCHANGED outcome
          /\ UNCHANGED <<service, writes>>
        BY <1>3 DEF Observes
    <2>2. /\ seen' \in [frames : Nat, disturbances : Nat, stale : BOOLEAN]
          /\ seen'.stale = (seen.stale \/ Freshness = "stale")
          /\ seen'.disturbances = seen.disturbances
        BY <2>1 DEF EvidenceIInv, ServiceTypes
    <2>3. ServiceTypes' /\ FrameOnShow' /\ MarkersInOrder'
        BY <1>1, <2>1, <2>2
        DEF EvidenceIInv, ServiceTypes, FrameOnShow, MarkersInOrder, InOrder, Past
    <2>4. RecordTypes'
        <3>1. lastFreshness' \in Freshnesses
            BY <2>1, FreshnessType
        <3>2. outcome' \in {NotEnded} \cup [fresh : Freshnesses, transitions : Seq(AllTransitions)]
            BY <2>1, FreshnessType DEF Ends, EvidenceIInv, RecordTypes
        <3> QED BY <1>1, <2>1, <3>1, <3>2 DEF EvidenceIInv, RecordTypes
    <2>5. StaleIsTold'
        <3>1. lastFreshness' = "stale" => lastFreshness = "stale"
            BY <1>3, <2>1
        <3>2. seen'.stale => seen.stale \/ lastFreshness = "stale"
            BY <1>3, <2>2
        <3>3. Found("runtime-stale", "none") <=> Found("runtime-stale", "none")'
            BY <1>1 DEF Found, Is
        <3> QED BY <3>1, <3>2, <3>3 DEF EvidenceIInv, StaleIsTold, StaleIsRecorded
    <2> QED BY <2>3, <2>4, <2>5 DEF EvidenceIInv
<1> QED BY <1>2, <1>3

\* A new stamp and, after silence or another map, another generation or epoch.
LEMMA FrameArrivesKeeps ==
    ASSUME EvidenceIInv, NEW m \in QualMaps \cup {"none"}, FrameArrives(m)
    PROVE  EvidenceIInv'
<1> DEFINE gen == IF service.silent THEN service.generation + 1 ELSE service.generation
           ep == IF (service.epoch = 0 /\ m # "none") \/ OtherMap(m)
                 THEN service.epoch + 1 ELSE service.epoch
           map == IF m = "none" THEN service.map ELSE m
<1>1. UNCHANGED <<lastFreshness, markers, writes, outcome, mapResets>>
    BY DEF FrameArrives
<1>2. service \in Services /\ Processes \in Nat /\ Processes >= 1
    BY ProcessesType DEF EvidenceIInv, ServiceTypes
<1>3. gen \in Nat /\ ep \in Nat /\ map \in QualMaps \cup {"none"}
    BY <1>2 DEF Services
<1>4. service' = [service EXCEPT !.now = Tick, !.telemetry = TRUE, !.silent = FALSE,
                                 !.map = map, !.generation = gen, !.epoch = ep]
    BY <1>2 DEF FrameArrives, Services
<1> HIDE DEF gen, ep, map
<1>5. /\ service'.process = service.process /\ service'.now = service.now + Processes
      /\ service'.epoch = ep /\ service'.generation = gen /\ service'.telemetry = TRUE
      /\ service' \in Services /\ service.process \in Nat /\ service.now \in Nat
    <2>1. service' = [process |-> service.process, now |-> Tick, generation |-> gen, epoch |-> ep,
                      map |-> map, telemetry |-> TRUE, silent |-> FALSE]
        BY <1>2, <1>4 DEF Services
    <2>2. service.process \in Nat /\ service.now \in Nat
        BY <1>2 DEF Services
    <2> QED BY <1>2, <1>3, <2>1, <2>2 DEF Services, Tick
<1>6. SeenGoesOn /\ seen'.stale = seen.stale
    <2>1. CASE seen.frames < MaxQualFrames
        <3>1. seen' = [seen EXCEPT !.frames = @ + 1]
            BY <2>1 DEF FrameArrives
        <3> QED BY <3>1 DEF EvidenceIInv, ServiceTypes, SeenGoesOn
    <2>2. CASE ~(seen.frames < MaxQualFrames)
        <3>1. Disturbance
            BY <2>2 DEF FrameArrives
        <3> QED BY <3>1, DisturbanceKeeps DEF EvidenceIInv
    <2> QED BY <2>1, <2>2
<1>7. ServiceTypes'
    BY <1>1, <1>5, <1>6 DEF EvidenceIInv, ServiceTypes, SeenGoesOn
<1>8. accepted' = [at |-> Tick, epoch |-> ep, mapResets |-> mapResets]
    BY <1>5 DEF FrameArrives
<1>9. Tick \in Nat /\ mapResets \in Nat /\ mapResets' = mapResets
    BY <1>1, <1>2 DEF Tick, EvidenceIInv, ServiceTypes, Services
<1>10. accepted' \in Observations /\ accepted' # NotAccepted
    <2>1. accepted' \in Observations /\ accepted'.at \in Nat
        BY <1>3, <1>8, <1>9 DEF Observations
    <2>2. NotAccepted.at = -1
        BY DEF NotAccepted
    <2> QED BY <2>1, <2>2
<1>11. FrameOnShow'
    <2>1. StampOf(service'.now, service'.process)
        BY <1>5, NextStamp DEF EvidenceIInv, FrameOnShow
    <2> QED BY <1>3, <1>5, <1>8, <1>9, <1>10, <2>1 DEF FrameOnShow
<1>12. RecordTypes'
    <2>1. transitions' \in Seq(AllTransitions) /\ Len(transitions') <= MaxTransitions
        <3>1. CASE service.epoch > 0 /\ OtherMap(m)
            <4>1. Changed("observed-map-name-change", Tick, service.epoch)
                BY <3>1 DEF FrameArrives
            <4> QED BY <1>2, <1>7, <1>9, <4>1, ChangedKeeps DEF EvidenceIInv, Services
        <3>2. CASE ~(service.epoch > 0 /\ OtherMap(m))
            BY <3>2 DEF FrameArrives, EvidenceIInv, RecordTypes
        <3> QED BY <3>1, <3>2
    <2> QED BY <1>1, <1>10, <2>1 DEF EvidenceIInv, RecordTypes
<1>13. MarkersInOrder'
    <2>1. GoesOn(service, service', mapResets, mapResets')
        BY <1>2, <1>5, <1>9 DEF GoesOn
    <2>2. InOrder(markers, writes, service', mapResets')
        BY <1>5, <1>9, <2>1, ListsStay
        DEF EvidenceIInv, RecordTypes, ServiceTypes, MarkersInOrder
    <2> QED BY <1>1, <2>2 DEF MarkersInOrder
<1>14. StaleIsTold'
    BY <1>1, <1>6, StaleStays
<1> QED BY <1>7, <1>11, <1>12, <1>13, <1>14 DEF EvidenceIInv

LEMMA FallsSilentKeeps ==
    ASSUME EvidenceIInv, FallsSilent
    PROVE  EvidenceIInv'
<1>1. /\ Disturbance /\ service' = [service EXCEPT !.silent = TRUE]
      /\ UNCHANGED <<accepted, transitions, lastFreshness, markers, writes, outcome, mapResets>>
    BY DEF FallsSilent
<1>2. SeenGoesOn /\ seen'.stale = seen.stale
    BY <1>1, DisturbanceKeeps DEF EvidenceIInv
<1>3. /\ service' \in Services /\ service'.now = service.now /\ service'.process = service.process
      /\ service'.epoch = service.epoch /\ service'.telemetry = service.telemetry
    BY <1>1 DEF EvidenceIInv, ServiceTypes, Services
<1>4. ServiceTypes' /\ FrameOnShow'
    <2>1. mapResets' \in Nat
        BY <1>1 DEF EvidenceIInv, ServiceTypes
    <2> QED BY <1>1, <1>2, <1>3, <2>1, ServiceTypesStay DEF EvidenceIInv, FrameOnShow
<1>5. MarkersInOrder'
    BY <1>1, <1>3 DEF EvidenceIInv, MarkersInOrder, InOrder, Past
<1>6. RecordTypes'
    BY <1>1 DEF EvidenceIInv, RecordTypes
<1>7. StaleIsTold'
    BY <1>1, <1>2, StaleStays
<1> QED BY <1>4, <1>5, <1>6, <1>7 DEF EvidenceIInv

LEMMA MarkerIsNotWrittenKeeps ==
    ASSUME EvidenceIInv, MarkerIsNotWritten
    PROVE  EvidenceIInv'
<1>1. /\ writes # <<>> /\ Disturbance /\ writes' = Tail(writes)
      /\ UNCHANGED <<service, accepted, transitions, lastFreshness, markers, outcome, mapResets>>
    BY DEF MarkerIsNotWritten
<1>2. SeenGoesOn /\ seen'.stale = seen.stale
    BY <1>1, DisturbanceKeeps DEF EvidenceIInv
<1>3. ServiceTypes' /\ FrameOnShow'
    <2>1. service' \in Services /\ mapResets' \in Nat /\ service'.process = service.process
        BY <1>1 DEF EvidenceIInv, ServiceTypes
    <2> QED BY <1>1, <1>2, <2>1, ServiceTypesStay DEF EvidenceIInv, FrameOnShow
<1>4. writes' \in Seq(Writes) /\ MarkersInOrder'
    <2>1. Tail(writes) \in Seq(Writes) /\ InOrder(markers, Tail(writes), service, mapResets)
        BY <1>1, HeadIsDropped DEF EvidenceIInv, RecordTypes, ServiceTypes, MarkersInOrder
    <2> QED BY <1>1, <2>1 DEF MarkersInOrder
<1>5. RecordTypes'
    BY <1>1, <1>4 DEF EvidenceIInv, RecordTypes
<1>6. StaleIsTold'
    BY <1>1, <1>2, StaleStays
<1> QED BY <1>3, <1>4, <1>5, <1>6 DEF EvidenceIInv

\* A new process: another clock, nothing on show, and nothing was waiting.
LEMMA ServiceRestartsKeeps ==
    ASSUME EvidenceIInv, NEW now \in {service.process, service.now + 1},
           NEW epoch \in {0, service.epoch}, ServiceRestarts(now, epoch)
    PROVE  EvidenceIInv'
<1>1. /\ writes = <<>> /\ Disturbance
      /\ service' = [process |-> service.process + 1, now |-> now, generation |-> 0,
                     epoch |-> epoch, map |-> IF epoch = 0 THEN "none" ELSE service.map,
                     telemetry |-> FALSE, silent |-> FALSE]
      /\ accepted' = NotAccepted /\ transitions' = <<>> /\ lastFreshness' = "none"
      /\ UNCHANGED <<markers, writes, outcome, mapResets>>
    BY DEF ServiceRestarts
<1>2. SeenGoesOn /\ seen'.stale = seen.stale /\ seen'.disturbances = seen.disturbances + 1
    BY <1>1, DisturbanceKeeps DEF EvidenceIInv
<1>3. /\ service \in Services /\ service.process \in Nat /\ service.now \in Nat
      /\ service.epoch \in Nat /\ service.map \in QualMaps \cup {"none"}
    BY DEF EvidenceIInv, ServiceTypes, Services
<1>4. /\ service' \in Services /\ service'.process = service.process + 1
      /\ service'.now = now /\ ~service'.telemetry
    BY <1>1, <1>3 DEF Services
<1>5. ServiceTypes'
    BY <1>1, <1>2, <1>3, <1>4 DEF EvidenceIInv, ServiceTypes, SeenGoesOn
<1>6. FrameOnShow'
    <2>1. StampOf(service'.now, service'.process)
        BY <1>3, <1>4, FirstStamp DEF EvidenceIInv, FrameOnShow
    <2> QED BY <1>4, <2>1 DEF FrameOnShow
<1>7. MarkersInOrder'
    <2>1. GoesOn(service, service', mapResets, mapResets')
        BY <1>1, <1>3, <1>4 DEF GoesOn, EvidenceIInv, ServiceTypes
    <2>2. mapResets \in Nat /\ mapResets' \in Nat
        BY <1>1 DEF EvidenceIInv, ServiceTypes
    <2>3. InOrder(markers, writes, service', mapResets')
        BY <1>1, <1>3, <1>4, <2>1, <2>2, ListsStay DEF EvidenceIInv, RecordTypes, MarkersInOrder
    <2> QED BY <1>1, <2>3 DEF MarkersInOrder
<1>8. RecordTypes'
    <2>1. <<>> \in Seq(AllTransitions) /\ Len(<<>>) <= MaxTransitions
        BY QualAssumption
    <2> QED BY <1>1, <2>1 DEF EvidenceIInv, RecordTypes
<1>9. StaleIsTold'
    BY <1>1, <1>2, StaleStays
<1> QED BY <1>5, <1>6, <1>7, <1>8, <1>9 DEF EvidenceIInv

\* The lists when the head is written and nothing is reset.
LEMMA WrittenLists ==
    ASSUME EvidenceIInv, writes # <<>>, markers' = Append(markers, Head(writes).marker)
    PROVE  /\ markers' \in Seq(AllMarkers) /\ Tail(writes) \in Seq(Writes)
           /\ InOrder(markers', Tail(writes), service, mapResets)
           /\ Head(writes).next \in NextSteps /\ Head(writes).marker \in AllMarkers
           /\ Found("runtime-stale", "none") => Found("runtime-stale", "none")'
           /\ Head(writes).next.then \in {"status", "finish"} => Found("runtime-stale", "none")'
<1>1. /\ markers \in Seq(AllMarkers) /\ writes \in Seq(Writes) /\ service \in Services
      /\ mapResets \in Nat /\ InOrder(markers, writes, service, mapResets)
    BY DEF EvidenceIInv, RecordTypes, ServiceTypes, MarkersInOrder
<1>2. Head(writes) \in Writes /\ Head(writes) = writes[1] /\ 1 \in 1..Len(writes)
    BY <1>1
<1>3. Head(writes).next \in NextSteps /\ Head(writes).marker \in AllMarkers
    BY <1>2 DEF Writes
<1>4. /\ markers' \in Seq(AllMarkers) /\ Tail(writes) \in Seq(Writes)
      /\ InOrder(markers', Tail(writes), service, mapResets)
    BY <1>1, HeadIsWritten
<1>5. /\ Len(markers') = Len(markers) + 1 /\ Len(markers) \in Nat
      /\ \A i \in 1..Len(markers) : markers'[i] = markers[i]
      /\ markers'[Len(markers) + 1] = Head(writes).marker
    BY <1>1, <1>3
<1>6. ASSUME Found("runtime-stale", "none") PROVE Found("runtime-stale", "none")'
    <2>1. PICK i \in 1..Len(markers) :
              markers[i].kind = "runtime-stale" /\ markers[i].phase = "none"
        BY <1>6 DEF Found, Is
    <2>2. i \in 1..Len(markers') /\ markers'[i] = markers[i]
        BY <1>5
    <2> QED BY <2>1, <2>2 DEF Found, Is
<1>7. ASSUME Head(writes).next.then \in {"status", "finish"} PROVE Found("runtime-stale", "none")'
    <2>1. Head(writes).marker.kind = "runtime-stale" /\ Head(writes).marker.phase = "none"
        BY <1>1, <1>2, <1>7 DEF InOrder, MarkerOK
    <2>2. Len(markers) + 1 \in 1..Len(markers')
        BY <1>5
    <2> QED BY <1>5, <2>1, <2>2 DEF Found, Is
<1> QED BY <1>3, <1>4, <1>6, <1>7

\* After the first marker of a request for the next execution comes the reset, and the marker
\* that says what it did.
LEMMA ResetKeeps ==
    ASSUME EvidenceIInv, NEW beforeEpoch \in Nat, writes # <<>>,
           markers' = Append(markers, Head(writes).marker),
           ResetsMapExecution(beforeEpoch), UNCHANGED seen
    PROVE  /\ ServiceTypes' /\ FrameOnShow' /\ writes' \in Seq(Writes) /\ MarkersInOrder'
           /\ transitions' \in Seq(AllTransitions) /\ Len(transitions') <= MaxTransitions
<1> DEFINE ok == service.epoch > 0
           epoch == IF ok THEN service.epoch + 1 ELSE 0
           telemetry == service.telemetry /\ ~ok
           evidence == [accepted |-> ok, previousEpoch |-> beforeEpoch, epoch |-> epoch,
                        cleared |-> ~telemetry]
           next == [then |-> "answer"]
           m == [kind |-> "next-execution", phase |-> "after", at |-> service'.now,
                 process |-> service.process, epoch |-> service'.epoch,
                 generation |-> service.generation, freshness |-> Freshness',
                 observation |-> accepted, reset |-> evidence, mapResets |-> mapResets']
<1>1. /\ service' = [service EXCEPT !.now = Tick, !.epoch = epoch, !.telemetry = telemetry]
      /\ mapResets' = IF ok THEN mapResets + 1 ELSE mapResets
      /\ IF ok THEN Changed("explicit-reset", Tick, service.epoch) ELSE UNCHANGED transitions
      /\ UNCHANGED accepted
      /\ writes' = Append(Tail(writes), [marker |-> m, next |-> next])
    BY DEF ResetsMapExecution, Marker
<1>2. /\ service \in Services /\ service.process \in Nat /\ service.now \in Nat
      /\ service.epoch \in Nat /\ service.generation \in Nat /\ mapResets \in Nat
      /\ service.telemetry \in BOOLEAN /\ ok \in BOOLEAN
    BY DEF EvidenceIInv, ServiceTypes, Services
<1>3. Processes \in Nat /\ Processes >= 1
    BY ProcessesType
<1>4. epoch \in Nat /\ telemetry \in BOOLEAN /\ (ok => ~telemetry)
    BY <1>2
<1>5. telemetry => service.telemetry /\ epoch = service.epoch /\ mapResets' = mapResets
    BY <1>1, <1>2
<1>6. /\ mapResets' \in Nat /\ mapResets' >= mapResets /\ (ok => mapResets' > 0)
    BY <1>1, <1>2
<1>7. evidence \in Resets /\ evidence.accepted = ok
    <2>1. ok \in {TRUE, FALSE}
        BY <1>2
    <2> HIDE DEF ok, epoch, telemetry
    <2> QED BY <1>4, <2>1 DEF Resets
<1> HIDE DEF ok, epoch, telemetry, evidence
<1>8. /\ service' \in Services /\ service'.now = service.now + Processes
      /\ service'.process = service.process /\ service'.epoch = epoch
      /\ service'.telemetry = telemetry
    <2>1. service' = [process |-> service.process, now |-> Tick, generation |-> service.generation,
                      epoch |-> epoch, map |-> service.map, telemetry |-> telemetry,
                      silent |-> service.silent]
        BY <1>1, <1>2 DEF Services
    <2>2. service.map \in QualMaps \cup {"none"} /\ service.silent \in BOOLEAN
        BY <1>2 DEF Services
    <2> QED BY <1>2, <1>3, <1>4, <2>1, <2>2 DEF Services, Tick
<1>9. SeenGoesOn
    BY SeenStays DEF EvidenceIInv
<1>10. ServiceTypes'
    BY <1>6, <1>8, <1>9, ServiceTypesStay DEF EvidenceIInv
<1>11. StampOf(service'.now, service'.process)
    BY <1>2, <1>8, NextStamp DEF EvidenceIInv, FrameOnShow
<1>12. FrameOnShow'
    BY <1>1, <1>5, <1>8, <1>11 DEF EvidenceIInv, FrameOnShow
<1>13. /\ GoesOn(service, service', mapResets, mapResets')
       /\ service'.now > service.now /\ service'.now \in Nat
    BY <1>2, <1>3, <1>6, <1>8 DEF GoesOn
<1>14. m \in AllMarkers
    <2>1. accepted \in {NotAccepted} \cup Observations
        BY DEF EvidenceIInv, RecordTypes
    <2>2. Freshness' \in Freshnesses
        BY FreshnessType DEF Freshness, Freshnesses
    <2>3. "next-execution" \in MarkerKinds /\ "after" \in {"none", "before", "after"}
        BY DEF MarkerKinds
    <2> HIDE DEF Freshness
    <2> QED BY <1>2, <1>4, <1>6, <1>7, <1>8, <1>13, <2>1, <2>2, <2>3 DEF AllMarkers
<1>15. MarkerOK(m)
    <2>1. service.process \in 1..Processes
        BY ProcessesType, QualBounds DEF EvidenceIInv, ServiceTypes, Services
    <2>2. m.kind \notin LiveKinds
        BY DEF LiveKinds
    <2> QED BY <1>6, <1>7, <1>8, <1>11, <2>1, <2>2 DEF MarkerOK
<1>16. Joins(m, service', mapResets') /\ next \in NextSteps /\ next.then \notin {"status", "finish"}
    BY <1>8, <1>15 DEF Joins, NextSteps
<1> HIDE DEF m, next
<1>17. /\ markers' \in Seq(AllMarkers) /\ Tail(writes) \in Seq(Writes)
       /\ InOrder(markers', Tail(writes), service, mapResets)
    BY WrittenLists
<1>18. /\ Append(Tail(writes), [marker |-> m, next |-> next]) \in Seq(Writes)
       /\ InOrder(markers', Append(Tail(writes), [marker |-> m, next |-> next]), service',
                  mapResets')
    BY <1>2, <1>6, <1>8, <1>13, <1>14, <1>16, <1>17, WriteJoins
<1>19. writes' \in Seq(Writes) /\ MarkersInOrder'
    BY <1>1, <1>18 DEF MarkersInOrder
<1>20. transitions' \in Seq(AllTransitions) /\ Len(transitions') <= MaxTransitions
    <2>1. CASE ok
        <3>1. Changed("explicit-reset", Tick, service.epoch) /\ Tick \in Nat
            BY <1>1, <1>2, <1>3, <2>1 DEF Tick
        <3> QED BY <1>2, <1>10, <3>1, ChangedKeeps DEF EvidenceIInv
    <2>2. CASE ~ok
        BY <1>1, <2>2 DEF EvidenceIInv, RecordTypes
    <2> QED BY <2>1, <2>2
<1> QED BY <1>10, <1>12, <1>19, <1>20

LEMMA MarkerIsWrittenKeeps ==
    ASSUME EvidenceIInv, MarkerIsWritten
    PROVE  EvidenceIInv'
<1> DEFINE next == Head(writes).next
<1>1. writes # <<>> /\ markers' = Append(markers, Head(writes).marker)
    BY DEF MarkerIsWritten
<1>2. /\ markers' \in Seq(AllMarkers) /\ Tail(writes) \in Seq(Writes)
      /\ InOrder(markers', Tail(writes), service, mapResets) /\ next \in NextSteps
      /\ Found("runtime-stale", "none") => Found("runtime-stale", "none")'
      /\ next.then \in {"status", "finish"} => Found("runtime-stale", "none")'
    BY <1>1, WrittenLists
<1>3. CASE next.then = "reset"
    <2>1. next.beforeEpoch \in Nat
        <3>1. next \in [then : {"reset"}, beforeEpoch : Nat]
            BY <1>2, <1>3 DEF NextSteps
        <3> QED BY <3>1
    <2>2. /\ ResetsMapExecution(next.beforeEpoch)
          /\ UNCHANGED <<lastFreshness, seen, outcome>> /\ UNCHANGED accepted
        BY <1>3 DEF MarkerIsWritten, ResetsMapExecution
    <2>3. /\ ServiceTypes' /\ FrameOnShow' /\ writes' \in Seq(Writes) /\ MarkersInOrder'
          /\ transitions' \in Seq(AllTransitions) /\ Len(transitions') <= MaxTransitions
        <3> HIDE DEF next
        <3> QED BY <1>1, <2>1, <2>2, ResetKeeps
    <2>4. RecordTypes'
        BY <1>2, <2>2, <2>3 DEF EvidenceIInv, RecordTypes
    <2>5. StaleIsTold'
        BY <1>2, <2>2 DEF EvidenceIInv, StaleIsTold, StaleIsRecorded
    <2> QED BY <2>3, <2>4, <2>5 DEF EvidenceIInv
<1>4. CASE next.then # "reset"
    <2>1. /\ writes' = Tail(writes) /\ UNCHANGED <<service, accepted, transitions, mapResets>>
          /\ IF next.then \in {"status", "finish"}
             THEN lastFreshness' = "stale" /\ seen' = [seen EXCEPT !.stale = TRUE]
             ELSE UNCHANGED <<lastFreshness, seen>>
          /\ outcome' = outcome \/ Ends
        BY <1>4 DEF MarkerIsWritten
    <2>2. /\ seen' \in [frames : Nat, disturbances : Nat, stale : BOOLEAN]
          /\ seen'.disturbances = seen.disturbances
          /\ next.then \notin {"status", "finish"} => seen'.stale = seen.stale
        BY <2>1 DEF EvidenceIInv, ServiceTypes
    <2>3. ServiceTypes' /\ FrameOnShow' /\ MarkersInOrder'
        BY <1>2, <2>1, <2>2 DEF EvidenceIInv, ServiceTypes, FrameOnShow, MarkersInOrder
    <2>4. RecordTypes'
        <3>1. outcome' \in {NotEnded} \cup [fresh : Freshnesses, transitions : Seq(AllTransitions)]
            BY <2>1, FreshnessType DEF Ends, EvidenceIInv, RecordTypes
        <3>2. lastFreshness' \in Freshnesses \cup {"none"}
            BY <2>1 DEF EvidenceIInv, RecordTypes, Freshnesses
        <3> QED BY <1>2, <2>1, <3>1, <3>2 DEF EvidenceIInv, RecordTypes
    <2>5. StaleIsTold'
        BY <1>2, <2>1, <2>2 DEF EvidenceIInv, StaleIsTold, StaleIsRecorded
    <2> QED BY <2>3, <2>4, <2>5 DEF EvidenceIInv
<1> QED BY <1>3, <1>4

-----------------------------------------------------------------------------
(* The theorem *)

LEMMA EvidenceBegins ==
    ASSUME QualInit
    PROVE  EvidenceIInv
<1>1. Len(markers) = 0 /\ Len(writes) = 0 /\ markers = <<>> /\ writes = <<>>
    BY DEF QualInit
<1>2. service \in Services /\ service.process = 1 /\ service.now = 0 /\ service.telemetry = FALSE
    BY DEF QualInit, Services
<1>3. ServiceTypes
    BY <1>2, QualBounds DEF QualInit, ServiceTypes
<1>4. RecordTypes
    <2>1. <<>> \in Seq(AllTransitions) /\ Len(<<>>) <= MaxTransitions
        BY QualAssumption
    <2> QED BY <2>1 DEF QualInit, RecordTypes
<1>5. FrameOnShow
    <2>1. 0 \in Nat /\ 0 = 0 * Processes + 1 - 1
        BY ProcessesType
    <2> QED BY <1>2, <2>1 DEF FrameOnShow, StampOf
<1>6. MarkersInOrder
    BY <1>1 DEF MarkersInOrder, InOrder
<1>7. StaleIsTold
    BY DEF QualInit, StaleIsTold, StaleIsRecorded
<1> QED BY <1>3, <1>4, <1>5, <1>6, <1>7 DEF EvidenceIInv

LEMMA EvidenceStutters ==
    ASSUME EvidenceIInv, UNCHANGED qualVars
    PROVE  EvidenceIInv'
<1>1. ServiceTypes' /\ RecordTypes' /\ FrameOnShow' /\ MarkersInOrder'
    BY DEF EvidenceIInv, qualVars, ServiceTypes, RecordTypes, FrameOnShow, MarkersInOrder, InOrder,
           Past
<1>2. StaleIsTold'
    BY StaleStays DEF qualVars
<1> QED BY <1>1, <1>2 DEF EvidenceIInv

\* What QualificationInv says of the evidence, for every number of frames, markers, failing writes
\* and restarts (evidence.ts, controller.ts, scripts/qualification/evidence/checks.mjs).
THEOREM EvidenceIsKept == QualSpec => []QualificationInv
<1>1. QualInit => EvidenceIInv
    BY EvidenceBegins
<1>2. EvidenceIInv /\ [QualNext]_qualVars => EvidenceIInv'
    <2> SUFFICES ASSUME EvidenceIInv, [QualNext]_qualVars PROVE EvidenceIInv'
        OBVIOUS
    <2>1. ASSUME NEW m \in QualMaps \cup {"none"}, FrameArrives(m) PROVE EvidenceIInv'
        BY <2>1, FrameArrivesKeeps
    <2>2. CASE FallsSilent
        BY <2>2, FallsSilentKeeps
    <2>3. ASSUME NEW k \in Kinds, OperatorMarks(k) PROVE EvidenceIInv'
        BY <2>3, OperatorMarksKeeps
    <2>4. CASE AsksForNextExecution
        BY <2>4, AsksForNextKeeps
    <2>5. CASE PageAsksForStatus
        BY <2>5, ObservesKeeps DEF PageAsksForStatus
    <2>6. CASE MarkerIsWritten
        BY <2>6, MarkerIsWrittenKeeps
    <2>7. CASE MarkerIsNotWritten
        BY <2>7, MarkerIsNotWrittenKeeps
    <2>8. ASSUME NEW now \in {service.process, service.now + 1}, NEW epoch \in {0, service.epoch},
                 ServiceRestarts(now, epoch)
          PROVE  EvidenceIInv'
        BY <2>8, ServiceRestartsKeeps
    <2>9. CASE OperatorFinishes
        BY <2>9, ObservesKeeps DEF OperatorFinishes
    <2>10. CASE UNCHANGED qualVars
        BY <2>10, EvidenceStutters
    <2> QED BY <2>1, <2>2, <2>3, <2>4, <2>5, <2>6, <2>7, <2>8, <2>9, <2>10 DEF QualNext
<1>3. EvidenceIInv => QualificationInv
    BY EvidenceIsSound
<1> QED BY <1>1, <1>2, <1>3, PTL DEF QualSpec
=============================================================================
