------------------------- MODULE SnapshotChannelProofs -------------------------
(***************************************************************************)
(* Proofs about the snapshot channel, for every number of viewers,         *)
(* connections, publications, faults and restarts: what the server keeps   *)
(* of its connections, and that no viewer ever returns to an older         *)
(* snapshot, which is the refinement of LatestValue.                       *)
(***************************************************************************)
EXTENDS SnapshotChannel, SequenceTheorems, TLAPS

-----------------------------------------------------------------------------
(* The order of publication *)

Stamps == [producer : Nat, seq : Nat]

Precedes(a, b) == a.producer < b.producer \/ (a.producer = b.producer /\ a.seq < b.seq)
AtMost(a, b) == a = b \/ Precedes(a, b)

LEMMA PrecedesTransitive ==
    ASSUME NEW a \in Stamps, NEW b \in Stamps, NEW d \in Stamps
    PROVE  /\ AtMost(a, b) /\ Precedes(b, d) => Precedes(a, d)
           /\ Precedes(a, b) /\ AtMost(b, d) => Precedes(a, d)
           /\ AtMost(a, b) /\ AtMost(b, d) => AtMost(a, d)
BY DEF Stamps, Precedes, AtMost

LEMMA SnapshotsAreStamps ==
    /\ Snapshot \subseteq Stamps
    /\ NoSnapshot \notin Snapshot /\ NoSnapshot \notin Stamps
    /\ \A s \in Snapshot : s \in Stamps /\ s # NoSnapshot
    /\ None \notin Slots
<1>1. 1..MaxProducers \subseteq Nat /\ 1..MaxSeq \subseteq Nat
    BY ChannelBounds
<1>2. Snapshot \subseteq Stamps
    BY <1>1 DEF Snapshot, Stamps
<1> QED BY <1>2, ChannelAssumption DEF Stamps

LEMMA LatestIsStamp == TypeOK => Latest \in Stamps /\ producer \in Nat /\ seq \in Nat
BY ChannelBounds DEF TypeOK, Latest, Stamps

-----------------------------------------------------------------------------
(* The latest-wins consumer: what its operations keep and what they begin *)

LEMMA ConsumerFields ==
    ASSUME NEW S, NEW c \in Consumer(S)
    PROVE  /\ c.life \in Lifecycle
           /\ c.inFlight \in S \cup {NoSnapshot} /\ c.pending \in S \cup {NoSnapshot}
BY DEF Consumer

LEMMA NewConsumerType ==
    ASSUME NEW S
    PROVE  /\ NewConsumer \in Consumer(S) /\ Idle(NewConsumer)
           /\ NewConsumer.pending = NoSnapshot /\ NewConsumer.life = "accepting"
           /\ NewConsumer.inFlight = NoSnapshot
BY DEF NewConsumer, Consumer, Lifecycle, Idle

LEMMA OfferEffect ==
    ASSUME NEW S, NEW c \in Consumer(S), NEW s \in S
    PROVE  /\ Offer(c, s) \in Consumer(S) /\ Offer(c, s).life = c.life
           /\ c.life # "accepting" => Offer(c, s) = c
           /\ c.life = "accepting" /\ Idle(c) =>
                Offer(c, s).inFlight = s /\ Offer(c, s).pending = c.pending
           /\ c.life = "accepting" /\ ~Idle(c) =>
                Offer(c, s).inFlight = c.inFlight /\ Offer(c, s).pending = s
BY DEF Offer, Begin, Consumer, Idle

LEMMA CloseEffect ==
    ASSUME NEW S, NEW c \in Consumer(S)
    PROVE  /\ Close(c) \in Consumer(S) /\ Close(c).inFlight = c.inFlight
           /\ Close(c).pending \in {c.pending, NoSnapshot} /\ Close(c).life # "accepting"
           /\ Closed(c) \in Consumer(S) /\ Closed(c).inFlight = c.inFlight
           /\ Closed(c).pending = NoSnapshot /\ Closed(c).life = "closed"
<1>1. /\ Closed(c) \in Consumer(S) /\ Closed(c).inFlight = c.inFlight
      /\ Closed(c).pending = NoSnapshot /\ Closed(c).life = "closed"
    BY DEF Closed, Consumer, Lifecycle
<1>2. CASE c.life # "accepting"
    BY <1>1, <1>2 DEF Close
<1>3. CASE c.life = "accepting" /\ Idle(c)
    BY <1>1, <1>3 DEF Close
<1>4. CASE c.life = "accepting" /\ ~Idle(c)
    <2>1. Close(c) = [c EXCEPT !.life = "closing", !.pending = NoSnapshot]
        BY <1>4 DEF Close
    <2> QED BY <1>1, <2>1 DEF Consumer, Lifecycle
<1> QED BY <1>2, <1>3, <1>4

LEMMA CompleteEffect ==
    ASSUME NEW S, NEW c \in Consumer(S)
    PROVE  /\ Complete(c) \in Consumer(S) /\ Complete(c).pending = NoSnapshot
           /\ c.life = "accepting" =>
                Complete(c).life = "accepting" /\ Complete(c).inFlight = c.pending
           /\ c.life # "accepting" =>
                Complete(c).life = "closed" /\ Complete(c).inFlight = NoSnapshot
<1> DEFINE done == [c EXCEPT !.inFlight = NoSnapshot]
<1>1. /\ done \in Consumer(S) /\ done.inFlight = NoSnapshot /\ done.pending = c.pending
      /\ done.life = c.life
    BY DEF Consumer
<1> HIDE DEF done
<1>2. CASE c.life # "accepting"
    <2>1. Complete(c) = Closed(done)
        BY <1>2 DEF Complete, done
    <2> QED BY <1>1, <1>2, <2>1, CloseEffect
<1>3. CASE c.life = "accepting" /\ c.pending # NoSnapshot
    <2>1. Complete(c) = Begin([done EXCEPT !.pending = NoSnapshot], c.pending)
        BY <1>3 DEF Complete, done
    <2> QED BY <1>1, <1>3, <2>1 DEF Begin, Consumer
<1>4. CASE c.life = "accepting" /\ c.pending = NoSnapshot
    <2>1. Complete(c) = done
        BY <1>4 DEF Complete, done
    <2> QED BY <1>1, <1>4, <2>1
<1> QED BY <1>2, <1>3, <1>4

\* The turn in which deliveries begin: what a socket still carries is appended to.
LEMMA ConsumersEffect ==
    ASSUME TypeOK, NEW d \in [Slots -> Consumer(Snapshot)], Consumers(d)
    PROVE  /\ consumer' \in [Slots -> Consumer(Snapshot)]
           /\ wire' \in [Slots -> Seq(Snapshot)]
           /\ writing' \in [Slots -> {None, "callback", "failed"}]
           /\ consumer' = d
           /\ \A n \in Slots :
                \/ wire'[n] = wire[n]
                \/ /\ d[n].inFlight \in Snapshot /\ d[n].inFlight # consumer[n].inFlight
                   /\ wire'[n] = Append(wire[n], d[n].inFlight)
<1>1. /\ consumer' = d
      /\ wire' = [n \in Slots |-> IF Began(consumer[n], d[n]) # NoSnapshot /\ open[n]
                                  THEN Append(wire[n], Began(consumer[n], d[n])) ELSE wire[n]]
      /\ writing' = [n \in Slots |->
                     IF Idle(d[n]) THEN None
                     ELSE IF Began(consumer[n], d[n]) = NoSnapshot THEN writing[n]
                     ELSE IF open[n] THEN "callback" ELSE "failed"]
    BY DEF Consumers
<1>2. /\ wire \in [Slots -> Seq(Snapshot)]
      /\ writing \in [Slots -> {None, "callback", "failed"}]
    BY DEF TypeOK
<1>3. ASSUME NEW n \in Slots
      PROVE  /\ wire'[n] \in Seq(Snapshot)
             /\ \/ wire'[n] = wire[n]
                \/ /\ d[n].inFlight \in Snapshot /\ d[n].inFlight # consumer[n].inFlight
                   /\ wire'[n] = Append(wire[n], d[n].inFlight)
    <2>1. d[n].inFlight \in Snapshot \cup {NoSnapshot} /\ wire[n] \in Seq(Snapshot)
        BY <1>2, ConsumerFields
    <2>2. wire'[n] = IF Began(consumer[n], d[n]) # NoSnapshot /\ open[n]
                     THEN Append(wire[n], Began(consumer[n], d[n])) ELSE wire[n]
        BY <1>1
    <2>3. CASE Began(consumer[n], d[n]) # NoSnapshot /\ open[n]
        <3>1. Began(consumer[n], d[n]) = d[n].inFlight /\ d[n].inFlight # consumer[n].inFlight
            BY <2>3 DEF Began
        <3>2. d[n].inFlight \in Snapshot /\ wire'[n] = Append(wire[n], d[n].inFlight)
            BY <2>1, <2>2, <2>3, <3>1
        <3> QED BY <2>1, <3>1, <3>2
    <2> QED BY <2>1, <2>2, <2>3
<1>4. ASSUME NEW n \in Slots PROVE writing'[n] \in {None, "callback", "failed"}
    <2>1. writing[n] \in {None, "callback", "failed"}
        BY <1>2
    <2>2. writing'[n] = IF Idle(d[n]) THEN None
                        ELSE IF Began(consumer[n], d[n]) = NoSnapshot THEN writing[n]
                        ELSE IF open[n] THEN "callback" ELSE "failed"
        BY <1>1
    <2> QED BY <2>1, <2>2
<1>5. wire' \in [Slots -> Seq(Snapshot)]
    BY <1>1, <1>3
<1>6. writing' \in [Slots -> {None, "callback", "failed"}]
    BY <1>1, <1>4
<1> QED BY <1>1, <1>3, <1>5, <1>6

-----------------------------------------------------------------------------
(* The inductive invariant *)

\* What is on its way to a viewer comes in the order of publication, before what is pending.
SlotInOrder(n) ==
    /\ \A i \in 1..Len(wire[n]) : AtMost(wire[n][i], Latest)
    /\ \A i, j \in 1..Len(wire[n]) : i < j => Precedes(wire[n][i], wire[n][j])
    /\ consumer[n].pending # NoSnapshot =>
         /\ ~Idle(consumer[n])
         /\ AtMost(consumer[n].pending, Latest)
         /\ \A i \in 1..Len(wire[n]) : Precedes(wire[n][i], consumer[n].pending)
    /\ link[n] = "dialed" => wire[n] = <<>> /\ consumer[n].pending = NoSnapshot

\* A viewer is not past anything that its socket still brings.
BehindSlot(c, n) ==
    /\ link[n] = "dialed" => last[c] = NoSnapshot
    /\ shown[c] # NoSnapshot =>
         /\ \A i \in 1..Len(wire[n]) :
               /\ AtMost(shown[c], wire[n][i])
               /\ last[c] # NoSnapshot => Precedes(shown[c], wire[n][i])
         /\ consumer[n].pending # NoSnapshot => Precedes(shown[c], consumer[n].pending)

ViewerIsBehind(c) ==
    /\ last[c] \in {NoSnapshot, shown[c]}
    /\ shown[c] # NoSnapshot => AtMost(shown[c], Latest)
    /\ \A n \in Slots : socket[c] = n => BehindSlot(c, n)

InOrder == (\A n \in Slots : SlotInOrder(n)) /\ (\A c \in Clients : ViewerIsBehind(c))

\* The publisher's subscribers are connections that are attached and accept.
SubscribersAreAttached ==
    \A n \in subscribed : link[n] = "attached" /\ consumer[n].life = "accepting"

ChInv ==
    TypeOK /\ AttachedIsSupervised /\ BacklogIsLatest /\ SubscribersAreAttached /\ InOrder

\* A step that neither hears nor forgets: each socket may carry one more snapshot, the newest
\* or the one that was pending.
GrowsBy(n, s) ==
    /\ wire'[n] = Append(wire[n], s) /\ consumer'[n].pending = NoSnapshot
    /\ \/ s = Latest' /\ (seq' = seq + 1 \/ link[n] = "dialed")
       \/ s = consumer[n].pending

ServesSlot(n) ==
    /\ wire'[n] = wire[n] \/ \E s \in Snapshot : GrowsBy(n, s)
    /\ consumer'[n].pending # NoSnapshot =>
         /\ ~Idle(consumer'[n])
         /\ \/ consumer'[n].pending = consumer[n].pending
            \/ consumer'[n].pending = Latest' /\ seq' = seq + 1
    /\ link'[n] = "dialed" =>
         link[n] = "dialed" /\ wire'[n] = wire[n] /\ consumer'[n].pending = NoSnapshot

Serves ==
    /\ producer' = producer /\ seq' \in {seq, seq + 1}
    /\ last' = last /\ shown' = shown
    /\ \A c \in Clients : socket'[c] \in {socket[c], None}
    /\ \A n \in Slots : ServesSlot(n)

LEMMA LatestGrows ==
    ASSUME TypeOK, producer' = producer, seq' \in {seq, seq + 1}
    PROVE  /\ Latest \in Stamps /\ Latest' \in Stamps /\ AtMost(Latest, Latest')
           /\ seq' = seq + 1 => Precedes(Latest, Latest')
<1>1. producer \in Nat /\ seq \in Nat
    BY LatestIsStamp
<1> QED BY <1>1 DEF Latest, Stamps, AtMost, Precedes

\* The elements of a sequence, and of one that grew by an element.
LEMMA AppendIndex ==
    ASSUME NEW S, NEW w \in Seq(S), NEW s \in S, NEW v, v = Append(w, s)
    PROVE  /\ Len(w) \in Nat /\ Len(v) = Len(w) + 1 /\ v[Len(w) + 1] = s
           /\ \A i \in 1..Len(w) : v[i] = w[i] /\ w[i] \in S
BY AppendProperties

LEMMA WireTyped ==
    ASSUME TypeOK, NEW n \in Slots
    PROVE  /\ wire[n] \in Seq(Snapshot) /\ Len(wire[n]) \in Nat
           /\ \A i \in 1..Len(wire[n]) : wire[n][i] \in Stamps
           /\ consumer[n] \in Consumer(Snapshot)
           /\ consumer[n].pending # NoSnapshot => consumer[n].pending \in Stamps
<1>1. wire[n] \in Seq(Snapshot) /\ consumer[n] \in Consumer(Snapshot)
    BY DEF TypeOK
<1>2. \A i \in 1..Len(wire[n]) : wire[n][i] \in Snapshot
    BY <1>1
<1>3. consumer[n].pending \in Snapshot \cup {NoSnapshot}
    BY <1>1, ConsumerFields
<1> QED BY <1>1, <1>2, <1>3, SnapshotsAreStamps

LEMMA ViewerTyped ==
    ASSUME TypeOK, NEW c \in Clients
    PROVE  /\ shown[c] # NoSnapshot => shown[c] \in Stamps /\ shown[c] \in Snapshot
           /\ last[c] # NoSnapshot => last[c] \in Stamps
           /\ socket[c] \in Slots \cup {None}
BY SnapshotsAreStamps DEF TypeOK

\* What is appended comes after everything the socket carries.
LEMMA GrowthIsLater ==
    ASSUME TypeOK, NEW n \in Slots, SlotInOrder(n), NEW s \in Snapshot, GrowsBy(n, s),
           producer' = producer, seq' \in {seq, seq + 1}
    PROVE  /\ \A i \in 1..Len(wire[n]) : Precedes(wire[n][i], s)
           /\ s \in Stamps /\ AtMost(s, Latest')
<1>1. /\ Latest \in Stamps /\ Latest' \in Stamps /\ AtMost(Latest, Latest')
      /\ seq' = seq + 1 => Precedes(Latest, Latest')
    BY LatestGrows
<1>2. /\ Len(wire[n]) \in Nat /\ \A i \in 1..Len(wire[n]) : wire[n][i] \in Stamps
      /\ s \in Stamps /\ s # NoSnapshot
    BY WireTyped, SnapshotsAreStamps
<1>3. CASE s = Latest' /\ seq' = seq + 1
    BY <1>1, <1>2, <1>3, PrecedesTransitive DEF SlotInOrder, AtMost
<1>4. CASE s = Latest' /\ link[n] = "dialed"
    <2>1. 1..Len(wire[n]) = {}
        BY <1>4 DEF SlotInOrder
    <2> QED BY <1>2, <1>4, <2>1 DEF AtMost
<1>5. CASE s = consumer[n].pending
    <2>1. /\ \A i \in 1..Len(wire[n]) : Precedes(wire[n][i], s)
          /\ AtMost(s, Latest)
        BY <1>2, <1>5 DEF SlotInOrder
    <2> QED BY <1>1, <1>2, <2>1, PrecedesTransitive
<1> QED BY <1>3, <1>4, <1>5 DEF GrowsBy

LEMMA ServesSlotInOrder ==
    ASSUME TypeOK, NEW n \in Slots, SlotInOrder(n), ServesSlot(n),
           producer' = producer, seq' \in {seq, seq + 1}
    PROVE  SlotInOrder(n)'
<1>1. /\ Latest \in Stamps /\ Latest' \in Stamps /\ AtMost(Latest, Latest')
      /\ seq' = seq + 1 => Precedes(Latest, Latest')
    BY LatestGrows
<1>2. /\ wire[n] \in Seq(Snapshot) /\ Len(wire[n]) \in Nat
      /\ \A i \in 1..Len(wire[n]) : wire[n][i] \in Stamps
      /\ consumer[n].pending # NoSnapshot => consumer[n].pending \in Stamps
    BY WireTyped
<1>3. \A i \in 1..Len(wire[n]) : AtMost(wire[n][i], Latest')
    BY <1>1, <1>2, PrecedesTransitive DEF SlotInOrder
<1>4. link'[n] = "dialed" => wire'[n] = <<>> /\ consumer'[n].pending = NoSnapshot
    BY DEF SlotInOrder, ServesSlot
<1>5. CASE wire'[n] = wire[n]
    <2>1. consumer'[n].pending # NoSnapshot =>
             /\ ~Idle(consumer'[n])
             /\ AtMost(consumer'[n].pending, Latest')
             /\ \A i \in 1..Len(wire[n]) : Precedes(wire[n][i], consumer'[n].pending)
        <3> SUFFICES ASSUME consumer'[n].pending # NoSnapshot
                     PROVE  /\ ~Idle(consumer'[n])
                            /\ AtMost(consumer'[n].pending, Latest')
                            /\ \A i \in 1..Len(wire[n]) :
                                  Precedes(wire[n][i], consumer'[n].pending)
            OBVIOUS
        <3>1. CASE consumer'[n].pending = consumer[n].pending
            BY <1>1, <1>2, <3>1, PrecedesTransitive DEF SlotInOrder, ServesSlot
        <3>2. CASE consumer'[n].pending = Latest' /\ seq' = seq + 1
            <4>1. \A i \in 1..Len(wire[n]) : Precedes(wire[n][i], Latest')
                BY <1>1, <1>2, <3>2, PrecedesTransitive DEF SlotInOrder
            <4> QED BY <3>2, <4>1 DEF ServesSlot, AtMost
        <3> QED BY <3>1, <3>2 DEF ServesSlot
    <2> QED BY <1>3, <1>4, <1>5, <2>1 DEF SlotInOrder
<1>6. ASSUME NEW s \in Snapshot, GrowsBy(n, s) PROVE SlotInOrder(n)'
    <2>1. /\ \A i \in 1..Len(wire[n]) : Precedes(wire[n][i], s)
          /\ s \in Stamps /\ AtMost(s, Latest')
        BY <1>6, GrowthIsLater
    <2>2. /\ Len(wire'[n]) = Len(wire[n]) + 1 /\ wire'[n][Len(wire[n]) + 1] = s
          /\ \A i \in 1..Len(wire[n]) : wire'[n][i] = wire[n][i]
        BY <1>2, <1>6, AppendIndex DEF GrowsBy
    <2>3. \A i \in 1..Len(wire'[n]) : AtMost(wire'[n][i], Latest')
        <3> SUFFICES ASSUME NEW i \in 1..Len(wire'[n]) PROVE AtMost(wire'[n][i], Latest')
            OBVIOUS
        <3>1. i \in 1..Len(wire[n]) \/ i = Len(wire[n]) + 1
            BY <1>2, <2>2
        <3> QED BY <1>3, <2>1, <2>2, <3>1
    <2>4. \A i, j \in 1..Len(wire'[n]) : i < j => Precedes(wire'[n][i], wire'[n][j])
        <3> SUFFICES ASSUME NEW i \in 1..Len(wire'[n]), NEW j \in 1..Len(wire'[n]), i < j
                     PROVE  Precedes(wire'[n][i], wire'[n][j])
            OBVIOUS
        <3>1. i \in 1..Len(wire[n]) /\ (j \in 1..Len(wire[n]) \/ j = Len(wire[n]) + 1)
            BY <1>2, <2>2
        <3> QED BY <2>1, <2>2, <3>1 DEF SlotInOrder
    <2>5. consumer'[n].pending = NoSnapshot
        BY <1>6 DEF GrowsBy
    <2> QED BY <1>4, <2>3, <2>4, <2>5 DEF SlotInOrder
<1> QED BY <1>5, <1>6 DEF ServesSlot

LEMMA ServesViewer ==
    ASSUME TypeOK, InOrder, Serves, NEW c \in Clients
    PROVE  ViewerIsBehind(c)'
<1>1. /\ Latest \in Stamps /\ Latest' \in Stamps /\ AtMost(Latest, Latest')
      /\ seq' = seq + 1 => Precedes(Latest, Latest')
    BY LatestGrows DEF Serves
<1>2. /\ last' = last /\ shown' = shown /\ socket'[c] \in {socket[c], None} /\ ViewerIsBehind(c)
      /\ producer' = producer /\ seq' \in {seq, seq + 1}
    BY DEF Serves, InOrder
<1>3. shown[c] # NoSnapshot => shown[c] \in Stamps
    BY ViewerTyped
<1>4. shown[c] # NoSnapshot => AtMost(shown[c], Latest')
    BY <1>1, <1>2, <1>3, PrecedesTransitive DEF ViewerIsBehind
<1>5. ASSUME NEW n \in Slots, socket'[c] = n PROVE BehindSlot(c, n)'
    <2>1. socket[c] = n /\ BehindSlot(c, n) /\ ServesSlot(n) /\ SlotInOrder(n)
        BY <1>2, <1>5, ChannelAssumption DEF ViewerIsBehind, Serves, InOrder
    <2>2. /\ wire[n] \in Seq(Snapshot) /\ Len(wire[n]) \in Nat
          /\ \A i \in 1..Len(wire[n]) : wire[n][i] \in Stamps
          /\ consumer[n].pending # NoSnapshot => consumer[n].pending \in Stamps
        BY WireTyped
    <2>3. link'[n] = "dialed" => last'[c] = NoSnapshot
        BY <1>2, <2>1 DEF BehindSlot, ServesSlot
    <2>4. ASSUME shown[c] # NoSnapshot, consumer'[n].pending # NoSnapshot
          PROVE  Precedes(shown[c], consumer'[n].pending)
        <3>1. CASE consumer'[n].pending = consumer[n].pending
            BY <2>1, <2>4, <3>1 DEF BehindSlot
        <3>2. CASE consumer'[n].pending = Latest' /\ seq' = seq + 1
            BY <1>1, <1>2, <1>3, <2>4, <3>2, PrecedesTransitive DEF ViewerIsBehind
        <3> QED BY <2>1, <2>4, <3>1, <3>2 DEF ServesSlot
    <2>5. ASSUME shown[c] # NoSnapshot, NEW i \in 1..Len(wire'[n])
          PROVE  /\ AtMost(shown[c], wire'[n][i])
                 /\ last[c] # NoSnapshot => Precedes(shown[c], wire'[n][i])
        <3>1. CASE wire'[n] = wire[n]
            BY <2>1, <2>5, <3>1 DEF BehindSlot
        <3>2. ASSUME NEW s \in Snapshot, GrowsBy(n, s)
              PROVE  /\ AtMost(shown[c], wire'[n][i])
                     /\ last[c] # NoSnapshot => Precedes(shown[c], wire'[n][i])
            <4>1. /\ Len(wire'[n]) = Len(wire[n]) + 1 /\ wire'[n][Len(wire[n]) + 1] = s
                  /\ \A k \in 1..Len(wire[n]) : wire'[n][k] = wire[n][k]
                BY <2>2, <3>2, AppendIndex DEF GrowsBy
            <4>2. AtMost(shown[c], s) /\ (last[c] # NoSnapshot => Precedes(shown[c], s))
                <5>1. s # NoSnapshot
                    BY SnapshotsAreStamps
                <5>2. CASE s = consumer[n].pending
                    BY <2>1, <2>5, <5>1, <5>2 DEF BehindSlot, AtMost
                <5>3. CASE s = Latest' /\ seq' = seq + 1
                    BY <1>1, <1>2, <1>3, <2>5, <5>3, PrecedesTransitive DEF ViewerIsBehind, AtMost
                <5>4. CASE s = Latest' /\ link[n] = "dialed"
                    BY <1>4, <2>1, <2>5, <5>4 DEF BehindSlot
                <5> QED BY <3>2, <5>2, <5>3, <5>4 DEF GrowsBy
            <4>3. i \in 1..Len(wire[n]) \/ i = Len(wire[n]) + 1
                BY <2>2, <2>5, <4>1
            <4> QED BY <2>1, <2>5, <4>1, <4>2, <4>3 DEF BehindSlot
        <3> QED BY <2>1, <3>1, <3>2 DEF ServesSlot
    <2> QED BY <1>2, <2>3, <2>4, <2>5 DEF BehindSlot
<1> QED BY <1>2, <1>4, <1>5 DEF ViewerIsBehind

LEMMA ServesInOrder ==
    ASSUME TypeOK, InOrder, Serves PROVE InOrder'
<1>1. ASSUME NEW n \in Slots PROVE SlotInOrder(n)'
    BY ServesSlotInOrder DEF InOrder, Serves
<1>2. ASSUME NEW c \in Clients PROVE ViewerIsBehind(c)'
    BY ServesViewer
<1> QED BY <1>1, <1>2 DEF InOrder

-----------------------------------------------------------------------------
(* Steps in which nothing is published, delivered or heard *)

Quiet ==
    /\ UNCHANGED <<producer, seq, last, shown, wire>>
    /\ \A c \in Clients : socket'[c] \in {socket[c], None}
    /\ subscribed' \subseteq subscribed
    /\ \A n \in Slots :
         /\ n \in subscribed' => link'[n] = link[n] /\ consumer'[n] = consumer[n]
         /\ \/ consumer'[n].pending = NoSnapshot
            \/ consumer'[n].pending = consumer[n].pending
               /\ consumer'[n].inFlight = consumer[n].inFlight
         /\ link'[n] = "dialed" => link[n] = "dialed"

LEMMA QuietStep ==
    ASSUME ChInv, Quiet
    PROVE  BacklogIsLatest' /\ SubscribersAreAttached' /\ InOrder'
<1>1. TypeOK /\ InOrder /\ BacklogIsLatest /\ SubscribersAreAttached /\ subscribed \subseteq Slots
    BY DEF ChInv, TypeOK
<1>2. BacklogIsLatest'
    BY <1>1 DEF Quiet, BacklogIsLatest, Latest, Idle
<1>3. SubscribersAreAttached'
    BY <1>1 DEF Quiet, SubscribersAreAttached
<1>4. ASSUME NEW n \in Slots PROVE ServesSlot(n)
    <2>1. SlotInOrder(n)
        BY <1>1 DEF InOrder
    <2> QED BY <2>1 DEF Quiet, ServesSlot, SlotInOrder, Idle
<1>5. Serves
    BY <1>4 DEF Quiet, Serves
<1> QED BY <1>1, <1>2, <1>3, <1>5, ServesInOrder

LEMMA AttachRefused ==
    ASSUME ChInv, NEW n \in Slots, link[n] = "dialed",
           open' = [open EXCEPT ![n] = FALSE], link' = [link EXCEPT ![n] = "free"],
           UNCHANGED <<consumer, subscribed, writing, alive, timer, wire, publisher, hung, client>>
    PROVE  ChInv'
<1>1. TypeOK /\ AttachedIsSupervised /\ SubscribersAreAttached
    BY DEF ChInv
<1>2. TypeOK'
    BY <1>1 DEF TypeOK, publisher, client, Links
<1>3. AttachedIsSupervised'
    <2>1. Attached' \subseteq Attached
        BY <1>1 DEF Attached, TypeOK
    <2> QED BY <1>1, <2>1 DEF AttachedIsSupervised
<1>4. Quiet
    BY <1>1 DEF Quiet, TypeOK, publisher, client, SubscribersAreAttached
<1> QED BY <1>2, <1>3, <1>4, QuietStep DEF ChInv

LEMMA WriteFailsStep ==
    ASSUME ChInv, NEW n \in Slots, WriteFails(n) PROVE ChInv'
<1>1. TypeOK /\ AttachedIsSupervised
    BY DEF ChInv
<1>2. /\ link' = [link EXCEPT ![n] = IF @ = "attached" THEN "cleaned" ELSE @]
      /\ open' = [open EXCEPT ![n] = FALSE]
      /\ subscribed' = subscribed \ {n}
      /\ consumer' = [consumer EXCEPT ![n] = Complete(Close(@))]
      /\ writing' = [writing EXCEPT ![n] = None]
      /\ UNCHANGED <<publisher, alive, timer, wire, hung, client>>
    BY DEF WriteFails
<1>3. /\ consumer[n] \in Consumer(Snapshot) /\ link[n] \in Links
      /\ consumer \in [Slots -> Consumer(Snapshot)] /\ link \in [Slots -> Links]
    BY <1>1 DEF TypeOK
<1>4. /\ Complete(Close(consumer[n])) \in Consumer(Snapshot)
      /\ Complete(Close(consumer[n])).pending = NoSnapshot
    BY <1>3, CloseEffect, CompleteEffect
<1>5. /\ consumer' \in [Slots -> Consumer(Snapshot)] /\ consumer'[n].pending = NoSnapshot
      /\ \A m \in Slots \ {n} : consumer'[m] = consumer[m] /\ link'[m] = link[m]
      /\ link' \in [Slots -> Links]
      /\ link'[n] = IF link[n] = "attached" THEN "cleaned" ELSE link[n]
    BY <1>2, <1>3, <1>4 DEF Links
<1>6. TypeOK'
    BY <1>1, <1>2, <1>5 DEF TypeOK, publisher, client
<1>7. AttachedIsSupervised'
    <2>1. Attached' \subseteq Attached
        BY <1>5 DEF Attached
    <2> QED BY <1>1, <1>2, <2>1 DEF AttachedIsSupervised
<1>8. Quiet
    BY <1>2, <1>5 DEF Quiet, publisher, client
<1> QED BY <1>6, <1>7, <1>8, QuietStep DEF ChInv

LEMMA CloseTimeoutStep ==
    ASSUME ChInv, NEW n \in Slots, CloseTimeout(n) PROVE ChInv'
<1>1. TypeOK /\ AttachedIsSupervised /\ SubscribersAreAttached
    BY DEF ChInv
<1>2. /\ consumer[n].life = "closing" /\ consumer' = [consumer EXCEPT ![n] = Closed(@)]
      /\ UNCHANGED <<publisher, subscribed, link, open, writing, alive, timer, wire, hung, client>>
    BY DEF CloseTimeout
<1>3. consumer \in [Slots -> Consumer(Snapshot)] /\ Closed(consumer[n]) \in Consumer(Snapshot)
      /\ Closed(consumer[n]).pending = NoSnapshot
    <2>1. consumer \in [Slots -> Consumer(Snapshot)] /\ consumer[n] \in Consumer(Snapshot)
        BY <1>1 DEF TypeOK
    <2> QED BY <2>1, CloseEffect
<1>4. /\ consumer' \in [Slots -> Consumer(Snapshot)] /\ consumer'[n].pending = NoSnapshot
      /\ \A m \in Slots \ {n} : consumer'[m] = consumer[m]
    BY <1>2, <1>3
<1>5. TypeOK'
    BY <1>1, <1>2, <1>4 DEF TypeOK, publisher, client
<1>6. AttachedIsSupervised'
    BY <1>1, <1>2 DEF AttachedIsSupervised, Attached
<1>7. n \notin subscribed
    BY <1>1, <1>2 DEF SubscribersAreAttached
<1>8. Quiet
    BY <1>2, <1>4, <1>7 DEF Quiet, publisher, client
<1> QED BY <1>5, <1>6, <1>8, QuietStep DEF ChInv

LEMMA CleanupEndsStep ==
    ASSUME ChInv, NEW n \in Slots, CleanupEnds(n) PROVE ChInv'
<1>1. TypeOK /\ AttachedIsSupervised /\ SubscribersAreAttached
    BY DEF ChInv
<1>2. /\ link[n] = "cleaned" /\ link' = [link EXCEPT ![n] = "free"]
      /\ timer' = (timer /\ Attached # {})
      /\ UNCHANGED <<publisher, consumer, subscribed, open, writing, alive, wire, hung, client>>
    BY DEF CleanupEnds, StillSupervised
<1>3. /\ link' \in [Slots -> Links] /\ link'[n] = "free"
      /\ \A m \in Slots \ {n} : link'[m] = link[m]
    BY <1>1, <1>2 DEF TypeOK, Links
<1>4. timer' \in BOOLEAN
    BY <1>2
<1>5. TypeOK'
    BY <1>1, <1>2, <1>3, <1>4 DEF TypeOK, publisher, client
<1>6. AttachedIsSupervised'
    <2>1. Attached' = Attached
        BY <1>2, <1>3 DEF Attached
    <2> QED BY <1>1, <1>2, <2>1 DEF AttachedIsSupervised
<1>7. n \notin subscribed
    BY <1>1, <1>2 DEF SubscribersAreAttached
<1>8. Quiet
    BY <1>2, <1>3, <1>7 DEF Quiet, publisher, client
<1> QED BY <1>5, <1>6, <1>8, QuietStep DEF ChInv

\* The connections in S are cleaned up, whatever becomes of their sockets.
LEMMA CleanUpStep ==
    ASSUME TypeOK, NEW S \in SUBSET Slots, CleanUp(S)
    PROVE  /\ consumer' \in [Slots -> Consumer(Snapshot)] /\ link' \in [Slots -> Links]
           /\ subscribed' \subseteq subscribed /\ Attached' = Attached \ S
           /\ \A n \in Slots :
                /\ n \in subscribed' => link'[n] = link[n] /\ consumer'[n] = consumer[n]
                /\ \/ consumer'[n].pending = NoSnapshot
                   \/ consumer'[n].pending = consumer[n].pending
                      /\ consumer'[n].inFlight = consumer[n].inFlight
                /\ link'[n] = "dialed" => link[n] = "dialed"
<1>1. /\ link' = [n \in Slots |-> IF n \in S THEN "cleaned" ELSE link[n]]
      /\ subscribed' = subscribed \ S
      /\ consumer' = [n \in Slots |-> IF n \in S THEN Close(consumer[n]) ELSE consumer[n]]
    BY DEF CleanUp
<1>2. /\ consumer \in [Slots -> Consumer(Snapshot)] /\ link \in [Slots -> Links]
      /\ subscribed \subseteq Slots
    BY DEF TypeOK
<1>3. \A n \in Slots : /\ Close(consumer[n]) \in Consumer(Snapshot)
                       /\ Close(consumer[n]).inFlight = consumer[n].inFlight
                       /\ Close(consumer[n]).pending \in {consumer[n].pending, NoSnapshot}
    BY <1>2, CloseEffect
<1>4. consumer' \in [Slots -> Consumer(Snapshot)]
    BY <1>1, <1>2, <1>3
<1>5. link' \in [Slots -> Links]
    BY <1>1, <1>2 DEF Links
<1>6. Attached' = Attached \ S
    BY <1>1, <1>2 DEF Attached
<1>7. ASSUME NEW n \in Slots
      PROVE  /\ n \in subscribed' => link'[n] = link[n] /\ consumer'[n] = consumer[n]
             /\ \/ consumer'[n].pending = NoSnapshot
                \/ consumer'[n].pending = consumer[n].pending
                   /\ consumer'[n].inFlight = consumer[n].inFlight
             /\ link'[n] = "dialed" => link[n] = "dialed"
    BY <1>1, <1>2, <1>3
<1> QED BY <1>1, <1>4, <1>5, <1>6, <1>7

LEMMA SocketClosedStep ==
    ASSUME ChInv, NEW n \in Slots, SocketClosed(n) PROVE ChInv'
<1>1. TypeOK /\ AttachedIsSupervised
    BY DEF ChInv
<1>2. /\ CleanUp({n})
      /\ UNCHANGED <<publisher, open, writing, alive, timer, wire, hung, client>>
    BY DEF SocketClosed
<1>3. {n} \in SUBSET Slots
    OBVIOUS
<1>4. /\ consumer' \in [Slots -> Consumer(Snapshot)] /\ link' \in [Slots -> Links]
      /\ subscribed' \subseteq subscribed /\ Attached' = Attached \ {n}
    BY <1>1, <1>2, <1>3, CleanUpStep
<1>5. TypeOK'
    BY <1>1, <1>2, <1>4 DEF TypeOK, publisher, client
<1>6. AttachedIsSupervised'
    BY <1>1, <1>2, <1>4 DEF AttachedIsSupervised
<1>7. Quiet
    BY <1>1, <1>2, <1>3, <1>4, CleanUpStep DEF Quiet, publisher, client
<1> QED BY <1>5, <1>6, <1>7, QuietStep DEF ChInv

LEMMA HeartbeatStep ==
    ASSUME ChInv, HeartbeatTick PROVE ChInv'
<1> DEFINE silent == {n \in Attached : ~alive[n]}
<1>1. TypeOK /\ AttachedIsSupervised
    BY DEF ChInv
<1>2. /\ CleanUp(silent) /\ open' = [n \in Slots |-> n \notin silent /\ open[n]]
      /\ alive' = [n \in Slots |-> alive[n] /\ n \notin Attached]
      /\ timer' = (Attached # silent)
      /\ UNCHANGED <<publisher, writing, wire, hung, client>>
    BY DEF HeartbeatTick, Terminate
<1>3. silent \in SUBSET Slots
    BY DEF Attached
<1>4. open' \in [Slots -> BOOLEAN] /\ alive' \in [Slots -> BOOLEAN] /\ timer' \in BOOLEAN
    BY <1>1, <1>2 DEF TypeOK
<1> HIDE DEF silent
<1>5. /\ consumer' \in [Slots -> Consumer(Snapshot)] /\ link' \in [Slots -> Links]
      /\ subscribed' \subseteq subscribed /\ Attached' = Attached \ silent
    BY <1>1, <1>2, <1>3, CleanUpStep
<1>6. TypeOK'
    BY <1>1, <1>2, <1>4, <1>5 DEF TypeOK, publisher, client
<1>7. AttachedIsSupervised'
    <2>1. Attached = silent => Attached' = {}
        BY <1>5
    <2> QED BY <1>2, <2>1 DEF AttachedIsSupervised
<1>8. Quiet
    BY <1>1, <1>2, <1>3, <1>5, CleanUpStep DEF Quiet, publisher, client
<1> QED BY <1>6, <1>7, <1>8, QuietStep DEF ChInv

LEMMA SlowConsumerStep ==
    ASSUME ChInv, NEW n \in Slots, SlowConsumer(n) PROVE ChInv'
<1>1. TypeOK /\ AttachedIsSupervised
    BY DEF ChInv
<1>2. /\ CleanUp({n}) /\ open' = [m \in Slots |-> m \notin {n} /\ open[m]]
      /\ writing' = [writing EXCEPT ![n] = "failed"]
      /\ UNCHANGED <<publisher, alive, timer, wire, hung, client>>
    BY DEF SlowConsumer, Terminate
<1>3. {n} \in SUBSET Slots
    OBVIOUS
<1>4. /\ consumer' \in [Slots -> Consumer(Snapshot)] /\ link' \in [Slots -> Links]
      /\ subscribed' \subseteq subscribed /\ Attached' = Attached \ {n}
    BY <1>1, <1>2, <1>3, CleanUpStep
<1>5. open' \in [Slots -> BOOLEAN] /\ writing' \in [Slots -> {None, "callback", "failed"}]
    BY <1>1, <1>2 DEF TypeOK
<1>6. TypeOK'
    BY <1>1, <1>2, <1>4, <1>5 DEF TypeOK, publisher, client
<1>7. AttachedIsSupervised'
    BY <1>1, <1>2, <1>4 DEF AttachedIsSupervised
<1>8. Quiet
    BY <1>1, <1>2, <1>3, <1>4, CleanUpStep DEF Quiet, publisher, client
<1> QED BY <1>6, <1>7, <1>8, QuietStep DEF ChInv

\* A ping is answered, a page freezes, a socket breaks or opens.
LEMMA SmallStep ==
    ASSUME ChInv,
           \/ \E n \in Slots : Pong(n) \/ Break(n) \/ Hang(n)
           \/ \E c \in Clients : Opens(c)
    PROVE  ChInv'
<1>1. TypeOK /\ AttachedIsSupervised
    BY DEF ChInv
<1>2. UNCHANGED <<producer, seq, last, shown, wire, socket, subscribed, consumer, link, timer, writing>>
    BY DEF Pong, Break, Hang, Opens, publisher, transport, client
<1>3. /\ alive' \in [Slots -> BOOLEAN] /\ open' \in [Slots -> BOOLEAN]
      /\ hung' \in [Slots -> BOOLEAN]
      /\ state' \in [Clients -> {"idle", "connecting", "awaiting-baseline", "live",
                              "reconnecting", "closed"}]
    BY <1>1, ZenonT(30) DEF Pong, Break, Hang, Opens, publisher, transport, client, TypeOK
<1>4. TypeOK'
    BY <1>1, <1>2, <1>3 DEF TypeOK
<1>5. AttachedIsSupervised'
    BY <1>1, <1>2 DEF AttachedIsSupervised, Attached
<1>6. Quiet
    BY <1>2 DEF Quiet
<1> QED BY <1>4, <1>5, <1>6, QuietStep DEF ChInv

LEMMA SeesCloseStep ==
    ASSUME ChInv, NEW c \in Clients, ClientSeesClose(c) PROVE ChInv'
<1>1. TypeOK /\ AttachedIsSupervised /\ SubscribersAreAttached
    BY DEF ChInv
<1>2. /\ socket[c] # None
      /\ socket' = [socket EXCEPT ![c] = None] /\ state' = [state EXCEPT ![c] = "reconnecting"]
      /\ link' = [link EXCEPT ![socket[c]] = IF @ = "dialed" THEN "free" ELSE @]
      /\ UNCHANGED <<publisher, consumer, subscribed, open, writing, alive, timer, wire, hung,
                     last, shown>>
    BY DEF ClientSeesClose, Retry
<1>3. /\ socket \in [Clients -> Slots \cup {None}] /\ link \in [Slots -> Links]
      /\ subscribed \subseteq Slots
    BY <1>1 DEF TypeOK
<1>4. /\ link' \in [Slots -> Links]
      /\ \A n \in Slots : link'[n] = link[n] \/ (link[n] = "dialed" /\ link'[n] = "free")
    BY <1>2, <1>3 DEF Links
<1>5. /\ socket' \in [Clients -> Slots \cup {None}]
      /\ \A d \in Clients : socket'[d] \in {socket[d], None}
    BY <1>2, <1>3
<1>6. state' \in [Clients -> {"idle", "connecting", "awaiting-baseline", "live",
                              "reconnecting", "closed"}]
    BY <1>1, <1>2 DEF TypeOK
<1>7. TypeOK'
    BY <1>1, <1>2, <1>4, <1>5, <1>6 DEF TypeOK, publisher
<1>8. AttachedIsSupervised'
    <2>1. Attached' = Attached
        BY <1>4 DEF Attached
    <2> QED BY <1>1, <1>2, <2>1 DEF AttachedIsSupervised
<1>9. Quiet
    BY <1>1, <1>2, <1>3, <1>4, <1>5 DEF Quiet, publisher, SubscribersAreAttached
<1> QED BY <1>7, <1>8, <1>9, QuietStep DEF ChInv

LEMMA DisposeStep ==
    ASSUME ChInv, NEW c \in Clients, Dispose(c) PROVE ChInv'
<1>1. TypeOK /\ AttachedIsSupervised /\ SubscribersAreAttached
    BY DEF ChInv
<1>2. /\ state' = [state EXCEPT ![c] = "closed"] /\ socket' = [socket EXCEPT ![c] = None]
      /\ open' = [n \in Slots |-> open[n] /\ n # socket[c]]
      /\ link' = [n \in Slots |-> IF n = socket[c] /\ link[n] = "dialed" THEN "free" ELSE link[n]]
      /\ UNCHANGED <<publisher, consumer, subscribed, writing, alive, timer, wire, hung, last, shown>>
    BY DEF Dispose
<1>3. /\ socket \in [Clients -> Slots \cup {None}] /\ link \in [Slots -> Links]
      /\ subscribed \subseteq Slots
    BY <1>1 DEF TypeOK
<1>4. /\ link' \in [Slots -> Links]
      /\ \A n \in Slots : link'[n] = link[n] \/ (link[n] = "dialed" /\ link'[n] = "free")
    BY <1>2, <1>3 DEF Links
<1>5. /\ socket' \in [Clients -> Slots \cup {None}]
      /\ \A d \in Clients : socket'[d] \in {socket[d], None}
    BY <1>2, <1>3
<1>6. /\ state' \in [Clients -> {"idle", "connecting", "awaiting-baseline", "live",
                              "reconnecting", "closed"}]
      /\ open' \in [Slots -> BOOLEAN]
    BY <1>1, <1>2 DEF TypeOK
<1>7. TypeOK'
    BY <1>1, <1>2, <1>4, <1>5, <1>6 DEF TypeOK, publisher
<1>8. AttachedIsSupervised'
    <2>1. Attached' = Attached
        BY <1>4 DEF Attached
    <2> QED BY <1>1, <1>2, <2>1 DEF AttachedIsSupervised
<1>9. Quiet
    BY <1>1, <1>2, <1>3, <1>4, <1>5 DEF Quiet, publisher, SubscribersAreAttached
<1> QED BY <1>7, <1>8, <1>9, QuietStep DEF ChInv

-----------------------------------------------------------------------------
(* Publication and delivery *)

LEMMA PublishStep ==
    ASSUME ChInv, Publish PROVE ChInv'
<1> DEFINE s == [producer |-> producer, seq |-> seq + 1]
           d == [n \in Slots |-> IF n \in subscribed THEN Offer(consumer[n], s) ELSE consumer[n]]
<1>1. /\ TypeOK /\ AttachedIsSupervised /\ BacklogIsLatest /\ SubscribersAreAttached /\ InOrder
      /\ consumer \in [Slots -> Consumer(Snapshot)] /\ subscribed \subseteq Slots
    BY DEF ChInv, TypeOK
<1>2. /\ seq < MaxSeq /\ seq' = seq + 1 /\ Consumers(d)
      /\ UNCHANGED <<producer, subscribed, link, open, alive, timer, hung, client, faults>>
    BY DEF Publish
<1>3. s \in Snapshot /\ s # NoSnapshot /\ Latest' = s /\ seq' \in 0..MaxSeq
    <2>1. seq + 1 \in 1..MaxSeq /\ seq + 1 \in 0..MaxSeq /\ producer \in 1..MaxProducers
        BY <1>1, <1>2, ChannelBounds DEF TypeOK
    <2>2. s \in Snapshot
        BY <2>1 DEF Snapshot
    <2>3. Latest' = s
        BY <1>2 DEF Latest
    <2> QED BY <1>2, <2>1, <2>2, <2>3, SnapshotsAreStamps
<1> HIDE DEF s
<1>4. ASSUME NEW n \in Slots
      PROVE  /\ d[n] \in Consumer(Snapshot)
             /\ n \notin subscribed => d[n] = consumer[n]
             /\ n \in subscribed =>
                  /\ link[n] = "attached" /\ d[n].life = "accepting"
                  /\ Idle(consumer[n]) => /\ d[n].inFlight = s /\ d[n].pending = NoSnapshot
                  /\ ~Idle(consumer[n]) => d[n].inFlight = consumer[n].inFlight /\ d[n].pending = s
    <2>1. consumer[n] \in Consumer(Snapshot) /\ SlotInOrder(n)
        BY <1>1 DEF InOrder
    <2>2. CASE n \notin subscribed
        BY <2>1, <2>2
    <2>3. CASE n \in subscribed
        <3>1. d[n] = Offer(consumer[n], s) /\ consumer[n].life = "accepting" /\ link[n] = "attached"
            BY <1>1, <2>3 DEF SubscribersAreAttached
        <3>2. Idle(consumer[n]) => consumer[n].pending = NoSnapshot
            BY <2>1 DEF SlotInOrder
        <3> HIDE DEF d
        <3> QED BY <1>3, <2>1, <2>3, <3>1, <3>2, OfferEffect
    <2> QED BY <2>2, <2>3
<1>5. d \in [Slots -> Consumer(Snapshot)]
    BY <1>4
<1> HIDE DEF d
<1>6. /\ consumer' \in [Slots -> Consumer(Snapshot)]
      /\ wire' \in [Slots -> Seq(Snapshot)]
      /\ writing' \in [Slots -> {None, "callback", "failed"}]
      /\ consumer' = d
      /\ \A n \in Slots :
           \/ wire'[n] = wire[n]
           \/ /\ d[n].inFlight # consumer[n].inFlight /\ wire'[n] = Append(wire[n], d[n].inFlight)
    BY <1>1, <1>2, <1>5, ConsumersEffect
<1>7. TypeOK'
    BY <1>1, <1>2, <1>3, <1>6 DEF TypeOK, client
<1>8. AttachedIsSupervised'
    BY <1>1, <1>2 DEF AttachedIsSupervised, Attached
<1>9. SubscribersAreAttached'
    BY <1>1, <1>2, <1>4, <1>6 DEF SubscribersAreAttached
<1>10. BacklogIsLatest'
    BY <1>1, <1>2, <1>3, <1>4, <1>6 DEF BacklogIsLatest, Idle
<1>11. ASSUME NEW n \in Slots PROVE ServesSlot(n)
    <2>1. SlotInOrder(n)
        BY <1>1 DEF InOrder
    <2>2. CASE n \notin subscribed
        <3>1. d[n] = consumer[n]
            BY <1>4, <2>2
        <3>2. wire'[n] = wire[n] /\ consumer'[n] = consumer[n] /\ link'[n] = link[n]
            BY <1>2, <1>6, <3>1
        <3> QED BY <2>1, <3>2 DEF ServesSlot, SlotInOrder
    <2>3. CASE n \in subscribed /\ Idle(consumer[n])
        <3>1. d[n].inFlight = s /\ d[n].pending = NoSnapshot /\ link[n] = "attached"
            BY <1>4, <2>3
        <3>2. wire'[n] = wire[n] \/ GrowsBy(n, s)
            BY <1>2, <1>3, <1>6, <3>1 DEF GrowsBy
        <3>3. link'[n] # "dialed"
            BY <1>2, <3>1
        <3> QED BY <1>3, <1>6, <3>1, <3>2, <3>3 DEF ServesSlot
    <2>4. CASE n \in subscribed /\ ~Idle(consumer[n])
        <3>1. /\ d[n].inFlight = consumer[n].inFlight /\ d[n].pending = s /\ link[n] = "attached"
            BY <1>4, <2>4
        <3> QED BY <1>2, <1>3, <1>6, <2>4, <3>1 DEF ServesSlot, Idle
    <2> QED BY <2>2, <2>3, <2>4
<1>12. Serves
    BY <1>2, <1>11 DEF Serves, client
<1> QED BY <1>1, <1>7, <1>8, <1>9, <1>10, <1>12, ServesInOrder DEF ChInv

\* A connection is registered and gets its baseline.
LEMMA AttachStep ==
    ASSUME ChInv, NEW n \in Slots, Attach(n) PROVE ChInv'
<1> DEFINE d == [consumer EXCEPT ![n] = NewSubscription]
<1>1. /\ TypeOK /\ AttachedIsSupervised /\ BacklogIsLatest /\ SubscribersAreAttached /\ InOrder
      /\ consumer \in [Slots -> Consumer(Snapshot)] /\ subscribed \subseteq Slots
      /\ link \in [Slots -> Links]
    BY DEF ChInv, TypeOK
<1>2. link[n] = "dialed" /\ UNCHANGED <<publisher, hung, client, faults>>
    BY DEF Attach
<1>3. CASE /\ open' = [open EXCEPT ![n] = FALSE] /\ link' = [link EXCEPT ![n] = "free"]
           /\ UNCHANGED <<consumer, subscribed, writing, alive, timer, wire>>
    BY <1>2, <1>3, AttachRefused
<1>4. CASE /\ link' = [link EXCEPT ![n] = "attached"]
           /\ alive' = [alive EXCEPT ![n] = TRUE] /\ timer' = TRUE
           /\ subscribed' = subscribed \cup {n}
           /\ Consumers(d) /\ UNCHANGED open
    <2>1. /\ NewSubscription \in Consumer(Snapshot) /\ NewSubscription.pending = NoSnapshot
          /\ NewSubscription.life = "accepting"
          /\ NewSubscription.inFlight \in {NoSnapshot, Latest}
        <3>1. CASE seq = 0
            BY <3>1, NewConsumerType DEF NewSubscription
        <3>2. CASE seq # 0
            <4>1. Latest \in Snapshot
                BY <1>1, <3>2, ChannelBounds DEF TypeOK, Latest, Snapshot
            <4>2. NewSubscription = Offer(NewConsumer, Latest)
                BY <3>2 DEF NewSubscription
            <4>3. /\ NewConsumer \in Consumer(Snapshot) /\ Idle(NewConsumer)
                  /\ NewConsumer.pending = NoSnapshot /\ NewConsumer.life = "accepting"
                BY NewConsumerType
            <4> QED BY <4>1, <4>2, <4>3, OfferEffect
        <3> QED BY <3>1, <3>2
    <2>2. /\ d \in [Slots -> Consumer(Snapshot)] /\ d[n] = NewSubscription
          /\ \A m \in Slots \ {n} : d[m] = consumer[m]
        BY <1>1, <2>1
    <2> HIDE DEF d
    <2>3. /\ consumer' \in [Slots -> Consumer(Snapshot)]
          /\ wire' \in [Slots -> Seq(Snapshot)]
          /\ writing' \in [Slots -> {None, "callback", "failed"}]
          /\ consumer' = d
          /\ \A m \in Slots :
               \/ wire'[m] = wire[m]
               \/ /\ d[m].inFlight \in Snapshot /\ d[m].inFlight # consumer[m].inFlight
                  /\ wire'[m] = Append(wire[m], d[m].inFlight)
        BY <1>1, <1>4, <2>2, ConsumersEffect
    <2>4. /\ link' \in [Slots -> Links] /\ link'[n] = "attached"
          /\ \A m \in Slots \ {n} : link'[m] = link[m]
        BY <1>1, <1>4 DEF Links
    <2>5. alive' \in [Slots -> BOOLEAN] /\ subscribed' \subseteq Slots /\ timer' \in BOOLEAN
        BY <1>1, <1>4 DEF TypeOK
    <2>6. TypeOK'
        BY <1>1, <1>2, <1>4, <2>3, <2>4, <2>5 DEF TypeOK, client, publisher
    <2>7. AttachedIsSupervised'
        BY <1>4 DEF AttachedIsSupervised
    <2>8. SubscribersAreAttached'
        BY <1>1, <1>4, <2>1, <2>2, <2>3, <2>4 DEF SubscribersAreAttached
    <2>9. Latest' = Latest /\ producer' = producer /\ seq' = seq
        BY <1>2 DEF Latest, publisher
    <2>10. BacklogIsLatest'
        <3>1. \A m \in subscribed \ {n} : ~Idle(consumer'[m]) =>
                 Latest' = IF consumer'[m].pending = NoSnapshot THEN consumer'[m].inFlight
                           ELSE consumer'[m].pending
            BY <1>1, <2>2, <2>3, <2>9 DEF BacklogIsLatest
        <3>2. ~Idle(consumer'[n]) =>
                 Latest' = IF consumer'[n].pending = NoSnapshot THEN consumer'[n].inFlight
                           ELSE consumer'[n].pending
            BY <2>1, <2>2, <2>3, <2>9 DEF Idle
        <3> QED BY <1>4, <3>1, <3>2 DEF BacklogIsLatest
    <2>11. ASSUME NEW m \in Slots PROVE ServesSlot(m)
        <3>1. SlotInOrder(m)
            BY <1>1 DEF InOrder
        <3>2. CASE m # n
            <4>1. d[m] = consumer[m]
                BY <2>2, <3>2
            <4>2. wire'[m] = wire[m] /\ consumer'[m] = consumer[m] /\ link'[m] = link[m]
                BY <2>3, <2>4, <3>2, <4>1
            <4> QED BY <3>1, <4>2 DEF ServesSlot, SlotInOrder
        <3>3. CASE m = n
            <4>1. consumer'[n].pending = NoSnapshot
                BY <2>1, <2>2, <2>3
            <4>2. wire'[n] = wire[n] \/ \E s \in Snapshot : GrowsBy(n, s)
                <5> SUFFICES ASSUME wire'[n] # wire[n] PROVE \E s \in Snapshot : GrowsBy(n, s)
                    OBVIOUS
                <5>1. /\ d[n].inFlight \in Snapshot /\ wire'[n] = Append(wire[n], d[n].inFlight)
                    BY <2>3
                <5>2. d[n].inFlight = Latest'
                    BY <2>1, <2>2, <2>9, <5>1, SnapshotsAreStamps
                <5> QED BY <1>2, <4>1, <5>1, <5>2 DEF GrowsBy
            <4> QED BY <2>4, <3>3, <4>1, <4>2 DEF ServesSlot
        <3> QED BY <3>2, <3>3
    <2>12. Serves
        BY <1>2, <2>9, <2>11 DEF Serves, client
    <2> QED BY <1>1, <2>6, <2>7, <2>8, <2>10, <2>12, ServesInOrder DEF ChInv
<1> QED BY <1>3, <1>4 DEF Attach

\* A delivery completes and the pending one begins.
LEMMA WrittenStep ==
    ASSUME ChInv, NEW n \in Slots, Written(n) PROVE ChInv'
<1> DEFINE d == [consumer EXCEPT ![n] = Complete(@)]
<1>1. /\ TypeOK /\ AttachedIsSupervised /\ BacklogIsLatest /\ SubscribersAreAttached /\ InOrder
      /\ consumer \in [Slots -> Consumer(Snapshot)] /\ subscribed \subseteq Slots
    BY DEF ChInv, TypeOK
<1>2. /\ Consumers(d)
      /\ UNCHANGED <<publisher, subscribed, link, open, alive, timer, hung, client, faults>>
    BY DEF Written
<1>3. /\ Complete(consumer[n]) \in Consumer(Snapshot) /\ Complete(consumer[n]).pending = NoSnapshot
      /\ consumer[n].life = "accepting" =>
           /\ Complete(consumer[n]).life = "accepting"
           /\ Complete(consumer[n]).inFlight = consumer[n].pending
      /\ consumer[n].life # "accepting" => Complete(consumer[n]).inFlight = NoSnapshot
    <2>1. consumer[n] \in Consumer(Snapshot)
        BY <1>1
    <2> QED BY <2>1, CompleteEffect
<1>4. /\ d \in [Slots -> Consumer(Snapshot)] /\ d[n] = Complete(consumer[n])
      /\ \A m \in Slots \ {n} : d[m] = consumer[m]
    BY <1>1, <1>3
<1> HIDE DEF d
<1>5. /\ consumer' \in [Slots -> Consumer(Snapshot)]
      /\ wire' \in [Slots -> Seq(Snapshot)]
      /\ writing' \in [Slots -> {None, "callback", "failed"}]
      /\ consumer' = d
      /\ \A m \in Slots :
           \/ wire'[m] = wire[m]
           \/ /\ d[m].inFlight \in Snapshot /\ d[m].inFlight # consumer[m].inFlight
              /\ wire'[m] = Append(wire[m], d[m].inFlight)
    BY <1>1, <1>2, <1>4, ConsumersEffect
<1>6. TypeOK'
    BY <1>1, <1>2, <1>5 DEF TypeOK, client, publisher
<1>7. AttachedIsSupervised'
    BY <1>1, <1>2 DEF AttachedIsSupervised, Attached
<1>8. SubscribersAreAttached'
    BY <1>1, <1>2, <1>3, <1>4, <1>5 DEF SubscribersAreAttached
<1>9. Latest' = Latest /\ producer' = producer /\ seq' = seq
    BY <1>2 DEF Latest, publisher
<1>10. BacklogIsLatest'
    <2> SUFFICES ASSUME NEW m \in subscribed, ~Idle(consumer'[m])
                 PROVE  Latest = IF consumer'[m].pending = NoSnapshot THEN consumer'[m].inFlight
                                 ELSE consumer'[m].pending
        BY <1>2, <1>9 DEF BacklogIsLatest
    <2>1. CASE m # n
        BY <1>1, <1>4, <1>5, <2>1 DEF BacklogIsLatest
    <2>2. CASE m = n
        <3>1. /\ consumer[n].life = "accepting" /\ consumer'[n].pending = NoSnapshot
              /\ consumer'[n].inFlight = consumer[n].pending /\ consumer[n].pending # NoSnapshot
            BY <1>1, <1>3, <1>4, <1>5, <2>2 DEF SubscribersAreAttached, Idle
        <3>2. ~Idle(consumer[n])
            BY <1>1, <3>1 DEF InOrder, SlotInOrder
        <3> QED BY <1>1, <2>2, <3>1, <3>2 DEF BacklogIsLatest
    <2> QED BY <2>1, <2>2
<1>11. ASSUME NEW m \in Slots PROVE ServesSlot(m)
    <2>1. SlotInOrder(m) /\ link'[m] = link[m]
        BY <1>1, <1>2 DEF InOrder
    <2>2. CASE m # n
        <3>1. d[m] = consumer[m]
            BY <1>4, <2>2
        <3>2. wire'[m] = wire[m] /\ consumer'[m] = consumer[m]
            BY <1>5, <3>1
        <3> QED BY <2>1, <3>2 DEF ServesSlot, SlotInOrder
    <2>3. CASE m = n
        <3>1. consumer'[n].pending = NoSnapshot
            BY <1>3, <1>4, <1>5
        <3>2. ASSUME wire'[n] # wire[n]
              PROVE  GrowsBy(n, consumer[n].pending) /\ consumer[n].pending \in Snapshot
            <4>1. /\ d[n].inFlight \in Snapshot /\ wire'[n] = Append(wire[n], d[n].inFlight)
                BY <1>5, <3>2
            <4>2. d[n].inFlight = consumer[n].pending
                BY <1>3, <1>4, <4>1, SnapshotsAreStamps
            <4> QED BY <3>1, <4>1, <4>2 DEF GrowsBy
        <3>3. link[n] = "dialed" => wire'[n] = wire[n]
            BY <2>1, <2>3, <3>2, SnapshotsAreStamps DEF SlotInOrder
        <3> QED BY <2>1, <2>3, <3>1, <3>2, <3>3 DEF ServesSlot
    <2> QED BY <2>2, <2>3
<1>12. Serves
    BY <1>2, <1>9, <1>11 DEF Serves, client
<1> QED BY <1>1, <1>6, <1>7, <1>8, <1>10, <1>12, ServesInOrder DEF ChInv

-----------------------------------------------------------------------------
(* What a viewer hears, a new socket, a new process *)

LEMMA TailIndex ==
    ASSUME NEW S, NEW w \in Seq(S), w # <<>>, NEW v, v = Tail(w)
    PROVE  /\ v \in Seq(S) /\ Len(v) = Len(w) - 1 /\ Len(w) \in Nat \ {0} /\ Head(w) = w[1]
           /\ w[1] \in S
           /\ \A i \in 1..Len(v) : v[i] = w[i + 1] /\ i + 1 \in 1..Len(w)
<1>1. Len(w) \in Nat \ {0} /\ w[1] \in S /\ Head(w) = w[1]
    OBVIOUS
<1>2. /\ v \in Seq(S) /\ Len(v) = Len(w) - 1
      /\ \A i \in 1..Len(v) : v[i] = w[i + 1]
    BY HeadTailProperties
<1>3. \A i \in 1..Len(v) : i + 1 \in 1..Len(w)
    BY <1>1, <1>2
<1> QED BY <1>1, <1>2, <1>3

\* What a viewer makes of the snapshot s: it is shown, ends the socket, or is dropped.
Hears(c, s) ==
    \/ /\ Verdict(last[c], s) = "accepted"
       /\ last' = [last EXCEPT ![c] = s] /\ shown' = [shown EXCEPT ![c] = s]
       /\ UNCHANGED socket
    \/ /\ UNCHANGED <<last, shown>>
       /\ socket' = socket \/ socket' = [socket EXCEPT ![c] = None]

LEMMA HearsStep ==
    ASSUME ChInv, NEW c \in Clients, NEW n \in Slots, socket[c] = n, wire[n] # <<>>,
           wire' = [wire EXCEPT ![n] = Tail(@)], Hears(c, Head(wire[n])),
           UNCHANGED <<producer, seq, consumer, subscribed, link>>
    PROVE  /\ wire' \in [Slots -> Seq(Snapshot)]
           /\ last' \in [Clients -> Snapshot \cup {NoSnapshot}]
           /\ shown' \in [Clients -> Snapshot \cup {NoSnapshot}]
           /\ socket' \in [Clients -> Slots \cup {None}]
           /\ InOrder'
<1> DEFINE s == Head(wire[n])
<1>1. /\ TypeOK /\ InOrder /\ wire \in [Slots -> Seq(Snapshot)]
      /\ last \in [Clients -> Snapshot \cup {NoSnapshot}]
      /\ shown \in [Clients -> Snapshot \cup {NoSnapshot}]
      /\ socket \in [Clients -> Slots \cup {None}]
    BY DEF ChInv, TypeOK
<1>2. /\ wire'[n] \in Seq(Snapshot) /\ Len(wire'[n]) = Len(wire[n]) - 1
      /\ Len(wire[n]) \in Nat \ {0} /\ s = wire[n][1] /\ s \in Snapshot
      /\ \A i \in 1..Len(wire'[n]) : wire'[n][i] = wire[n][i + 1] /\ i + 1 \in 1..Len(wire[n])
      /\ 1 \in 1..Len(wire[n])
    <2>1. wire[n] \in Seq(Snapshot) /\ wire'[n] = Tail(wire[n])
        BY <1>1
    <2>2. /\ wire'[n] \in Seq(Snapshot) /\ Len(wire'[n]) = Len(wire[n]) - 1
          /\ Len(wire[n]) \in Nat \ {0} /\ s = wire[n][1] /\ wire[n][1] \in Snapshot
          /\ \A i \in 1..Len(wire'[n]) : wire'[n][i] = wire[n][i + 1] /\ i + 1 \in 1..Len(wire[n])
        BY <2>1, TailIndex
    <2> QED BY <2>2
<1>3. /\ wire' \in [Slots -> Seq(Snapshot)] /\ \A m \in Slots \ {n} : wire'[m] = wire[m]
    BY <1>1, <1>2
<1> HIDE DEF s
<1>4. /\ last' \in [Clients -> Snapshot \cup {NoSnapshot}]
      /\ shown' \in [Clients -> Snapshot \cup {NoSnapshot}]
      /\ socket' \in [Clients -> Slots \cup {None}]
      /\ \A d \in Clients : socket'[d] \in {socket[d], None}
      /\ \A d \in Clients \ {c} : shown'[d] = shown[d] /\ last'[d] = last[d]
      /\ \/ shown'[c] = s /\ last'[c] = s
         \/ shown'[c] = shown[c] /\ last'[c] = last[c]
    BY <1>1, <1>2, ZenonT(30) DEF Hears, s
<1>5. Latest' = Latest
    BY DEF Latest
<1>6. ASSUME NEW m \in Slots PROVE SlotInOrder(m)'
    <2>1. SlotInOrder(m)
        BY <1>1 DEF InOrder
    <2>2. CASE m # n
        BY <1>3, <1>5, <2>1, <2>2 DEF SlotInOrder
    <2>3. CASE m = n
        <3>1. \A i \in 1..Len(wire'[n]) : AtMost(wire'[n][i], Latest)
            BY <1>2, <2>1, <2>3 DEF SlotInOrder
        <3>2. \A i, j \in 1..Len(wire'[n]) : i < j => Precedes(wire'[n][i], wire'[n][j])
            <4> SUFFICES ASSUME NEW i \in 1..Len(wire'[n]), NEW j \in 1..Len(wire'[n]), i < j
                         PROVE  Precedes(wire'[n][i], wire'[n][j])
                OBVIOUS
            <4>1. /\ i + 1 \in 1..Len(wire[n]) /\ j + 1 \in 1..Len(wire[n]) /\ i + 1 < j + 1
                  /\ wire'[n][i] = wire[n][i + 1] /\ wire'[n][j] = wire[n][j + 1]
                BY <1>2
            <4> QED BY <2>1, <2>3, <4>1 DEF SlotInOrder
        <3>3. consumer[n].pending # NoSnapshot =>
                 \A i \in 1..Len(wire'[n]) : Precedes(wire'[n][i], consumer[n].pending)
            BY <1>2, <2>1, <2>3 DEF SlotInOrder
        <3>4. link[n] # "dialed"
            BY <2>1, <2>3 DEF SlotInOrder
        <3> QED BY <1>5, <2>1, <2>3, <3>1, <3>2, <3>3, <3>4 DEF SlotInOrder, Idle
    <2> QED BY <2>2, <2>3
<1>7. SlotInOrder(n)
    BY <1>1 DEF InOrder
\* What it kept is still behind the rest of its socket.
<1>8. ASSUME NEW d \in Clients, shown'[d] = shown[d], last'[d] = last[d] PROVE ViewerIsBehind(d)'
    <2>1. ViewerIsBehind(d)
        BY <1>1 DEF InOrder
    <2>2. ASSUME NEW m \in Slots, socket'[d] = m PROVE BehindSlot(d, m)'
        <3>1. socket[d] = m /\ BehindSlot(d, m)
            BY <1>4, <2>1, <2>2, ChannelAssumption DEF ViewerIsBehind
        <3>2. CASE m # n
            BY <1>3, <1>8, <3>1, <3>2 DEF BehindSlot
        <3>3. CASE m = n
            <4>1. ASSUME shown[d] # NoSnapshot, NEW i \in 1..Len(wire'[n])
                  PROVE  /\ AtMost(shown[d], wire'[n][i])
                         /\ last[d] # NoSnapshot => Precedes(shown[d], wire'[n][i])
                BY <1>2, <3>1, <3>3, <4>1 DEF BehindSlot
            <4> QED BY <1>8, <3>1, <3>3, <4>1 DEF BehindSlot
        <3> QED BY <3>2, <3>3
    <2> QED BY <1>5, <1>8, <2>1, <2>2 DEF ViewerIsBehind
\* What it shows now precedes the rest of its socket.
<1>9. ASSUME shown'[c] = s, last'[c] = s PROVE ViewerIsBehind(c)'
    <2>1. AtMost(s, Latest)
        BY <1>2, <1>7 DEF SlotInOrder
    <2>2. ASSUME NEW m \in Slots, socket'[c] = m PROVE BehindSlot(c, m)'
        <3>1. m = n
            BY <1>4, <2>2, ChannelAssumption
        <3>2. \A i \in 1..Len(wire'[n]) : Precedes(s, wire'[n][i])
            <4> SUFFICES ASSUME NEW i \in 1..Len(wire'[n]) PROVE Precedes(s, wire'[n][i])
                OBVIOUS
            <4>1. wire'[n][i] = wire[n][i + 1] /\ i + 1 \in 1..Len(wire[n]) /\ 1 < i + 1
                BY <1>2
            <4> QED BY <1>2, <1>7, <4>1 DEF SlotInOrder
        <3>3. consumer[n].pending # NoSnapshot => Precedes(s, consumer[n].pending)
            BY <1>2, <1>7 DEF SlotInOrder
        <3>4. link[n] # "dialed"
            BY <1>7 DEF SlotInOrder
        <3> QED BY <1>9, <3>1, <3>2, <3>3, <3>4 DEF BehindSlot, AtMost
    <2> QED BY <1>5, <1>9, <2>1, <2>2 DEF ViewerIsBehind
<1>10. ASSUME NEW d \in Clients PROVE ViewerIsBehind(d)'
    BY <1>4, <1>8, <1>9
<1> QED BY <1>3, <1>4, <1>6, <1>10 DEF InOrder

LEMMA ReceivesHears ==
    ASSUME TypeOK, NEW c \in Clients, Receives(c)
    PROVE  /\ socket[c] \in Slots /\ wire[socket[c]] # <<>>
           /\ wire' = [wire EXCEPT ![socket[c]] = Tail(@)] /\ Hears(c, Head(wire[socket[c]]))
           /\ UNCHANGED <<publisher, consumer, subscribed, link, writing, alive, timer, hung, faults>>
           /\ open' \in [Slots -> BOOLEAN]
           /\ state' \in [Clients -> {"idle", "connecting", "awaiting-baseline", "live",
                                      "reconnecting", "closed"}]
<1>1. /\ socket[c] # None /\ wire[socket[c]] # <<>>
      /\ wire' = [wire EXCEPT ![socket[c]] = Tail(@)]
      /\ UNCHANGED <<publisher, consumer, subscribed, link, writing, alive, timer, hung, faults>>
    BY DEF Receives
<1>2. socket[c] \in Slots
    BY <1>1 DEF TypeOK
<1> DEFINE s == Head(wire[socket[c]])
<1>3. Verdict(last[c], s) \in {"accepted", "rejected", "ignored"}
    BY DEF Verdict
<1>4. CASE Verdict(last[c], s) = "accepted"
    <2>1. /\ last' = [last EXCEPT ![c] = s] /\ shown' = [shown EXCEPT ![c] = s]
          /\ state' = [state EXCEPT ![c] = "live"] /\ UNCHANGED <<socket, open>>
        BY <1>4 DEF Receives
    <2> QED BY <1>1, <1>2, <1>4, <2>1 DEF Hears, TypeOK
<1>5. CASE Verdict(last[c], s) = "rejected"
    <2>1. /\ socket' = [socket EXCEPT ![c] = None] /\ UNCHANGED <<last, shown>>
          /\ state' = [state EXCEPT ![c] = "reconnecting"]
          /\ open' = [open EXCEPT ![socket[c]] = FALSE]
        BY <1>5 DEF Receives, Retry
    <2> QED BY <1>1, <1>2, <2>1 DEF Hears, TypeOK
<1>6. CASE Verdict(last[c], s) = "ignored"
    <2>1. UNCHANGED <<client, open>>
        BY <1>6 DEF Receives
    <2> QED BY <1>1, <1>2, <2>1 DEF Hears, TypeOK, client
<1> QED BY <1>3, <1>4, <1>5, <1>6

LEMMA ReceivesStep ==
    ASSUME ChInv, NEW c \in Clients, Receives(c) PROVE ChInv'
<1>1. TypeOK /\ AttachedIsSupervised /\ BacklogIsLatest /\ SubscribersAreAttached
    BY DEF ChInv
<1>2. /\ socket[c] \in Slots /\ wire[socket[c]] # <<>>
      /\ wire' = [wire EXCEPT ![socket[c]] = Tail(@)] /\ Hears(c, Head(wire[socket[c]]))
      /\ UNCHANGED <<producer, seq, consumer, subscribed, link, writing, alive, timer, hung>>
      /\ open' \in [Slots -> BOOLEAN]
      /\ state' \in [Clients -> {"idle", "connecting", "awaiting-baseline", "live",
                                 "reconnecting", "closed"}]
    BY <1>1, ReceivesHears DEF publisher
<1>3. /\ wire' \in [Slots -> Seq(Snapshot)]
      /\ last' \in [Clients -> Snapshot \cup {NoSnapshot}]
      /\ shown' \in [Clients -> Snapshot \cup {NoSnapshot}]
      /\ socket' \in [Clients -> Slots \cup {None}]
      /\ InOrder'
    BY <1>2, HearsStep
<1>4. TypeOK'
    BY <1>1, <1>2, <1>3 DEF TypeOK
<1>5. AttachedIsSupervised' /\ SubscribersAreAttached' /\ BacklogIsLatest'
    BY <1>1, <1>2 DEF AttachedIsSupervised, Attached, SubscribersAreAttached, BacklogIsLatest,
                      Latest, Idle
<1> QED BY <1>3, <1>4, <1>5 DEF ChInv

LEMMA DialStep ==
    ASSUME ChInv, NEW c \in Clients, NEW n \in Slots, Dial(c, n) PROVE ChInv'
<1>1. /\ TypeOK /\ AttachedIsSupervised /\ BacklogIsLatest /\ SubscribersAreAttached /\ InOrder
      /\ consumer \in [Slots -> Consumer(Snapshot)] /\ subscribed \subseteq Slots
      /\ link \in [Slots -> Links] /\ socket \in [Clients -> Slots \cup {None}]
      /\ last \in [Clients -> Snapshot \cup {NoSnapshot}] /\ wire \in [Slots -> Seq(Snapshot)]
    BY DEF ChInv, TypeOK
<1>2. n \in Unused
    <2>1. Unused # {} /\ n = CHOOSE m \in Unused : TRUE
        BY DEF Dial
    <2> QED BY <2>1
<1>3. link[n] = "free" /\ \A d \in Clients : socket[d] # n
    BY <1>2 DEF Unused
<1>4. /\ socket' = [socket EXCEPT ![c] = n]
      /\ state' = [state EXCEPT ![c] = "connecting"]
      /\ last' = [last EXCEPT ![c] = NoSnapshot]
      /\ link' = [link EXCEPT ![n] = "dialed"]
      /\ open' = [open EXCEPT ![n] = TRUE] /\ hung' = [hung EXCEPT ![n] = FALSE]
      /\ wire' = [wire EXCEPT ![n] = <<>>]
      /\ consumer' = [consumer EXCEPT ![n] = NewConsumer]
      /\ UNCHANGED <<producer, seq, subscribed, writing, alive, timer, shown>>
    BY DEF Dial, publisher
<1>5. /\ NewConsumer \in Consumer(Snapshot) /\ Idle(NewConsumer)
      /\ NewConsumer.pending = NoSnapshot /\ <<>> \in Seq(Snapshot)
    BY NewConsumerType
<1>6. /\ consumer' \in [Slots -> Consumer(Snapshot)] /\ consumer'[n].pending = NoSnapshot
      /\ wire' \in [Slots -> Seq(Snapshot)] /\ wire'[n] = <<>>
      /\ link' \in [Slots -> Links] /\ link'[n] = "dialed"
      /\ \A m \in Slots \ {n} :
            consumer'[m] = consumer[m] /\ wire'[m] = wire[m] /\ link'[m] = link[m]
    BY <1>1, <1>4, <1>5 DEF Links
<1>7. /\ socket' \in [Clients -> Slots \cup {None}] /\ socket'[c] = n
      /\ last' \in [Clients -> Snapshot \cup {NoSnapshot}] /\ last'[c] = NoSnapshot
      /\ \A d \in Clients \ {c} : socket'[d] = socket[d] /\ last'[d] = last[d]
    BY <1>1, <1>4
<1>8. /\ state' \in [Clients -> {"idle", "connecting", "awaiting-baseline", "live",
                                 "reconnecting", "closed"}]
      /\ open' \in [Slots -> BOOLEAN] /\ hung' \in [Slots -> BOOLEAN]
    BY <1>1, <1>4 DEF TypeOK
<1>9. TypeOK'
    BY <1>1, <1>4, <1>6, <1>7, <1>8 DEF TypeOK
<1>10. AttachedIsSupervised'
    <2>1. Attached' = Attached
        BY <1>3, <1>6 DEF Attached
    <2> QED BY <1>1, <1>4, <2>1 DEF AttachedIsSupervised
<1>11. n \notin subscribed
    BY <1>1, <1>3 DEF SubscribersAreAttached
<1>12. Latest' = Latest
    BY <1>4 DEF Latest
<1>13. SubscribersAreAttached' /\ BacklogIsLatest'
    BY <1>1, <1>4, <1>6, <1>11, <1>12 DEF SubscribersAreAttached, BacklogIsLatest, Idle
<1>14. ASSUME NEW m \in Slots PROVE SlotInOrder(m)'
    <2>1. CASE m = n
        <3>1. 1..Len(wire'[n]) = {}
            BY <1>6
        <3> QED BY <1>6, <2>1, <3>1 DEF SlotInOrder
    <2>2. CASE m # n
        BY <1>1, <1>6, <1>12, <2>2 DEF InOrder, SlotInOrder, Idle
    <2> QED BY <2>1, <2>2
<1>15. ASSUME NEW d \in Clients PROVE ViewerIsBehind(d)'
    <2>1. ViewerIsBehind(d)
        BY <1>1 DEF InOrder
    <2>2. last'[d] \in {NoSnapshot, shown'[d]} /\ (shown'[d] # NoSnapshot => AtMost(shown'[d], Latest'))
        BY <1>4, <1>7, <1>12, <2>1 DEF ViewerIsBehind
    <2>3. ASSUME NEW m \in Slots, socket'[d] = m PROVE BehindSlot(d, m)'
        <3>1. CASE d = c
            <4>1. m = n /\ 1..Len(wire'[n]) = {}
                BY <1>6, <1>7, <2>3, <3>1
            <4> QED BY <1>6, <1>7, <3>1, <4>1 DEF BehindSlot
        <3>2. CASE d # c
            <4>1. socket[d] = m /\ m # n /\ BehindSlot(d, m)
                BY <1>3, <1>7, <2>1, <2>3, <3>2 DEF ViewerIsBehind
            <4> QED BY <1>4, <1>6, <1>7, <3>2, <4>1 DEF BehindSlot
        <3> QED BY <3>1, <3>2
    <2> QED BY <2>2, <2>3 DEF ViewerIsBehind
<1> QED BY <1>9, <1>10, <1>13, <1>14, <1>15 DEF ChInv, InOrder

LEMMA RestartStep ==
    ASSUME ChInv, Restart PROVE ChInv'
<1>1. TypeOK /\ InOrder
    BY DEF ChInv
<1>2. /\ producer < MaxProducers /\ producer' = producer + 1 /\ seq' = 0
      /\ consumer' = [n \in Slots |-> NewConsumer] /\ subscribed' = {}
      /\ link' = [n \in Slots |-> "free"] /\ open' = [n \in Slots |-> FALSE]
      /\ writing' = [n \in Slots |-> None]
      /\ alive' = [n \in Slots |-> FALSE] /\ timer' = FALSE
      /\ UNCHANGED <<wire, hung, client>>
    BY DEF Restart
<1>3. NewConsumer \in Consumer(Snapshot) /\ NewConsumer.pending = NoSnapshot
    BY NewConsumerType
<1>4. producer' \in 1..MaxProducers /\ seq' \in 0..MaxSeq
    BY <1>1, <1>2, ChannelBounds DEF TypeOK
<1>5. consumer' \in [Slots -> Consumer(Snapshot)] /\ link' \in [Slots -> Links]
    BY <1>2, <1>3 DEF Links
<1>6. TypeOK'
    BY <1>1, <1>2, <1>4, <1>5 DEF TypeOK, client
<1>7. AttachedIsSupervised' /\ SubscribersAreAttached' /\ BacklogIsLatest'
    <2>1. Attached' = {}
        BY <1>2 DEF Attached
    <2> QED BY <1>2, <2>1 DEF AttachedIsSupervised, SubscribersAreAttached, BacklogIsLatest
<1>8. Latest \in Stamps /\ Latest' \in Stamps /\ Precedes(Latest, Latest')
    BY <1>1, <1>2, LatestIsStamp DEF Latest, Stamps, Precedes
<1>9. ASSUME NEW n \in Slots PROVE SlotInOrder(n)'
    <2>1. SlotInOrder(n) /\ \A i \in 1..Len(wire[n]) : wire[n][i] \in Stamps
        BY <1>1, WireTyped DEF InOrder
    <2>2. \A i \in 1..Len(wire[n]) : AtMost(wire[n][i], Latest')
        BY <1>8, <2>1, PrecedesTransitive DEF SlotInOrder, AtMost
    <2>3. consumer'[n].pending = NoSnapshot /\ link'[n] = "free" /\ wire' = wire
        BY <1>2, <1>3
    <2> QED BY <2>1, <2>2, <2>3 DEF SlotInOrder
<1>10. ASSUME NEW c \in Clients PROVE ViewerIsBehind(c)'
    <2>1. ViewerIsBehind(c) /\ (shown[c] # NoSnapshot => shown[c] \in Stamps)
        BY <1>1, ViewerTyped DEF InOrder
    <2>2. UNCHANGED <<last, shown, socket, wire>>
        BY <1>2 DEF client
    <2>3. shown[c] # NoSnapshot => AtMost(shown[c], Latest')
        BY <1>8, <2>1, PrecedesTransitive DEF ViewerIsBehind, AtMost
    <2>4. ASSUME NEW n \in Slots, socket'[c] = n PROVE BehindSlot(c, n)'
        <3>1. BehindSlot(c, n) /\ consumer'[n].pending = NoSnapshot /\ link'[n] = "free"
            BY <1>2, <1>3, <2>1, <2>2, <2>4 DEF ViewerIsBehind
        <3> QED BY <2>2, <3>1 DEF BehindSlot
    <2> QED BY <2>1, <2>2, <2>3, <2>4 DEF ViewerIsBehind
<1> QED BY <1>6, <1>7, <1>9, <1>10 DEF ChInv, InOrder

-----------------------------------------------------------------------------
(* Theorems *)

LEMMA InitChInv == Init => ChInv
<1> SUFFICES ASSUME Init PROVE ChInv
    OBVIOUS
<1>1. /\ 1 \in 1..MaxProducers /\ 0 \in 0..MaxSeq
      /\ NewConsumer \in Consumer(Snapshot) /\ NewConsumer.pending = NoSnapshot
      /\ <<>> \in Seq(Snapshot) /\ 1..Len(<<>>) = {}
    BY ChannelBounds, NewConsumerType
<1>2. TypeOK
    BY <1>1 DEF Init, TypeOK, Links
<1>3. AttachedIsSupervised /\ BacklogIsLatest /\ SubscribersAreAttached
    BY DEF Init, AttachedIsSupervised, Attached, BacklogIsLatest, SubscribersAreAttached
<1>4. ASSUME NEW n \in Slots PROVE SlotInOrder(n)
    BY <1>1 DEF Init, SlotInOrder
<1>5. ASSUME NEW c \in Clients PROVE ViewerIsBehind(c)
    <2>1. last[c] = NoSnapshot /\ shown[c] = NoSnapshot
        BY DEF Init
    <2>2. socket[c] \notin Slots
        BY ChannelAssumption DEF Init
    <2> QED BY <2>1, <2>2 DEF ViewerIsBehind
<1> QED BY <1>2, <1>3, <1>4, <1>5 DEF ChInv, InOrder

LEMMA NextChInv == ChInv /\ [Next]_vars => ChInv'
<1> SUFFICES ASSUME ChInv, [Next]_vars PROVE ChInv'
    OBVIOUS
<1>1. CASE UNCHANGED vars
    <2>1. TypeOK' /\ AttachedIsSupervised'
        BY <1>1 DEF vars, publisher, transport, client, ChInv, TypeOK, AttachedIsSupervised,
                    Attached
    <2>2. Quiet
        BY <1>1 DEF vars, publisher, transport, client, Quiet
    <2> QED BY <2>1, <2>2, QuietStep DEF ChInv
<1>2. ASSUME NEW n \in Slots, ServerStep(n) PROVE ChInv'
    BY <1>2, AttachStep, WrittenStep, WriteFailsStep, CloseTimeoutStep, CleanupEndsStep,
       SocketClosedStep, SmallStep DEF ServerStep
<1>3. ASSUME NEW c \in Clients, ClientStep(c) PROVE ChInv'
    BY <1>3, DialStep, SmallStep, ReceivesStep, SeesCloseStep DEF ClientStep
<1>4. ASSUME NEW n \in Slots, Break(n) \/ Hang(n) \/ SlowConsumer(n) PROVE ChInv'
    BY <1>4, SmallStep, SlowConsumerStep
<1> QED BY <1>1, <1>2, <1>3, <1>4, PublishStep, HeartbeatStep, RestartStep, DisposeStep DEF Next

\* The inductive invariant of the channel, whatever is published, lost or closed.
THEOREM ChInvInductive == Spec => []ChInv
BY InitChInv, NextChInv, PTL DEF Spec

\* What the server keeps of its connections: a busy consumer owes exactly the newest snapshot,
\* and every connection is under the heartbeat.
THEOREM ChannelKeepsLatest == Spec => []ChannelInv
<1>1. ChInv => ChannelInv
    BY DEF ChInv, ChannelInv
<1> QED BY <1>1, ChInvInductive, PTL

\* However connections are lost or replaced and processes restart, no viewer returns to an
\* older snapshot or to an earlier process: the channel implements LatestValue.
THEOREM ViewersNeverGoBack == Spec => ViewersSeeLatestValue
<1> DEFINE pictures == [c \in Clients |-> AsPair(shown[c])]
<1>1. Init => Viewer!Init
    BY DEF Init, Viewer!Init, Viewer!Nothing, AsPair
<1>2. ChInv /\ [Next]_vars => [Viewer!Next]_(Viewer!vars)
    <2> SUFFICES ASSUME ChInv, [Next]_vars PROVE [Viewer!Next]_(Viewer!vars)
        OBVIOUS
    <2>1. CASE UNCHANGED <<producer, seq, shown>>
        <3>1. pictures' = pictures
            BY <2>1
        <3> QED BY <2>1, <3>1 DEF Viewer!vars
    <2>2. CASE Publish
        <3>1. producer' = producer /\ seq' = seq + 1 /\ shown' = shown
            BY <2>2 DEF Publish, client
        <3>2. pictures' = pictures
            BY <3>1
        <3> QED BY <3>1, <3>2 DEF Viewer!Next, Viewer!Publish
    <2>3. CASE Restart
        <3>1. producer' = producer + 1 /\ seq' = 0 /\ shown' = shown
            BY <2>3 DEF Restart, client
        <3>2. pictures' = pictures
            BY <3>1
        <3> QED BY <3>1, <3>2 DEF Viewer!Next, Viewer!Restart
    <2>4. ASSUME NEW c \in Clients, Receives(c) PROVE [Viewer!Next]_(Viewer!vars)
        <3> DEFINE n == socket[c]
                   s == Head(wire[n])
        <3>1. TypeOK /\ InOrder
            BY DEF ChInv
        <3>2. /\ n \in Slots /\ wire[n] # <<>> /\ Hears(c, s) /\ UNCHANGED <<producer, seq>>
            BY <2>4, <3>1, ReceivesHears DEF publisher
        <3>3. CASE shown' = shown
            BY <2>1, <3>2, <3>3
        <3>4. CASE shown' # shown
            <4>1. shown' = [shown EXCEPT ![c] = s]
                BY <3>2, <3>4 DEF Hears
            <4>2. /\ shown \in [Clients -> Snapshot \cup {NoSnapshot}] /\ wire[n] \in Seq(Snapshot)
                  /\ ViewerIsBehind(c) /\ SlotInOrder(n) /\ seq \in Nat /\ producer \in Nat
                BY <3>1, <3>2, ChannelBounds DEF TypeOK, InOrder
            <4>3. s = wire[n][1] /\ s \in Snapshot /\ 1 \in 1..Len(wire[n])
                BY <3>2, <4>2
            <4>4. BehindSlot(c, n) /\ AtMost(s, Latest)
                BY <3>2, <4>2, <4>3 DEF ViewerIsBehind, SlotInOrder
            <4>5. shown[c] # s
                BY <3>4, <4>1, <4>2
            <4>6. shown[c] # NoSnapshot => Precedes(shown[c], s) /\ shown[c] \in Snapshot
                BY <4>2, <4>3, <4>4, <4>5 DEF BehindSlot, AtMost
            <4>7. pictures' = [pictures EXCEPT ![c] = <<s.producer, s.seq>>]
                BY <4>1, <4>2, <4>3, SnapshotsAreStamps DEF AsPair
            <4>8. s.producer \in Nat \ {0} /\ s.seq \in Nat \ {0}
                BY <4>3, ChannelBounds DEF Snapshot
            <4>9. /\ pictures'[c] = <<s.producer, s.seq>>
                  /\ pictures[c] = IF shown[c] = NoSnapshot THEN <<0, 0>>
                                   ELSE <<shown[c].producer, shown[c].seq>>
                BY <4>7 DEF AsPair
            <4>10. s.producer <= producer /\ (s.producer = producer => s.seq \in 1..seq)
                BY <4>2, <4>4, <4>8 DEF AtMost, Precedes, Latest
            <4>11. Viewer!Newer(pictures'[c], pictures[c])
                <5>1. CASE shown[c] = NoSnapshot
                    BY <4>8, <4>9, <5>1 DEF Viewer!Newer
                <5>2. CASE shown[c] # NoSnapshot
                    <6>1. /\ shown[c].producer \in Nat /\ shown[c].seq \in Nat
                          /\ Precedes(shown[c], s)
                        BY <4>6, <5>2, ChannelBounds DEF Snapshot
                    <6> QED BY <4>8, <4>9, <5>2, <6>1 DEF Viewer!Newer, Precedes
                <5> QED BY <5>1, <5>2
            <4> HIDE DEF pictures, s, n
            <4>12. pictures' = [pictures EXCEPT ![c] = pictures'[c]]
                BY <4>7, <4>9
            <4>13. /\ pictures'[c][1] = producer => pictures'[c][2] \in 1..seq
                   /\ pictures'[c][1] <= producer
                BY <4>9, <4>10
            <4>14. Viewer!Show(c)
                BY <3>2, <4>11, <4>12, <4>13 DEF Viewer!Show, pictures
            <4> QED BY <4>14 DEF Viewer!Next
        <3> QED BY <3>3, <3>4
    <2>5. ASSUME NEW n \in Slots, ServerStep(n) PROVE UNCHANGED <<producer, seq, shown>>
        BY <2>5 DEF ServerStep, Attach, Written, WriteFails, CloseTimeout, CleanupEnds,
                    SocketClosed, Pong, publisher, client
    <2>6. ASSUME NEW n \in Slots, Break(n) \/ Hang(n) \/ SlowConsumer(n)
          PROVE  UNCHANGED <<producer, seq, shown>>
        BY <2>6 DEF Break, Hang, SlowConsumer, publisher, client
    <2>7. ASSUME NEW c \in Clients, ClientStep(c), ~Receives(c)
          PROVE  UNCHANGED <<producer, seq, shown>>
        BY <2>7 DEF ClientStep, Dial, Opens, ClientSeesClose, publisher
    <2>8. ASSUME HeartbeatTick \/ UNCHANGED vars \/ \E c \in Clients : Dispose(c)
          PROVE  UNCHANGED <<producer, seq, shown>>
        BY <2>8 DEF HeartbeatTick, Dispose, vars, publisher, client
    <2> QED BY <2>1, <2>2, <2>3, <2>4, <2>5, <2>6, <2>7, <2>8 DEF Next
<1> QED BY <1>1, <1>2, ChInvInductive, PTL DEF Spec, Viewer!Spec, ViewersSeeLatestValue

=============================================================================
