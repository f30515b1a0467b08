--------------------------- MODULE SnapshotChannel ---------------------------
(***************************************************************************)
(* One snapshot channel from the companion to its browser viewers: the     *)
(* publisher (local-protocol/channel-publisher.ts) with one latest-wins    *)
(* consumer per subscriber, the WebSocket transport                        *)
(* (local-web/websocket-transport.ts) and the reconnecting client          *)
(* (apps/web/src/realtime/local-channel-client.ts) with the acceptance     *)
(* rules of packages/protocol/src/acceptance.ts.                           *)
(*                                                                         *)
(* A slot is one WebSocket connection with both its ends; a client that    *)
(* reconnects takes another slot, the old one may linger on the server.    *)
(***************************************************************************)
EXTENDS Naturals, Sequences, FiniteSets, LatestWins

CONSTANTS
    Clients,            \* viewers
    Slots,              \* WebSocket connections that may exist at once
    MaxConnections      \* MAX_LOCAL_WS_CONNECTIONS

CONSTANTS MaxSeq, MaxProducers, MaxFaults   \* bounds of the exploration

None == "none"

ASSUME MaxConnectionsAssumption == MaxConnections \in Nat \ {0}
ASSUME ChannelAssumption == None \notin Slots /\ NoSnapshot \notin [producer : Nat, seq : Nat]
ASSUME ChannelBounds ==
    {MaxSeq, MaxProducers} \subseteq Nat \ {0} /\ MaxFaults \in Nat

VARIABLES
    producer, seq,      \* the server process; channelSeq of its publisher
    consumer,           \* per slot: the subscription's consumer
    subscribed,         \* slots in the publisher's subscribers
    link,               \* per slot: where the server's connection object is
    open,               \* per slot: the socket still carries data
    writing,            \* per slot: what the delivery in flight waits for
    alive,              \* per slot: answered the last ping
    hung,               \* per slot: the peer stopped reading and answering
    wire,               \* per slot: snapshots on their way to the client
    timer,              \* the heartbeat interval exists
    socket,             \* per client: its current slot, or None
    state,              \* per client: the store's connection state
    last,               \* per client: the acceptance state of this socket
    shown,              \* per client: the snapshot in the store
    faults              \* faults so far

publisher == <<producer, seq>>
transport == <<consumer, subscribed, link, open, writing, alive, timer>>
client    == <<socket, state, last, shown>>
vars      == <<publisher, transport, wire, hung, client, faults>>

Snapshot == [producer : 1..MaxProducers, seq : 1..MaxSeq]
Latest   == [producer |-> producer, seq |-> seq]

\* "dialed": only the client has it; "attached": in `connections`; "cleaned":
\* cleanup waits for the subscription to close; "free": the server is done.
Links    == {"free", "dialed", "attached", "cleaned"}
Attached == {n \in Slots : link[n] = "attached"}

Init ==
    /\ producer = 1 /\ seq = 0
    /\ consumer = [n \in Slots |-> NewConsumer] /\ subscribed = {}
    /\ link = [n \in Slots |-> "free"] /\ open = [n \in Slots |-> FALSE]
    /\ writing = [n \in Slots |-> None]
    /\ alive = [n \in Slots |-> FALSE] /\ hung = [n \in Slots |-> FALSE]
    /\ wire = [n \in Slots |-> <<>>] /\ timer = FALSE
    /\ socket = [c \in Clients |-> None] /\ state = [c \in Clients |-> "idle"]
    /\ last = [c \in Clients |-> NoSnapshot] /\ shown = [c \in Clients |-> NoSnapshot]
    /\ faults = 0

-----------------------------------------------------------------------------
(* The publisher and its consumers *)

\* The consumers become d.  Each delivery that begins is handed to its socket
\* in the same turn: sendSnapshot writes it, or throws when the socket is gone.
Consumers(d) ==
    LET began(n) == Began(consumer[n], d[n])
    IN  /\ consumer' = d
        /\ wire' = [n \in Slots |-> IF began(n) # NoSnapshot /\ open[n]
                                    THEN Append(wire[n], began(n)) ELSE wire[n]]
        /\ writing' = [n \in Slots |->
                         IF Idle(d[n]) THEN None
                         ELSE IF began(n) = NoSnapshot THEN writing[n]
                         ELSE IF open[n] THEN "callback" ELSE "failed"]

\* publish: every subscriber is offered the snapshot.
Publish ==
    LET s == [producer |-> producer, seq |-> seq + 1]
    IN  /\ seq < MaxSeq
        /\ seq' = seq + 1
        /\ Consumers([n \in Slots |->
                        IF n \in subscribed THEN Offer(consumer[n], s) ELSE consumer[n]])
        /\ UNCHANGED <<producer, subscribed, link, open, alive, timer, hung, client, faults>>

\* subscribe: the newest snapshot, if there is one, is the baseline.
NewSubscription == IF seq = 0 THEN NewConsumer ELSE Offer(NewConsumer, Latest)

\* attach: over the limit the socket is closed; otherwise the connection is
\* registered, supervised and subscribed.
Attach(n) ==
    /\ link[n] = "dialed" /\ open[n]
    /\ IF Cardinality(Attached) >= MaxConnections
       THEN /\ open' = [open EXCEPT ![n] = FALSE]
            /\ link' = [link EXCEPT ![n] = "free"]
            /\ UNCHANGED <<consumer, subscribed, writing, alive, timer, wire>>
       ELSE /\ link' = [link EXCEPT ![n] = "attached"]
            /\ alive' = [alive EXCEPT ![n] = TRUE] /\ timer' = TRUE
            /\ subscribed' = subscribed \cup {n}
            /\ Consumers([consumer EXCEPT ![n] = NewSubscription])
            /\ UNCHANGED open
    /\ UNCHANGED <<publisher, hung, client, faults>>

\* The socket's write callback: the delivery completed.
Written(n) ==
    /\ writing[n] = "callback" /\ open[n] /\ ~hung[n]
    /\ Consumers([consumer EXCEPT ![n] = Complete(@)])
    /\ UNCHANGED <<publisher, subscribed, link, open, alive, timer, hung, client, faults>>

\* Cleanup of the connections in S: out of `connections` and `subscribers`,
\* the subscription closing.  After it the timer is looked at again.
CleanUp(S) ==
    /\ link' = [n \in Slots |-> IF n \in S THEN "cleaned" ELSE link[n]]
    /\ subscribed' = subscribed \ S
    /\ consumer' = [n \in Slots |-> IF n \in S THEN Close(consumer[n]) ELSE consumer[n]]

\* terminate and cleanup.
Terminate(S) == CleanUp(S) /\ open' = [n \in Slots |-> n \notin S /\ open[n]]

\* The send rejects: guardedSend closes the subscription, attach's handler
\* terminates the connection, then completeDelivery(false) runs.
WriteFails(n) ==
    /\ writing[n] = "failed" \/ (writing[n] = "callback" /\ ~open[n])
    /\ link' = [link EXCEPT ![n] = IF @ = "attached" THEN "cleaned" ELSE @]
    /\ open' = [open EXCEPT ![n] = FALSE]
    /\ subscribed' = subscribed \ {n}
    /\ consumer' = [consumer EXCEPT ![n] = Complete(Close(@))]
    /\ writing' = [writing EXCEPT ![n] = None]
    /\ UNCHANGED <<publisher, alive, timer, wire, hung, client, faults>>

\* The consumer's close timeout; a delivery still in flight completes later.
CloseTimeout(n) ==
    /\ consumer[n].life = "closing"
    /\ consumer' = [consumer EXCEPT ![n] = Closed(@)]
    /\ UNCHANGED <<publisher, subscribed, link, open, writing, alive, timer, wire,
                   hung, client, faults>>

\* The interval is dropped with the connection that cleans up.
SupervisedNoLonger == FALSE

\* The end of cleanup: the interval stays as long as there is a connection.
StillSupervised == timer /\ Attached # {}

\* cleanup resumes once the subscription is closed.
CleanupEnds(n) ==
    /\ link[n] = "cleaned" /\ consumer[n].life = "closed"
    /\ link' = [link EXCEPT ![n] = "free"]
    /\ timer' = StillSupervised
    /\ UNCHANGED <<publisher, consumer, subscribed, open, writing, alive, wire,
                   hung, client, faults>>

\* The server's close event.
SocketClosed(n) ==
    /\ n \in Attached /\ ~open[n]
    /\ CleanUp({n})
    /\ UNCHANGED <<publisher, open, writing, alive, timer, wire, hung, client, faults>>

-----------------------------------------------------------------------------
(* Heartbeat *)

\* One interval: connections that did not answer the last ping are terminated,
\* the others are pinged.  A peer that is not hung answers within an interval.
HeartbeatTick ==
    LET silent == {n \in Attached : ~alive[n]}
    IN  /\ timer
        /\ \A n \in silent : hung[n] \/ ~open[n]
        /\ Terminate(silent)
        /\ alive' = [n \in Slots |-> alive[n] /\ n \notin Attached]
        /\ timer' = (Attached # silent)
        /\ UNCHANGED <<publisher, writing, wire, hung, client, faults>>

Pong(n) ==
    /\ n \in Attached /\ ~alive[n] /\ open[n] /\ ~hung[n]
    /\ alive' = [alive EXCEPT ![n] = TRUE]
    /\ UNCHANGED <<publisher, consumer, subscribed, link, open, writing, timer, wire,
                   hung, client, faults>>

-----------------------------------------------------------------------------
(* The client *)

\* Slots no end holds any more.  They are interchangeable: Dial takes one.
Unused == {n \in Slots : link[n] = "free" /\ Idle(consumer[n])
                         /\ \A d \in Clients : socket[d] # n}

\* start, and the reconnect timer: a socket is created with a fresh acceptance.
Dial(c, n) ==
    /\ state[c] \in {"idle", "reconnecting"} /\ socket[c] = None
    /\ Unused # {} /\ n = CHOOSE m \in Unused : TRUE
    /\ socket' = [socket EXCEPT ![c] = n]
    /\ state' = [state EXCEPT ![c] = "connecting"]
    /\ last' = [last EXCEPT ![c] = NoSnapshot]
    /\ link' = [link EXCEPT ![n] = "dialed"]
    /\ open' = [open EXCEPT ![n] = TRUE] /\ hung' = [hung EXCEPT ![n] = FALSE]
    /\ wire' = [wire EXCEPT ![n] = <<>>]
    /\ consumer' = [consumer EXCEPT ![n] = NewConsumer]
    /\ UNCHANGED <<publisher, subscribed, writing, alive, timer, shown, faults>>

\* onopen
Opens(c) ==
    /\ state[c] = "connecting" /\ socket[c] # None
    /\ link[socket[c]] # "dialed" /\ open[socket[c]]
    /\ state' = [state EXCEPT ![c] = "awaiting-baseline"]
    /\ UNCHANGED <<publisher, transport, wire, hung, socket, last, shown, faults>>

\* acceptSnapshot, on the state one socket has accumulated.
Verdict(l, s) ==
    IF l = NoSnapshot THEN "accepted"
    ELSE IF l.producer # s.producer THEN "rejected"
    ELSE IF s.seq <= l.seq THEN "ignored"
    ELSE "accepted"

\* handleRetry and what follows it: the socket is forgotten, a timer is set.
Retry(c) ==
    /\ socket' = [socket EXCEPT ![c] = None]
    /\ state' = [state EXCEPT ![c] = "reconnecting"]

\* onmessage of the current socket; another socket's is dropped by isCurrent.
Receives(c) ==
    LET n == socket[c]
        s == Head(wire[n])
    IN  /\ state[c] \in {"awaiting-baseline", "live"} /\ n # None
        /\ wire[n] # <<>> /\ ~hung[n]
        /\ wire' = [wire EXCEPT ![n] = Tail(@)]
        /\ CASE Verdict(last[c], s) = "accepted" ->
                  /\ last' = [last EXCEPT ![c] = s] /\ shown' = [shown EXCEPT ![c] = s]
                  /\ state' = [state EXCEPT ![c] = "live"]
                  /\ UNCHANGED <<socket, open>>
             [] Verdict(last[c], s) = "rejected" ->
                  /\ Retry(c) /\ open' = [open EXCEPT ![n] = FALSE]
                  /\ UNCHANGED <<last, shown>>
             [] OTHER -> UNCHANGED <<client, open>>
        /\ UNCHANGED <<publisher, consumer, subscribed, link, writing, alive, timer,
                       hung, faults>>

\* onclose of the current socket.
ClientSeesClose(c) ==
    /\ socket[c] # None /\ ~open[socket[c]]
    /\ Retry(c)
    /\ link' = [link EXCEPT ![socket[c]] = IF @ = "dialed" THEN "free" ELSE @]
    /\ UNCHANGED <<publisher, consumer, subscribed, open, writing, alive, timer, wire,
                   hung, last, shown, faults>>

\* dispose: the page goes away.
Dispose(c) ==
    /\ state[c] # "closed" /\ faults < MaxFaults /\ faults' = faults + 1
    /\ state' = [state EXCEPT ![c] = "closed"]
    /\ socket' = [socket EXCEPT ![c] = None]
    /\ open' = [n \in Slots |-> open[n] /\ n # socket[c]]
    /\ link' = [n \in Slots |-> IF n = socket[c] /\ link[n] = "dialed" THEN "free"
                                ELSE link[n]]
    /\ UNCHANGED <<publisher, consumer, subscribed, writing, alive, timer, wire, hung,
                   last, shown>>

-----------------------------------------------------------------------------
(* Faults *)

Fault == faults < MaxFaults /\ faults' = faults + 1

\* The connection breaks.
Break(n) ==
    /\ Fault /\ open[n]
    /\ open' = [open EXCEPT ![n] = FALSE]
    /\ UNCHANGED <<publisher, consumer, subscribed, link, writing, alive, timer, wire,
                   hung, client>>

\* The page freezes: it neither reads nor answers pings on this socket.
Hang(n) ==
    /\ Fault /\ n \in Attached /\ open[n] /\ ~hung[n]
    /\ hung' = [hung EXCEPT ![n] = TRUE]
    /\ UNCHANGED <<publisher, transport, wire, client>>

\* sendSnapshot finds the socket's buffer over MAX_LOCAL_WS_BUFFER_BYTES.
SlowConsumer(n) ==
    /\ Fault /\ n \in Attached /\ writing[n] = "callback"
    /\ Terminate({n})
    /\ writing' = [writing EXCEPT ![n] = "failed"]
    /\ UNCHANGED <<publisher, alive, timer, wire, hung, client>>

\* The new process takes the identity of the one before it.
RestartSameProducer ==
    /\ Fault
    /\ producer' = producer /\ seq' = 0
    /\ consumer' = [n \in Slots |-> NewConsumer] /\ subscribed' = {}
    /\ link' = [n \in Slots |-> "free"] /\ open' = [n \in Slots |-> FALSE]
    /\ writing' = [n \in Slots |-> None]
    /\ alive' = [n \in Slots |-> FALSE] /\ timer' = FALSE
    /\ UNCHANGED <<wire, hung, client>>

\* The companion dies and a new one listens: a new producer, its own channelSeq.
Restart ==
    /\ Fault /\ producer < MaxProducers
    /\ producer' = producer + 1 /\ seq' = 0
    /\ consumer' = [n \in Slots |-> NewConsumer] /\ subscribed' = {}
    /\ link' = [n \in Slots |-> "free"] /\ open' = [n \in Slots |-> FALSE]
    /\ writing' = [n \in Slots |-> None]
    /\ alive' = [n \in Slots |-> FALSE] /\ timer' = FALSE
    /\ UNCHANGED <<wire, hung, client>>

-----------------------------------------------------------------------------

ServerStep(n) ==
    \/ Attach(n) \/ Written(n) \/ WriteFails(n) \/ CloseTimeout(n) \/ CleanupEnds(n)
    \/ SocketClosed(n) \/ Pong(n)
ClientStep(c) ==
    \/ \E n \in Slots : Dial(c, n)
    \/ Opens(c) \/ Receives(c) \/ ClientSeesClose(c)

Next ==
    \/ Publish \/ HeartbeatTick \/ Restart
    \/ \E n \in Slots : ServerStep(n) \/ Break(n) \/ Hang(n) \/ SlowConsumer(n)
    \/ \E c \in Clients : ClientStep(c) \/ Dispose(c)

Spec == Init /\ [][Next]_vars

\* Ready callbacks run, the interval fires, reconnect timers fire.  A hung
\* page, a publication, a fault or a restart is never required.
FairSpec ==
    /\ Spec /\ WF_vars(HeartbeatTick)
    /\ \A n \in Slots :
          /\ WF_vars(Attach(n)) /\ WF_vars(SocketClosed(n)) /\ WF_vars(Pong(n))
          /\ WF_vars(Written(n) \/ WriteFails(n))
          /\ WF_vars(CloseTimeout(n) \/ CleanupEnds(n))
    /\ \A c \in Clients : WF_vars(ClientStep(c))

-----------------------------------------------------------------------------
(* Properties *)

\* The shape of the server's and the viewers' state: a viewer's acceptance and its
\* store hold snapshots that were published, and no other.
TypeOK ==
    /\ producer \in 1..MaxProducers /\ seq \in 0..MaxSeq
    /\ consumer \in [Slots -> Consumer(Snapshot)] /\ subscribed \subseteq Slots
    /\ link \in [Slots -> Links] /\ open \in [Slots -> BOOLEAN]
    /\ writing \in [Slots -> {None, "callback", "failed"}]
    /\ alive \in [Slots -> BOOLEAN] /\ hung \in [Slots -> BOOLEAN]
    /\ wire \in [Slots -> Seq(Snapshot)] /\ timer \in BOOLEAN
    /\ socket \in [Clients -> Slots \cup {None}]
    /\ state \in [Clients -> {"idle", "connecting", "awaiting-baseline", "live",
                              "reconnecting", "closed"}]
    /\ last \in [Clients -> Snapshot \cup {NoSnapshot}]
    /\ shown \in [Clients -> Snapshot \cup {NoSnapshot}]

\* A busy consumer owes its viewer exactly the newest snapshot: nothing older
\* is queued and the newest is never dropped, however publications, write
\* callbacks and baselines interleave.
BacklogIsLatest ==
    \A n \in subscribed :
        ~Idle(consumer[n]) =>
            Latest = IF consumer[n].pending = NoSnapshot THEN consumer[n].inFlight
                     ELSE consumer[n].pending

\* Every connection the server holds is under the heartbeat, although the
\* interval is dropped by whichever of cleanup and tick sees no connection.
AttachedIsSupervised == Attached # {} => timer

\* What the server keeps of its connections at all times (latest-wins.ts offer,
\* completeDelivery; websocket-transport.ts attach, cleanup).
ChannelInv == TypeOK /\ AttachedIsSupervised /\ BacklogIsLatest

\* The viewers' stores, seen from outside.
AsPair(s) == IF s = NoSnapshot THEN <<0, 0>> ELSE <<s.producer, s.seq>>
Viewer == INSTANCE LatestValue WITH shown <- [c \in Clients |-> AsPair(shown[c])]

\* The channel implements LatestValue: however connections are lost, hang or are
\* replaced and processes restart, a viewer never returns to an older snapshot.
ViewersSeeLatestValue == Viewer!Spec

\* After the last publication and the last fault every viewer that stays open
\* ends up showing the newest snapshot, whatever was lost on the way.
EveryViewerConverges ==
    \A c \in Clients : <>[](seq = 0 \/ state[c] = "closed" \/ shown[c] = Latest)
=============================================================================
