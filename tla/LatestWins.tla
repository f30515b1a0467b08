----------------------------- MODULE LatestWins -----------------------------
(***************************************************************************)
(* The latest-wins consumer of apps/companion/src/runtime/latest-wins.ts   *)
(* as a value and the operations on it: one delivery in flight, one        *)
(* pending snapshot that later ones replace, and a close that waits for    *)
(* the delivery in flight or for a timeout.                                *)
(***************************************************************************)
CONSTANT NoSnapshot     \* inFlight = FALSE, hasPendingLatest = FALSE

Lifecycle == {"accepting", "closing", "closed"}

NewConsumer == [life |-> "accepting", inFlight |-> NoSnapshot, pending |-> NoSnapshot]

Consumer(Snapshots) ==
    [life : Lifecycle, inFlight : Snapshots \cup {NoSnapshot},
     pending : Snapshots \cup {NoSnapshot}]

Idle(c) == c.inFlight = NoSnapshot

\* start: the delivery begins in the turn that calls it.
Begin(c, s) == [c EXCEPT !.inFlight = s]

\* offer: nothing once closing; while a delivery is in flight the snapshot
\* replaces the pending one.
Offer(c, s) ==
    IF c.life # "accepting" THEN c
    ELSE IF Idle(c) THEN Begin(c, s)
    ELSE [c EXCEPT !.pending = s]

\* finishClose, also reached twice: by the timeout and by the late delivery.
Closed(c) == [c EXCEPT !.life = "closed", !.pending = NoSnapshot]

\* close: the pending snapshot is dropped; it waits while one is in flight.
Close(c) ==
    IF c.life # "accepting" THEN c
    ELSE IF Idle(c) THEN Closed(c)
    ELSE [c EXCEPT !.life = "closing", !.pending = NoSnapshot]

\* The pending snapshot waits for the next offer, which replaces it.
CompleteWithoutPending(c) ==
    LET done == [c EXCEPT !.inFlight = NoSnapshot]
    IN  IF c.life # "accepting" THEN Closed(done) ELSE done

\* completeDelivery: the pending snapshot starts in the same turn.
Complete(c) ==
    LET done == [c EXCEPT !.inFlight = NoSnapshot]
    IN  IF c.life # "accepting" THEN Closed(done)
        ELSE IF c.pending # NoSnapshot
        THEN Begin([done EXCEPT !.pending = NoSnapshot], c.pending)
        ELSE done

\* The snapshot whose delivery an operation that maps c to d has begun.
Began(c, d) == IF d.inFlight # c.inFlight THEN d.inFlight ELSE NoSnapshot
=============================================================================
