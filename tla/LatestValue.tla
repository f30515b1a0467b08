---------------------------- MODULE LatestValue ----------------------------
(***************************************************************************)
(* What a snapshot channel promises its viewers (decision 0003, delivery   *)
(* of state): a viewer shows nothing, or a snapshot that was published; it *)
(* may skip snapshots but never returns to an older one, and never to an   *)
(* earlier producer process.                                               *)
(***************************************************************************)
EXTENDS Naturals

CONSTANT Clients

VARIABLES
    producer, seq,  \* the running process and how many it has published
    shown           \* each viewer's snapshot, as <<producer, seq>>

vars == <<producer, seq, shown>>

Nothing == <<0, 0>>

Init == producer = 1 /\ seq = 0 /\ shown = [c \in Clients |-> Nothing]

Publish == seq' = seq + 1 /\ UNCHANGED <<producer, shown>>

Restart == producer' = producer + 1 /\ seq' = 0 /\ UNCHANGED shown

Newer(a, b) == a[1] > b[1] \/ (a[1] = b[1] /\ a[2] > b[2])

\* A viewer catches up, all the way or part of it.  A snapshot of the process
\* before the last restart may still arrive.
Show(c) ==
    /\ Newer(shown'[c], shown[c])
    /\ shown'[c][1] = producer => shown'[c][2] \in 1..seq
    /\ shown'[c][1] <= producer
    /\ shown' = [shown EXCEPT ![c] = shown'[c]]
    /\ UNCHANGED <<producer, seq>>

Next == Publish \/ Restart \/ \E c \in Clients : Show(c)

Spec == Init /\ [][Next]_vars
=============================================================================
