---------------------------- MODULE EventDelivery ----------------------------
(***************************************************************************)
(* What the reliable lane promises of each event, whatever the outbox does *)
(* inside and however often its process dies (protocol.md, the section on  *)
(* reliable events).  An event is recorded before anybody else may see it; *)
(* a recorded event stays pending until it is settled; it is settled as    *)
(* accepted only when the receiver has processed it; a settled event is    *)
(* never pending again.                                                    *)
(***************************************************************************)
CONSTANT Events

VARIABLES
    status,     \* durable status of every event
    received    \* events the receiver has processed, at least once

vars == <<status, received>>

Final  == {"accepted", "rejected", "expired", "superseded"}
Status == {"absent", "pending"} \cup Final

\* Every event has one status, and only events of the service are received.
TypeOK == status \in [Events -> Status] /\ received \subseteq Events

Init == status = [k \in Events |-> "absent"] /\ received = {}

\* A durable write may record events and settle others, nothing else.
MayBecome(k, s) ==
    \/ s = status[k]
    \/ status[k] = "absent"  /\ s = "pending"
    \/ status[k] = "pending" /\ s \in Final /\ (s = "accepted" => k \in received)

DurableWrite ==
    /\ status' \in [Events -> Status]
    /\ \A k \in Events : MayBecome(k, status'[k])
    /\ UNCHANGED received

\* The receiver processes an event that was recorded at some time before.
Receive(k) == received' = received \cup {k} /\ UNCHANGED status

Next == DurableWrite \/ \E k \in Events : status[k] # "absent" /\ Receive(k)

Spec == Init /\ [][Next]_vars
=============================================================================
