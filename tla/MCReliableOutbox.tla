-------------------------- MODULE MCReliableOutbox --------------------------
(* ReliableOutbox for TLC: events are interchangeable, and so are the places of real matches. *)
EXTENDS ReliableOutbox, TLC

OutboxSymmetry == Permutations(Events) \cup Permutations(Places \ Fixtures)
=============================================================================
