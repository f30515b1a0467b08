------------------------- MODULE MCSnapshotChannel -------------------------
(* SnapshotChannel for TLC.  The run checks liveness, so it uses no symmetry: *)
(* Dial takes one fixed unused slot instead.                                  *)
EXTENDS SnapshotChannel, TLC
=============================================================================
