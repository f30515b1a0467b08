---------------------------- MODULE MCHudConfig ----------------------------
(***************************************************************************)
(* HudConfig for TLC, with a second page that changes a resource twice     *)
(* while a draft of it is open.                                            *)
(***************************************************************************)
EXTENDS HudConfig

=============================================================================
