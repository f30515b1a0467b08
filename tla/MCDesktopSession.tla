-------------------------- MODULE MCDesktopSession --------------------------
(***************************************************************************)
(* DesktopSession for TLC: one launch, and nothing that fails.             *)
(***************************************************************************)
EXTENDS DesktopSession

=============================================================================
