-------------------------- MODULE MCNodeDiagnostic --------------------------
(* Small instances of the NodeDiagnostic controller for TLC. *)
EXTENDS NodeDiagnostic
=============================================================================
