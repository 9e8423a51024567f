--------------------------- MODULE MCNodeExporter ---------------------------
(* Small instances of the node exporter for TLC. *)
EXTENDS NodeExporter

CONSTANTS t1, t2, f1, r1, r2, m1
=============================================================================
