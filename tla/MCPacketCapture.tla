-------------------------- MODULE MCPacketCapture ---------------------------
(* Small instances of a packet capture for TLC. *)
EXTENDS PacketCapture
=============================================================================
