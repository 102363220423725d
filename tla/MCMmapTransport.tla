---------------------------- MODULE MCMmapTransport ----------------------------
(* Instances of MmapTransport for TLC. *)
EXTENDS MmapTransport
================================================================================
