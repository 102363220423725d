--------------------------- MODULE MCFramedTransport ---------------------------
(* Instances of FramedTransport for TLC. *)
EXTENDS FramedTransport
================================================================================
