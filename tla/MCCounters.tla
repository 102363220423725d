------------------------------ MODULE MCCounters ------------------------------
(* Instances of Counters for TLC. *)
EXTENDS Counters
===============================================================================
