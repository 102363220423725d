--------------------------- MODULE MCDisruptorRing ---------------------------
(* Instances of DisruptorRing for TLC. *)
EXTENDS DisruptorRing
===============================================================================
