---------------------------- MODULE MCAutoConsumer ----------------------------
(* Instances of AutoConsumer for TLC. *)
EXTENDS AutoConsumer
===============================================================================
