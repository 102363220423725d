-------------------------- MODULE MCRequiredConsumer --------------------------
(* Instances of RequiredConsumer for TLC. *)
EXTENDS RequiredConsumer

TwoRequired == <<"c1", "c2">>
===============================================================================
