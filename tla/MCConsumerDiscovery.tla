-------------------------- MODULE MCConsumerDiscovery --------------------------
(* Instances of ConsumerDiscovery for TLC: the sets of races they allow. *)
EXTENDS ConsumerDiscovery

ScanInterval == {"interval"}
Initialisation == {"init"}
DeadlineAndInterval == {"timeout", "interval"}
================================================================================
