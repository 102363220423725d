------------------------------ MODULE MCDstRunner ------------------------------
(* Instances of DstRunner for TLC. *)
EXTENDS DstRunner

\* A ring of two, and of three where the producer is killed over shared memory; the
\* corruption probe in every kind of run but the three largest.
MCRuns ==
    {run \in [backend : {"shm", "mmap"}, fault : FaultKinds, corrupt : {1, 3},
              ring_depth : {2, 3}] :
        /\ run.ring_depth = 3 <=> run.backend = "shm" /\ run.fault = "producer_kill"
        /\ run.corrupt = 1 =>
              run.fault # "producer_kill" /\ (run.fault = "consumer_kill" => run.backend = "mmap")}
================================================================================
