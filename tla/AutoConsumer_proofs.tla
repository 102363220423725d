-------------------------- MODULE AutoConsumer_proofs --------------------------
(***************************************************************************)
(* Proofs about AutoConsumer, for every ring size and load.                *)
(***************************************************************************)
EXTENDS AutoConsumer, TLAPS

LEMMA InitEstablishes == Init => IInv
<1> SUFFICES ASSUME Init PROVE IInv
  OBVIOUS
<1>1. /\ producer_sequence \in 0..Load /\ consumer_sequence \in 0..Load
      /\ upper \in 0..Load /\ done \in 0..Load /\ handled \in 0..Load
  BY LoadAssumption DEF Init
<1>2. processed \in BOOLEAN /\ shutdown_signal \in BOOLEAN
  BY DEF Init
<1>3. BatchInBacklog /\ EndedFor
  BY SizeAssumption DEF Init, BatchInBacklog, EndedFor, Backlog
<1>4. QED
  BY <1>1, <1>2, <1>3 DEF Init, IInv, TypeOK

LEMMA StepPreserves == IInv /\ [Next]_vars => IInv'
<1> SUFFICES ASSUME IInv, [Next]_vars PROVE IInv'
  OBVIOUS
<1> USE SizeAssumption, LoadAssumption
      DEF IInv, TypeOK, BatchInBacklog, EndedFor, Backlog, threadVars, ownerVars
<1>1. CASE Publish
  BY <1>1 DEF Publish
<1>2. CASE SnapshotBatch
  BY <1>2 DEF SnapshotBatch
<1>3. CASE HandleEvent
  BY <1>3 DEF HandleEvent
<1>4. CASE HandlerPanics
  BY <1>4 DEF HandlerPanics
<1>5. CASE Acknowledge
  BY <1>5 DEF Acknowledge
<1>6. CASE NothingMore
  BY <1>6 DEF NothingMore
<1>7. CASE CheckShutdown
  BY <1>7 DEF CheckShutdown
<1>8. CASE Shutdown
  BY <1>8 DEF Shutdown
<1>9. CASE Join
  BY <1>9 DEF Join
<1>10. CASE Drop
  BY <1>10 DEF Drop
<1>11. CASE Joined
  BY <1>11 DEF Joined, Ended
<1>12. CASE Rebuild
  <2>1. /\ tpc' = "poll" /\ processed' = FALSE /\ upper' = 0 /\ done' = 0
        /\ shutdown_signal' = FALSE /\ opc' = "holds"
        /\ producer_sequence' = producer_sequence
        /\ consumer_sequence' = consumer_sequence /\ handled' = handled
    BY <1>12 DEF Rebuild
  <2>2. TypeOK'
    <3>1. upper' \in 0..Load /\ done' \in 0..Load
      BY <2>1
    <3>2. processed' \in BOOLEAN /\ shutdown_signal' \in BOOLEAN
      BY <2>1
    <3>3. /\ producer_sequence' \in 0..Load /\ consumer_sequence' \in 0..Load
          /\ handled' \in 0..Load
      BY <2>1
    <3>4. QED
      BY <2>1, <3>1, <3>2, <3>3
  <2>3. BatchInBacklog' /\ EndedFor'
    BY <2>1
  <2>4. QED
    BY <2>2, <2>3
<1>13. CASE UNCHANGED vars
  BY <1>13 DEF vars
<1>14. QED
  BY <1>1, <1>2, <1>3, <1>4, <1>5, <1>6, <1>7, <1>8, <1>9, <1>10, <1>11, <1>12, <1>13
  DEF Next, ThreadStep

\* The batch under way lies between the cursor and what is published, and follows
\* what was handled (process_available), in every state.
THEOREM InvariantHolds == Spec => []IInv
BY InitEstablishes, StepPreserves, PTL DEF Spec

\* The cursor never passes an event no handler has had: a panic, a shutdown and the
\* thread built in place of one that ended skip nothing (process_snapshot_batch,
\* handle_events_batch).
THEOREM NothingIsSkipped == Spec => []NothingSkipped
<1>1. IInv => NothingSkipped
  BY DEF IInv, BatchInBacklog, NothingSkipped
<1>2. QED
  BY <1>1, InvariantHolds, PTL
================================================================================
