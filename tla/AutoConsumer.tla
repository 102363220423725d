----------------------------- MODULE AutoConsumer -----------------------------
(***************************************************************************)
(* AutoConsumer: a consumer on a thread of its own, the handler it calls,  *)
(* and the owner that shuts it down, joins it or drops it, and may then    *)
(* build another one under the same consumer id, while the producer, in    *)
(* another process, goes on publishing.                                    *)
(*                                                                         *)
(* Events are counted, not named: sequences are numbers of events.  The    *)
(* load ends: the thread looks at the shutdown signal only when it has     *)
(* found nothing to process, so that under a load that never ends it never *)
(* does.                                                                   *)
(***************************************************************************)
EXTENDS Integers

CONSTANTS
    Size,        \* slots of the ring
    Load,        \* bound on the events ever published
    MayPanic     \* the handler may panic

ASSUME SizeAssumption == Size \in Nat \ {0}
ASSUME LoadAssumption == Load \in Nat /\ MayPanic \in BOOLEAN

VARIABLES
    producer_sequence,  \* events published
    consumer_sequence,  \* events acknowledged: its cursor, which outlives the thread
    tpc,                \* "poll", "process", "wait", "stopped" or "panicked"
    processed,          \* this process_available call has processed events
    upper,              \* the end of the snapshot batch
    done,               \* how far the handler has come in it
    shutdown_signal,
    opc,                \* the owner: "holds" the handle, is "joining", has "joined"
    \* History.
    handled             \* the first so many events have each been handled

threadVars == <<tpc, processed, upper, done>>
ownerVars == <<shutdown_signal, opc>>
vars == <<producer_sequence, consumer_sequence, threadVars, ownerVars, handled>>

Init ==
    /\ producer_sequence = 0 /\ consumer_sequence = 0
    /\ tpc = "poll" /\ processed = FALSE /\ upper = 0 /\ done = 0
    /\ shutdown_signal = FALSE /\ opc = "holds"
    /\ handled = 0

Backlog == producer_sequence - consumer_sequence

-----------------------------------------------------------------------------
(***************************************************************************)
(* The producer: one event at a time, gated by this consumer.              *)
(***************************************************************************)

Publish ==
    /\ Backlog < Size /\ producer_sequence < Load
    /\ producer_sequence' = producer_sequence + 1
    /\ UNCHANGED <<consumer_sequence, threadVars, ownerVars, handled>>

-----------------------------------------------------------------------------
(***************************************************************************)
(* The thread: process_available in a loop.                                *)
(***************************************************************************)

\* process_available takes one snapshot after the other while there are events.
SnapshotBatch_OneAhead ==
    /\ tpc = "poll" /\ Backlog > 0
    /\ tpc' = "process" /\ upper' = producer_sequence + 1 /\ done' = consumer_sequence
    /\ UNCHANGED <<producer_sequence, consumer_sequence, processed, ownerVars, handled>>

SnapshotBatch ==
    /\ tpc = "poll" /\ Backlog > 0
    /\ tpc' = "process" /\ upper' = producer_sequence /\ done' = consumer_sequence
    /\ UNCHANGED <<producer_sequence, consumer_sequence, processed, ownerVars, handled>>

HandleEvent ==
    /\ tpc = "process" /\ done < upper
    /\ done' = done + 1
    /\ handled' = IF done = handled THEN handled + 1 ELSE handled
    /\ UNCHANGED <<producer_sequence, consumer_sequence, tpc, processed, upper, ownerVars>>

\* Nothing catches the panic: the thread ends and the batch is not acknowledged.
HandlerPanics ==
    /\ MayPanic /\ tpc = "process" /\ done < upper
    /\ tpc' = "panicked"
    /\ UNCHANGED <<producer_sequence, consumer_sequence, processed, upper, done, ownerVars,
                   handled>>

\* publish_consumed_sequence.
Acknowledge ==
    /\ tpc = "process" /\ done = upper
    /\ consumer_sequence' = upper
    /\ tpc' = "poll" /\ processed' = TRUE
    /\ UNCHANGED <<producer_sequence, upper, done, ownerVars, handled>>

\* No more events: process_available returns.  Only a call that has processed
\* nothing leads, after the wait strategy's pause, to a look at the signal.
NothingMore_KeepsCount ==
    /\ tpc = "poll" /\ Backlog = 0
    /\ tpc' = IF processed THEN "poll" ELSE "wait"
    /\ UNCHANGED <<producer_sequence, consumer_sequence, processed, upper, done, ownerVars,
                   handled>>

NothingMore ==
    /\ tpc = "poll" /\ Backlog = 0
    /\ processed' = FALSE
    /\ tpc' = IF processed THEN "poll" ELSE "wait"
    /\ UNCHANGED <<producer_sequence, consumer_sequence, upper, done, ownerVars, handled>>

CheckShutdown_Unasked ==
    /\ tpc = "wait"
    /\ tpc' = "stopped"
    /\ UNCHANGED <<producer_sequence, consumer_sequence, processed, upper, done, ownerVars,
                   handled>>

CheckShutdown ==
    /\ tpc = "wait"
    /\ tpc' = IF shutdown_signal THEN "stopped" ELSE "poll"
    /\ UNCHANGED <<producer_sequence, consumer_sequence, processed, upper, done, ownerVars,
                   handled>>

-----------------------------------------------------------------------------
(***************************************************************************)
(* The owner.                                                              *)
(***************************************************************************)

Shutdown ==
    /\ opc = "holds"
    /\ shutdown_signal' = TRUE
    /\ UNCHANGED <<producer_sequence, consumer_sequence, threadVars, opc, handled>>

\* join(): the handle is taken, the thread is waited for, signalled or not.
Join ==
    /\ opc = "holds"
    /\ opc' = "joining"
    /\ UNCHANGED <<producer_sequence, consumer_sequence, threadVars, shutdown_signal, handled>>

\* shutdown_and_join(), or the handle is dropped.
Drop ==
    /\ opc = "holds"
    /\ shutdown_signal' = TRUE /\ opc' = "joining"
    /\ UNCHANGED <<producer_sequence, consumer_sequence, threadVars, handled>>

Ended == tpc \in {"stopped", "panicked"}

Joined ==
    /\ opc = "joining" /\ Ended
    /\ opc' = "joined"
    /\ UNCHANGED <<producer_sequence, consumer_sequence, threadVars, shutdown_signal, handled>>

Rebuild_Latest ==
    /\ opc = "joined"
    /\ consumer_sequence' = producer_sequence
    /\ tpc' = "poll" /\ processed' = FALSE /\ upper' = 0 /\ done' = 0
    /\ shutdown_signal' = FALSE /\ opc' = "holds"
    /\ UNCHANGED <<producer_sequence, handled>>

\* handle_events_batch again, with the same consumer id: a new thread that goes on
\* where the cursor is, and gets what a panic left unacknowledged once more.
Rebuild ==
    /\ opc = "joined"
    /\ tpc' = "poll" /\ processed' = FALSE /\ upper' = 0 /\ done' = 0
    /\ shutdown_signal' = FALSE /\ opc' = "holds"
    /\ UNCHANGED <<producer_sequence, consumer_sequence, handled>>

-----------------------------------------------------------------------------
ThreadStep == SnapshotBatch \/ HandleEvent \/ HandlerPanics \/ Acknowledge
                  \/ NothingMore \/ CheckShutdown

Next == Publish \/ ThreadStep \/ Shutdown \/ Join \/ Drop \/ Joined \/ Rebuild

Spec == Init /\ [][Next]_vars

\* The thread runs, its handler returns, and a join ends when the thread does.
FairSpec == Spec /\ WF_vars(ThreadStep) /\ WF_vars(Joined)

-----------------------------------------------------------------------------
(***************************************************************************)
(* What must hold.                                                         *)
(***************************************************************************)

TypeOK ==
    /\ producer_sequence \in 0..Load /\ consumer_sequence \in 0..Load
    /\ tpc \in {"poll", "process", "wait", "stopped", "panicked"}
    /\ processed \in BOOLEAN /\ upper \in 0..Load /\ done \in 0..Load
    /\ shutdown_signal \in BOOLEAN /\ opc \in {"holds", "joining", "joined"}
    /\ handled \in 0..Load

\* The batch under way lies between the cursor and what is published, although the
\* producer goes on, and begins with nothing left out (process_available).
BatchInBacklog ==
    /\ consumer_sequence <= handled /\ handled <= producer_sequence
    /\ Backlog <= Size
    /\ tpc \in {"process", "panicked"} =>
          /\ consumer_sequence <= done /\ done <= upper /\ upper <= producer_sequence
          /\ done <= handled

\* A thread that has ended, and so one that has been joined, was shut down or has
\* panicked.
EndedFor ==
    /\ tpc = "stopped" => shutdown_signal
    /\ opc = "joined" => tpc \in {"stopped", "panicked"}

\* The inductive invariant.
IInv == TypeOK /\ BatchInBacklog /\ EndedFor

\* The cursor never passes an event no handler has had, although threads end by a
\* shutdown or by a panic in the middle of a batch, while more is published, and
\* others go on in their place.
NothingSkipped == consumer_sequence <= handled

\* Dropping the handle, or joining after a shutdown, returns, whatever the handler
\* and the producer were doing, once the load has ended.
DropReturns == (opc = "joining" /\ shutdown_signal) ~> (opc = "joined")

\* Everything published is handled, unless the owner or the handler ends it.
EventsHandled == (Backlog > 0) ~> (Backlog = 0 \/ shutdown_signal \/ tpc = "panicked")

===============================================================================
