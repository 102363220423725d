----------------------------- MODULE DisruptorRing -----------------------------
(***************************************************************************)
(* The shared-memory ring of disruptor-mp: one SharedProducer, and a       *)
(* SharedConsumer per member of Consumers, in different processes, that    *)
(* share the slots of the ring, the producer's cursor and one persistent   *)
(* cursor per consumer.  Every consumer of this module is gated on: the    *)
(* barrier has attached its cursor (ConsumerDiscovery models how that      *)
(* comes about, and what happens before it does).                          *)
(*                                                                         *)
(* One step is one access to shared memory: loading one consumer cursor,   *)
(* writing one slot, storing a cursor, reading one slot.  The event        *)
(* written for sequence s is abstracted to s itself, so a slot tells which *)
(* event it holds.                                                         *)
(***************************************************************************)
EXTENDS Integers, FiniteSets

CONSTANTS
    Consumers,     \* the consumers the producer's barrier has discovered
    Size,          \* slots of the ring (the code wants a power of two)
    MaxBatch,      \* bound on the events of one publish call
    MaxSequence,   \* bound on the sequences ever published
    MaxCrashes     \* bound on the crashes of consumers

ASSUME ConsumersAssumption == Consumers # {}
ASSUME SizeAssumption == Size \in Nat \ {0}
ASSUME BoundsAssumption ==
    MaxBatch \in Nat \ {0} /\ MaxSequence \in Nat /\ MaxCrashes \in Nat

VARIABLES
    \* Shared memory.
    slots,               \* slot -> sequence its event was written for
    producer_sequence,   \* the producer's cursor: last event published
    consumer_sequence,   \* consumer -> its cursor: last event acknowledged
    \* The producer.
    sequence,                      \* next sequence to claim
    sequence_clear_of_consumers,   \* cached: last sequence known to be free
    ppc,       \* "idle", "scan" (loading consumer cursors) or "write"
    call,      \* the operation under way
    n,         \* its number of events; for "is_consumed", the sequence asked about
    unread,    \* consumers whose cursor this scan has not loaded yet
    rear,      \* minimum of the cursors this scan has loaded
    written,   \* slots of the claimed batch already written
    confirmed, \* highest sequence is_consumed has answered true for
    \* The consumers.
    cpc,                       \* where each consumer is
    last_processed_sequence,   \* consumer -> local copy of its cursor
    pos,         \* consumer -> sequence it reads next
    upper,       \* consumer -> end of the snapshot batch it processes
    event,       \* consumer -> event try_consume_next copied out of the ring
    delivered,   \* consumer -> last event handed to the application
    crashes      \* crashes so far

shared == <<slots, producer_sequence, consumer_sequence>>
producerVars == <<sequence, sequence_clear_of_consumers, ppc, call, n, unread,
                  rear, written, confirmed>>
consumerVars == <<cpc, last_processed_sequence, pos, upper, event, delivered,
                  crashes>>
vars == <<shared, producerVars, consumerVars>>

Sequences == -1..MaxSequence

\* `try` answers an error when slots are missing, `wait` spins, `timed` spins
\* until a deadline that may pass at any time, `is_consumed` only looks.
Calls == {"none", "try", "wait", "timed", "is_consumed"}

-----------------------------------------------------------------------------
\* Pure helpers.  A definition named X_Variant is X with one plausible mistake;
\* no specification uses it: it shows which property notices that mistake.

Index(s) == s % Size

FreeSlots_OneTooMany(producer, highest_read) == highest_read - (producer - Size) + 1
FreeSlots(producer, highest_read) == highest_read - (producer - Size)

LastReserved(k) == sequence - 1 + k

\* The running minimum of a scan over the discovered cursors.
MinLoaded_KeepsLatest(c) == consumer_sequence[c]
MinLoaded(c) ==
    IF unread # Consumers /\ rear < consumer_sequence[c]
    THEN rear ELSE consumer_sequence[c]

-----------------------------------------------------------------------------
Init ==
    /\ slots = [i \in 0..(Size - 1) |-> -1]
    /\ producer_sequence = -1
    /\ consumer_sequence = [c \in Consumers |-> -1]
    /\ sequence = 0
    /\ sequence_clear_of_consumers = Size - 1
    /\ ppc = "idle" /\ call = "none" /\ n = 1
    /\ unread = {} /\ rear = -1 /\ written = 0 /\ confirmed = -1
    /\ cpc = [c \in Consumers |-> "idle"]
    /\ last_processed_sequence = [c \in Consumers |-> -1]
    /\ pos = [c \in Consumers |-> 0]
    /\ upper = [c \in Consumers |-> -1]
    /\ event = [c \in Consumers |-> -1]
    /\ delivered = [c \in Consumers |-> -1]
    /\ crashes = 0

-----------------------------------------------------------------------------
(***************************************************************************)
(* The producer.  try_publish, try_batch_publish, publish,                 *)
(* publish_with_timeout and publish_batch_managed differ in what they do   *)
(* when slots are missing; they all go through next_sequences.             *)
(***************************************************************************)

\* The call returns; its local variables are gone.
ReturnToCaller ==
    /\ ppc' = "idle" /\ call' = "none" /\ n' = 1
    /\ unread' = {} /\ rear' = -1 /\ written' = 0

\* The cached window already covers the batch: no cursor is loaded.
ClaimFromWindow(how, k) ==
    /\ ppc = "idle"
    /\ LastReserved(k) <= MaxSequence
    /\ sequence_clear_of_consumers >= LastReserved(k)
    /\ ppc' = "write" /\ call' = how /\ n' = k
    /\ UNCHANGED <<shared, sequence, sequence_clear_of_consumers, unread, rear,
                   written, confirmed, consumerVars>>

\* It does not: next_sequences asks the barrier for the slowest consumer.
StartScan(how, k) ==
    /\ ppc = "idle"
    /\ LastReserved(k) <= MaxSequence
    /\ sequence_clear_of_consumers < LastReserved(k)
    /\ ppc' = "scan" /\ call' = how /\ n' = k
    /\ unread' = Consumers
    /\ UNCHANGED <<shared, sequence, sequence_clear_of_consumers, rear, written,
                   confirmed, consumerVars>>

\* is_consumed(s), alone or as one turn of wait_until_consumed_with_strategy,
\* for an event the caller has published.
StartIsConsumed(s) ==
    /\ ppc = "idle"
    /\ ppc' = "scan" /\ call' = "is_consumed" /\ n' = s
    /\ unread' = Consumers
    /\ UNCHANGED <<shared, sequence, sequence_clear_of_consumers, rear, written,
                   confirmed, consumerVars>>

\* discovered_min_sequence loads the cursors one by one while their owners
\* move on.  The order is the one in which the barrier discovered them; every
\* order is explored.
LoadCursor(c) ==
    /\ ppc = "scan" /\ c \in unread
    /\ rear' = MinLoaded(c)
    /\ unread' = unread \ {c}
    /\ UNCHANGED <<shared, sequence, sequence_clear_of_consumers, ppc, call, n,
                   written, confirmed, consumerVars>>

Scanned == ppc = "scan" /\ unread = {}
Free == FreeSlots(sequence - 1, rear)

ClaimAfterScan_WindowFromSequence ==
    /\ Scanned /\ call # "is_consumed"
    /\ Free >= n
    /\ sequence_clear_of_consumers' = sequence + Free
    /\ ppc' = "write" /\ rear' = -1
    /\ UNCHANGED <<shared, sequence, call, n, unread, written, confirmed,
                   consumerVars>>

ClaimAfterScan ==
    /\ Scanned /\ call # "is_consumed"
    /\ Free >= n
    /\ sequence_clear_of_consumers' = sequence - 1 + Free
    /\ ppc' = "write" /\ rear' = -1
    /\ UNCHANGED <<shared, sequence, call, n, unread, written, confirmed,
                   consumerVars>>

\* MissingFreeSlots: RingBufferFull for try_publish, Timeout past the deadline.
GiveUp ==
    /\ Scanned /\ call \in {"try", "timed"}
    /\ Free < n
    /\ ReturnToCaller
    /\ UNCHANGED <<shared, sequence, sequence_clear_of_consumers, confirmed,
                   consumerVars>>

Rescan_StaleMinimum ==
    /\ Scanned /\ call \in {"wait", "timed"}
    /\ Free < n
    /\ UNCHANGED vars

Rescan ==
    /\ Scanned /\ call \in {"wait", "timed"}
    /\ Free < n
    /\ unread' = Consumers
    /\ UNCHANGED <<shared, sequence, sequence_clear_of_consumers, ppc, call, n,
                   rear, written, confirmed, consumerVars>>

AnswerIsConsumed ==
    /\ Scanned /\ call = "is_consumed"
    /\ confirmed' = IF rear >= n /\ n > confirmed THEN n ELSE confirmed
    /\ ReturnToCaller
    /\ UNCHANGED <<shared, sequence, sequence_clear_of_consumers, consumerVars>>

\* apply_update and apply_batch_updates: the slots one by one ...
WriteSlot ==
    /\ ppc = "write" /\ written < n
    /\ slots' = [slots EXCEPT ![Index(sequence + written)] = sequence + written]
    /\ written' = written + 1
    /\ UNCHANGED <<producer_sequence, consumer_sequence, sequence,
                   sequence_clear_of_consumers, ppc, call, n, unread, rear,
                   confirmed, consumerVars>>

\* ... then a single store that makes the whole batch visible.
StoreProducerSequence_BeforeWrites ==
    /\ ppc = "write"
    /\ producer_sequence' = LastReserved(n)
    /\ sequence' = sequence + n
    /\ ReturnToCaller
    /\ UNCHANGED <<slots, consumer_sequence, sequence_clear_of_consumers, confirmed,
                   consumerVars>>

StoreProducerSequence ==
    /\ ppc = "write" /\ written = n
    /\ producer_sequence' = LastReserved(n)
    /\ sequence' = sequence + n
    /\ ReturnToCaller
    /\ UNCHANGED <<slots, consumer_sequence, sequence_clear_of_consumers, confirmed,
                   consumerVars>>

ProducerStep ==
    \/ \E c \in Consumers : LoadCursor(c)
    \/ ClaimAfterScan \/ GiveUp \/ Rescan \/ AnswerIsConsumed
    \/ WriteSlot \/ StoreProducerSequence

ProducerCall ==
    \/ \E how \in {"try", "wait"}, k \in 1..MaxBatch :
          ClaimFromWindow(how, k) \/ StartScan(how, k)
    \/ ClaimFromWindow("timed", 1) \/ StartScan("timed", 1)
    \/ \E s \in 0..producer_sequence : StartIsConsumed(s)

-----------------------------------------------------------------------------
(***************************************************************************)
(* A consumer.                                                             *)
(***************************************************************************)

\* available_batch_bounds: an Acquire load of the producer's cursor.
NextSequence(c) == last_processed_sequence[c] + 1
Available_Strict(c) == cpc[c] = "idle" /\ NextSequence(c) < producer_sequence
Available(c) == cpc[c] = "idle" /\ NextSequence(c) <= producer_sequence

\* process_available and process_available_blocking take everything published
\* so far; try_consume_next_leased takes one event as a batch of its own, whose
\* lease is dropped at PublishConsumedSequence.
SnapshotBatch_AckFirst(c) ==
    /\ Available(c)
    /\ cpc' = [cpc EXCEPT ![c] = "process"]
    /\ pos' = [pos EXCEPT ![c] = NextSequence(c)]
    /\ upper' = [upper EXCEPT ![c] = producer_sequence]
    /\ consumer_sequence' = [consumer_sequence EXCEPT ![c] = producer_sequence]
    /\ UNCHANGED <<slots, producer_sequence, producerVars, last_processed_sequence,
                   event, delivered, crashes>>

SnapshotBatch(c) ==
    /\ Available(c)
    /\ cpc' = [cpc EXCEPT ![c] = "process"]
    /\ pos' = [pos EXCEPT ![c] = NextSequence(c)]
    /\ \E last \in {NextSequence(c), producer_sequence} :
          upper' = [upper EXCEPT ![c] = last]
    /\ UNCHANGED <<shared, producerVars, last_processed_sequence, event, delivered,
                   crashes>>

\* The callback, or the holder of the lease, is given the event in place.
ProcessEvent(c) ==
    /\ cpc[c] = "process"
    /\ delivered' = [delivered EXCEPT ![c] = slots[Index(pos[c])]]
    /\ IF pos[c] < upper[c]
       THEN pos' = [pos EXCEPT ![c] = @ + 1] /\ UNCHANGED cpc
       ELSE cpc' = [cpc EXCEPT ![c] = "commit"] /\ UNCHANGED pos
    /\ UNCHANGED <<shared, producerVars, last_processed_sequence, upper, event,
                   crashes>>

\* publish_consumed_sequence: once per batch, after its last event.
PublishConsumedSequence_Latest(c) ==
    /\ cpc[c] = "commit"
    /\ consumer_sequence' = [consumer_sequence EXCEPT ![c] = producer_sequence]
    /\ last_processed_sequence' = [last_processed_sequence EXCEPT ![c] = producer_sequence]
    /\ cpc' = [cpc EXCEPT ![c] = "idle"]
    /\ UNCHANGED <<slots, producer_sequence, producerVars, pos, upper, event,
                   delivered, crashes>>

PublishConsumedSequence(c) ==
    /\ cpc[c] = "commit"
    /\ consumer_sequence' = [consumer_sequence EXCEPT ![c] = upper[c]]
    /\ last_processed_sequence' = [last_processed_sequence EXCEPT ![c] = upper[c]]
    /\ cpc' = [cpc EXCEPT ![c] = "idle"]
    /\ UNCHANGED <<slots, producer_sequence, producerVars, pos, upper, event,
                   delivered, crashes>>

\* try_consume_next and the calls built on it: copy the event out ...
StartCopy(c) ==
    /\ Available(c)
    /\ cpc' = [cpc EXCEPT ![c] = "copy"]
    /\ pos' = [pos EXCEPT ![c] = NextSequence(c)]
    /\ upper' = [upper EXCEPT ![c] = NextSequence(c)]
    /\ UNCHANGED <<shared, producerVars, last_processed_sequence, event, delivered,
                   crashes>>

CopyEvent(c) ==
    /\ cpc[c] = "copy"
    /\ event' = [event EXCEPT ![c] = slots[Index(pos[c])]]
    /\ cpc' = [cpc EXCEPT ![c] = "store"]
    /\ UNCHANGED <<shared, producerVars, last_processed_sequence, pos, upper,
                   delivered, crashes>>

\* ... acknowledge it ...
StoreCopied(c) ==
    /\ cpc[c] = "store"
    /\ consumer_sequence' = [consumer_sequence EXCEPT ![c] = pos[c]]
    /\ last_processed_sequence' = [last_processed_sequence EXCEPT ![c] = pos[c]]
    /\ cpc' = [cpc EXCEPT ![c] = "return"]
    /\ UNCHANGED <<slots, producer_sequence, producerVars, pos, upper, event,
                   delivered, crashes>>

\* ... and only then return it to the caller.
ReturnEvent(c) ==
    /\ cpc[c] = "return"
    /\ delivered' = [delivered EXCEPT ![c] = event[c]]
    /\ event' = [event EXCEPT ![c] = -1]
    /\ cpc' = [cpc EXCEPT ![c] = "idle"]
    /\ UNCHANGED <<shared, producerVars, last_processed_sequence, pos, upper, crashes>>

\* The process dies.  Its cursor stays in shared memory: set_owner(false).
Crash(c) ==
    /\ cpc[c] # "down" /\ crashes < MaxCrashes
    /\ crashes' = crashes + 1
    /\ cpc' = [cpc EXCEPT ![c] = "down"]
    /\ pos' = [pos EXCEPT ![c] = 0]
    /\ upper' = [upper EXCEPT ![c] = -1]
    /\ event' = [event EXCEPT ![c] = -1]
    /\ UNCHANGED <<shared, producerVars, last_processed_sequence, delivered>>

\* build_consumer with the same id: new_with_coordination resumes from the
\* cursor it finds.
Restart_FromProducerSequence(c) ==
    /\ cpc[c] = "down"
    /\ last_processed_sequence' = [last_processed_sequence EXCEPT ![c] = producer_sequence]
    /\ delivered' = [delivered EXCEPT ![c] = producer_sequence]
    /\ cpc' = [cpc EXCEPT ![c] = "idle"]
    /\ UNCHANGED <<shared, producerVars, pos, upper, event, crashes>>

Restart(c) ==
    /\ cpc[c] = "down"
    /\ last_processed_sequence' = [last_processed_sequence EXCEPT ![c] = consumer_sequence[c]]
    /\ delivered' = [delivered EXCEPT ![c] = consumer_sequence[c]]
    /\ cpc' = [cpc EXCEPT ![c] = "idle"]
    /\ UNCHANGED <<shared, producerVars, pos, upper, event, crashes>>

ConsumerStep(c) ==
    \/ SnapshotBatch(c) \/ ProcessEvent(c) \/ PublishConsumedSequence(c)
    \/ StartCopy(c) \/ CopyEvent(c) \/ StoreCopied(c) \/ ReturnEvent(c)

Next ==
    \/ ProducerCall
    \/ ProducerStep
    \/ \E c \in Consumers : ConsumerStep(c) \/ Crash(c) \/ Restart(c)

Spec == Init /\ [][Next]_vars

\* A call of the producer runs to its end, and a consumer that is up keeps
\* polling: both are loops on threads of their own.  That the producer is
\* called again, and that a dead consumer comes back, is up to the application.
FairSpec ==
    /\ Spec
    /\ WF_vars(ProducerStep)
    /\ \A c \in Consumers : WF_vars(ConsumerStep(c))

-----------------------------------------------------------------------------
(***************************************************************************)
(* What must hold.                                                         *)
(***************************************************************************)

TypeOK ==
    /\ slots \in [0..(Size - 1) -> Sequences]
    /\ producer_sequence \in Sequences
    /\ consumer_sequence \in [Consumers -> Sequences]
    /\ sequence \in 0..(MaxSequence + 1)
    /\ sequence_clear_of_consumers \in (Size - 1)..(MaxSequence + Size)
    /\ ppc \in {"idle", "scan", "write"}
    /\ call \in Calls
    /\ n \in Nat
    /\ call # "is_consumed" => n \in 1..MaxBatch
    /\ unread \subseteq Consumers
    /\ rear \in Sequences
    /\ written \in 0..MaxBatch
    /\ confirmed \in Sequences
    /\ cpc \in [Consumers -> {"idle", "process", "commit", "copy", "store",
                              "return", "down"}]
    /\ last_processed_sequence \in [Consumers -> Sequences]
    /\ pos \in [Consumers -> 0..MaxSequence]
    /\ upper \in [Consumers -> Sequences]
    /\ event \in [Consumers -> Sequences]
    /\ delivered \in [Consumers -> Sequences]
    /\ crashes \in 0..MaxCrashes

\* Strict fan-out: until a consumer acknowledges an event, the event is in its
\* slot, however the cached window, the unsynchronised scan of the cursors and
\* the wrap-around of the ring interleave with that consumer.  This is what lets
\* a crashed consumer, or a slow one, find everything it has not read.
UnreadEventsIntact ==
    \A c \in Consumers : \A s \in (consumer_sequence[c] + 1)..producer_sequence :
        slots[Index(s)] = s

\* The slots c reads in place, or holds a lease on.
Held(c) == IF cpc[c] \in {"process", "commit", "copy"} THEN pos[c]..upper[c] ELSE {}

\* The producer's &mut reference and a consumer's & reference never name one
\* slot: get() hands out raw pointers and leaves this to the protocol.
NoDataRace ==
    ppc = "write" =>
        \A c \in Consumers : \A s \in Held(c), w \in sequence..LastReserved(n) :
            Index(s) # Index(w)

\* A batch or a lease is acknowledged only after the application has had all of
\* its events; try_consume_next alone runs one event ahead of the application,
\* the one it still has to return.
AckAtMostOneAhead ==
    \A c \in Consumers :
        consumer_sequence[c] <=
            delivered[c] + (IF cpc[c] \in {"return", "down"} THEN 1 ELSE 0)

\* is_consumed answers from cursors loaded at different times; whatever it has
\* once confirmed every consumer has really acknowledged, for good.
ConfirmedIsConsumed == \A c \in Consumers : consumer_sequence[c] >= confirmed

\* An incarnation of a consumer is handed consecutive events; a restarted one
\* starts over right after its persistent cursor.
InOrderStep ==
    \A c \in Consumers :
        delivered'[c] # delivered[c] =>
            \/ delivered'[c] = delivered[c] + 1
            \/ cpc[c] = "down" /\ delivered'[c] = consumer_sequence[c]
DeliveredInOrder == [][InOrderStep]_vars

\* The ring implements the log every consumer reads in full.
Log == INSTANCE BroadcastLog
         WITH Capacity <- Size, published <- producer_sequence,
              acked <- consumer_sequence
ImplementsLog == Log!Spec

\* Every published event is acknowledged by every consumer that stays up.
PublishedIsConsumed ==
    \A c \in Consumers, s \in 0..MaxSequence :
        producer_sequence >= s ~> (consumer_sequence[c] >= s \/ cpc[c] = "down")

\* A call that found the ring full returns once the consumers catch up, as long
\* as the batch fits the ring at all and no gating consumer is dead.
BlockedCallReturns ==
    (ppc = "scan" /\ (call = "is_consumed" \/ n <= Size)) ~>
        (ppc # "scan" \/ \E c \in Consumers : cpc[c] = "down")

-----------------------------------------------------------------------------
(***************************************************************************)
(* Why it holds: the inductive invariant.                                  *)
(***************************************************************************)

\* A scan in progress has read nothing newer than the cursors are now.
ScanConservative ==
    ppc = "scan" =>
        /\ call # "none"
        /\ call # "is_consumed" => LastReserved(n) <= MaxSequence
        /\ \A c \in Consumers \ unread : rear <= consumer_sequence[c]

\* The cached window ends, at the latest, one ring after the slowest cursor.
WindowSound ==
    \A c \in Consumers : sequence_clear_of_consumers <= consumer_sequence[c] + Size

\* The claimed batch lies in the window; what it has written so far is there.
BatchInWindow ==
    IF ppc = "write"
    THEN /\ call \notin {"none", "is_consumed"}
         /\ written <= n
         /\ LastReserved(n) <= MaxSequence
         /\ LastReserved(n) <= sequence_clear_of_consumers
         /\ \A s \in sequence..((sequence + written) - 1) : slots[Index(s)] = s
    ELSE written = 0

\* Where a consumer stands between two stores of its cursor.
ConsumerConsistent(c) ==
    /\ last_processed_sequence[c] = consumer_sequence[c]
    /\ consumer_sequence[c] <= producer_sequence
    /\ cpc[c] \in {"process", "commit", "copy", "store"} =>
          consumer_sequence[c] < pos[c] /\ upper[c] <= producer_sequence
    /\ cpc[c] = "process" => pos[c] <= upper[c] /\ delivered[c] = pos[c] - 1
    /\ cpc[c] = "commit" => pos[c] = upper[c] /\ delivered[c] = upper[c]
    /\ cpc[c] \in {"copy", "store"} =>
          pos[c] = upper[c] /\ pos[c] = consumer_sequence[c] + 1
    /\ cpc[c] \in {"idle", "copy", "store"} => delivered[c] = consumer_sequence[c]
    /\ cpc[c] = "store" => event[c] = pos[c]
    /\ cpc[c] = "return" =>
          event[c] = consumer_sequence[c] /\ delivered[c] = consumer_sequence[c] - 1
    /\ cpc[c] = "down" => delivered[c] >= consumer_sequence[c] - 1

\* Together with the invariants above, this is preserved by every step.
IInv ==
    /\ TypeOK
    /\ producer_sequence = sequence - 1
    /\ ScanConservative
    /\ WindowSound
    /\ BatchInWindow
    /\ \A c \in Consumers : ConsumerConsistent(c)
    /\ UnreadEventsIntact
    /\ ConfirmedIsConsumed

================================================================================
