----------------------------- MODULE MmapTransport -----------------------------
(***************************************************************************)
(* The mmap backend of disruptor-mp: the ring, the producer's cursor, the  *)
(* readiness count and one cursor per consumer are files, and a producer   *)
(* finds its consumers by listing a directory.                             *)
(*                                                                         *)
(* What differs from the shared-memory ring (DisruptorRing) is modelled:   *)
(* files come into being in steps that others can see, consumers join at   *)
(* any time and crash anywhere, also while they create their cursor, the   *)
(* producer lists the directory again whenever its window is used up, and  *)
(* a listing that fails leaves it ungated.  The content of a slot is the   *)
(* sequence of the event written to it.                                    *)
(***************************************************************************)
EXTENDS Integers, FiniteSets

CONSTANTS
    Consumers,     \* consumer ids
    Size,          \* buffer_size
    MinConsumers,  \* consumers the producer waits for before it publishes
    MaxBatch,      \* bound on the events of one try_batch_publish
    MaxSequence,   \* bound on the sequences published
    MaxFaults      \* bound on the crashes of consumers and the directory
                   \* listings that fail, together

ASSUME ConsumersAssumption == IsFiniteSet(Consumers)
ASSUME SizeAssumption == Size \in Nat \ {0}
ASSUME BoundsAssumption ==
    /\ MinConsumers \in Nat \ {0} /\ MaxBatch \in 1..Size
    /\ MaxSequence \in Nat /\ MaxFaults \in Nat

Index(s) == s % Size

VARIABLES
    files,         \* files of the producer that exist with a valid layout
    slots,         \* slot -> sequence of the event in it, -1 for the factory's
    published,     \* the producer's cursor; 0 until its initial value is stored
    readiness,     \* the readiness cursor
    ppc,           \* producer: "ready", "ring", "layout", "value" while it creates
                   \* its files, "await", "idle", "write" or "gave_up"
    sequence,      \* MmapProducer.sequence
    window,        \* MmapProducer.sequence_clear_of_consumers
    known,         \* MmapConsumerBarrier.consumer_cursors
    batch,         \* events of the publication under way
    written,       \* of them, those written
    file,          \* consumer -> its cursor file: "absent", "empty", "layout", "valid"
    cursor,        \* consumer -> the value in that file
    cpc,           \* consumer: "down", "look", "create", "init", "load", "signal",
                   \* "idle" or "busy"
    is_owner,      \* consumer -> its process created the cursor file
    last,          \* MmapConsumer.last_processed_sequence
    upper,         \* last event of the batch, lease or event under way
    pos,           \* last event of it given to the processor
    crashes, fs_errors,
    counted,       \* history: consumers that had signalled when the wait ended
    signalled,     \* history: consumers that have signalled readiness
    early,         \* history: consumers that attached to an unset producer cursor
    seen,          \* history: consumer -> events its processor was given intact
    confirmed      \* history: highest sequence is_consumed has confirmed

startVars == <<files, readiness, counted>>
producerVars == <<ppc, sequence, window, known, batch, written, confirmed>>
consumerVars == <<file, cursor, cpc, is_owner, last, upper, pos, signalled, early, seen>>
faultVars == <<crashes, fs_errors>>
vars == <<slots, published, startVars, producerVars, consumerVars, faultVars>>

Init ==
    /\ files = {} /\ slots = [i \in 0..(Size - 1) |-> -1]
    /\ published = 0 /\ readiness = 0
    /\ ppc = "ready" /\ sequence = 0 /\ window = Size - 1 /\ known = {}
    /\ batch = 0 /\ written = 0
    /\ file = [c \in Consumers |-> "absent"] /\ cursor = [c \in Consumers |-> 0]
    /\ cpc = [c \in Consumers |-> "down"] /\ is_owner = [c \in Consumers |-> FALSE]
    /\ last = [c \in Consumers |-> -1] /\ upper = [c \in Consumers |-> -1]
    /\ pos = [c \in Consumers |-> -1]
    /\ crashes = 0 /\ fs_errors = 0
    /\ counted = {} /\ signalled = {} /\ early = {}
    /\ seen = [c \in Consumers |-> {}] /\ confirmed = -1

-----------------------------------------------------------------------------
(***************************************************************************)
(* The producer starts: MmapProducer::create makes its files in turn.  A   *)
(* cursor can be attached to as soon as its layout is written, before its  *)
(* initial value is stored.                                                *)
(***************************************************************************)

CreateStep(from, to, made) ==
    /\ ppc = from /\ ppc' = to /\ files' = files \cup made
    /\ UNCHANGED <<slots, readiness, counted, sequence, window, known, batch, written,
                   confirmed, consumerVars, faultVars>>

CreateReadiness == CreateStep("ready", "ring", {"readiness"}) /\ UNCHANGED published
CreateRing == CreateStep("ring", "layout", {"ring"}) /\ UNCHANGED published
LayOutProducerCursor ==
    CreateStep("layout", "value", {"producer_cursor"}) /\ UNCHANGED published
StoreInitialSequence == CreateStep("value", "await", {}) /\ published' = -1

\* wait_for_consumers_ready.
EnoughReady ==
    /\ ppc = "await" /\ readiness >= MinConsumers
    /\ ppc' = "idle" /\ counted' = signalled
    /\ UNCHANGED <<files, slots, published, readiness, sequence, window, known, batch,
                   written, confirmed, consumerVars, faultVars>>

WaitTimesOut ==
    /\ ppc = "await" /\ readiness < MinConsumers
    /\ ppc' = "gave_up"
    /\ UNCHANGED <<slots, published, startVars, sequence, window, known, batch, written,
                   confirmed, consumerVars, faultVars>>

-----------------------------------------------------------------------------
(***************************************************************************)
(* Discovery and gating.                                                   *)
(***************************************************************************)

\* discover_consumers attaches to every cursor file with a valid layout.
Discovered == known \cup {c \in Consumers : file[c] \in {"layout", "valid"}}

Lowest(S) == CHOOSE m \in S : \A s \in S : m <= s

\* best_effort_min_consumer_sequence: the lowest cursor found; the producer's
\* own when there is none, or when the directory cannot be listed to its end,
\* which may leave some of the cursors found.
MinConsumerSequence(rear) ==
    \/ /\ known' = Discovered /\ UNCHANGED fs_errors
       /\ rear = IF Discovered = {} THEN published
                 ELSE Lowest({cursor[c] : c \in Discovered})
    \/ /\ crashes + fs_errors < MaxFaults /\ fs_errors' = fs_errors + 1
       /\ \E found \in SUBSET (Discovered \ known) : known' = known \cup found
       /\ rear = published

FreeSlots_OneTooMany(producer, rear) == rear - (producer - Size) + 1
FreeSlots(producer, rear) == rear - (producer - Size)

\* next_sequences succeeds: the window covers n more events, if need be after a
\* new look at the consumers.
ClaimInWindow(n) ==
    /\ sequence - 1 + n <= window
    /\ UNCHANGED <<window, known, fs_errors>>

ClaimAfterScan(n) ==
    /\ sequence - 1 + n > window
    /\ \E rear \in -1..MaxSequence :
          /\ MinConsumerSequence(rear)
          /\ FreeSlots(sequence - 1, rear) >= n
          /\ window' = sequence - 1 + FreeSlots(sequence - 1, rear)

Claim(n) ==
    /\ ppc = "idle" /\ sequence - 1 + n <= MaxSequence
    /\ ClaimInWindow(n) \/ ClaimAfterScan(n)
    /\ ppc' = "write" /\ batch' = n /\ written' = 0
    /\ UNCHANGED <<slots, published, startVars, sequence, confirmed, consumerVars, crashes>>

\* next_sequences finds too little room: the caller sees the ring as full, and
\* the consumers found stay known.
ClaimFails(n) ==
    /\ ppc = "idle" /\ sequence - 1 + n <= MaxSequence
    /\ sequence - 1 + n > window
    /\ \E rear \in -1..MaxSequence :
          MinConsumerSequence(rear) /\ FreeSlots(sequence - 1, rear) < n
    /\ UNCHANGED <<slots, published, startVars, ppc, sequence, window, batch, written,
                   confirmed, consumerVars, crashes>>

\* apply_update and apply_batch_updates: fill the slots, store the cursor.
WriteEvent ==
    /\ ppc = "write" /\ written < batch
    /\ slots' = [slots EXCEPT ![Index(sequence + written)] = sequence + written]
    /\ written' = written + 1
    /\ UNCHANGED <<published, startVars, ppc, sequence, window, known, batch, confirmed,
                   consumerVars, faultVars>>

\* A plausible bug: the cursor stores the next sequence.
Publish_Next ==
    /\ ppc = "write" /\ written = batch
    /\ published' = sequence + batch /\ sequence' = sequence + batch
    /\ ppc' = "idle" /\ batch' = 0 /\ written' = 0
    /\ UNCHANGED <<slots, startVars, window, known, confirmed, consumerVars, faultVars>>

Publish ==
    /\ ppc = "write" /\ written = batch
    /\ published' = sequence + batch - 1 /\ sequence' = sequence + batch
    /\ ppc' = "idle" /\ batch' = 0 /\ written' = 0
    /\ UNCHANGED <<slots, startVars, window, known, confirmed, consumerVars, faultVars>>

\* is_consumed answers yes.
IsConsumed(s) ==
    /\ ppc = "idle" /\ s <= published
    /\ \E rear \in s..MaxSequence : MinConsumerSequence(rear)
    /\ confirmed' = IF s > confirmed THEN s ELSE confirmed
    /\ UNCHANGED <<slots, published, startVars, ppc, sequence, window, batch, written,
                   consumerVars, crashes>>

-----------------------------------------------------------------------------
(***************************************************************************)
(* A consumer attaches: MmapConsumer::attach with MmapCursor::new_or_attach.*)
(***************************************************************************)

Step(c, from, to) == cpc[c] = from /\ cpc' = [cpc EXCEPT ![c] = to]

\* The ring and the producer's cursor are there.
AttachRing(c) ==
    /\ Step(c, "down", "look") /\ {"ring", "producer_cursor"} \subseteq files
    /\ early' = IF ppc = "value" THEN early \cup {c} ELSE early
    /\ UNCHANGED <<slots, published, startVars, producerVars, faultVars, file, cursor,
                   is_owner, last, upper, pos, signalled, seen>>

\* No file yet: create one, empty at first.
CreateCursor(c) ==
    /\ Step(c, "look", "create") /\ file[c] = "absent"
    /\ file' = [file EXCEPT ![c] = "empty"] /\ is_owner' = [is_owner EXCEPT ![c] = TRUE]
    /\ UNCHANGED <<slots, published, startVars, producerVars, faultVars, cursor, last,
                   upper, pos, signalled, early, seen>>

LayOutCursor(c) ==
    /\ Step(c, "create", "init")
    /\ file' = [file EXCEPT ![c] = "layout"]
    /\ UNCHANGED <<slots, published, startVars, producerVars, faultVars, cursor, is_owner,
                   last, upper, pos, signalled, early, seen>>

StoreInitialValue(c) ==
    /\ Step(c, "init", "load")
    /\ file' = [file EXCEPT ![c] = "valid"] /\ cursor' = [cursor EXCEPT ![c] = -1]
    /\ UNCHANGED <<slots, published, startVars, producerVars, faultVars, is_owner, last,
                   upper, pos, signalled, early, seen>>

\* A plausible bug: a file that exists is an error.
ReattachCursor_Fails(c) ==
    /\ file[c] # "absent"
    /\ Step(c, "look", "down")
    /\ is_owner' = [is_owner EXCEPT ![c] = FALSE]
    /\ UNCHANGED <<slots, published, startVars, producerVars, faultVars, file, cursor, last,
                   upper, pos, signalled, early, seen>>

\* The file of an earlier process: attach, unless its layout was never written.
ReattachCursor(c) ==
    /\ file[c] # "absent"
    /\ Step(c, "look", IF file[c] = "empty" THEN "down" ELSE "load")
    /\ is_owner' = [is_owner EXCEPT ![c] = FALSE]
    /\ UNCHANGED <<slots, published, startVars, producerVars, faultVars, file, cursor, last,
                   upper, pos, signalled, early, seen>>

\* A plausible bug: every attach signals.
LoadCursor_AlwaysSignals(c) ==
    /\ Step(c, "load", "signal")
    /\ last' = [last EXCEPT ![c] = cursor[c]]
    /\ UNCHANGED <<slots, published, startVars, producerVars, faultVars, file, cursor,
                   is_owner, upper, pos, signalled, early, seen>>

\* last_processed_sequence is what the cursor says; a new consumer signals.
LoadCursor(c) ==
    /\ Step(c, "load", IF is_owner[c] THEN "signal" ELSE "idle")
    /\ last' = [last EXCEPT ![c] = cursor[c]]
    /\ UNCHANGED <<slots, published, startVars, producerVars, faultVars, file, cursor,
                   is_owner, upper, pos, signalled, early, seen>>

SignalReadiness(c) ==
    /\ Step(c, "signal", "idle")
    /\ IF "readiness" \in files
       THEN readiness' = readiness + 1 /\ signalled' = signalled \cup {c}
       ELSE UNCHANGED <<readiness, signalled>>
    /\ UNCHANGED <<slots, published, files, counted, producerVars, faultVars, file, cursor,
                   is_owner, last, upper, pos, early, seen>>

-----------------------------------------------------------------------------
(***************************************************************************)
(* A consumer reads: try_consume_next and a lease take one event,          *)
(* process_available all that were published when it looked.               *)
(***************************************************************************)

Begin(c, up) ==
    /\ Step(c, "idle", "busy") /\ last[c] < published
    /\ upper' = [upper EXCEPT ![c] = up] /\ pos' = [pos EXCEPT ![c] = last[c]]
    /\ UNCHANGED <<slots, published, startVars, producerVars, faultVars, file, cursor,
                   is_owner, last, signalled, early, seen>>

TryConsumeNext(c) == Begin(c, last[c] + 1)
ProcessAvailable(c) == Begin(c, published)

ReadEvent(c) ==
    LET s == pos[c] + 1 IN
    /\ cpc[c] = "busy" /\ pos[c] < upper[c]
    /\ pos' = [pos EXCEPT ![c] = s]
    /\ seen' = IF slots[Index(s)] = s THEN [seen EXCEPT ![c] = @ \cup {s}] ELSE seen
    /\ UNCHANGED <<slots, published, startVars, producerVars, faultVars, file, cursor, cpc,
                   is_owner, last, upper, signalled, early>>

\* publish_consumed_sequence, or the drop of the lease.
PublishConsumed(c) ==
    /\ Step(c, "busy", "idle") /\ pos[c] = upper[c]
    /\ cursor' = [cursor EXCEPT ![c] = upper[c]] /\ last' = [last EXCEPT ![c] = upper[c]]
    /\ upper' = [upper EXCEPT ![c] = -1] /\ pos' = [pos EXCEPT ![c] = -1]
    /\ UNCHANGED <<slots, published, startVars, producerVars, faultVars, file, is_owner,
                   signalled, early, seen>>

\* The consumer's process dies; its files stay.
Crash(c) ==
    /\ crashes + fs_errors < MaxFaults /\ crashes' = crashes + 1
    /\ cpc[c] # "down" /\ cpc' = [cpc EXCEPT ![c] = "down"]
    /\ last' = [last EXCEPT ![c] = -1] /\ upper' = [upper EXCEPT ![c] = -1]
    /\ pos' = [pos EXCEPT ![c] = -1] /\ is_owner' = [is_owner EXCEPT ![c] = FALSE]
    /\ UNCHANGED <<slots, published, startVars, producerVars, file, cursor, signalled,
                   early, seen, fs_errors>>

-----------------------------------------------------------------------------
Create == CreateReadiness \/ CreateRing \/ LayOutProducerCursor \/ StoreInitialSequence

Attach(c) ==
    \/ AttachRing(c) \/ CreateCursor(c) \/ LayOutCursor(c) \/ StoreInitialValue(c)
    \/ ReattachCursor(c) \/ LoadCursor(c) \/ SignalReadiness(c)

Consume(c) == TryConsumeNext(c) \/ ProcessAvailable(c) \/ ReadEvent(c) \/ PublishConsumed(c)

Publication ==
    \/ \E n \in 1..MaxBatch : Claim(n)
    \/ WriteEvent \/ Publish

Next ==
    \/ Create \/ EnoughReady \/ WaitTimesOut \/ Publication
    \/ \E n \in 1..MaxBatch : ClaimFails(n)
    \/ \E s \in 0..MaxSequence : IsConsumed(s)
    \/ \E c \in Consumers : Attach(c) \/ Consume(c) \/ Crash(c)

Spec == Init /\ [][Next]_vars

\* The processes are scheduled, a crashed consumer is started again, and the
\* producer goes on trying to publish.
FairSpec ==
    /\ Spec
    /\ WF_vars(Create) /\ WF_vars(EnoughReady) /\ WF_vars(Publication)
    /\ \A c \in Consumers : WF_vars(Attach(c)) /\ WF_vars(Consume(c))

-----------------------------------------------------------------------------
(***************************************************************************)
(* Properties.  A consumer the producer waited for is in counted; those    *)
(* that come later are promised nothing, and a consumer in early met the    *)
(* producer's cursor between its layout and its initial value.             *)
(***************************************************************************)

TypeOK ==
    /\ files \subseteq {"readiness", "ring", "producer_cursor"}
    /\ slots \in [0..(Size - 1) -> -1..MaxSequence]
    /\ published \in -1..MaxSequence /\ readiness \in Nat
    /\ ppc \in {"ready", "ring", "layout", "value", "await", "idle", "write", "gave_up"}
    /\ sequence \in 0..(MaxSequence + 1) /\ window \in Int
    /\ known \subseteq Consumers
    /\ batch \in 0..MaxBatch /\ written \in 0..batch
    /\ file \in [Consumers -> {"absent", "empty", "layout", "valid"}]
    /\ cursor \in [Consumers -> -1..MaxSequence]
    /\ cpc \in [Consumers -> {"down", "look", "create", "init", "load", "signal",
                              "idle", "busy"}]
    /\ is_owner \in [Consumers -> BOOLEAN]
    /\ \A f \in {last, upper, pos} : f \in [Consumers -> -1..MaxSequence]
    /\ crashes \in Nat /\ fs_errors \in Nat /\ crashes + fs_errors <= MaxFaults
    /\ \A S \in {counted, signalled, early} : S \subseteq Consumers
    /\ seen \in [Consumers -> SUBSET (0..MaxSequence)]
    /\ confirmed \in -1..MaxSequence

\* Readiness is counted once per consumer, no restart is counted twice, and the
\* wait ends only when enough cursors hold their initial value.  No consumer that
\* created its cursor goes to work uncounted ("silently miss startup
\* registration": the order of the files in MmapProducer::create).
ReadinessExact ==
    /\ readiness = Cardinality(signalled)
    /\ \A c \in signalled : file[c] = "valid"
    /\ ppc \in {"idle", "write"} => Cardinality(counted) >= MinConsumers
    /\ \A c \in Consumers : is_owner[c] /\ cpc[c] \in {"idle", "busy"} => c \in signalled

\* The files of the producer come in order, and a consumer is at work only after
\* them: its readiness signal finds the readiness cursor.
FilesInOrder ==
    /\ ppc # "ready" => "readiness" \in files
    /\ "ring" \in files => "readiness" \in files
    /\ \A c \in Consumers : cpc[c] # "down" => "ring" \in files

\* A cursor file is as far as its maker, who has not signalled yet; only makers
\* signal.
MakersUncounted ==
    \A c \in Consumers :
        /\ cpc[c] \in {"create", "init", "signal"} => is_owner[c]
        /\ is_owner[c] /\ cpc[c] \in {"create", "init", "load", "signal"} => c \notin signalled
        /\ cpc[c] = "create" => file[c] = "empty"
        /\ cpc[c] = "init" => file[c] = "layout"
        /\ is_owner[c] /\ cpc[c] \in {"load", "signal"} => file[c] = "valid"

\* The events of a publication are within the bound, and no consumer reads further.
WithinBounds == ppc = "write" => sequence - 1 + batch <= MaxSequence /\ batch >= 1

\* As long as directories can be listed, an event a counted consumer has not
\* acknowledged is in its slot, through every restart of that consumer, late
\* joiners and half-made cursor files; what it has acknowledged it has been
\* given, no event being skipped at a restart (new_or_attach keeps the cursor);
\* and what is_consumed has confirmed it is past.
NothingLost ==
    fs_errors = 0 => \A c \in counted :
        /\ \A s \in 0..published : cursor[c] < s => slots[Index(s)] = s
        /\ c \notin early => \A s \in 0..cursor[c] : s \in seen[c]
        /\ confirmed <= cursor[c]

\* A consumer's local positions lie ahead of its cursor and behind the producer's.
ConsumersConsistent ==
    \A c \in Consumers :
        /\ cpc[c] \in {"signal", "idle", "busy"} => last[c] = cursor[c]
        /\ cpc[c] = "busy" => last[c] < upper[c] /\ last[c] <= pos[c] /\ pos[c] <= upper[c]
        /\ cpc[c] = "busy" /\ c \notin early => upper[c] <= published

\* Until the producer publishes, a consumer that found its cursor set has read
\* nothing: it meets an empty ring.
StartsEmpty ==
    /\ "producer_cursor" \in files => ppc \notin {"ready", "ring", "layout"}
    /\ ppc \notin {"idle", "write"} =>
          counted = {} /\ sequence = 0 /\ window = Size - 1 /\ confirmed = -1
    /\ \A c \in Consumers \ early :
          /\ cpc[c] # "down" \/ file[c] # "absent" =>
                ppc \notin {"ready", "ring", "layout", "value"}
          /\ ppc \notin {"idle", "write"} =>
                cpc[c] # "busy" /\ (file[c] = "valid" => cursor[c] = -1)

\* The producer's fields agree with its cursor, and the batch under way with the
\* window and with what is in the slots.
ProducerConsistent ==
    /\ ppc \in {"await", "gave_up", "idle", "write"} => published = sequence - 1
    /\ ppc = "write" =>
          /\ sequence - 1 + batch <= window
          /\ \A s \in sequence..(sequence + written - 1) : slots[Index(s)] = s

\* As long as directories can be listed, the window ends one ring after the
\* cursors of counted consumers, who have been given what they are past.
CountedGate ==
    /\ counted \subseteq signalled
    /\ fs_errors = 0 => \A c \in counted :
          /\ window <= cursor[c] + Size
          /\ c \notin early /\ cpc[c] = "busy" => \A s \in 0..pos[c] : s \in seen[c]

\* The inductive invariant (the code it is about: MmapProducer::create and
\* next_sequences, MmapCursor::new_or_attach, MmapConsumer::attach).
IInv ==
    /\ TypeOK /\ WithinBounds
    /\ FilesInOrder /\ MakersUncounted /\ ReadinessExact
    /\ ConsumersConsistent /\ StartsEmpty /\ ProducerConsistent
    /\ CountedGate /\ NothingLost

\* The producer is not held up for ever, by a consumer that dies and comes back,
\* one that joins late or a cursor file nobody finished; and what it publishes
\* the counted consumers acknowledge.
EverythingConsumed ==
    ppc = "idle" ~> published = MaxSequence /\ \A c \in counted : cursor[c] = MaxSequence
================================================================================
