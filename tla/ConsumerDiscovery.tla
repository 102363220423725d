--------------------------- MODULE ConsumerDiscovery ---------------------------
(***************************************************************************)
(* How consumers come to gate the producer: the start-up of one producer   *)
(* process and of NumWorkers worker processes, each running build_consumer,*)
(* the readiness counter they meet at, the registration counter that hands *)
(* out consumer ids, and the scans with which the producer's barrier finds *)
(* the consumers' cursors while it already publishes.                      *)
(*                                                                         *)
(* DisruptorRing models what happens once a cursor is discovered, down to  *)
(* the single memory access; here an event is published, and consumed, in  *)
(* one step, and what a slot holds follows from how far the producer is.   *)
(***************************************************************************)
EXTENDS Integers, FiniteSets, FiniteSetsExt

CONSTANTS
    NumWorkers,     \* worker processes
    MinConsumers,   \* min_consumers of the coordination mode
    MaxConsumers,   \* max_consumers of the discovery mode
    Discovery,      \* "slots" (registered ids) or "prefix" (named ids)
    Coordination,   \* "immediate" or "wait"
    Size,           \* slots of the ring
    MaxSequence,    \* bound on the sequences ever published
    MaxCrashes,     \* bound on the crashes of workers
    Races           \* which of the timing races below may happen

\* "timeout":  the readiness wait may reach its deadline.
\* "interval": the barrier may be asked again before scan_interval has passed.
\* "init":     a cursor may be attached between the creation of its segment and
\*             the write of its initial value, or its creator dies there.
AllRaces == {"timeout", "interval", "init"}

ASSUME CountsAssumption ==
    /\ NumWorkers \in Nat \ {0} /\ MinConsumers \in Nat \ {0}
    /\ MaxConsumers \in Nat \ {0} /\ Size \in Nat \ {0}
    /\ MaxSequence \in Nat /\ MaxCrashes \in Nat
ASSUME ModesAssumption ==
    /\ Discovery \in {"slots", "prefix"}
    /\ Coordination \in {"immediate", "wait"}
    /\ Races \subseteq AllRaces

VARIABLES
    \* Shared memory.
    producer_sequence,    \* the producer's cursor, or NoSegment
    consumers_ready,      \* the readiness counter, or NoSegment
    registered,           \* the registration counter: ids given out so far
    cursor,               \* consumer id -> its cursor, or NoSegment
    \* The producer.
    pstage,               \* how far it is
    discovered,           \* consumer ids whose cursors its barrier has attached
    sequence,             \* next sequence to publish
    sequence_clear_of_consumers,   \* cached: last sequence known to be free
    \* The workers.
    wstage,               \* worker -> how far its process is
    id,                   \* worker -> its consumer id
    last_processed_sequence,   \* worker -> last sequence it consumed
    \* History.
    present,              \* ids of the workers that were up when the first event was
                          \* published
    missed,               \* those a skipped scan has left out
    signalled,            \* workers that ever signalled readiness
    waited,               \* the readiness wait has succeeded
    crashes

segments == <<producer_sequence, consumers_ready, registered, cursor>>
producerVars == <<pstage, discovered, sequence, sequence_clear_of_consumers>>
workerVars == <<wstage, id, last_processed_sequence>>
history == <<present, missed, signalled, waited, crashes>>
vars == <<segments, producerVars, workerVars, history>>

Workers == 0..(NumWorkers - 1)

\* A worker that gets its id from the registration counter gets a new one each
\* time it starts; one with a name of its own keeps it.
Ids == 0..(NumWorkers + MaxCrashes - 1)

NoSegment == -2
NoId == -1
Uninitialised == 0     \* what a fresh segment holds

-----------------------------------------------------------------------------
Init ==
    /\ producer_sequence = NoSegment /\ consumers_ready = NoSegment
    /\ registered = 0
    /\ cursor = [i \in Ids |-> NoSegment]
    /\ pstage = "create" /\ discovered = {}
    /\ sequence = 0 /\ sequence_clear_of_consumers = Size - 1
    /\ wstage = [w \in Workers |-> "down"]
    /\ id = [w \in Workers |-> NoId]
    /\ last_processed_sequence = [w \in Workers |-> -1]
    /\ present = {} /\ missed = {} /\ signalled = {} /\ waited = FALSE /\ crashes = 0

-----------------------------------------------------------------------------
(***************************************************************************)
(* Discovery.                                                              *)
(***************************************************************************)

\* discovery_scan_plan: a barrier that has found max_consumers never scans again;
\* one that has found some does not scan twice within scan_interval.
Completed == Cardinality(discovered) >= MaxConsumers
ShouldScan == ~Completed
MaySkipScan == "interval" \in Races /\ discovered # {}

\* The ids whose segment names a scan tries.
ScannedIds_MissesLast ==
    IF Discovery = "slots"
    THEN 0..(Min({registered, MaxConsumers}) - 2)
    ELSE 0..(MaxConsumers - 2)

ScannedIds ==
    IF Discovery = "slots"
    THEN 0..(Min({registered, MaxConsumers}) - 1)
    ELSE 0..(MaxConsumers - 1)

Initialising(i) == \E w \in Workers : wstage[w] = "created" /\ id[w] = i

\* Those of them SharedCursor::attach opens.
Attachable == {i \in ScannedIds \cap Ids :
                  cursor[i] # NoSegment /\ (Initialising(i) => "init" \in Races)}

\* min_sequence_fallback when no consumer is known: the ring is not lapped.
Fallback == -1

MinSequence(known) ==
    IF known = {} THEN Fallback ELSE Min({cursor[i] : i \in known})

FreeSlots_OneTooMany(known) == MinSequence(known) - (sequence - 1 - Size) + 1
FreeSlots(known) == MinSequence(known) - (sequence - 1 - Size)

-----------------------------------------------------------------------------
(***************************************************************************)
(* The producer: build_producer, then publish in a loop.                   *)
(***************************************************************************)

\* The registration counter and the ring exist by now.  A segment becomes
\* visible, with a valid layout, before its initial value is written.
CreateProducerSequence ==
    /\ pstage = "create"
    /\ producer_sequence' = Uninitialised
    /\ pstage' = "init"
    /\ UNCHANGED <<consumers_ready, registered, cursor, discovered, sequence,
                   sequence_clear_of_consumers, workerVars, history>>

InitProducerSequence ==
    /\ pstage = "init"
    /\ producer_sequence' = -1
    /\ pstage' = IF Coordination = "wait" THEN "readiness" ELSE "discover"
    /\ UNCHANGED <<consumers_ready, registered, cursor, discovered, sequence,
                   sequence_clear_of_consumers, workerVars, history>>

CreateReadiness ==
    /\ pstage = "readiness"
    /\ consumers_ready' = 0
    /\ pstage' = "discover"
    /\ UNCHANGED <<producer_sequence, registered, cursor, discovered, sequence,
                   sequence_clear_of_consumers, workerVars, history>>

\* The barrier's constructor scans once.
DiscoverInitially ==
    /\ pstage = "discover"
    /\ discovered' = IF ShouldScan THEN Attachable ELSE {}
    /\ pstage' = IF Coordination = "wait" THEN "await" ELSE "publish"
    /\ UNCHANGED <<segments, sequence, sequence_clear_of_consumers, workerVars,
                   history>>

ConsumersReady_OneShort ==
    /\ pstage = "await" /\ consumers_ready >= MinConsumers - 1
    /\ pstage' = "publish" /\ waited' = TRUE
    /\ UNCHANGED <<segments, discovered, sequence, sequence_clear_of_consumers,
                   workerVars, present, missed, signalled, crashes>>

ConsumersReady ==
    /\ pstage = "await" /\ consumers_ready >= MinConsumers
    /\ pstage' = "publish" /\ waited' = TRUE
    /\ UNCHANGED <<segments, discovered, sequence, sequence_clear_of_consumers,
                   workerVars, present, missed, signalled, crashes>>

\* "Producer created anyway."
ReadinessTimeout ==
    /\ pstage = "await" /\ "timeout" \in Races
    /\ pstage' = "publish"
    /\ UNCHANGED <<segments, discovered, sequence, sequence_clear_of_consumers,
                   workerVars, history>>

NeedsGate == pstage = "publish" /\ sequence <= MaxSequence
                 /\ sequence > sequence_clear_of_consumers

UpdateWindow(known) ==
    sequence_clear_of_consumers' =
        IF FreeSlots(known) >= 1 THEN sequence - 1 + FreeSlots(known)
                                 ELSE sequence_clear_of_consumers

\* get_min_consumer_sequence on the way to a publication: with a scan ...
DiscoverAndGate_WindowFirst ==
    /\ NeedsGate /\ ShouldScan
    /\ discovered' = discovered \union Attachable
    /\ UpdateWindow(discovered)
    /\ UNCHANGED <<segments, pstage, sequence, workerVars, history>>

DiscoverAndGate_WhenKnown ==
    /\ NeedsGate /\ ShouldScan /\ discovered # {}
    /\ discovered' = discovered \union Attachable
    /\ UpdateWindow(discovered')
    /\ UNCHANGED <<segments, pstage, sequence, workerVars, history>>

DiscoverAndGate ==
    /\ NeedsGate /\ ShouldScan
    /\ discovered' = discovered \union Attachable
    /\ UpdateWindow(discovered')
    /\ UNCHANGED <<segments, pstage, sequence, workerVars, history>>

\* ... or without.
GateOnly ==
    /\ NeedsGate /\ (ShouldScan => MaySkipScan)
    /\ UpdateWindow(discovered)
    /\ missed' = IF ShouldScan THEN missed \union (present \ discovered) ELSE missed
    /\ UNCHANGED <<segments, pstage, discovered, sequence, workerVars, present, signalled,
                   waited, crashes>>

Up == {w \in Workers : wstage[w] = "up"}

Publish ==
    /\ pstage = "publish" /\ sequence <= MaxSequence
    /\ sequence <= sequence_clear_of_consumers
    /\ producer_sequence' = sequence
    /\ sequence' = sequence + 1
    /\ present' = IF sequence = 0 THEN {id[w] : w \in Up} ELSE present
    /\ UNCHANGED <<consumers_ready, registered, cursor, pstage, discovered,
                   sequence_clear_of_consumers, workerVars, missed, signalled, waited,
                   crashes>>

-----------------------------------------------------------------------------
(***************************************************************************)
(* A worker: build_consumer, then consume in a loop.                       *)
(***************************************************************************)

\* Attach the ring and the producer's cursor and choose a consumer id: the name it
\* was given, or a slot of the registration counter, which is new each time.
Attach(w) ==
    /\ wstage[w] = "down"
    /\ pstage # "create" /\ (pstage = "init" => "init" \in Races)
    /\ id' = [id EXCEPT ![w] = IF Discovery = "prefix" THEN w ELSE registered]
    /\ registered' = IF Discovery = "prefix" THEN registered ELSE registered + 1
    /\ wstage' = [wstage EXCEPT ![w] = "named"]
    /\ UNCHANGED <<producer_sequence, consumers_ready, cursor, producerVars,
                   last_processed_sequence, history>>

CreateCursor_Recreates(w) ==
    /\ wstage[w] = "named"
    /\ cursor' = [cursor EXCEPT ![id[w]] = Uninitialised]
    /\ wstage' = [wstage EXCEPT ![w] = "created"]
    /\ UNCHANGED <<producer_sequence, consumers_ready, registered, producerVars,
                   id, last_processed_sequence, history>>

\* SharedCursor::new_or_attach; set_owner(false) makes the cursor outlive it.
CreateCursor(w) ==
    /\ wstage[w] = "named"
    /\ IF cursor[id[w]] = NoSegment
       THEN /\ cursor' = [cursor EXCEPT ![id[w]] = Uninitialised]
            /\ wstage' = [wstage EXCEPT ![w] = "created"]
       ELSE /\ wstage' = [wstage EXCEPT ![w] = "attached"]
            /\ UNCHANGED cursor
    /\ UNCHANGED <<producer_sequence, consumers_ready, registered, producerVars,
                   id, last_processed_sequence, history>>

InitCursor(w) ==
    /\ wstage[w] = "created"
    /\ cursor' = [cursor EXCEPT ![id[w]] = -1]
    /\ wstage' = [wstage EXCEPT ![w] = "attached"]
    /\ UNCHANGED <<producer_sequence, consumers_ready, registered, producerVars,
                   id, last_processed_sequence, history>>

\* new_with_coordination: resume from the cursor and signal readiness, if the
\* readiness counter exists by now.
SignalReadiness(w) ==
    /\ wstage[w] = "attached"
    /\ last_processed_sequence' = [last_processed_sequence EXCEPT ![w] = cursor[id[w]]]
    /\ IF consumers_ready = NoSegment
       THEN UNCHANGED <<consumers_ready, signalled>>
       ELSE consumers_ready' = consumers_ready + 1 /\ signalled' = signalled \union {w}
    /\ wstage' = [wstage EXCEPT ![w] = "up"]
    /\ UNCHANGED <<producer_sequence, registered, cursor, producerVars, id, present,
                   missed, waited, crashes>>

Next_(w) == last_processed_sequence[w] + 1

Consume(w) ==
    /\ wstage[w] = "up"
    /\ Next_(w) <= producer_sequence
    /\ last_processed_sequence' = [last_processed_sequence EXCEPT ![w] = Next_(w)]
    /\ cursor' = [cursor EXCEPT ![id[w]] = Next_(w)]
    /\ UNCHANGED <<producer_sequence, consumers_ready, registered, producerVars,
                   wstage, id, history>>

\* A worker process dies, at any point; its segments and counts remain.
Crash(w) ==
    /\ wstage[w] # "down" /\ crashes < MaxCrashes
    /\ wstage[w] = "created" => "init" \in Races
    /\ wstage' = [wstage EXCEPT ![w] = "down"]
    /\ crashes' = crashes + 1
    /\ UNCHANGED <<segments, producerVars, id, last_processed_sequence, present,
                   missed, signalled, waited>>

-----------------------------------------------------------------------------
ProducerStep ==
    \/ CreateProducerSequence \/ InitProducerSequence \/ CreateReadiness
    \/ DiscoverInitially \/ ConsumersReady \/ ReadinessTimeout
    \/ DiscoverAndGate \/ GateOnly \/ Publish

WorkerStep(w) ==
    Attach(w) \/ CreateCursor(w) \/ InitCursor(w) \/ SignalReadiness(w) \/ Consume(w)

Next == ProducerStep \/ \E w \in Workers : WorkerStep(w) \/ Crash(w)

Spec == Init /\ [][Next]_vars

\* Every process keeps running, and a worker that is down is started (again) in
\* the end; scan_interval passes, so a producer that is blocked does scan again.
FairSpec ==
    /\ Spec
    /\ WF_vars(ProducerStep)
    /\ WF_vars(DiscoverAndGate)
    /\ \A w \in Workers : WF_vars(WorkerStep(w))

-----------------------------------------------------------------------------
(***************************************************************************)
(* What must hold.                                                         *)
(***************************************************************************)

TypeOK ==
    /\ producer_sequence \in NoSegment..MaxSequence
    /\ consumers_ready \in {NoSegment} \union 0..(NumWorkers + MaxCrashes)
    /\ registered \in 0..(NumWorkers + MaxCrashes)
    /\ cursor \in [Ids -> NoSegment..MaxSequence]
    /\ pstage \in {"create", "init", "readiness", "discover", "await", "publish"}
    /\ discovered \subseteq {i \in Ids : cursor[i] # NoSegment}
    /\ sequence \in 0..(MaxSequence + 1)
    /\ sequence_clear_of_consumers \in (Size - 1)..(MaxSequence + Size)
    /\ wstage \in [Workers -> {"down", "named", "created", "attached", "up"}]
    /\ id \in [Workers -> {NoId} \union Ids]
    /\ last_processed_sequence \in [Workers -> -1..MaxSequence]
    /\ missed \subseteq present /\ present \subseteq Ids /\ signalled \subseteq Workers
    /\ waited \in BOOLEAN /\ crashes \in 0..MaxCrashes

\* Strict fan-out, as the repository claims it: a worker that was up before the first
\* event was published is never lapped, however late the barrier finds its cursor.
StrictFanOut == \A i \in present : sequence - 1 - cursor[i] <= Size

\* Such a worker, if max_consumers reaches its id, is lapped only when scan_interval
\* suppressed a scan that would have found it: not over its crash, not over a cursor
\* attached before its initial value, not over a readiness wait that timed out.
EveryEventSeen ==
    \A i \in present \ missed : i < MaxConsumers => sequence - 1 - cursor[i] <= Size

\* Publishing never reuses a slot that a consumer the barrier knows of has still
\* to acknowledge: the window computed before that consumer was found is used up
\* when it is.
OverwritesOnlyAcknowledged ==
    [][sequence' # sequence => \A i \in discovered : sequence - Size <= cursor[i]]_vars

\* The value of a cursor another process has attached never decreases, and a
\* consumer that comes back resumes at or after where it was.
NeverRegress ==
    [][/\ Up # {} => producer_sequence' >= producer_sequence
       /\ \A i \in discovered : cursor'[i] >= cursor[i]
       /\ \A w \in Workers :
             last_processed_sequence'[w] >= last_processed_sequence[w]]_vars

\* When the wait for min_consumers succeeds, that many workers are ready, but for one
\* for each crash: a worker that signals again when it comes back counts twice.
WaitedForEnough == waited => Cardinality(signalled \cap Up) + crashes >= MinConsumers

\* Every event is published in the end: a worker whose cursor becomes visible
\* late, whose readiness signal is missed, or that dies and is started again,
\* blocks the producer only for a time.
EverythingPublished == <>(sequence = MaxSequence + 1)

-----------------------------------------------------------------------------
(***************************************************************************)
(* Why: the invariants on the way to these.                                *)
(***************************************************************************)

Alive == {w \in Workers : wstage[w] # "down"}

\* Every id given out stems from a worker that runs, and every signal from one that
\* is up, or from one that has crashed.
Counted ==
    /\ IF Discovery = "prefix" THEN registered = 0
                               ELSE registered <= Cardinality(Alive) + crashes
    /\ consumers_ready <= Cardinality(signalled \cap Up) + crashes
    /\ waited => pstage = "publish" /\ consumers_ready >= MinConsumers

\* No two workers share a consumer id, not even one that is down.
NamesDistinct ==
    /\ \A w \in Alive : id[w] # NoId
    /\ \A w \in Workers :
          id[w] # NoId => IF Discovery = "prefix" THEN id[w] = w ELSE id[w] < registered
    /\ \A v, w \in Workers : v # w /\ id[v] # NoId => id[v] # id[w]

\* The producer has published what its cursor says, within its window, and without
\* the race no worker attaches before the cursor is written.
ProducerInStep ==
    /\ pstage = "create" => producer_sequence = NoSegment
    /\ pstage = "init" => producer_sequence = Uninitialised
    /\ pstage \notin {"create", "init"} => producer_sequence = sequence - 1
    /\ pstage # "publish" => sequence = 0
    /\ sequence - 1 <= sequence_clear_of_consumers
    /\ sequence = 0 => sequence_clear_of_consumers = Size - 1
    /\ "init" \notin Races /\ pstage \in {"create", "init"} => Alive = {}

\* A worker is where its cursor says, and comes back there.
WorkersInStep ==
    /\ \A w \in Workers :
          wstage[w] \in {"created", "attached", "up"} => cursor[id[w]] # NoSegment
    /\ \A w \in Up : last_processed_sequence[w] = cursor[id[w]]
    /\ \A w \in Workers :
          /\ Discovery = "prefix" /\ last_processed_sequence[w] # -1 =>
                cursor[w] >= last_processed_sequence[w] /\ wstage[w] # "created"
          /\ MaxCrashes = 0 /\ w \notin Up => last_processed_sequence[w] = -1

\* The window is never more than a ring ahead of a consumer the barrier knows of,
\* except while it is used up.
WindowSound ==
    "init" \notin Races =>
        /\ \A i \in discovered : ~Initialising(i)
        /\ sequence <= sequence_clear_of_consumers =>
              \A i \in discovered : sequence_clear_of_consumers <= cursor[i] + Size

\* The first scan for a window finds every worker that was up for the first event: its
\* cursor is there, initialised, and stays.
PresentGated ==
    /\ sequence = 0 => present = {}
    /\ \A i \in present :
          /\ cursor[i] # NoSegment /\ ~Initialising(i)
          /\ Discovery = "slots" => i < registered
          /\ i \notin missed /\ i < MaxConsumers =>
                /\ sequence_clear_of_consumers <= cursor[i] + Size
                /\ sequence_clear_of_consumers = Size - 1 \/ i \in discovered
    /\ discovered \subseteq 0..(MaxConsumers - 1)

\* The inductive invariant (the code it is about: build_producer, build_consumer and
\* the discovery scans of the consumer barrier).
IInv ==
    /\ TypeOK /\ Counted /\ NamesDistinct /\ ProducerInStep /\ WorkersInStep
    /\ WindowSound /\ PresentGated

================================================================================
