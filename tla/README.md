# A TLA+ model of myelon

`myelon` is an inter-process transport. Its core, the crate `disruptor-mp`, is a
single-producer, multi-consumer ring in shared memory in the style of the LMAX
Disruptor; the crate `myelon` cuts messages into frames and sends them over it.
This directory holds TLA+ modules of that code, TLC configurations that check
them, and proofs checked by TLAPS. `PROJECT.json` gives, for every definition that
models code, the lines it stands for, and lists runs, theorems, mutants, hazards
and findings.

    tlc -config MCDisruptorRing.cfg MCDisruptorRing    # one run
    tlapm DisruptorRing_proofs.tla                     # one module of proofs

## 1. Inventory

Paths are below `src/crates/disruptor-mp/src/` unless they start with `myelon`.

### The parts, their state and their operations

| Part | State | Operations |
|---|---|---|
| Ring (`backend/shared_memory/ringbuffer.rs`) | slots in shared memory, no header word per slot | `get`, `free_slots` |
| `SharedCursor` (`lock_free/cursor.rs`) | one 64-bit atomic per segment | `new`, `attach`, `new_or_attach`, `load`, `store`, `fetch_add`, `set_owner` |
| `SharedProducer` (`producer.rs`) | producer's cursor (shared); `sequence`, `sequence_clear_of_consumers` (private) | `publish`, `try_publish`, `publish_with_timeout`, `batch_publish`, `try_batch_publish`, `publish_managed`, `publish_batch_managed`, `is_consumed`, `wait_until_consumed` |
| `SharedConsumer` (`consumer.rs`) | its cursor (shared); `last_processed_sequence` (private) | `try_consume_next`, `consume_next`, leased variants, `process_available`, `process_available_blocking` |
| `SharedConsumerBarrier` (`lock_free/consumer_barrier.rs`) | attached cursors, `last_scan`, `discovery_completed`; readiness and registration counters (shared) | `get_min_consumer_sequence`, `discover_consumers`, `wait_for_consumers_ready`, `discover_consumer_id` |
| Builder (`builder.rs`) | none | `build_producer`, `build_consumer`, `handle_events_batch` |
| `AutoConsumer` (`builder.rs`) | a thread, its handle, a shutdown flag | `shutdown`, `join`, `shutdown_and_join`, `is_running`, drop |
| Required-consumer liveness (`required_consumer.rs`) | progress and stall times per consumer, `terminal_error` | start-up wait, `evaluate_blocked` |
| Framed transport (`myelon/src/transport.rs`) | next message id; `ReassemblyBuffer` | `publish`, `publish_managed`, `recv_message_blocking_*`, `process_available_messages` |
| mmap backend (`backend/mmap/`) | ring, cursors and readiness count as files in a directory | as ring, producer, consumer and barrier; discovery lists the directory |
| Observability (`observability/`) | `slot_count` and the table of counter slots (shared); the aggregator thread | `register`, `inc`, `add`, `record_max`, `snapshot`, `worker_loop`, `stop`, drop of the handle |
| Runner of the simulation harness (`myelon-dst/src/runner.rs`, `bin/myelon-dst-runner-child.rs`, `runner_oracle.rs`) | child processes, their checkpoint and report files, partial reports, restart numbers | spawn, kill, respawn, wait and decode, merge reports, verify |

### How they interact

The producer owns its cursor and reads those of the consumers; a consumer owns its
cursor and reads the producer's. Nothing else is shared on the hot path: there are
no locks and no messages. The barrier lives in the producer's process. It finds the
consumers' cursors by the names of their segments, which come from a registration
counter, from a prefix, or from process ids. At start-up the two sides meet at a
readiness counter. `AutoConsumer` wraps a consumer in a thread that runs a
callback. The required-consumer state is consulted by a publish call that found the
ring full. The framed transport calls publish once per frame and one of the consume
calls per frame or per batch of frames. The mmap backend has the same protocol with
a barrier of its own, which looks for consumers whenever its window is used up.
Producers and consumers bump counters in a table that nothing else waits for. The
runner uses the ring as an application does: it starts a producer and consumers as
processes, kills and restarts some, and judges their reports.

### What is hard

* **Stale reads.** The producer writes on the strength of a window computed earlier,
  from cursors loaded at different times.
* **Slots without synchronisation of their own.** `get` hands out raw pointers; only
  the order of the stores to the cursors keeps readers and the writer apart.
* **Crashes.** A consumer's cursor outlives it, so a crash falls between reading,
  acknowledging and returning an event.
* **Start-up in any order.** Segments appear one by one, and a process may look for
  one before it exists or is initialised; a scan may be skipped.
* **Time.** Readiness, stall and grace timeouts are measured at the moments the code
  happens to look.
* **Partial messages.** A sender that fails half-way through a message, and a
  receiver that starts again half-way.
* **Half-made files.** A cursor file is visible before it has a layout and a value; a
  process may die in between, and a directory may fail to be listed.
* **Tables without locks.** Counters are registered by a `fetch_add` that is taken
  back when the table is full, and read while they are being filled.
* **Reports of killed processes.** A kill hits between an acknowledgement and the
  checkpoint that says so, or inside the write of that checkpoint.

### What makes each part correct

* Ring, producer, consumer: no event is overwritten before every gating consumer has
  acknowledged it; no slot is read and written at once; each consumer gets
  consecutive events; acknowledgements do not run ahead of the application by more
  than the one event `try_consume_next` has to return; a full ring does not block
  for ever.
* Discovery: a worker that was ready in time is not lapped; a restarted consumer
  resumes; start-up does not block for ever; cursors never regress.
* Required consumers: only a consumer that really stood still is blamed; one alert per
  stall; every call ends.
* `AutoConsumer`: no event is passed over, by one thread or from one to the next; drop
  returns; shutdown works.
* Framed transport: only whole messages are delivered, in the order they were sent, each
  once but for a restart, and every one that was sent.
* mmap backend: readiness counts every consumer once, and a consumer that was counted
  misses nothing.
* Observability: a slot belongs to one counter; a snapshot shows registered counters
  with values they had, and the last one misses nothing; maxima stay.
* Runner: no false alarm and no corruption missed, whenever a kill hits and however
  late a consumer is; a run ends.

`PROJECT.json` lists the hazards one by one, with the line where each bites and the
properties that cover it.

## 2. The modules

| Module | What it models |
|---|---|
| `BroadcastLog` | What the ring promises: one log, a delivery position and an acknowledgement per consumer. |
| `DisruptorRing` | Producer, consumers and ring, one step per access to shared memory. |
| `DisruptorRing_proofs` | Theorems about `DisruptorRing`. |
| `ConsumerDiscovery` | Start-up, readiness, registration, discovery and the gating that follows from it. |
| `RequiredConsumer` | The managed publish calls and their watch over required consumers. |
| `AutoConsumer` | The consumer thread and its owner. |
| `MessageQueue` | What the framed transport promises: numbered messages, in order, each acknowledged about when it is handed over. |
| `FramedTransport` | Fragmentation and the three receivers. |
| `MmapTransport` | The mmap backend: files made in steps, joining, discovery by listing, reading and publishing. |
| `Counters` | The counter table and the aggregator thread. |
| `DstRunner` | The runner, its children, their reports and the oracle. |
| `ConsumerDiscovery_proofs`, `RequiredConsumer_proofs`, `AutoConsumer_proofs`, `FramedTransport_proofs`, `MmapTransport_proofs`, `Counters_proofs`, `DstRunner_proofs` | Theorems about these modules. |
| `MC...` | Instances for TLC: symmetry, sets of races, lists of consumers. |

`DisruptorRing` shows that the ring is `BroadcastLog` for consumers that are
discovered. `AutoConsumer` and `FramedTransport` rest on that: the former counts the
backlog of one gating consumer, the latter reads a queue of frames and is shown to be
`MessageQueue`.
`ConsumerDiscovery` models what happens before a consumer is discovered, with
publishing and consuming as single steps. `DstRunner` takes the ring for a log of which
the last messages are there, and claims slots as those two do. `MmapTransport` and `Counters` stand alone: they share no state
with the others.

A definition called `X_Variant` (for instance `FreeSlots_OneTooMany`) is `X` with one
plausible mistake. No specification uses it; put in place of `X` it makes the
property named with it in `PROJECT.json` fail, which shows that the property sees
that part of the code.

### DisruptorRing

* A slot holds the sequence its event was written for. The payload never influences
  control, so this is all the properties need.
* `sequence`, `sequence_clear_of_consumers`, `last_processed_sequence` are the fields
  of that name. `ppc`, `call`, `n`, `unread`, `rear`, `written` are the position and
  the locals of the call under way; `cpc`, `pos`, `upper`, `event` those of each
  consumer. `delivered` and `confirmed` are history: what the application has been
  handed, and the highest sequence `is_consumed` has answered true for.
* `next_sequences` is `ClaimFromWindow` when the cached window suffices, otherwise
  `StartScan`, one `LoadCursor` per consumer in any order (the map of cursors has
  none), then `ClaimAfterScan`, `GiveUp` or `Rescan`. `try_publish`,
  `try_batch_publish` and `batch_publish` give up, `publish` and the managed calls rescan,
  `publish_with_timeout` may do either.
* `apply_update` and `apply_batch_updates` are `WriteSlot`, once per event, and
  `StoreProducerSequence`.
* `process_available` and the leased calls are `SnapshotBatch`, `ProcessEvent`,
  `PublishConsumedSequence`; `try_consume_next` is `StartCopy`, `CopyEvent`,
  `StoreCopied`, `ReturnEvent`.
* `Crash` may come between any two steps of a consumer; the cursor stays. `Restart`
  builds the consumer again under its id.
* Atomics are sequentially consistent in the model. Every cursor is stored with
  Release by one owner and loaded with Acquire; slots are only touched between such a
  pair, and `NoDataRace` shows that these pairs order every conflicting access.

### ConsumerDiscovery

* One action per segment created, initialised or attached, since other processes may
  look in between. `NoSegment` stands for a segment that is not there.
* `Discovery` chooses between registered slots and named consumers under a prefix;
  `Coordination` chooses `CoordinationMode`. With `DiscoveryMode::Disabled` nothing
  gates the producer and there is nothing to say about it.
* `DiscoverAndGate` and `GateOnly` are `get_min_consumer_sequence` with and without a
  scan. A step publishes or consumes a whole event.
* `Races` names the races of timing a run allows: the readiness deadline, a second
  request within `scan_interval`, and the window between creating and initialising a
  cursor. `discovery_slots` allows all of them; `discovery_prefix` leaves out the last,
  without which `NeverRegress` holds, and the runs that expect a violation allow only
  the one they are about.
* `present`, `missed`, `signalled`, `waited` are history: the consumer ids that were up
  when the first event was published, those of them a skipped scan has left out, the
  workers that ever signalled, and whether the wait succeeded.

### RequiredConsumer

* Time is a `Tick`; an instant is kept as the time since then, saturating at the
  largest value anything compares it with, which keeps all comparisons exact and the
  state space finite without bounding time.
* `Call`, the steps called `Startup...`, `Seed`, `Publish`, `RingFull` and those of the
  check are `publish_managed` and `publish_batch_managed`.
* `ensure_required_consumers_ready` and `check_required_consumer_liveness` read the clock
  before they load the cursors: `StartupFinds` and `BeginCheck` (`ReadClock`) come first,
  then `Seed` or `Observe`, once per consumer in the order of the list, with the early
  return of `evaluate_blocked`. Time may pass and consumers may move between any two of
  these. `lag` is the time since that reading, and `idle` and `stalled` are ages at the
  reading.
* The cursors of the required consumers are the only ones that gate. `quiet`, `behind`
  and `alerts` are history: how long a cursor has not moved, how long it has not moved
  while there were events to read, and the alerts since it last did. A move between the
  clock reading and the load of a check sets `quiet` to `lag`: the code can know no
  better than that reading.

### AutoConsumer

* `producer_sequence` and `consumer_sequence` count events; `upper` and `done` are the
  batch and how far the handler is. `processed` is what decides whether the loop looks at
  the signal. `handled` is history: how many events, from the first, have each been given
  to a handler.
* `Rebuild` is `handle_events_batch` again with the same consumer id, after the thread
  was joined: the cursor has stayed, whether that thread was shut down or panicked.
* The wait strategies differ in how long they pause: one `wait` state stands for all.

### FramedTransport

* A frame has a message id, a place in the message and the two flags. The ring is a
  queue of `Depth` frames with the receiver's cursor.
* `receiver`, fixed at the start, says which call the application uses:
  `recv_message_blocking_owned`, `..._leased` or `process_available_messages`; the
  variants with metadata and the aliases do the same.
* `AbandonMessage` is the error of `publish_managed` half-way through a message.
* `Restart` is a receiver that dies and attaches under its id, with an empty buffer.
* As a `MessageQueue`: a message is sent with its last frame; `Handed` and `Acknowledged`
  are the last messages that end within the frames the receiver is past (`Past`) and
  within those it has acknowledged. The queue has `failed` once a receiver was restarted
  or a blocking one has a sender that abandons messages: from then on messages may be
  passed over, but none comes out of order.

### MmapTransport

* `files` are the producer's: the readiness cursor, the ring, its own cursor, made in
  that order by `MmapProducer::create`. The last is visible with the value 0 before -1
  is stored (`LayOutProducerCursor`, `StoreInitialSequence`).
* A consumer's file goes from "absent" over "empty" and "layout" to "valid"; a crash
  leaves it where it is. `ReattachCursor` fails on an empty one, as
  `MmapCursor::attach` does, and takes a laid-out one with the value 0 for real.
* `MinConsumerSequence` is `best_effort_min_consumer_sequence`: it attaches to every
  file with a layout, or, when the directory cannot be listed, falls back on the
  producer's own sequence and keeps what it had found so far. It runs whenever the
  window is used up (`ClaimAfterScan`, `ClaimFails`) and in `is_consumed`.
* A scan and a publication of the cursor are single steps; slots are written and read
  one by one. `DisruptorRing` has the finer grain.
* `counted`, `signalled`, `early`, `seen`, `confirmed` are history.

### Counters

* A slot's id, flags and text are one label and the `IN_USE` flag, which are written in
  this order. Every atomic access is a step: the claim of an index, its rollback, the
  label, the flag; `record_max`'s load and each exchange; the aggregator's reads of the
  count, of a flag and of a value.
* Handles are `Copy` and `Sync`: any writer may use any handle given out.
* `at_stop` is history: the value of each counter when the aggregator was stopped.

### DstRunner

* The kinds of run (`fault`): no fault; a failure class that starts without
  `wait_for_consumers_ready` ("unwaited"); `run_wait_strategy_smoke` ("smoke"), which
  does so too, keeps `ring_depth` and writes no checkpoints but the last; a kill of the
  producer (new segment, new consumers); a kill of one consumer (same id, same segment).
  `corrupt` is the sequence of the corruption probe. `EffectiveDepth` is
  `effective_ring_depth`.
* The wait is for a number of signals, as in the code. A shared-memory consumer signals
  whenever it attaches, so a restarted one twice; an mmap consumer only if it has made
  the cursor, so one killed in between never (`CAttach`, `CSignal`). After its 15 seconds
  the shared-memory producer goes on and the mmap one asserts (`PStartUnready`).
* `PClaim` is `next_sequences` when the window is used up, with the cursors the producer
  finds then (`Found`) and their minimum or its fallback (`Rear`). A consumer that was
  lapped reads the last message of its slot, or one that is being written (`Contents`).
  `unguarded` is history: the producer has claimed slots without regard to some
  consumer.
* A consumer that finds nothing (`CLook`) and then sees the producer completed either
  notes the time and looks again (`CGrace`) or, if the grace period is over in the same
  pass, leaves (`CLeave`): with `MYELON_DST_PRODUCER_DONE_GRACE_MS=0`, or a pause as long
  as the period, at the first sight. `hasty` is history: who left so.
* `fs::write` truncates before it writes: `PTruncate`/`PWrite`, `CTruncate`/`CWrite`. A
  torn checkpoint is `NoReport`.
* `NextSequence`, `Filter`, `Concat`, `Merge`, `OracleAccepts` are the functions on reports
  of that meaning; a message is its sequence and whether its payload has its hash.
* A suspended child is one that takes no step for a while. Deadlines may pass whenever
  what they wait for has not happened (`CTimesOut`, `WaitTimesOut`).

## 3. What is checked

Runs that pass:

| Run | Bounds | Shows |
|---|---|---|
| `ring` | 2 consumers, 2 slots, batches to 3, 3 events, 1 crash | the safety invariants, the inductive invariant `IInv`, consecutive delivery, that the ring implements `BroadcastLog`, that events are consumed and blocked calls return |
| `discovery_slots` | 2 workers with registered ids, 2 slots, 6 events, 1 crash, every race | a worker that was up is lapped only over a skipped scan; a successful wait is one worker short at most for each crash; `IInv` |
| `discovery_prefix` | 2 named workers, 1 crash, deadline, skipped scans | no known consumer is overwritten; restarts resume; cursors are monotone; everything is published |
| `required` | 2 required, batches to 3 on 2 slots, 5 events, pauses anywhere | failures are real; one alert per stall; managed calls end; `IInv` |
| `auto` | 4 slots, 8 events, panics, threads rebuilt under the id | no event is passed over; drop and join return; events are handled; `IInv` |
| `framed` | the three receivers, 2 slots, 3 messages of up to 3 frames, errors, 2 restarts | whole messages only; the transport implements `MessageQueue`; every complete message arrives, with the exceptions named below; `IInv` |
| `mmap` | 2 consumers, one waited for and one that joins when it likes; 2 slots, batches to 2, 3 events, 1 crash or failed listing | readiness is exact; a counted consumer misses nothing; everything is published and consumed; `IInv` |
| `counters` | 2 writers, 2 slots, 1 label, values to 2 | slots are exclusive, snapshots faithful, maxima stay; the drop returns; `IInv` |
| `dst` | 2 consumers, 3 messages, 2 slots (3 for a producer kill over shared memory), both backends, every kind of run, the probe on the second payload or none (none for a producer kill, nor for a consumer kill over shared memory) | the verdict is right; nothing is lost; a run ends; `IInv` |

Runs that find the code and a document at odds (`findings` in `PROJECT.json` quotes
each document):

| Run | What happens |
|---|---|
| `discovery_v_interval` | One of two ready consumers is found, the next scan is skipped, and the producer laps the other. |
| `discovery_v_init` | A cursor is read as 0 before it is initialised to -1. |
| `framed_v_abandoned` | After half a message a blocking receiver skips everything else. |

Some properties hold under a condition that the run's constants, or the property
itself, state, and fail without it:

* `WaitedForEnough` allows one worker too few for each crash: the readiness counter
  counts signals, and a worker that comes back signals again.
* `NeverRegress` needs named workers or none that crash: a registered id is new at each
  start.
* `EveryEventSeen` is about workers that were up before the first event, with an id
  `max_consumers` reaches (a restarted worker gets a new one), and which no skipped scan
  has left out. `StrictFanOut` is the repository's claim without the last two
  conditions, and `discovery_v_interval` refutes it. A consumer that attaches after the
  ring has wrapped starts at sequence 0 all the same and is handed the later events that
  have taken those slots.
* `DropReturns` needs a load that ends: the thread looks at the signal only after a
  `process_available` that found nothing, and the join has no timeout.
* `CallEnds` and `BlockedCallReturns` are about batches that fit the ring; the others
  spin for ever.
* `FailureIsReal` counts the time without a move from the clock reading of the check
  that was to load the cursor, if it moved after that reading: a producer paused between
  the two (producer.rs:529-533) dates the progress too early by the length of the pause,
  and may blame a consumer that moved that much less than `progress_timeout` and the
  grace period ago. Also, time in which the producer published nothing counts as a stall:
  `last_progress_at` is refreshed only by checks, and those run only while a call is
  blocked, so the first call that finds the ring full may raise an alert at once, although
  `progress_timeout` is documented as time "while gating producer progress"
  (required_consumer.rs:39). Only the grace period is sure to be time with events to read
  (`behind`).
* After a managed call has reported the graceful shutdown, a later call publishes if
  the ring has room: `terminal_error` is looked at only when it is full.
* `IntactUnlessRestarted` excepts blocking receivers that restarted: one that comes
  back in mid-message takes the next frame for a first one and returns the rest of the
  message as if it were whole.
* `MmapTransport!NothingLost` is about consumers the producer has counted, up to the
  first listing that fails: after one, unread and leased slots are overwritten. An
  attach that fails for a moment (barrier.rs:110-114) makes a scan pass over one cursor
  in the same way; the model has only the listing as a whole fail. Its
  clause on skipped events excepts consumers that met the producer's cursor between
  its layout and its initial value: they take 0 for a published event and are handed
  slot 0 as the factory made it.
* `SlotsExclusive` does not say that `slot_count` only grows: a refused `register`
  takes its increment back, so it can go down, and it can exceed the capacity while
  one is refused.
* `VerdictCorrect` and `NothingLost` of `DstRunner` except two kinds of consumers, which
  the code does not prevent. One that leaves at first sight of the completion (`hasty`)
  may miss the last messages. And once the producer has claimed slots without regard to a
  consumer (`unguarded`), that one may be lapped; `NothingLost` says that this needs a ring
  smaller than the run and either a start without waiting, as in
  `run_wait_strategy_smoke`, or a shared-memory producer that went on after its timeout
  or met a skipped scan.
* Over a restart, what a killed consumer had received and not yet written down is filled
  in from the producer's report, so that the oracle's verdict says nothing about it; a
  producer kill that comes after all messages is an error of the run, not a verdict.

### Why the bounds are enough

The ring wraps in every run of a ring (more events than slots), so a slot is reused
while a consumer may still be anywhere in its loop. Two consumers are the fewest for
which the minimum of a scan differs from a single load and for which one may be known
and the other not. Batches of one event, of the size of the ring and of one more are
included. One crash puts a restart at every point of the loop; in `mmap`, also at
every point of the creation of a cursor file. The safety of the ring is proved for all
sizes, so `ring` can be small enough to check its liveness in the same run.
In `RequiredConsumer` timeouts of one or two ticks separate "before", "at" and "after"
each limit, and times saturate.
Messages of one to three frames have a first, a middle and a last frame; two of them
show frames of different messages meeting, the third shows whether the receiver
recovers. Two writers over a table of two slots fill it, are refused, roll back and
claim again, and race for the maximum of one counter. Three messages through two
slots give the runner a first, a middle and a last checkpoint and a producer that has
to wait for its consumers, or laps them when it does not wait; over shared memory the
runs with a producer kill, which are by far the largest, have three slots.
The largest kinds of run are left without a probe: whatever was repaired, the verdict says
nothing about one. Two restarts of a receiver let the second hit what the first
has left. The theorems below remove the bounds for all safety properties; they matter
only to liveness.

### Deadlock and fairness

Deadlock is checked for `DisruptorRing` and `RequiredConsumer`, in which some call can
always be made or time pass. It is not checked in the others, which really stop: the
producer at its bound or at a consumer that is dead, the thread when it is joined, the
sender after its last message, the mmap transport when everything is read or the
readiness wait gave up, the aggregator after its final flush with every counter at
its bound, the runner at its verdict.

Liveness assumes only that threads run. `DisruptorRing!FairSpec`: a call the producer
has begun goes on, and a consumer that is up polls; nobody is assumed to call again,
to restart or not to crash. `ConsumerDiscovery!FairSpec`: processes run, a worker that
is down is started, for the first time or again, and a blocked producer does scan
again, because `scan_interval` is a finite time.
`RequiredConsumer!FairSpec`: time passes and the caller runs; consumers owe nothing.
`AutoConsumer!FairSpec`: the thread runs and the handler returns; the producer owes
nothing. `FramedTransport!FairSpec`: a publish goes on while there is room, a receiver
polls. `MmapTransport!FairSpec`: the processes run, a consumer that died is started
again, and the producer goes on publishing; no listing is promised to succeed, but
only boundedly many fail. `Counters!FairSpec`: the aggregator's thread runs; writers owe
nothing. `DstRunner!FairSpec` assumes
less, that some process or the orchestrator goes on as long as one can: every step is
progress, as polls that change nothing are no steps of the model, so one weak fairness
of all together is enough for runs to end. The timeouts are not fair, they may or may not
fire. All of these are weak fairness: each of the loops is a spin, a sleep or a yield on
a thread of its own, and no step is disabled and enabled again by another process while
it waits.

## 4. What is proved

Eight modules of proofs, one for each module but the abstract `BroadcastLog` and
`MessageQueue`: every invariant, action property and refinement that a passing run checks
is a theorem. They assume the named
assumptions on the constants of the module they are about; the theorems of
`ConsumerDiscovery_proofs` that need more state it in an ASSUME of their own.

`DisruptorRing_proofs` proves, for every non-empty set of consumers, ring size, batch
bound, sequence bound and number of crashes (`ConsumersAssumption`, `SizeAssumption`,
`BoundsAssumption`):

| Theorem | Says |
|---|---|
| `TypeCorrect` | `Spec => []TypeOK` |
| `InvariantHolds` | `Spec => []IInv` |
| `NoLostEvents` | `Spec => []UnreadEventsIntact` |
| `ExclusiveSlots` | `Spec => []NoDataRace` |
| `AtLeastOnceButOne` | `Spec => []AckAtMostOneAhead` |
| `ConfirmationSound` | `Spec => []ConfirmedIsConsumed` |
| `InOrderDelivery` | `Spec => DeliveredInOrder` |
| `RingImplementsLog` | `Spec => ImplementsLog` |

None of the safety properties is inductive. `UnreadEventsIntact` is kept by
`WriteSlot` only because the batch being written lies in the cached window
(`BatchInWindow`), the window ends at most one ring after every cursor
(`WindowSound`), and a scan has loaded nothing newer than the cursors are now
(`ScanConservative`), which holds because cursors only grow. Cursors only grow
because a consumer's local position is ahead of its cursor and behind the producer's
(`ConsumerConsistent`), which also ties `delivered` to the position in the loop. `IInv`
is the conjunction of these parts; TLC checks it in `ring`. Two lemmas on
remainders carry the arithmetic: sequences less than `Size` apart have different
slots, and equal sequences the same. The preservation proof has one lemma per action.
The refinement maps `published` to the producer's cursor and `acked` to the
consumers' cursors; a store of either is the only step that is not a stutter or a
delivery.

`RequiredConsumer_proofs`, for every list of required consumers, ring size, bounds and
timeouts, also a grace period of zero (`SizesAssumption`, `TimeoutsAssumption`):

| Theorem | Says |
|---|---|
| `InvariantHolds` | `Spec => []IInv` |
| `OnlyStalledAreBlamed` | `Spec => FailureIsReal` |
| `AlertsOnce` | `Spec => []OneAlertPerStall` |

The code never sees how long a cursor has stood still, only how long before its clock
reading it last noticed progress. `ProgressConservative` (`Dated`) relates the two: as
long as the remembered sequence is the cursor's, `idle` and `lag` together are at most
`quiet`, and a stall began, with events to read, no earlier than the timeout after the
last move. `CheckDated` carries this over the pause between the reading and the load: a
cursor that has still to be loaded has been quiet for at least `lag`, because a move
counts from the reading. `AlertRemembered` says why an alert is not raised again: the
flag is cleared only when the consumer moved or caught up, and it cannot catch up without
moving, because publishing only takes the target further away. All are conjuncts of
`IInv`, with the facts about the position in a call they need.

`AutoConsumer_proofs`, for every ring size and load:

| Theorem | Says |
|---|---|
| `InvariantHolds` | `Spec => []IInv` |
| `NothingIsSkipped` | `Spec => []NothingSkipped` |

`BatchInBacklog` says of the thread under way, or ended by a panic, that its batch begins
at the cursor and that what it has handled of it no handler has missed; so a batch that
is acknowledged leaves nothing out, and a thread built later begins at or before the first
event nobody has had.

`Counters_proofs`, for every finite set of writers, capacity, set of labels and bound on
values (`WritersAssumption`, `CapacityAssumption`, `ValueAssumption`,
`LabelsAssumption`):

| Theorem | Says |
|---|---|
| `InvariantHolds` | `Spec => []IInv` |
| `RegistrationExclusive` | `Spec => []SlotsExclusive` |
| `SnapshotsAreFaithful` | `Spec => []SnapshotsFaithful` |
| `HighWaterMarksStay` | `Spec => HighWater` |

That slots are exclusive is not inductive: a rollback lowers `slot_count`, and the next
claim could be given a slot again. `TableConsistent` is the accounting that excludes
it: `slot_count` is the number of slots given away plus the number of refused calls
that have not taken their increment back, the slots given away are the first ones,
and calls are refused only when all are. For the final flush `FlushCovers` says, slot
by slot, that what was in use at the stop lies below the count the flush has read, and
that the slots it has passed are reported with at least their value at the stop.

`ConsumerDiscovery_proofs`, for every number of workers and slots, both modes of
discovery and coordination, every ring size, bound on crashes and set of races:

| Theorem | Says | If |
|---|---|---|
| `InvariantHolds` | `Spec => []IInv` | |
| `WaitCountsWorkers` | `Spec => []WaitedForEnough` | |
| `NobodyIsLapped` | `Spec => []EveryEventSeen` | |
| `KnownConsumersGate` | `Spec => OverwritesOnlyAcknowledged` | no cursor is attached before it is initialised |
| `CursorsOnlyAdvance` | `Spec => NeverRegress` | the same, and workers have names or do not crash |

`discovery_v_init` shows that the first condition is needed. The exceptions of
`EveryEventSeen` are in the property, and `discovery_v_interval` shows that the skipped
scan has to be one. `WindowSound` bounds the window by
the cursors of the consumers the barrier knows of, not of all: a consumer found late
enters the bound when it is found, because discovery happens only when the window is
used up. `PresentGated` is what makes everyone known
who was up before the first event: their cursors are there and initialised and stay, the
first ring of events overwrites nothing, and the scan that follows it finds every id
given out by then, unless it is skipped, which `missed` records. `Counted` ties the ids
given out and the signals to workers that run, or to crashes; `NamesDistinct` keeps two
workers off one cursor.

`FramedTransport_proofs`, for every ring depth, length and number of messages, receive
call and number of restarts:

| Theorem | Says |
|---|---|
| `InvariantHolds` | `Spec => []IInv` |
| `OnlyWholeMessages` | `Spec => []IntactUnlessRestarted` |
| `TransportImplementsQueue` | `Spec => ImplementsQueue` |
| `AcknowledgedAfterDelivery` | `Spec => []AcknowledgedIsDelivered` |

`IInv` says of the frames sent that each continues its predecessor's message or is the
first of a later one (`FramesInOrder`); of the buffer, that it is the beginning of the
message whose next frame the receiver expects (`BufferIsPrefix`); and of the frames
looked at, that those that end a message have been delivered (`NothingSkipped`). A
frame that follows a gap is recognised by its number, hence a whole message is
delivered or none. For the refinement the invariant also has what is left of this after a
restart (`QueueInStep`). Its core is the lemma `NextEnded`: because ids only grow from
frame to frame, one more frame gets the receiver past no message or past exactly the
next one. With it a step that moves the receiver past a last frame is a delivery if the
message is in its hands; if not, `NothingSkipped` says that something has failed.

`MmapTransport_proofs`, for every finite set of consumers, ring size, number of
consumers waited for, and bound on batches, events, crashes and failed listings:

| Theorem | Says |
|---|---|
| `InvariantHolds` | `Spec => []IInv` |
| `ReadinessCounts` | `Spec => []ReadinessExact` |
| `CountedConsumersLoseNothing` | `Spec => []NothingLost` |

The readiness count is exact because only the process that made a cursor file signals,
once, and after the file is valid (`FilesInOrder`, `MakersUncounted`). A counted
consumer started before the first event (`StartsEmpty`) and, until a listing fails,
the window ends at most one ring after its cursor (`CountedGate`), since every scan
finds its file. The proof needs that the minimum over a finite set exists; it is taken
from the well-foundedness of strict inclusion among finite sets.

`DstRunner_proofs`, for every non-empty finite set of consumers, number of messages and
set of runs (`ConsumersAssumption`, `CountAssumption`, `RunsAssumption`):

| Theorem | Says |
|---|---|
| `InvariantHolds` | `Spec => []IInv` |
| `OracleIsRight` | `Spec => []VerdictCorrect` |
| `ConsumersGetAll` | `Spec => []NothingLost` |

The invariant has layers, each inductive given those before it. `RunConsistent` is about
the run alone: which of the orchestrator's phases follow which fault
(`PhaseConsistent`), and that the ring holds consecutive sequences from where the
producer of this segment began (`RingConsistent`). `WindowConsistent` says how far the
producer may go: what it has claimed ends at most a ring after every cursor unless
`unguarded`, and when that can be, since with mmap each consumer signals once, so that a
wait that ended well has found every cursor. `ProducerReports` and `ProbeSeen` hold lapped
or not: the producer's report keeps step with the ring, and no consumer holds a good
message of the damaged sequence. The rest, `ConsumersConsistent` and `ConsumerReports`,
holds while nobody is disregarded: no slot a consumer reads has been reused, so a consumer
has received what its cursor has passed and, unless `hasty`, leaves only at the end.

The verdict needs the reports as well. `ProducerReports` keeps the producer's report in
step with the ring and its checkpoint behind it, so that the checkpoint a kill left is
exactly what the next producer does not publish again. `ReportConsistent` says of each
consumer that its report is the part of the ring before its cursor, from where this
process began, and that what it had written down when it was killed lies before that
part: what is missing lies between the two, never inside one. The repair is then a matter
of sequences: all reports are consecutive, and filtering a consecutive report by an
interval of sequences gives a slice of it (`FilterInterval`), so concatenation and merge
leave no sequence out and none twice (`ConcatConsecutive`, `MergeConsecutive`), and
`Verify` compares what it should. A filter is defined by counting the messages kept
before each place, not by recursion, so that this can be proved without induction over
the report.

### Model-checked only

* Liveness, in every module: fairness and ENABLED are out of TLAPS's reach.

No module declares a RECURSIVE operator.

## 5. What is not modelled, and why

* A restarted producer over the segments of an earlier run, two live holders of one
  consumer id, the wrap of the 32-bit message id: see the plan.
* Weak memory below Acquire/Release: see `DisruptorRing` above. The counters use
  relaxed updates of single words, whose order with respect to each other nothing
  reads.
* Scans over guessed process ids, the adaptive sleeps of the readiness wait, core
  pinning, segment names and layout checks: they change when and whether something is
  found, which the models leave open, or they are pure functions and I/O.
* The calls of the mmap backend that are the same code as, or delegate to, what is
  modelled elsewhere: required consumers, `AutoConsumer`, the framed receivers.
* Typed transport, codecs and the inference topology: encoding around the framed
  transport, with no state that outlives a call but buffers.
* `api.rs` and `runtime/`: configuration, one-line delegation and pauses.
* The harness's contracts, traces and digests: data without concurrency. Of its runner,
  the required-consumer variants of the cases, the restart under a wrong id, the attach
  deadline before a segment exists, and, with mmap, listings that fail and cursor files
  that are half made, which `MmapTransport` has.
* Benchmarks, examples and the book. They, and the tests, are most of the
  repository's lines.

## 6. Plan

Done: all modules of section 2, and the proofs of every safety property.

Next, the model:

1. `ConsumerDiscovery` with a producer that restarts over the segments of an earlier
   run, and with required consumers entering the table of discovered ones.
2. `DisruptorRing` with two live holders of one id.
3. An instance of `FramedTransport` with few message ids, which wrap.
