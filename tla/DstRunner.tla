------------------------------- MODULE DstRunner -------------------------------
(***************************************************************************)
(* The raw-ring case of the myelon-dst runner: an orchestrator starts a    *)
(* producer and its consumers as processes, may kill and restart one of    *)
(* them while they work, collects the reports they write, repairs those of *)
(* restarted processes and has an oracle judge whether every consumer      *)
(* received what the producer published.                                   *)
(*                                                                         *)
(* The ring is the log of what was published to the segment, of which it   *)
(* holds the last ring_depth messages: a consumer reads in order from its   *)
(* cursor, and reads something else where the producer has lapped it.  The *)
(* producer claims slots by a window that it computes from the cursors it  *)
(* knows, as ConsumerDiscovery and MmapTransport have it.                  *)
(*                                                                         *)
(* A message is its sequence and whether its payload has the hash it was   *)
(* published with.  A report, and the checkpoint a child rewrites after    *)
(* every event, is a sequence of messages; a kill can leave a checkpoint   *)
(* file torn (fs::write truncates before it writes), which decodes to no   *)
(* report.  Time is not modelled: any wait may be longer or shorter than   *)
(* any deadline.                                                           *)
(***************************************************************************)
EXTENDS Integers, Sequences, SequencesExt, FiniteSets

CONSTANTS
    Consumers,     \* the consumer processes
    MessageCount,  \* DstConfig.message_count
    Runs           \* the runs to choose from

\* Kinds of run: no fault, a start without wait_for_consumers_ready ("unwaited";
\* "smoke" is run_wait_strategy_smoke), a kill.
FaultKinds == {"none", "unwaited", "smoke", "producer_kill", "consumer_kill"}

ASSUME ConsumersAssumption == Consumers # {} /\ IsFiniteSet(Consumers)
ASSUME CountAssumption == MessageCount \in Nat \ {0}
ASSUME RunsAssumption ==
    Runs \subseteq [backend : {"shm", "mmap"}, fault : FaultKinds, corrupt : 0..MessageCount,
                    ring_depth : Nat \ {0}]

VARIABLES
    backend,       \* BackendKind of this run
    fault,         \* its kind
    corrupt,       \* its corrupt_at_sequence, MessageCount for no corruption probe
    ring_depth,    \* its DstConfig.ring_depth
    phase,         \* orchestrator: "started", "kill_consumers", "respawn",
                   \* "await_producer", "await_consumers", "ok", "violation", "error"
    ring,          \* messages published to the current segment
    sequence_start,\* first sequence of the producer on this segment
    resets,        \* segments abandoned
    pstep,         \* producer: "attach", "publish", "truncate", "write", "leave",
                   \* "report", "done", "dead"
    pmsgs,         \* messages of its report so far
    pfile,         \* its checkpoint file
    completed,     \* the report file consumers look for exists
    signals,       \* the segment's count of ready consumers
    gating,        \* consumers whose cursors the producer has found
    clear,         \* messages it may publish before it looks at the cursors again
    cstep,         \* consumer: "down", "attach", "signal", "consume", "empty" (its last
                   \* look found nothing), "truncate", "write", "leave", "report",
                   \* "done", "dead"
    attached,      \* consumers whose cursor exists on this segment
    cursor,        \* events of this segment each has acknowledged
    cmsgs, cfile,  \* the report and the checkpoint file of each consumer
    grace,         \* consumers with producer_done_at set
    published,     \* where a restarted producer will start
    partial_p,     \* partial_producer_report
    partial_c,     \* partial_consumer_reports
    restarted,     \* restarted_consumers
    received,      \* history: sequences try_consume_next handed to a consumer on this segment
    hasty,         \* history: consumers that left without looking at the ring after
                   \* they had seen the producer completed
    unguarded      \* history: the producer has claimed slots without regard to one of
                   \* the consumers

runVars == <<backend, fault, corrupt, ring_depth>>
claimVars == <<gating, clear, unguarded>>
producerVars == <<ring, sequence_start, pstep, pmsgs, pfile, completed, claimVars>>
readerVars == <<attached, cursor, signals, received>>
consumerVars == <<readerVars, cstep, cmsgs, cfile, grace, hasty>>
repairVars == <<resets, published, partial_p, partial_c, restarted>>
orchestratorVars == <<phase, repairVars>>
vars == <<runVars, producerVars, consumerVars, orchestratorVars>>

NoReport == [valid |-> FALSE, msgs |-> <<>>]
Report(m) == [valid |-> TRUE, msgs |-> m]

Waits == fault \notin {"unwaited", "smoke"}

\* effective_ring_depth: the runs of a failure class that start without waiting get
\* slots for every message.
EffectiveDepth == IF fault = "unwaited" /\ MessageCount > ring_depth THEN MessageCount
                                                                    ELSE ring_depth

Init ==
    /\ \E run \in Runs : /\ backend = run.backend /\ fault = run.fault
                          /\ corrupt = run.corrupt /\ ring_depth = run.ring_depth
    /\ phase = "started" /\ ring = <<>> /\ sequence_start = 0 /\ resets = 0
    /\ pstep = "attach" /\ pmsgs = <<>> /\ pfile = NoReport /\ completed = FALSE
    /\ signals = 0 /\ gating = {} /\ clear = EffectiveDepth /\ unguarded = FALSE
    /\ cstep = [c \in Consumers |-> "attach"] /\ attached = {}
    /\ cursor = [c \in Consumers |-> 0]
    /\ cmsgs = [c \in Consumers |-> <<>>] /\ cfile = [c \in Consumers |-> NoReport]
    /\ grace = {} /\ hasty = {}
    /\ published = 0 /\ partial_p = NoReport /\ partial_c = [c \in Consumers |-> NoReport]
    /\ restarted = {} /\ received = [c \in Consumers |-> {}]

-----------------------------------------------------------------------------
(***************************************************************************)
(* The reports, and what the runner makes of them.                         *)
(***************************************************************************)

NextSequence(msgs) == IF msgs = <<>> THEN 0 ELSE Last(msgs).seq + 1

Concat_WithOverlap(prefix, suffix) == prefix \o suffix

\* filter: the messages with a sequence in S, in their order.
Filter(msgs, S) ==
    LET kept == {i \in DOMAIN msgs : msgs[i].seq \in S}
        Place(i) == Cardinality({j \in kept : j <= i})
    IN  [k \in 1..Cardinality(kept) |-> msgs[CHOOSE i \in kept : Place(i) = k]]

\* concat_child_reports: the suffix, without what overlaps the prefix.
Concat(prefix, suffix) ==
    prefix \o Filter(suffix, {s \in Nat : s >= NextSequence(prefix)})

\* merge_child_reports: what neither of a consumer's two reports has comes from
\* the producer's.
Merge(producer, prefix, suffix) ==
    LET first == IF suffix = <<>> THEN Len(producer) ELSE Head(suffix).seq
        gap == NextSequence(prefix)..(first - 1)
    IN  Concat(prefix \o Filter(producer, gap), suffix)

\* verify_consumer_messages finds no violation.
OracleAccepts(expected, actual) ==
    /\ Len(actual) = Len(expected)
    /\ \A i \in 2..Len(actual) : actual[i].seq > actual[i - 1].seq
    /\ \A i \in 1..Len(actual) : actual[i] = expected[i]

ProducerReport == Concat(partial_p.msgs, pmsgs)
ConsumerReport(c) ==
    IF c \in restarted THEN Merge(ProducerReport, partial_c[c].msgs, cmsgs[c])
    ELSE cmsgs[c]

-----------------------------------------------------------------------------
(***************************************************************************)
(* The producer child.                                                     *)
(***************************************************************************)

\* The wait for readiness ends: with enough signals, at once without a wait ...
PStart ==
    /\ pstep = "attach"
    /\ Waits => signals >= Cardinality(Consumers)
    /\ pstep' = "publish"
    /\ UNCHANGED <<runVars, ring, sequence_start, pmsgs, pfile, completed, claimVars,
                   consumerVars, orchestratorVars>>

\* ... or after 15 seconds: the shm producer goes on, the mmap producer's assertion
\* fails.
PStartUnready ==
    /\ pstep = "attach" /\ Waits /\ signals < Cardinality(Consumers)
    /\ pstep' = IF backend = "shm" THEN "publish" ELSE "dead"
    /\ UNCHANGED <<runVars, ring, sequence_start, pmsgs, pfile, completed, claimVars,
                   consumerVars, orchestratorVars>>

\* The cursors a look at the consumers may find: every one there is with mmap; none
\* without discovery; else those found before and any others, as the scan of the
\* start may be the last one for scan_interval.
Found ==
    IF backend = "mmap" THEN {attached}
    ELSE IF ~Waits THEN {{}}
    ELSE {g \in SUBSET attached : gating \subseteq g /\ (g = {} => attached = {})}

\* The minimum over them, or its fallback.
Rear(g) ==
    IF g # {} THEN Min({cursor[c] : c \in g})
    ELSE IF backend = "shm" /\ Waits THEN 0 ELSE Len(ring)

\* next_sequences, when the window is used up.
PClaim ==
    /\ pstep = "publish" /\ sequence_start + Len(ring) < MessageCount
    /\ Len(ring) >= clear
    /\ \E g \in Found :
          /\ gating' = g
          /\ IF Rear(g) + EffectiveDepth > Len(ring)
             THEN /\ clear' = Rear(g) + EffectiveDepth
                  /\ unguarded' = (unguarded \/ \E c \in Consumers : cursor[c] < Rear(g))
             ELSE UNCHANGED <<clear, unguarded>>
    /\ UNCHANGED <<runVars, ring, sequence_start, pstep, pmsgs, pfile, completed, consumerVars,
                   orchestratorVars>>

\* A message of sequence s, with the damage of the corruption probe.
Message(s) == [seq |-> s, good |-> s # corrupt \/ resets > 0]

\* The slot of message i of the segment holds the last message published into it; one
\* the producer is writing may also be read new, or half written.
Lapped(i) == i + ((Len(ring) - i) \div EffectiveDepth) * EffectiveDepth

Overwriting(i) ==
    /\ pstep = "publish" /\ sequence_start + Len(ring) < MessageCount /\ Len(ring) < clear
    /\ (Len(ring) + 1 - i) % EffectiveDepth = 0

Contents(i) ==
    LET old == ring[Lapped(i)]
        s == sequence_start + Len(ring)
    IN  {old} \cup {m \in {Message(s)} \cup [seq : {old.seq, s}, good : {FALSE}] : Overwriting(i)}

\* publish, and record the message as it was meant to be.
PPublish ==
    LET s == sequence_start + Len(ring) IN
    /\ pstep = "publish" /\ s < MessageCount /\ Len(ring) < clear
    /\ ring' = Append(ring, Message(s))
    /\ pmsgs' = Append(pmsgs, [seq |-> s, good |-> TRUE])
    /\ pstep' = IF fault = "smoke" THEN "publish" ELSE "truncate"
    /\ UNCHANGED <<runVars, sequence_start, pfile, completed, claimVars, consumerVars,
                   orchestratorVars>>

\* A plausible bug: the checkpoint is written to the path of the report.
PTruncate_ReportPath ==
    /\ pstep \in {"truncate", "leave"}
    /\ pstep' = IF pstep = "truncate" THEN "write" ELSE "report"
    /\ pfile' = NoReport
    /\ completed' = (completed \/ resets = 0)
    /\ UNCHANGED <<runVars, ring, sequence_start, pmsgs, claimVars, consumerVars,
                   orchestratorVars>>

\* maybe_write_checkpoint: the file is truncated, then written.
PTruncate ==
    /\ pstep \in {"truncate", "leave"}
    /\ pstep' = IF pstep = "truncate" THEN "write" ELSE "report"
    /\ pfile' = NoReport
    /\ UNCHANGED <<runVars, ring, sequence_start, pmsgs, completed, claimVars, consumerVars,
                   orchestratorVars>>

PWrite ==
    /\ pstep = "write" /\ pstep' = "publish"
    /\ pfile' = Report(pmsgs)
    /\ UNCHANGED <<runVars, ring, sequence_start, pmsgs, completed, claimVars, consumerVars,
                   orchestratorVars>>

\* Everything is published: hold, write a last checkpoint.
PLeave ==
    /\ pstep = "publish" /\ sequence_start + Len(ring) = MessageCount
    /\ pstep' = "leave"
    /\ UNCHANGED <<runVars, ring, sequence_start, pmsgs, pfile, completed, claimVars,
                   consumerVars, orchestratorVars>>

\* The report.  After a restart its path is that of the new segment, and the
\* consumers still look for the old one.
PReport ==
    /\ pstep = "report" /\ pstep' = "done"
    /\ pfile' = Report(pmsgs)
    /\ completed' = (resets = 0)
    /\ UNCHANGED <<runVars, ring, sequence_start, pmsgs, claimVars, consumerVars,
                   orchestratorVars>>

-----------------------------------------------------------------------------
(***************************************************************************)
(* A consumer child.                                                       *)
(***************************************************************************)

Goal_WholeRun == MessageCount

\* consumer_message_count: the whole run, or what is left after a reset.
Goal == IF resets = 0 THEN MessageCount ELSE MessageCount - sequence_start

\* The cursor is created at the start of the log, or found where it was.  With mmap
\* only its creator goes on to signal.
CAttach(c) ==
    /\ cstep[c] = "attach" /\ (pstep = "done" => backend = "mmap")
    /\ cstep' = [cstep EXCEPT ![c] = IF c \in attached /\ backend = "mmap" THEN "consume"
                                                                        ELSE "signal"]
    /\ attached' = attached \cup {c}
    /\ UNCHANGED <<runVars, producerVars, cursor, cmsgs, cfile, grace, signals, received, hasty,
                   orchestratorVars>>

\* The shm producer has ended and taken its segment with it.
CAttachFails(c) ==
    /\ cstep[c] = "attach" /\ pstep = "done" /\ backend = "shm"
    /\ cstep' = [cstep EXCEPT ![c] = "dead"]
    /\ UNCHANGED <<runVars, producerVars, readerVars, cmsgs, cfile, grace, hasty,
                   orchestratorVars>>

CSignal(c) ==
    /\ cstep[c] = "signal"
    /\ cstep' = [cstep EXCEPT ![c] = "consume"]
    /\ signals' = signals + 1
    /\ UNCHANGED <<runVars, producerVars, attached, cursor, cmsgs, cfile, grace, received, hasty,
                   orchestratorVars>>

\* try_consume_next has acknowledged the event when it returns it; validate_event
\* panics over a damaged one unless the run has a probe.
CConsume(c) ==
    /\ cstep[c] \in {"consume", "empty"} /\ Len(cmsgs[c]) < Goal /\ cursor[c] < Len(ring)
    /\ cursor' = [cursor EXCEPT ![c] = @ + 1]
    /\ \E m \in Contents(cursor[c] + 1) :
          /\ received' = [received EXCEPT ![c] = @ \cup {m.seq}]
          /\ IF m.good \/ corrupt # MessageCount
             THEN /\ cmsgs' = [cmsgs EXCEPT ![c] = Append(@, m)]
                  /\ cstep' = [cstep EXCEPT ![c] = IF fault = "smoke" THEN "consume"
                                                                     ELSE "truncate"]
             ELSE cstep' = [cstep EXCEPT ![c] = "dead"] /\ UNCHANGED cmsgs
    /\ grace' = grace \ {c}
    /\ UNCHANGED <<runVars, producerVars, attached, cfile, signals, hasty, orchestratorVars>>

CTruncate(c) ==
    /\ cstep[c] \in {"truncate", "leave"}
    /\ cstep' = [cstep EXCEPT ![c] = IF @ = "truncate" THEN "write" ELSE "report"]
    /\ cfile' = [cfile EXCEPT ![c] = NoReport]
    /\ UNCHANGED <<runVars, producerVars, readerVars, cmsgs, grace, hasty, orchestratorVars>>

CWrite(c) ==
    /\ cstep[c] \in {"write", "report"}
    /\ cstep' = [cstep EXCEPT ![c] = IF @ = "write" THEN "consume" ELSE "done"]
    /\ cfile' = [cfile EXCEPT ![c] = Report(cmsgs[c])]
    /\ UNCHANGED <<runVars, producerVars, readerVars, cmsgs, grace, hasty, orchestratorVars>>

\* It has all it wants.
CFinish(c) ==
    /\ cstep[c] = "consume" /\ Len(cmsgs[c]) >= Goal
    /\ cstep' = [cstep EXCEPT ![c] = "leave"]
    /\ UNCHANGED <<runVars, producerVars, readerVars, cmsgs, cfile, grace, hasty,
                   orchestratorVars>>

\* try_consume_next finds nothing.  It is called again and again: of those calls that
\* find nothing and are followed by no other step, this is the last.
CLook(c) ==
    /\ cstep[c] = "consume" /\ Len(cmsgs[c]) < Goal /\ cursor[c] = Len(ring)
    /\ cstep' = [cstep EXCEPT ![c] = "empty"]
    /\ UNCHANGED <<runVars, producerVars, readerVars, cmsgs, cfile, grace, hasty,
                   orchestratorVars>>

\* After that look it finds the producer completed, and producer_done_at is now: if
\* the grace period is not over at once, it looks again.
CGrace(c) ==
    /\ cstep[c] = "empty" /\ completed /\ c \notin grace
    /\ grace' = grace \cup {c}
    /\ cstep' = [cstep EXCEPT ![c] = "consume"]
    /\ UNCHANGED <<runVars, producerVars, readerVars, cmsgs, cfile, hasty, orchestratorVars>>

\* The grace period is over; with a period of 0, or after a pause of its length, it
\* is so in the pass that sees the producer completed first.
CLeave(c) ==
    /\ cstep[c] = "empty" /\ completed
    /\ cstep' = [cstep EXCEPT ![c] = "leave"]
    /\ hasty' = IF c \in grace THEN hasty ELSE hasty \cup {c}
    /\ UNCHANGED <<runVars, producerVars, readerVars, cmsgs, cfile, grace, orchestratorVars>>

\* consume_deadline.
CTimesOut(c) ==
    /\ cstep[c] = "empty"
    /\ cstep' = [cstep EXCEPT ![c] = "dead"]
    /\ UNCHANGED <<runVars, producerVars, readerVars, cmsgs, cfile, grace, hasty,
                   orchestratorVars>>

-----------------------------------------------------------------------------
(***************************************************************************)
(* The orchestrator: apply_runtime_faults and the end of the run.          *)
(***************************************************************************)

\* The policy injects no fault (a suspended consumer is one that takes no step).
NoFault ==
    /\ phase = "started" /\ fault \in {"none", "unwaited", "smoke"}
    /\ phase' = "await_producer"
    /\ UNCHANGED <<runVars, producerVars, consumerVars, repairVars>>

\* restart_sequence_start: the consumers have not been killed yet, and none of
\* their partial reports is there to be looked at.
RestartSequenceStart(report) ==
    LET NextSequences == {NextSequence(partial_c[c].msgs) : c \in Consumers}
                             \cup {NextSequence(report.msgs)}
    IN  CHOOSE s \in NextSequences : \A t \in NextSequences : t <= s

\* Kill the producer and read its checkpoint; a producer that has ended, or a
\* checkpoint with every message, is an error of the run.
KillProducer ==
    /\ phase = "started" /\ fault = "producer_kill"
    /\ IF pstep = "done" \/ RestartSequenceStart(pfile) >= MessageCount
       THEN phase' = "error" /\ UNCHANGED <<pstep, published, partial_p>>
       ELSE /\ phase' = "kill_consumers" /\ pstep' = "dead"
            /\ partial_p' = pfile
            /\ published' = RestartSequenceStart(pfile)
    /\ UNCHANGED <<runVars, ring, sequence_start, pmsgs, pfile, completed, claimVars,
                   consumerVars, resets, partial_c, restarted>>

\* kill_child_immediately.
Kill(c) ==
    /\ partial_c' = [partial_c EXCEPT ![c] = cfile[c]]
    /\ restarted' = restarted \cup {c}
    /\ cfile' = [cfile EXCEPT ![c] = NoReport]
    /\ cstep' = [cstep EXCEPT ![c] = "down"]
    /\ hasty' = hasty \ {c}

KillConsumer(c) ==
    /\ phase = "kill_consumers" /\ c \notin restarted
    /\ IF cstep[c] = "done"
       THEN phase' = "error" /\ UNCHANGED <<partial_c, restarted, cfile, cstep, hasty>>
       ELSE Kill(c) /\ UNCHANGED phase
    /\ UNCHANGED <<runVars, producerVars, readerVars, cmsgs, grace, resets, published, partial_p>>

\* A plausible bug: the consumers keep their ids, and so their cursors.
Respawn_SameIds ==
    /\ phase = "kill_consumers" /\ restarted = Consumers
    /\ phase' = "await_producer" /\ resets' = resets + 1
    /\ ring' = <<>> /\ sequence_start' = published
    /\ pstep' = "attach" /\ pmsgs' = <<>> /\ pfile' = NoReport
    /\ signals' = 0 /\ gating' = {} /\ clear' = EffectiveDepth
    /\ cstep' = [c \in Consumers |-> "attach"] /\ attached' = {} /\ grace' = {}
    /\ cmsgs' = [c \in Consumers |-> <<>>] /\ received' = [c \in Consumers |-> {}]
    /\ UNCHANGED <<runVars, cursor, completed, cfile, hasty, unguarded, published, partial_p,
                   partial_c, restarted>>

\* A new segment, new consumers with new ids and a producer for the rest.
Respawn ==
    /\ phase = "kill_consumers" /\ restarted = Consumers
    /\ phase' = "await_producer" /\ resets' = resets + 1
    /\ ring' = <<>> /\ sequence_start' = published
    /\ pstep' = "attach" /\ pmsgs' = <<>> /\ pfile' = NoReport
    /\ signals' = 0 /\ gating' = {} /\ clear' = EffectiveDepth
    /\ cstep' = [c \in Consumers |-> "attach"] /\ attached' = {} /\ grace' = {}
    /\ cursor' = [c \in Consumers |-> 0] /\ cmsgs' = [c \in Consumers |-> <<>>]
    /\ received' = [c \in Consumers |-> {}]
    /\ UNCHANGED <<runVars, completed, cfile, hasty, unguarded, published, partial_p, partial_c,
                   restarted>>

\* Kill one consumer; it is started again under its id on the same segment.
KillOneConsumer(c) ==
    /\ phase = "started" /\ fault = "consumer_kill"
    /\ IF cstep[c] = "done"
       THEN phase' = "error" /\ UNCHANGED <<partial_c, restarted, cfile, cstep, hasty>>
       ELSE Kill(c) /\ phase' = "respawn"
    /\ UNCHANGED <<runVars, producerVars, readerVars, cmsgs, grace, resets, published, partial_p>>

RestartConsumer ==
    /\ phase = "respawn" /\ phase' = "await_producer"
    /\ cstep' = [c \in Consumers |-> IF c \in restarted THEN "attach" ELSE cstep[c]]
    /\ cmsgs' = [c \in Consumers |-> IF c \in restarted THEN <<>> ELSE cmsgs[c]]
    /\ grace' = grace \ restarted
    /\ UNCHANGED <<runVars, producerVars, readerVars, cfile, hasty, repairVars>>

\* wait_and_decode_child for the producer.
AwaitProducer ==
    /\ phase = "await_producer" /\ pstep \in {"done", "dead"}
    /\ phase' = IF pstep = "done" THEN "await_consumers" ELSE "error"
    /\ UNCHANGED <<runVars, producerVars, consumerVars, repairVars>>

\* ... and for every consumer: a child that failed ends the run, and the oracle
\* judges the reports of those that ended well.
Verify ==
    /\ phase = "await_consumers"
    /\ \/ /\ \E c \in Consumers : cstep[c] = "dead"
          /\ phase' = "error"
       \/ /\ \A c \in Consumers : cstep[c] = "done"
          /\ phase' = IF \A c \in Consumers : OracleAccepts(ProducerReport, ConsumerReport(c))
                      THEN "ok" ELSE "violation"
    /\ UNCHANGED <<runVars, producerVars, consumerVars, repairVars>>

WaitTimesOut ==
    /\ \/ phase = "await_producer" /\ pstep # "done"
       \/ phase = "await_consumers" /\ \E c \in Consumers : cstep[c] # "done"
    /\ phase' = "error"
    /\ UNCHANGED <<runVars, producerVars, consumerVars, repairVars>>

-----------------------------------------------------------------------------
Producer ==
    PStart \/ PStartUnready \/ PClaim \/ PPublish \/ PTruncate \/ PWrite \/ PLeave \/ PReport

Consumer(c) ==
    \/ CAttach(c) \/ CAttachFails(c) \/ CSignal(c) \/ CConsume(c) \/ CTruncate(c)
    \/ CWrite(c) \/ CFinish(c) \/ CLook(c) \/ CGrace(c) \/ CLeave(c)

Orchestrator ==
    \/ NoFault \/ KillProducer \/ Respawn \/ RestartConsumer \/ AwaitProducer \/ Verify
    \/ \E c \in Consumers : KillConsumer(c) \/ KillOneConsumer(c)

Next ==
    \/ Producer \/ Orchestrator \/ WaitTimesOut
    \/ \E c \in Consumers : Consumer(c) \/ CTimesOut(c)

Spec == Init /\ [][Next]_vars

Progress == Producer \/ Orchestrator \/ \E c \in Consumers : Consumer(c)

\* Some process that can go on does, and the orchestrator's delays end: less than a
\* scheduler gives each process, and enough as a poll that changes nothing is no step.
FairSpec == Spec /\ WF_vars(Progress)

-----------------------------------------------------------------------------
(***************************************************************************)
(* Properties.                                                             *)
(***************************************************************************)

Sequences == 0..(MessageCount - 1)
Messages == [seq : Sequences, good : BOOLEAN]
Reports == [valid : BOOLEAN, msgs : Seq(Messages)]
Judged == phase \in {"ok", "violation"}
Finished == Judged \/ phase = "error"

TypeOK ==
    /\ backend \in {"shm", "mmap"} /\ fault \in FaultKinds /\ corrupt \in 0..MessageCount
    /\ ring_depth \in Nat \ {0}
    /\ phase \in {"started", "kill_consumers", "respawn", "await_producer",
                  "await_consumers", "ok", "violation", "error"}
    /\ ring \in Seq(Messages) /\ {sequence_start, published} \subseteq Sequences /\ resets \in 0..1
    /\ pstep \in {"attach", "publish", "truncate", "write", "leave", "report", "done", "dead"}
    /\ pmsgs \in Seq(Messages) /\ pfile \in Reports /\ completed \in BOOLEAN
    /\ {signals, clear} \subseteq Nat /\ gating \subseteq Consumers /\ unguarded \in BOOLEAN
    /\ cstep \in [Consumers -> {"down", "attach", "signal", "consume", "empty", "truncate",
                                "write", "leave", "report", "done", "dead"}]
    /\ attached \subseteq Consumers /\ cursor \in [Consumers -> 0..MessageCount]
    /\ \A c \in Consumers : cursor[c] <= Len(ring)
    /\ cmsgs \in [Consumers -> Seq(Messages)] /\ cfile \in [Consumers -> Reports]
    /\ grace \cup hasty \cup restarted \subseteq Consumers
    /\ partial_p \in Reports /\ partial_c \in [Consumers -> Reports]
    /\ received \in [Consumers -> SUBSET Sequences]

\* A run without a probe is failed only over a consumer that was lapped or left early,
\* and a run whose reports needed no repair passes only without one (OracleVerdict of
\* verify_consumer_messages).
OracleRight ==
    /\ corrupt = MessageCount /\ phase = "violation" => unguarded \/ hasty # {}
    /\ phase = "ok" /\ restarted = {} => corrupt = MessageCount

\* The oracle raises no false alarm: whenever and wherever a kill hits, whatever
\* it does to a checkpoint, the repaired reports (merge_child_reports) are in order
\* and complete, unless a consumer was lapped or left early; over a restart the
\* producer's report (concat_child_reports) has each sequence exactly once.  A
\* corrupted payload is found when no report had to be repaired, lapped or not.
VerdictCorrect ==
    /\ OracleRight
    /\ Judged => ProducerReport = [i \in 1..MessageCount |-> [seq |-> i - 1, good |-> TRUE]]

\* A consumer leaves only when it has received everything, if the grace period let it
\* look once more; a kill of it leaves its cursor where it was, and no event between
\* what was handed to the dead process and what the new one gets (attach by id).  The
\* producer overwrites what a consumer has not read only in a ring that is smaller than
\* the run, and when it waits for readiness only through shared memory, where it
\* goes on after a timeout and may have missed a cursor in its last scan.
NothingLost ==
    /\ unguarded => EffectiveDepth < MessageCount /\ (Waits => backend = "shm")
    /\ ~unguarded =>
          /\ \A c \in Consumers \ (restarted \cup hasty) :
                cstep[c] = "done" => received[c] = Sequences
          /\ Judged /\ fault = "consumer_kill" =>
                \A c \in Consumers \ hasty : received[c] = Sequences

\* What each phase of the orchestrator says about the run so far.
PhaseConsistent ==
    /\ phase = "started" =>
          resets = 0 /\ restarted = {} /\ \A c \in Consumers : partial_c[c] = NoReport
    /\ phase = "kill_consumers" => resets = 0 /\ fault = "producer_kill" /\ pstep = "dead"
    /\ phase = "respawn" => resets = 0
    /\ resets = 1 => restarted = Consumers /\ fault = "producer_kill"
    /\ phase = "await_consumers" \/ Judged => pstep = "done"
    /\ Judged => \A c \in Consumers : cstep[c] = "done"

\* The ring holds the sequences from the producer's start on, and a producer that has
\* ended has published all of them.
RingConsistent ==
    /\ \A i \in 1..Len(ring) : ring[i].seq = sequence_start + i - 1
    /\ sequence_start + Len(ring) <= MessageCount
    /\ resets = 0 => sequence_start = 0
    /\ pstep \in {"leave", "report", "done"} => sequence_start + Len(ring) = MessageCount
    /\ completed => pstep = "done" /\ resets = 0
    /\ grace # {} \/ hasty # {} => completed

\* A run with kills, before anything is said about windows and reports.
RunConsistent == TypeOK /\ PhaseConsistent /\ RingConsistent

\* Every consumer that signals has its cursor, and with mmap it signals once: a wait
\* that ends well has all of them, and they bound what the producer may publish.
WindowConsistent ==
    /\ EffectiveDepth <= clear /\ Len(ring) <= clear
    /\ \A c \in Consumers : cstep[c] = "signal" => c \in attached
    /\ backend = "mmap" =>
          /\ signals <= Cardinality({c \in attached : cstep[c] # "signal"})
          /\ Waits /\ pstep \notin {"attach", "dead"} => attached = Consumers
    /\ ~unguarded => \A c \in Consumers : clear <= cursor[c] + EffectiveDepth
    /\ unguarded => EffectiveDepth < MessageCount /\ (Waits => backend = "shm")

\* On the first segment a consumer has received what its cursor has passed, its report
\* has no more than that, and it leaves only at the end.
ConsumersConsistent ==
    /\ \A c \in grace : cstep[c] = "empty" => cursor[c] = MessageCount
    /\ resets = 0 =>
          \A c \in Consumers :
              /\ received[c] = 0..(cursor[c] - 1)
              /\ Len(cmsgs[c]) <= cursor[c]
              /\ cstep[c] \in {"leave", "report", "done"} /\ c \notin hasty =>
                    cursor[c] = MessageCount

\* msgs are what a producer reports that has published from sequence first on.
Published(msgs, first) ==
    \A i \in 1..Len(msgs) : msgs[i] = [seq |-> first + i - 1, good |-> TRUE]

\* msgs are what a consumer of the first segment reports, all good if the run has no
\* corruption probe.
Received(msgs) ==
    \A i \in 1..Len(msgs) : msgs[i].seq = i - 1 /\ (corrupt = MessageCount => msgs[i].good)

\* The producer's report keeps step with the ring, its checkpoint is behind, and the
\* one a kill left says where the next producer starts.
ProducerReports ==
    /\ Len(pmsgs) = Len(ring) /\ Published(pmsgs, sequence_start)
    /\ \A i \in 1..Len(ring) : ring[i].good <=> ring[i].seq # corrupt \/ resets > 0
    /\ Published(pfile.msgs, sequence_start) /\ Published(partial_p.msgs, 0)
    /\ resets = 0 /\ phase \notin {"kill_consumers", "error"} => partial_p = NoReport
    /\ phase = "kill_consumers" \/ resets = 1 => published = Len(partial_p.msgs)
    /\ resets = 1 => sequence_start = published

\* On the first segment no consumer has a good message of the damaged sequence.
ProbeSeen ==
    resets = 0 =>
        \A c \in Consumers : \A i \in 1..Len(cmsgs[c]) : cmsgs[c][i].good => cmsgs[c][i].seq # corrupt

\* A consumer's report is what lies before its cursor, from where this process began;
\* what it wrote down before it was killed lies before that.
ReportConsistent(c) ==
    /\ Len(cmsgs[c]) <= cursor[c]
    /\ c \notin restarted \/ resets = 1 => Len(cmsgs[c]) = cursor[c]
    /\ \A i \in 1..Len(cmsgs[c]) : cmsgs[c][i] = ring[cursor[c] - Len(cmsgs[c]) + i]
    /\ resets = 0 /\ c \notin restarted =>
          Received(cfile[c].msgs) /\ Len(cfile[c].msgs) <= cursor[c]
    /\ c \notin restarted => partial_c[c] = NoReport
    /\ Received(partial_c[c].msgs) /\ Len(partial_c[c].msgs) <= MessageCount
    /\ resets = 0 => Len(partial_c[c].msgs) <= cursor[c]
    /\ resets = 0 /\ phase \notin {"kill_consumers", "respawn", "error"} =>
          Len(partial_c[c].msgs) + Len(cmsgs[c]) <= cursor[c]
    /\ resets = 1 /\ cstep[c] \in {"leave", "report", "done"} =>
          Len(cmsgs[c]) = MessageCount - sequence_start

ConsumerReports == \A c \in Consumers : ReportConsistent(c)

\* The inductive invariant (the code it is about: run_raw_ring_case of the runner, the
\* loops of its children, the window of the producer, and the repair of the reports).
IInv ==
    /\ RunConsistent /\ WindowConsistent /\ ProducerReports /\ ProbeSeen /\ OracleRight
    /\ ~unguarded => ConsumersConsistent /\ ConsumerReports

\* Every run ends, unless a child gave up: no kill leaves the others waiting.
RunEnds == <>(Finished \/ \E c \in Consumers : cstep[c] = "dead")
================================================================================
