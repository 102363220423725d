--------------------------- MODULE RequiredConsumer ---------------------------
(***************************************************************************)
(* Required-consumer liveness: publish_managed and publish_batch_managed   *)
(* wait at start-up for a fixed set of consumers, and, when the ring is    *)
(* full, watch whether these consumers advance.  One that does not for     *)
(* progress_timeout raises an alert; if it does not recover within         *)
(* shutdown_grace_period the call fails for good.                          *)
(*                                                                         *)
(* The producer reads the clock first and the cursors after it, one       *)
(* consumer at a time, and records what it sees under the time it read: it *)
(* may be paused in between, so that a consumer moves after the instant    *)
(* its progress is dated with.                                             *)
(*                                                                         *)
(* Time is a Tick.  The instants the watch keeps are given as their age at *)
(* the clock reading it used last, which is lag old, saturating at the     *)
(* largest value they are compared with, so that time is not bounded.  A   *)
(* consumer may advance, be slow, die or come back: all of it is its       *)
(* cursor moving or not moving.  Its segment is taken to be initialised    *)
(* when it appears (ConsumerDiscovery has the moment before that).         *)
(***************************************************************************)
EXTENDS Integers, Sequences, FiniteSets, FiniteSetsExt

CONSTANTS
    Required,          \* required_consumer_ids, in the order they are checked
    Size,              \* slots of the ring
    MaxBatch,          \* bound on the events of one call
    MaxSequence,       \* bound on the sequences ever published
    StartupTimeout,    \* startup_wait_timeout
    ProgressTimeout,   \* progress_timeout
    CheckInterval,     \* progress_check_interval
    Grace              \* shutdown_grace_period

ASSUME SizesAssumption ==
    Size \in Nat \ {0} /\ MaxBatch \in Nat \ {0} /\ MaxSequence \in Nat
ASSUME TimeoutsAssumption ==
    /\ StartupTimeout \in Nat \ {0} /\ ProgressTimeout \in Nat \ {0}
    /\ CheckInterval \in Nat \ {0} /\ Grace \in Nat

Consumers == {Required[i] : i \in DOMAIN Required}

ASSUME RequiredAssumption == Required \in Seq(Consumers) /\ Required # <<>>

VARIABLES
    cursor,             \* consumer -> its cursor, NoSegment before it exists
    sequence,           \* the producer's next sequence
    ppc,                \* where its call is: "idle", "startup" (looking for the
                        \* required consumers), "missed" (some are not there),
                        \* "seed" (taking their first cursors), "try" (claiming),
                        \* "check" or "observe" (loading the cursors of a check)
    n,                  \* events of the call under way
    at,                 \* "seed", "observe": the consumer whose turn it is
    startup_wait,       \* time since the start-up wait began
    lag,                \* time since the clock was read for a check or the seed
    \* RequiredConsumerLivenessState, ages at that reading.
    startup_completed,
    since_check,        \* of last_check_at
    terminal_error,     \* the consumer it names, or None
    \* RequiredConsumerProgress, ages at that reading.
    last_observed_sequence,
    idle,               \* consumer -> of last_progress_at
    stalled,            \* consumer -> of stall_started_at, or None
    alert_emitted,
    \* History.
    quiet,              \* consumer -> time since its cursor last moved; or since the
                        \* clock was read for the check that had yet to load it then
    behind,             \* consumer -> time it has had events and not moved
    alerts              \* consumer -> alerts since its cursor last moved

progress == <<last_observed_sequence, idle, stalled, alert_emitted>>
history == <<quiet, behind, alerts>>
watch == <<startup_completed, since_check, terminal_error, progress>>
vars == <<cursor, sequence, ppc, n, at, startup_wait, lag, watch, history>>

NoSegment == -2
None == -1
NoConsumer == "none"

\* The largest time measured.
Horizon == ProgressTimeout + Grace + CheckInterval
Pass(t, limit) == IF t < limit THEN t + 1 ELSE t

\* The age now of what had age t at the last reading of the clock.
Older(t, limit) == IF t + lag < limit THEN t + lag ELSE limit

-----------------------------------------------------------------------------
Init ==
    /\ cursor = [c \in Consumers |-> NoSegment]
    /\ sequence = 0
    /\ ppc = "idle" /\ n = 1 /\ at = 1 /\ startup_wait = 0 /\ lag = 0
    /\ startup_completed = FALSE /\ since_check = 0 /\ terminal_error = NoConsumer
    /\ last_observed_sequence = [c \in Consumers |-> -1]
    /\ idle = [c \in Consumers |-> 0]
    /\ stalled = [c \in Consumers |-> None]
    /\ alert_emitted = [c \in Consumers |-> FALSE]
    /\ quiet = [c \in Consumers |-> 0]
    /\ behind = [c \in Consumers |-> 0]
    /\ alerts = [c \in Consumers |-> 0]

-----------------------------------------------------------------------------
(***************************************************************************)
(* The environment.                                                        *)
(***************************************************************************)

\* The clock was read and the cursor of c is still to be loaded.
Pending(c) ==
    /\ ppc \in {"seed", "observe"}
    /\ \E i \in DOMAIN Required : i >= at /\ Required[i] = c

Appear(c) ==
    /\ cursor[c] = NoSegment
    /\ cursor' = [cursor EXCEPT ![c] = -1]
    /\ quiet' = [quiet EXCEPT ![c] = 0]
    /\ UNCHANGED <<sequence, ppc, n, at, startup_wait, lag, watch, behind, alerts>>

\* It acknowledges one event or a batch.
Advance(c) ==
    /\ cursor[c] # NoSegment
    /\ \E s \in (cursor[c] + 1)..(sequence - 1) : cursor' = [cursor EXCEPT ![c] = s]
    /\ quiet' = [quiet EXCEPT ![c] = IF Pending(c) THEN lag ELSE 0]
    /\ behind' = [behind EXCEPT ![c] = 0]
    /\ alerts' = [alerts EXCEPT ![c] = 0]
    /\ UNCHANGED <<sequence, ppc, n, at, startup_wait, lag, watch>>

HasEvents(c) == cursor[c] # NoSegment /\ cursor[c] < sequence - 1

Tick ==
    /\ startup_wait' = IF ppc \in {"startup", "missed"} THEN Pass(startup_wait, StartupTimeout)
                                                        ELSE 0
    /\ lag' = Pass(lag, Horizon)
    /\ quiet' = [c \in Consumers |-> Pass(quiet[c], Horizon)]
    /\ behind' = [c \in Consumers |->
                     IF HasEvents(c) THEN Pass(behind[c], Horizon) ELSE behind[c]]
    /\ UNCHANGED <<cursor, sequence, ppc, n, at, watch, alerts>>

-----------------------------------------------------------------------------
(***************************************************************************)
(* A managed call.                                                         *)
(***************************************************************************)

Return == ppc' = "idle" /\ n' = 1 /\ at' = 1 /\ startup_wait' = 0

Call(k) ==
    /\ ppc = "idle"
    /\ sequence - 1 + k <= MaxSequence
    /\ ppc' = IF startup_completed THEN "try" ELSE "startup"
    /\ n' = k
    /\ UNCHANGED <<cursor, sequence, at, startup_wait, lag, watch, history>>

Missing == {c \in Consumers : cursor[c] = NoSegment}

\* Instant::now(): the ages kept become those at this reading.
ReadClock ==
    /\ idle' = [c \in Consumers |-> Older(idle[c], ProgressTimeout)]
    /\ stalled' = [c \in Consumers |->
                      IF stalled[c] = None THEN None ELSE Older(stalled[c], Grace)]
    /\ lag' = 0 /\ at' = 1

StartupFinds_Any ==
    /\ ppc = "startup"
    /\ ReadClock
    /\ ppc' = "seed" /\ startup_wait' = 0
    /\ UNCHANGED <<cursor, sequence, n, startup_completed, since_check, terminal_error,
                   last_observed_sequence, alert_emitted, history>>

\* ensure_required_consumers_ready finds them all and reads the clock ...
StartupFinds ==
    /\ ppc = "startup" /\ Missing = {}
    /\ ReadClock
    /\ ppc' = "seed" /\ startup_wait' = 0
    /\ UNCHANGED <<cursor, sequence, n, startup_completed, since_check, terminal_error,
                   last_observed_sequence, alert_emitted, history>>

StartupMisses ==
    /\ ppc = "startup" /\ Missing # {}
    /\ ppc' = "missed"
    /\ UNCHANGED <<cursor, sequence, n, at, startup_wait, lag, watch, history>>

StartupPolls ==
    /\ ppc = "missed" /\ startup_wait < StartupTimeout
    /\ ppc' = "startup"
    /\ UNCHANGED <<cursor, sequence, n, at, startup_wait, lag, watch, history>>

\* StartupTimeout, also when the last one has appeared meanwhile: the next call
\* waits anew.
StartupFails ==
    /\ ppc = "missed" /\ startup_wait >= StartupTimeout
    /\ Return
    /\ UNCHANGED <<cursor, sequence, lag, watch, history>>

\* seed_progress and evaluate_blocked come to the next consumer.
NextConsumer(afterLast) ==
    IF at < Len(Required)
    THEN at' = at + 1 /\ UNCHANGED <<ppc, startup_completed, since_check>>
    ELSE at' = 1 /\ ppc' = "try" /\ afterLast

\* ... and seed_progress loads one cursor after the other.
Seed ==
    /\ ppc = "seed"
    /\ LET c == Required[at] IN
          /\ last_observed_sequence' = [last_observed_sequence EXCEPT ![c] = cursor[c]]
          /\ idle' = [idle EXCEPT ![c] = 0]
          /\ stalled' = [stalled EXCEPT ![c] = None]
          /\ alert_emitted' = [alert_emitted EXCEPT ![c] = FALSE]
    /\ NextConsumer(startup_completed' = TRUE /\ since_check' = 0)
    /\ UNCHANGED <<cursor, sequence, n, startup_wait, lag, terminal_error, history>>

Free == Min({cursor[c] : c \in Consumers}) - (sequence - 1 - Size)

Publish ==
    /\ ppc = "try" /\ Free >= n
    /\ sequence' = sequence + n
    /\ Return
    /\ UNCHANGED <<cursor, lag, watch, history>>

RingFull ==
    /\ ppc = "try" /\ Free < n
    /\ ppc' = "check"
    /\ UNCHANGED <<cursor, sequence, n, at, startup_wait, lag, watch, history>>

ShouldCheck == Older(since_check, CheckInterval) >= CheckInterval

\* evaluate_blocked, while the previous check is recent.
TooEarly ==
    /\ ppc = "check" /\ terminal_error = NoConsumer /\ ~ShouldCheck
    /\ ppc' = "try"
    /\ UNCHANGED <<cursor, sequence, n, at, startup_wait, lag, watch, history>>

\* evaluate_blocked, after a failure: the same failure again.
FailAgain ==
    /\ ppc = "check" /\ terminal_error # NoConsumer
    /\ Return
    /\ UNCHANGED <<cursor, sequence, lag, watch, history>>

\* check_required_consumer_liveness reads the clock; the check is dated with it.
BeginCheck ==
    /\ ppc = "check" /\ terminal_error = NoConsumer /\ ShouldCheck
    /\ ReadClock
    /\ since_check' = 0 /\ ppc' = "observe"
    /\ UNCHANGED <<cursor, sequence, n, startup_wait, startup_completed, terminal_error,
                   last_observed_sequence, alert_emitted, history>>

\* The verdict of evaluate_blocked on one consumer, at the age its progress had
\* when the clock was read.
Advanced(c) == cursor[c] > last_observed_sequence[c]
CaughtUp(c) == cursor[c] >= sequence - 1

Healthy_OneShort(c) == Advanced(c) \/ cursor[c] >= sequence - 2
Healthy(c) == Advanced(c) \/ CaughtUp(c)

Stalls_AsOfNow(c) == ~Healthy(c) /\ Older(idle[c], ProgressTimeout) >= ProgressTimeout
Stalls(c) == ~Healthy(c) /\ idle[c] >= ProgressTimeout

Expired(c) == Stalls(c) /\ (Grace = 0 \/ stalled[c] >= Grace)

NewAlert_EveryCheck(c) == Stalls(c)
NewAlert(c) == Stalls(c) /\ ~alert_emitted[c]

StallStart(c) ==
    IF Healthy(c) THEN None
    ELSE IF Stalls(c) /\ stalled[c] = None THEN 0 ELSE stalled[c]

\* evaluate_blocked loads one cursor; the first consumer that has used up its
\* grace period ends the loop and the call.
Observe ==
    /\ ppc = "observe"
    /\ LET c == Required[at] IN
          /\ last_observed_sequence' = [last_observed_sequence EXCEPT
                                           ![c] = IF Advanced(c) THEN cursor[c] ELSE @]
          /\ idle' = [idle EXCEPT ![c] = IF Healthy(c) THEN 0 ELSE @]
          /\ stalled' = [stalled EXCEPT ![c] = StallStart(c)]
          /\ alert_emitted' = [alert_emitted EXCEPT ![c] = ~Healthy(c) /\ (@ \/ NewAlert(c))]
          /\ alerts' = [alerts EXCEPT ![c] = IF NewAlert(c) THEN Pass(@, 2) ELSE @]
          /\ \/ /\ Expired(c)
                /\ terminal_error' = c
                /\ Return
                /\ UNCHANGED <<startup_completed, since_check>>
             \/ /\ ~Expired(c)
                /\ NextConsumer(UNCHANGED <<startup_completed, since_check>>)
                /\ UNCHANGED <<terminal_error, n, startup_wait>>
    /\ UNCHANGED <<cursor, sequence, lag, quiet, behind>>

-----------------------------------------------------------------------------
CallStep == StartupFinds \/ StartupMisses \/ StartupPolls \/ StartupFails \/ Seed
                \/ Publish \/ RingFull \/ TooEarly \/ FailAgain \/ BeginCheck \/ Observe

Next ==
    \/ \E c \in Consumers : Appear(c) \/ Advance(c)
    \/ Tick
    \/ \E k \in 1..MaxBatch : Call(k)
    \/ CallStep

Spec == Init /\ [][Next]_vars

\* Time passes and the calling thread runs.  Nothing is assumed of the consumers.
FairSpec == Spec /\ WF_vars(Tick) /\ WF_vars(CallStep)

-----------------------------------------------------------------------------
(***************************************************************************)
(* What must hold.                                                         *)
(***************************************************************************)

TypeOK ==
    /\ cursor \in [Consumers -> NoSegment..MaxSequence]
    /\ sequence \in 0..(MaxSequence + 1)
    /\ ppc \in {"idle", "startup", "missed", "seed", "try", "check", "observe"}
    /\ n \in 1..MaxBatch /\ at \in DOMAIN Required
    /\ startup_wait \in 0..StartupTimeout /\ lag \in 0..Horizon
    /\ startup_completed \in BOOLEAN /\ since_check \in 0..CheckInterval
    /\ terminal_error \in Consumers \union {NoConsumer}
    /\ last_observed_sequence \in [Consumers -> -1..MaxSequence]
    /\ idle \in [Consumers -> 0..ProgressTimeout]
    /\ stalled \in [Consumers -> {None} \union 0..Grace]
    /\ alert_emitted \in [Consumers -> BOOLEAN]
    /\ quiet \in [Consumers -> 0..Horizon]
    /\ behind \in [Consumers -> 0..Horizon]
    /\ alerts \in [Consumers -> 0..2]

\* A call fails over a consumer only if that consumer has had events to read for
\* the whole grace period without moving, and has not moved for progress_timeout
\* and the grace period, counted from the clock reading of the check that was to
\* load its cursor when it moved: a pause of the producer between the two is the
\* only time its progress may be dated too early by, however rarely it looks.
FailureIsReal ==
    [][\A c \in Consumers :
          terminal_error' = c /\ terminal_error # c =>
              /\ quiet[c] >= ProgressTimeout + Grace
              /\ behind[c] >= Grace /\ HasEvents(c)]_vars

\* One stall raises one alert, however long it lasts and however many calls
\* meet it.
OneAlertPerStall == \A c \in Consumers : alerts[c] <= 1

\* What the watch keeps of a consumer: its cursor is not below it, and while the
\* two agree, the time without progress measured is no more than what has passed,
\* and a stall began only after the timeout, with events to read.
Dated(c) ==
    /\ last_observed_sequence[c] <= cursor[c]
    /\ last_observed_sequence[c] = cursor[c] =>
          /\ quiet[c] = Horizon \/ idle[c] + lag <= quiet[c]
          /\ stalled[c] # None =>
                /\ HasEvents(c)
                /\ quiet[c] = Horizon \/ stalled[c] + lag + ProgressTimeout <= quiet[c]
                /\ behind[c] = Horizon \/ stalled[c] + lag <= behind[c]

\* The watch never takes a consumer for slower than it is, from the first cursor
\* seed_progress has loaded (observe_progress).
ProgressConservative ==
    /\ startup_completed => \A c \in Consumers : Dated(c)
    /\ ppc = "seed" => \A i \in 1..(at - 1) : Dated(Required[i])

\* A check dates what it sees no earlier than its own clock reading.
CheckDated ==
    \A c \in Consumers : Pending(c) =>
        /\ quiet[c] >= lag
        /\ ppc = "observe" /\ Stalls(c) => behind[c] >= lag

\* An alert is remembered until the consumer moves: it has not caught up, and
\* publishing more cannot make it.
AlertRemembered ==
    \A c \in Consumers : alerts[c] # 0 =>
        /\ alerts[c] = 1 /\ startup_completed
        /\ last_observed_sequence[c] = cursor[c]
        /\ alert_emitted[c] /\ cursor[c] < sequence - 1

\* A call past its start-up wait has seen every required consumer, and its events
\* are within the bound.
CallConsistent ==
    /\ ppc \in {"try", "check", "observe"} => startup_completed
    /\ ppc \in {"startup", "missed", "seed"} => ~startup_completed
    /\ startup_completed \/ ppc = "seed" => Missing = {}
    /\ ppc # "idle" => sequence - 1 + n <= MaxSequence

\* The inductive invariant (the code it is about: evaluate_blocked).
IInv ==
    /\ TypeOK /\ CallConsistent /\ ProgressConservative /\ CheckDated
    /\ AlertRemembered

\* Whatever the consumers do, a call whose batch fits the ring ends: it publishes
\* or it fails.
CallEnds == (ppc # "idle" /\ n <= Size) ~> (ppc = "idle")

===============================================================================
