------------------------ MODULE RequiredConsumer_proofs ------------------------
(***************************************************************************)
(* Proofs about RequiredConsumer, for every list of required consumers,    *)
(* ring size, batch bound and choice of timeouts.                          *)
(***************************************************************************)
EXTENDS RequiredConsumer, TLAPS

\* The ranges the proofs below calculate with.
LEMMA Ranges ==
    ASSUME TypeOK
    PROVE  /\ \A c \in Consumers :
                 /\ cursor[c] \in Int /\ cursor[c] >= -2 /\ cursor[c] <= MaxSequence
                 /\ last_observed_sequence[c] \in Int
                 /\ idle[c] \in 0..ProgressTimeout
                 /\ stalled[c] = -1 \/ stalled[c] \in 0..Grace
                 /\ alert_emitted[c] \in BOOLEAN
                 /\ quiet[c] \in 0..Horizon /\ behind[c] \in 0..Horizon
                 /\ alerts[c] \in 0..2
           /\ sequence \in Nat /\ n \in Nat /\ n >= 1 /\ lag \in 0..Horizon
BY SizesAssumption, TimeoutsAssumption DEF TypeOK, NoSegment, None

\* The time bounds.
LEMMA Times ==
    /\ ProgressTimeout \in Nat /\ ProgressTimeout >= 1 /\ Grace \in Nat
    /\ CheckInterval \in Nat /\ CheckInterval >= 1 /\ Horizon \in Nat
    /\ Horizon >= ProgressTimeout + Grace /\ Horizon >= 1
BY TimeoutsAssumption DEF Horizon

\* The consumer whose turn it is.
LEMMA Turn ==
    ASSUME TypeOK
    PROVE  /\ Len(Required) \in Nat /\ at \in 1..Len(Required)
           /\ DOMAIN Required = 1..Len(Required)
           /\ Required[at] \in Consumers
           /\ 1 \in DOMAIN Required
BY RequiredAssumption DEF TypeOK, Consumers

\* One turn of seed_progress or evaluate_blocked goes on with the next consumer or
\* ends, and leaves nothing pending that was not.
LEMMA TurnEnds ==
    ASSUME TypeOK, Seed \/ Observe
    PROVE  /\ at' \in DOMAIN Required /\ at' \in Nat
           /\ \/ ppc' = ppc /\ at' = at + 1 /\ at < Len(Required)
                    /\ startup_completed' = startup_completed /\ since_check' = since_check
              \/ ppc' \in {"try", "idle"} /\ at' = 1 /\ (Seed => since_check' = 0)
                    /\ (Observe => since_check' = since_check)
           /\ \A d \in Consumers : Pending(d)' => Pending(d)
<1>1. /\ Len(Required) \in Nat /\ at \in 1..Len(Required)
      /\ DOMAIN Required = 1..Len(Required) /\ 1 \in DOMAIN Required
  BY Turn
<1>2. \/ ppc' = ppc /\ at' = at + 1 /\ at < Len(Required)
            /\ startup_completed' = startup_completed /\ since_check' = since_check
      \/ ppc' \in {"try", "idle"} /\ at' = 1 /\ (Seed => since_check' = 0)
            /\ (Observe => since_check' = since_check)
  <2>1. CASE Seed
    BY <2>1 DEF Seed, NextConsumer, Observe
  <2>2. CASE Observe
    BY <2>2 DEF Seed, NextConsumer, Observe, Return
  <2>3. QED
    BY <2>1, <2>2
<1>3. at' \in DOMAIN Required /\ at' \in Nat
  BY <1>1, <1>2
<1>4. ASSUME NEW d \in Consumers, Pending(d)' PROVE Pending(d)
  <2>1. ppc' \in {"seed", "observe"} /\ \E i \in DOMAIN Required : i >= at' /\ Required[i] = d
    BY <1>4 DEF Pending
  <2>2. ppc' = ppc /\ at' = at + 1
    BY <1>2, <2>1
  <2>3. QED
    BY <1>1, <2>1, <2>2 DEF Pending
<1>5. QED
  BY <1>2, <1>3, <1>4

-----------------------------------------------------------------------------
(* One turn of evaluate_blocked, seen from one consumer. *)

\* What evaluate_blocked does to the entry of the consumer it has come to.
LEMMA ObservedEntry ==
    ASSUME TypeOK, Observe, NEW c \in Consumers, c = Required[at]
    PROVE  /\ last_observed_sequence'[c] =
                  (IF Advanced(c) THEN cursor[c] ELSE last_observed_sequence[c])
           /\ idle'[c] = (IF Healthy(c) THEN 0 ELSE idle[c])
           /\ stalled'[c] = StallStart(c)
           /\ alert_emitted'[c] = (~Healthy(c) /\ (alert_emitted[c] \/ NewAlert(c)))
           /\ alerts'[c] = (IF NewAlert(c) THEN Pass(alerts[c], 2) ELSE alerts[c])
BY Zenon DEF Observe, TypeOK

\* ... and that it leaves the entries of the others alone.
LEMMA OtherEntry ==
    ASSUME TypeOK, Observe, NEW c \in Consumers, c # Required[at]
    PROVE  /\ last_observed_sequence'[c] = last_observed_sequence[c]
           /\ idle'[c] = idle[c] /\ stalled'[c] = stalled[c]
           /\ alert_emitted'[c] = alert_emitted[c] /\ alerts'[c] = alerts[c]
BY Zenon DEF Observe, TypeOK

\* ... and what it does beside them.
LEMMA ObserveElsewhere ==
    ASSUME Observe
    PROVE  /\ ppc = "observe"
           /\ cursor' = cursor /\ sequence' = sequence /\ quiet' = quiet
           /\ behind' = behind /\ lag' = lag
           /\ startup_completed' = startup_completed
           /\ \/ n' = 1 /\ startup_wait' = 0 /\ ppc' = "idle"
              \/ n' = n /\ startup_wait' = startup_wait
           /\ \/ terminal_error' = terminal_error
              \/ terminal_error' = Required[at] /\ Expired(Required[at])
<1>1. /\ ppc = "observe"
      /\ UNCHANGED <<cursor, sequence, lag, quiet, behind>>
      /\ \/ /\ Expired(Required[at])
            /\ terminal_error' = Required[at]
            /\ Return
            /\ UNCHANGED <<startup_completed, since_check>>
         \/ /\ ~Expired(Required[at])
            /\ NextConsumer(UNCHANGED <<startup_completed, since_check>>)
            /\ UNCHANGED <<terminal_error, n, startup_wait>>
  BY DEF Observe
<1>2. QED
  BY <1>1 DEF Return, NextConsumer

\* evaluate_blocked keeps the types of the entries.
LEMMA ObserveKeepsTypes ==
    ASSUME TypeOK, Observe, NEW c \in Consumers, cursor[c] # NoSegment
    PROVE  /\ last_observed_sequence'[c] \in -1..MaxSequence
           /\ idle'[c] \in 0..ProgressTimeout
           /\ stalled'[c] \in {None} \union 0..Grace
           /\ alert_emitted'[c] \in BOOLEAN
           /\ alerts'[c] \in 0..2
<1>1. /\ cursor[c] \in -1..MaxSequence /\ last_observed_sequence[c] \in -1..MaxSequence
      /\ idle[c] \in 0..ProgressTimeout /\ stalled[c] \in {None} \union 0..Grace
      /\ alerts[c] \in 0..2
  BY SizesAssumption DEF TypeOK, NoSegment
<1>2. alert_emitted[c] \in BOOLEAN
  BY DEF TypeOK
<1>3. CASE c # Required[at]
  BY <1>1, <1>2, <1>3, OtherEntry
<1>4. CASE c = Required[at]
  <2>1. last_observed_sequence'[c] \in -1..MaxSequence
    BY <1>1, <1>4, ObservedEntry
  <2>2. idle'[c] \in 0..ProgressTimeout
    BY <1>1, <1>4, ObservedEntry, TimeoutsAssumption
  <2>3. stalled'[c] \in {None} \union 0..Grace
    BY <1>1, <1>4, ObservedEntry, TimeoutsAssumption DEF StallStart, None
  <2>4. alert_emitted'[c] \in BOOLEAN
    <3>1. alert_emitted'[c] = (~Healthy(c) /\ (alert_emitted[c] \/ NewAlert(c)))
      BY <1>4, ObservedEntry, Zenon
    <3>2. QED
      BY <3>1, Zenon
  <2>5. alerts'[c] \in 0..2
    BY <1>1, <1>4, ObservedEntry DEF Pass
  <2>6. QED
    BY <2>1, <2>2, <2>3, <2>4, <2>5
<1>5. QED
  BY <1>3, <1>4

\* A stall is seen only on a consumer that has had events and has not moved: for the
\* timeout before the clock was read, and for the grace period when that has expired.
LEMMA StallIsReal ==
    ASSUME IInv, Observe, NEW c \in Consumers, c = Required[at], Stalls(c)
    PROVE  /\ last_observed_sequence[c] = cursor[c] /\ HasEvents(c)
           /\ quiet[c] = Horizon \/ ProgressTimeout + lag <= quiet[c]
           /\ behind[c] >= lag
           /\ Expired(c) => quiet[c] >= ProgressTimeout + Grace /\ behind[c] >= Grace
<1>1. /\ cursor[c] \in Int /\ last_observed_sequence[c] \in Int /\ sequence \in Int
      /\ idle[c] \in Int /\ quiet[c] \in Int /\ stalled[c] \in Int /\ behind[c] \in Int
      /\ behind[c] >= 0 /\ lag \in Nat
  BY Ranges, Times DEF IInv
<1>2. ppc = "observe" /\ startup_completed /\ Dated(c) /\ cursor[c] # NoSegment
  BY ObserveElsewhere DEF IInv, CallConsistent, ProgressConservative, Missing
<1>3. last_observed_sequence[c] = cursor[c] /\ HasEvents(c)
  BY <1>1, <1>2 DEF Stalls, Healthy, Advanced, CaughtUp, Dated, HasEvents
<1>4. quiet[c] = Horizon \/ ProgressTimeout + lag <= quiet[c]
  BY <1>1, <1>2, <1>3, Times DEF Stalls, Dated
<1>5. behind[c] >= lag
  <2>1. Pending(c)
    BY <1>2, Turn DEF IInv, Pending
  <2>2. QED
    BY <1>2, <2>1 DEF IInv, CheckDated
<1>6. ASSUME Expired(c)
      PROVE  quiet[c] >= ProgressTimeout + Grace /\ behind[c] >= Grace
  <2>1. Grace = 0 \/ stalled[c] >= Grace
    BY <1>6 DEF Expired
  <2>2. CASE Grace = 0
    BY <1>1, <1>4, <2>2, Times
  <2>3. CASE Grace # 0 /\ stalled[c] >= Grace
    <3>1. stalled[c] # None
      BY <1>1, <2>3, Times DEF None
    <3>2. /\ quiet[c] = Horizon \/ stalled[c] + lag + ProgressTimeout <= quiet[c]
          /\ behind[c] = Horizon \/ stalled[c] + lag <= behind[c]
      BY <1>2, <1>3, <3>1 DEF Dated
    <3>3. QED
      BY <1>1, <2>3, <3>2, Times
  <2>4. QED
    BY <2>1, <2>2, <2>3
<1>7. QED
  BY <1>3, <1>4, <1>5, <1>6

-----------------------------------------------------------------------------
(* The inductive invariant, one lemma per part. *)

LEMMA InitEstablishes == Init => IInv
<1> SUFFICES ASSUME Init PROVE IInv
  OBVIOUS
<1>1. TypeOK
  <2>1. /\ cursor \in [Consumers -> NoSegment..MaxSequence]
        /\ sequence \in 0..(MaxSequence + 1) /\ n \in 1..MaxBatch
        /\ startup_wait \in 0..StartupTimeout /\ since_check \in 0..CheckInterval
        /\ last_observed_sequence \in [Consumers -> -1..MaxSequence]
        /\ idle \in [Consumers -> 0..ProgressTimeout]
        /\ stalled \in [Consumers -> {None} \union 0..Grace]
        /\ quiet \in [Consumers -> 0..Horizon] /\ behind \in [Consumers -> 0..Horizon]
        /\ alerts \in [Consumers -> 0..2] /\ lag \in 0..Horizon
    BY SizesAssumption, TimeoutsAssumption, Times DEF Init, NoSegment
  <2>2. /\ startup_completed \in BOOLEAN
        /\ alert_emitted \in [Consumers -> BOOLEAN]
    BY DEF Init
  <2>3. at \in DOMAIN Required
    BY RequiredAssumption DEF Init
  <2>4. QED
    BY <2>1, <2>2, <2>3 DEF Init, TypeOK
<1>2. CallConsistent
  BY DEF Init, CallConsistent
<1>3. ProgressConservative
  BY DEF Init, ProgressConservative
<1>4. CheckDated
  BY DEF Init, CheckDated, Pending
<1>5. AlertRemembered
  BY DEF Init, AlertRemembered
<1>6. QED
  BY <1>1, <1>2, <1>3, <1>4, <1>5 DEF IInv

\* Reading the clock keeps the ages in their ranges.
LEMMA AgesInRange ==
    ASSUME TypeOK, ReadClock
    PROVE  /\ idle' \in [Consumers -> 0..ProgressTimeout]
           /\ stalled' \in [Consumers -> {None} \union 0..Grace]
           /\ lag' \in 0..Horizon /\ at' \in DOMAIN Required
<1>1. \A c \in Consumers : Older(idle[c], ProgressTimeout) \in 0..ProgressTimeout
  BY Ranges, Times DEF Older
<1>2. \A c \in Consumers :
          (IF stalled[c] = None THEN None ELSE Older(stalled[c], Grace)) \in {None} \union 0..Grace
  BY Ranges, Times DEF Older, None
<1>3. QED
  BY <1>1, <1>2, Turn, Times DEF ReadClock

LEMMA TypePreserved == IInv /\ [Next]_vars => TypeOK'
<1> SUFFICES ASSUME IInv, [Next]_vars PROVE TypeOK'
  OBVIOUS
<1>0. 1 \in DOMAIN Required /\ 1 \in 1..MaxBatch /\ 0 \in 0..StartupTimeout
  BY Turn, SizesAssumption, TimeoutsAssumption DEF IInv
<1> USE SizesAssumption, TimeoutsAssumption DEF IInv, TypeOK, history, watch, progress
<1>1. ASSUME NEW c \in Consumers, Appear(c) PROVE TypeOK'
  BY <1>1, Times DEF Appear, NoSegment
<1>2. ASSUME NEW c \in Consumers, Advance(c) PROVE TypeOK'
  <2>1. PICK s \in (cursor[c] + 1)..(sequence - 1) : cursor' = [cursor EXCEPT ![c] = s]
    BY <1>2 DEF Advance
  <2>2. s \in NoSegment..MaxSequence
    BY <1>2 DEF NoSegment
  <2>3. quiet' \in [Consumers -> 0..Horizon] /\ behind' \in [Consumers -> 0..Horizon]
    BY <1>2, Times DEF Advance
  <2>4. QED
    BY <1>2, <2>1, <2>2, <2>3 DEF Advance
<1>3. CASE Tick
  <2>1. /\ startup_wait' \in 0..StartupTimeout /\ lag' \in 0..Horizon
        /\ quiet' \in [Consumers -> 0..Horizon]
        /\ behind' \in [Consumers -> 0..Horizon]
    BY <1>3, Times DEF Tick, Pass
  <2>2. QED
    BY <1>3, <2>1 DEF Tick
<1>4. ASSUME NEW k \in 1..MaxBatch, Call(k) PROVE TypeOK'
  BY <1>4 DEF Call
<1>5. CASE StartupFinds
  BY <1>5, AgesInRange DEF StartupFinds
<1>6. CASE StartupMisses \/ StartupPolls
  BY <1>6 DEF StartupMisses, StartupPolls
<1>7. CASE StartupFails \/ FailAgain
  BY <1>0, <1>7 DEF StartupFails, FailAgain, Return
<1>8. CASE Seed
  <2>1. cursor \in [Consumers -> -1..MaxSequence]
    BY <1>8 DEF Seed, CallConsistent, Missing, NoSegment
  <2>2. Required[at] \in Consumers
    BY Turn
  <2>3. /\ last_observed_sequence' \in [Consumers -> -1..MaxSequence]
        /\ idle' \in [Consumers -> 0..ProgressTimeout]
        /\ stalled' \in [Consumers -> {None} \union 0..Grace]
        /\ alert_emitted' \in [Consumers -> BOOLEAN]
    BY <1>8, <2>1, <2>2 DEF Seed
  <2>4. startup_completed' \in BOOLEAN /\ since_check' \in 0..CheckInterval
    <3>1. \/ startup_completed' = startup_completed /\ since_check' = since_check
          \/ startup_completed' = TRUE /\ since_check' = 0
      BY <1>8 DEF Seed, NextConsumer
    <3>2. startup_completed \in BOOLEAN /\ since_check \in 0..CheckInterval
      OBVIOUS
    <3>3. 0 \in 0..CheckInterval
      OBVIOUS
    <3> HIDE DEF IInv
    <3>4. QED
      BY <3>1, <3>2, <3>3, Zenon
  <2>5. QED
    BY <1>8, <2>3, <2>4, TurnEnds DEF Seed
<1>9. CASE Publish
  <2>1. sequence' \in 0..(MaxSequence + 1)
    BY <1>9 DEF Publish, CallConsistent
  <2>2. QED
    BY <1>0, <1>9, <2>1 DEF Publish, Return
<1>10. CASE RingFull \/ TooEarly
  BY <1>10 DEF RingFull, TooEarly
<1>11. CASE BeginCheck
  <2>1. since_check' \in 0..CheckInterval
    BY <1>11 DEF BeginCheck
  <2>2. QED
    BY <1>11, <2>1, AgesInRange DEF BeginCheck
<1>12. CASE Observe
  <2>1. \A c \in Consumers : cursor[c] # NoSegment
    BY <1>12 DEF Observe, CallConsistent, Missing
  <2>2. /\ last_observed_sequence' \in [Consumers -> -1..MaxSequence]
        /\ idle' \in [Consumers -> 0..ProgressTimeout]
        /\ stalled' \in [Consumers -> {None} \union 0..Grace]
        /\ alert_emitted' \in [Consumers -> BOOLEAN]
        /\ alerts' \in [Consumers -> 0..2]
    <3> DEFINE IsMap(f) == f = [c \in Consumers |-> f[c]]
    <3>1. /\ IsMap(last_observed_sequence') /\ IsMap(idle') /\ IsMap(stalled')
          /\ IsMap(alert_emitted') /\ IsMap(alerts')
      BY <1>12 DEF Observe
    <3> HIDE DEF IInv
    <3>2. \A c \in Consumers :
              /\ last_observed_sequence'[c] \in -1..MaxSequence
              /\ idle'[c] \in 0..ProgressTimeout
              /\ stalled'[c] \in {None} \union 0..Grace
              /\ alert_emitted'[c] \in BOOLEAN
              /\ alerts'[c] \in 0..2
      BY <1>12, <2>1, ObserveKeepsTypes DEF IInv
    <3>4. last_observed_sequence' \in [Consumers -> -1..MaxSequence]
      BY <3>1, <3>2
    <3>5. idle' \in [Consumers -> 0..ProgressTimeout]
      BY <3>1, <3>2
    <3>6. stalled' \in [Consumers -> {None} \union 0..Grace]
      BY <3>1, <3>2
    <3>7. alert_emitted' \in [Consumers -> BOOLEAN]
      BY <3>1, <3>2
    <3>8. alerts' \in [Consumers -> 0..2]
      BY <3>1, <3>2
    <3>9. QED
      BY <3>4, <3>5, <3>6, <3>7, <3>8
  <2>3. terminal_error' \in Consumers \union {NoConsumer}
    BY <1>12, ObserveElsewhere, Turn
  <2>4. QED
    <3>1. /\ cursor' = cursor /\ sequence' = sequence /\ quiet' = quiet
          /\ behind' = behind /\ lag' = lag /\ startup_completed' = startup_completed
          /\ n' = 1 \/ n' = n
          /\ startup_wait' = 0 \/ startup_wait' = startup_wait
      BY <1>12, ObserveElsewhere
    <3>2. /\ at' \in DOMAIN Required
          /\ ppc' = ppc \/ ppc' \in {"try", "idle"}
          /\ since_check' = since_check
      BY <1>12, TurnEnds DEF Seed, Observe
    <3>3. QED
      BY <1>0, <2>2, <2>3, <3>1, <3>2
<1>13. CASE UNCHANGED vars
  BY <1>13 DEF vars
<1>14. QED
  BY <1>1, <1>2, <1>3, <1>4, <1>5, <1>6, <1>7, <1>8, <1>9, <1>10, <1>11, <1>12, <1>13
  DEF Next, CallStep

LEMMA CallConsistentPreserved == IInv /\ [Next]_vars => CallConsistent'
<1> SUFFICES ASSUME IInv, [Next]_vars PROVE CallConsistent'
  OBVIOUS
<1> USE DEF CallConsistent, Missing, history, watch
<1>1. sequence \in Nat /\ n \in Nat /\ \A c \in Consumers : cursor[c] \in Int
  BY Ranges DEF IInv
<1>2. CallConsistent
  BY DEF IInv
<1> HIDE DEF IInv
<1>3. ASSUME NEW c \in Consumers, Appear(c) PROVE CallConsistent'
  BY <1>2, <1>3 DEF Appear
<1>4. ASSUME NEW c \in Consumers, Advance(c) PROVE CallConsistent'
  <2>1. PICK s \in (cursor[c] + 1)..(sequence - 1) : cursor' = [cursor EXCEPT ![c] = s]
    BY <1>4 DEF Advance
  <2>2. \A d \in Consumers : cursor[d] # NoSegment => cursor'[d] # NoSegment
    <3>1. cursor[c] >= -2
      BY Ranges DEF IInv
    <3>2. s # NoSegment
      BY <1>1, <2>1, <3>1 DEF NoSegment
    <3>3. QED
      BY <2>1, <3>2, TypePreserved DEF IInv, TypeOK
  <2>3. QED
    BY <1>2, <1>4, <2>2 DEF Advance
<1>5. CASE Tick
  BY <1>2, <1>5 DEF Tick
<1>6. ASSUME NEW k \in 1..MaxBatch, Call(k) PROVE CallConsistent'
  BY <1>2, <1>6 DEF Call
<1>7. CASE StartupFinds \/ StartupMisses \/ StartupPolls
  BY <1>2, <1>7 DEF StartupFinds, StartupMisses, StartupPolls
<1>8. CASE StartupFails \/ FailAgain \/ Publish
  BY <1>2, <1>8 DEF StartupFails, FailAgain, Publish, Return
<1>9. CASE RingFull \/ TooEarly \/ BeginCheck
  BY <1>2, <1>9 DEF RingFull, TooEarly, BeginCheck
<1>10. CASE Seed
  BY <1>2, <1>10 DEF Seed, NextConsumer
<1>11. CASE Observe
  <2>1. /\ ppc = "observe" /\ cursor' = cursor /\ sequence' = sequence
        /\ startup_completed' = startup_completed
        /\ n' = n \/ ppc' = "idle"
    BY <1>11, ObserveElsewhere
  <2>2. ppc' \in {"try", "idle", "observe"}
    BY <1>11, <2>1, TurnEnds DEF IInv
  <2>3. QED
    BY <1>2, <2>1, <2>2
<1>12. CASE UNCHANGED vars
  BY <1>2, <1>12 DEF vars
<1>13. QED
  BY <1>3, <1>4, <1>5, <1>6, <1>7, <1>8, <1>9, <1>10, <1>11, <1>12 DEF Next, CallStep

\* The steps of a call that neither read the clock nor load a cursor.
LEMMA QuietSteps ==
    ASSUME \/ StartupFails \/ StartupMisses \/ StartupPolls \/ RingFull \/ TooEarly
           \/ FailAgain \/ UNCHANGED vars \/ \E k \in 1..MaxBatch : Call(k)
    PROVE  /\ UNCHANGED <<cursor, sequence, startup_completed, progress, history, lag>>
           /\ UNCHANGED vars \/ ppc' \notin {"seed", "observe"}
BY DEF StartupFails, StartupMisses, StartupPolls, RingFull, TooEarly, FailAgain, Call, vars,
       watch, progress, history, Return

-----------------------------------------------------------------------------
(* Progress is dated conservatively. *)

\* Reading the clock does not make anything older than it was.
LEMMA ReadClockKeepsDated ==
    ASSUME TypeOK, ReadClock, NEW c \in Consumers, Dated(c),
           UNCHANGED <<cursor, sequence, last_observed_sequence, quiet, behind>>
    PROVE  Dated(c)'
<1>1. /\ cursor[c] \in Int /\ last_observed_sequence[c] \in Int
      /\ idle[c] \in 0..ProgressTimeout /\ quiet[c] \in 0..Horizon /\ behind[c] \in 0..Horizon
      /\ stalled[c] = -1 \/ stalled[c] \in 0..Grace
      /\ lag \in Nat
  BY Ranges, Times
<1>2. /\ idle'[c] = Older(idle[c], ProgressTimeout)
      /\ stalled'[c] = (IF stalled[c] = None THEN None ELSE Older(stalled[c], Grace))
      /\ lag' = 0
  BY DEF ReadClock
<1>3. idle'[c] \in Int /\ idle'[c] <= idle[c] + lag
  BY <1>1, <1>2, Times DEF Older
<1>4. /\ stalled'[c] \in Int
      /\ stalled'[c] # None => stalled[c] # None /\ stalled'[c] <= stalled[c] + lag
  BY <1>1, <1>2, Times DEF Older, None
<1>5. HasEvents(c)' = HasEvents(c)
  BY DEF HasEvents
<1>6. QED
  BY <1>1, <1>2, <1>3, <1>4, <1>5, Times DEF Dated

\* What is dated conservatively stays so until its cursor is loaded again.
LEMMA DatedKept ==
    ASSUME IInv, [Next]_vars, ~Seed, ~Observe, ~StartupFinds,
           NEW c \in Consumers, Dated(c), cursor[c] # NoSegment
    PROVE  Dated(c)'
<1>1. /\ cursor[c] \in Int /\ last_observed_sequence[c] \in Int /\ sequence \in Int
      /\ idle[c] \in 0..ProgressTimeout /\ quiet[c] \in 0..Horizon /\ behind[c] \in 0..Horizon
      /\ stalled[c] = -1 \/ stalled[c] \in 0..Grace
      /\ lag \in 0..Horizon /\ n \in Nat
  BY Ranges DEF IInv
<1>2. /\ cursor \in [Consumers -> Int] /\ quiet \in [Consumers -> Int]
      /\ behind \in [Consumers -> Int]
  BY Ranges DEF IInv, TypeOK
<1>3. ASSUME UNCHANGED <<cursor, sequence, progress, history, lag>> PROVE Dated(c)'
  BY <1>3 DEF Dated, HasEvents, progress, history
<1>4. ASSUME NEW d \in Consumers, Appear(d) PROVE Dated(c)'
  <2>1. /\ cursor'[c] = cursor[c] /\ quiet'[c] = quiet[c]
        /\ UNCHANGED <<sequence, progress, lag, behind>>
    BY <1>2, <1>4 DEF Appear, watch
  <2>2. QED
    BY <2>1 DEF Dated, HasEvents, progress
<1>5. ASSUME NEW d \in Consumers, Advance(d) PROVE Dated(c)'
  <2>1. PICK s \in (cursor[d] + 1)..(sequence - 1) : cursor' = [cursor EXCEPT ![d] = s]
    BY <1>5 DEF Advance
  <2>2. UNCHANGED <<sequence, progress, lag>>
    BY <1>5 DEF Advance, watch
  <2>3. CASE c = d
    <3>1. last_observed_sequence'[c] < cursor'[c]
      BY <1>1, <1>2, <2>1, <2>2, <2>3 DEF Dated, progress
    <3>2. last_observed_sequence'[c] \in Int /\ cursor'[c] \in Int
      BY <1>1, <1>2, <2>1, <2>2, <2>3 DEF progress
    <3>3. QED
      BY <3>1, <3>2 DEF Dated
  <2>4. CASE c # d
    <3>1. cursor'[c] = cursor[c] /\ quiet'[c] = quiet[c] /\ behind'[c] = behind[c]
      BY <1>2, <1>5, <2>4 DEF Advance
    <3>2. QED
      BY <2>2, <3>1 DEF Dated, HasEvents, progress
  <2>5. QED
    BY <2>3, <2>4
<1>6. CASE Tick
  <2>1. /\ lag' = Pass(lag, Horizon) /\ quiet'[c] = Pass(quiet[c], Horizon)
        /\ behind'[c] = IF HasEvents(c) THEN Pass(behind[c], Horizon) ELSE behind[c]
        /\ UNCHANGED <<cursor, sequence, progress>>
    BY <1>6 DEF Tick, watch
  <2>2. HasEvents(c)' = HasEvents(c)
    BY <2>1 DEF HasEvents
  <2>3. QED
    BY <1>1, <2>1, <2>2, Times DEF Dated, Pass, None, progress
<1>7. CASE Publish
  <2>1. UNCHANGED <<cursor, progress, history, lag>> /\ sequence' = sequence + n
    BY <1>7 DEF Publish, watch
  <2>2. HasEvents(c) => HasEvents(c)'
    BY <1>1, <2>1 DEF HasEvents
  <2>3. QED
    BY <2>1, <2>2 DEF Dated, progress, history
<1>8. CASE BeginCheck
  BY <1>8, ReadClockKeepsDated DEF BeginCheck, history, IInv
<1>9. QED
  <2>1. CASE UNCHANGED vars
    BY <1>3, <2>1 DEF vars, watch
  <2>2. CASE Next
    BY <1>3, <1>4, <1>5, <1>6, <1>7, <1>8, <2>2, QuietSteps DEF Next, CallStep
  <2>3. QED
    BY <2>1, <2>2

\* A load dates what it sees with the reading of the clock before it.
LEMMA SeedDates ==
    ASSUME IInv, Seed, NEW c \in Consumers, c = Required[at] \/ Dated(c)
    PROVE  Dated(c)'
<1>1. /\ UNCHANGED <<cursor, sequence, quiet, behind, lag>> /\ ppc = "seed"
      /\ last_observed_sequence' = [last_observed_sequence EXCEPT ![Required[at]] =
                                      cursor[Required[at]]]
      /\ idle' = [idle EXCEPT ![Required[at]] = 0]
      /\ stalled' = [stalled EXCEPT ![Required[at]] = None]
  BY DEF Seed, history
<1>2. /\ last_observed_sequence \in [Consumers -> -1..MaxSequence]
      /\ idle \in [Consumers -> 0..ProgressTimeout]
      /\ stalled \in [Consumers -> {None} \union 0..Grace]
  BY DEF IInv, TypeOK
<1>3. CASE c = Required[at]
  <2>1. /\ last_observed_sequence'[c] = cursor'[c] /\ idle'[c] = 0 /\ stalled'[c] = None
        /\ lag' = lag /\ quiet'[c] = quiet[c]
    BY <1>1, <1>2, <1>3
  <2>2. quiet[c] >= lag
    <3>1. Pending(c)
      BY <1>1, <1>3, Turn DEF IInv, Pending
    <3>2. QED
      BY <3>1 DEF IInv, CheckDated
  <2>3. cursor'[c] \in Int /\ quiet[c] \in Int /\ lag \in Int
    BY <1>1, Ranges DEF IInv
  <2>4. QED
    BY <2>1, <2>2, <2>3 DEF Dated
<1>4. CASE c # Required[at]
  <2>1. /\ last_observed_sequence'[c] = last_observed_sequence[c] /\ idle'[c] = idle[c]
        /\ stalled'[c] = stalled[c]
    BY <1>1, <1>2, <1>4
  <2>2. QED
    BY <1>1, <1>4, <2>1 DEF Dated, HasEvents
<1>5. QED
  BY <1>3, <1>4

LEMMA ObserveDates ==
    ASSUME IInv, Observe, NEW c \in Consumers
    PROVE  Dated(c)'
<1>1. /\ ppc = "observe" /\ cursor' = cursor /\ sequence' = sequence /\ quiet' = quiet
      /\ behind' = behind /\ lag' = lag
  BY ObserveElsewhere
<1>2. Dated(c)
  BY <1>1 DEF IInv, CallConsistent, ProgressConservative
<1>3. CASE c # Required[at]
  <2>1. /\ last_observed_sequence'[c] = last_observed_sequence[c] /\ idle'[c] = idle[c]
        /\ stalled'[c] = stalled[c]
    BY <1>3, OtherEntry DEF IInv
  <2>2. QED
    BY <1>1, <1>2, <2>1 DEF Dated, HasEvents
<1>4. CASE c = Required[at]
  <2>1. /\ last_observed_sequence'[c] =
                (IF Advanced(c) THEN cursor[c] ELSE last_observed_sequence[c])
        /\ idle'[c] = (IF Healthy(c) THEN 0 ELSE idle[c])
        /\ stalled'[c] = StallStart(c)
    BY <1>4, ObservedEntry DEF IInv
  <2>2. /\ cursor[c] \in Int /\ last_observed_sequence[c] \in Int
        /\ idle[c] \in 0..ProgressTimeout /\ quiet[c] \in 0..Horizon
        /\ behind[c] \in 0..Horizon /\ lag \in Nat
        /\ stalled[c] = -1 \/ stalled[c] \in 0..Grace
    BY Ranges, Times DEF IInv
  <2>3. HasEvents(c)' = HasEvents(c)
    BY <1>1 DEF HasEvents
  <2>4. CASE Healthy(c)
    <3>1. idle'[c] = 0 /\ stalled'[c] = None
      BY <2>1, <2>4 DEF StallStart
    <3>2. quiet[c] >= lag
      <4>1. Pending(c)
        BY <1>1, <1>4, Turn DEF IInv, Pending
      <4>2. QED
        BY <4>1 DEF IInv, CheckDated
    <3>3. last_observed_sequence'[c] <= cursor[c]
      BY <1>2, <2>1, <2>2 DEF Dated
    <3>4. QED
      BY <1>1, <2>2, <3>1, <3>2, <3>3 DEF Dated
  <2>5. CASE Stalls(c)
    <3>1. /\ last_observed_sequence[c] = cursor[c] /\ HasEvents(c)
          /\ quiet[c] = Horizon \/ ProgressTimeout + lag <= quiet[c]
          /\ behind[c] >= lag
      BY <1>4, <2>5, StallIsReal
    <3>2. ~Healthy(c)
      BY <2>5 DEF Stalls
    <3>3. /\ stalled'[c] = IF stalled[c] = None THEN 0 ELSE stalled[c]
          /\ idle'[c] = idle[c] /\ last_observed_sequence'[c] = cursor[c]
      BY <2>1, <2>5, <3>1, <3>2 DEF StallStart
    <3>4. QED
      BY <1>1, <1>2, <2>2, <2>3, <3>1, <3>3, Times DEF Dated, None
  <2>6. CASE ~Healthy(c) /\ ~Stalls(c)
    <3>1. idle'[c] = idle[c] /\ stalled'[c] = stalled[c]
          /\ last_observed_sequence'[c] = last_observed_sequence[c]
      BY <2>1, <2>6 DEF StallStart, Healthy
    <3>2. QED
      BY <1>1, <1>2, <2>3, <3>1 DEF Dated
  <2>7. QED
    BY <2>4, <2>5, <2>6
<1>5. QED
  BY <1>3, <1>4

LEMMA ProgressPreserved == IInv /\ [Next]_vars => ProgressConservative'
<1> SUFFICES ASSUME IInv, [Next]_vars PROVE ProgressConservative'
  OBVIOUS
<1>1. TypeOK /\ CallConsistent /\ ProgressConservative
  BY DEF IInv
<1>2. /\ Len(Required) \in Nat /\ at \in 1..Len(Required)
      /\ DOMAIN Required = 1..Len(Required)
      /\ \A i \in DOMAIN Required : Required[i] \in Consumers
  BY <1>1, Turn DEF Consumers
<1>3. CASE StartupFinds
  BY <1>1, <1>3 DEF StartupFinds, ReadClock, CallConsistent, ProgressConservative
<1>4. CASE Seed
  <2>1. \/ ppc' = ppc /\ at' = at + 1 /\ at < Len(Required)
              /\ startup_completed' = startup_completed
        \/ ppc' = "try" /\ at = Len(Required)
    <3>1. IF at < Len(Required)
          THEN at' = at + 1 /\ UNCHANGED <<ppc, startup_completed, since_check>>
          ELSE at' = 1 /\ ppc' = "try" /\ startup_completed' = TRUE /\ since_check' = 0
      BY <1>4, Zenon DEF Seed, NextConsumer
    <3>2. CASE at < Len(Required)
      BY <3>1, <3>2
    <3>3. CASE ~(at < Len(Required))
      <4>1. \A m \in Nat : \A k \in 1..m : ~(k < m) => k = m
        OBVIOUS
      <4>2. at = Len(Required)
        BY <1>2, <3>3, <4>1, Zenon
      <4>3. QED
        BY <3>1, <3>3, <4>2
    <3>4. QED
      BY <3>2, <3>3
  <2>2. \A i \in 1..at : Dated(Required[i])'
    <3> SUFFICES ASSUME NEW i \in 1..at PROVE Dated(Required[i])'
      OBVIOUS
    <3>1. i < at => Dated(Required[i])
      BY <1>1, <1>2, <1>4 DEF Seed, ProgressConservative
    <3>2. Required[i] \in Consumers /\ (i = at \/ i < at)
      BY <1>2
    <3>3. QED
      BY <1>4, <3>1, <3>2, SeedDates
  <2>3. ~startup_completed /\ ppc = "seed"
    BY <1>1, <1>4 DEF Seed, CallConsistent
  <2>4. CASE ppc' = ppc /\ at' = at + 1 /\ startup_completed' = startup_completed
    <3>1. 1..(at' - 1) = 1..at
      BY <1>2, <2>4
    <3>2. QED
      BY <2>2, <2>3, <2>4, <3>1 DEF ProgressConservative
  <2>5. CASE ppc' = "try" /\ at = Len(Required)
    <3>1. \A c \in Consumers : \E i \in 1..at : c = Required[i]
      BY <1>2, <2>5 DEF Consumers
    <3>2. \A c \in Consumers : Dated(c)'
      BY <2>2, <3>1
    <3>3. QED
      BY <2>5, <3>2 DEF ProgressConservative
  <2>6. QED
    BY <2>1, <2>4, <2>5
<1>5. CASE Observe
  <2>1. ppc' # "seed"
    BY <1>1, <1>5, TurnEnds, ObserveElsewhere
  <2>2. QED
    BY <1>5, <2>1, ObserveDates DEF ProgressConservative
<1>6. CASE ~Seed /\ ~Observe /\ ~StartupFinds
  <2>1. /\ startup_completed' = startup_completed
        /\ ppc' = "seed" => ppc = "seed" /\ at' = at
    BY <1>6 DEF Next, CallStep, Appear, Advance, Tick, Call, StartupMisses, StartupPolls,
                StartupFails, Publish, RingFull, TooEarly, FailAgain, BeginCheck, Return,
                vars, watch
  <2>2. ASSUME NEW c \in Consumers, Dated(c), startup_completed \/ ppc = "seed"
        PROVE  Dated(c)'
    BY <1>1, <1>6, <2>2, DatedKept DEF CallConsistent, Missing
  <2>3. startup_completed' => \A c \in Consumers : Dated(c)'
    BY <1>1, <2>1, <2>2 DEF ProgressConservative
  <2>4. ASSUME ppc' = "seed", NEW i \in 1..(at' - 1) PROVE Dated(Required[i])'
    <3>1. i \in 1..(at - 1) /\ ppc = "seed"
      BY <2>1, <2>4
    <3>2. Required[i] \in Consumers
      BY <1>2, <3>1
    <3>3. QED
      BY <1>1, <2>2, <3>1, <3>2 DEF ProgressConservative
  <2>5. QED
    BY <2>3, <2>4 DEF ProgressConservative
<1>7. QED
  BY <1>3, <1>4, <1>5, <1>6

LEMMA CheckDatedPreserved == IInv /\ [Next]_vars => CheckDated'
<1> SUFFICES ASSUME IInv, [Next]_vars, NEW c \in Consumers, Pending(c)'
             PROVE  /\ quiet'[c] >= lag'
                    /\ ppc' = "observe" /\ Stalls(c)' => behind'[c] >= lag'
  BY DEF CheckDated
<1>1. /\ cursor[c] \in Int /\ last_observed_sequence[c] \in Int /\ sequence \in Int
      /\ quiet[c] \in 0..Horizon /\ behind[c] \in 0..Horizon /\ lag \in 0..Horizon
      /\ Horizon \in Nat
  BY Ranges, Times DEF IInv
<1>2. /\ cursor \in [Consumers -> Int] /\ quiet \in [Consumers -> Int]
      /\ behind \in [Consumers -> Int]
  BY Ranges DEF IInv, TypeOK
<1>3. Pending(c) =>
          /\ quiet[c] >= lag
          /\ ppc = "observe" /\ Stalls(c) => behind[c] >= lag
  BY DEF IInv, CheckDated
<1>4. ppc' \in {"seed", "observe"}
  BY DEF Pending
<1>5. ppc = "observe" => startup_completed /\ cursor[c] # NoSegment /\ Dated(c)
  BY DEF IInv, CallConsistent, ProgressConservative, Missing
<1>6. ASSUME NEW d \in Consumers, Appear(d) PROVE FALSE
  <2>1. ppc \in {"seed", "observe"}
    BY <1>4, <1>6 DEF Appear
  <2>2. Missing = {}
    BY <2>1 DEF IInv, CallConsistent
  <2>3. QED
    BY <1>6, <2>2 DEF Appear, Missing
<1>7. ASSUME NEW d \in Consumers, Advance(d)
      PROVE  /\ quiet'[c] >= lag'
             /\ ppc' = "observe" /\ Stalls(c)' => behind'[c] >= lag'
  <2>1. PICK s \in (cursor[d] + 1)..(sequence - 1) : cursor' = [cursor EXCEPT ![d] = s]
    BY <1>7 DEF Advance
  <2>2. UNCHANGED <<sequence, ppc, at, lag, watch>>
    BY <1>7 DEF Advance
  <2>3. Pending(c)
    BY <2>2 DEF Pending
  <2>4. CASE c = d
    <3>1. quiet'[c] = lag
      BY <1>2, <1>7, <2>3, <2>4 DEF Advance
    <3>2. cursor'[c] > last_observed_sequence'[c] \/ ppc # "observe"
      BY <1>1, <1>2, <1>5, <2>1, <2>2, <2>4 DEF Dated, watch, progress
    <3>3. QED
      BY <1>1, <2>2, <3>1, <3>2 DEF Stalls, Healthy, Advanced
  <2>5. CASE c # d
    <3>1. cursor'[c] = cursor[c] /\ quiet'[c] = quiet[c] /\ behind'[c] = behind[c]
      BY <1>2, <1>7, <2>5 DEF Advance
    <3>2. Stalls(c)' = Stalls(c)
      BY <2>2, <3>1 DEF Stalls, Healthy, Advanced, CaughtUp, watch, progress
    <3>3. QED
      BY <1>3, <2>2, <2>3, <3>1, <3>2
  <2>6. QED
    BY <2>4, <2>5
<1>8. CASE Tick
  <2>1. /\ lag' = Pass(lag, Horizon) /\ quiet'[c] = Pass(quiet[c], Horizon)
        /\ behind'[c] = IF HasEvents(c) THEN Pass(behind[c], Horizon) ELSE behind[c]
        /\ UNCHANGED <<cursor, sequence, ppc, at, progress>>
    BY <1>8 DEF Tick, watch
  <2>2. Pending(c) /\ Stalls(c)' = Stalls(c)
    BY <2>1 DEF Pending, Stalls, Healthy, Advanced, CaughtUp, progress
  <2>3. ppc = "observe" /\ Stalls(c) => HasEvents(c)
    BY <1>1, <1>5 DEF Stalls, Healthy, CaughtUp, HasEvents
  <2>4. QED
    BY <1>1, <1>3, <2>1, <2>2, <2>3 DEF Pass
<1>9. CASE StartupFinds \/ BeginCheck
  <2>1. lag' = 0 /\ quiet' = quiet /\ behind' = behind
    BY <1>9 DEF StartupFinds, BeginCheck, ReadClock, history
  <2>2. QED
    BY <1>1, <2>1
<1>10. CASE Seed
  <2>1. Pending(c) /\ UNCHANGED <<quiet, behind, lag>> /\ ppc' # "observe"
    BY <1>10, TurnEnds DEF Seed, history, IInv
  <2>2. QED
    BY <1>3, <2>1
<1>11. CASE Observe
  <2>1. Pending(c) /\ UNCHANGED <<cursor, sequence, quiet, behind, lag>> /\ ppc = "observe"
    BY <1>11, TurnEnds, ObserveElsewhere DEF IInv
  <2>2. Stalls(c)' => Stalls(c)
    <3>1. CASE c # Required[at]
      BY <1>11, <2>1, <3>1, OtherEntry
      DEF Stalls, Healthy, Advanced, CaughtUp, IInv
    <3>2. CASE c = Required[at] /\ Healthy(c)
      <4>1. idle'[c] = 0
        BY <1>11, <3>2, ObservedEntry DEF IInv
      <4>2. QED
        BY <4>1, Times DEF Stalls
    <3>3. CASE c = Required[at] /\ ~Healthy(c)
      <4>1. idle'[c] = idle[c] /\ last_observed_sequence'[c] = last_observed_sequence[c]
        BY <1>11, <3>3, ObservedEntry DEF IInv, Healthy
      <4>2. QED
        BY <2>1, <4>1 DEF Stalls, Healthy, Advanced, CaughtUp
    <3>4. QED
      BY <3>1, <3>2, <3>3
  <2>3. QED
    BY <1>3, <2>1, <2>2
<1>12. CASE Publish
  BY <1>4, <1>12 DEF Publish, Return
<1>13. CASE UNCHANGED vars
  <2>1. Pending(c) /\ Stalls(c)' = Stalls(c)
    BY <1>13 DEF vars, Pending, Stalls, Healthy, Advanced, CaughtUp, watch, progress
  <2>2. QED
    BY <1>3, <1>13, <2>1 DEF vars, history
<1>14. QED
  BY <1>4, <1>6, <1>7, <1>8, <1>9, <1>10, <1>11, <1>12, <1>13, QuietSteps DEF Next, CallStep

-----------------------------------------------------------------------------
(* An alert is remembered. *)

LEMMA AlertsPreserved == IInv /\ [Next]_vars => AlertRemembered'
<1> SUFFICES ASSUME IInv, [Next]_vars, NEW c \in Consumers, alerts'[c] # 0
             PROVE  /\ alerts'[c] = 1 /\ startup_completed'
                    /\ last_observed_sequence'[c] = cursor'[c]
                    /\ alert_emitted'[c] /\ cursor'[c] < sequence' - 1
  BY DEF AlertRemembered
<1>1. /\ cursor[c] \in Int /\ last_observed_sequence[c] \in Int /\ sequence \in Int
      /\ n \in Nat /\ alerts[c] \in 0..2
  BY Ranges DEF IInv
<1>2. alerts[c] # 0 =>
          /\ alerts[c] = 1 /\ startup_completed
          /\ last_observed_sequence[c] = cursor[c]
          /\ alert_emitted[c] /\ cursor[c] < sequence - 1
  BY DEF IInv, AlertRemembered
<1>3. cursor \in [Consumers -> Int] /\ alerts \in [Consumers -> 0..2]
  BY Ranges DEF IInv, TypeOK
<1>4. ASSUME NEW d \in Consumers, Appear(d) PROVE FALSE
  BY <1>2, <1>4 DEF Appear, IInv, CallConsistent, Missing
<1>5. ASSUME NEW d \in Consumers, Advance(d)
      PROVE  /\ alerts'[c] = 1 /\ startup_completed'
             /\ last_observed_sequence'[c] = cursor'[c]
             /\ alert_emitted'[c] /\ cursor'[c] < sequence' - 1
  <2>1. d # c /\ cursor'[c] = cursor[c] /\ alerts'[c] = alerts[c]
    BY <1>3, <1>5 DEF Advance
  <2>2. UNCHANGED <<sequence, startup_completed, progress>>
    BY <1>5 DEF Advance, watch
  <2>3. QED
    BY <1>2, <2>1, <2>2 DEF progress
<1>6. CASE Tick
  BY <1>2, <1>6 DEF Tick, watch, progress
<1>7. CASE StartupFinds \/ BeginCheck
  <2>1. UNCHANGED <<cursor, sequence, startup_completed, last_observed_sequence,
                    alert_emitted, alerts>>
    BY <1>7 DEF StartupFinds, BeginCheck, history
  <2>2. QED
    BY <1>2, <2>1
<1>8. CASE Seed
  <2>1. alerts'[c] = alerts[c] /\ ~startup_completed
    BY <1>8 DEF Seed, history, IInv, CallConsistent
  <2>2. QED
    BY <1>2, <2>1
<1>9. CASE Observe
  <2>1. /\ cursor' = cursor /\ sequence' = sequence /\ startup_completed'
        /\ startup_completed
    BY <1>9, ObserveElsewhere DEF IInv, CallConsistent
  <2>2. CASE c # Required[at]
    <3>1. alerts'[c] = alerts[c] /\ last_observed_sequence'[c] = last_observed_sequence[c]
          /\ alert_emitted'[c] = alert_emitted[c]
      BY <1>9, <2>2, OtherEntry DEF IInv
    <3>2. QED
      BY <1>2, <2>1, <3>1
  <2>3. CASE c = Required[at]
    <3>1. /\ last_observed_sequence'[c] =
                  (IF Advanced(c) THEN cursor[c] ELSE last_observed_sequence[c])
          /\ alerts'[c] = (IF NewAlert(c) THEN Pass(alerts[c], 2) ELSE alerts[c])
      BY <1>9, <2>3, ObservedEntry DEF IInv
    <3>2. alert_emitted'[c] = (~Healthy(c) /\ (alert_emitted[c] \/ NewAlert(c)))
      <4>1. TypeOK
        BY DEF IInv
      <4>2. QED
        BY <1>9, <2>3, <4>1, ObservedEntry, Zenon
    <3>3. CASE NewAlert(c)
      <4>1. /\ Stalls(c) /\ ~alert_emitted[c] /\ ~Healthy(c)
        BY <3>3 DEF NewAlert, Stalls
      <4>2. last_observed_sequence[c] = cursor[c] /\ cursor[c] < sequence - 1
        BY <1>9, <2>3, <4>1, StallIsReal DEF HasEvents
      <4>3. alerts'[c] = 1
        BY <1>1, <1>2, <3>1, <3>3, <4>1 DEF Pass
      <4>4. alert_emitted'[c]
        BY <3>2, <3>3, <4>1, Zenon
      <4>5. last_observed_sequence'[c] = cursor[c]
        BY <3>1, <4>2
      <4>6. QED
        BY <2>1, <4>2, <4>3, <4>4, <4>5
    <3>4. CASE ~NewAlert(c)
      <4>1. /\ alerts'[c] = 1 /\ last_observed_sequence[c] = cursor[c]
            /\ cursor[c] < sequence - 1
        BY <1>2, <3>1, <3>4
      <4>2. alert_emitted[c]
        BY <1>2, <3>1, <3>4
      <4>3. ~Healthy(c)
        BY <1>1, <4>1 DEF Healthy, Advanced, CaughtUp
      <4>4. alert_emitted'[c]
        BY <3>2, <4>2, <4>3, Zenon
      <4>5. last_observed_sequence'[c] = cursor[c]
        BY <3>1, <4>1
      <4>6. QED
        BY <2>1, <4>1, <4>4, <4>5
    <3>5. QED
      BY <3>3, <3>4
  <2>4. QED
    BY <2>2, <2>3
<1>10. CASE Publish
  BY <1>1, <1>2, <1>10 DEF Publish, watch, progress, history
<1>11. CASE UNCHANGED <<cursor, sequence, startup_completed, progress, history, lag>>
  BY <1>2, <1>11 DEF progress, history
<1>12. QED
  BY <1>4, <1>5, <1>6, <1>7, <1>8, <1>9, <1>10, <1>11, QuietSteps DEF Next, CallStep

-----------------------------------------------------------------------------
(* The theorems. *)

\* Although a check reads the clock before it loads the cursors, what the watch
\* remembers is never worse than what its consumers did, but for the pause in
\* between (evaluate_blocked, observe_progress, seed_progress), in every state.
THEOREM InvariantHolds == Spec => []IInv
<1>1. IInv /\ [Next]_vars => IInv'
  BY TypePreserved, CallConsistentPreserved, ProgressPreserved, CheckDatedPreserved,
     AlertsPreserved DEF IInv
<1>2. QED
  BY InitEstablishes, <1>1, PTL DEF Spec

\* One stall raises one alert (alert_emitted of RequiredConsumerProgress).
THEOREM AlertsOnce == Spec => []OneAlertPerStall
<1>1. IInv => OneAlertPerStall
  <2> SUFFICES ASSUME IInv, NEW c \in Consumers PROVE alerts[c] <= 1
    BY DEF OneAlertPerStall
  <2>1. alerts[c] = 0 \/ alerts[c] = 1
    BY DEF IInv, AlertRemembered
  <2>2. QED
    BY <2>1
<1>2. QED
  BY <1>1, InvariantHolds, PTL

\* A call fails only over a consumer that had events to read for the whole grace
\* period, and did not move for progress_timeout and the grace period before the clock
\* reading its progress is dated with (evaluate_blocked, observe_progress).
THEOREM OnlyStalledAreBlamed == Spec => FailureIsReal
<1> DEFINE Justified ==
        \A c \in Consumers :
            terminal_error' = c /\ terminal_error # c =>
                /\ quiet[c] >= ProgressTimeout + Grace
                /\ behind[c] >= Grace /\ HasEvents(c)
<1>1. IInv /\ [Next]_vars => [Justified]_vars
  <2> SUFFICES ASSUME IInv, [Next]_vars, NEW c \in Consumers,
                      terminal_error' = c, terminal_error # c
               PROVE  /\ quiet[c] >= ProgressTimeout + Grace
                      /\ behind[c] >= Grace /\ HasEvents(c)
    OBVIOUS
  <2>1. CASE Observe
    <3>1. c = Required[at] /\ Expired(c)
      BY <2>1, ObserveElsewhere
    <3>2. Stalls(c)
      BY <3>1 DEF Expired
    <3>3. QED
      BY <2>1, <3>1, <3>2, StallIsReal
  <2>2. CASE ~Observe
    <3>1. terminal_error' = terminal_error
      BY <2>2 DEF Next, CallStep, Appear, Advance, Tick, Call, StartupFinds, StartupMisses,
                  StartupPolls, StartupFails, Seed, Publish, RingFull, TooEarly, FailAgain,
                  BeginCheck, vars, watch
    <3>2. QED
      BY <3>1
  <2>3. QED
    BY <2>1, <2>2
<1>2. QED
  BY <1>1, InvariantHolds, PTL DEF Spec, FailureIsReal

=============================================================================
